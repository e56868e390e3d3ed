--------------------------- MODULE LayerStoreProofs ---------------------------
(***************************************************************************)
(* Theorems about LayerStore, for every set of processes, layers, images   *)
(* and tars.                                                               *)
(***************************************************************************)
EXTENDS LayerStore, TLAPS

-----------------------------------------------------------------------------
(* Typing. *)

\* A process that is not idle works on a layer of the store.
LEMMA LayerType ==
    ASSUME TypeOK, NEW p \in Procs, pc[p] # "idle"
    PROVE  Layer(p) \in Layers
BY ImagesAssumption DEF TypeOK, AtWork, Locals, Layer

\* An element of a sequence over S is in S.
LEMMA ElementType ==
    ASSUME NEW S, NEW s \in Seq(S), NEW i \in 1..Len(s)
    PROVE  s[i] \in S
OBVIOUS

\* The entry under a header has a kind and a size.
LEMMA EntryType ==
    ASSUME TypeOK, NEW p \in Procs, pc[p] = "stream", op[p].pos > 0
    PROVE  Entry(p) \in [kind : Kinds, size : Nat]
<1>1. Layer(p) \in Layers
  BY LayerType
<1>2. Tar[Layer(p)] \in Seq([kind : Kinds, size : Nat])
  BY <1>1, TarAssumption
<1>3. op[p].pos \in 1..Len(Tar[Layer(p)])
  BY <1>2 DEF TypeOK, AtWork
<1> QED
  BY <1>2, <1>3, ElementType DEF Entry

LEMMA InitType == Init => TypeOK
BY EnvAssumption DEF Init, TypeOK, OldLayer, Absent, Whole, Fresh, NoWriter, Labels, Results, FileStates, LayerDirs, Locals, Writers, AtWork


ControlOK ==
    /\ pc \in [Procs -> Labels]
    /\ op \in [Procs -> Locals]
    /\ \A q \in Procs : AtWork(q)

\* A step that moves only p keeps the other processes at work.
LEMMA OthersAtWork ==
    ASSUME TypeOK, NEW p \in Procs, NEW q \in Procs \ {p},
           pc'[q] = pc[q], op'[q] = op[q]
    PROVE  AtWork(q)'
BY DEF TypeOK, AtWork, Layer

\* p goes from one call to another that is neither the end nor the tar loop.
LEMMA GotoType ==
    ASSUME TypeOK, NEW p \in Procs, pc[p] # "idle",
           NEW at \in Labels \ {"idle", "stream"}, Goto(p, at), UNCHANGED op
    PROVE  ControlOK'
<1>1. pc' \in [Procs -> Labels]
  BY DEF TypeOK, Goto
<1>2. AtWork(p)'
  BY DEF TypeOK, AtWork, Goto, Layer
<1>3. \A q \in Procs \ {p} : AtWork(q)'
  BY OthersAtWork DEF TypeOK, Goto
<1> QED
  BY <1>1, <1>2, <1>3 DEF ControlOK, TypeOK

\* p returns from Unpack.
LEMMA ReturnType ==
    ASSUME TypeOK, NEW p \in Procs, pc[p] # "idle",
           NEW at \in Labels \ {"idle", "stream"}, NEW r \in Results, Return(p, at, r)
    PROVE  ControlOK'
<1>1. pc' \in [Procs -> Labels]
  BY DEF TypeOK, Return, Goto
<1>2. op' \in [Procs -> Locals]
  BY DEF TypeOK, Return, Locals
<1>3. AtWork(p)'
  BY DEF TypeOK, AtWork, Return, Goto, Layer, Locals
<1>4. \A q \in Procs \ {p} : AtWork(q)'
  BY OthersAtWork DEF TypeOK, Return, Goto
<1> QED
  BY <1>1, <1>2, <1>3, <1>4 DEF ControlOK

\* p's pull ends.
LEMMA FinishType ==
    ASSUME TypeOK, NEW p \in Procs, NEW r \in Results, NEW t \in Nat, Finish(p, r, t)
    PROVE  ControlOK'
<1>1. pc' \in [Procs -> Labels]
  BY DEF TypeOK, Finish, Goto, Labels
<1>2. op' \in [Procs -> Locals]
  BY DEF TypeOK, Finish, Locals, Fresh
<1>3. AtWork(p)'
  BY DEF TypeOK, AtWork, Finish, Goto
<1>4. \A q \in Procs \ {p} : AtWork(q)'
  BY OthersAtWork DEF TypeOK, Finish, Goto
<1> QED
  BY <1>1, <1>2, <1>3, <1>4 DEF ControlOK

\* p stays at work with other locals.
LEMMA LocalsType ==
    ASSUME TypeOK, NEW p \in Procs, NEW at \in Labels, NEW rec \in Locals,
           Goto(p, at), op' = [op EXCEPT ![p] = rec],
           rec.img \in Images, rec.idx \in 1..Len(rec.img),
           at = "stream" => rec.pos \in 0..Len(Tar[rec.img[rec.idx]])
    PROVE  ControlOK'
<1>1. pc' \in [Procs -> Labels] /\ pc'[p] = at
  BY DEF TypeOK, Goto
<1>2. op' \in [Procs -> Locals] /\ op'[p] = rec
  BY DEF TypeOK
<1>3. AtWork(p)'
  BY <1>1, <1>2 DEF AtWork, Layer
<1>4. \A q \in Procs \ {p} : AtWork(q)'
  BY OthersAtWork DEF TypeOK, Goto
<1> QED
  BY <1>1, <1>2, <1>3, <1>4 DEF ControlOK

\* One more header, or the end of the tar.
LEMMA AdvanceType ==
    ASSUME TypeOK, NEW p \in Procs, pc[p] = "stream", NEW size \in Nat, Advance(p, size)
    PROVE  ControlOK'
<1> DEFINE more == op[p].pos < Len(Tar[Layer(p)])
           next == IF more THEN op[p].pos + 1 ELSE op[p].pos
           rec == [op[p] EXCEPT !.pos = next, !.size = size]
<1>1. Layer(p) \in Layers /\ Len(Tar[Layer(p)]) \in Nat
  BY LayerType, TarAssumption
<1>2. op[p] \in Locals /\ AtWork(p)
  BY DEF TypeOK
<1>a. next \in Nat /\ next \in 0..Len(Tar[Layer(p)])
  BY <1>1, <1>2 DEF AtWork, Locals
<1>6. op' = [op EXCEPT ![p] = rec]
  BY DEF Advance
<1> HIDE DEF next
<1>3. rec \in Locals
  BY <1>2, <1>a DEF Locals
<1>4. rec.img = op[p].img /\ rec.idx = op[p].idx /\ rec.pos = next
  BY <1>2 DEF Locals
<1>5. rec.pos \in 0..Len(Tar[Layer(p)])
  BY <1>4, <1>a
<1>7. rec.img \in Images /\ rec.idx \in 1..Len(rec.img)
  BY <1>2, <1>4 DEF AtWork
<1>8. rec.pos \in 0..Len(Tar[rec.img[rec.idx]])
  BY <1>4, <1>5 DEF Layer
<1> HIDE DEF rec
<1>9. CASE more
  BY <1>3, <1>6, <1>7, <1>8, <1>9, LocalsType DEF Advance, Labels, Unpacking
<1>10. CASE ~more
  BY <1>3, <1>6, <1>7, <1>10, LocalsType DEF Advance, Labels, Unpacking
<1> QED
  BY <1>9, <1>10

\* A layer directory that gains files, or keeps some, is still one.
LEMMA FilesType ==
    ASSUME TypeOK, NEW l \in Layers, NEW F \in SUBSET FileStates,
           disk' = [disk EXCEPT ![l].files = F]
    PROVE  disk' \in [Layers -> LayerDirs]
<1>1. disk[l] \in LayerDirs
  BY DEF TypeOK
<1>2. [disk[l] EXCEPT !.files = F] \in LayerDirs
  BY <1>1 DEF LayerDirs
<1> QED
  BY <1>2 DEF TypeOK

\* So is one whose directory is made, whose size file changes, or that is finished.
LEMMA FieldsType ==
    ASSUME TypeOK, NEW l \in Layers, NEW s \in Nat \cup {NoFile, Torn},
           \/ disk' = [disk EXCEPT ![l] = [disk[l] EXCEPT !.dir = TRUE]]
           \/ disk' = [disk EXCEPT ![l].finished = TRUE]
           \/ disk' = [disk EXCEPT ![l] = [disk[l] EXCEPT !.size = s]]
    PROVE  disk' \in [Layers -> LayerDirs]
<1>1. disk[l] \in LayerDirs
  BY DEF TypeOK
<1>2. /\ [disk[l] EXCEPT !.dir = TRUE] \in LayerDirs
      /\ [disk[l] EXCEPT !.finished = TRUE] \in LayerDirs
      /\ [disk[l] EXCEPT !.size = s] \in LayerDirs
  BY <1>1 DEF LayerDirs
<1> QED
  BY <1>2 DEF TypeOK

\* The entry that goes through the writer.
LEMMA PutType ==
    ASSUME TypeOK, NEW p \in Procs, pc[p] = "stream", NEW state \in {"whole", "cut"},
           NEW current \in Nat, NEW failed \in BOOLEAN, Put(p, state, current, failed)
    PROVE  disk' \in [Layers -> LayerDirs] /\ writer' \in [Procs -> Writers]
<1>1. Layer(p) \in Layers
  BY LayerType
<1>2. <<op[p].pos, state>> \in FileStates
  BY DEF TypeOK, Locals, FileStates
<1>3. CASE IsBase(p)
  <2>1. disk' \in [Layers -> LayerDirs]
    <3>1. disk[Layer(p)].files \cup {<<op[p].pos, state>>} \in SUBSET FileStates
      BY <1>1, <1>2 DEF TypeOK, LayerDirs
    <3> QED
      BY <1>1, <1>3, <3>1, FilesType DEF Put
  <2>2. writer' \in [Procs -> Writers]
    BY <1>3 DEF Put, TypeOK, Writers
  <2> QED
    BY <2>1, <2>2
<1>4. CASE ~IsBase(p)
  <2> DEFINE S == writer[p].staged \cup {<<op[p].pos, state>>}
             rec == [writer[p] EXCEPT !.staged = S, !.err = failed]
  <2>1. writer[p] \in Writers /\ S \in SUBSET FileStates
    BY <1>2 DEF TypeOK, Writers
  <2>2. rec \in Writers
    BY <2>1 DEF Writers
  <2>3. writer' = [writer EXCEPT ![p] = rec]
    BY <1>4 DEF Put
  <2>4. UNCHANGED disk
    BY <1>4 DEF Put
  <2> QED
    BY <2>2, <2>3, <2>4 DEF TypeOK
<1> QED
  BY <1>3, <1>4

\* What a failed removal leaves is a layer directory.
LEMMA PartType ==
    ASSUME TypeOK, NEW l \in Layers
    PROVE  PartlyRemoved(l) \subseteq LayerDirs
<1>1. disk[l] \in LayerDirs
  BY DEF TypeOK
<1>2. ASSUME NEW kept \in SUBSET disk[l].files, NEW s \in {disk[l].size, NoFile}
      PROVE  [disk[l] EXCEPT !.files = kept \cup (disk[l].files \cap HeldFiles(l)),
                             !.finished = FALSE, !.size = s] \in LayerDirs
  <2> DEFINE F == kept \cup (disk[l].files \cap HeldFiles(l))
  <2>1. F \in SUBSET FileStates
    BY <1>1 DEF LayerDirs
  <2> HIDE DEF F
  <2>2. [disk[l] EXCEPT !.files = F, !.finished = FALSE, !.size = s] \in LayerDirs
    BY <1>1, <2>1 DEF LayerDirs
  <2> QED
    BY <2>2 DEF F
<1> DEFINE Sizes == {disk[l].size} \cup (IF SizeFileOpen(l) THEN {} ELSE {NoFile})
           Part(kept, s) == [disk[l] EXCEPT !.files = kept \cup (disk[l].files \cap HeldFiles(l)),
                                            !.finished = FALSE, !.size = s]
<1>3. PartlyRemoved(l) = {disk[l]} \cup {Part(kept, s) : kept \in SUBSET disk[l].files, s \in Sizes}
  BY DEF PartlyRemoved
<1>4. Sizes \subseteq {disk[l].size, NoFile}
  OBVIOUS
<1> HIDE DEF Sizes
<1>5. \A kept \in SUBSET disk[l].files, s \in Sizes : Part(kept, s) \in LayerDirs
  BY <1>2, <1>4
<1> HIDE DEF Part
<1> QED
  BY <1>1, <1>3, <1>5

\* The import of staged files leaves a layer directory.
LEMMA StagedType ==
    ASSUME TypeOK, NEW p \in Procs, Layer(p) \in Layers, CloseStaged(p)
    PROVE  disk' \in [Layers -> LayerDirs]
<1> DEFINE l == Layer(p)
<1>1. disk[l] \in LayerDirs /\ writer[p] \in Writers
  BY DEF TypeOK
<1>2. CASE disk' = [disk EXCEPT ![l].dir = TRUE, ![l].files = @ \cup writer[p].staged,
                                ![l].finished = TRUE]
  <2> DEFINE F == disk[l].files \cup writer[p].staged
  <2>1. F \in SUBSET FileStates
    BY <1>1 DEF LayerDirs, Writers
  <2>2. disk' = [disk EXCEPT ![l] = [disk[l] EXCEPT !.dir = TRUE, !.files = F,
                                                    !.finished = TRUE]]
    BY <1>2 DEF TypeOK
  <2> HIDE DEF F
  <2>3. [disk[l] EXCEPT !.dir = TRUE, !.files = F, !.finished = TRUE] \in LayerDirs
    BY <1>1, <2>1 DEF LayerDirs
  <2> QED
    BY <2>2, <2>3 DEF TypeOK
<1>3. ASSUME NEW part \in SUBSET writer[p].staged,
             disk' = [disk EXCEPT ![l].files = IF disk[l].dir THEN @ \cup part ELSE @]
      PROVE  disk' \in [Layers -> LayerDirs]
  <2> DEFINE F == IF disk[l].dir THEN disk[l].files \cup part ELSE disk[l].files
  <2>1. F \in SUBSET FileStates
    BY <1>1, <1>3 DEF LayerDirs, Writers
  <2>2. disk' = [disk EXCEPT ![l].files = F]
    BY <1>3
  <2> HIDE DEF F
  <2> QED
    BY <2>1, <2>2, FilesType
<1>4. CASE UNCHANGED disk
  BY <1>4 DEF TypeOK
<1> QED
  BY <1>2, <1>3, <1>4 DEF CloseStaged

\* Every step of a process keeps the types.
LEMMA StepType ==
    ASSUME TypeOK, NEW p \in Procs, Step(p)
    PROVE  TypeOK'
<1> USE DEF Labels, Unpacking, Results
<1>0. pc[p] # "idle"
  BY DEF Step, LayerExists, EnableProcessPrivileges, ReadSize, DestroyLayer, MkdirAll, DiskCall,
         NewLayerWriter, FirstHeader, WriteEntry, EntryFails, StreamFails, ContentFails,
         CreateSizeFile, WriteSizeFile, CloseWriter, DisableProcessPrivileges
<1>l. Layer(p) \in Layers /\ disk[Layer(p)] \in LayerDirs
  BY <1>0, LayerType DEF TypeOK
<1>o. op[p] \in Locals /\ AtWork(p)
  BY DEF TypeOK
<1>1. CASE LayerExists(p)
  <2>1. CASE Finish(p, "error", 0)
    BY <1>1, <2>1, FinishType DEF LayerExists, TypeOK, ControlOK
  <2>2. CASE Goto(p, "elevate") /\ op' = [op EXCEPT ![p].exists = disk[Layer(p)].dir]
    <3> DEFINE rec == [op[p] EXCEPT !.exists = disk[Layer(p)].dir]
    <3>1. rec \in Locals /\ rec.img = op[p].img /\ rec.idx = op[p].idx
      BY <1>l, <1>o DEF Locals, LayerDirs
    <3>2. op' = [op EXCEPT ![p] = rec]
      BY <2>2
    <3> HIDE DEF rec
    <3>3. ControlOK'
      BY <1>0, <1>o, <2>2, <3>1, <3>2, LocalsType DEF AtWork
    <3> QED
      BY <1>1, <3>3 DEF LayerExists, TypeOK, ControlOK
  <2> QED
    BY <1>1, <2>1, <2>2 DEF LayerExists
<1>2. CASE EnableProcessPrivileges(p)
  <2>1. ControlOK'
    BY <1>0, <1>2, FinishType, GotoType DEF EnableProcessPrivileges, PrivilegesRefused
  <2>2. priv' \in [Procs -> BOOLEAN]
    BY <1>2 DEF EnableProcessPrivileges, TypeOK
  <2> QED
    BY <1>2, <2>1, <2>2 DEF EnableProcessPrivileges, TypeOK, ControlOK
<1>3. CASE ReadSize(p)
  <2>1. ControlOK'
    <3>1. CASE SizeMissing(p)
      BY <1>0, <3>1, GotoType DEF SizeMissing
    <3>2. CASE Return(p, "drop", "error")
      BY <1>0, <3>2, ReturnType
    <3>3. CASE /\ disk[Layer(p)].size \in Nat
               /\ Goto(p, "drop")
               /\ op' = [op EXCEPT ![p].size = disk[Layer(p)].size]
      <4> DEFINE rec == [op[p] EXCEPT !.size = disk[Layer(p)].size]
      <4>1. rec \in Locals /\ rec.img = op[p].img /\ rec.idx = op[p].idx
        BY <1>o, <3>3 DEF Locals
      <4>2. op' = [op EXCEPT ![p] = rec]
        BY <3>3
      <4> HIDE DEF rec
      <4> QED
        BY <1>0, <1>o, <3>3, <4>1, <4>2, LocalsType DEF AtWork
    <3> QED
      BY <1>3, <3>1, <3>2, <3>3 DEF ReadSize, SizeUnreadable
  <2> QED
    BY <1>3, <2>1 DEF ReadSize, TypeOK, ControlOK
<1>4. CASE DestroyLayer(p)
  <2>1. CASE /\ disk' = [disk EXCEPT ![Layer(p)] = Absent]
             /\ writer' = [q \in Procs |-> IF writer[q].open /\ Layer(q) = Layer(p)
                                             THEN [writer[q] EXCEPT !.root = FALSE]
                                             ELSE writer[q]]
             /\ Goto(p, "mkdir")
             /\ op' = [op EXCEPT ![p].tries = 0]
    <3>1. disk' \in [Layers -> LayerDirs]
      BY <1>l, <2>1 DEF TypeOK, Absent, LayerDirs
    <3>2. writer' \in [Procs -> Writers]
      BY <2>1 DEF TypeOK, Writers
    <3> DEFINE rec == [op[p] EXCEPT !.tries = 0]
    <3>3. rec \in Locals /\ rec.img = op[p].img /\ rec.idx = op[p].idx
      BY <1>o DEF Locals
    <3>4. op' = [op EXCEPT ![p] = rec]
      BY <2>1
    <3> HIDE DEF rec
    <3>5. ControlOK'
      BY <1>0, <1>o, <2>1, <3>3, <3>4, LocalsType DEF AtWork
    <3> QED
      BY <1>4, <3>1, <3>2, <3>5 DEF DestroyLayer, TypeOK, ControlOK
  <2>2. CASE /\ \E left \in PartlyRemoved(Layer(p)) : disk' = [disk EXCEPT ![Layer(p)] = left]
             /\ UNCHANGED writer
             /\ IF op[p].tries + 1 < Attempts
                  THEN op' = [op EXCEPT ![p].tries = @ + 1] /\ UNCHANGED pc
                  ELSE \E r \in {"error", "panic"} : Return(p, "drop", r)
    <3>1. disk' \in [Layers -> LayerDirs]
      BY <1>l, <2>2, PartType DEF TypeOK
    <3>2. ControlOK'
      <4>1. CASE op[p].tries + 1 < Attempts
        <5> DEFINE rec == [op[p] EXCEPT !.tries = @ + 1]
        <5>1. op[p].tries + 1 \in 0..2
          BY <1>o, <4>1 DEF Locals, Attempts
        <5>2. rec \in Locals /\ rec.img = op[p].img /\ rec.idx = op[p].idx
          BY <1>o, <5>1 DEF Locals
        <5>3. op' = [op EXCEPT ![p] = rec]
          BY <2>2, <4>1
        <5> HIDE DEF rec
        <5>4. Goto(p, "destroy")
          BY <1>4, <2>2, <4>1 DEF Goto, DestroyLayer, TypeOK
        <5> QED
          BY <1>0, <1>o, <5>2, <5>3, <5>4, LocalsType DEF AtWork
      <4>2. CASE ~(op[p].tries + 1 < Attempts)
        BY <1>0, <2>2, <4>2, ReturnType
      <4> QED
        BY <4>1, <4>2
    <3> QED
      BY <1>4, <2>2, <3>1, <3>2 DEF DestroyLayer, TypeOK, ControlOK
  <2> QED
    BY <1>4, <2>1, <2>2 DEF DestroyLayer
<1>5. CASE MkdirAll(p)
  <2>1. ControlOK'
    BY <1>0, <1>5, GotoType, ReturnType DEF MkdirAll, DiskCall
  <2>2. disk' \in [Layers -> LayerDirs]
    BY <1>5, <1>l, FieldsType DEF MkdirAll, DiskCall, TypeOK
  <2> QED
    BY <1>5, <2>1, <2>2 DEF MkdirAll, DiskCall, TypeOK, ControlOK
<1>7. CASE FirstHeader(p)
  BY <1>7, AdvanceType DEF FirstHeader, TypeOK, ControlOK
<1>9. CASE EntryFails(p)
  <2>1. ControlOK'
    BY <1>0, <1>9, ReturnType DEF EntryFails, EntryRefused
  <2>2. writer' \in [Procs -> Writers]
    <3>1. PICK failed \in BOOLEAN :
              writer' = [writer EXCEPT ![p].err = failed, ![p].file = IF failed THEN 0 ELSE @]
      BY <1>9 DEF EntryFails
    <3> DEFINE current == IF failed THEN 0 ELSE writer[p].file
               rec == [writer[p] EXCEPT !.err = failed, !.file = current]
    <3>2. writer[p] \in Writers /\ current \in Nat
      BY DEF TypeOK, Writers
    <3>3. writer' = [writer EXCEPT ![p] = rec]
      BY <3>1 DEF TypeOK
    <3> HIDE DEF current
    <3>4. rec \in Writers
      BY <3>2 DEF Writers
    <3> QED
      BY <3>3, <3>4 DEF TypeOK
  <2> QED
    BY <1>9, <2>1, <2>2 DEF EntryFails, TypeOK, ControlOK
<1>12. CASE CreateSizeFile(p)
  <2>1. ControlOK'
    BY <1>0, <1>12, GotoType, ReturnType DEF CreateSizeFile, DiskCall
  <2>2. disk' \in [Layers -> LayerDirs]
    BY <1>12, <1>l, FieldsType DEF CreateSizeFile, DiskCall, TypeOK
  <2> QED
    BY <1>12, <2>1, <2>2 DEF CreateSizeFile, DiskCall, TypeOK, ControlOK
<1>13. CASE WriteSizeFile(p)
  <2>1. ControlOK'
    BY <1>0, <1>13, GotoType, ReturnType DEF WriteSizeFile, DiskCall
  <2>2. disk' \in [Layers -> LayerDirs]
    <3>1. op[p].size \in Nat
      BY <1>o DEF Locals
    <3> QED
      BY <1>13, <1>l, <3>1, FieldsType DEF WriteSizeFile, DiskCall, TypeOK
  <2> QED
    BY <1>13, <2>1, <2>2 DEF WriteSizeFile, DiskCall, TypeOK, ControlOK
<1>6. CASE NewLayerWriter(p)
  <2>1. CASE Return(p, "drop", "error") /\ UNCHANGED writer
    BY <1>0, <1>6, <2>1, ReturnType DEF NewLayerWriter, TypeOK, ControlOK
  <2>2. CASE /\ writer' = [writer EXCEPT ![p] = [NoWriter EXCEPT !.open = TRUE, !.root = TRUE]]
             /\ Goto(p, "stream")
             /\ op' = [op EXCEPT ![p].pos = 0, ![p].size = 0]
    <3> DEFINE rec == [op[p] EXCEPT !.pos = 0, !.size = 0]
    <3>1. rec \in Locals /\ rec.img = op[p].img /\ rec.idx = op[p].idx /\ rec.pos = 0
      BY <1>o DEF Locals
    <3>2. op' = [op EXCEPT ![p] = rec]
      BY <2>2 DEF TypeOK
    <3> HIDE DEF rec
    <3>3. rec.pos \in 0..Len(Tar[rec.img[rec.idx]])
      BY <1>l, <3>1, TarAssumption DEF Layer
    <3>4. ControlOK'
      BY <1>0, <1>o, <2>2, <3>1, <3>2, <3>3, LocalsType DEF AtWork
    <3>5. writer' \in [Procs -> Writers]
      BY <2>2 DEF TypeOK, Writers, NoWriter
    <3> QED
      BY <1>6, <3>4, <3>5 DEF NewLayerWriter, TypeOK, ControlOK
  <2> QED
    BY <1>6, <2>1, <2>2 DEF NewLayerWriter
<1>8. CASE WriteEntry(p)
  <2>1. Entry(p) \in [kind : Kinds, size : Nat]
    BY <1>8, EntryType DEF WriteEntry
  <2>2. op[p].size + EntrySize(Entry(p)) \in Nat
    BY <1>o, <2>1 DEF EntrySize, Locals
  <2>3. ControlOK'
    BY <1>8, <2>2, AdvanceType DEF WriteEntry
  <2>4. Current(p) \in Nat
    BY <1>o DEF Current, Locals
  <2>5. disk' \in [Layers -> LayerDirs] /\ writer' \in [Procs -> Writers]
    BY <1>8, <2>4, PutType DEF WriteEntry
  <2> QED
    BY <1>8, <2>3, <2>5 DEF WriteEntry, TypeOK, ControlOK
<1>10. CASE StreamFails(p)
  <2>1. ControlOK'
    BY <1>0, <1>10, ReturnType DEF StreamFails, StreamBroken
  <2>2. Current(p) \in Nat
    BY <1>o DEF Current, Locals
  <2>3. disk' \in [Layers -> LayerDirs] /\ writer' \in [Procs -> Writers]
    BY <1>10, <2>2, PutType DEF StreamFails, TypeOK
  <2> QED
    BY <1>10, <2>1, <2>3 DEF StreamFails, TypeOK, ControlOK
<1>11. CASE ContentFails(p)
  <2>1. ControlOK'
    BY <1>0, <1>11, ReturnType DEF ContentFails, StreamBroken
  <2>2. op[p].pos \in Nat
    BY <1>o DEF Locals
  <2>3. disk' \in [Layers -> LayerDirs] /\ writer' \in [Procs -> Writers]
    BY <1>11, <2>2, PutType DEF ContentFails
  <2> QED
    BY <1>11, <2>1, <2>3 DEF ContentFails, TypeOK, ControlOK
<1>14. CASE CloseWriter(p)
  <2>1. ControlOK'
    BY <1>0, <1>14, GotoType DEF CloseWriter
  <2>2. writer' \in [Procs -> Writers]
    BY <1>14 DEF CloseWriter, TypeOK, Writers, NoWriter
  <2>3. disk' \in [Layers -> LayerDirs]
    <3>1. CASE CloseBase(p)
      BY <1>l, <3>1, FieldsType DEF CloseBase, TypeOK
    <3>2. CASE CloseStaged(p)
      BY <1>l, <3>2, StagedType DEF TypeOK
    <3> QED
      BY <1>14, <3>1, <3>2 DEF CloseWriter
  <2> QED
    BY <1>14, <2>1, <2>2, <2>3 DEF CloseWriter, TypeOK, ControlOK
<1>15. CASE DisableProcessPrivileges(p)
  <2>1. priv' \in [Procs -> BOOLEAN]
    BY <1>15 DEF DisableProcessPrivileges, TypeOK
  <2>2. op[p].total + op[p].size \in Nat /\ op[p].result \in Results
    BY <1>o DEF Locals
  <2>3. ControlOK'
    <3>1. CASE Finish(p, op[p].result, 0)
      BY <2>2, <3>1, FinishType
    <3>2. CASE Finish(p, "ok", op[p].total + op[p].size)
      BY <2>2, <3>2, FinishType
    <3>3. CASE /\ op[p].idx < Len(op[p].img)
               /\ Goto(p, "exists")
               /\ op' = [op EXCEPT ![p] = Fresh(op[p].img, op[p].idx + 1,
                                                op[p].total + op[p].size, "run")]
      <4> DEFINE rec == Fresh(op[p].img, op[p].idx + 1, op[p].total + op[p].size, "run")
      <4>1. op[p].img \in Images /\ op[p].idx \in Nat /\ Len(op[p].img) \in Nat
        BY <1>0, <1>o, ImagesAssumption DEF AtWork, Locals
      <4>2. rec \in Locals /\ rec.img = op[p].img /\ rec.idx \in 1..Len(op[p].img)
        BY <2>2, <3>3, <4>1 DEF Fresh, Locals
      <4> HIDE DEF rec
      <4> QED
        BY <3>3, <4>1, <4>2, LocalsType DEF rec
    <3> QED
      BY <1>15, <3>1, <3>2, <3>3 DEF DisableProcessPrivileges, AfterUnpack, NextLayer
  <2> QED
    BY <1>15, <2>1, <2>3 DEF DisableProcessPrivileges, TypeOK, ControlOK
<1> QED
  BY <1>1, <1>2, <1>3, <1>4, <1>5, <1>6, <1>7, <1>8, <1>9, <1>10, <1>11, <1>12,
     <1>13, <1>14, <1>15 DEF Step

\* A new pull keeps the types.
LEMMA StartType ==
    ASSUME TypeOK, NEW p \in Procs, NEW i \in Images, Start(p, i)
    PROVE  TypeOK'
<1> USE DEF Labels, Results
<1>1. i \in Seq(Layers) /\ Len(i) \in Nat /\ 1 \in 1..Len(i)
  BY ImagesAssumption
<1>2. \A r \in {"run", "error"} : /\ Fresh(i, 1, 0, r) \in Locals
                                  /\ Fresh(i, 1, 0, r).img = i /\ Fresh(i, 1, 0, r).idx = 1
  BY DEF Fresh, Locals
<1>3. ControlOK'
  <2>1. CASE Goto(p, "exists") /\ op' = [op EXCEPT ![p] = Fresh(i, 1, 0, "run")]
    BY <1>1, <1>2, <2>1, LocalsType
  <2>2. CASE op' = [op EXCEPT ![p] = Fresh(i, 1, 0, "error")] /\ UNCHANGED pc
    <3>1. Goto(p, "idle")
      BY <2>2 DEF Start, Goto, TypeOK
    <3> QED
      BY <1>1, <1>2, <2>2, <3>1, LocalsType
  <2> QED
    BY <2>1, <2>2 DEF Start
<1>4. priv' \in [Procs -> BOOLEAN]
  BY DEF Start, TypeOK
<1> QED
  BY <1>3, <1>4 DEF Start, TypeOK, ControlOK

\* The death of a process keeps the types.
LEMMA CrashType ==
    ASSUME TypeOK, NEW p \in Procs, Crash(p)
    PROVE  TypeOK'
<1>1. ControlOK'
  BY FinishType DEF Crash, Results
<1>2. writer' \in [Procs -> Writers] /\ priv' \in [Procs -> BOOLEAN]
  BY DEF Crash, TypeOK, Writers, NoWriter
<1> QED
  BY <1>1, <1>2 DEF Crash, TypeOK, ControlOK

LEMMA NextType == TypeOK /\ [Next]_vars => TypeOK'
<1> SUFFICES ASSUME TypeOK, [Next]_vars PROVE TypeOK'
  OBVIOUS
<1>1. CASE Heal
  BY <1>1 DEF Heal, TypeOK, AtWork, Layer
<1>2. CASE UNCHANGED vars
  BY <1>2 DEF vars, TypeOK, AtWork, Layer
<1> QED
  BY <1>1, <1>2, StepType, StartType, CrashType DEF Next

\* Every behaviour of the layer store is well typed: processes work on layers of their
\* image and entries of the tar, and no removal takes more than three rounds.
THEOREM TypeCorrect == Spec => []TypeOK
BY InitType, NextType, PTL DEF Spec

-----------------------------------------------------------------------------
(***************************************************************************)
(* Privileges.  Everything between the grant and the deferred return of    *)
(* the privileges runs with them held, and a writer lives only there.      *)
(***************************************************************************)
PrivilegeInv ==
    \A p \in Procs : /\ pc[p] \in Unpacking \cup {"readsize"} => priv[p]
                     /\ writer[p].open => pc[p] \in {"stream", "sizecreate", "sizewrite", "close"}

LEMMA PrivilegeInit == Init => PrivilegeInv
BY DEF Init, PrivilegeInv, Unpacking, NoWriter

\* An entry that goes through a writer opens and closes no writer.
LEMMA PutKeepsWriters ==
    ASSUME TypeOK, NEW p \in Procs, NEW state, NEW current, NEW failed,
           Put(p, state, current, failed)
    PROVE  \A q \in Procs : writer'[q].open = writer[q].open
BY DEF TypeOK, Writers, Put

LEMMA PrivilegeStep ==
    ASSUME TypeOK, PrivilegeInv, NEW p \in Procs, Step(p)
    PROVE  PrivilegeInv'
<1> USE DEF PrivilegeInv, TypeOK, Unpacking, Goto, Return, Finish
<1>1. CASE LayerExists(p)
  BY <1>1 DEF LayerExists
<1>2. CASE EnableProcessPrivileges(p)
  BY <1>2 DEF EnableProcessPrivileges, PrivilegesRefused
<1>3. CASE ReadSize(p)
  BY <1>3 DEF ReadSize, SizeMissing, SizeUnreadable
<1>4. CASE DestroyLayer(p)
  BY <1>4 DEF DestroyLayer
<1>5. CASE MkdirAll(p)
  BY <1>5 DEF MkdirAll, DiskCall
<1>6. CASE NewLayerWriter(p)
  BY <1>6 DEF NewLayerWriter
<1>7. CASE FirstHeader(p)
  BY <1>7 DEF FirstHeader, Advance
<1>8. CASE WriteEntry(p)
  BY <1>8, PutKeepsWriters DEF WriteEntry, Advance
<1>9. CASE EntryFails(p)
  BY <1>9 DEF EntryFails, EntryRefused
<1>10. CASE StreamFails(p)
  <2>1. \A q \in Procs : writer'[q].open = writer[q].open
    BY <1>10, PutKeepsWriters DEF StreamFails
  <2> QED
    BY <1>10, <2>1 DEF StreamFails, StreamBroken
<1>11. CASE ContentFails(p)
  <2>1. \A q \in Procs : writer'[q].open = writer[q].open
    BY <1>11, PutKeepsWriters DEF ContentFails
  <2> QED
    BY <1>11, <2>1 DEF ContentFails, StreamBroken
<1>12. CASE CreateSizeFile(p)
  BY <1>12 DEF CreateSizeFile, DiskCall
<1>13. CASE WriteSizeFile(p)
  BY <1>13 DEF WriteSizeFile, DiskCall
<1>14. CASE CloseWriter(p)
  BY <1>14 DEF CloseWriter, NoWriter
<1>15. CASE DisableProcessPrivileges(p)
  BY <1>15 DEF DisableProcessPrivileges, AfterUnpack, NextLayer
<1> QED
  BY <1>1, <1>2, <1>3, <1>4, <1>5, <1>6, <1>7, <1>8, <1>9, <1>10, <1>11, <1>12,
     <1>13, <1>14, <1>15 DEF Step

LEMMA PrivilegeNext == TypeOK /\ PrivilegeInv /\ [Next]_vars => PrivilegeInv'
<1> SUFFICES ASSUME TypeOK, PrivilegeInv, [Next]_vars PROVE PrivilegeInv'
  OBVIOUS
<1>1. ASSUME NEW p \in Procs, NEW i \in Images, Start(p, i) PROVE PrivilegeInv'
  BY <1>1 DEF Start, Goto, PrivilegeInv, TypeOK, Unpacking
<1>2. ASSUME NEW p \in Procs, Crash(p) PROVE PrivilegeInv'
  BY <1>2 DEF Crash, Finish, Goto, PrivilegeInv, TypeOK, NoWriter, Unpacking
<1>3. CASE Heal
  BY <1>3 DEF Heal, PrivilegeInv
<1>4. CASE UNCHANGED vars
  BY <1>4 DEF vars, PrivilegeInv
<1> QED
  BY <1>1, <1>2, <1>3, <1>4, PrivilegeStep DEF Next

\* No process ever makes, uses or closes a layer writer without the backup and restore
\* privileges, as hcsshim demands of the caller of NewLayerWriter.
THEOREM WriterIsPrivileged == Spec => []PrivilegedWriter
<1>1. PrivilegeInv => PrivilegedWriter
  BY DEF PrivilegeInv, PrivilegedWriter, Unpacking
<1> QED
  BY <1>1, PrivilegeInit, PrivilegeNext, TypeCorrect, PTL DEF Spec

-----------------------------------------------------------------------------
(***************************************************************************)
(* Settled layers.  LayerExists looks for the directory and ReadSize for   *)
(* the size file, so that a layer with a size file is left alone needs the *)
(* size file to lie in a directory that is there, at every moment; and for *)
(* that a size file must not go away between its creation and its filling. *)
(***************************************************************************)
SizeFileInv ==
    /\ \A l \in Layers : disk[l].size # NoFile => disk[l].dir
    /\ \A p \in Procs : pc[p] = "sizewrite" => disk[Layer(p)].size # NoFile

\* A step of p leaves the control of the other processes alone.
LEMMA StepFrame ==
    ASSUME TypeOK, NEW p \in Procs, Step(p), NEW q \in Procs \ {p}
    PROVE  pc'[q] = pc[q] /\ op'[q] = op[q] /\ Layer(q)' = Layer(q)
<1>1. pc'[q] = pc[q] /\ op'[q] = op[q]
  BY DEF TypeOK, Goto, Return, Finish, Step, LayerExists, EnableProcessPrivileges,
         PrivilegesRefused, ReadSize, SizeMissing, SizeUnreadable, DestroyLayer, MkdirAll, DiskCall,
         NewLayerWriter, FirstHeader, Advance, WriteEntry, EntryFails, EntryRefused,
         StreamFails, StreamBroken, ContentFails, CreateSizeFile, WriteSizeFile,
         CloseWriter, DisableProcessPrivileges, AfterUnpack, NextLayer
<1> QED
  BY <1>1 DEF Layer

\* A pull goes on with the image it began with.
LEMMA StepKeepsImage ==
    ASSUME TypeOK, NEW p \in Procs, Step(p)
    PROVE  op'[p].img = op[p].img /\ env' = env
<1>1. op \in [Procs -> Locals]
  BY DEF TypeOK
<1>2. CASE LayerExists(p) \/ EnableProcessPrivileges(p) \/ ReadSize(p)
  BY <1>1, <1>2 DEF Locals, Return, Finish, Fresh, LayerExists, EnableProcessPrivileges,
         PrivilegesRefused, ReadSize, SizeMissing, SizeUnreadable
<1>3. CASE DestroyLayer(p) \/ MkdirAll(p) \/ NewLayerWriter(p)
  BY <1>1, <1>3 DEF Locals, Return, DestroyLayer, MkdirAll, DiskCall, NewLayerWriter
<1>4. CASE FirstHeader(p) \/ WriteEntry(p) \/ EntryFails(p) \/ StreamFails(p) \/ ContentFails(p)
  BY <1>1, <1>4 DEF Locals, Return, FirstHeader, Advance, WriteEntry, EntryFails, EntryRefused,
         StreamFails, StreamBroken, ContentFails
<1>5. CASE CreateSizeFile(p) \/ WriteSizeFile(p) \/ CloseWriter(p)
  BY <1>1, <1>5 DEF Locals, Return, DiskCall, CreateSizeFile, WriteSizeFile, CloseWriter
<1>6. CASE DisableProcessPrivileges(p)
  BY <1>1, <1>6 DEF Locals, Finish, Fresh, DisableProcessPrivileges, AfterUnpack, NextLayer
<1> QED
  BY <1>2, <1>3, <1>4, <1>5, <1>6 DEF Step

\* An entry adds to the files of a layer and leaves the rest of its directory alone.
LEMMA EntryEffect ==
    ASSUME TypeOK, NEW p \in Procs, WriteEntry(p) \/ StreamFails(p) \/ ContentFails(p),
           NEW l \in Layers
    PROVE  disk'[l].dir = disk[l].dir /\ disk'[l].size = disk[l].size
<1>1. disk \in [Layers -> LayerDirs]
  BY DEF TypeOK
<1>2. ASSUME NEW f, disk' = [disk EXCEPT ![Layer(p)].files = @ \cup {f}]
      PROVE  disk'[l].dir = disk[l].dir /\ disk'[l].size = disk[l].size
  BY <1>1, <1>2 DEF LayerDirs
<1>3. \/ UNCHANGED disk
      \/ \E f : disk' = [disk EXCEPT ![Layer(p)].files = @ \cup {f}]
  BY DEF WriteEntry, StreamFails, ContentFails, Put
<1> QED
  BY <1>2, <1>3

\* A step of p writes only the layer that p is unpacking.
LEMMA DiskFrame ==
    ASSUME TypeOK, NEW p \in Procs, Step(p), NEW l \in Layers, disk'[l] # disk[l]
    PROVE  pc[p] \in Unpacking /\ Layer(p) = l
<1>1. Layer(p) = l
  BY DEF TypeOK, Step, LayerExists, EnableProcessPrivileges, ReadSize, DestroyLayer,
         MkdirAll, DiskCall, NewLayerWriter, FirstHeader, WriteEntry, Put, EntryFails, StreamFails,
         ContentFails, CreateSizeFile, WriteSizeFile, CloseWriter, CloseBase, CloseStaged,
         DisableProcessPrivileges
<1>2. pc[p] \in Unpacking
  BY DEF Unpacking, Step, LayerExists, EnableProcessPrivileges, ReadSize, DestroyLayer,
         MkdirAll, NewLayerWriter, FirstHeader, WriteEntry, EntryFails, StreamFails,
         ContentFails, CreateSizeFile, WriteSizeFile, CloseWriter, DisableProcessPrivileges
<1> QED
  BY <1>1, <1>2

LEMMA SizeFileInit == Init => SizeFileInv
BY DEF Init, SizeFileInv, OldLayer, Absent

\* A failed removal leaves the directory, and a size file that is open.
LEMMA PartEffect ==
    ASSUME TypeOK, NEW l \in Layers
    PROVE  \A left \in PartlyRemoved(l) :
             /\ left.dir = disk[l].dir
             /\ left.size \in {disk[l].size} \cup (IF SizeFileOpen(l) THEN {} ELSE {NoFile})
<1> DEFINE Sizes == {disk[l].size} \cup (IF SizeFileOpen(l) THEN {} ELSE {NoFile})
           Part(kept, s) == [disk[l] EXCEPT !.files = kept \cup (disk[l].files \cap HeldFiles(l)),
                                            !.finished = FALSE, !.size = s]
<1>1. disk[l] \in LayerDirs
  BY DEF TypeOK
<1>2. PartlyRemoved(l) = {disk[l]} \cup {Part(kept, s) : kept \in SUBSET disk[l].files, s \in Sizes}
  BY DEF PartlyRemoved
<1>3. ASSUME NEW kept \in SUBSET disk[l].files, NEW s \in Sizes
      PROVE  Part(kept, s).dir = disk[l].dir /\ Part(kept, s).size = s
  BY <1>1 DEF LayerDirs
<1>4. disk[l].size \in Sizes
  OBVIOUS
<1> HIDE DEF Sizes, Part
<1>5. \A left \in PartlyRemoved(l) : left.dir = disk[l].dir /\ left.size \in Sizes
  BY <1>2, <1>3, <1>4
<1> QED
  BY <1>5 DEF Sizes

\* A step keeps every size file in a directory, and an open one in being.
LEMMA SizeFileKept ==
    ASSUME TypeOK, SizeFileInv, NEW p \in Procs, Step(p), NEW k \in Layers
    PROVE  /\ disk'[k].size # NoFile => disk'[k].dir
           /\ SizeFileOpen(k) => disk'[k].size # NoFile
<1>1. disk[k] \in LayerDirs
  BY DEF TypeOK
<1>2. /\ disk[k].size # NoFile => disk[k].dir
      /\ SizeFileOpen(k) => disk[k].size # NoFile
  BY DEF SizeFileInv, SizeFileOpen
<1>3. CASE disk'[k] = disk[k]
  BY <1>2, <1>3
<1>4. CASE disk'[k] # disk[k]
  <2>1. Layer(p) = k
    BY <1>4, DiskFrame
  <2>2. CASE DestroyLayer(p)
    <3>1. CASE Removable(k) /\ disk' = [disk EXCEPT ![k] = Absent]
      BY <3>1 DEF Removable, Absent, TypeOK
    <3>2. CASE \E left \in PartlyRemoved(k) : disk' = [disk EXCEPT ![k] = left]
      <4>1. disk'[k] \in PartlyRemoved(k)
        BY <3>2 DEF TypeOK
      <4>2. /\ disk'[k].dir = disk[k].dir
            /\ disk'[k].size \in {disk[k].size} \cup (IF SizeFileOpen(k) THEN {} ELSE {NoFile})
        BY <4>1, PartEffect
      <4> QED
        BY <1>2, <4>2
    <3> QED
      BY <2>1, <2>2, <3>1, <3>2 DEF DestroyLayer
  <2>3. CASE MkdirAll(p)
    BY <1>1, <1>2, <2>1, <2>3 DEF MkdirAll, DiskCall, TypeOK, LayerDirs
  <2>4. CASE CreateSizeFile(p)
    BY <1>1, <1>2, <2>1, <2>4, SentinelAssumption DEF CreateSizeFile, DiskCall, TypeOK, LayerDirs
  <2>5. CASE WriteSizeFile(p)
    <3>1. SizeFileOpen(k)
      BY <2>1, <2>5 DEF WriteSizeFile, SizeFileOpen
    <3>2. op[p].size # NoFile
      BY SentinelAssumption DEF TypeOK, Locals
    <3> QED
      BY <1>1, <1>2, <2>1, <2>5, <3>1, <3>2 DEF WriteSizeFile, DiskCall, TypeOK, LayerDirs
  <2>6. CASE CloseWriter(p)
    BY <1>1, <1>2, <2>1, <2>6 DEF CloseWriter, CloseBase, CloseStaged, TypeOK, LayerDirs
  <2>7. CASE WriteEntry(p) \/ StreamFails(p) \/ ContentFails(p)
    BY <1>1, <1>2, <2>1, <2>7, EntryEffect
  <2> QED
    BY <1>4, <2>2, <2>3, <2>4, <2>5, <2>6, <2>7
       DEF Step, LayerExists, EnableProcessPrivileges, ReadSize, NewLayerWriter, FirstHeader,
           EntryFails, DisableProcessPrivileges
<1> QED
  BY <1>3, <1>4

\* Only the creation of the size file leads to its filling.
LEMMA SizeWriteReached ==
    ASSUME TypeOK, NEW p \in Procs, Step(p), pc'[p] = "sizewrite"
    PROVE  CreateSizeFile(p) /\ disk'[Layer(p)'].size = Torn
<1>1. CreateSizeFile(p)
  BY DEF TypeOK, Goto, Return, Finish, Step, LayerExists, EnableProcessPrivileges,
         PrivilegesRefused, ReadSize, SizeMissing, SizeUnreadable, DestroyLayer, MkdirAll, DiskCall,
         NewLayerWriter, FirstHeader, Advance, WriteEntry, EntryFails, EntryRefused,
         StreamFails, StreamBroken, ContentFails, WriteSizeFile,
         CloseWriter, DisableProcessPrivileges, AfterUnpack, NextLayer
<1>2. Layer(p) \in Layers /\ disk[Layer(p)] \in LayerDirs
  BY <1>1, LayerType DEF TypeOK, CreateSizeFile
<1>3. UNCHANGED op /\ disk' = [disk EXCEPT ![Layer(p)] = [disk[Layer(p)] EXCEPT !.size = Torn]]
  BY <1>1 DEF CreateSizeFile, DiskCall, Return, Goto, TypeOK
<1> QED
  BY <1>1, <1>2, <1>3 DEF Layer, TypeOK, LayerDirs

LEMMA SizeFileNext == TypeOK /\ SizeFileInv /\ [Next]_vars => SizeFileInv'
<1> SUFFICES ASSUME TypeOK, SizeFileInv, [Next]_vars PROVE SizeFileInv'
  OBVIOUS
<1>1. ASSUME NEW p \in Procs, Step(p) PROVE SizeFileInv'
  <2>1. \A l \in Layers : disk'[l].size # NoFile => disk'[l].dir
    BY <1>1, SizeFileKept
  <2>2. ASSUME NEW q \in Procs, pc'[q] = "sizewrite"
        PROVE  disk'[Layer(q)'].size # NoFile
    <3>1. CASE q = p
      BY <1>1, <2>2, <3>1, SizeWriteReached, SentinelAssumption
    <3>2. CASE q # p
      <4>1. pc[q] = "sizewrite" /\ Layer(q)' = Layer(q)
        BY <1>1, <2>2, <3>2, StepFrame
      <4>2. Layer(q) \in Layers /\ SizeFileOpen(Layer(q))
        BY <4>1, LayerType DEF SizeFileOpen
      <4> QED
        BY <1>1, <4>1, <4>2, SizeFileKept
    <3> QED
      BY <3>1, <3>2
  <2> QED
    BY <2>1, <2>2 DEF SizeFileInv
<1>2. ASSUME NEW p \in Procs, NEW i \in Images, Start(p, i) PROVE SizeFileInv'
  BY <1>2 DEF Start, Goto, SizeFileInv, TypeOK, Layer
<1>3. ASSUME NEW p \in Procs, Crash(p) PROVE SizeFileInv'
  BY <1>3 DEF Crash, Finish, Goto, SizeFileInv, TypeOK, Layer
<1>4. CASE Heal
  BY <1>4 DEF Heal, SizeFileInv, Layer
<1>5. CASE UNCHANGED vars
  BY <1>5 DEF vars, SizeFileInv, Layer
<1> QED
  BY <1>1, <1>2, <1>3, <1>4, <1>5 DEF Next

\* A new result, another round or entry does not move a process to another layer.
LEMMA LayerKept ==
    ASSUME TypeOK, NEW p \in Procs, NEW r, NEW n,
           \/ UNCHANGED op
           \/ op' = [op EXCEPT ![p].result = r]
           \/ op' = [op EXCEPT ![p].tries = n]
           \/ op' = [op EXCEPT ![p].pos = n, ![p].size = r]
    PROVE  Layer(p)' = Layer(p)
<1>1. op[p] \in Locals
  BY DEF TypeOK
<1>2. op'[p].img = op[p].img /\ op'[p].idx = op[p].idx
  BY <1>1 DEF TypeOK, Locals
<1> QED
  BY <1>2 DEF Layer

\* A process that has not decided to write a layer with a size file does not decide to.
LEMMA NoNewRebuild ==
    ASSUME TypeOK, SizeFileInv, NEW p \in Procs, Step(p), NEW l \in Layers,
           disk[l].size # NoFile, ~Rebuilding(p, l)
    PROVE  ~Rebuilding(p, l)'
<1> USE DEF Rebuilding, Unpacking, TypeOK, Goto, Return, Finish
<1>1. CASE LayerExists(p)
  <2>1. CASE Finish(p, "error", 0)
    BY <2>1
  <2>2. CASE Goto(p, "elevate") /\ op' = [op EXCEPT ![p].exists = disk[Layer(p)].dir]
    <3>1. op'[p].exists = disk[Layer(p)].dir /\ Layer(p)' = Layer(p)
      BY <2>2 DEF Locals, Layer
    <3>2. disk[l].dir
      BY DEF SizeFileInv
    <3> QED
      BY <2>2, <3>1, <3>2
  <2> QED
    BY <1>1, <2>1, <2>2 DEF LayerExists
<1>2. CASE EnableProcessPrivileges(p)
  BY <1>2 DEF EnableProcessPrivileges, PrivilegesRefused, Layer
<1>3. CASE ReadSize(p)
  BY <1>3, SentinelAssumption DEF ReadSize, SizeMissing, SizeUnreadable, Layer, Locals
<1>4. CASE DestroyLayer(p)
  <2>1. Layer(p)' = Layer(p)
    BY <1>4, LayerKept DEF DestroyLayer
  <2>2. pc[p] \in Unpacking
    BY <1>4 DEF DestroyLayer
  <2> QED
    BY <2>1, <2>2
<1>5. CASE MkdirAll(p)
  <2>1. Layer(p)' = Layer(p)
    BY <1>5, LayerKept DEF MkdirAll, DiskCall
  <2>2. pc[p] \in Unpacking
    BY <1>5 DEF MkdirAll, DiskCall
  <2> QED
    BY <2>1, <2>2
<1>6. CASE NewLayerWriter(p)
  <2>1. Layer(p)' = Layer(p)
    BY <1>6, LayerKept DEF NewLayerWriter
  <2>2. pc[p] \in Unpacking
    BY <1>6 DEF NewLayerWriter
  <2> QED
    BY <2>1, <2>2
<1>7. CASE FirstHeader(p)
  <2>1. Layer(p)' = Layer(p)
    BY <1>7, LayerKept DEF FirstHeader, Advance
  <2>2. pc[p] \in Unpacking
    BY <1>7 DEF FirstHeader, Advance
  <2> QED
    BY <2>1, <2>2
<1>8. CASE WriteEntry(p)
  <2>1. Layer(p)' = Layer(p)
    BY <1>8, LayerKept DEF WriteEntry, Advance
  <2>2. pc[p] \in Unpacking
    BY <1>8 DEF WriteEntry, Advance
  <2> QED
    BY <2>1, <2>2
<1>9. CASE EntryFails(p)
  <2>1. Layer(p)' = Layer(p)
    BY <1>9, LayerKept DEF EntryFails, EntryRefused
  <2>2. pc[p] \in Unpacking
    BY <1>9 DEF EntryFails, EntryRefused
  <2> QED
    BY <2>1, <2>2
<1>10. CASE StreamFails(p)
  <2>1. Layer(p)' = Layer(p)
    BY <1>10, LayerKept DEF StreamFails, StreamBroken
  <2>2. pc[p] \in Unpacking
    BY <1>10 DEF StreamFails, StreamBroken
  <2> QED
    BY <2>1, <2>2
<1>11. CASE ContentFails(p)
  <2>1. Layer(p)' = Layer(p)
    BY <1>11, LayerKept DEF ContentFails, StreamBroken
  <2>2. pc[p] \in Unpacking
    BY <1>11 DEF ContentFails, StreamBroken
  <2> QED
    BY <2>1, <2>2
<1>12. CASE CreateSizeFile(p)
  <2>1. Layer(p)' = Layer(p)
    BY <1>12, LayerKept DEF CreateSizeFile, DiskCall
  <2>2. pc[p] \in Unpacking
    BY <1>12 DEF CreateSizeFile, DiskCall
  <2> QED
    BY <2>1, <2>2
<1>13. CASE WriteSizeFile(p)
  <2>1. Layer(p)' = Layer(p)
    BY <1>13, LayerKept DEF WriteSizeFile, DiskCall
  <2>2. pc[p] \in Unpacking
    BY <1>13 DEF WriteSizeFile, DiskCall
  <2> QED
    BY <2>1, <2>2
<1>14. CASE CloseWriter(p)
  BY <1>14 DEF CloseWriter
<1>15. CASE DisableProcessPrivileges(p)
  BY <1>15 DEF DisableProcessPrivileges, AfterUnpack, NextLayer
<1> QED
  BY <1>1, <1>2, <1>3, <1>4, <1>5, <1>6, <1>7, <1>8, <1>9, <1>10, <1>11, <1>12,
     <1>13, <1>14, <1>15 DEF Step

LEMMA SettledNext ==
    ASSUME TypeOK, SizeFileInv, [Next]_vars, NEW l \in Layers, Settled(l)
    PROVE  Settled(l)' /\ disk'[l] = disk[l]
<1>1. disk[l].size # NoFile /\ \A q \in Procs : ~Rebuilding(q, l)
  BY DEF Settled
<1>2. ASSUME NEW p \in Procs, Step(p) PROVE Settled(l)' /\ disk'[l] = disk[l]
  <2>1. disk'[l] = disk[l]
    BY <1>1, <1>2, DiskFrame DEF Rebuilding, Unpacking
  <2>2. \A q \in Procs \ {p} : ~Rebuilding(q, l)'
    BY <1>1, <1>2, StepFrame DEF Rebuilding
  <2>3. ~Rebuilding(p, l)'
    BY <1>1, <1>2, NoNewRebuild
  <2> QED
    BY <1>1, <2>1, <2>2, <2>3 DEF Settled
<1>3. ASSUME NEW p \in Procs, NEW i \in Images, Start(p, i)
      PROVE  Settled(l)' /\ disk'[l] = disk[l]
  BY <1>1, <1>3 DEF Start, Goto, TypeOK, Settled, Rebuilding, Layer, Unpacking
<1>4. ASSUME NEW p \in Procs, Crash(p) PROVE Settled(l)' /\ disk'[l] = disk[l]
  BY <1>1, <1>4 DEF Crash, Finish, Goto, TypeOK, Settled, Rebuilding, Layer
<1>5. CASE Heal
  BY <1>1, <1>5 DEF Heal, Settled, Rebuilding, Layer
<1>6. CASE UNCHANGED vars
  BY <1>1, <1>6 DEF vars, Settled, Rebuilding, Layer
<1> QED
  BY <1>2, <1>3, <1>4, <1>5, <1>6 DEF Next

LEMMA SizeFileAlways == Spec => []SizeFileInv
BY SizeFileInit, SizeFileNext, TypeCorrect, PTL DEF Spec

\* A layer with a size file that nobody has decided to write is never written again, by
\* however many processes, with whatever crashes and failing calls: the early return of
\* Driver.Unpack is final.
THEOREM SettledIsStable == Spec => SettledStable
<1>1. TypeOK /\ SizeFileInv /\ [Next]_vars
        => [\A l \in Layers : Settled(l) => Settled(l)' /\ disk'[l] = disk[l]]_vars
  BY SettledNext
<1> QED
  BY <1>1, SizeFileAlways, TypeCorrect, PTL DEF Spec, SettledStable
-----------------------------------------------------------------------------
(***************************************************************************)
(* LayerStore implements LayerClaims: however pulls interleave, fail and   *)
(* die, the size file of a layer is a claim protocol.                      *)
(***************************************************************************)

\* A step that leaves Unpack's work on a layer either stays on that layer or stops it.
LEMMA RebuildStays ==
    ASSUME TypeOK, NEW p \in Procs, Step(p), NEW l, Rebuilding(p, l), NEW m, Rebuilding(p, m)'
    PROVE  m = l
<1> SUFFICES Layer(p)' = Layer(p)
  BY DEF Rebuilding
<1>1. pc'[p] # "idle" /\ pc'[p] # "exists"
  BY DEF Rebuilding, Unpacking
<1>2. pc[p] \in Unpacking \cup {"elevate"}
  BY DEF Rebuilding
<1>3. CASE EnableProcessPrivileges(p)
  BY <1>1, <1>3, LayerKept DEF EnableProcessPrivileges, PrivilegesRefused, Finish, Goto, TypeOK
<1>4. CASE DestroyLayer(p)
  BY <1>4, LayerKept DEF DestroyLayer, Return
<1>5. CASE MkdirAll(p) \/ CreateSizeFile(p) \/ WriteSizeFile(p)
  BY <1>5, LayerKept DEF MkdirAll, CreateSizeFile, WriteSizeFile, DiskCall, Return
<1>6. CASE NewLayerWriter(p)
  BY <1>6, LayerKept DEF NewLayerWriter, Return
<1>7. CASE FirstHeader(p) \/ WriteEntry(p)
  BY <1>7, LayerKept DEF FirstHeader, WriteEntry, Advance
<1>8. CASE EntryFails(p) \/ StreamFails(p) \/ ContentFails(p)
  BY <1>8, LayerKept DEF EntryFails, EntryRefused, StreamFails, ContentFails, StreamBroken, Return
<1>9. CASE CloseWriter(p)
  BY <1>9, LayerKept DEF CloseWriter
<1> QED
  BY <1>2, <1>3, <1>4, <1>5, <1>6, <1>7, <1>8, <1>9
     DEF Step, Unpacking, LayerExists, ReadSize, DisableProcessPrivileges

\* A step fills only a size file that is there.
LEMMA FilledWhereCreated ==
    ASSUME TypeOK, SizeFileInv, NEW p \in Procs, Step(p), NEW l \in Layers, disk[l].size = NoFile
    PROVE  disk'[l].size \notin Nat
<1>1. disk[l] \in LayerDirs
  BY DEF TypeOK
<1>2. CASE disk'[l] = disk[l]
  BY <1>2, SentinelAssumption
<1>3. CASE disk'[l] # disk[l]
  <2>1. Layer(p) = l
    BY <1>3, DiskFrame
  <2>2. CASE DestroyLayer(p)
    <3>1. CASE disk' = [disk EXCEPT ![l] = Absent]
      BY <3>1, SentinelAssumption DEF Absent, TypeOK
    <3>2. CASE \E left \in PartlyRemoved(l) : disk' = [disk EXCEPT ![l] = left]
      <4>1. disk'[l] \in PartlyRemoved(l)
        BY <3>2 DEF TypeOK
      <4> QED
        BY <4>1, PartEffect, SentinelAssumption
    <3> QED
      BY <2>1, <2>2, <3>1, <3>2 DEF DestroyLayer
  <2>3. CASE MkdirAll(p)
    BY <1>1, <2>1, <2>3, SentinelAssumption DEF MkdirAll, DiskCall, TypeOK, LayerDirs
  <2>4. CASE CreateSizeFile(p)
    BY <1>1, <2>1, <2>4, SentinelAssumption DEF CreateSizeFile, DiskCall, TypeOK, LayerDirs
  <2>5. CASE WriteSizeFile(p)
    BY <2>1, <2>5 DEF WriteSizeFile, SizeFileInv
  <2>6. CASE CloseWriter(p)
    BY <1>1, <2>1, <2>6, SentinelAssumption DEF CloseWriter, CloseBase, CloseStaged, TypeOK, LayerDirs
  <2>7. CASE WriteEntry(p) \/ StreamFails(p) \/ ContentFails(p)
    BY <1>1, <2>1, <2>7, EntryEffect, SentinelAssumption
  <2> QED
    BY <1>3, <2>2, <2>3, <2>4, <2>5, <2>6, <2>7
       DEF Step, LayerExists, EnableProcessPrivileges, ReadSize, NewLayerWriter, FirstHeader,
           EntryFails, DisableProcessPrivileges
<1> QED
  BY <1>2, <1>3

\* The size files as LayerClaims sees them.
LEMMA SizeFilesType ==
    ASSUME TypeOK, TypeOK'
    PROVE  /\ SizeFiles' = [l \in Layers |-> disk'[l].size]
           /\ SizeFiles' \in [Layers -> Nat \cup {NoFile, Torn}]
           /\ Claimants' = [l \in Layers |-> {p \in Procs : Rebuilding(p, l)'}]
<1>1. SizeFiles' = [l \in Layers |-> disk'[l].size]
  BY DEF SizeFiles
<1>2. \A l \in Layers : disk'[l].size \in Nat \cup {NoFile, Torn}
  BY DEF TypeOK, LayerDirs
<1>3. Claimants' = [l \in Layers |-> {p \in Procs : Rebuilding(p, l)'}]
  BY DEF Claimants
<1> QED
  BY <1>1, <1>2, <1>3

\* A step of a process that has decided to write layer l.
LEMMA WriterRefines ==
    ASSUME TypeOK, TypeOK', NEW p \in Procs, NEW l \in Layers, Rebuilding(p, l),
           \A m \in Layers \ {l} : disk'[m] = disk[m],
           disk[l].size = NoFile => disk'[l].size \notin Nat,
           \A m \in Layers \ {l} : ~Rebuilding(p, m)',
           \A q \in Procs \ {p} : \A m \in Layers : Rebuilding(q, m)' <=> Rebuilding(q, m)
    PROVE  Claims!Next
<1>1. \A m \in Layers \ {l} : ~Rebuilding(p, m)
  BY DEF Rebuilding
<1>2. SizeFiles' \in [Layers -> Nat \cup {NoFile, Torn}]
  BY SizeFilesType
<1>3. \A m \in Layers \ {l} : SizeFiles'[m] = SizeFiles[m]
  BY SizeFilesType DEF SizeFiles
<1>4. SizeFiles[l] = NoFile => SizeFiles'[l] \notin Nat
  BY SizeFilesType DEF SizeFiles
<1> DEFINE gone == IF Rebuilding(p, l)' THEN {} ELSE {p}
<1>5. Claimants' = [Claimants EXCEPT ![l] = @ \ gone]
  <2> DEFINE Old(m) == {q \in Procs : Rebuilding(q, m)}
             New(m) == {q \in Procs : Rebuilding(q, m)'}
  <2>a. Claimants = [m \in Layers |-> Old(m)] /\ Claimants' = [m \in Layers |-> New(m)]
    BY SizeFilesType DEF Claimants
  <2>1. ASSUME NEW m \in Layers \ {l} PROVE New(m) = Old(m)
    BY <1>1
  <2>2. New(l) = Old(l) \ gone
    OBVIOUS
  <2> HIDE DEF gone, Old, New
  <2> QED
    BY <2>1, <2>2, <2>a
<1>6. gone \in SUBSET {p} /\ p \in Claimants[l]
  BY DEF Claimants
<1> HIDE DEF gone
<1>7. Claims!Write(p, l)
  BY <1>2, <1>3, <1>4, <1>5, <1>6 DEF Claims!Write
<1> QED
  BY <1>7 DEF Claims!Next

\* A step of a process that has not.
LEMMA ReaderRefines ==
    ASSUME TypeOK, TypeOK', NEW p \in Procs, \A l \in Layers : ~Rebuilding(p, l),
           \A m \in Layers : disk'[m] = disk[m],
           \A l \in Layers : Rebuilding(p, l)' => disk[l].size = NoFile,
           \A q \in Procs \ {p} : \A m \in Layers : Rebuilding(q, m)' <=> Rebuilding(q, m)
    PROVE  Claims!Next \/ UNCHANGED <<SizeFiles, Claimants>>
<1>1. SizeFiles' = SizeFiles
  BY SizeFilesType DEF SizeFiles
<1>2. CASE \A l \in Layers : ~Rebuilding(p, l)'
  <2>1. ASSUME NEW m \in Layers
        PROVE  {q \in Procs : Rebuilding(q, m)'} = {q \in Procs : Rebuilding(q, m)}
    BY <1>2
  <2>2. Claimants' = Claimants
    BY <2>1, SizeFilesType DEF Claimants
  <2> QED
    BY <1>1, <2>2
<1>3. ASSUME NEW l \in Layers, Rebuilding(p, l)' PROVE Claims!Next
  <2>1. \A m \in Layers \ {l} : ~Rebuilding(p, m)'
    BY <1>3 DEF Rebuilding
  <2>2. Claimants' = [Claimants EXCEPT ![l] = @ \cup {p}]
    <3> DEFINE Old(m) == {q \in Procs : Rebuilding(q, m)}
               New(m) == {q \in Procs : Rebuilding(q, m)'}
    <3>a. Claimants = [m \in Layers |-> Old(m)] /\ Claimants' = [m \in Layers |-> New(m)]
      BY SizeFilesType DEF Claimants
    <3>1. New(l) = Old(l) \cup {p}
      BY <1>3
    <3>2. ASSUME NEW m \in Layers \ {l} PROVE New(m) = Old(m)
      BY <2>1
    <3> HIDE DEF Old, New
    <3> QED
      BY <3>1, <3>2, <3>a
  <2>3. SizeFiles[l] = NoFile /\ \A m \in Layers : p \notin Claimants[m]
    BY <1>3 DEF SizeFiles, Claimants
  <2>4. Claims!Claim(p, l)
    BY <1>1, <2>2, <2>3 DEF Claims!Claim
  <2> QED
    BY <2>4 DEF Claims!Next
<1> QED
  BY <1>2, <1>3

LEMMA ClaimsStep ==
    ASSUME TypeOK, TypeOK', SizeFileInv, NEW p \in Procs, Step(p)
    PROVE  Claims!Next \/ UNCHANGED <<SizeFiles, Claimants>>
<1>1. \A q \in Procs \ {p} : \A m \in Layers : Rebuilding(q, m)' <=> Rebuilding(q, m)
  BY StepFrame DEF Rebuilding
<1>2. ASSUME NEW l \in Layers, Rebuilding(p, l) PROVE Claims!Next
  <2>1. \A m \in Layers \ {l} : disk'[m] = disk[m]
    BY <1>2, DiskFrame DEF Rebuilding
  <2>2. \A m \in Layers \ {l} : ~Rebuilding(p, m)'
    BY <1>2, RebuildStays
  <2> QED
    BY <1>1, <1>2, <2>1, <2>2, FilledWhereCreated, WriterRefines
<1>3. CASE \A l \in Layers : ~Rebuilding(p, l)
  <2>1. \A m \in Layers : disk'[m] = disk[m]
    BY <1>3, DiskFrame DEF Rebuilding, Unpacking
  <2>2. \A l \in Layers : Rebuilding(p, l)' => disk[l].size = NoFile
    BY <1>3, NoNewRebuild
  <2> QED
    BY <1>1, <1>3, <2>1, <2>2, ReaderRefines
<1> QED
  BY <1>2, <1>3

\* Pulls without a lock implement the claim protocol of LayerClaims: a process decides
\* to write a layer only at a moment when it has no size file, only such processes change
\* size files, and a size goes only into a file that was created before, for any number of
\* processes, crashes and failing calls.
THEOREM ClaimsKept == Spec => LayersClaimed
<1>1. Init => Claims!Init
  <2> SUFFICES ASSUME Init PROVE Claims!Init
    OBVIOUS
  <2>1. SizeFiles = [l \in Layers |-> NoFile]
    BY DEF SizeFiles, Init, OldLayer, Absent
  <2>2. Claimants = [l \in Layers |-> {}]
    BY DEF Claimants, Init, Rebuilding
  <2> QED
    BY <2>1, <2>2 DEF Claims!Init
<1>2. ASSUME TypeOK, SizeFileInv, [Next]_vars
      PROVE  Claims!Next \/ UNCHANGED <<SizeFiles, Claimants>>
  <2>1. TypeOK'
    BY <1>2, NextType
  <2>2. ASSUME NEW p \in Procs, Step(p) PROVE Claims!Next \/ UNCHANGED <<SizeFiles, Claimants>>
    BY <1>2, <2>1, <2>2, ClaimsStep
  <2>3. ASSUME NEW p \in Procs, Crash(p) \/ \E i \in Images : Start(p, i)
        PROVE  Claims!Next \/ UNCHANGED <<SizeFiles, Claimants>>
    <3>1. disk' = disk /\ \A l \in Layers : ~Rebuilding(p, l)'
      BY <1>2, <2>3 DEF Crash, Start, Finish, Goto, TypeOK, Rebuilding, Unpacking
    <3>2. \A q \in Procs \ {p} : pc'[q] = pc[q] /\ op'[q] = op[q]
      BY <1>2, <2>3 DEF Crash, Start, Finish, Goto, TypeOK
    <3>3. \A q \in Procs \ {p} : \A m \in Layers : Rebuilding(q, m)' <=> Rebuilding(q, m)
      BY <3>2 DEF Rebuilding, Layer
    <3>4. CASE \E l \in Layers : Rebuilding(p, l)
      BY <1>2, <2>1, <3>1, <3>3, <3>4, WriterRefines, SentinelAssumption
    <3>5. CASE \A l \in Layers : ~Rebuilding(p, l)
      BY <1>2, <2>1, <3>1, <3>3, <3>5, ReaderRefines
    <3> QED
      BY <3>4, <3>5
  <2>4. CASE Heal \/ UNCHANGED vars
    BY <2>4 DEF Heal, vars, SizeFiles, Claimants, Rebuilding, Layer
  <2> QED
    BY <1>2, <2>2, <2>3, <2>4 DEF Next
<1>3. TypeOK /\ SizeFileInv /\ [Next]_vars => [Claims!Next]_(Claims!vars)
  BY <1>2 DEF Claims!vars
<1>4. Spec => []SizeFileInv
  BY SizeFileAlways
<1> QED
  BY <1>1, <1>3, <1>4, TypeCorrect, PTL DEF Spec, LayersClaimed, Claims!Spec
=============================================================================
