------------------------------ MODULE PullProofs ------------------------------
(***************************************************************************)
(* What pulls leave on disk and return, for every set of processes, layers,*)
(* images and tars, however they interleave, fail and die.                 *)
(***************************************************************************)
EXTENDS LayerStoreProofs, SumsProofs

\* One entry more, and one layer more.
LEMMA EntrySizesStep ==
    ASSUME NEW l \in Layers
    PROVE  /\ EntrySizes(l, 0) = 0
           /\ \A n \in 1..Len(Tar[l]) :
                  EntrySizes(l, n) = EntrySizes(l, n - 1) + EntrySize(Tar[l][n])
<1> DEFINE w == [k \in 1..Len(Tar[l]) |-> EntrySize(Tar[l][k])]
<1>1. \A n : EntrySizes(l, n) = SumTo(w, n)
  BY DEF EntrySizes
<1>2. Len(Tar[l]) \in Nat
  BY TarAssumption
<1>3. \A n \in 1..Len(Tar[l]) : w[n] = EntrySize(Tar[l][n])
  OBVIOUS
<1> HIDE DEF w
<1>4. SumTo(w, 0) = 0
  BY SumToRecursion
<1>5. ASSUME NEW n \in 1..Len(Tar[l])
      PROVE  SumTo(w, n) = SumTo(w, n - 1) + w[n]
  <2>1. n - 1 \in Nat /\ (n - 1) + 1 = n
    BY <1>2
  <2>2. SumTo(w, (n - 1) + 1) = SumTo(w, n - 1) + w[(n - 1) + 1]
    BY <2>1, SumToRecursion
  <2> QED
    BY <2>1, <2>2
<1> QED
  BY <1>1, <1>3, <1>4, <1>5

LEMMA LayerSizesStep ==
    ASSUME NEW i \in Images
    PROVE  /\ LayerSizes(i, 0) = 0
           /\ \A n \in 1..Len(i) : LayerSizes(i, n) = LayerSizes(i, n - 1) + LayerSize(i[n])
<1> DEFINE w == [k \in 1..Len(i) |-> LayerSize(i[k])]
<1>1. \A n : LayerSizes(i, n) = SumTo(w, n)
  BY DEF LayerSizes
<1>2. Len(i) \in Nat
  BY ImagesAssumption
<1>3. \A n \in 1..Len(i) : w[n] = LayerSize(i[n])
  OBVIOUS
<1> HIDE DEF w
<1>4. SumTo(w, 0) = 0
  BY SumToRecursion
<1>5. ASSUME NEW n \in 1..Len(i)
      PROVE  SumTo(w, n) = SumTo(w, n - 1) + w[n]
  <2>1. n - 1 \in Nat /\ (n - 1) + 1 = n
    BY <1>2
  <2>2. SumTo(w, (n - 1) + 1) = SumTo(w, n - 1) + w[(n - 1) + 1]
    BY <2>1, SumToRecursion
  <2> QED
    BY <2>1, <2>2
<1> QED
  BY <1>1, <1>3, <1>4, <1>5

\* The size of an image is a number of bytes.
LEMMA ImageSizeType ==
    ASSUME NEW i \in Images
    PROVE  ImageSize(i) \in Nat
<1>1. i \in Seq(Layers) /\ Len(i) \in Nat
  BY ImagesAssumption
<1>2. ASSUME NEW l \in Layers PROVE LayerSize(l) \in Nat
  <2> DEFINE w == [k \in 1..Len(Tar[l]) |-> EntrySize(Tar[l][k])]
  <2>1. Tar[l] \in Seq([kind : Kinds, size : Nat])
    BY <1>2, TarAssumption
  <2>2. Len(Tar[l]) \in Nat
    BY <2>1
  <2>3. \A k \in 1..Len(Tar[l]) : Tar[l][k] \in [kind : Kinds, size : Nat]
    BY <2>1, ElementType
  <2>4. \A k \in 1..Len(Tar[l]) : w[k] \in Nat
    BY <2>3 DEF EntrySize
  <2>5. LayerSize(l) = SumTo(w, Len(Tar[l]))
    BY DEF LayerSize, EntrySizes
  <2> HIDE DEF w
  <2>6. Len(Tar[l]) \in 0..Len(Tar[l])
    BY <2>2
  <2>7. \A n \in 0..Len(Tar[l]) : SumTo(w, n) \in Nat
    BY <2>2, <2>4, SumToNat
  <2> QED
    BY <2>5, <2>6, <2>7
<1> DEFINE w == [k \in 1..Len(i) |-> LayerSize(i[k])]
<1>3. \A k \in 1..Len(i) : w[k] \in Nat
  BY <1>1, <1>2
<1>4. ImageSize(i) = SumTo(w, Len(i))
  BY DEF ImageSize, LayerSizes
<1> HIDE DEF w
<1> QED
  BY <1>1, <1>3, <1>4, SumToNat

-----------------------------------------------------------------------------
(***************************************************************************)
(* The sums so far: total counts the layers below, size the entries before *)
(* the one under the header; when the loop has ended, or the size file was *)
(* read, size is that of the layer.                                        *)
(***************************************************************************)
SumsAt(at, o) ==
    /\ at # "idle" => o.result # "ok" /\ o.total = LayerSizes(o.img, o.idx - 1)
    /\ at = "stream" => /\ o.pos = 0 => o.size = 0
                        /\ o.pos > 0 => o.size = EntrySizes(o.img[o.idx], o.pos - 1)
    /\ at \in {"sizecreate", "sizewrite"} => o.size = LayerSize(o.img[o.idx])
    /\ at \in {"close", "drop"} /\ o.result = "run" => o.size = LayerSize(o.img[o.idx])
    /\ o.result = "ok" => o.total = ImageSize(o.img)

SumsInv ==
    /\ \A l \in Layers : disk[l].size \in Nat => disk[l].size = LayerSize(l)
    /\ \A p \in Procs : SumsAt(pc[p], op[p])

LEMMA SumsInit == Init => SumsInv
<1> SUFFICES ASSUME Init PROVE SumsInv
  OBVIOUS
<1>1. \A l \in Layers : disk[l].size = NoFile
  BY DEF Init, OldLayer, Absent
<1>2. ASSUME NEW p \in Procs PROVE SumsAt(pc[p], op[p])
  BY DEF Init, SumsAt, Fresh
<1> QED
  BY <1>1, <1>2, SentinelAssumption DEF SumsInv

\* The locals of p that a step of Unpack leaves alone.
SameWork(p) == op'[p].img = op[p].img /\ op'[p].idx = op[p].idx /\ op'[p].total = op[p].total

LEMMA ReturnSums ==
    ASSUME TypeOK, NEW p \in Procs, NEW at, NEW r, Return(p, at, r)
    PROVE  pc'[p] = at /\ SameWork(p) /\ op'[p].result = r
BY DEF TypeOK, Return, Goto, SameWork, Locals

LEMMA GotoSums ==
    ASSUME TypeOK, NEW p \in Procs, NEW at, Goto(p, at), UNCHANGED op
    PROVE  pc'[p] = at /\ op'[p] = op[p]
BY DEF TypeOK, Goto

\* A pull that ends without success.
LEMMA FinishSums ==
    ASSUME TypeOK, NEW p \in Procs, NEW r, NEW t, Finish(p, r, t),
           r = "ok" => t = ImageSize(op[p].img)
    PROVE  SumsAt(pc'[p], op'[p])
<1>1. pc'[p] = "idle" /\ op'[p] = Fresh(op[p].img, 1, t, r)
  BY DEF TypeOK, Finish, Goto
<1> QED
  BY <1>1 DEF SumsAt, Fresh

\* An error returned from Unpack.
LEMMA ErrorSums ==
    ASSUME TypeOK, SumsInv, NEW p \in Procs, pc[p] # "idle", NEW at \in {"close", "drop"},
           NEW r \in {"error", "panic"}, Return(p, at, r)
    PROVE  SumsAt(pc'[p], op'[p])
<1>1. pc'[p] = at /\ SameWork(p) /\ op'[p].result = r
  BY ReturnSums
<1>2. SumsAt(pc[p], op[p])
  BY DEF SumsInv
<1> QED
  BY <1>1, <1>2 DEF SumsAt, SameWork

\* The loop over the tar takes one header more, or ends.
LEMMA AdvanceSums ==
    ASSUME TypeOK, SumsInv, NEW p \in Procs, pc[p] = "stream", NEW size,
           size = EntrySizes(Layer(p), op[p].pos), Advance(p, size)
    PROVE  SumsAt(pc'[p], op'[p])
<1> DEFINE n == Len(Tar[Layer(p)])
           more == op[p].pos < n
<1>1. Layer(p) \in Layers /\ n \in Nat
  BY LayerType, TarAssumption
<1>2. op[p].pos \in 0..n /\ op[p] \in Locals
  BY DEF TypeOK, AtWork
<1>3. /\ SameWork(p) /\ op'[p].result = op[p].result /\ op'[p].size = size
      /\ op'[p].pos = IF more THEN op[p].pos + 1 ELSE op[p].pos
      /\ pc'[p] = IF more THEN "stream" ELSE "sizecreate"
  BY <1>2 DEF TypeOK, Advance, Goto, SameWork, Locals
<1>4. SumsAt(pc[p], op[p])
  BY DEF SumsInv
<1>5. op'[p].img[op'[p].idx] = Layer(p)
  BY <1>3 DEF SameWork, Layer
<1>6. op'[p].result # "ok" /\ op'[p].total = LayerSizes(op'[p].img, op'[p].idx - 1)
  BY <1>3, <1>4 DEF SumsAt, SameWork
<1>7. CASE more
  <2>1. op'[p].pos = op[p].pos + 1 /\ op'[p].pos > 0 /\ op'[p].pos - 1 = op[p].pos
    BY <1>1, <1>2, <1>3, <1>7
  <2> QED
    BY <1>3, <1>5, <1>6, <1>7, <2>1 DEF SumsAt
<1>8. CASE ~more
  <2>1. op[p].pos = n
    BY <1>1, <1>2, <1>8
  <2>2. size = LayerSize(Layer(p))
    BY <2>1 DEF LayerSize
  <2> QED
    BY <1>3, <1>5, <1>6, <1>8, <2>2 DEF SumsAt
<1> QED
  BY <1>7, <1>8

\* Every step of a process keeps its own sums right.
LEMMA OwnSums ==
    ASSUME TypeOK, SumsInv, NEW p \in Procs, Step(p)
    PROVE  SumsAt(pc'[p], op'[p])
<1>0. pc[p] # "idle"
  BY DEF Step, LayerExists, EnableProcessPrivileges, ReadSize, DestroyLayer, MkdirAll, DiskCall,
         NewLayerWriter, FirstHeader, WriteEntry, EntryFails, StreamFails, ContentFails,
         CreateSizeFile, WriteSizeFile, CloseWriter, DisableProcessPrivileges
<1>s. SumsAt(pc[p], op[p])
  BY DEF SumsInv
<1>t. op[p] \in Locals /\ AtWork(p) /\ Layer(p) \in Layers
  BY <1>0, LayerType DEF TypeOK
<1>1. CASE LayerExists(p)
  <2>1. CASE Finish(p, "error", 0)
    BY <2>1, FinishSums
  <2>2. CASE Goto(p, "elevate") /\ op' = [op EXCEPT ![p].exists = disk[Layer(p)].dir]
    <3>1. pc'[p] = "elevate" /\ SameWork(p) /\ op'[p].result = op[p].result
      BY <1>t, <2>2 DEF TypeOK, Goto, SameWork, Locals
    <3> QED
      BY <1>0, <1>s, <3>1 DEF SumsAt, SameWork
  <2> QED
    BY <1>1, <2>1, <2>2 DEF LayerExists
<1>2. CASE EnableProcessPrivileges(p)
  <2>1. CASE Finish(p, "error", 0)
    BY <2>1, FinishSums
  <2>2. CASE Goto(p, IF op[p].exists THEN "readsize" ELSE "mkdir") /\ UNCHANGED op
    BY <1>0, <1>s, <2>2, GotoSums DEF SumsAt
  <2> QED
    BY <1>2, <2>1, <2>2 DEF EnableProcessPrivileges, PrivilegesRefused
<1>3. CASE ReadSize(p)
  <2>1. CASE SizeMissing(p)
    BY <1>0, <1>s, <2>1, GotoSums DEF SizeMissing, SumsAt
  <2>2. CASE Return(p, "drop", "error")
    BY <1>0, <2>2, ErrorSums
  <2>3. CASE /\ disk[Layer(p)].size \in Nat
             /\ Goto(p, "drop")
             /\ op' = [op EXCEPT ![p].size = disk[Layer(p)].size]
    <3>1. /\ pc'[p] = "drop" /\ SameWork(p) /\ op'[p].result = op[p].result
          /\ op'[p].size = disk[Layer(p)].size
      BY <1>t, <2>3 DEF TypeOK, Goto, SameWork, Locals
    <3>2. disk[Layer(p)].size = LayerSize(Layer(p))
      BY <1>t, <2>3 DEF SumsInv
    <3> QED
      BY <1>0, <1>s, <3>1, <3>2 DEF SumsAt, SameWork, Layer
  <2> QED
    BY <1>3, <2>1, <2>2, <2>3 DEF ReadSize, SizeUnreadable
<1>4. CASE DestroyLayer(p)
  <2>1. CASE \E r \in {"error", "panic"} : Return(p, "drop", r)
    BY <1>0, <2>1, ErrorSums
  <2>2. ASSUME NEW n, op' = [op EXCEPT ![p].tries = n], pc'[p] \in {"mkdir", "destroy"}
        PROVE  SumsAt(pc'[p], op'[p])
    <3>1. SameWork(p) /\ op'[p].result = op[p].result
      BY <1>t, <2>2 DEF TypeOK, SameWork, Locals
    <3> QED
      BY <1>0, <1>s, <2>2, <3>1 DEF SumsAt, SameWork
  <2> QED
    BY <1>4, <2>1, <2>2 DEF DestroyLayer, Goto, TypeOK
<1>5. CASE MkdirAll(p)
  <2>1. CASE Goto(p, "newwriter") /\ UNCHANGED op
    BY <1>0, <1>s, <2>1, GotoSums DEF SumsAt
  <2> QED
    BY <1>0, <1>5, <2>1, ErrorSums DEF MkdirAll, DiskCall
<1>6. CASE NewLayerWriter(p)
  <2>1. CASE Return(p, "drop", "error")
    BY <1>0, <2>1, ErrorSums
  <2>2. CASE Goto(p, "stream") /\ op' = [op EXCEPT ![p].pos = 0, ![p].size = 0]
    <3>1. /\ pc'[p] = "stream" /\ SameWork(p) /\ op'[p].result = op[p].result
          /\ op'[p].pos = 0 /\ op'[p].size = 0
      BY <1>t, <2>2 DEF TypeOK, Goto, SameWork, Locals
    <3> QED
      BY <1>0, <1>s, <3>1 DEF SumsAt, SameWork
  <2> QED
    BY <1>6, <2>1, <2>2 DEF NewLayerWriter
<1>7. CASE FirstHeader(p)
  <2>1. EntrySizes(Layer(p), op[p].pos) = 0
    BY <1>7, <1>t, EntrySizesStep DEF FirstHeader
  <2> QED
    BY <1>7, <2>1, AdvanceSums DEF FirstHeader
<1>8. CASE WriteEntry(p)
  <2>1. op[p].pos \in 1..Len(Tar[Layer(p)])
    BY <1>8, <1>t, TarAssumption DEF WriteEntry, AtWork, Locals
  <2>2. op[p].size = EntrySizes(Layer(p), op[p].pos - 1)
    BY <1>8, <1>s DEF WriteEntry, SumsAt, Layer
  <2>3. op[p].size + EntrySize(Entry(p)) = EntrySizes(Layer(p), op[p].pos)
    BY <1>t, <2>1, <2>2, EntrySizesStep DEF Entry
  <2> QED
    BY <1>8, <2>3, AdvanceSums DEF WriteEntry
<1>9. CASE EntryFails(p) \/ StreamFails(p) \/ ContentFails(p)
  BY <1>0, <1>9, ErrorSums DEF EntryFails, EntryRefused, StreamFails, ContentFails, StreamBroken
<1>10. CASE CreateSizeFile(p)
  <2>1. CASE Goto(p, "sizewrite") /\ UNCHANGED op
    BY <1>10, <1>s, <2>1, GotoSums DEF CreateSizeFile, SumsAt
  <2> QED
    BY <1>0, <1>10, <2>1, ErrorSums DEF CreateSizeFile, DiskCall
<1>11. CASE WriteSizeFile(p)
  <2>1. CASE Goto(p, "close") /\ UNCHANGED op
    <3>1. pc[p] = "sizewrite"
      BY <1>11 DEF WriteSizeFile
    <3> QED
      BY <1>s, <2>1, <3>1, GotoSums DEF SumsAt
  <2> QED
    BY <1>0, <1>11, <2>1, ErrorSums DEF WriteSizeFile, DiskCall
<1>12. CASE CloseWriter(p)
  BY <1>12, <1>s, GotoSums DEF CloseWriter, SumsAt
<1>13. CASE DisableProcessPrivileges(p)
  <2> DEFINE total == op[p].total + op[p].size
  <2>1. CASE op[p].result # "run" /\ Finish(p, op[p].result, 0)
    BY <1>0, <1>s, <2>1, FinishSums DEF SumsAt
  <2>2. CASE op[p].result = "run" /\ NextLayer(p)
    <3>1. op[p].img \in Images /\ op[p].idx \in 1..Len(op[p].img) /\ Len(op[p].img) \in Nat
      BY <1>0, <1>t, ImagesAssumption DEF AtWork
    <3>2. total = LayerSizes(op[p].img, op[p].idx)
      BY <1>13, <1>s, <2>2, <3>1, LayerSizesStep DEF SumsAt, DisableProcessPrivileges
    <3>3. CASE op[p].idx < Len(op[p].img)
      <4>1. pc'[p] = "exists" /\ op'[p] = Fresh(op[p].img, op[p].idx + 1, total, "run")
        BY <2>2, <3>3 DEF NextLayer, TypeOK, Goto
      <4>2. /\ op'[p].img = op[p].img /\ op'[p].idx - 1 = op[p].idx /\ op'[p].total = total
            /\ op'[p].result = "run"
        BY <3>1, <4>1 DEF Fresh
      <4> QED
        BY <3>2, <4>1, <4>2 DEF SumsAt
    <3>4. CASE ~(op[p].idx < Len(op[p].img))
      <4>1. total = ImageSize(op[p].img)
        <5>1. op[p].idx = Len(op[p].img)
          BY <3>1, <3>4
        <5> QED
          BY <3>2, <5>1 DEF ImageSize
      <4> QED
        BY <2>2, <3>4, <4>1, FinishSums DEF NextLayer
    <3> QED
      BY <3>3, <3>4
  <2> QED
    BY <1>13, <2>1, <2>2 DEF DisableProcessPrivileges, AfterUnpack
<1> QED
  BY <1>1, <1>2, <1>3, <1>4, <1>5, <1>6, <1>7, <1>8, <1>9, <1>10, <1>11, <1>12, <1>13 DEF Step

\* A step writes no wrong size.
LEMMA DiskSums ==
    ASSUME TypeOK, SumsInv, NEW p \in Procs, Step(p), NEW l \in Layers, disk'[l].size \in Nat
    PROVE  disk'[l].size = LayerSize(l)
<1>1. disk[l] \in LayerDirs /\ (disk[l].size \in Nat => disk[l].size = LayerSize(l))
  BY DEF TypeOK, SumsInv
<1>2. CASE disk'[l].size = disk[l].size
  BY <1>1, <1>2
<1>3. CASE disk'[l].size # disk[l].size
  <2>1. Layer(p) = l
    BY <1>3, DiskFrame
  <2>2. CASE DestroyLayer(p)
    <3>1. CASE disk' = [disk EXCEPT ![l] = Absent]
      BY <3>1, SentinelAssumption DEF Absent, TypeOK
    <3>2. CASE \E left \in PartlyRemoved(l) : disk' = [disk EXCEPT ![l] = left]
      <4>1. disk'[l] \in PartlyRemoved(l)
        BY <3>2 DEF TypeOK
      <4> QED
        BY <1>1, <4>1, PartEffect, SentinelAssumption
    <3> QED
      BY <2>1, <2>2, <3>1, <3>2 DEF DestroyLayer
  <2>3. CASE CreateSizeFile(p)
    BY <1>1, <1>3, <2>1, <2>3, SentinelAssumption DEF CreateSizeFile, DiskCall, TypeOK, LayerDirs
  <2>4. CASE WriteSizeFile(p)
    <3>1. op[p].size = LayerSize(l)
      <4>1. pc[p] = "sizewrite" /\ SumsAt(pc[p], op[p])
        BY <2>4 DEF WriteSizeFile, SumsInv
      <4> QED
        BY <2>1, <4>1 DEF SumsAt, Layer
    <3> QED
      BY <1>1, <1>3, <2>1, <2>4, <3>1 DEF WriteSizeFile, DiskCall, TypeOK, LayerDirs
  <2>5. CASE MkdirAll(p)
    BY <1>1, <1>3, <2>1, <2>5 DEF MkdirAll, DiskCall, TypeOK, LayerDirs
  <2>6. CASE CloseWriter(p)
    BY <1>1, <1>3, <2>1, <2>6 DEF CloseWriter, CloseBase, CloseStaged, TypeOK, LayerDirs
  <2>7. CASE WriteEntry(p) \/ StreamFails(p) \/ ContentFails(p)
    BY <1>1, <1>3, <2>1, <2>7, EntryEffect
  <2> QED
    BY <1>3, <2>2, <2>3, <2>4, <2>5, <2>6, <2>7
       DEF Step, LayerExists, EnableProcessPrivileges, ReadSize, NewLayerWriter, FirstHeader,
           EntryFails, DisableProcessPrivileges
<1> QED
  BY <1>2, <1>3

LEMMA SumsNext == TypeOK /\ SumsInv /\ [Next]_vars => SumsInv'
<1> SUFFICES ASSUME TypeOK, SumsInv, [Next]_vars PROVE SumsInv'
  OBVIOUS
<1>1. ASSUME NEW p \in Procs, Step(p) PROVE SumsInv'
  <2>1. ASSUME NEW q \in Procs \ {p} PROVE SumsAt(pc'[q], op'[q])
    BY <1>1, StepFrame DEF SumsInv
  <2> QED
    BY <1>1, <2>1, OwnSums, DiskSums DEF SumsInv
<1>2. ASSUME NEW p \in Procs, NEW i \in Images, Start(p, i) PROVE SumsInv'
  <2>1. disk' = disk /\ \A q \in Procs \ {p} : pc'[q] = pc[q] /\ op'[q] = op[q]
    BY <1>2 DEF Start, Goto, TypeOK
  <2>2. \/ pc'[p] = "exists" /\ op'[p] = Fresh(i, 1, 0, "run")
        \/ pc'[p] = "idle" /\ op'[p] = Fresh(i, 1, 0, "error")
    BY <1>2 DEF Start, Goto, TypeOK
  <2>3. SumsAt(pc'[p], op'[p])
    BY <2>2, LayerSizesStep DEF SumsAt, Fresh
  <2> QED
    BY <2>1, <2>3 DEF SumsInv
<1>3. ASSUME NEW p \in Procs, Crash(p) PROVE SumsInv'
  <2>1. disk' = disk /\ \A q \in Procs \ {p} : pc'[q] = pc[q] /\ op'[q] = op[q]
    BY <1>3 DEF Crash, Finish, Goto, TypeOK
  <2>2. SumsAt(pc'[p], op'[p])
    BY <1>3, FinishSums DEF Crash
  <2> QED
    BY <2>1, <2>2 DEF SumsInv
<1>4. CASE Heal \/ UNCHANGED vars
  BY <1>4 DEF Heal, vars, SumsInv
<1> QED
  BY <1>1, <1>2, <1>3, <1>4 DEF Next

\* A size file never holds a wrong size, and a pull that succeeds returns the size of the
\* image: buildLayers adds what Unpack counts or what the size file of a cached layer
\* says, for all images and tars and any number of pulls, failures and crashes.
THEOREM SizesAreExact == Spec => []ImageSizeExact
<1>1. SumsInv => ImageSizeExact
  BY DEF SumsInv, SumsAt, ImageSizeExact
<1> QED
  BY <1>1, SumsInit, SumsNext, TypeCorrect, PTL DEF Spec

-----------------------------------------------------------------------------
(***************************************************************************)
(* One process at a time.  What is under a layer's name is what the calls  *)
(* so far have made of it: nothing before MkdirAll, the first entries of   *)
(* the tar while a base layer is streamed, a size file after its last; and *)
(* every layer below has its size file.                                    *)
(***************************************************************************)
OneProcess == \A p, q \in Procs : p = q

Bare(d) == d.files = {} /\ d.size = NoFile

FirstFiles(n) == {<<k, "whole">> : k \in 1..n}

\* The directory d of the layer that a process with locals o works on, at the call at.
BuiltAt(at, o, d) ==
    /\ at = "elevate" /\ ~o.exists => ~d.dir
    /\ at = "destroy" => d.size = NoFile
    /\ at \in {"mkdir", "newwriter"} => Bare(d)
    /\ at \in {"newwriter", "stream", "sizecreate", "sizewrite"} => d.dir
    /\ at \in {"stream", "sizecreate"} => d.size = NoFile
    /\ at = "sizewrite" => d.size = Torn
    /\ at = "stream" /\ o.idx = 1 => d.files = FirstFiles(o.pos - 1)
    /\ at \in {"sizecreate", "sizewrite"} /\ o.idx = 1 => d.files = Whole(o.img[o.idx])
    /\ at \in {"close", "drop"} /\ o.result = "run" => d.size \in Nat

InstallInv ==
    /\ \A l \in Layers : ~disk[l].dir => Bare(disk[l])
    /\ \A p \in Procs : pc[p] # "idle" =>
          /\ BuiltAt(pc[p], op[p], disk[Layer(p)])
          /\ \A k \in 1..(op[p].idx - 1) : Sized(op[p].img[k])
    /\ SizedBaseHasFiles

LEMMA InstallInit == Init => InstallInv
<1> SUFFICES ASSUME Init PROVE InstallInv
  OBVIOUS
<1>1. \A l \in Layers : disk[l].size = NoFile /\ (~disk[l].dir => disk[l].files = {})
  BY DEF Init, OldLayer, Absent
<1>2. BaseLayers \subseteq Layers
  BY ImagesAssumption DEF BaseLayers
<1>3. \A p \in Procs : pc[p] = "idle"
  BY DEF Init
<1>4. SizedBaseHasFiles
  BY <1>1, <1>2, SentinelAssumption DEF SizedBaseHasFiles, Sized
<1> QED
  BY <1>1, <1>3, <1>4 DEF InstallInv, Bare

\* A chain ID names one place in the chains it is in.
LEMMA ChainPlaces ==
    ASSUME NEW i \in Images, NEW n \in 1..Len(i)
    PROVE  /\ i[n] \in Layers
           /\ \A k \in 1..(n - 1) : i[k] \in Layers /\ i[k] # i[n]
           /\ i[n] \in BaseLayers <=> n = 1
<1>1. i \in Seq(Layers) /\ Len(i) \in Nat /\ 1 \in 1..Len(i)
  BY ImagesAssumption
<1>2. \A k \in 1..Len(i) : i[k] \in Layers
  BY <1>1, ElementType
<1>3. \A k \in 1..(n - 1) : k \in 1..Len(i) /\ k # n
  BY <1>1
<1>4. \A k \in 1..(n - 1) : i[k] \in Layers /\ i[k] # i[n]
  BY <1>2, <1>3, ChainAssumption
<1>5. ASSUME NEW j \in Images, j[1] = i[n] PROVE n = 1
  <2>1. 1 \in 1..Len(j)
    BY ImagesAssumption
  <2> QED
    BY <1>5, <2>1, ChainAssumption
<1>6. i[n] \in BaseLayers <=> n = 1
  BY <1>5 DEF BaseLayers
<1> QED
  BY <1>2, <1>4, <1>6

\* A failed removal adds no file.
LEMMA PartFiles ==
    ASSUME TypeOK, NEW l \in Layers
    PROVE  \A left \in PartlyRemoved(l) : left.files \subseteq disk[l].files
<1> DEFINE Sizes == {disk[l].size} \cup (IF SizeFileOpen(l) THEN {} ELSE {NoFile})
           Kept(kept) == kept \cup (disk[l].files \cap HeldFiles(l))
           Part(kept, s) == [disk[l] EXCEPT !.files = Kept(kept), !.finished = FALSE, !.size = s]
<1>1. disk[l] \in LayerDirs
  BY DEF TypeOK
<1>2. PartlyRemoved(l) = {disk[l]} \cup {Part(kept, s) : kept \in SUBSET disk[l].files, s \in Sizes}
  BY DEF PartlyRemoved
<1>3. \A kept \in SUBSET disk[l].files : Kept(kept) \subseteq disk[l].files
  OBVIOUS
<1> HIDE DEF Sizes, Kept
<1>4. \A kept, s : Part(kept, s).files = Kept(kept)
  BY <1>1 DEF LayerDirs
<1> HIDE DEF Part
<1> QED
  BY <1>2, <1>3, <1>4

\* The locals that name p's layer, and the layer, after a step that stays in Unpack.
SameLayer(p) == op'[p].img = op[p].img /\ op'[p].idx = op[p].idx

\* What a step of p makes of the layer it works on.
Installs(p) ==
    LET d == disk'[Layer(p)] IN
    /\ ~d.dir => Bare(d)
    /\ op[p].idx = 1 /\ d.size \in Nat => d.dir /\ d.files = Whole(Layer(p))
    /\ pc'[p] = "exists" => /\ pc[p] = "drop" /\ op[p].result = "run" /\ op'[p].img = op[p].img
                            /\ op'[p].idx = op[p].idx + 1 /\ disk' = disk
    /\ pc'[p] \notin {"idle", "exists"} => SameLayer(p) /\ BuiltAt(pc'[p], op'[p], d)

\* What is known of that layer before the step.
LEMMA WorkedOn ==
    ASSUME TypeOK, InstallInv, NEW p \in Procs, pc[p] # "idle"
    PROVE  /\ Layer(p) \in Layers /\ disk[Layer(p)] \in LayerDirs
           /\ op[p].img \in Images /\ op[p].idx \in 1..Len(op[p].img) /\ op[p] \in Locals
           /\ BuiltAt(pc[p], op[p], disk[Layer(p)])
           /\ ~disk[Layer(p)].dir => Bare(disk[Layer(p)])
           /\ op[p].idx = 1 /\ disk[Layer(p)].size \in Nat =>
                 disk[Layer(p)].dir /\ disk[Layer(p)].files = Whole(Layer(p))
<1>1. Layer(p) \in Layers /\ op[p].img \in Images /\ op[p].idx \in 1..Len(op[p].img)
  BY LayerType DEF TypeOK, AtWork
<1>2. op[p].idx = 1 => Layer(p) \in BaseLayers
  BY <1>1 DEF Layer, BaseLayers
<1> QED
  BY <1>1, <1>2 DEF TypeOK, InstallInv, SizedBaseHasFiles, Sized

\* A step that does not touch the disk.
LEMMA ReturnInstalls ==
    ASSUME TypeOK, InstallInv, NEW p \in Procs, pc[p] # "idle", disk' = disk,
           \/ \E at \in {"close", "drop"}, r \in {"error", "panic"} : Return(p, at, r)
           \/ \E r, t : Finish(p, r, t)
    PROVE  Installs(p)
<1>1. CASE \E at \in {"close", "drop"}, r \in {"error", "panic"} : Return(p, at, r)
  <2>1. SameLayer(p) /\ pc'[p] \in {"close", "drop"} /\ op'[p].result # "run"
    BY <1>1, ReturnSums DEF SameWork, SameLayer
  <2>2. BuiltAt(pc'[p], op'[p], disk'[Layer(p)])
    BY <2>1 DEF BuiltAt
  <2> QED
    BY <2>1, <2>2, WorkedOn DEF Installs
<1>2. CASE \E r, t : Finish(p, r, t)
  <2>1. pc'[p] = "idle"
    BY <1>2 DEF Finish, Goto, TypeOK
  <2> QED
    BY <2>1, WorkedOn DEF Installs
<1> QED
  BY <1>1, <1>2

LEMMA CheckInstalls ==
    ASSUME TypeOK, InstallInv, NEW p \in Procs,
           LayerExists(p) \/ EnableProcessPrivileges(p) \/ ReadSize(p)
    PROVE  Installs(p)
<1>1. pc[p] # "idle" /\ disk' = disk
  BY DEF LayerExists, EnableProcessPrivileges, ReadSize
<1> DEFINE d == disk[Layer(p)]
<1>2. /\ op[p] \in Locals /\ d \in LayerDirs
      /\ BuiltAt(pc[p], op[p], d) /\ (~d.dir => Bare(d))
      /\ op[p].idx = 1 /\ d.size \in Nat => d.dir /\ d.files = Whole(Layer(p))
  BY <1>1, WorkedOn
<1>3. SUFFICES ASSUME pc'[p] \notin {"idle", "exists"}, 
                      ~(\E at \in {"close", "drop"}, r \in {"error", "panic"} : Return(p, at, r)),
                      ~(\E r, t : Finish(p, r, t))
               PROVE  SameLayer(p) /\ BuiltAt(pc'[p], op'[p], d)
  <2>1. pc'[p] # "exists"
    BY DEF LayerExists, EnableProcessPrivileges, PrivilegesRefused, ReadSize, SizeMissing,
           SizeUnreadable, Return, Finish, Goto, TypeOK
  <2> QED
    BY <1>1, <1>2, <1>3, <2>1, ReturnInstalls DEF Installs
<1>4. CASE LayerExists(p)
  <2>1. Goto(p, "elevate") /\ op' = [op EXCEPT ![p].exists = d.dir]
    BY <1>3, <1>4 DEF LayerExists
  <2>2. pc'[p] = "elevate" /\ SameLayer(p) /\ op'[p].exists = d.dir
    BY <1>2, <2>1 DEF TypeOK, Goto, SameLayer, Locals
  <2> QED
    BY <2>2 DEF BuiltAt
<1>5. CASE EnableProcessPrivileges(p)
  <2>1. Goto(p, IF op[p].exists THEN "readsize" ELSE "mkdir") /\ UNCHANGED op
    BY <1>3, <1>5 DEF EnableProcessPrivileges, PrivilegesRefused
  <2>2. SameLayer(p) /\ pc'[p] = IF op[p].exists THEN "readsize" ELSE "mkdir"
    BY <2>1 DEF TypeOK, Goto, SameLayer
  <2>3. ~op[p].exists => Bare(d)
    BY <1>2, <1>5 DEF BuiltAt, EnableProcessPrivileges
  <2> QED
    BY <2>2, <2>3 DEF BuiltAt
<1>6. CASE ReadSize(p)
  <2>1. CASE d.size \in Nat /\ Goto(p, "drop") /\ op' = [op EXCEPT ![p].size = d.size]
    <3>1. pc'[p] = "drop" /\ SameLayer(p)
      BY <1>2, <2>1 DEF TypeOK, Goto, SameLayer, Locals
    <3> QED
      BY <2>1, <3>1 DEF BuiltAt
  <2>2. CASE d.size = NoFile /\ Goto(p, "destroy") /\ UNCHANGED op
    <3>1. pc'[p] = "destroy" /\ SameLayer(p)
      BY <2>2 DEF TypeOK, Goto, SameLayer
    <3> QED
      BY <2>2, <3>1 DEF BuiltAt
  <2> QED
    BY <1>3, <1>6, <2>1, <2>2 DEF ReadSize, SizeMissing, SizeUnreadable
<1> QED
  BY <1>4, <1>5, <1>6

LEMMA DestroyInstalls ==
    ASSUME TypeOK, InstallInv, NEW p \in Procs, DestroyLayer(p)
    PROVE  Installs(p)
<1> DEFINE l == Layer(p)
<1>1. pc[p] = "destroy"
  BY DEF DestroyLayer
<1>2. /\ l \in Layers /\ op[p] \in Locals /\ disk[l] \in LayerDirs
      /\ disk[l].size = NoFile /\ (~disk[l].dir => Bare(disk[l]))
  BY <1>1, WorkedOn DEF BuiltAt
<1>3. CASE disk' = [disk EXCEPT ![l] = Absent] /\ Goto(p, "mkdir")
           /\ op' = [op EXCEPT ![p].tries = 0]
  <2>1. disk'[l] = Absent /\ Bare(disk'[l]) /\ disk'[l].size \notin Nat
    BY <1>2, <1>3, SentinelAssumption DEF TypeOK, Absent, Bare
  <2>2. pc'[p] = "mkdir" /\ SameLayer(p)
    BY <1>2, <1>3 DEF TypeOK, Goto, SameLayer, Locals
  <2> QED
    BY <2>1, <2>2 DEF Installs, BuiltAt
<1>4. CASE \E left \in PartlyRemoved(l) : disk' = [disk EXCEPT ![l] = left]
  <2>1. PICK left \in PartlyRemoved(l) : disk' = [disk EXCEPT ![l] = left]
    BY <1>4
  <2>2. disk'[l] = left
    BY <1>2, <2>1 DEF TypeOK
  <2>3. left.dir = disk[l].dir /\ left.size = NoFile /\ left.files \subseteq disk[l].files
    BY <1>2, <2>1, PartEffect, PartFiles
  <2>4. ~disk'[l].dir => Bare(disk'[l])
    BY <1>2, <2>2, <2>3 DEF Bare
  <2>5. disk'[l].size = NoFile /\ disk'[l].size \notin Nat
    BY <2>2, <2>3, SentinelAssumption
  <2>6. CASE op' = [op EXCEPT ![p].tries = @ + 1] /\ UNCHANGED pc
    <3>1. pc'[p] = "destroy" /\ SameLayer(p)
      BY <1>1, <1>2, <2>6 DEF TypeOK, SameLayer, Locals
    <3> QED
      BY <2>4, <2>5, <3>1 DEF Installs, BuiltAt
  <2>7. CASE \E r \in {"error", "panic"} : Return(p, "drop", r)
    <3>1. pc'[p] = "drop" /\ SameLayer(p) /\ op'[p].result # "run"
      BY <2>7, ReturnSums DEF SameWork, SameLayer
    <3> QED
      BY <2>4, <2>5, <3>1 DEF Installs, BuiltAt
  <2>8. CASE disk' = [disk EXCEPT ![l] = Absent] /\ Goto(p, "mkdir")
             /\ op' = [op EXCEPT ![p].tries = 0]
    BY <1>3, <2>8
  <2> QED
    BY <2>6, <2>7, <2>8 DEF DestroyLayer
<1> QED
  BY <1>3, <1>4 DEF DestroyLayer

\* A call on the layer directory that works: the new directory is d.
LEMMA DirInstalls ==
    ASSUME TypeOK, InstallInv, NEW p \in Procs, pc[p] # "idle", NEW d, NEW next,
           next \notin {"idle", "exists"},
           disk' = [disk EXCEPT ![Layer(p)] = d], Goto(p, next), UNCHANGED op,
           d.dir, op[p].idx = 1 /\ d.size \in Nat => d.files = Whole(Layer(p)),
           BuiltAt(next, op[p], d)
    PROVE  Installs(p)
<1>1. disk'[Layer(p)] = d
  BY WorkedOn DEF TypeOK
<1>2. pc'[p] = next /\ op'[p] = op[p]
  BY GotoSums
<1> QED
  BY <1>1, <1>2 DEF Installs, SameLayer

LEMMA CallInstalls ==
    ASSUME TypeOK, InstallInv, NEW p \in Procs,
           MkdirAll(p) \/ CreateSizeFile(p) \/ WriteSizeFile(p)
    PROVE  Installs(p)
<1> DEFINE d == disk[Layer(p)]
<1>1. pc[p] # "idle"
  BY DEF MkdirAll, CreateSizeFile, WriteSizeFile
<1>2. /\ op[p] \in Locals /\ d \in LayerDirs /\ BuiltAt(pc[p], op[p], d)
  BY <1>1, WorkedOn
<1>3. CASE disk' = disk /\ \E at \in {"close", "drop"} : Return(p, at, "error")
  BY <1>1, <1>3, ReturnInstalls
<1>4. ASSUME MkdirAll(p), disk' = [disk EXCEPT ![Layer(p)] = [d EXCEPT !.dir = TRUE]],
             Goto(p, "newwriter"), UNCHANGED op
      PROVE  Installs(p)
  <2> DEFINE e == [d EXCEPT !.dir = TRUE]
  <2>1. Bare(d)
    BY <1>2, <1>4 DEF BuiltAt, MkdirAll
  <2>2. e.dir /\ e.files = d.files /\ e.size = d.size
    BY <1>2 DEF LayerDirs
  <2> HIDE DEF e
  <2>3. e.dir /\ Bare(e) /\ e.size \notin Nat
    BY <2>1, <2>2, SentinelAssumption DEF Bare
  <2>4. BuiltAt("newwriter", op[p], e)
    BY <2>3 DEF BuiltAt
  <2>5. disk' = [disk EXCEPT ![Layer(p)] = e]
    BY <1>4 DEF e
  <2> QED
    BY <1>1, <1>4, <2>3, <2>4, <2>5, DirInstalls
<1>5. ASSUME CreateSizeFile(p), disk' = [disk EXCEPT ![Layer(p)] = [d EXCEPT !.size = Torn]],
             Goto(p, "sizewrite"), UNCHANGED op
      PROVE  Installs(p)
  <2> DEFINE e == [d EXCEPT !.size = Torn]
  <2>1. d.dir /\ (op[p].idx = 1 => d.files = Whole(op[p].img[op[p].idx]))
    BY <1>2, <1>5 DEF BuiltAt, CreateSizeFile
  <2>2. e.dir = d.dir /\ e.files = d.files /\ e.size = Torn
    BY <1>2 DEF LayerDirs
  <2> HIDE DEF e
  <2>3. e.dir /\ e.size \notin Nat
    BY <2>1, <2>2, SentinelAssumption
  <2>4. BuiltAt("sizewrite", op[p], e)
    BY <2>1, <2>2 DEF BuiltAt
  <2>5. disk' = [disk EXCEPT ![Layer(p)] = e]
    BY <1>5 DEF e
  <2> QED
    BY <1>1, <1>5, <2>3, <2>4, <2>5, DirInstalls
<1>6. ASSUME WriteSizeFile(p), disk' = [disk EXCEPT ![Layer(p)] = [d EXCEPT !.size = op[p].size]],
             Goto(p, "close"), UNCHANGED op
      PROVE  Installs(p)
  <2> DEFINE e == [d EXCEPT !.size = op[p].size]
  <2>1. d.dir /\ (op[p].idx = 1 => d.files = Whole(Layer(p)))
    BY <1>2, <1>6 DEF BuiltAt, WriteSizeFile, Layer
  <2>2. e.dir = d.dir /\ e.files = d.files /\ e.size \in Nat
    BY <1>2 DEF LayerDirs, Locals
  <2> HIDE DEF e
  <2>3. BuiltAt("close", op[p], e)
    BY <2>2 DEF BuiltAt
  <2>4. disk' = [disk EXCEPT ![Layer(p)] = e]
    BY <1>6 DEF e
  <2> QED
    BY <1>1, <1>6, <2>1, <2>2, <2>3, <2>4, DirInstalls
<1> QED
  BY <1>3, <1>4, <1>5, <1>6 DEF MkdirAll, CreateSizeFile, WriteSizeFile, DiskCall

LEMMA NewWriterInstalls ==
    ASSUME TypeOK, InstallInv, NEW p \in Procs, NewLayerWriter(p)
    PROVE  Installs(p)
<1> DEFINE d == disk[Layer(p)]
<1>1. pc[p] = "newwriter" /\ disk' = disk
  BY DEF NewLayerWriter
<1>2. /\ op[p] \in Locals /\ d.dir /\ Bare(d)
  BY <1>1, WorkedOn DEF BuiltAt
<1>3. CASE Return(p, "drop", "error")
  BY <1>1, <1>3, ReturnInstalls
<1>4. CASE Goto(p, "stream") /\ op' = [op EXCEPT ![p].pos = 0, ![p].size = 0]
  <2>1. pc'[p] = "stream" /\ SameLayer(p) /\ op'[p].pos = 0
    BY <1>2, <1>4 DEF TypeOK, Goto, SameLayer, Locals
  <2>2. d.files = FirstFiles(op'[p].pos - 1) /\ d.size = NoFile /\ d.size \notin Nat
    BY <1>2, <2>1, SentinelAssumption DEF Bare, FirstFiles
  <2> QED
    BY <1>1, <1>2, <2>1, <2>2 DEF Installs, BuiltAt
<1> QED
  BY <1>3, <1>4 DEF NewLayerWriter

\* What an entry that goes through the writer does to the layer directory.
LEMMA PutEffect ==
    ASSUME TypeOK, NEW p \in Procs, Layer(p) \in Layers, NEW state, NEW current, NEW failed,
           Put(p, state, current, failed)
    PROVE  /\ disk'[Layer(p)].dir = disk[Layer(p)].dir
           /\ disk'[Layer(p)].size = disk[Layer(p)].size
           /\ op[p].idx = 1 =>
                 disk'[Layer(p)].files = disk[Layer(p)].files \cup {<<op[p].pos, state>>}
<1> DEFINE l == Layer(p)
           F == disk[l].files \cup {<<op[p].pos, state>>}
<1>1. disk[l] \in LayerDirs
  BY DEF TypeOK
<1>2. CASE IsBase(p)
  <2>1. disk' = [disk EXCEPT ![l].files = F]
    BY <1>2 DEF Put
  <2> HIDE DEF F
  <2>2. disk'[l] = [disk[l] EXCEPT !.files = F]
    BY <2>1 DEF TypeOK
  <2>3. disk'[l].dir = disk[l].dir /\ disk'[l].size = disk[l].size /\ disk'[l].files = F
    BY <1>1, <2>2 DEF LayerDirs
  <2> QED
    BY <2>3 DEF F
<1>3. CASE ~IsBase(p)
  BY <1>3 DEF Put, IsBase
<1> QED
  BY <1>2, <1>3

\* The loop over the tar goes on with the entries so far on disk, or ends with all.
LEMMA AdvanceInstalls ==
    ASSUME TypeOK, InstallInv, NEW p \in Procs, pc[p] = "stream", NEW size, Advance(p, size),
           disk'[Layer(p)].dir, disk'[Layer(p)].size = NoFile,
           op[p].idx = 1 => disk'[Layer(p)].files = FirstFiles(op[p].pos)
    PROVE  Installs(p)
<1> DEFINE n == Len(Tar[Layer(p)])
           more == op[p].pos < n
           d == disk'[Layer(p)]
<1>1. Layer(p) \in Layers /\ n \in Nat
  BY LayerType, TarAssumption
<1>2. op[p].pos \in 0..n /\ op[p] \in Locals
  BY DEF TypeOK, AtWork
<1>3. /\ SameLayer(p)
      /\ op'[p].pos = IF more THEN op[p].pos + 1 ELSE op[p].pos
      /\ pc'[p] = IF more THEN "stream" ELSE "sizecreate"
  BY <1>2 DEF TypeOK, Advance, Goto, SameLayer, Locals
<1>4. d.size \notin Nat
  BY SentinelAssumption
<1>5. CASE more
  <2>1. op'[p].pos - 1 = op[p].pos /\ pc'[p] = "stream"
    BY <1>1, <1>2, <1>3, <1>5
  <2>2. BuiltAt(pc'[p], op'[p], d)
    BY <1>3, <2>1 DEF BuiltAt, SameLayer
  <2> QED
    BY <1>3, <1>4, <2>1, <2>2 DEF Installs
<1>6. CASE ~more
  <2>1. op[p].pos = n /\ pc'[p] = "sizecreate"
    BY <1>1, <1>2, <1>3, <1>6
  <2>2. FirstFiles(op[p].pos) = Whole(Layer(p))
    BY <2>1 DEF FirstFiles, Whole
  <2>3. BuiltAt(pc'[p], op'[p], d)
    BY <1>3, <2>1, <2>2 DEF BuiltAt, SameLayer, Layer
  <2> QED
    BY <1>3, <1>4, <2>1, <2>3 DEF Installs
<1> QED
  BY <1>5, <1>6

LEMMA StreamInstalls ==
    ASSUME TypeOK, InstallInv, NEW p \in Procs, FirstHeader(p) \/ WriteEntry(p)
    PROVE  Installs(p)
<1> DEFINE d == disk[Layer(p)]
<1>1. pc[p] = "stream"
  BY DEF FirstHeader, WriteEntry
<1>2. /\ Layer(p) \in Layers /\ op[p] \in Locals /\ d.dir /\ d.size = NoFile
      /\ op[p].idx = 1 => d.files = FirstFiles(op[p].pos - 1)
  BY <1>1, WorkedOn DEF BuiltAt
<1>3. CASE FirstHeader(p)
  <2>1. op[p].pos = 0 /\ disk' = disk /\ Advance(p, 0)
    BY <1>3 DEF FirstHeader
  <2>2. FirstFiles(op[p].pos - 1) = FirstFiles(op[p].pos)
    BY <2>1 DEF FirstFiles
  <2> QED
    BY <1>1, <1>2, <2>1, <2>2, AdvanceInstalls
<1>4. CASE WriteEntry(p)
  <2>1. /\ op[p].pos > 0 /\ op[p].pos \in Nat /\ Put(p, "whole", Current(p), FALSE)
        /\ Advance(p, op[p].size + EntrySize(Entry(p)))
    BY <1>2, <1>4 DEF WriteEntry, Locals
  <2>2. FirstFiles(op[p].pos - 1) \cup {<<op[p].pos, "whole">>} = FirstFiles(op[p].pos)
    <3>1. 1..op[p].pos = (1..(op[p].pos - 1)) \cup {op[p].pos}
      BY <2>1
    <3> QED
      BY <3>1 DEF FirstFiles
  <2>3. /\ disk'[Layer(p)].dir /\ disk'[Layer(p)].size = NoFile
        /\ op[p].idx = 1 => disk'[Layer(p)].files = FirstFiles(op[p].pos)
    BY <1>2, <2>1, <2>2, PutEffect
  <2> QED
    BY <1>1, <2>1, <2>3, AdvanceInstalls
<1> QED
  BY <1>3, <1>4

\* A failed entry leaves a layer without a size file.
LEMMA FailureInstalls ==
    ASSUME TypeOK, InstallInv, NEW p \in Procs, EntryFails(p) \/ StreamFails(p) \/ ContentFails(p)
    PROVE  Installs(p)
<1> DEFINE d == disk[Layer(p)]
<1>1. pc[p] = "stream" /\ Return(p, "close", "error")
  BY DEF EntryFails, EntryRefused, StreamFails, StreamBroken, ContentFails
<1>2. Layer(p) \in Layers /\ d.dir /\ d.size = NoFile
  BY <1>1, WorkedOn DEF BuiltAt
<1>3. CASE disk' = disk
  BY <1>1, <1>3, ReturnInstalls
<1>4. CASE \E state, current, failed : Put(p, state, current, failed)
  <2>1. disk'[Layer(p)].dir /\ disk'[Layer(p)].size = NoFile /\ disk'[Layer(p)].size \notin Nat
    BY <1>2, <1>4, PutEffect, SentinelAssumption
  <2>2. SameLayer(p) /\ pc'[p] = "close" /\ op'[p].result = "error"
    BY <1>1, ReturnSums DEF SameWork, SameLayer
  <2> QED
    BY <2>1, <2>2 DEF Installs, BuiltAt
<1> QED
  BY <1>3, <1>4 DEF EntryFails, StreamFails, ContentFails

LEMMA CloseInstalls ==
    ASSUME TypeOK, InstallInv, NEW p \in Procs, CloseWriter(p)
    PROVE  Installs(p)
<1> DEFINE l == Layer(p)
<1>1. pc[p] = "close" /\ pc'[p] = "drop" /\ op' = op
  BY DEF CloseWriter, Goto, TypeOK
<1>2. /\ l \in Layers /\ disk[l] \in LayerDirs /\ (~disk[l].dir => Bare(disk[l]))
      /\ op[p].result = "run" => disk[l].size \in Nat
      /\ op[p].idx = 1 /\ disk[l].size \in Nat => disk[l].dir /\ disk[l].files = Whole(l)
  BY <1>1, WorkedOn DEF BuiltAt
<1>3. /\ disk'[l].size = disk[l].size
      /\ disk[l].dir => disk'[l].dir
      /\ ~disk'[l].dir => disk'[l].files = disk[l].files
      /\ op[p].idx = 1 => disk'[l].files = disk[l].files
  <2>1. CASE IsBase(p)
    <3>1. disk' = [disk EXCEPT ![l].finished = TRUE] \/ disk' = disk
      BY <2>1 DEF CloseWriter, CloseBase
    <3>2. disk'[l] = [disk[l] EXCEPT !.finished = TRUE] \/ disk'[l] = disk[l]
      BY <1>2, <3>1 DEF TypeOK
    <3> QED
      BY <1>2, <3>2 DEF LayerDirs
  <2>2. CASE ~IsBase(p)
    <3>1. CASE \E S : disk' = [disk EXCEPT ![l].dir = TRUE, ![l].files = @ \cup S, ![l].finished = TRUE]
      <4>1. PICK S : disk' = [disk EXCEPT ![l].dir = TRUE, ![l].files = @ \cup S, ![l].finished = TRUE]
        BY <3>1
      <4> DEFINE F == disk[l].files \cup S
      <4>2. disk'[l] = [disk[l] EXCEPT !.dir = TRUE, !.files = F, !.finished = TRUE]
        BY <1>2, <4>1 DEF TypeOK
      <4> HIDE DEF F
      <4>3. disk'[l].dir /\ disk'[l].size = disk[l].size
        BY <1>2, <4>2 DEF LayerDirs
      <4> QED
        BY <2>2, <4>3 DEF IsBase
    <3>2. CASE \E S : disk' = [disk EXCEPT ![l].files = IF disk[l].dir THEN @ \cup S ELSE @]
      <4>1. PICK S : disk' = [disk EXCEPT ![l].files = IF disk[l].dir THEN @ \cup S ELSE @]
        BY <3>2
      <4> DEFINE F == IF disk[l].dir THEN disk[l].files \cup S ELSE disk[l].files
      <4>2. disk'[l] = [disk[l] EXCEPT !.files = F]
        BY <1>2, <4>1 DEF TypeOK
      <4>3. ~disk[l].dir => F = disk[l].files
        OBVIOUS
      <4> HIDE DEF F
      <4>4. disk'[l].dir = disk[l].dir /\ disk'[l].size = disk[l].size /\ disk'[l].files = F
        BY <1>2, <4>2 DEF LayerDirs
      <4> QED
        BY <2>2, <4>3, <4>4 DEF IsBase
    <3> QED
      BY <2>2, <3>1, <3>2 DEF CloseWriter, CloseStaged
  <2> QED
    BY <2>1, <2>2
<1> QED
  BY <1>1, <1>2, <1>3 DEF Installs, SameLayer, BuiltAt, Bare

LEMMA DropInstalls ==
    ASSUME TypeOK, InstallInv, NEW p \in Procs, DisableProcessPrivileges(p)
    PROVE  Installs(p)
<1>1. pc[p] = "drop" /\ disk' = disk
  BY DEF DisableProcessPrivileges
<1>2. CASE \E r, t : Finish(p, r, t)
  BY <1>1, <1>2, ReturnInstalls
<1>3. ASSUME NEW t, op[p].result = "run", Goto(p, "exists"),
             op' = [op EXCEPT ![p] = Fresh(op[p].img, op[p].idx + 1, t, "run")]
      PROVE  Installs(p)
  <2>1. pc'[p] = "exists" /\ op'[p].img = op[p].img /\ op'[p].idx = op[p].idx + 1
    BY <1>3 DEF Goto, Fresh, TypeOK
  <2> QED
    BY <1>1, <1>3, <2>1, WorkedOn DEF Installs
<1> QED
  BY <1>2, <1>3 DEF DisableProcessPrivileges, AfterUnpack, NextLayer

\* A process makes steps only while it runs.
LEMMA StepsRun ==
    ASSUME NEW p \in Procs, Step(p)
    PROVE  pc[p] # "idle"
BY DEF Step, LayerExists, EnableProcessPrivileges, ReadSize, DestroyLayer, MkdirAll, DiskCall,
       NewLayerWriter, FirstHeader, WriteEntry, EntryFails, StreamFails, ContentFails,
       CreateSizeFile, WriteSizeFile, CloseWriter, DisableProcessPrivileges

LEMMA StepInstalls ==
    ASSUME TypeOK, InstallInv, NEW p \in Procs, Step(p)
    PROVE  pc[p] # "idle" /\ Installs(p)
<1>1. pc[p] # "idle"
  BY StepsRun
<1> QED
  BY <1>1, CheckInstalls, DestroyInstalls, CallInstalls, NewWriterInstalls, StreamInstalls,
     FailureInstalls, CloseInstalls, DropInstalls DEF Step

LEMMA InstallStep ==
    ASSUME OneProcess, TypeOK, TypeOK', InstallInv, NEW p \in Procs, Step(p)
    PROVE  InstallInv'
<1> DEFINE l == Layer(p)
<1>1. pc[p] # "idle" /\ Installs(p)
  BY StepInstalls
<1>2. /\ l \in Layers /\ op[p].img \in Images /\ op[p].idx \in 1..Len(op[p].img)
      /\ BuiltAt(pc[p], op[p], disk[l])
  BY <1>1, WorkedOn
<1>3. \A m \in Layers : m # l => disk'[m] = disk[m]
  BY DiskFrame
<1>4. \A m \in Layers : ~disk'[m].dir => Bare(disk'[m])
  BY <1>1, <1>3 DEF Installs, InstallInv
<1>5. ASSUME NEW k \in 1..(op[p].idx - 1) PROVE op[p].img[k] # l /\ disk'[op[p].img[k]].size \in Nat
  <2>1. op[p].img[k] \in Layers /\ op[p].img[k] # l
    BY <1>2, <1>5, ChainPlaces DEF Layer
  <2> QED
    BY <1>1, <1>3, <1>5, <2>1 DEF InstallInv, Sized
<1>6. ASSUME pc'[p] # "idle"
      PROVE  /\ BuiltAt(pc'[p], op'[p], disk'[Layer(p)'])
             /\ \A k \in 1..(op'[p].idx - 1) : disk'[op'[p].img[k]].size \in Nat
  <2>1. CASE pc'[p] = "exists"
    <3>1. /\ pc[p] = "drop" /\ op[p].result = "run" /\ op'[p].img = op[p].img
          /\ op'[p].idx = op[p].idx + 1 /\ disk' = disk
      BY <1>1, <2>1 DEF Installs
    <3>2. BuiltAt(pc'[p], op'[p], disk'[Layer(p)'])
      BY <2>1 DEF BuiltAt
    <3>3. disk[l].size \in Nat
      BY <1>2, <3>1 DEF BuiltAt
    <3>4. ASSUME NEW k \in 1..(op'[p].idx - 1) PROVE disk'[op[p].img[k]].size \in Nat
      <4>1. op[p].idx \in Nat /\ (k \in 1..(op[p].idx - 1) \/ k = op[p].idx)
        BY <1>2, <3>1, ImagesAssumption
      <4>2. CASE k = op[p].idx
        BY <3>1, <3>3, <4>2 DEF Layer
      <4>3. CASE k \in 1..(op[p].idx - 1)
        BY <1>5, <4>3
      <4> QED
        BY <4>1, <4>2, <4>3
    <3> QED
      BY <3>1, <3>2, <3>4
  <2>2. CASE pc'[p] # "exists"
    <3>1. SameLayer(p) /\ BuiltAt(pc'[p], op'[p], disk'[l])
      BY <1>1, <1>6, <2>2 DEF Installs
    <3>2. Layer(p)' = l
      BY <3>1 DEF SameLayer, Layer
    <3> QED
      BY <1>5, <3>1, <3>2 DEF SameLayer
  <2> QED
    BY <2>1, <2>2
<1>7. SizedBaseHasFiles'
  <2> SUFFICES ASSUME NEW m \in BaseLayers, disk'[m].size \in Nat
               PROVE  disk'[m].dir /\ disk'[m].files = Whole(m)
    BY DEF SizedBaseHasFiles, Sized
  <2>1. m \in Layers
    BY ImagesAssumption DEF BaseLayers
  <2>2. CASE m # l
    BY <1>3, <2>1, <2>2 DEF InstallInv, SizedBaseHasFiles, Sized
  <2>3. CASE m = l
    <3>1. op[p].idx = 1
      BY <1>2, <2>3, ChainPlaces DEF Layer
    <3> QED
      BY <1>1, <2>3, <3>1 DEF Installs
  <2> QED
    BY <2>2, <2>3
<1>8. ASSUME NEW q \in Procs PROVE q = p
  BY DEF OneProcess
<1>9. \A q \in Procs : pc'[q] # "idle" =>
         /\ BuiltAt(pc'[q], op'[q], disk'[Layer(q)'])
         /\ \A k \in 1..(op'[q].idx - 1) : disk'[op'[q].img[k]].size \in Nat
  BY <1>6, <1>8
<1> QED
  BY <1>4, <1>7, <1>9 DEF InstallInv, Sized

LEMMA InstallNext ==
    ASSUME OneProcess
    PROVE  TypeOK /\ InstallInv /\ [Next]_vars => InstallInv'
<1> SUFFICES ASSUME TypeOK, InstallInv, [Next]_vars PROVE InstallInv'
  OBVIOUS
<1>0. TypeOK'
  BY NextType
<1>1. ASSUME NEW p \in Procs, Step(p) PROVE InstallInv'
  BY <1>0, <1>1, InstallStep
<1>2. ASSUME NEW p \in Procs, Crash(p) \/ \E i \in Images : Start(p, i) PROVE InstallInv'
  <2>1. disk' = disk
    BY <1>2 DEF Crash, Start
  <2>2. \/ pc'[p] = "idle"
        \/ pc'[p] = "exists" /\ op'[p].idx = 1
    BY <1>2 DEF Crash, Start, Finish, Goto, Fresh, TypeOK
  <2>3. \A q \in Procs : q = p
    BY DEF OneProcess
  <2>4. SizedBaseHasFiles'
    BY <2>1 DEF InstallInv, SizedBaseHasFiles, Sized
  <2>5. \A d : BuiltAt("exists", op'[p], d)
    BY DEF BuiltAt
  <2> QED
    BY <2>1, <2>2, <2>3, <2>4, <2>5 DEF InstallInv
<1>3. CASE Heal \/ UNCHANGED vars
  BY <1>3 DEF Heal, vars, InstallInv, SizedBaseHasFiles, Sized, Layer
<1> QED
  BY <1>1, <1>2, <1>3 DEF Next

LEMMA InstallInvariant ==
    ASSUME OneProcess
    PROVE  Spec => []InstallInv
BY InstallInit, InstallNext, TypeCorrect, PTL DEF Spec

\* When no other process pulls, a layer is written only while every layer below it has
\* its size file, for all images: buildLayers stops at the first layer that fails, and a
\* chain ID occurs once in a chain, so that a rebuild never touches a parent.
THEOREM ParentsAreInstalled ==
    ASSUME OneProcess
    PROVE  Spec => []ParentsInstalled
<1>1. TypeOK /\ PrivilegeInv /\ InstallInv => ParentsInstalled
  <2> SUFFICES ASSUME InstallInv, PrivilegeInv, NEW p \in Procs, writer[p].open,
                      NEW l \in Parents(p)
               PROVE  Sized(l)
    BY DEF ParentsInstalled
  <2>1. pc[p] # "idle"
    BY DEF PrivilegeInv
  <2> QED
    BY <2>1 DEF InstallInv, Parents
<1>2. Spec => []PrivilegeInv
  BY PrivilegeInit, PrivilegeNext, TypeCorrect, PTL DEF Spec
<1> QED
  BY <1>1, <1>2, InstallInvariant, TypeCorrect, PTL

\* When no other process pulls, a base layer with a size has exactly the files of its tar,
\* whole, for all images and tars and however many unpacks of it failed or died: the size
\* file is written last, and a layer without one is removed before it is written again.
THEOREM SizedBaseIsWhole ==
    ASSUME OneProcess
    PROVE  Spec => []SizedBaseHasFiles
<1>1. InstallInv => SizedBaseHasFiles
  BY DEF InstallInv
<1> QED
  BY <1>1, InstallInvariant, PTL

-----------------------------------------------------------------------------
(***************************************************************************)
(* A pull that has succeeded: the layers it goes by have their sizes.      *)
(***************************************************************************)
PulledSized ==
    \A p \in Procs : op[p].result = "ok" =>
        \A k \in 1..Len(op[p].img) : Sized(op[p].img[k])

\* Only the end of the last Unpack makes a pull a success.
LEMMA SuccessIsLast ==
    ASSUME TypeOK, SumsInv, NEW p \in Procs, Step(p), op'[p].result = "ok"
    PROVE  /\ pc[p] = "drop" /\ op[p].result = "run"
           /\ op[p].idx >= Len(op[p].img)
           /\ op'[p].img = op[p].img /\ disk' = disk
<1>1. pc[p] # "idle"
  BY StepsRun
<1>2. op[p].result # "ok" /\ op \in [Procs -> Locals]
  BY <1>1 DEF SumsInv, SumsAt, TypeOK
<1>3. DisableProcessPrivileges(p)
  <2>1. ~LayerExists(p) /\ ~EnableProcessPrivileges(p) /\ ~ReadSize(p)
    BY <1>2 DEF Locals, Goto, Return, Finish, Fresh, LayerExists, EnableProcessPrivileges,
           PrivilegesRefused, ReadSize, SizeMissing, SizeUnreadable
  <2>2. ~DestroyLayer(p) /\ ~MkdirAll(p) /\ ~NewLayerWriter(p)
    BY <1>2 DEF Locals, Return, DestroyLayer, MkdirAll, DiskCall, NewLayerWriter
  <2>3. ~FirstHeader(p) /\ ~WriteEntry(p) /\ ~EntryFails(p) /\ ~StreamFails(p) /\ ~ContentFails(p)
    BY <1>2 DEF Locals, Return, FirstHeader, Advance, WriteEntry, EntryFails, EntryRefused,
           StreamFails, StreamBroken, ContentFails
  <2>4. ~CreateSizeFile(p) /\ ~WriteSizeFile(p) /\ ~CloseWriter(p)
    BY <1>2 DEF Locals, Return, DiskCall, CreateSizeFile, WriteSizeFile, CloseWriter
  <2> QED
    BY <2>1, <2>2, <2>3, <2>4 DEF Step
<1>4. pc[p] = "drop" /\ disk' = disk /\ AfterUnpack(p)
  BY <1>3 DEF DisableProcessPrivileges
<1>5. op[p].result = "run" /\ NextLayer(p)
  BY <1>2, <1>4 DEF AfterUnpack, Finish, Fresh
<1>6. op[p].idx >= Len(op[p].img) /\ op'[p].img = op[p].img
  <2>1. op[p].idx \in Nat /\ op[p].img \in Images
    BY <1>1 DEF TypeOK, AtWork
  <2>2. Len(op[p].img) \in Nat
    BY <2>1, ImagesAssumption
  <2> QED
    BY <1>2, <1>5, <2>1, <2>2 DEF NextLayer, Finish, Fresh
<1> QED
  BY <1>4, <1>5, <1>6

LEMMA PulledNext ==
    ASSUME OneProcess
    PROVE  TypeOK /\ SumsInv /\ InstallInv /\ PulledSized /\ [Next]_vars => PulledSized'
<1> SUFFICES ASSUME TypeOK, SumsInv, InstallInv, PulledSized, [Next]_vars,
                    NEW p \in Procs, op'[p].result = "ok",
                    NEW k \in 1..Len(op'[p].img)
             PROVE  disk'[op'[p].img[k]].size \in Nat
  BY DEF PulledSized, Sized
<1>1. ASSUME NEW q \in Procs PROVE q = p
  BY DEF OneProcess
<1>2. CASE Step(p)
  <2>1. /\ pc[p] = "drop" /\ op[p].result = "run" /\ op[p].idx >= Len(op[p].img)
        /\ op'[p].img = op[p].img /\ disk' = disk
    BY <1>2, SuccessIsLast
  <2>2. /\ op[p].img \in Images /\ op[p].idx \in 1..Len(op[p].img)
        /\ BuiltAt(pc[p], op[p], disk[Layer(p)])
    BY <2>1, WorkedOn
  <2>3. k = op[p].idx \/ k \in 1..(op[p].idx - 1)
    BY <2>1, <2>2, ImagesAssumption
  <2>4. disk[Layer(p)].size \in Nat
    BY <2>1, <2>2 DEF BuiltAt
  <2>5. \A m \in 1..(op[p].idx - 1) : disk[op[p].img[m]].size \in Nat
    BY <2>1 DEF InstallInv, Sized
  <2> QED
    BY <2>1, <2>3, <2>4, <2>5 DEF Layer
<1>3. CASE Crash(p) \/ \E i \in Images : Start(p, i)
  BY <1>3 DEF Crash, Start, Finish, Fresh, TypeOK
<1>4. CASE Heal \/ UNCHANGED vars
  BY <1>4 DEF Heal, vars, PulledSized, Sized
<1> QED
  BY <1>1, <1>2, <1>3, <1>4 DEF Next

LEMMA PulledInvariant ==
    ASSUME OneProcess
    PROVE  Spec => []PulledSized
<1>1. Init => PulledSized
  BY DEF Init, Fresh, PulledSized
<1>2. Spec => []SumsInv
  BY SumsInit, SumsNext, TypeCorrect, PTL DEF Spec
<1> QED
  BY <1>1, <1>2, PulledNext, InstallInvariant, TypeCorrect, PTL DEF Spec
=============================================================================
