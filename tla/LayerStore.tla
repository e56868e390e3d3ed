------------------------------ MODULE LayerStore ------------------------------
(***************************************************************************)
(* The layer store of groot-windows: <store>/layers on disk, and the groot *)
(* processes that pull images into it.  A pull walks the image's chain of  *)
(* layers (vendored imagepuller) and calls Driver.Unpack (driver/unpack.go)*)
(* for each.  Nothing locks the layer store, so every call on the disk is  *)
(* a step of its own and the steps of several processes interleave.        *)
(*                                                                         *)
(* Abstractions                                                            *)
(*  - A layer is its chain ID.  Its tar is a sequence of entries of which  *)
(*    only the kind and the size matter.                                   *)
(*  - A file on disk is <<n, "whole">> or <<n, "cut">>: entry n of the tar,*)
(*    written to its end or not.                                           *)
(*  - The hcsshim layer writers are external: the base writer creates      *)
(*    files in the layer directory at once and post-processes them in      *)
(*    Close; the other writer stages files elsewhere and imports them in   *)
(*    Close, unless a write to one of them has failed.                     *)
(*  - A call that may fail has a fault outcome, possible while             *)
(*    env = "faulty".  Outcomes that the state forces do not need a fault. *)
(***************************************************************************)
EXTENDS Naturals, Sequences, Sums

CONSTANTS
    Procs,      \* groot processes (slots: a process that ended may start again)
    Layers,     \* chain IDs
    Images,     \* images: sequences of chain IDs, base layer first
    Tar,        \* Tar[l]: the entries of the tar of layer l
    NoFile,     \* "there is no size file"
    Torn,       \* a size file that was created and not yet, or never, filled
    InitEnv     \* the values env may start from

Kinds == {"file", "link", "whiteout"}

ASSUME ImagesAssumption == Images \subseteq Seq(Layers) \ {<<>>}
ASSUME TarAssumption == Tar \in [Layers -> Seq([kind : Kinds, size : Nat])]
ASSUME SentinelAssumption == NoFile \notin Nat /\ Torn \notin Nat /\ NoFile # Torn
ASSUME EnvAssumption == InitEnv \subseteq {"faulty", "healthy"}

\* A chain ID is a digest over the layer and everything below it.
ASSUME ChainAssumption ==
    \A i, j \in Images : \A m \in 1..Len(i), n \in 1..Len(j) :
        i[m] = j[n] => m = n /\ \A k \in 1..m : i[k] = j[k]

VARIABLES
    disk,     \* disk[l]: the directory of layer l
    pc,       \* pc[p]: the next call of process p
    op,       \* op[p]: the locals of Pull, buildLayers and Unpack
    writer,   \* writer[p]: the layer writer of p
    priv,     \* priv[p]: p holds SeBackupPrivilege and SeRestorePrivilege
    env       \* "faulty" until the environment stops failing calls

vars == <<disk, pc, op, writer, priv, env>>

-----------------------------------------------------------------------------
(***************************************************************************)
(* The layer directory.  finished: the Close of a layer writer did its     *)
(* post-processing (ProcessBaseLayer, or ImportLayer and links).  The size *)
(* file lies in the layer directory (driver.go, layerSizeFile).            *)
(***************************************************************************)
Absent == [dir |-> FALSE, files |-> {}, finished |-> FALSE, size |-> NoFile]

Whole(l) == {<<n, "whole">> : n \in 1..Len(Tar[l])}

\* A layer a groot without size files has unpacked.
OldLayer(l) == [dir |-> TRUE, files |-> Whole(l), finished |-> TRUE, size |-> NoFile]

\* The locals as Unpack of layer k of image i begins, t bytes into the image; once
\* the pull has ended, its outcome.
Fresh(i, k, t, r) == [img |-> i, idx |-> k, exists |-> FALSE, tries |-> 0,
                      pos |-> 0, size |-> 0, total |-> t, result |-> r]

NoWriter == [open |-> FALSE, root |-> FALSE, file |-> 0, err |-> FALSE, staged |-> {}]

Layer(p) == op[p].img[op[p].idx]
Parents(p) == {op[p].img[k] : k \in 1..(op[p].idx - 1)}
IsBase(p) == op[p].idx = 1
Entry(p) == Tar[Layer(p)][op[p].pos]
Faulty == env = "faulty"

\* What Unpack does to layer l between its check and its return.
Unpacking == {"destroy", "mkdir", "newwriter", "stream", "sizecreate", "sizewrite", "close"}

Labels == Unpacking \cup {"idle", "exists", "elevate", "readsize", "drop"}

Results == {"none", "run", "ok", "error", "panic", "crash"}

Init ==
    /\ \E old \in SUBSET Layers :
           disk = [l \in Layers |-> IF l \in old THEN OldLayer(l) ELSE Absent]
    /\ pc = [p \in Procs |-> "idle"]
    /\ op = [p \in Procs |-> Fresh(<<>>, 1, 0, "none")]
    /\ writer = [p \in Procs |-> NoWriter]
    /\ priv = [p \in Procs |-> FALSE]
    /\ env \in InitEnv

-----------------------------------------------------------------------------
(* Control. *)

Goto(p, at) == pc' = [pc EXCEPT ![p] = at]

\* return r from Unpack; at is the deferred call that runs next
Return(p, at, r) == Goto(p, at) /\ op' = [op EXCEPT ![p].result = r]

\* a call that changes the layer directory to d, or fails and makes Unpack return
DiskCall(p, able, d, next, unwind) ==
    /\ \/ able /\ disk' = [disk EXCEPT ![Layer(p)] = d] /\ Goto(p, next) /\ UNCHANGED op
       \/ (Faulty \/ ~able) /\ Return(p, unwind, "error") /\ UNCHANGED disk
    /\ UNCHANGED <<writer, priv, env>>

\* Pull returns, with r and the image size t
Finish(p, r, t) ==
    /\ Goto(p, "idle")
    /\ op' = [op EXCEPT ![p] = Fresh(op[p].img, 1, t, r)]

(***************************************************************************)
(* Pull, in a new process: fetch the image's layer infos, then unpack the  *)
(* first layer.                                                            *)
(***************************************************************************)
Start(p, i) ==
    /\ pc[p] = "idle"
    /\ \/ /\ Goto(p, "exists")
          /\ op' = [op EXCEPT ![p] = Fresh(i, 1, 0, "run")]
       \/ /\ Faulty                                    \* ImageInfo fails
          /\ op' = [op EXCEPT ![p] = Fresh(i, 1, 0, "error")]
          /\ UNCHANGED pc
    /\ priv' = [priv EXCEPT ![p] = FALSE]
    /\ UNCHANGED <<disk, writer, env>>

(***************************************************************************)
(* Unpack, up to the decision what to do with a layer that exists.         *)
(***************************************************************************)
LayerExists(p) ==
    /\ pc[p] = "exists"
    /\ \/ /\ Goto(p, "elevate")
          /\ op' = [op EXCEPT ![p].exists = disk[Layer(p)].dir]
       \/ Faulty /\ Finish(p, "error", 0)
    /\ UNCHANGED <<disk, writer, priv, env>>

\* Mutant: the error of EnableProcessPrivileges is not returned.
PrivilegesRefused_Ignored(p) ==
    Goto(p, IF op[p].exists THEN "readsize" ELSE "mkdir") /\ UNCHANGED op

PrivilegesRefused(p) == Finish(p, "error", 0)

EnableProcessPrivileges(p) ==
    /\ pc[p] = "elevate"
    /\ \/ /\ Goto(p, IF op[p].exists THEN "readsize" ELSE "mkdir")
          /\ priv' = [priv EXCEPT ![p] = TRUE]
          /\ UNCHANGED op
       \/ /\ Faulty /\ PrivilegesRefused(p)
          /\ UNCHANGED priv
    /\ UNCHANGED <<disk, writer, env>>

\* Mutant: an out-of-date layer is reported, not replaced.
SizeMissing_Reported(p) == Return(p, "drop", "error")

SizeMissing(p) == Goto(p, "destroy") /\ UNCHANGED op

\* Mutant: any error of the read is taken for "does not exist".
SizeUnreadable_AsMissing(p) == Goto(p, "destroy") /\ UNCHANGED op

SizeUnreadable(p) == Return(p, "drop", "error")

ReadSize(p) ==
    /\ pc[p] = "readsize"
    /\ LET size == disk[Layer(p)].size IN
       \/ /\ size \in Nat
          /\ Goto(p, "drop")
          /\ op' = [op EXCEPT ![p].size = size]
       \/ size = Torn /\ Return(p, "drop", "error")    \* ParseInt fails
       \/ size = NoFile /\ SizeMissing(p)
       \/ Faulty /\ SizeUnreadable(p)
    /\ UNCHANGED <<disk, writer, priv, env>>

(***************************************************************************)
(* One round of the loop in hcs.Client.DestroyLayer.  Windows does not     *)
(* remove a file that another process has open without FILE_SHARE_DELETE:  *)
(* the size file while it is written, and the current file of a base       *)
(* writer.  A directory handle does not stop the removal, but the writer   *)
(* that owns it then writes nowhere.                                       *)
(***************************************************************************)
\* Mutant: one round too many.
Attempts_OneMore == 4

Attempts == 3

SizeFileOpen(l) == \E q \in Procs : pc[q] = "sizewrite" /\ Layer(q) = l

HeldFiles(l) == {<<writer[q].file, s>> : q \in {q \in Procs : /\ writer[q].root
                                                              /\ Layer(q) = l
                                                              /\ IsBase(q)},
                                         s \in {"whole", "cut"}}

Removable(l) == ~SizeFileOpen(l) /\ disk[l].files \cap HeldFiles(l) = {}

\* What a failed removal may leave behind.
PartlyRemoved(l) ==
    {disk[l]} \cup
    { [disk[l] EXCEPT !.files = kept \cup (disk[l].files \cap HeldFiles(l)),
                      !.finished = FALSE, !.size = s] :
        kept \in SUBSET disk[l].files,
        s \in {disk[l].size} \cup (IF SizeFileOpen(l) THEN {} ELSE {NoFile}) }

DestroyLayer(p) ==
    LET l == Layer(p) IN
    /\ pc[p] = "destroy"
    /\ \/ /\ Removable(l)
          /\ disk' = [disk EXCEPT ![l] = Absent]
          /\ writer' = [q \in Procs |-> IF writer[q].open /\ Layer(q) = l
                                          THEN [writer[q] EXCEPT !.root = FALSE]
                                          ELSE writer[q]]
          /\ Goto(p, "mkdir")
          /\ op' = [op EXCEPT ![p].tries = 0]
       \/ /\ Faulty \/ ~Removable(l) \/ ~disk[l].dir
          /\ \E left \in PartlyRemoved(l) : disk' = [disk EXCEPT ![l] = left]
          /\ UNCHANGED writer
          /\ IF op[p].tries + 1 < Attempts
               THEN op' = [op EXCEPT ![p].tries = @ + 1] /\ UNCHANGED pc
               ELSE \* the message dereferences the errors of the two other calls
                    \E r \in {"error", "panic"} : Return(p, "drop", r)
    /\ UNCHANGED <<priv, env>>

MkdirAll(p) ==
    /\ pc[p] = "mkdir"
    /\ DiskCall(p, TRUE, [disk[Layer(p)] EXCEPT !.dir = TRUE], "newwriter", "drop")

(***************************************************************************)
(* The writer opens the directory of the layer and those of its parents.   *)
(***************************************************************************)
ParentsPresent(p) == \A l \in Parents(p) : disk[l].dir

RootsPresent(p) == disk[Layer(p)].dir /\ ParentsPresent(p)

NewLayerWriter(p) ==
    /\ pc[p] = "newwriter"
    /\ \/ /\ RootsPresent(p)
          /\ writer' = [writer EXCEPT ![p] = [NoWriter EXCEPT !.open = TRUE, !.root = TRUE]]
          /\ Goto(p, "stream")
          /\ op' = [op EXCEPT ![p].pos = 0, ![p].size = 0]
       \/ /\ Faulty \/ ~RootsPresent(p)
          /\ Return(p, "drop", "error")
          /\ UNCHANGED writer
    /\ UNCHANGED <<disk, priv, env>>

-----------------------------------------------------------------------------
(***************************************************************************)
(* The loop over the tar.  pos is the entry whose header is in hdr, 0 for  *)
(* nil.  One round handles that entry and asks for the next header.        *)
(***************************************************************************)

\* The file the base writer has open once it has taken the entry.
Current(p) == IF Entry(p).kind = "file" THEN op[p].pos ELSE 0

\* The writer takes the entry.  The base writer takes no tombstones and
\* creates each file with FILE_CREATE under the directory it has open.
Accepted(p) ==
    IsBase(p) => /\ Entry(p).kind # "whiteout"
                 /\ writer[p].root
                 /\ \A f \in disk[Layer(p)].files : f[1] # op[p].pos

Put(p, state, current, failed) ==
    LET f == <<op[p].pos, state>> IN
    IF IsBase(p)
      THEN /\ disk' = [disk EXCEPT ![Layer(p)].files = @ \cup {f}]
           /\ writer' = [writer EXCEPT ![p].file = current, ![p].err = failed]
      ELSE /\ writer' = [writer EXCEPT ![p].staged = @ \cup {f}, ![p].err = failed]
           /\ UNCHANGED disk

\* Only files count towards the size of the layer.
EntrySize(e) == IF e.kind = "file" THEN e.size ELSE 0

\* hdr, nextFileErr = Next(): the next header, or io.EOF ends the loop.
Advance(p, size) ==
    LET more == op[p].pos < Len(Tar[Layer(p)]) IN
    /\ op' = [op EXCEPT ![p].pos = IF more THEN @ + 1 ELSE @, ![p].size = size]
    /\ Goto(p, IF more THEN "stream" ELSE "sizecreate")

FirstHeader(p) ==
    /\ pc[p] = "stream" /\ op[p].pos = 0
    /\ Advance(p, 0)
    /\ UNCHANGED <<disk, writer, priv, env>>

WriteEntry(p) ==
    /\ pc[p] = "stream" /\ op[p].pos > 0
    /\ Accepted(p)
    /\ Put(p, "whole", Current(p), FALSE)
    /\ Advance(p, op[p].size + EntrySize(Entry(p)))
    /\ UNCHANGED <<priv, env>>

\* Mutant: an entry the writer refuses is skipped.
EntryRefused_Skipped(p) == Advance(p, op[p].size + EntrySize(Entry(p)))

EntryRefused(p) == Return(p, "close", "error")

\* Remove, AddLink, FileInfoFromHeader or Add fails.  The base writer remembers
\* the failures of Add and AddLink, and has closed its current file by then; the
\* other one may remember the failure to close its current file.
EntryFails(p) ==
    /\ pc[p] = "stream" /\ op[p].pos > 0
    /\ Faulty \/ ~Accepted(p)
    /\ \E failed \in BOOLEAN :
           /\ IsBase(p) /\ Entry(p).kind = "link" => failed
           /\ Entry(p).kind = "whiteout" => ~failed
           /\ Entry(p).kind = "file" /\ ~Faulty => failed
           /\ writer' = [writer EXCEPT ![p].err = failed,
                                       ![p].file = IF failed THEN 0 ELSE @]
    /\ EntryRefused(p)
    /\ UNCHANGED <<disk, priv, env>>

\* Mutant: every error ends the loop as io.EOF does.
StreamBroken_AsEOF(p) == Goto(p, "sizecreate") /\ UNCHANGED op

StreamBroken(p) == Return(p, "close", "error")

\* The entry's content does not arrive whole, or the next header is not
\* readable: nextFileErr is neither nil nor io.EOF.
StreamFails(p) ==
    /\ pc[p] = "stream"
    /\ Faulty
    /\ \/ op[p].pos = 0 /\ UNCHANGED <<disk, writer>>
       \/ /\ op[p].pos > 0
          /\ Accepted(p)
          /\ \E state \in {"whole", "cut"} :
                 /\ Entry(p).kind # "file" => state = "whole"
                 /\ Put(p, state, Current(p), FALSE)
    /\ StreamBroken(p)
    /\ UNCHANGED <<priv, env>>

\* Writing the content fails, or the base writer's Add does once it has created the
\* file, which it then closes; either way the writer remembers it.
ContentFails(p) ==
    /\ pc[p] = "stream" /\ op[p].pos > 0
    /\ Faulty
    /\ Accepted(p) /\ Entry(p).kind = "file"
    /\ \E current \in {op[p].pos} \cup (IF IsBase(p) THEN {0} ELSE {}) :
           Put(p, "cut", current, TRUE)
    /\ StreamBroken(p)
    /\ UNCHANGED <<priv, env>>

-----------------------------------------------------------------------------
(***************************************************************************)
(* os.WriteFile of the size, in the two steps a crash can come between:    *)
(* create or truncate, then write.                                         *)
(***************************************************************************)
CreateSizeFile(p) ==
    LET d == disk[Layer(p)] IN
    pc[p] = "sizecreate" /\ DiskCall(p, d.dir, [d EXCEPT !.size = Torn], "sizewrite", "close")

WriteSizeFile(p) ==
    LET d == disk[Layer(p)] IN
    pc[p] = "sizewrite" /\ DiskCall(p, TRUE, [d EXCEPT !.size = op[p].size], "close", "close")

(***************************************************************************)
(* The deferred layerWriter.Close, whose error is dropped.  Unless it      *)
(* remembers an error, the base writer post-processes the directory and    *)
(* the other writer imports what it has staged on top of the parents, be   *)
(* that all of the layer or not.                                           *)
(***************************************************************************)
CloseBase(p) ==
    LET l == Layer(p) IN
    \/ /\ ~writer[p].err /\ disk[l].dir
       /\ disk' = [disk EXCEPT ![l].finished = TRUE]
    \/ /\ Faulty \/ writer[p].err \/ ~disk[l].dir
       /\ UNCHANGED disk

CloseStaged(p) ==
    LET l == Layer(p) IN
    \/ /\ ~writer[p].err /\ ParentsPresent(p)
       /\ disk' = [disk EXCEPT ![l].dir = TRUE, ![l].files = @ \cup writer[p].staged,
                               ![l].finished = TRUE]
    \/ /\ ~writer[p].err /\ (Faulty \/ ~ParentsPresent(p))
       /\ \E part \in SUBSET writer[p].staged :
              disk' = [disk EXCEPT ![l].files = IF disk[l].dir THEN @ \cup part ELSE @]
    \/ (writer[p].err \/ ~disk[l].dir) /\ UNCHANGED disk

CloseWriter(p) ==
    /\ pc[p] = "close"
    /\ IF IsBase(p) THEN CloseBase(p) ELSE CloseStaged(p)
    /\ writer' = [writer EXCEPT ![p] = NoWriter]
    /\ Goto(p, "drop")
    /\ UNCHANGED <<op, priv, env>>

(***************************************************************************)
(* The last deferred call of Unpack, and buildLayers after it: the next    *)
(* layer, or the end of the pull.                                          *)
(***************************************************************************)
NextLayer(p) ==
    LET total == op[p].total + op[p].size IN
    IF op[p].idx < Len(op[p].img)
      THEN /\ Goto(p, "exists")
           /\ op' = [op EXCEPT ![p] = Fresh(op[p].img, op[p].idx + 1, total, "run")]
      ELSE Finish(p, "ok", total)

\* Mutant: buildLayers goes on to the next layer whatever buildLayer returned.
AfterUnpack_ErrorIgnored(p) == NextLayer(p)

AfterUnpack(p) == IF op[p].result = "run" THEN NextLayer(p) ELSE Finish(p, op[p].result, 0)

DisableProcessPrivileges(p) ==
    /\ pc[p] = "drop"
    /\ \E kept \in BOOLEAN :
           /\ kept => Faulty
           /\ priv' = [priv EXCEPT ![p] = kept]
    /\ AfterUnpack(p)
    /\ UNCHANGED <<disk, writer, env>>

-----------------------------------------------------------------------------
(***************************************************************************)
(* The process dies: what it held in memory is lost, the disk stays.       *)
(***************************************************************************)
Crash(p) ==
    /\ pc[p] # "idle"
    /\ Faulty
    /\ Finish(p, "crash", 0)
    /\ writer' = [writer EXCEPT ![p] = NoWriter]
    /\ priv' = [priv EXCEPT ![p] = FALSE]
    /\ UNCHANGED <<disk, env>>

Heal ==
    /\ Faulty
    /\ env' = "healthy"
    /\ UNCHANGED <<disk, pc, op, writer, priv>>

Step(p) ==
    \/ LayerExists(p) \/ EnableProcessPrivileges(p) \/ ReadSize(p)
    \/ DestroyLayer(p) \/ MkdirAll(p) \/ NewLayerWriter(p)
    \/ FirstHeader(p) \/ WriteEntry(p) \/ EntryFails(p)
    \/ StreamFails(p) \/ ContentFails(p)
    \/ CreateSizeFile(p) \/ WriteSizeFile(p) \/ CloseWriter(p)
    \/ DisableProcessPrivileges(p)

Next ==
    \/ \E p \in Procs : Step(p) \/ Crash(p) \/ \E i \in Images : Start(p, i)
    \/ Heal

Spec == Init /\ [][Next]_vars

\* The scheduler runs every process that has a next call.
FairSpec == Spec /\ \A p \in Procs : WF_vars(Step(p))
-----------------------------------------------------------------------------
(* Properties. *)

FileStates == Nat \X {"whole", "cut"}

LayerDirs == [dir : BOOLEAN, files : SUBSET FileStates, finished : BOOLEAN,
              size : Nat \cup {NoFile, Torn}]
Locals == [img : Images \cup {<<>>}, idx : Nat \ {0}, exists : BOOLEAN, tries : 0..2,
           pos : Nat, size : Nat, total : Nat, result : Results]
Writers == [open : BOOLEAN, root : BOOLEAN, file : Nat, err : BOOLEAN,
            staged : SUBSET FileStates]

\* What p works on: a layer of its image, and an entry of that layer's tar.
AtWork(p) ==
    /\ pc[p] # "idle" => op[p].img \in Images /\ op[p].idx \in 1..Len(op[p].img)
    /\ pc[p] = "stream" => op[p].pos \in 0..Len(Tar[Layer(p)])

\* Every variable has its type, a process that runs works on a layer of its
\* image and on an entry of that layer's tar, and DestroyLayer (hcs/client.go)
\* makes at most three rounds.
TypeOK ==
    /\ disk \in [Layers -> LayerDirs]
    /\ pc \in [Procs -> Labels]
    /\ op \in [Procs -> Locals]
    /\ writer \in [Procs -> Writers]
    /\ priv \in [Procs -> BOOLEAN]
    /\ env \in {"faulty", "healthy"}
    /\ \A p \in Procs : AtWork(p)

\* The bytes in the first n entries of the tar of l, and in the first n layers of i.
EntrySizes(l, n) == SumTo([k \in 1..Len(Tar[l]) |-> EntrySize(Tar[l][k])], n)
LayerSize(l) == EntrySizes(l, Len(Tar[l]))
LayerSizes(i, n) == SumTo([k \in 1..Len(i) |-> LayerSize(i[k])], n)
ImageSize(i) == LayerSizes(i, Len(i))

\* A size file never holds a number other than the sum of the sizes of the files
\* in the layer's tar, and a pull that succeeds returns the sum over the image's
\* layers, whether it unpacked a layer (totalSize) or read its size file, and
\* whatever other processes, crashes and failed calls did before.
ImageSizeExact ==
    /\ \A l \in Layers : disk[l].size \in Nat => disk[l].size = LayerSize(l)
    /\ \A p \in Procs : op[p].result = "ok" => op[p].total = ImageSize(op[p].img)

\* p has decided to write layer l and has not returned from Unpack.
Rebuilding(p, l) ==
    /\ pc[p] # "idle"
    /\ Layer(p) = l
    /\ pc[p] \in Unpacking \/ (pc[p] = "elevate" /\ ~op[p].exists)

Settled(l) == disk[l].size # NoFile /\ \A p \in Procs : ~Rebuilding(p, l)

\* A layer that has a size file and that no process has decided to write is never
\* written again: every later Unpack of it stops at the size file, in all
\* interleavings, crashes and failed calls.  It holds for a torn size file as well:
\* no pull repairs one.
SettledStable == [][\A l \in Layers : Settled(l) => Settled(l)' /\ disk'[l] = disk[l]]_vars

\* The size files, and who has decided to write which layer.
SizeFiles == [l \in Layers |-> disk[l].size]
Claimants == [l \in Layers |-> {p \in Procs : Rebuilding(p, l)}]

Claims == INSTANCE LayerClaims WITH size <- SizeFiles, claims <- Claimants

\* Pulls without a lock keep to the claim protocol of LayerClaims: a process decides to
\* write a layer only at a moment when it has no size file, nobody else changes a size
\* file, and a size is only ever written into a file that was created before.
LayersClaimed == Claims!Spec

\* The layer writer is made, used and closed with the backup and restore privileges
\* held: the deferred Close runs before the deferred DisableProcessPrivileges, and a
\* refusal to grant them ends Unpack.
PrivilegedWriter == \A p \in Procs : writer[p].open \/ pc[p] = "newwriter" => priv[p]

Sized(l) == disk[l].size \in Nat
Complete(l) == disk[l].dir /\ disk[l].files = Whole(l) /\ disk[l].finished
Ready(l) == Sized(l) /\ Complete(l)

\* For one process at a time: while a layer is written, every layer below it has its
\* size file.  buildLayers stops at the first layer that fails, and no rebuild of a
\* layer pulls a parent away from under a later one.
ParentsInstalled == \A p \in Procs : writer[p].open => \A l \in Parents(p) : Sized(l)

BaseLayers == {i[1] : i \in Images}

\* For one process at a time: a base layer with a size has every file of its tar,
\* written to the end, and none besides, however many unpacks of it failed or died
\* half way before.
SizedBaseHasFiles ==
    \A l \in BaseLayers : Sized(l) => disk[l].dir /\ disk[l].files = Whole(l)

Chain(p) == {op[p].img[k] : k \in 1..Len(op[p].img)}

\* For one process at a time: a pull that starts after calls have stopped failing, with
\* each layer of the image either without a size file (absent, left behind by an older
\* groot, by a crash or by a failed unpack) or ready, succeeds and leaves all ready.
PullRecovers == \A p \in Procs : \A i \in Images :
    ( /\ ~Faulty /\ pc[p] = "exists" /\ op[p].img = i /\ op[p].idx = 1
      /\ \A l \in Chain(p) : disk[l].size = NoFile \/ Ready(l) )
    ~> ( /\ pc[p] = "idle" /\ op[p].img = i /\ op[p].result = "ok"
         /\ \A l \in Chain(p) : Ready(l) )

\* Unpack removes a layer only if it has no size file ("if the size file does not
\* exist, delete the layer and recreate", driver/unpack.go).  Two pulls violate it.
DeletesOnlyUnsizedLayers == [][\A l \in Layers : Sized(l) => disk'[l].dir]_vars

\* After a pull that succeeds the layers of the image are unpacked: their files are
\* there and the writer's Close has done its work.  A dropped Close error violates it.
PulledLayersImported == \A p \in Procs : op[p].result = "ok" => \A l \in Chain(p) : Complete(l)
=============================================================================
