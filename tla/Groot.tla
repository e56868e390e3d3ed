--------------------------------- MODULE Groot --------------------------------
(***************************************************************************)
(* A groot process from its command line to its exit: main.go hands the    *)
(* driver to groot.Run, which runs one command.  create pulls the image    *)
(* into the layer store and makes a volume on top of its layers, with the  *)
(* size the pull returned; pull stops after the first half; delete and     *)
(* stats work on a volume.  LayerStore and VolumeStore are the two halves. *)
(*                                                                         *)
(* The layer store and the volume store only meet in the layers under a    *)
(* volume: parents[h] is what CreateSandboxLayer was given for volume h.   *)
(* It is empty for a volume that an older groot made.                      *)
(***************************************************************************)
EXTENDS Integers, Sequences

CONSTANTS
    Procs, Handles, Layers, Images, Tar,
    Store,        \* the store directory; "root" for the root of drive C
    Quotas,       \* [limit, exclude]: the disk limits groot create is given
    Overhead, NoQuota, NoFile, Torn, Free, Serial, InitEnv

VARIABLES
    disk, lpc, lop, writer, priv,    \* LayerStore
    vol, lock, vpc, vop,             \* VolumeStore
    env,                             \* shared by both
    job,                             \* job[p]: the command line of p and its stage
    parents                          \* parents[h]: the layers under volume h

L == INSTANCE LayerStore WITH pc <- lpc, op <- lop

\* What Bundle is asked for: a limit of a command line, and the size of an image.
Request(q, n) == [limit |-> q.limit, exclude |-> q.exclude, size |-> n]
Requests == {Request(q, L!ImageSize(i)) : q \in Quotas, i \in Images}

V == INSTANCE VolumeStore WITH pc <- vpc, op <- vop

\* The assumptions of both halves.
ASSUME LayersAssumption ==
    /\ Images \subseteq Seq(Layers) \ {<<>>}
    /\ Tar \in [Layers -> Seq([kind : L!Kinds, size : Nat])]
    /\ \A i, j \in Images : \A m \in 1..Len(i), n \in 1..Len(j) :
           i[m] = j[n] => m = n /\ \A k \in 1..m : i[k] = j[k]
ASSUME VolumesAssumption ==
    /\ Quotas \subseteq [limit : Int, exclude : BOOLEAN]
    /\ Overhead \in Nat \ {0}
    /\ NoQuota \notin Nat /\ Free \notin Procs /\ Serial \in BOOLEAN
ASSUME SharedAssumption ==
    /\ NoFile \notin Nat /\ Torn \notin Nat /\ NoFile # Torn
    /\ InitEnv \subseteq {"faulty", "healthy"}

layers == <<disk, lpc, lop, writer, priv>>
volumes == <<vol, lock, vpc, vop>>
vars == <<layers, volumes, env, job, parents>>

NoJob == [kind |-> "none", stage |-> "done", handle |-> "none", img |-> <<>>,
          limit |-> 0, exclude |-> FALSE]

\* The layers and the volumes an older groot has left; such a volume lies on the layers
\* of an image.
Init ==
    /\ L!Init /\ V!Init
    /\ \A h \in Handles : vol[h].dir =>
           \E i \in Images : \A k \in 1..Len(i) : disk[i[k]].dir
    /\ job = [p \in Procs |-> NoJob]
    /\ parents = [h \in Handles |-> <<>>]

-----------------------------------------------------------------------------
\* --driver-store is not set: Unpack and Delete return EmptyDriverStoreError at once.
NoStore(flag) == flag = ""

\* toWindowsPath: no store means the root of drive C, where stats then looks.
Resolve(flag) == IF NoStore(flag) THEN "root" ELSE flag

Idle(p) == lpc[p] = "idle" /\ vpc[p] = "idle" /\ job[p].stage = "done"

\* The command ends before it has called anything.
Refuse(p) ==
    /\ job' = [job EXCEPT ![p] = NoJob]
    /\ UNCHANGED <<layers, volumes, env, parents>>

\* groot create and groot pull begin with the pull.  quotaExceeded compares the limit
\* with the sizes in the manifest, which may be anything.
Pull(p, new, flag) ==
    /\ Idle(p)
    /\ \/ /\ ~NoStore(flag) /\ new.limit >= 0
          /\ L!Start(p, new.img)
          /\ job' = [job EXCEPT ![p] = new]
          /\ UNCHANGED <<volumes, parents>>
       \/ /\ NoStore(flag) \/ new.limit < 0 \/ (new.limit # 0 /\ ~new.exclude)
          /\ Refuse(p)

\* Mutant: the size of the last layer is taken for that of the image.
PulledSize_LastLayer(p) == disk[job[p].img[Len(job[p].img)]].size

PulledSize(p) == lop[p].total

Bundle(p) == V!Pulled(p, job[p].handle, Request(job[p], PulledSize(p)))

\* Mutant: the error of Pull is not looked at.
PullWorked_Assumed(p) == TRUE

PullWorked(p) == lop[p].result = "ok"

\* Pull has returned.
AfterPull(p) ==
    /\ lpc[p] = "idle" /\ job[p].stage = "pull"
    /\ \/ /\ PullWorked(p) /\ job[p].kind = "create"
          /\ Bundle(p)
          /\ job' = [job EXCEPT ![p].stage = "done"]
       \/ /\ ~PullWorked(p) \/ job[p].kind = "pull"
          /\ job' = [job EXCEPT ![p] = NoJob]
          /\ UNCHANGED <<volumes, env>>
    /\ UNCHANGED <<layers, parents>>

LayerStep(p) == L!Step(p) /\ UNCHANGED <<volumes, job, parents>>

\* Bundle hands CreateLayer the folders of the image's layers.
VolumeStep(p) ==
    /\ V!Step(p)
    /\ parents' = [h \in Handles |-> IF ~vol'[h].dir THEN <<>>
                                     ELSE IF vol[h].dir THEN parents[h] ELSE job[p].img]
    /\ UNCHANGED <<layers, job>>

\* groot delete and groot stats.
Other(p, flag) ==
    /\ Idle(p)
    /\ \/ /\ \E h \in Handles : \/ ~NoStore(flag) /\ V!Delete(p, h)
                                \/ Resolve(flag) = Store /\ V!Stats(p, h)
          /\ job' = [job EXCEPT ![p] = NoJob]
          /\ UNCHANGED <<layers, parents>>
       \/ NoStore(flag) /\ Refuse(p)

\* The process dies, in the pull or after it.
Crash(p) ==
    \/ /\ L!Crash(p)
       /\ job' = [job EXCEPT ![p] = NoJob]
       /\ UNCHANGED <<volumes, parents>>
    \/ /\ V!Crash(p)
       /\ UNCHANGED <<layers, job, parents>>

Heal == L!Heal /\ UNCHANGED <<volumes, job, parents>>

Creates == {[kind |-> "create", stage |-> "pull", handle |-> h, img |-> i,
             limit |-> q.limit, exclude |-> q.exclude] : h \in Handles, i \in Images, q \in Quotas}
Pulls == {[NoJob EXCEPT !.kind = "pull", !.stage = "pull", !.img = i] : i \in Images}
Flags == {"", Store}

Run(p) == AfterPull(p) \/ LayerStep(p) \/ VolumeStep(p)

Next ==
    \/ \E p \in Procs :
          \/ Run(p) \/ Crash(p)
          \/ \E f \in Flags : Other(p, f) \/ \E new \in Creates \cup Pulls : Pull(p, new, f)
    \/ Heal

Spec == Init /\ [][Next]_vars

\* The scheduler runs every process that has a next call.
FairSpec == Spec /\ \A p \in Procs : WF_vars(Run(p))
-----------------------------------------------------------------------------
(* Properties. *)

\* What commands do to the layers is what LayerStore allows pulls to do, and what they do
\* to the volumes is what VolumeStore allows creates, deletes and stats to do, where every
\* create brings the exact size of an image: Bundle never runs after a pull that failed,
\* nor with a size other than that of the files in the tars.
HalvesFollow == L!Spec /\ V!Spec

Created(p) == job[p].kind = "create" /\ job[p].stage = "done" /\ V!Ended(p, "create", "ok")

\* A create that succeeds has charged the container the bytes of its image: quota and
\* metadata.json follow from the files in the tars of the layers, although some layers
\* were unpacked by this process and the size of others was read from the size files
\* that earlier processes, some of them killed, had left.
CreatedExactly ==
    \A p \in Procs : Created(p) =>
        LET req == Request(job[p], L!ImageSize(job[p].img))
        IN  vol[job[p].handle] = [dir |-> TRUE, active |-> TRUE, prepared |-> TRUE,
                                  quota |-> V!Promise!PromisedQuota(req), meta |-> req.size]

\* For one process at a time: the layers under a volume do not change while the volume is
\* there, be it finished or the remains of a failed create: no later pull, of the same
\* image or of another one on the same layers, rebuilds one, whatever failed or died in
\* between.  The volumes of an older groot are not among them: a layer without a size
\* file is deleted and rebuilt (driver/unpack.go) although such a volume lies on it.
ParentsImmutable ==
    [][\A h \in Handles : vol[h].dir =>
          \A k \in 1..Len(parents[h]) : disk'[parents[h][k]] = disk[parents[h][k]]]_vars

Startable(p, i) ==
    /\ env = "healthy" /\ lpc[p] = "exists" /\ lop[p].idx = 1
    /\ job[p].kind = "create" /\ job[p].img = i
    /\ job[p].limit = 0 \/ job[p].limit > L!ImageSize(i) \/ (job[p].exclude /\ job[p].limit > 0)
    /\ vol[job[p].handle] = V!Absent
    /\ \A l \in L!Chain(p) : disk[l].size = NoFile \/ L!Ready(l)

\* A create that starts after calls have stopped failing, for a bundle ID without a
\* volume, a limit the image leaves something of and layers that are ready or have no
\* size file, succeeds.
CreateCompletes ==
    \A p \in Procs : \A i \in Images : Startable(p, i) ~> (Created(p) /\ job[p].img = i)
=============================================================================
