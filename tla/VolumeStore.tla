----------------------------- MODULE VolumeStore ------------------------------
(***************************************************************************)
(* The volume store of groot-windows: <store>/volumes on disk, and the     *)
(* groot processes that create, delete and report on the volume of a       *)
(* container.  groot create runs Driver.Bundle and Driver.WriteMetadata    *)
(* after the pull that LayerStore models; the sandbox layer is made under  *)
(* the file lock create.lock (hcs/client.go).  Delete and the clean-up of a*)
(* failed Bundle run the same three-call loop, without the lock.           *)
(*                                                                         *)
(* Abstractions                                                            *)
(*  - A request is a disk limit, whether the image counts against it, and  *)
(*    the size of the image the pull returned.                             *)
(*  - The calls into hcsshim and quota.dll are external.  Each may fail    *)
(*    while env = "faulty"; outcomes the state forces need no fault.       *)
(*  - What an Unprepare or Deactivate returns for a volume that is there   *)
(*    but not prepared, or not active, is left open.                       *)
(***************************************************************************)
EXTENDS Integers

CONSTANTS
    Procs,        \* groot processes (slots: a process that ended may start again)
    Handles,      \* bundle IDs
    Requests,     \* [limit, exclude, size] of groot create
    Overhead,     \* DISK_QUOTA_OVERHEAD
    NoQuota,      \* "the volume has no quota"
    NoFile,       \* "there is no metadata.json"
    Torn,         \* a metadata.json that was created and not filled
    Free,         \* nobody holds create.lock
    Serial,       \* the caller runs one create or delete at a time per bundle ID
    InitEnv       \* the values env may start from

ASSUME RequestsAssumption == Requests \subseteq [limit : Int, exclude : BOOLEAN, size : Nat]
ASSUME OverheadAssumption == Overhead \in Nat \ {0}
ASSUME VolumeSentinels == /\ NoQuota \notin Nat
                          /\ NoFile \notin Nat /\ Torn \notin Nat /\ NoFile # Torn
                          /\ Free \notin Procs
ASSUME SerialAssumption == Serial \in BOOLEAN
ASSUME VolumeEnvAssumption == InitEnv \subseteq {"faulty", "healthy"}

VARIABLES
    vol,     \* vol[h]: the volume of bundle ID h
    lock,    \* the holder of create.lock
    pc,      \* pc[p]: the next call of process p
    op,      \* op[p]: the locals of p's command; once it ended, its outcome
    env      \* "faulty" until the environment stops failing calls

vars == <<vol, lock, pc, op, env>>

-----------------------------------------------------------------------------
Absent == [dir |-> FALSE, active |-> FALSE, prepared |-> FALSE,
           quota |-> NoQuota, meta |-> NoFile]

\* The volume of a container that a groot without metadata.json and size files has made.
OldVolume == [dir |-> TRUE, active |-> TRUE, prepared |-> TRUE,
              quota |-> NoQuota, meta |-> NoFile]

NoRequest == [limit |-> 0, exclude |-> FALSE, size |-> 0]

NoOp == [kind |-> "none", handle |-> "none", req |-> NoRequest, quota |-> 0, tries |-> 0,
         unprepareErr |-> FALSE, deactivateErr |-> FALSE, result |-> "none"]

CreateLayerLabels == {"sandbox", "activate", "prepare", "unlock"}
DestroyLayerLabels == {"unprepare", "deactivate", "destroy"}
Labels == CreateLayerLabels \cup DestroyLayerLabels \cup
          {"idle", "exists", "lock", "mount", "quota", "metacreate", "metawrite",
           "found", "statmount", "statquota", "statmeta", "statread"}

Faulty == env = "faulty"
Volume(p) == vol[op[p].handle]

Init ==
    /\ \E old \in SUBSET Handles :
           vol = [h \in Handles |-> IF h \in old THEN OldVolume ELSE Absent]
    /\ lock = Free
    /\ pc = [p \in Procs |-> "idle"]
    /\ op = [p \in Procs |-> NoOp]
    /\ env \in InitEnv

-----------------------------------------------------------------------------
(* Control. *)

Goto(p, at) == pc' = [pc EXCEPT ![p] = at]

Fail(p, at) == Goto(p, at) /\ op' = [op EXCEPT ![p].result = "error"]

\* The process of p ends; the OS drops a lock it still holds.
Exit(p, r) ==
    /\ Goto(p, "idle")
    /\ op' = [op EXCEPT ![p] = [NoOp EXCEPT !.kind = op[p].kind, !.handle = op[p].handle,
                                            !.req = op[p].req, !.result = r]]
    /\ lock' = IF lock = p THEN Free ELSE lock

\* No create or delete of h runs; stats may run at any time.
Alone(h) == \A q \in Procs : pc[q] # "idle" /\ op[q].handle = h => op[q].kind = "stats"

\* The outcome q has kept is of an earlier create or delete of the same volume.
Replaces(new, q) == pc[q] = "idle" /\ op[q].handle = new.handle /\ new.kind # "stats"

\* A command on h begins; only the latest create or delete of h keeps its outcome.
Begin(p, at, new) ==
    /\ pc[p] = "idle"
    /\ Serial /\ new.kind # "stats" => Alone(new.handle)
    /\ op' = [q \in Procs |-> IF q = p THEN new
                              ELSE IF Replaces(new, q) THEN NoOp ELSE op[q]]
    /\ Goto(p, at)
    /\ UNCHANGED <<vol, lock, env>>

SetVolume(p, v) == vol' = [vol EXCEPT ![op[p].handle] = v]

\* a call of Bundle that makes the volume v, or fails
VolumeCall(p, able, v, next, unwind) ==
    /\ \/ able /\ SetVolume(p, v) /\ Goto(p, next) /\ UNCHANGED op
       \/ (Faulty \/ ~able) /\ Fail(p, unwind) /\ UNCHANGED vol
    /\ UNCHANGED <<lock, env>>

\* a call that only reads, and ends the command if it fails
Query(p, able, next) ==
    /\ \/ able /\ Goto(p, next) /\ UNCHANGED <<op, lock>>
       \/ (Faulty \/ ~able) /\ Exit(p, "error")
    /\ UNCHANGED <<vol, env>>

-----------------------------------------------------------------------------
(***************************************************************************)
(* groot create: the quota that is left for the volume, then Bundle.       *)
(***************************************************************************)

\* Mutant: a limit the image uses up leaves a quota of zero.
TooSmall_ZeroAllowed(quota) == quota < 0

TooSmall(quota) == quota <= 0

Charged(req) == req.limit # 0 /\ ~req.exclude

VolumeQuota(req) == IF Charged(req) THEN req.limit - req.size ELSE req.limit

Refused(req) == req.limit < 0 \/ (Charged(req) /\ TooSmall(VolumeQuota(req)))

NewCreate(h, req) == [NoOp EXCEPT !.kind = "create", !.handle = h, !.req = req]

\* The pull has returned the size of the image.
Pulled(p, h, req) ==
    \/ /\ ~Refused(req)
       /\ Begin(p, "exists", [NewCreate(h, req) EXCEPT !.quota = VolumeQuota(req), !.result = "run"])
    \/ /\ Refused(req)
       /\ Begin(p, "idle", [NewCreate(h, req) EXCEPT !.result = "error"])

\* LayerStore models the pull; here it succeeds or fails.
Create(p, h, req) ==
    \/ Pulled(p, h, req)
    \/ Faulty /\ Begin(p, "idle", [NewCreate(h, req) EXCEPT !.result = "error"])

\* Mutant: a volume that is there already does not stop Bundle.
Taken_Ignored(v) == FALSE

Taken(v) == v.dir

\* Bundle makes the store directory and asks whether the volume is there.
BundleExists(p) == pc[p] = "exists" /\ Query(p, ~Taken(Volume(p)), "lock")

(***************************************************************************)
(* Client.CreateLayer, under create.lock.  Open waits for the lock; Close  *)
(* is deferred, and if it fails the lock stays until the process ends.     *)
(* An error of CreateLayer makes Bundle clean up.                          *)
(***************************************************************************)

\* Mutant: Open does not wait for the lock.
CanLock_NoWait == TRUE

CanLock == lock = Free

LockCreate(p) ==
    /\ pc[p] = "lock"
    /\ \/ /\ CanLock
          /\ lock' = p
          /\ Goto(p, "sandbox")
          /\ UNCHANGED op
       \/ /\ Faulty
          /\ Fail(p, "unprepare")
          /\ UNCHANGED lock
    /\ UNCHANGED <<vol, env>>

\* Mutant: a failed call is tried again from the top, with the lock still held.
CreateLayerFails_Retried == "lock"

\* CreateLayer returns the error, after the deferred unlock.
CreateLayerFails == "unlock"

\* A sandbox that fails may leave its directory behind.
CreateSandboxLayer(p) ==
    /\ pc[p] = "sandbox"
    /\ \/ VolumeCall(p, ~Volume(p).dir, [Volume(p) EXCEPT !.dir = TRUE], "activate", CreateLayerFails)
       \/ /\ Faulty
          /\ SetVolume(p, [Volume(p) EXCEPT !.dir = TRUE])
          /\ Fail(p, CreateLayerFails)
          /\ UNCHANGED <<lock, env>>

ActivateLayer(p) ==
    /\ pc[p] = "activate"
    /\ VolumeCall(p, Volume(p).dir, [Volume(p) EXCEPT !.active = TRUE], "prepare", CreateLayerFails)

PrepareLayer(p) ==
    /\ pc[p] = "prepare"
    /\ VolumeCall(p, Volume(p).active, [Volume(p) EXCEPT !.prepared = TRUE], "unlock", CreateLayerFails)

UnlockCreate(p) ==
    /\ pc[p] = "unlock"
    /\ \/ lock' = Free
       \/ Faulty /\ UNCHANGED lock
    /\ Goto(p, IF op[p].result = "run" THEN "mount" ELSE "unprepare")
    /\ UNCHANGED <<vol, op, env>>

\* GetLayerMountPath fails, or returns "", for a volume that is not mounted.
GetLayerMountPath(p) ==
    pc[p] = "mount" /\ VolumeCall(p, Volume(p).prepared, Volume(p), "quota", "unprepare")

\* Limiter.SetQuota: zero means that no quota is set, and nothing is called.
SetQuota(p) ==
    /\ pc[p] = "quota"
    /\ IF op[p].quota = 0
         THEN Goto(p, "metacreate") /\ UNCHANGED <<vol, lock, op, env>>
         ELSE VolumeCall(p, Volume(p).prepared,
                         [Volume(p) EXCEPT !.quota = op[p].quota + Overhead],
                         "metacreate", "unprepare")

(***************************************************************************)
(* WriteMetadata: os.WriteFile creates the file, then fills it.  An error  *)
(* leaves the volume in place.                                             *)
(***************************************************************************)
CreateMetadata(p) ==
    /\ pc[p] = "metacreate"
    /\ \/ /\ Volume(p).dir
          /\ SetVolume(p, [Volume(p) EXCEPT !.meta = Torn])
          /\ Goto(p, "metawrite")
          /\ UNCHANGED <<op, lock>>
       \/ /\ Faulty \/ ~Volume(p).dir
          /\ Exit(p, "error")
          /\ UNCHANGED vol
    /\ UNCHANGED env

FillMetadata(p) ==
    /\ pc[p] = "metawrite"
    /\ \/ /\ SetVolume(p, [Volume(p) EXCEPT !.meta = op[p].req.size])
          /\ Exit(p, "ok")
       \/ /\ Faulty
          /\ Exit(p, "error")
          /\ UNCHANGED vol
    /\ UNCHANGED env

-----------------------------------------------------------------------------
(***************************************************************************)
(* Client.DestroyLayer: three rounds of three calls, of which only the     *)
(* third decides.  Windows keeps a volume that is active or prepared, and  *)
(* one whose metadata.json is open, for writing or for reading: Go opens   *)
(* files without FILE_SHARE_DELETE.  The error message after the last      *)
(* round dereferences all three errors.                                    *)
(***************************************************************************)
UnprepareLayer(p) ==
    /\ pc[p] = "unprepare"
    /\ \E failed \in BOOLEAN :
           /\ Volume(p).prepared /\ ~Faulty => ~failed
           /\ ~Volume(p).dir => failed
           /\ SetVolume(p, [Volume(p) EXCEPT !.prepared = @ /\ failed])
           /\ op' = [op EXCEPT ![p].unprepareErr = failed]
    /\ Goto(p, "deactivate")
    /\ UNCHANGED <<lock, env>>

\* Mutant: the volume is left active.
Deactivated_Kept(v) == v

Deactivated(v) == [v EXCEPT !.active = FALSE]

DeactivateLayer(p) ==
    /\ pc[p] = "deactivate"
    /\ \/ /\ Volume(p).dir /\ ~Volume(p).prepared
          /\ SetVolume(p, Deactivated(Volume(p)))
          /\ op' = [op EXCEPT ![p].deactivateErr = FALSE]
       \/ /\ Faulty \/ Volume(p).prepared \/ ~Volume(p).active
          /\ op' = [op EXCEPT ![p].deactivateErr = TRUE]
          /\ UNCHANGED vol
    /\ Goto(p, "destroy")
    /\ UNCHANGED <<lock, env>>

MetadataOpen(h) == \E q \in Procs : pc[q] \in {"metawrite", "statread"} /\ op[q].handle = h

Removable(p) == ~Volume(p).active /\ ~Volume(p).prepared /\ ~MetadataOpen(op[p].handle)

\* Mutant: the loop ends without a look at the error of the last call.
GiveUp_Success(p) == "ok"

\* What the command returns when the third round has failed: fmt.Errorf calls
\* Error() on nil if one of the other two calls worked.
GiveUp(p) == IF op[p].unprepareErr /\ op[p].deactivateErr THEN "error" ELSE "panic"

\* Mutant: one round too many.
Attempts_OneMore == 4

Attempts == 3

DestroyLayer(p) ==
    /\ pc[p] = "destroy"
    /\ \/ /\ Removable(p)
          /\ SetVolume(p, Absent)
          /\ Exit(p, IF op[p].kind = "delete" THEN "ok" ELSE "error")
       \/ /\ Faulty \/ ~Removable(p) \/ ~Volume(p).dir
          /\ \E meta \in {Volume(p).meta} \cup
                         (IF MetadataOpen(op[p].handle) THEN {} ELSE {NoFile}) :
                 SetVolume(p, [Volume(p) EXCEPT !.meta = meta])
          /\ IF op[p].tries + 1 < Attempts
               THEN /\ op' = [op EXCEPT ![p].tries = @ + 1]
                    /\ Goto(p, "unprepare")
                    /\ UNCHANGED lock
               ELSE Exit(p, GiveUp(p))
    /\ UNCHANGED env

-----------------------------------------------------------------------------
(* groot delete: a volume that is not there is deleted already. *)

Delete(p, h) ==
    Begin(p, "found", [NoOp EXCEPT !.kind = "delete", !.handle = h, !.result = "run"])

DeleteExists(p) ==
    /\ pc[p] = "found"
    /\ \/ Volume(p).dir /\ Goto(p, "unprepare") /\ UNCHANGED <<op, lock>>
       \/ ~Volume(p).dir /\ Exit(p, "ok")
       \/ Faulty /\ Exit(p, "error")
    /\ UNCHANGED <<vol, env>>

(***************************************************************************)
(* groot stats: the quota used in the mounted volume, plus the image size  *)
(* from metadata.json.                                                     *)
(***************************************************************************)
Stats(p, h) ==
    Begin(p, "statmount", [NoOp EXCEPT !.kind = "stats", !.handle = h, !.result = "run"])

StatsMountPath(p) == pc[p] = "statmount" /\ Query(p, Volume(p).prepared, "statquota")

GetQuotaUsed(p) == pc[p] = "statquota" /\ Query(p, Volume(p).prepared, "statmeta")

OpenMetadata(p) == pc[p] = "statmeta" /\ Query(p, Volume(p).meta # NoFile, "statread")

StatsMetadata(p) ==
    /\ pc[p] = "statread"
    /\ \/ Volume(p).meta \in Nat /\ Exit(p, "ok")
       \/ (Faulty \/ Volume(p).meta \notin Nat) /\ Exit(p, "error")
    /\ UNCHANGED <<vol, env>>

-----------------------------------------------------------------------------
\* The process dies; the volumes stay as they are.
Crash(p) ==
    /\ pc[p] # "idle"
    /\ Faulty
    /\ Exit(p, "crash")
    /\ UNCHANGED <<vol, env>>

Heal ==
    /\ Faulty
    /\ env' = "healthy"
    /\ UNCHANGED <<vol, lock, pc, op>>

Command(p) ==
    \E h \in Handles : Delete(p, h) \/ Stats(p, h) \/ \E r \in Requests : Create(p, h, r)

Step(p) ==
    \/ BundleExists(p) \/ LockCreate(p) \/ CreateSandboxLayer(p)
    \/ ActivateLayer(p) \/ PrepareLayer(p) \/ UnlockCreate(p)
    \/ GetLayerMountPath(p) \/ SetQuota(p) \/ CreateMetadata(p) \/ FillMetadata(p)
    \/ UnprepareLayer(p) \/ DeactivateLayer(p) \/ DestroyLayer(p)
    \/ DeleteExists(p) \/ StatsMountPath(p) \/ GetQuotaUsed(p)
    \/ OpenMetadata(p) \/ StatsMetadata(p)

Next ==
    \/ \E p \in Procs : Step(p) \/ Crash(p) \/ Command(p)
    \/ Heal

Spec == Init /\ [][Next]_vars

\* The scheduler runs every process that has a next call, and a process that waits
\* for create.lock gets it if the lock is freed again and again.
FairSpec == Spec /\ \A p \in Procs : WF_vars(Step(p)) /\ SF_vars(LockCreate(p))
-----------------------------------------------------------------------------
(* Properties. *)

\* Every variable has its type, and DestroyLayer (hcs/client.go) makes at most three
\* rounds.
TypeOK ==
    /\ vol \in [Handles -> [dir : BOOLEAN, active : BOOLEAN, prepared : BOOLEAN,
                            quota : Nat \cup {NoQuota}, meta : Nat \cup {NoFile, Torn}]]
    /\ lock \in Procs \cup {Free}
    /\ pc \in [Procs -> Labels]
    /\ op \in [Procs -> [kind : {"none", "create", "delete", "stats"},
                         handle : Handles \cup {"none"}, req : Requests \cup {NoRequest},
                         quota : Nat, tries : 0..2, unprepareErr : BOOLEAN,
                         deactivateErr : BOOLEAN,
                         result : {"none", "run", "ok", "error", "panic", "crash"}]]
    /\ env \in {"faulty", "healthy"}
    /\ \A p \in Procs : pc[p] # "idle" => op[p].handle \in Handles

\* CreateSandboxLayer, ActivateLayer and PrepareLayer of two processes never overlap,
\* on whatever bundle IDs: create.lock spans all three calls and survives neither the
\* return from CreateLayer nor the death of its holder early.
CreateMutex ==
    \A p, q \in Procs : pc[p] \in CreateLayerLabels /\ pc[q] \in CreateLayerLabels => p = q

Ended(p, kind, r) == pc[p] = "idle" /\ op[p].kind = kind /\ op[p].result = r

Made(h) == vol[h].prepared /\ vol[h].meta \in Nat

\* The volumes and commands as the caller of groot sees them.
BoxOf(v) ==
    LET made == v.prepared /\ v.meta \in Nat
    IN  [state |-> IF made THEN "made" ELSE IF v.dir THEN "rest" ELSE "none",
         quota |-> IF made THEN v.quota ELSE NoQuota,
         size |-> IF made THEN v.meta ELSE NoFile]

CmdOf(at, o) ==
    [kind |-> o.kind, handle |-> o.handle, req |-> o.req,
     phase |-> IF at = "idle" THEN "done"
               ELSE IF o.kind # "create" \/ at = "exists" THEN "run" ELSE "build",
     result |-> IF at = "idle" THEN o.result ELSE "run"]

box == [h \in Handles |-> BoxOf(vol[h])]
cmd == [p \in Procs |-> CmdOf(pc[p], op[p])]
NoCommand == CmdOf("idle", NoOp)

Promise == INSTANCE BundleSpec WITH NoSize <- NoFile

\* With one create or delete at a time per bundle ID and stats at any time, create, delete
\* and stats keep the promise of BundleSpec: a create goes on only where there was
\* nothing, makes the finished volume with the promised quota in one step with its
\* success or leaves at most remains of its own; only a delete takes a finished volume
\* away, and succeeds only when nothing is left; stats succeed only on a volume.
BundlePromise == Promise!Spec

\* With one create or delete at a time per bundle ID: a create that succeeds leaves a mounted
\* volume with exactly the quota its limit promises and with the image's size in
\* metadata.json.  A limited container never gets an unlimited volume.
BundleUsable ==
    \A p \in Procs : Ended(p, "create", "ok") =>
        vol[op[p].handle] = [dir |-> TRUE, active |-> TRUE, prepared |-> TRUE,
                             quota |-> Promise!PromisedQuota(op[p].req), meta |-> op[p].req.size]

Deleting(h) == \E p \in Procs : op[p].kind = "delete" /\ op[p].handle = h /\ pc[p] # "idle"

\* A volume that a create has finished stays as it is until a delete of it runs: no
\* other create of the same bundle ID, failed or refused, damages it.  It holds with
\* one create or delete at a time per bundle ID; two creates at once violate it.
CreatedVolumeUntouched ==
    [][\A h \in Handles : Made(h) /\ ~Deleting(h) => vol'[h] = vol[h]]_vars

\* With one create or delete at a time per bundle ID: a delete that succeeds has removed the
\* volume, also when some of its rounds failed.
DeleteComplete ==
    \A p \in Procs : Ended(p, "delete", "ok") => vol[op[p].handle] = Absent

\* With one create or delete at a time per bundle ID: a delete that starts after calls have
\* stopped failing succeeds and removes the volume, whatever a failed or killed create
\* or delete has left of it, unless a stats of it holds its metadata file open meanwhile.
DeleteRecovers == \A p \in Procs : \A h \in Handles :
    (~Faulty /\ pc[p] = "found" /\ op[p].handle = h)
    ~> \/ Ended(p, "delete", "ok") /\ op[p].handle = h /\ vol[h] = Absent
       \/ \E q \in Procs : pc[q] = "statread" /\ op[q].handle = h

\* A create that waits for create.lock does not wait forever, although holders fail,
\* die, or fail to unlock.
CreateProceeds == \A p \in Procs : pc[p] = "lock" ~> pc[p] # "lock"

\* A delete or create reports the error of a DestroyLayer that gave up (driver/delete.go
\* returns it, driver/bundle.go logs it); it does not die of a nil dereference while
\* the message is put together (hcs/client.go).  A third round in which only the last
\* call fails violates it.
NoPanic == \A p \in Procs : op[p].result # "panic"
=============================================================================
