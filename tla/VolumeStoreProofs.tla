--------------------------- MODULE VolumeStoreProofs --------------------------
(***************************************************************************)
(* Theorems about VolumeStore, for every set of processes, bundle IDs and  *)
(* requests.  The lock and the types need nothing of the callers; the rest *)
(* is what callers that run one create or delete at a time per bundle ID   *)
(* can rely on (Serial).                                                   *)
(***************************************************************************)
EXTENDS VolumeStore, TLAPS

\* Whoever is between the lock and the unlock of CreateLayer is the holder.
LockInv ==
    /\ pc \in [Procs -> Labels]
    /\ \A p \in Procs : pc[p] \in CreateLayerLabels => lock = p

LEMMA LockInit == Init => LockInv
BY DEF Init, LockInv, Labels, CreateLayerLabels

\* The end of a process, with the OS dropping its lock.
LEMMA ExitKeepsLock ==
    ASSUME LockInv, NEW p \in Procs, NEW r, Exit(p, r)
    PROVE  LockInv'
BY DEF LockInv, Exit, Goto, Labels, CreateLayerLabels

\* A call outside CreateLayer that leaves the lock alone.
LEMMA MoveKeepsLock ==
    ASSUME LockInv, NEW p \in Procs, NEW at \in Labels \ CreateLayerLabels,
           Goto(p, at), UNCHANGED lock
    PROVE  LockInv'
BY DEF LockInv, Goto

\* A call of CreateLayer, made and followed by one that still needs the lock.
LEMMA HolderKeepsLock ==
    ASSUME LockInv, NEW p \in Procs, pc[p] \in CreateLayerLabels, NEW at \in CreateLayerLabels,
           Goto(p, at), UNCHANGED lock
    PROVE  LockInv'
BY DEF LockInv, Goto, Labels

LEMMA LockStep ==
    ASSUME LockInv, NEW p \in Procs, Step(p)
    PROVE  LockInv'
<1> USE DEF Labels, CreateLayerLabels, DestroyLayerLabels, Fail
<1>1. CASE BundleExists(p)
  BY <1>1, ExitKeepsLock, MoveKeepsLock DEF BundleExists, Query
<1>2. CASE LockCreate(p)
  <2>1. CASE Goto(p, "sandbox") /\ CanLock /\ lock' = p
    BY <2>1, VolumeSentinels DEF Goto, CanLock, LockInv
  <2>2. CASE Goto(p, "unprepare") /\ UNCHANGED lock
    BY <2>2, MoveKeepsLock
  <2> QED
    BY <1>2, <2>1, <2>2 DEF LockCreate
<1>3. CASE CreateSandboxLayer(p)
  BY <1>3, HolderKeepsLock DEF CreateSandboxLayer, VolumeCall, CreateLayerFails
<1>4. CASE ActivateLayer(p)
  BY <1>4, HolderKeepsLock DEF ActivateLayer, VolumeCall, CreateLayerFails
<1>5. CASE PrepareLayer(p)
  BY <1>5, HolderKeepsLock DEF PrepareLayer, VolumeCall, CreateLayerFails
<1>6. CASE UnlockCreate(p)
  BY <1>6 DEF UnlockCreate, Goto, LockInv
<1>7. CASE GetLayerMountPath(p)
  BY <1>7, MoveKeepsLock DEF GetLayerMountPath, VolumeCall
<1>8. CASE SetQuota(p)
  BY <1>8, MoveKeepsLock DEF SetQuota, VolumeCall
<1>9. CASE CreateMetadata(p)
  BY <1>9, ExitKeepsLock, MoveKeepsLock DEF CreateMetadata
<1>10. CASE FillMetadata(p)
  BY <1>10, ExitKeepsLock DEF FillMetadata
<1>11. CASE UnprepareLayer(p)
  BY <1>11, MoveKeepsLock DEF UnprepareLayer
<1>12. CASE DeactivateLayer(p)
  BY <1>12, MoveKeepsLock DEF DeactivateLayer
<1>13. CASE DestroyLayer(p)
  BY <1>13, ExitKeepsLock, MoveKeepsLock DEF DestroyLayer
<1>14. CASE DeleteExists(p)
  BY <1>14, ExitKeepsLock, MoveKeepsLock DEF DeleteExists
<1>15. CASE StatsMountPath(p) \/ GetQuotaUsed(p) \/ OpenMetadata(p)
  BY <1>15, ExitKeepsLock, MoveKeepsLock DEF StatsMountPath, GetQuotaUsed, OpenMetadata, Query
<1>16. CASE StatsMetadata(p)
  BY <1>16, ExitKeepsLock DEF StatsMetadata
<1> QED
  BY <1>1, <1>2, <1>3, <1>4, <1>5, <1>6, <1>7, <1>8, <1>9, <1>10, <1>11, <1>12,
     <1>13, <1>14, <1>15, <1>16 DEF Step

LEMMA LockNext == LockInv /\ [Next]_vars => LockInv'
<1> SUFFICES ASSUME LockInv, [Next]_vars PROVE LockInv'
  OBVIOUS
<1>1. ASSUME NEW p \in Procs, Command(p) PROVE LockInv'
  BY <1>1, MoveKeepsLock
     DEF Command, Delete, Stats, Create, Pulled, Begin, Labels, CreateLayerLabels, DestroyLayerLabels
<1>2. ASSUME NEW p \in Procs, Crash(p) PROVE LockInv'
  BY <1>2, ExitKeepsLock DEF Crash
<1>3. CASE Heal
  BY <1>3 DEF Heal, LockInv
<1>4. CASE UNCHANGED vars
  BY <1>4 DEF vars, LockInv
<1> QED
  BY <1>1, <1>2, <1>3, <1>4, LockStep DEF Next

\* The calls that make a sandbox layer never overlap, whatever the commands, their
\* bundle IDs, the failures of calls (the unlock's included) and the deaths of processes.
THEOREM CreateIsExclusive == Spec => []CreateMutex
<1>1. LockInv => CreateMutex
  BY DEF LockInv, CreateMutex
<1> QED
  BY <1>1, LockInit, LockNext, PTL DEF Spec

-----------------------------------------------------------------------------
(* Typing. *)

Volumes == [dir : BOOLEAN, active : BOOLEAN, prepared : BOOLEAN,
            quota : Nat \cup {NoQuota}, meta : Nat \cup {NoFile, Torn}]

Commands == [kind : {"none", "create", "delete", "stats"}, handle : Handles \cup {"none"},
             req : Requests \cup {NoRequest}, quota : Nat, tries : 0..2,
             unprepareErr : BOOLEAN, deactivateErr : BOOLEAN,
             result : {"none", "run", "ok", "error", "panic", "crash"}]

\* The control state has its type.
ControlOK ==
    /\ pc \in [Procs -> Labels]
    /\ op \in [Procs -> Commands]
    /\ \A p \in Procs : pc[p] # "idle" => op[p].handle \in Handles

TypeParts ==
    /\ vol \in [Handles -> Volumes]
    /\ lock \in Procs \cup {Free}
    /\ env \in {"faulty", "healthy"}
    /\ ControlOK

LEMMA SameType == (TypeOK <=> TypeParts) /\ (TypeOK' <=> TypeParts')
BY DEF TypeOK, TypeParts, Volumes, Commands, ControlOK

LEMMA AbsentType == Absent \in Volumes
BY DEF Absent, Volumes

LEMMA NoOpType == NoOp \in Commands
BY DEF NoOp, Commands

\* A request has a limit and a natural size.
LEMMA RequestType ==
    ASSUME NEW r \in Requests \cup {NoRequest}
    PROVE  r \in [limit : Int, exclude : BOOLEAN, size : Nat]
<1>1. NoRequest \in [limit : Int, exclude : BOOLEAN, size : Nat]
  BY DEF NoRequest
<1> QED
  BY <1>1, RequestsAssumption

LEMMA OldVolumeType == OldVolume \in Volumes
BY DEF OldVolume, Volumes

LEMMA InitType == Init => TypeOK
BY SameType, AbsentType, OldVolumeType, NoOpType, VolumeEnvAssumption DEF Init, TypeParts, ControlOK, Labels, NoOp

\* p goes on with its command.
LEMMA GotoType ==
    ASSUME ControlOK, NEW p \in Procs, pc[p] # "idle", NEW at \in Labels,
           Goto(p, at), UNCHANGED op
    PROVE  ControlOK'
BY DEF ControlOK, Goto

\* p's command goes on with other locals.
LEMMA LocalsType ==
    ASSUME ControlOK, NEW p \in Procs, NEW at \in Labels, Goto(p, at),
           NEW rec \in Commands, rec.handle \in Handles, op' = [op EXCEPT ![p] = rec]
    PROVE  ControlOK'
BY DEF ControlOK, Goto

\* A call of p's command fails.
LEMMA FailType ==
    ASSUME ControlOK, NEW p \in Procs, pc[p] # "idle", NEW at \in Labels, Fail(p, at)
    PROVE  ControlOK'
<1> DEFINE rec == [op[p] EXCEPT !.result = "error"]
<1>1. op[p] \in Commands /\ op[p].handle \in Handles
  BY DEF ControlOK
<1>2. rec \in Commands /\ rec.handle = op[p].handle
  BY <1>1 DEF Commands
<1>3. op' = [op EXCEPT ![p] = rec]
  BY DEF Fail
<1> QED
  BY <1>1, <1>2, <1>3, LocalsType DEF Fail

\* p's command ends.
LEMMA ExitType ==
    ASSUME ControlOK, lock \in Procs \cup {Free}, NEW p \in Procs,
           NEW r \in {"ok", "error", "panic", "crash"}, Exit(p, r)
    PROVE  ControlOK' /\ lock' \in Procs \cup {Free}
<1> DEFINE rec == [NoOp EXCEPT !.kind = op[p].kind, !.handle = op[p].handle,
                               !.req = op[p].req, !.result = r]
<1>1. op[p] \in Commands
  BY DEF ControlOK
<1>2. rec \in Commands
  BY <1>1, NoOpType DEF Commands
<1>3. op' = [op EXCEPT ![p] = rec]
  BY DEF Exit
<1> HIDE DEF rec
<1>4. ControlOK'
  BY <1>2, <1>3 DEF ControlOK, Exit, Goto, Labels
<1> QED
  BY <1>4 DEF Exit

\* A command begins.
LEMMA BeginType ==
    ASSUME ControlOK, NEW p \in Procs, NEW at \in Labels, NEW new \in Commands,
           new.handle \in Handles, Begin(p, at, new)
    PROVE  ControlOK'
<1>1. op' \in [Procs -> Commands]
  BY NoOpType DEF ControlOK, Begin
<1>2. pc' \in [Procs -> Labels]
  BY DEF ControlOK, Begin, Goto
<1>3. ASSUME NEW q \in Procs, pc'[q] # "idle"
      PROVE  op'[q].handle \in Handles
  <2>1. CASE q = p
    BY <2>1 DEF Begin
  <2>2. CASE q # p
    <3>1. pc[q] # "idle"
      BY <1>3, <2>2 DEF Begin, Goto, ControlOK
    <3>2. op'[q] = op[q]
      BY <2>2, <3>1 DEF Begin, Replaces
    <3> QED
      BY <3>1, <3>2 DEF ControlOK
  <2> QED
    BY <2>1, <2>2
<1> QED
  BY <1>1, <1>2, <1>3 DEF ControlOK

\* The volume p works on is replaced.
LEMMA SetVolumeType ==
    ASSUME vol \in [Handles -> Volumes], ControlOK, NEW p \in Procs, pc[p] # "idle",
           NEW v \in Volumes, SetVolume(p, v)
    PROVE  vol' \in [Handles -> Volumes]
BY DEF SetVolume, ControlOK

\* The volume p works on, and what the calls make of it.
LEMMA VolumeType ==
    ASSUME TypeOK, NEW p \in Procs, pc[p] # "idle"
    PROVE  /\ Volume(p) \in Volumes
           /\ \A b \in BOOLEAN : /\ [Volume(p) EXCEPT !.dir = b] \in Volumes
                                 /\ [Volume(p) EXCEPT !.active = b] \in Volumes
                                 /\ [Volume(p) EXCEPT !.prepared = b] \in Volumes
           /\ \A n \in Nat : [Volume(p) EXCEPT !.quota = n] \in Volumes
           /\ \A m \in Nat \cup {NoFile, Torn} : [Volume(p) EXCEPT !.meta = m] \in Volumes
<1>1. Volume(p) \in Volumes
  BY SameType DEF TypeParts, Volume, ControlOK
<1> HIDE DEF Volume
<1> QED
  BY <1>1 DEF Volumes

\* A call of Bundle keeps the types.
LEMMA VolumeCallType ==
    ASSUME TypeOK, NEW p \in Procs, pc[p] # "idle", NEW able, NEW v \in Volumes,
           NEW next \in Labels, NEW unwind \in Labels, VolumeCall(p, able, v, next, unwind)
    PROVE  TypeOK'
<1>1. CASE SetVolume(p, v) /\ Goto(p, next) /\ UNCHANGED op
  BY <1>1, SameType, SetVolumeType, GotoType DEF TypeParts, VolumeCall
<1>2. CASE Fail(p, unwind) /\ UNCHANGED vol
  BY <1>2, SameType, FailType DEF TypeParts, VolumeCall
<1> QED
  BY <1>1, <1>2 DEF VolumeCall

\* A call that only reads keeps the types.
LEMMA QueryType ==
    ASSUME TypeOK, NEW p \in Procs, pc[p] # "idle", NEW able, NEW next \in Labels,
           Query(p, able, next)
    PROVE  TypeOK'
<1>1. CASE Goto(p, next) /\ UNCHANGED <<op, lock>>
  <2>1. ControlOK'
    BY <1>1, SameType, GotoType DEF TypeParts
  <2> QED
    BY <1>1, <2>1, SameType DEF TypeParts, Query
<1>2. CASE Exit(p, "error")
  BY <1>2, SameType, ExitType DEF TypeParts, Query
<1> QED
  BY <1>1, <1>2 DEF Query

\* Every step of a process keeps the types.
LEMMA StepType ==
    ASSUME TypeOK, NEW p \in Procs, Step(p)
    PROVE  TypeOK'
<1> USE DEF Labels, CreateLayerLabels, DestroyLayerLabels
<1>0. pc[p] # "idle"
  BY DEF Step, BundleExists, LockCreate, CreateSandboxLayer, ActivateLayer, PrepareLayer,
         UnlockCreate, GetLayerMountPath, SetQuota, CreateMetadata, FillMetadata, UnprepareLayer,
         DeactivateLayer, DestroyLayer, DeleteExists, StatsMountPath, GetQuotaUsed,
         OpenMetadata, StatsMetadata
<1>a. TypeParts
  BY SameType
<1>v. /\ Volume(p) \in Volumes
      /\ \A b \in BOOLEAN : /\ [Volume(p) EXCEPT !.dir = b] \in Volumes
                            /\ [Volume(p) EXCEPT !.active = b] \in Volumes
                            /\ [Volume(p) EXCEPT !.prepared = b] \in Volumes
      /\ \A n \in Nat : [Volume(p) EXCEPT !.quota = n] \in Volumes
      /\ \A m \in Nat \cup {NoFile, Torn} : [Volume(p) EXCEPT !.meta = m] \in Volumes
  BY <1>0, VolumeType
<1>o. op[p] \in Commands /\ op[p].handle \in Handles
  BY <1>0, <1>a DEF TypeParts, ControlOK
<1> SUFFICES TypeParts'
  BY SameType
<1>1. CASE BundleExists(p)
  BY <1>0, <1>1, QueryType, SameType DEF BundleExists
<1>2. CASE LockCreate(p)
  <2>1. CASE lock' = p /\ Goto(p, "sandbox") /\ UNCHANGED op
    BY <1>0, <1>2, <1>a, <2>1, GotoType DEF LockCreate, TypeParts
  <2>2. CASE Fail(p, "unprepare") /\ UNCHANGED lock
    BY <1>0, <1>2, <1>a, <2>2, FailType DEF LockCreate, TypeParts
  <2> QED
    BY <1>2, <2>1, <2>2 DEF LockCreate
<1>3. CASE CreateSandboxLayer(p)
  <2> DEFINE v == [Volume(p) EXCEPT !.dir = TRUE]
  <2>1. v \in Volumes
    BY <1>v
  <2> HIDE DEF v
  <2>2. CASE VolumeCall(p, ~Volume(p).dir, v, "activate", CreateLayerFails)
    BY <1>0, <2>1, <2>2, VolumeCallType, SameType DEF CreateLayerFails
  <2>3. CASE SetVolume(p, v) /\ Fail(p, CreateLayerFails) /\ UNCHANGED <<lock, env>>
    <3>1. vol' \in [Handles -> Volumes]
      BY <1>0, <1>a, <2>1, <2>3, SetVolumeType DEF TypeParts
    <3>2. ControlOK'
      BY <1>0, <1>a, <2>3, FailType DEF TypeParts, CreateLayerFails
    <3> QED
      BY <1>a, <2>3, <3>1, <3>2 DEF TypeParts
  <2> QED
    BY <1>3, <2>2, <2>3 DEF CreateSandboxLayer, v
<1>4. CASE ActivateLayer(p)
  <2> DEFINE v == [Volume(p) EXCEPT !.active = TRUE]
  <2>1. v \in Volumes
    BY <1>v
  <2> HIDE DEF v
  <2>2. VolumeCall(p, Volume(p).dir, v, "prepare", "unlock")
    BY <1>4 DEF ActivateLayer, CreateLayerFails, v
  <2> QED
    BY <1>0, <2>1, <2>2, VolumeCallType, SameType
<1>5. CASE PrepareLayer(p)
  <2> DEFINE v == [Volume(p) EXCEPT !.prepared = TRUE]
  <2>1. v \in Volumes
    BY <1>v
  <2> HIDE DEF v
  <2>2. VolumeCall(p, Volume(p).active, v, "unlock", "unlock")
    BY <1>5 DEF PrepareLayer, CreateLayerFails, v
  <2> QED
    BY <1>0, <2>1, <2>2, VolumeCallType, SameType
<1>6. CASE UnlockCreate(p)
  <2>1. ControlOK'
    BY <1>0, <1>6, <1>a, GotoType DEF UnlockCreate, TypeParts
  <2> QED
    BY <1>6, <1>a, <2>1 DEF UnlockCreate, TypeParts
<1>7. CASE GetLayerMountPath(p)
  BY <1>0, <1>7, <1>v, VolumeCallType, SameType DEF GetLayerMountPath
<1>8. CASE SetQuota(p)
  <2> DEFINE n == op[p].quota + Overhead
             v == [Volume(p) EXCEPT !.quota = n]
  <2>1. n \in Nat
    BY <1>o, OverheadAssumption DEF Commands
  <2>2. v \in Volumes
    BY <1>v, <2>1
  <2> HIDE DEF v
  <2>3. CASE Goto(p, "metacreate") /\ UNCHANGED <<vol, lock, op, env>>
    BY <1>0, <1>a, <2>3, GotoType DEF TypeParts
  <2>4. CASE VolumeCall(p, Volume(p).prepared, v, "metacreate", "unprepare")
    BY <1>0, <2>2, <2>4, VolumeCallType, SameType
  <2> QED
    BY <1>8, <2>3, <2>4 DEF SetQuota, v
<1>9. CASE CreateMetadata(p)
  <2> DEFINE v == [Volume(p) EXCEPT !.meta = Torn]
  <2>1. v \in Volumes
    BY <1>v
  <2> HIDE DEF v
  <2>2. CASE SetVolume(p, v) /\ Goto(p, "metawrite") /\ UNCHANGED <<op, lock, env>>
    <3>1. vol' \in [Handles -> Volumes]
      BY <1>0, <1>a, <2>1, <2>2, SetVolumeType DEF TypeParts
    <3>2. ControlOK'
      BY <1>0, <1>a, <2>2, GotoType DEF TypeParts
    <3> QED
      BY <1>a, <2>2, <3>1, <3>2 DEF TypeParts
  <2>3. CASE Exit(p, "error") /\ UNCHANGED <<vol, env>>
    BY <1>a, <2>3, ExitType DEF TypeParts
  <2> QED
    BY <1>9, <2>2, <2>3 DEF CreateMetadata, v
<1>10. CASE FillMetadata(p)
  <2> DEFINE v == [Volume(p) EXCEPT !.meta = op[p].req.size]
  <2>1. op[p].req.size \in Nat
    BY <1>o, RequestType DEF Commands
  <2>2. v \in Volumes
    BY <1>v, <2>1
  <2> HIDE DEF v
  <2>3. CASE SetVolume(p, v) /\ Exit(p, "ok") /\ UNCHANGED env
    <3>1. vol' \in [Handles -> Volumes]
      BY <1>0, <1>a, <2>2, <2>3, SetVolumeType DEF TypeParts
    <3> QED
      BY <1>a, <2>3, <3>1, ExitType DEF TypeParts
  <2>4. CASE Exit(p, "error") /\ UNCHANGED <<vol, env>>
    BY <1>a, <2>4, ExitType DEF TypeParts
  <2> QED
    BY <1>10, <2>3, <2>4 DEF FillMetadata, v
<1>11. CASE UnprepareLayer(p)
  <2>1. PICK failed \in BOOLEAN :
            /\ SetVolume(p, [Volume(p) EXCEPT !.prepared = @ /\ failed])
            /\ op' = [op EXCEPT ![p].unprepareErr = failed]
    BY <1>11 DEF UnprepareLayer
  <2> DEFINE b == Volume(p).prepared /\ failed
             v == [Volume(p) EXCEPT !.prepared = b]
             rec == [op[p] EXCEPT !.unprepareErr = failed]
  <2>2. v \in Volumes
    <3>1. b \in BOOLEAN
      BY Zenon
    <3> HIDE DEF b
    <3> QED
      BY <1>v, <3>1
  <2>3. rec \in Commands /\ rec.handle = op[p].handle
    BY <1>o DEF Commands
  <2>4. SetVolume(p, v) /\ op' = [op EXCEPT ![p] = rec]
    BY <2>1
  <2> HIDE DEF v, rec, b
  <2>5. vol' \in [Handles -> Volumes]
    BY <1>0, <1>a, <2>2, <2>4, SetVolumeType DEF TypeParts
  <2>6. ControlOK'
    BY <1>o, <1>a, <1>11, <2>3, <2>4, LocalsType DEF TypeParts, UnprepareLayer
  <2> QED
    BY <1>a, <1>11, <2>5, <2>6 DEF TypeParts, UnprepareLayer
<1>12. CASE DeactivateLayer(p)
  <2>1. ASSUME NEW failed \in BOOLEAN, op' = [op EXCEPT ![p].deactivateErr = failed]
        PROVE  ControlOK'
    <3> DEFINE rec == [op[p] EXCEPT !.deactivateErr = failed]
    <3>1. rec \in Commands /\ rec.handle = op[p].handle
      BY <1>o DEF Commands
    <3>2. op' = [op EXCEPT ![p] = rec]
      BY <2>1
    <3> HIDE DEF rec
    <3> QED
      BY <1>o, <1>a, <1>12, <3>1, <3>2, LocalsType DEF TypeParts, DeactivateLayer
  <2>2. CASE SetVolume(p, Deactivated(Volume(p)))
    BY <1>0, <1>a, <1>v, <1>12, <2>1, <2>2, SetVolumeType
       DEF TypeParts, DeactivateLayer, Deactivated
  <2>3. CASE UNCHANGED vol
    BY <1>a, <1>12, <2>1, <2>3 DEF TypeParts, DeactivateLayer
  <2> QED
    BY <1>12, <2>2, <2>3 DEF DeactivateLayer
<1>13. CASE DestroyLayer(p)
  <2>1. vol' \in [Handles -> Volumes]
    <3>1. CASE SetVolume(p, Absent)
      BY <1>0, <1>a, <3>1, AbsentType, SetVolumeType DEF TypeParts
    <3>2. ASSUME NEW meta \in {Volume(p).meta, NoFile},
                 SetVolume(p, [Volume(p) EXCEPT !.meta = meta])
          PROVE  vol' \in [Handles -> Volumes]
      <4> DEFINE v == [Volume(p) EXCEPT !.meta = meta]
      <4>1. v \in Volumes
        BY <1>v, <3>2 DEF Volumes
      <4> HIDE DEF v
      <4> QED
        BY <1>0, <1>a, <3>2, <4>1, SetVolumeType DEF TypeParts, v
    <3> QED
      BY <1>13, <3>1, <3>2 DEF DestroyLayer
  <2>2. CASE \E r \in {"ok", "error", "panic", "crash"} : Exit(p, r)
    BY <1>a, <1>13, <2>1, <2>2, ExitType DEF TypeParts, DestroyLayer
  <2>3. CASE /\ op[p].tries + 1 < Attempts
             /\ op' = [op EXCEPT ![p].tries = @ + 1]
             /\ Goto(p, "unprepare") /\ UNCHANGED lock
    <3> DEFINE n == op[p].tries + 1
               rec == [op[p] EXCEPT !.tries = n]
    <3>1. n \in 0..2
      BY <1>o, <2>3 DEF Commands, Attempts
    <3>2. rec \in Commands /\ rec.handle = op[p].handle
      BY <1>o, <3>1 DEF Commands
    <3>3. op' = [op EXCEPT ![p] = rec]
      BY <2>3
    <3> HIDE DEF rec
    <3>4. ControlOK'
      BY <1>o, <1>a, <2>3, <3>2, <3>3, LocalsType DEF TypeParts
    <3> QED
      BY <1>a, <1>13, <2>1, <2>3, <3>4 DEF TypeParts, DestroyLayer
  <2> QED
    BY <1>13, <2>2, <2>3 DEF DestroyLayer, GiveUp
<1>14. CASE DeleteExists(p)
  <2>1. CASE Goto(p, "unprepare") /\ UNCHANGED <<op, lock>>
    <3>1. ControlOK'
      BY <1>0, <1>a, <2>1, GotoType DEF TypeParts
    <3> QED
      BY <1>a, <1>14, <2>1, <3>1 DEF DeleteExists, TypeParts
  <2>2. CASE \E r \in {"ok", "error"} : Exit(p, r)
    BY <1>a, <1>14, <2>2, ExitType DEF DeleteExists, TypeParts
  <2> QED
    BY <1>14, <2>1, <2>2 DEF DeleteExists
<1>15. CASE StatsMountPath(p) \/ GetQuotaUsed(p) \/ OpenMetadata(p)
  BY <1>0, <1>15, QueryType, SameType DEF StatsMountPath, GetQuotaUsed, OpenMetadata
<1>16. CASE StatsMetadata(p)
  BY <1>a, <1>16, ExitType DEF StatsMetadata, TypeParts
<1> QED
  BY <1>1, <1>2, <1>3, <1>4, <1>5, <1>6, <1>7, <1>8, <1>9, <1>10, <1>11, <1>12,
     <1>13, <1>14, <1>15, <1>16 DEF Step

\* A request that is not refused leaves a natural quota.
LEMMA QuotaType ==
    ASSUME NEW r \in Requests, ~Refused(r)
    PROVE  VolumeQuota(r) \in Nat
<1>1. r.limit \in Int /\ r.size \in Nat
  BY RequestType
<1> QED
  BY <1>1 DEF Refused, VolumeQuota, Charged, TooSmall

\* The beginning of a command keeps the types.
LEMMA CommandType ==
    ASSUME TypeOK, NEW p \in Procs, Command(p)
    PROVE  TypeOK'
<1>a. TypeParts
  BY SameType
<1> SUFFICES TypeParts'
  BY SameType
<1>1. ASSUME NEW at \in Labels, NEW new \in Commands, new.handle \in Handles, Begin(p, at, new)
      PROVE  TypeParts'
  BY <1>a, <1>1, BeginType DEF TypeParts, Begin
<1>2. PICK h \in Handles : Delete(p, h) \/ Stats(p, h) \/ \E r \in Requests : Create(p, h, r)
  BY DEF Command
<1>3. CASE Delete(p, h)
  <2> DEFINE new == [NoOp EXCEPT !.kind = "delete", !.handle = h, !.result = "run"]
  <2>1. new \in Commands /\ new.handle = h
    BY NoOpType DEF Commands
  <2> HIDE DEF new
  <2> QED
    BY <1>1, <1>3, <2>1 DEF Delete, new, Labels
<1>4. CASE Stats(p, h)
  <2> DEFINE new == [NoOp EXCEPT !.kind = "stats", !.handle = h, !.result = "run"]
  <2>1. new \in Commands /\ new.handle = h
    BY NoOpType DEF Commands
  <2> HIDE DEF new
  <2> QED
    BY <1>1, <1>4, <2>1 DEF Stats, new, Labels
<1>5. ASSUME NEW r \in Requests, Create(p, h, r) PROVE TypeParts'
  <2> DEFINE go == [NewCreate(h, r) EXCEPT !.quota = VolumeQuota(r), !.result = "run"]
             no == [NewCreate(h, r) EXCEPT !.result = "error"]
  <2>0. NewCreate(h, r) \in Commands /\ NewCreate(h, r).handle = h
    BY NoOpType DEF Commands, NewCreate
  <2>1. no \in Commands /\ no.handle = h
    BY <2>0 DEF Commands
  <2>2. ~Refused(r) => go \in Commands /\ go.handle = h
    BY <2>0, QuotaType DEF Commands
  <2>3. (~Refused(r) /\ Begin(p, "exists", go)) \/ Begin(p, "idle", no)
    BY <1>5 DEF Create, Pulled
  <2> HIDE DEF go, no
  <2> QED
    BY <1>1, <2>1, <2>2, <2>3 DEF Labels
<1> QED
  BY <1>2, <1>3, <1>4, <1>5

LEMMA NextType == TypeOK /\ [Next]_vars => TypeOK'
<1> SUFFICES ASSUME TypeOK, [Next]_vars PROVE TypeOK'
  OBVIOUS
<1>1. ASSUME NEW p \in Procs, Crash(p) PROVE TypeOK'
  BY <1>1, SameType, ExitType DEF Crash, TypeParts
<1>2. CASE Heal
  BY <1>2 DEF Heal, TypeOK
<1>3. CASE UNCHANGED vars
  BY <1>3 DEF vars, TypeOK
<1> QED
  BY <1>1, <1>2, <1>3, StepType, CommandType DEF Next

\* Every behaviour of the volume store is well typed: a process that runs works on a
\* bundle ID, sizes and quotas are natural numbers, and no removal takes more than three
\* rounds, whatever the callers do at once.
THEOREM TypeCorrect == Spec => []TypeOK
BY InitType, NextType, PTL DEF Spec

\* A command keeps to its volume and its request, whatever it fails in.
LEMMA StepKeepsRequest ==
    ASSUME TypeOK, NEW p \in Procs, Step(p) \/ Crash(p)
    PROVE  /\ op'[p].kind = op[p].kind /\ op'[p].handle = op[p].handle /\ op'[p].req = op[p].req
           /\ \A q \in Procs \ {p} : pc'[q] = pc[q] /\ op'[q] = op[q]
           /\ env' = env
<1>1. op \in [Procs -> Commands] /\ pc \in [Procs -> Labels]
  BY SameType DEF TypeParts, ControlOK
<1> DEFINE Kept ==
             /\ op'[p].kind = op[p].kind /\ op'[p].handle = op[p].handle
             /\ op'[p].req = op[p].req
             /\ \A q \in Procs \ {p} : pc'[q] = pc[q] /\ op'[q] = op[q]
<1>2. ASSUME NEW r, Exit(p, r) PROVE Kept
  BY <1>1, <1>2, NoOpType DEF Commands, Goto, Exit, NoOp
<1>3. ASSUME NEW at, Goto(p, at), UNCHANGED op PROVE Kept
  BY <1>1, <1>3 DEF Goto
<1>4. ASSUME NEW at, Fail(p, at) PROVE Kept
  BY <1>1, <1>4 DEF Goto, Fail, Commands
<1>5. ASSUME NEW at, NEW n, Goto(p, at),
             \/ op' = [op EXCEPT ![p].unprepareErr = n]
             \/ op' = [op EXCEPT ![p].deactivateErr = n]
             \/ op' = [op EXCEPT ![p].tries = n]
      PROVE  Kept
  BY <1>1, <1>5 DEF Goto, Commands
<1> HIDE DEF Kept
<1>6. CASE BundleExists(p) \/ DeleteExists(p) \/ StatsMountPath(p) \/ GetQuotaUsed(p)
           \/ OpenMetadata(p) \/ StatsMetadata(p) \/ Crash(p)
  <2>1. Kept /\ env' = env
    BY <1>2, <1>3, <1>6 DEF Query, BundleExists, DeleteExists, StatsMountPath, GetQuotaUsed,
           OpenMetadata, StatsMetadata, Crash
  <2> QED
    BY <2>1 DEF Kept
<1>7. CASE LockCreate(p) \/ CreateSandboxLayer(p) \/ ActivateLayer(p) \/ PrepareLayer(p)
           \/ UnlockCreate(p)
  <2>1. Kept /\ env' = env
    BY <1>3, <1>4, <1>7 DEF VolumeCall, LockCreate, CreateSandboxLayer, ActivateLayer,
           PrepareLayer, UnlockCreate
  <2> QED
    BY <2>1 DEF Kept
<1>8. CASE GetLayerMountPath(p) \/ SetQuota(p) \/ CreateMetadata(p) \/ FillMetadata(p)
  <2>1. Kept /\ env' = env
    BY <1>2, <1>3, <1>4, <1>8 DEF VolumeCall, GetLayerMountPath, SetQuota, CreateMetadata,
           FillMetadata
  <2> QED
    BY <2>1 DEF Kept
<1>9. CASE UnprepareLayer(p) \/ DeactivateLayer(p) \/ DestroyLayer(p)
  <2>1. Kept /\ env' = env
    BY <1>2, <1>5, <1>9 DEF UnprepareLayer, DeactivateLayer, DestroyLayer
  <2> QED
    BY <2>1 DEF Kept
<1> QED
  BY <1>6, <1>7, <1>8, <1>9 DEF Step

\* The way to CreateSandboxLayer, which alone makes the directory of a volume.
LEMMA WayToSandbox ==
    ASSUME TypeOK, NEW p \in Procs, Step(p)
    PROVE  /\ pc[p] # "idle" /\ pc'[p] # "exists"
           /\ pc'[p] = "lock" => pc[p] = "exists"
           /\ pc'[p] = "sandbox" => pc[p] = "lock"
           /\ \A h \in Handles : vol'[h].dir /\ ~vol[h].dir => pc[p] = "sandbox"
<1>1. /\ op \in [Procs -> Commands] /\ pc \in [Procs -> Labels] /\ vol \in [Handles -> Volumes]
  BY SameType DEF TypeParts, ControlOK
<1>2. CASE BundleExists(p) \/ DeleteExists(p) \/ StatsMountPath(p) \/ GetQuotaUsed(p)
           \/ OpenMetadata(p) \/ StatsMetadata(p)
  BY <1>1, <1>2 DEF Goto, Exit, Query, BundleExists, DeleteExists,
         StatsMountPath, GetQuotaUsed, OpenMetadata, StatsMetadata
<1>3. CASE LockCreate(p) \/ CreateSandboxLayer(p) \/ ActivateLayer(p) \/ PrepareLayer(p)
           \/ UnlockCreate(p)
  BY <1>1, <1>3 DEF Volumes, Volume, SetVolume, Goto, Fail, VolumeCall, LockCreate, CreateSandboxLayer,
         ActivateLayer, PrepareLayer, UnlockCreate, CreateLayerFails
<1>4. CASE GetLayerMountPath(p) \/ SetQuota(p) \/ CreateMetadata(p) \/ FillMetadata(p)
  BY <1>1, <1>4 DEF Volumes, Volume, SetVolume, Goto, Fail, Exit, VolumeCall, GetLayerMountPath,
         SetQuota, CreateMetadata, FillMetadata
<1>5. CASE UnprepareLayer(p) \/ DeactivateLayer(p) \/ DestroyLayer(p)
  <2>1. /\ pc[p] \in DestroyLayerLabels
        /\ pc'[p] \in DestroyLayerLabels \cup {"idle"}
    BY <1>1, <1>5 DEF Goto, Exit, UnprepareLayer, DeactivateLayer, DestroyLayer, DestroyLayerLabels
  <2>2. Volume(p) \in Volumes
    BY <1>1, <2>1, SameType DEF TypeParts, ControlOK, Volume, DestroyLayerLabels
  <2>3. \/ \E v \in {Absent, Deactivated(Volume(p))} : SetVolume(p, v)
        \/ \E b : SetVolume(p, [Volume(p) EXCEPT !.prepared = b])
        \/ \E m : SetVolume(p, [Volume(p) EXCEPT !.meta = m])
        \/ UNCHANGED vol
    BY <1>5 DEF UnprepareLayer, DeactivateLayer, DestroyLayer
  <2>4. \/ \E v : SetVolume(p, v) /\ (v.dir => Volume(p).dir)
        \/ UNCHANGED vol
    <3>1. ~Absent.dir /\ Deactivated(Volume(p)).dir = Volume(p).dir
      BY <2>2 DEF Volumes, Absent, Deactivated
    <3>2. /\ \A b : [Volume(p) EXCEPT !.prepared = b].dir = Volume(p).dir
          /\ \A m : [Volume(p) EXCEPT !.meta = m].dir = Volume(p).dir
      BY <2>2 DEF Volumes
    <3> QED
      BY <2>3, <3>1, <3>2, Zenon
  <2>5. \A h \in Handles : vol'[h].dir => vol[h].dir
    BY <1>1, <2>4 DEF SetVolume, Volume
  <2> QED
    BY <2>1, <2>5 DEF DestroyLayerLabels
<1> QED
  BY <1>2, <1>3, <1>4, <1>5 DEF Step

-----------------------------------------------------------------------------
(***************************************************************************)
(* Serial callers: VolumeStore keeps the promise of BundleSpec.  Stats run *)
(* at any time, every call may fail and every process may die.             *)
(***************************************************************************)
CreateLabels == CreateLayerLabels \cup
                {"exists", "lock", "mount", "quota", "metacreate", "metawrite"}
StatsLabels == {"statmount", "statquota", "statmeta", "statread"}

\* A create or delete, and once it ended the latest of its volume.
Owns(p) == op[p].kind \in {"create", "delete"}

\* At most one process works, or has worked last, on a volume.
OneOwner ==
    \A p, q \in Procs : Owns(p) /\ Owns(q) /\ op[p].handle = op[q].handle => p = q

\* Where a process is tells which command it runs and whether a call has failed.
KindAt(at, kind, req, quota, result) ==
    /\ at \in CreateLabels =>
           /\ kind = "create"
           /\ req \in Requests /\ ~Refused(req)
           /\ quota = VolumeQuota(req)
           /\ result # "run" => at = "unlock"
    /\ at \in DestroyLayerLabels => kind \in {"create", "delete"}
    /\ at = "found" => kind = "delete"
    /\ at \in StatsLabels => kind = "stats"

KindInv(p) ==
    /\ KindAt(pc[p], op[p].kind, op[p].req, op[p].quota, op[p].result)
    /\ Owns(p) => op[p].handle \in Handles

\* A volume that is not there has nothing, and one that is prepared is active.
Shape(v) == /\ v \in Volumes
            /\ ~v.dir => v = Absent
            /\ v.prepared => v.active

\* The volume a create has made so far.
Built(active, prepared, quota, meta) ==
    [dir |-> TRUE, active |-> active, prepared |-> prepared, quota |-> quota, meta |-> meta]

\* What a process knows of its volume v while it creates it, and what it has left when
\* its command succeeded.  A create that failed before the metadata has left none.
StageAt(at, kind, req, result, v) ==
    /\ at \in {"lock", "sandbox"} => v = Absent
    /\ at = "activate" => v = Built(FALSE, FALSE, NoQuota, NoFile)
    /\ at = "prepare" => v = Built(TRUE, FALSE, NoQuota, NoFile)
    /\ at \in {"unlock", "mount", "quota"} /\ result = "run" =>
           v = Built(TRUE, TRUE, NoQuota, NoFile)
    /\ at = "metacreate" => v = Built(TRUE, TRUE, Promise!PromisedQuota(req), NoFile)
    /\ at = "metawrite" => v = Built(TRUE, TRUE, Promise!PromisedQuota(req), Torn)
    /\ at \in {"unlock"} \cup DestroyLayerLabels /\ kind = "create" => v.meta = NoFile
    /\ at = "idle" /\ kind = "create" /\ result = "ok" =>
           v = Built(TRUE, TRUE, Promise!PromisedQuota(req), req.size)
    /\ at = "idle" /\ kind = "delete" /\ result = "ok" => v = Absent

StageInv(p) == StageAt(pc[p], op[p].kind, op[p].req, op[p].result, Volume(p))

BundleInv ==
    /\ TypeOK
    /\ OneOwner
    /\ \A h \in Handles : Shape(vol[h])
    /\ \A p \in Procs : KindInv(p) /\ StageInv(p)

-----------------------------------------------------------------------------
(* A step of p: where it leads, what it returns and what it makes of p's volume. *)

Moved(p, at, r) ==
    /\ pc' = [pc EXCEPT ![p] = at]
    /\ op'[p].kind = op[p].kind /\ op'[p].handle = op[p].handle /\ op'[p].req = op[p].req
    /\ op'[p].result = r
    /\ at # "idle" => op'[p].quota = op[p].quota
    /\ \A q \in Procs \ {p} : op'[q] = op[q]

Wrote(p, v) == vol' = [vol EXCEPT ![op[p].handle] = v]

\* What the steps of a command may do.  A create leaves a volume alone that is there,
\* and makes none that counts as finished before it succeeds.  A delete removes the
\* volume or takes parts away.  Stats change nothing and succeed only on a volume.
Allowed(p, at, r, v) ==
    /\ at = "idle" => r \in {"ok", "error", "panic", "crash"}
    /\ KindAt(at, op[p].kind, op[p].req, op[p].quota, r)
    /\ Shape(v)
    /\ StageAt(at, op[p].kind, op[p].req, r, v)
    /\ at # "exists"
    /\ pc[p] = "exists" \/ op[p].kind = "stats" => v = Volume(p)
    /\ pc[p] = "exists" => at = "lock" \/ (at = "idle" /\ r # "ok")
    /\ op[p].kind = "create" /\ pc[p] # "exists" /\ at = "idle" /\ r # "ok" => v.meta \notin Nat
    /\ op[p].kind = "delete" => \/ v = Absent
                                \/ /\ v.dir = Volume(p).dir /\ v.quota = Volume(p).quota
                                   /\ v.prepared => Volume(p).prepared
                                   /\ v.meta \in {Volume(p).meta, NoFile}
    /\ op[p].kind = "stats" /\ at = "idle" /\ r = "ok" => v.dir

LEMMA GotoMoved ==
    ASSUME TypeOK, NEW p \in Procs, NEW at, Goto(p, at), UNCHANGED op
    PROVE  Moved(p, at, op[p].result)
BY DEF Moved, Goto

LEMMA FailMoved ==
    ASSUME TypeOK, NEW p \in Procs, NEW at, Fail(p, at)
    PROVE  Moved(p, at, "error")
<1>1. op \in [Procs -> Commands]
  BY SameType DEF TypeParts, ControlOK
<1> QED
  BY <1>1 DEF Moved, Goto, Fail, Commands

LEMMA ExitMoved ==
    ASSUME TypeOK, NEW p \in Procs, NEW r, Exit(p, r)
    PROVE  Moved(p, "idle", r)
<1>1. op \in [Procs -> Commands]
  BY SameType DEF TypeParts, ControlOK
<1> QED
  BY <1>1, NoOpType DEF Moved, Goto, Exit, Commands, NoOp

\* A step of p that is allowed leaves the other processes what they rely on.
LEMMA AllowedKeeps ==
    ASSUME BundleInv, TypeOK', NEW p \in Procs, pc[p] # "idle", NEW at, NEW r, NEW v,
           Moved(p, at, r), Wrote(p, v), Allowed(p, at, r, v)
    PROVE  BundleInv'
<1>1. /\ pc \in [Procs -> Labels] /\ vol \in [Handles -> Volumes]
      /\ op[p].handle \in Handles
  BY SameType DEF BundleInv, TypeParts, ControlOK
<1>2. OneOwner'
  <2>1. \A q \in Procs : op'[q].kind = op[q].kind /\ op'[q].handle = op[q].handle
    BY DEF Moved
  <2> QED
    BY <2>1 DEF BundleInv, OneOwner, Owns
<1>3. \A h \in Handles : Shape(vol'[h])
  BY <1>1 DEF BundleInv, Wrote, Allowed
<1>4. KindInv(p)' /\ StageInv(p)'
  <2>1. pc'[p] = at /\ Volume(p)' = v
    BY <1>1 DEF Moved, Wrote, Volume
  <2> QED
    BY <1>1, <2>1 DEF Moved, Allowed, KindInv, StageInv, Owns, KindAt, CreateLabels, CreateLayerLabels
<1>5. ASSUME NEW q \in Procs \ {p} PROVE KindInv(q)' /\ StageInv(q)'
  <2>1. pc'[q] = pc[q] /\ op'[q] = op[q]
    BY <1>1 DEF Moved
  <2>2. KindInv(q) /\ StageInv(q)
    BY DEF BundleInv
  <2>3. KindInv(q)'
    BY <2>1, <2>2 DEF KindInv, Owns
  <2>4. CASE Owns(q)
    <3>1. op[q].handle \in Handles
      BY <2>2, <2>4 DEF KindInv
    <3>2. vol'[op[q].handle] = vol[op[q].handle]
      <4>1. CASE Owns(p)
        <5>1. op[q].handle # op[p].handle
          BY <2>4, <4>1 DEF BundleInv, OneOwner
        <5> QED
          BY <1>1, <3>1, <5>1 DEF Wrote
      <4>2. CASE ~Owns(p)
        <5>1. op[p].kind = "stats"
          BY <1>1, <4>2 DEF BundleInv, KindInv, KindAt, Labels, Owns, CreateLabels, CreateLayerLabels,
                            StatsLabels
        <5>2. v = vol[op[p].handle]
          BY <5>1 DEF Allowed, Volume
        <5> QED
          BY <1>1, <3>1, <5>2 DEF Wrote
      <4> QED
        BY <4>1, <4>2
    <3>3. Volume(q)' = Volume(q)
      BY <2>1, <3>2 DEF Volume
    <3> QED
      BY <2>1, <2>2, <2>3, <3>3 DEF StageInv
  <2>5. CASE ~Owns(q)
    BY <2>1, <2>2, <2>3, <2>5
       DEF StageInv, StageAt, KindInv, KindAt, Owns, CreateLabels, CreateLayerLabels
  <2> QED
    BY <2>4, <2>5
<1> QED
  BY <1>2, <1>3, <1>4, <1>5 DEF BundleInv

\* What p knows before it takes a step.
LEMMA Knows ==
    ASSUME BundleInv, NEW p \in Procs, pc[p] # "idle"
    PROVE  /\ TypeOK
           /\ pc[p] \in Labels
           /\ op[p] \in Commands /\ op[p].handle \in Handles
           /\ KindAt(pc[p], op[p].kind, op[p].req, op[p].quota, op[p].result)
           /\ StageAt(pc[p], op[p].kind, op[p].req, op[p].result, Volume(p))
           /\ Shape(Volume(p))
           /\ vol \in [Handles -> Volumes]
BY SameType DEF BundleInv, TypeParts, ControlOK, KindInv, StageInv, Volume

\* The calls that change no volume write back what p has.
LEMMA NothingWritten ==
    ASSUME BundleInv, NEW p \in Procs, pc[p] # "idle", UNCHANGED vol
    PROVE  Wrote(p, Volume(p))
BY Knows DEF Wrote, Volume

\* A command may end without success wherever it is, and leave its volume as it is.
LEMMA EndAllowed ==
    ASSUME BundleInv, NEW p \in Procs, pc[p] # "idle", NEW r \in {"error", "panic", "crash"}
    PROVE  Allowed(p, "idle", r, Volume(p))
<1> USE DEF CreateLabels, CreateLayerLabels, DestroyLayerLabels, StatsLabels
<1>1. /\ KindAt(pc[p], op[p].kind, op[p].req, op[p].quota, op[p].result)
      /\ StageAt(pc[p], op[p].kind, op[p].req, op[p].result, Volume(p))
      /\ Shape(Volume(p)) /\ pc[p] \in Labels
  BY Knows
<1>2. KindAt("idle", op[p].kind, op[p].req, op[p].quota, r)
  BY DEF KindAt
<1>3. StageAt("idle", op[p].kind, op[p].req, r, Volume(p))
  BY DEF StageAt
<1>4. op[p].kind = "create" /\ pc[p] # "exists" => Volume(p).meta \in {NoFile, Torn}
  <2> HIDE DEF Volume
  <2> QED
    BY <1>1 DEF StageAt, KindAt, Labels, Built, Absent
<1> QED
  BY <1>1, <1>2, <1>3, <1>4, VolumeSentinels DEF Allowed

\* A call of a create may fail, before the metadata, and be cleaned up after.
LEMMA FailAllowed ==
    ASSUME BundleInv, NEW p \in Procs, NEW at \in {"unlock", "unprepare"},
           pc[p] \in {"lock", "sandbox", "activate", "prepare", "mount", "quota"}
    PROVE  Allowed(p, at, "error", Volume(p))
<1> USE DEF CreateLabels, CreateLayerLabels, DestroyLayerLabels, StatsLabels
<1>1. /\ KindAt(pc[p], op[p].kind, op[p].req, op[p].quota, op[p].result)
      /\ StageAt(pc[p], op[p].kind, op[p].req, op[p].result, Volume(p))
      /\ Shape(Volume(p))
  BY Knows
<1>2. KindAt(at, op[p].kind, op[p].req, op[p].quota, "error") /\ op[p].kind = "create"
  BY <1>1 DEF KindAt
<1>3. Volume(p).meta = NoFile
  BY <1>1 DEF KindAt, StageAt, Built, Absent
<1>4. StageAt(at, op[p].kind, op[p].req, "error", Volume(p))
  BY <1>3 DEF StageAt
<1> QED
  BY <1>1, <1>2, <1>4 DEF Allowed

\* What p's step is: a move, what it wrote, and that both are allowed.
Does(p) == \E at, r, v : Moved(p, at, r) /\ Wrote(p, v) /\ Allowed(p, at, r, v)

\* The command of p ends without success.
LEMMA ExitDoes ==
    ASSUME BundleInv, NEW p \in Procs, pc[p] # "idle", NEW r \in {"error", "panic", "crash"},
           Exit(p, r), UNCHANGED vol
    PROVE  Does(p)
BY Knows, ExitMoved, NothingWritten, EndAllowed DEF Does

\* A call of a create fails.
LEMMA FailDoes ==
    ASSUME BundleInv, NEW p \in Procs, NEW at \in {"unlock", "unprepare"},
           pc[p] \in {"lock", "sandbox", "activate", "prepare", "mount", "quota"},
           Fail(p, at), UNCHANGED vol
    PROVE  Does(p)
BY Knows, FailMoved, NothingWritten, FailAllowed DEF Does

\* A call of p works.
LEMMA GotoDoes ==
    ASSUME BundleInv, NEW p \in Procs, pc[p] # "idle", NEW at, NEW v,
           Goto(p, at), UNCHANGED op, Wrote(p, v), Allowed(p, at, op[p].result, v)
    PROVE  Does(p)
BY Knows, GotoMoved DEF Does

\* The quota that SetQuota sets is the one that was promised; none, for a limit of zero.
LEMMA QuotaPromised ==
    ASSUME NEW r \in Requests, ~Refused(r)
    PROVE  /\ VolumeQuota(r) = 0 => Promise!PromisedQuota(r) = NoQuota
           /\ VolumeQuota(r) # 0 => Promise!PromisedQuota(r) = VolumeQuota(r) + Overhead
           /\ Promise!PromisedQuota(r) \in Nat \cup {NoQuota}
<1>1. r.limit \in Int /\ r.size \in Nat
  BY RequestType
<1> QED
  BY <1>1, OverheadAssumption DEF Refused, VolumeQuota, Charged, TooSmall, Promise!PromisedQuota, Promise!ImageShare

\* A volume that is there is told by its fields.
LEMMA Whole ==
    ASSUME NEW a, NEW b, NEW q, NEW m,
           NEW v \in [dir : {TRUE}, active : {a}, prepared : {b}, quota : {q}, meta : {m}]
    PROVE  v = Built(a, b, q, m)
<1>1. v.dir = TRUE /\ v.active = a /\ v.prepared = b /\ v.quota = q /\ v.meta = m
  OBVIOUS
<1>2. v = [dir |-> v.dir, active |-> v.active, prepared |-> v.prepared, quota |-> v.quota,
           meta |-> v.meta]
  OBVIOUS
<1> QED
  BY <1>1, <1>2 DEF Built

\* What each call of a create that works makes of the volume.
LEMMA BuildDir ==
    [Absent EXCEPT !.dir = TRUE] = Built(FALSE, FALSE, NoQuota, NoFile)
<1> DEFINE v == [Absent EXCEPT !.dir = TRUE]
<1>1. v \in [dir : {TRUE}, active : {FALSE}, prepared : {FALSE}, quota : {NoQuota}, meta : {NoFile}]
  BY DEF Absent
<1> HIDE DEF v
<1>2. v = Built(FALSE, FALSE, NoQuota, NoFile)
  BY <1>1, Whole
<1> QED
  BY <1>2 DEF v

LEMMA BuildActive ==
    ASSUME NEW q, NEW m
    PROVE  [Built(FALSE, FALSE, q, m) EXCEPT !.active = TRUE] = Built(TRUE, FALSE, q, m)
<1> DEFINE v == [Built(FALSE, FALSE, q, m) EXCEPT !.active = TRUE]
<1>1. v \in [dir : {TRUE}, active : {TRUE}, prepared : {FALSE}, quota : {q}, meta : {m}]
  BY DEF Built
<1> HIDE DEF v
<1>2. v = Built(TRUE, FALSE, q, m)
  BY <1>1, Whole
<1> QED
  BY <1>2 DEF v

LEMMA BuildPrepared ==
    ASSUME NEW q, NEW m
    PROVE  [Built(TRUE, FALSE, q, m) EXCEPT !.prepared = TRUE] = Built(TRUE, TRUE, q, m)
<1> DEFINE v == [Built(TRUE, FALSE, q, m) EXCEPT !.prepared = TRUE]
<1>1. v \in [dir : {TRUE}, active : {TRUE}, prepared : {TRUE}, quota : {q}, meta : {m}]
  BY DEF Built
<1> HIDE DEF v
<1>2. v = Built(TRUE, TRUE, q, m)
  BY <1>1, Whole
<1> QED
  BY <1>2 DEF v

LEMMA BuildQuota ==
    ASSUME NEW q, NEW m, NEW n
    PROVE  [Built(TRUE, TRUE, q, m) EXCEPT !.quota = n] = Built(TRUE, TRUE, n, m)
<1> DEFINE v == [Built(TRUE, TRUE, q, m) EXCEPT !.quota = n]
<1>1. v \in [dir : {TRUE}, active : {TRUE}, prepared : {TRUE}, quota : {n}, meta : {m}]
  BY DEF Built
<1> HIDE DEF v
<1>2. v = Built(TRUE, TRUE, n, m)
  BY <1>1, Whole
<1> QED
  BY <1>2 DEF v

LEMMA BuildMeta ==
    ASSUME NEW q, NEW m, NEW n
    PROVE  [Built(TRUE, TRUE, q, m) EXCEPT !.meta = n] = Built(TRUE, TRUE, q, n)
<1> DEFINE v == [Built(TRUE, TRUE, q, m) EXCEPT !.meta = n]
<1>1. v \in [dir : {TRUE}, active : {TRUE}, prepared : {TRUE}, quota : {q}, meta : {n}]
  BY DEF Built
<1> HIDE DEF v
<1>2. v = Built(TRUE, TRUE, q, n)
  BY <1>1, Whole
<1> QED
  BY <1>2 DEF v

LEMMA BuiltShape ==
    ASSUME NEW a \in BOOLEAN, NEW b \in BOOLEAN, b => a,
           NEW quota \in Nat \cup {NoQuota}, NEW meta \in Nat \cup {NoFile, Torn}
    PROVE  Shape(Built(a, b, quota, meta)) /\ Built(a, b, quota, meta).meta = meta
BY DEF Shape, Built, Volumes

\* The steps of Bundle and CreateLayer that make the volume.
LEMMA BuildDoes ==
    ASSUME BundleInv, NEW p \in Procs,
           \/ BundleExists(p) \/ LockCreate(p) \/ CreateSandboxLayer(p)
           \/ ActivateLayer(p) \/ PrepareLayer(p) \/ UnlockCreate(p)
    PROVE  Does(p)
<1> USE DEF CreateLabels, CreateLayerLabels, DestroyLayerLabels, StatsLabels
<1>0. pc[p] # "idle"
  BY DEF BundleExists, LockCreate, CreateSandboxLayer, ActivateLayer, PrepareLayer, UnlockCreate
<1>1. /\ KindAt(pc[p], op[p].kind, op[p].req, op[p].quota, op[p].result)
      /\ StageAt(pc[p], op[p].kind, op[p].req, op[p].result, Volume(p))
      /\ Shape(Volume(p)) /\ TypeOK
  BY <1>0, Knows
<1>w. \A v : SetVolume(p, v) => Wrote(p, v)
  BY DEF SetVolume, Wrote
<1>n. UNCHANGED vol => Wrote(p, Volume(p))
  BY <1>0, NothingWritten
<1> HIDE DEF Volume
<1>2. CASE BundleExists(p)
  <2>1. CASE Exit(p, "error") /\ UNCHANGED vol
    BY <1>0, <2>1, ExitDoes
  <2>2. CASE ~Volume(p).dir /\ Goto(p, "lock") /\ UNCHANGED <<op, vol>>
    <3>1. Allowed(p, "lock", op[p].result, Volume(p))
      BY <1>1, <1>2, <2>2 DEF Allowed, KindAt, StageAt, Shape, BundleExists
    <3> QED
      BY <1>0, <1>n, <2>2, <3>1, GotoDoes
  <2> QED
    BY <1>2, <2>1, <2>2 DEF BundleExists, Query, Taken
<1>3. CASE LockCreate(p)
  <2>1. CASE Fail(p, "unprepare") /\ UNCHANGED vol
    BY <1>3, <2>1, FailDoes DEF LockCreate
  <2>2. CASE Goto(p, "sandbox") /\ UNCHANGED <<op, vol>>
    <3>1. Allowed(p, "sandbox", op[p].result, Volume(p))
      BY <1>1, <1>3 DEF Allowed, KindAt, StageAt, LockCreate
    <3> QED
      BY <1>0, <1>n, <2>2, <3>1, GotoDoes
  <2> QED
    BY <1>3, <2>1, <2>2 DEF LockCreate
<1>4. CASE CreateSandboxLayer(p)
  <2> DEFINE v == [Volume(p) EXCEPT !.dir = TRUE]
  <2>0. v = Built(FALSE, FALSE, NoQuota, NoFile) /\ Shape(v)
    <3>1. Volume(p) = Absent
      BY <1>1, <1>4 DEF CreateSandboxLayer, StageAt
    <3>2. v = Built(FALSE, FALSE, NoQuota, NoFile)
      BY <3>1, BuildDir, Zenon
    <3> HIDE DEF v
    <3> QED
      BY <3>2, BuiltShape
  <2> HIDE DEF v
  <2>1. CASE Fail(p, "unlock") /\ UNCHANGED vol
    BY <1>4, <2>1, FailDoes DEF CreateSandboxLayer
  <2>2. CASE Goto(p, "activate") /\ UNCHANGED op /\ SetVolume(p, v)
    <3>1. Allowed(p, "activate", op[p].result, v)
      BY <1>1, <1>4, <2>0 DEF Allowed, KindAt, StageAt, CreateSandboxLayer
    <3> QED
      BY <1>0, <1>w, <2>2, <3>1, GotoDoes
  <2>3. CASE Fail(p, "unlock") /\ SetVolume(p, v)
    <3>1. Allowed(p, "unlock", "error", v)
      BY <1>1, <1>4, <2>0 DEF Allowed, KindAt, StageAt, CreateSandboxLayer, Built
    <3> QED
      BY <1>1, <1>w, <2>3, <3>1, FailMoved DEF Does
  <2> QED
    BY <1>4, <2>1, <2>2, <2>3 DEF CreateSandboxLayer, VolumeCall, CreateLayerFails, v
<1>5. CASE ActivateLayer(p)
  <2> DEFINE v == [Volume(p) EXCEPT !.active = TRUE]
  <2>0. v = Built(TRUE, FALSE, NoQuota, NoFile) /\ Shape(v)
    <3>1. Volume(p) = Built(FALSE, FALSE, NoQuota, NoFile)
      BY <1>1, <1>5 DEF ActivateLayer, StageAt
    <3>a. [Built(FALSE, FALSE, NoQuota, NoFile) EXCEPT !.active = TRUE] = Built(TRUE, FALSE, NoQuota, NoFile)
      BY BuildActive, Zenon
    <3>2. v = Built(TRUE, FALSE, NoQuota, NoFile)
      BY <3>1, <3>a, Zenon
    <3> HIDE DEF v
    <3> QED
      BY <3>2, BuiltShape
  <2> HIDE DEF v
  <2>1. CASE Fail(p, "unlock") /\ UNCHANGED vol
    BY <1>5, <2>1, FailDoes DEF ActivateLayer
  <2>2. CASE Goto(p, "prepare") /\ UNCHANGED op /\ SetVolume(p, v)
    <3>1. Allowed(p, "prepare", op[p].result, v)
      BY <1>1, <1>5, <2>0 DEF Allowed, KindAt, StageAt, ActivateLayer
    <3> QED
      BY <1>0, <1>w, <2>2, <3>1, GotoDoes
  <2> QED
    BY <1>5, <2>1, <2>2 DEF ActivateLayer, VolumeCall, CreateLayerFails, v
<1>6. CASE PrepareLayer(p)
  <2> DEFINE v == [Volume(p) EXCEPT !.prepared = TRUE]
  <2>0. v = Built(TRUE, TRUE, NoQuota, NoFile) /\ Shape(v)
    <3>1. Volume(p) = Built(TRUE, FALSE, NoQuota, NoFile)
      BY <1>1, <1>6 DEF PrepareLayer, StageAt
    <3>a. [Built(TRUE, FALSE, NoQuota, NoFile) EXCEPT !.prepared = TRUE] = Built(TRUE, TRUE, NoQuota, NoFile)
      BY BuildPrepared, Zenon
    <3>2. v = Built(TRUE, TRUE, NoQuota, NoFile)
      BY <3>1, <3>a, Zenon
    <3> HIDE DEF v
    <3> QED
      BY <3>2, BuiltShape
  <2> HIDE DEF v
  <2>1. CASE Fail(p, "unlock") /\ UNCHANGED vol
    BY <1>6, <2>1, FailDoes DEF PrepareLayer
  <2>2. CASE Goto(p, "unlock") /\ UNCHANGED op /\ SetVolume(p, v)
    <3>1. Allowed(p, "unlock", op[p].result, v)
      BY <1>1, <1>6, <2>0 DEF Allowed, KindAt, StageAt, PrepareLayer, Built
    <3> QED
      BY <1>0, <1>w, <2>2, <3>1, GotoDoes
  <2> QED
    BY <1>6, <2>1, <2>2 DEF PrepareLayer, VolumeCall, CreateLayerFails, v
<1>7. CASE UnlockCreate(p)
  <2> DEFINE at == IF op[p].result = "run" THEN "mount" ELSE "unprepare"
  <2>1. Allowed(p, at, op[p].result, Volume(p))
    BY <1>1, <1>7 DEF Allowed, KindAt, StageAt, UnlockCreate
  <2> QED
    BY <1>0, <1>7, <1>n, <2>1, GotoDoes DEF UnlockCreate
<1> QED
  BY <1>2, <1>3, <1>4, <1>5, <1>6, <1>7

\* The steps that set the quota and write metadata.json.
LEMMA FinishDoes ==
    ASSUME BundleInv, NEW p \in Procs,
           GetLayerMountPath(p) \/ SetQuota(p) \/ CreateMetadata(p) \/ FillMetadata(p)
    PROVE  Does(p)
<1> USE DEF CreateLabels, CreateLayerLabels, DestroyLayerLabels, StatsLabels
<1>0. pc[p] # "idle" /\ pc[p] \in CreateLabels
  BY DEF GetLayerMountPath, SetQuota, CreateMetadata, FillMetadata
<1>1. /\ KindAt(pc[p], op[p].kind, op[p].req, op[p].quota, op[p].result)
      /\ StageAt(pc[p], op[p].kind, op[p].req, op[p].result, Volume(p))
      /\ Shape(Volume(p)) /\ TypeOK
  BY <1>0, Knows
<1>r. /\ op[p].kind = "create" /\ op[p].req \in Requests /\ ~Refused(op[p].req)
      /\ op[p].quota = VolumeQuota(op[p].req)
  BY <1>0, <1>1 DEF KindAt
<1>q. /\ op[p].quota = 0 => Promise!PromisedQuota(op[p].req) = NoQuota
      /\ op[p].quota # 0 => Promise!PromisedQuota(op[p].req) = op[p].quota + Overhead
      /\ Promise!PromisedQuota(op[p].req) \in Nat \cup {NoQuota}
      /\ op[p].req.size \in Nat
  BY <1>r, QuotaPromised, RequestType
<1> DEFINE full == Promise!PromisedQuota(op[p].req)
<1> HIDE DEF full, Volume
<1>w. \A v : SetVolume(p, v) => Wrote(p, v)
  BY DEF SetVolume, Wrote
<1>n. UNCHANGED vol => Wrote(p, Volume(p))
  BY <1>0, NothingWritten
<1>2. CASE GetLayerMountPath(p)
  <2>1. CASE Fail(p, "unprepare") /\ UNCHANGED vol
    BY <1>2, <2>1, FailDoes DEF GetLayerMountPath
  <2>2. CASE Goto(p, "quota") /\ UNCHANGED op /\ SetVolume(p, Volume(p))
    <3>1. Allowed(p, "quota", op[p].result, Volume(p))
      BY <1>1, <1>2 DEF Allowed, KindAt, StageAt, GetLayerMountPath
    <3> QED
      BY <1>0, <1>w, <2>2, <3>1, GotoDoes
  <2> QED
    BY <1>2, <2>1, <2>2 DEF GetLayerMountPath, VolumeCall
<1>3. CASE SetQuota(p)
  <2>a. Volume(p) = Built(TRUE, TRUE, NoQuota, NoFile) /\ op[p].result = "run"
    BY <1>1, <1>3 DEF SetQuota, StageAt, KindAt
  <2>b. Shape(Built(TRUE, TRUE, full, NoFile))
    BY <1>q, BuiltShape DEF full
  <2>c. Allowed(p, "metacreate", op[p].result, Built(TRUE, TRUE, full, NoFile))
    BY <1>1, <1>3, <1>r, <2>a, <2>b DEF Allowed, KindAt, StageAt, SetQuota, full
  <2>1. CASE op[p].quota = 0 /\ Goto(p, "metacreate") /\ UNCHANGED <<vol, op>>
    <3>1. Wrote(p, Built(TRUE, TRUE, full, NoFile))
      BY <1>n, <1>q, <2>a, <2>1 DEF full
    <3> QED
      BY <1>0, <2>1, <2>c, <3>1, GotoDoes
  <2>2. CASE Fail(p, "unprepare") /\ UNCHANGED vol
    BY <1>3, <2>2, FailDoes DEF SetQuota
  <2>3. CASE /\ op[p].quota # 0 /\ Goto(p, "metacreate") /\ UNCHANGED op
             /\ SetVolume(p, [Volume(p) EXCEPT !.quota = op[p].quota + Overhead])
    <3>1. [Built(TRUE, TRUE, NoQuota, NoFile) EXCEPT !.quota = full] = Built(TRUE, TRUE, full, NoFile)
      BY BuildQuota, Zenon
    <3>2. full = op[p].quota + Overhead
      BY <1>q, <2>3 DEF full
    <3>3. [Volume(p) EXCEPT !.quota = op[p].quota + Overhead] = Built(TRUE, TRUE, full, NoFile)
      BY <2>a, <3>1, <3>2, Zenon
    <3>4. Wrote(p, Built(TRUE, TRUE, full, NoFile))
      BY <1>w, <2>3, <3>3, Zenon
    <3> QED
      BY <1>0, <2>3, <2>c, <3>4, GotoDoes
  <2> QED
    BY <1>3, <2>1, <2>2, <2>3 DEF SetQuota, VolumeCall
<1>4. CASE CreateMetadata(p)
  <2>1. CASE Exit(p, "error") /\ UNCHANGED vol
    BY <1>0, <2>1, ExitDoes
  <2>2. CASE /\ Goto(p, "metawrite") /\ UNCHANGED op
             /\ SetVolume(p, [Volume(p) EXCEPT !.meta = Torn])
    <3>a. Volume(p) = Built(TRUE, TRUE, full, NoFile) /\ op[p].result = "run"
      BY <1>1, <1>4 DEF CreateMetadata, StageAt, KindAt, full
    <3>1. [Built(TRUE, TRUE, full, NoFile) EXCEPT !.meta = Torn] = Built(TRUE, TRUE, full, Torn)
      BY BuildMeta, Zenon
    <3>2. [Volume(p) EXCEPT !.meta = Torn] = Built(TRUE, TRUE, full, Torn)
      BY <3>a, <3>1, Zenon
    <3>3. Wrote(p, Built(TRUE, TRUE, full, Torn))
      BY <1>w, <2>2, <3>2, Zenon
    <3>4. Shape(Built(TRUE, TRUE, full, Torn))
      BY <1>q, BuiltShape DEF full
    <3>5. Allowed(p, "metawrite", op[p].result, Built(TRUE, TRUE, full, Torn))
      BY <1>1, <1>4, <1>r, <3>a, <3>4 DEF Allowed, KindAt, StageAt, CreateMetadata, full
    <3> QED
      BY <1>0, <2>2, <3>3, <3>5, GotoDoes
  <2> QED
    BY <1>4, <2>1, <2>2 DEF CreateMetadata
<1>5. CASE FillMetadata(p)
  <2>1. CASE Exit(p, "error") /\ UNCHANGED vol
    BY <1>0, <2>1, ExitDoes
  <2>2. CASE Exit(p, "ok") /\ SetVolume(p, [Volume(p) EXCEPT !.meta = op[p].req.size])
    <3> DEFINE size == op[p].req.size
    <3>a. Volume(p) = Built(TRUE, TRUE, full, Torn)
      BY <1>1, <1>5 DEF FillMetadata, StageAt, full
    <3>1. [Built(TRUE, TRUE, full, Torn) EXCEPT !.meta = size] = Built(TRUE, TRUE, full, size)
      BY BuildMeta, Zenon
    <3>2. [Volume(p) EXCEPT !.meta = size] = Built(TRUE, TRUE, full, size)
      BY <3>a, <3>1, Zenon
    <3>3. Wrote(p, Built(TRUE, TRUE, full, size))
      BY <1>w, <2>2, <3>2, Zenon
    <3>4. Shape(Built(TRUE, TRUE, full, size))
      BY <1>q, BuiltShape DEF full
    <3>5. Allowed(p, "idle", "ok", Built(TRUE, TRUE, full, size))
      BY <1>1, <1>5, <1>r, <3>4 DEF Allowed, KindAt, StageAt, FillMetadata, full
    <3> QED
      BY <1>1, <2>2, <3>3, <3>5, ExitMoved DEF Does
  <2> QED
    BY <1>5, <2>1, <2>2 DEF FillMetadata
<1> QED
  BY <1>2, <1>3, <1>4, <1>5

LEMMA NothingThere ==
    ASSUME NEW v \in Volumes, ~v.dir, ~v.active, ~v.prepared, v.quota = NoQuota, v.meta = NoFile
    PROVE  v = Absent
<1>1. v.dir = FALSE /\ v.active = FALSE /\ v.prepared = FALSE
  BY DEF Volumes
<1>2. v = [dir |-> v.dir, active |-> v.active, prepared |-> v.prepared, quota |-> v.quota,
           meta |-> v.meta]
  BY DEF Volumes
<1> QED
  BY <1>1, <1>2 DEF Absent

\* v is what is left of w when some of its parts were taken away.
Lessened(v, w) ==
    /\ v \in Volumes
    /\ v.dir = w.dir /\ v.quota = w.quota
    /\ v.active => w.active
    /\ v.prepared => w.prepared /\ v.active
    /\ v.meta \in {w.meta, NoFile}

LEMMA LessenedShape ==
    ASSUME NEW v, NEW w, Shape(w), Lessened(v, w)
    PROVE  Shape(v)
<1>1. CASE w.dir
  BY <1>1 DEF Shape, Lessened
<1>2. CASE ~w.dir
  <2>1. w = Absent
    BY <1>2 DEF Shape
  <2>2. ~v.dir /\ ~v.active /\ ~v.prepared /\ v.quota = NoQuota /\ v.meta = NoFile
    BY <2>1 DEF Lessened, Absent
  <2>3. v = Absent
    BY <2>2, NothingThere DEF Lessened
  <2> QED
    BY <2>2, <2>3 DEF Shape, Lessened
<1> QED
  BY <1>1, <1>2

\* A round of DestroyLayer may take parts away and go on, or give up.
LEMMA LessenAllowed ==
    ASSUME BundleInv, NEW p \in Procs, pc[p] \in DestroyLayerLabels,
           NEW at \in DestroyLayerLabels \cup {"idle"}, NEW r,
           at = "idle" => r \in {"error", "panic"}, NEW v, Lessened(v, Volume(p))
    PROVE  Allowed(p, at, r, v)
<1> USE DEF CreateLabels, CreateLayerLabels, DestroyLayerLabels, StatsLabels
<1>1. /\ KindAt(pc[p], op[p].kind, op[p].req, op[p].quota, op[p].result)
      /\ StageAt(pc[p], op[p].kind, op[p].req, op[p].result, Volume(p))
      /\ Shape(Volume(p))
  BY Knows
<1> HIDE DEF Volume
<1>2. op[p].kind \in {"create", "delete"} /\ KindAt(at, op[p].kind, op[p].req, op[p].quota, r)
  BY <1>1 DEF KindAt
<1>3. op[p].kind = "create" => v.meta = NoFile
  BY <1>1 DEF StageAt, Lessened
<1>4. StageAt(at, op[p].kind, op[p].req, r, v)
  BY <1>3 DEF StageAt
<1>5. Shape(v)
  BY <1>1, LessenedShape
<1> QED
  BY <1>2, <1>3, <1>4, <1>5, VolumeSentinels DEF Allowed, Lessened

\* Locals other than the command, the quota and the result are set.
LEMMA LocalsMoved ==
    ASSUME TypeOK, NEW p \in Procs, NEW at, Goto(p, at), NEW x,
           \/ op' = [op EXCEPT ![p].unprepareErr = x]
           \/ op' = [op EXCEPT ![p].deactivateErr = x]
           \/ op' = [op EXCEPT ![p].tries = x]
    PROVE  Moved(p, at, op[p].result)
<1>1. op \in [Procs -> Commands]
  BY SameType DEF TypeParts, ControlOK
<1>2. CASE op' = [op EXCEPT ![p].unprepareErr = x]
  BY <1>1, <1>2 DEF Moved, Goto, Commands
<1>3. CASE op' = [op EXCEPT ![p].deactivateErr = x]
  BY <1>1, <1>3 DEF Moved, Goto, Commands
<1>4. CASE op' = [op EXCEPT ![p].tries = x]
  BY <1>1, <1>4 DEF Moved, Goto, Commands
<1> QED
  BY <1>2, <1>3, <1>4

\* The calls of DestroyLayer.
LEMMA DestroyDoes ==
    ASSUME BundleInv, NEW p \in Procs, UnprepareLayer(p) \/ DeactivateLayer(p) \/ DestroyLayer(p)
    PROVE  Does(p)
<1> USE DEF DestroyLayerLabels
<1>0. pc[p] # "idle" /\ pc[p] \in DestroyLayerLabels
  BY DEF UnprepareLayer, DeactivateLayer, DestroyLayer
<1>1. /\ KindAt(pc[p], op[p].kind, op[p].req, op[p].quota, op[p].result)
      /\ Shape(Volume(p)) /\ TypeOK
  BY <1>0, Knows
<1>w. \A v : SetVolume(p, v) => Wrote(p, v)
  BY DEF SetVolume, Wrote
<1> HIDE DEF Volume
<1>2. CASE UnprepareLayer(p)
  <2>1. PICK failed \in BOOLEAN :
            /\ SetVolume(p, [Volume(p) EXCEPT !.prepared = @ /\ failed])
            /\ op' = [op EXCEPT ![p].unprepareErr = failed]
    BY <1>2 DEF UnprepareLayer
  <2> DEFINE b == Volume(p).prepared /\ failed
             v == [Volume(p) EXCEPT !.prepared = b]
  <2>2. b \in BOOLEAN /\ (b => Volume(p).prepared)
    BY Zenon
  <2> HIDE DEF b
  <2>3. Lessened(v, Volume(p))
    BY <1>1, <2>2 DEF Lessened, Shape, Volumes
  <2>4. SetVolume(p, v)
    BY <2>1 DEF b
  <2> HIDE DEF v
  <2>5. Moved(p, "deactivate", op[p].result)
    BY <1>1, <1>2, <2>1, LocalsMoved DEF UnprepareLayer
  <2>6. Allowed(p, "deactivate", op[p].result, v)
    BY <1>0, <2>3, LessenAllowed
  <2> QED
    BY <1>w, <2>4, <2>5, <2>6 DEF Does
<1>3. CASE DeactivateLayer(p)
  <2>1. Moved(p, "destroy", op[p].result)
    BY <1>1, <1>3, LocalsMoved DEF DeactivateLayer
  <2>2. CASE ~Volume(p).prepared /\ SetVolume(p, Deactivated(Volume(p)))
    <3> DEFINE v == [Volume(p) EXCEPT !.active = FALSE]
    <3>1. Lessened(v, Volume(p))
      BY <1>1, <2>2 DEF Lessened, Shape, Volumes
    <3> HIDE DEF v
    <3>2. Allowed(p, "destroy", op[p].result, v)
      BY <1>0, <3>1, LessenAllowed
    <3>3. Wrote(p, v)
      BY <1>w, <2>2 DEF v, Deactivated
    <3> QED
      BY <2>1, <3>2, <3>3 DEF Does
  <2>3. CASE UNCHANGED vol
    <3>1. Lessened(Volume(p), Volume(p))
      BY <1>1 DEF Lessened, Shape
    <3>2. Allowed(p, "destroy", op[p].result, Volume(p))
      BY <1>0, <3>1, LessenAllowed
    <3>3. Wrote(p, Volume(p))
      BY <1>0, <2>3, NothingWritten
    <3> QED
      BY <2>1, <3>2, <3>3 DEF Does
  <2> QED
    BY <1>3, <2>2, <2>3 DEF DeactivateLayer
<1>4. CASE DestroyLayer(p)
  <2>1. CASE /\ SetVolume(p, Absent)
             /\ Exit(p, IF op[p].kind = "delete" THEN "ok" ELSE "error")
    <3> DEFINE r == IF op[p].kind = "delete" THEN "ok" ELSE "error"
    <3>1. Moved(p, "idle", r)
      BY <1>1, <2>1, ExitMoved
    <3>2. Shape(Absent) /\ Absent.meta = NoFile
      BY AbsentType DEF Shape, Absent
    <3>3. Allowed(p, "idle", r, Absent)
      BY <1>0, <1>1, <3>2, VolumeSentinels
         DEF Allowed, KindAt, StageAt, CreateLabels, CreateLayerLabels, StatsLabels
    <3> QED
      BY <1>w, <2>1, <3>1, <3>3 DEF Does
  <2>2. ASSUME NEW meta \in {Volume(p).meta, NoFile},
               SetVolume(p, [Volume(p) EXCEPT !.meta = meta]),
               IF op[p].tries + 1 < Attempts
                 THEN op' = [op EXCEPT ![p].tries = @ + 1] /\ Goto(p, "unprepare")
                 ELSE Exit(p, GiveUp(p))
        PROVE  Does(p)
    <3> DEFINE v == [Volume(p) EXCEPT !.meta = meta]
    <3>1. Lessened(v, Volume(p))
      BY <1>1, <2>2 DEF Lessened, Shape, Volumes
    <3> HIDE DEF v
    <3>2. Wrote(p, v)
      BY <1>w, <2>2 DEF v
    <3>3. CASE op' = [op EXCEPT ![p].tries = @ + 1] /\ Goto(p, "unprepare")
      <4>1. op' = [op EXCEPT ![p].tries = op[p].tries + 1]
        BY <3>3
      <4>2. Moved(p, "unprepare", op[p].result)
        BY <1>1, <3>3, <4>1, LocalsMoved
      <4>3. Allowed(p, "unprepare", op[p].result, v)
        BY <1>0, <3>1, LessenAllowed
      <4> QED
        BY <3>2, <4>2, <4>3 DEF Does
    <3>4. CASE Exit(p, GiveUp(p))
      <4>1. GiveUp(p) \in {"error", "panic"}
        BY DEF GiveUp
      <4>2. Moved(p, "idle", GiveUp(p))
        BY <1>1, <3>4, ExitMoved
      <4>3. Allowed(p, "idle", GiveUp(p), v)
        BY <1>0, <3>1, <4>1, LessenAllowed
      <4> QED
        BY <3>2, <4>2, <4>3 DEF Does
    <3> QED
      BY <2>2, <3>3, <3>4
  <2> QED
    BY <1>4, <2>1, <2>2 DEF DestroyLayer
<1> QED
  BY <1>2, <1>3, <1>4

\* The steps of delete and stats around them.
LEMMA ReadDoes ==
    ASSUME BundleInv, NEW p \in Procs,
           \/ DeleteExists(p) \/ StatsMountPath(p) \/ GetQuotaUsed(p)
           \/ OpenMetadata(p) \/ StatsMetadata(p)
    PROVE  Does(p)
<1> USE DEF CreateLabels, CreateLayerLabels, DestroyLayerLabels, StatsLabels
<1>0. pc[p] # "idle" /\ pc[p] \in StatsLabels \cup {"found"}
  BY DEF DeleteExists, StatsMountPath, GetQuotaUsed, OpenMetadata, StatsMetadata
<1>1. /\ KindAt(pc[p], op[p].kind, op[p].req, op[p].quota, op[p].result)
      /\ Shape(Volume(p)) /\ TypeOK
  BY <1>0, Knows
<1>n. UNCHANGED vol /\ Wrote(p, Volume(p))
  BY <1>0, NothingWritten
     DEF DeleteExists, StatsMountPath, GetQuotaUsed, OpenMetadata, StatsMetadata, Query
<1> HIDE DEF Volume
<1>2. CASE Exit(p, "error")
  BY <1>0, <1>2, <1>n, ExitDoes
<1>3. CASE DeleteExists(p) /\ Goto(p, "unprepare") /\ UNCHANGED op
  <2>1. Allowed(p, "unprepare", op[p].result, Volume(p))
    BY <1>1, <1>3 DEF Allowed, KindAt, StageAt, DeleteExists
  <2> QED
    BY <1>0, <1>3, <1>n, <2>1, GotoDoes
<1>4. CASE DeleteExists(p) /\ ~Volume(p).dir /\ Exit(p, "ok")
  <2>1. Allowed(p, "idle", "ok", Volume(p))
    BY <1>1, <1>4 DEF Allowed, KindAt, StageAt, DeleteExists, Shape
  <2> QED
    BY <1>1, <1>4, <1>n, <2>1, ExitMoved DEF Does
<1>5. ASSUME NEW at \in StatsLabels, Goto(p, at), UNCHANGED op, pc[p] \in StatsLabels
      PROVE  Does(p)
  <2>1. Allowed(p, at, op[p].result, Volume(p))
    BY <1>1, <1>5 DEF Allowed, KindAt, StageAt
  <2> QED
    BY <1>0, <1>5, <1>n, <2>1, GotoDoes
<1>6. CASE StatsMetadata(p) /\ Volume(p).meta \in Nat /\ Exit(p, "ok")
  <2>1. Volume(p).dir
    BY <1>1, <1>6, VolumeSentinels DEF Shape, Absent
  <2>2. Allowed(p, "idle", "ok", Volume(p))
    BY <1>1, <1>6, <2>1 DEF Allowed, KindAt, StageAt, StatsMetadata
  <2> QED
    BY <1>1, <1>6, <1>n, <2>2, ExitMoved DEF Does
<1> QED
  BY <1>2, <1>3, <1>4, <1>5, <1>6
     DEF DeleteExists, StatsMountPath, GetQuotaUsed, OpenMetadata, StatsMetadata, Query

\* Every step of a process is allowed, and so is its death.
LEMMA StepDoes ==
    ASSUME BundleInv, NEW p \in Procs, Step(p) \/ Crash(p)
    PROVE  pc[p] # "idle" /\ Does(p)
<1>1. pc[p] # "idle"
  BY DEF Step, Crash, BundleExists, LockCreate, CreateSandboxLayer, ActivateLayer, PrepareLayer,
         UnlockCreate, GetLayerMountPath, SetQuota, CreateMetadata, FillMetadata, UnprepareLayer,
         DeactivateLayer, DestroyLayer, DeleteExists, StatsMountPath, GetQuotaUsed,
         OpenMetadata, StatsMetadata
<1>2. CASE Crash(p)
  BY <1>1, <1>2, ExitDoes DEF Crash
<1> QED
  BY <1>1, <1>2, BuildDoes, FinishDoes, DestroyDoes, ReadDoes DEF Step

-----------------------------------------------------------------------------
(* Commands begin. *)

\* The ways a command may begin: it runs, or is refused at once.
Fresh(at, new) ==
    /\ new \in Commands /\ new.handle \in Handles
    /\ new.kind \in {"create", "delete", "stats"}
    /\ \/ at \in {"exists", "found", "statmount"} /\ new.result = "run"
       \/ at = "idle" /\ new.result = "error"
    /\ at = "exists" <=> at # "idle" /\ new.kind = "create"
    /\ KindAt(at, new.kind, new.req, new.quota, new.result)

LEMMA CommandFresh ==
    ASSUME NEW p \in Procs, Command(p)
    PROVE  \E at, new : Fresh(at, new) /\ Begin(p, at, new)
<1> USE DEF CreateLabels, CreateLayerLabels, DestroyLayerLabels, StatsLabels
<1>2. PICK h \in Handles : Delete(p, h) \/ Stats(p, h) \/ \E r \in Requests : Create(p, h, r)
  BY DEF Command
<1>3. CASE Delete(p, h)
  <2> DEFINE new == [NoOp EXCEPT !.kind = "delete", !.handle = h, !.result = "run"]
  <2>1. new \in Commands /\ new.handle = h /\ new.kind = "delete" /\ new.result = "run"
    BY NoOpType DEF Commands
  <2> HIDE DEF new
  <2>2. Fresh("found", new)
    BY <2>1 DEF Fresh, KindAt
  <2> QED
    BY <1>3, <2>2 DEF Delete, new
<1>4. CASE Stats(p, h)
  <2> DEFINE new == [NoOp EXCEPT !.kind = "stats", !.handle = h, !.result = "run"]
  <2>1. new \in Commands /\ new.handle = h /\ new.kind = "stats" /\ new.result = "run"
    BY NoOpType DEF Commands
  <2> HIDE DEF new
  <2>2. Fresh("statmount", new)
    BY <2>1 DEF Fresh, KindAt
  <2> QED
    BY <1>4, <2>2 DEF Stats, new
<1>5. ASSUME NEW r \in Requests, Create(p, h, r)
      PROVE  \E at, new : Fresh(at, new) /\ Begin(p, at, new)
  <2> DEFINE go == [NewCreate(h, r) EXCEPT !.quota = VolumeQuota(r), !.result = "run"]
             no == [NewCreate(h, r) EXCEPT !.result = "error"]
  <2>0. /\ NewCreate(h, r) \in Commands /\ NewCreate(h, r).handle = h
        /\ NewCreate(h, r).kind = "create" /\ NewCreate(h, r).req = r
    BY NoOpType DEF Commands, NewCreate
  <2>1. no \in Commands /\ no.handle = h /\ no.kind = "create" /\ no.result = "error"
    BY <2>0 DEF Commands
  <2>2. ~Refused(r) => /\ go \in Commands /\ go.handle = h /\ go.kind = "create" /\ go.req = r
                       /\ go.quota = VolumeQuota(r) /\ go.result = "run"
    BY <2>0, QuotaType DEF Commands
  <2>3. (~Refused(r) /\ Begin(p, "exists", go)) \/ Begin(p, "idle", no)
    BY <1>5 DEF Create, Pulled
  <2> HIDE DEF go, no
  <2>4. CASE ~Refused(r) /\ Begin(p, "exists", go)
    <3>1. Fresh("exists", go)
      BY <2>2, <2>4 DEF Fresh, KindAt
    <3> QED
      BY <2>4, <3>1
  <2>5. CASE Begin(p, "idle", no)
    <3>1. Fresh("idle", no)
      BY <2>1 DEF Fresh, KindAt
    <3> QED
      BY <2>5, <3>1
  <2> QED
    BY <2>3, <2>4, <2>5
<1> QED
  BY <1>2, <1>3, <1>4, <1>5

\* A serial caller's command begins on a volume nobody else owns.
LEMMA BeginKeeps ==
    ASSUME Serial, BundleInv, TypeOK', NEW p \in Procs, NEW at, NEW new,
           Fresh(at, new), Begin(p, at, new)
    PROVE  BundleInv'
<1> USE DEF CreateLabels, CreateLayerLabels, DestroyLayerLabels, StatsLabels
<1>1. /\ pc \in [Procs -> Labels] /\ op \in [Procs -> Commands]
      /\ vol' = vol /\ pc' = [pc EXCEPT ![p] = at] /\ op'[p] = new /\ pc[p] = "idle"
  BY SameType DEF BundleInv, TypeParts, ControlOK, Begin, Goto
<1>2. ASSUME NEW q \in Procs \ {p}
      PROVE  /\ pc'[q] = pc[q]
             /\ op'[q] = op[q] \/ (pc[q] = "idle" /\ op'[q] = NoOp)
             /\ new.kind # "stats" /\ Owns(q) /\ op[q].handle = new.handle => op'[q] = NoOp
  <2>1. op'[q] = IF Replaces(new, q) THEN NoOp ELSE op[q]
    BY DEF Begin
  <2>2. new.kind # "stats" /\ Owns(q) /\ op[q].handle = new.handle => pc[q] = "idle"
    BY DEF Begin, Alone, Owns
  <2> QED
    BY <1>1, <2>1, <2>2 DEF Replaces
<1>3. NoOp.kind = "none"
  BY DEF NoOp
<1>4. OneOwner'
  <2>1. ASSUME NEW q \in Procs, q # p, Owns(p)', Owns(q)'
        PROVE  op'[p].handle # op'[q].handle
    <3>1. new.kind # "stats" /\ op'[q] = op[q]
      BY <1>1, <1>2, <1>3, <2>1 DEF Owns
    <3>2. Owns(q)
      BY <2>1, <3>1 DEF Owns
    <3> QED
      BY <1>1, <1>2, <1>3, <2>1, <3>1, <3>2 DEF Owns
  <2>2. ASSUME NEW q \in Procs \ {p}, Owns(q)'
        PROVE  op'[q] = op[q] /\ Owns(q)
    BY <1>2, <1>3, <2>2 DEF Owns
  <2> QED
    BY <2>1, <2>2 DEF OneOwner, BundleInv
<1>5. KindInv(p)' /\ StageInv(p)'
  <2>1. pc'[p] = at
    BY <1>1
  <2> QED
    BY <1>1, <2>1 DEF Fresh, KindInv, StageInv, StageAt, KindAt, Owns
<1>6. ASSUME NEW q \in Procs \ {p} PROVE KindInv(q)' /\ StageInv(q)'
  <2>1. CASE op'[q] = op[q]
    BY <1>1, <1>2, <2>1 DEF BundleInv, KindInv, StageInv, Owns, Volume
  <2>2. CASE pc[q] = "idle" /\ op'[q] = NoOp
    BY <1>1, <1>2, <1>3, <2>2 DEF KindInv, StageInv, KindAt, StageAt, Owns
  <2> QED
    BY <1>2, <2>1, <2>2
<1> QED
  BY <1>1, <1>4, <1>5, <1>6 DEF BundleInv

LEMMA BundleInit == Init => BundleInv
<1> SUFFICES ASSUME Init PROVE BundleInv
  OBVIOUS
<1>1. TypeOK
  BY InitType
<1>2. NoOp.kind = "none"
  BY DEF NoOp
<1>3. Shape(Absent)
  BY AbsentType DEF Shape, Absent
<1>4. Shape(OldVolume)
  BY OldVolumeType DEF Shape, OldVolume
<1>5. \A h \in Handles : Shape(vol[h])
  BY <1>3, <1>4 DEF Init
<1> QED
  BY <1>1, <1>2, <1>5
     DEF Init, BundleInv, OneOwner, Owns, KindInv, KindAt, StageInv, StageAt,
         CreateLabels, CreateLayerLabels, DestroyLayerLabels, StatsLabels

LEMMA BundleNext ==
    ASSUME Serial
    PROVE  BundleInv /\ [Next]_vars => BundleInv'
<1> SUFFICES ASSUME BundleInv, [Next]_vars PROVE BundleInv'
  OBVIOUS
<1>1. TypeOK'
  BY NextType DEF BundleInv
<1>2. ASSUME NEW p \in Procs, Step(p) \/ Crash(p) PROVE BundleInv'
  BY <1>1, <1>2, StepDoes, AllowedKeeps DEF Does
<1>3. ASSUME NEW p \in Procs, Command(p) PROVE BundleInv'
  BY <1>1, <1>3, CommandFresh, BeginKeeps
<1>4. CASE Heal \/ UNCHANGED vars
  <2>1. UNCHANGED <<vol, pc, op>>
    BY <1>4 DEF Heal, vars
  <2> QED
    BY <1>1, <2>1 DEF BundleInv, OneOwner, Owns, KindInv, StageInv, Volume
<1> QED
  BY <1>2, <1>3, <1>4 DEF Next

LEMMA BundleAlways ==
    ASSUME Serial
    PROVE  Spec => []BundleInv
BY BundleInit, BundleNext, PTL DEF Spec

-----------------------------------------------------------------------------
\* A create that succeeds leaves a mounted volume with exactly the quota its limit
\* promises and the size of the image (Bundle and WriteMetadata), as long as the latest
\* create or delete of it is the one that succeeded, for all serial callers.
THEOREM CreatedIsUsable ==
    ASSUME Serial
    PROVE  Spec => []BundleUsable
<1>1. BundleInv => BundleUsable
  BY DEF BundleInv, StageInv, StageAt, BundleUsable, Ended, Volume, Built
<1> QED
  BY <1>1, BundleAlways, PTL

\* A delete that succeeds has left nothing of the volume (Delete and DestroyLayer), for
\* all serial callers, although rounds fail and stats hold metadata.json open.
THEOREM DeletedIsGone ==
    ASSUME Serial
    PROVE  Spec => []DeleteComplete
<1>1. BundleInv => DeleteComplete
  BY DEF BundleInv, StageInv, StageAt, DeleteComplete, Ended, Volume
<1> QED
  BY <1>1, BundleAlways, PTL

\* A create that works on its volume has not finished it before it succeeds.
LEMMA UnfinishedUntilDone ==
    ASSUME BundleInv, NEW p \in Procs, pc[p] \notin {"idle", "exists"}, op[p].kind = "create"
    PROVE  Volume(p).meta \in {NoFile, Torn}
<1>1. /\ KindAt(pc[p], op[p].kind, op[p].req, op[p].quota, op[p].result)
      /\ StageAt(pc[p], op[p].kind, op[p].req, op[p].result, Volume(p))
      /\ pc[p] \in Labels
  BY Knows
<1> HIDE DEF Volume
<1> QED
  BY <1>1 DEF StageAt, KindAt, Labels, Built, Absent, CreateLabels, CreateLayerLabels,
              DestroyLayerLabels, StatsLabels

\* A running process has one of the three commands.
LEMMA RunningKinds ==
    ASSUME BundleInv, NEW p \in Procs, pc[p] # "idle"
    PROVE  op[p].kind \in {"create", "delete", "stats"}
<1>1. pc[p] \in Labels /\ KindAt(pc[p], op[p].kind, op[p].req, op[p].quota, op[p].result)
  BY Knows
<1> QED
  BY <1>1 DEF KindAt, Labels, CreateLabels, CreateLayerLabels, DestroyLayerLabels, StatsLabels

\* A finished volume changes only while a delete of it runs (Bundle never cleans up a
\* volume it did not begin), for all serial callers.
THEOREM FinishedIsUntouched ==
    ASSUME Serial
    PROVE  Spec => CreatedVolumeUntouched
<1>1. ASSUME BundleInv, [Next]_vars, NEW h \in Handles, Made(h), ~Deleting(h)
      PROVE  vol'[h] = vol[h]
  <2>1. ASSUME NEW p \in Procs, Step(p) \/ Crash(p) PROVE vol'[h] = vol[h]
    <3>1. pc[p] # "idle"
      BY <1>1, <2>1, StepDoes
    <3>2. PICK at, r, v : Wrote(p, v) /\ Allowed(p, at, r, v)
      BY <1>1, <2>1, StepDoes DEF Does
    <3>3. vol \in [Handles -> Volumes] /\ op[p].handle \in Handles
      BY <1>1, <3>1, Knows
    <3>4. CASE op[p].handle # h
      BY <3>2, <3>3, <3>4 DEF Wrote
    <3>5. CASE op[p].handle = h
      <4>1. op[p].kind \in {"create", "stats"}
        BY <1>1, <3>1, <3>5, RunningKinds DEF Deleting
      <4>2. op[p].kind = "create" => pc[p] = "exists"
        BY <1>1, <3>1, <3>5, UnfinishedUntilDone, VolumeSentinels DEF Made, Volume
      <4>3. v = vol[h]
        BY <3>2, <3>5, <4>1, <4>2 DEF Allowed, Volume
      <4> QED
        BY <3>2, <3>3, <4>3 DEF Wrote
    <3> QED
      BY <3>4, <3>5
  <2>2. ASSUME NEW p \in Procs, Command(p) PROVE vol' = vol
    BY <2>2, CommandFresh DEF Begin
  <2>3. CASE Heal \/ UNCHANGED vars
    BY <2>3 DEF Heal, vars
  <2> QED
    BY <1>1, <2>1, <2>2, <2>3 DEF Next
<1>2. BundleInv /\ [Next]_vars => [\A h \in Handles : Made(h) /\ ~Deleting(h) => vol'[h] = vol[h]]_vars
  BY <1>1
<1> QED
  BY <1>2, BundleAlways, PTL DEF Spec, CreatedVolumeUntouched

-----------------------------------------------------------------------------
(* The refinement: every step is one of BundleSpec, or a stutter. *)

Rec(k, h, q, f, s) == [kind |-> k, handle |-> h, req |-> q, phase |-> f, result |-> s]

LEMMA RecWhole ==
    ASSUME NEW k, NEW h, NEW q, NEW f, NEW s,
           NEW c \in [kind : {k}, handle : {h}, req : {q}, phase : {f}, result : {s}]
    PROVE  c = Rec(k, h, q, f, s)
<1>1. c.kind = k /\ c.handle = h /\ c.req = q /\ c.phase = f /\ c.result = s
  OBVIOUS
<1>2. c = [kind |-> c.kind, handle |-> c.handle, req |-> c.req, phase |-> c.phase,
           result |-> c.result]
  OBVIOUS
<1> QED
  BY <1>1, <1>2 DEF Rec

LEMMA RecBuild ==
    ASSUME NEW k, NEW h, NEW q, NEW f, NEW s
    PROVE  [Rec(k, h, q, f, s) EXCEPT !.phase = "build"] = Rec(k, h, q, "build", s)
<1> DEFINE c == [Rec(k, h, q, f, s) EXCEPT !.phase = "build"]
<1>1. c \in [kind : {k}, handle : {h}, req : {q}, phase : {"build"}, result : {s}]
  BY DEF Rec
<1> HIDE DEF c
<1>2. c = Rec(k, h, q, "build", s)
  BY <1>1, RecWhole
<1> QED
  BY <1>2 DEF c

\* How far a command is, as its caller sees it.
PhaseOf(at, kind) ==
    IF at = "idle" THEN "done" ELSE IF kind # "create" \/ at = "exists" THEN "run" ELSE "build"
ResultOf(at, r) == IF at = "idle" THEN r ELSE "run"

LEMMA CmdRec ==
    ASSUME NEW at, NEW o
    PROVE  CmdOf(at, o) = Rec(o.kind, o.handle, o.req, PhaseOf(at, o.kind), ResultOf(at, o.result))
BY DEF CmdOf, Rec, PhaseOf, ResultOf

\* The caller sees the command of p as c, from now on.
Shows(p, c) == cmd' = [cmd EXCEPT ![p] = c]

\* A step of p, as the caller sees it.
Seen(p, at, r, v) ==
    /\ box' = [box EXCEPT ![op[p].handle] = BoxOf(v)]
    /\ box[op[p].handle] = BoxOf(Volume(p))
    /\ Shows(p, Rec(op[p].kind, op[p].handle, op[p].req, PhaseOf(at, op[p].kind), ResultOf(at, r)))
    /\ cmd[p] = Rec(op[p].kind, op[p].handle, op[p].req, PhaseOf(pc[p], op[p].kind), "run")

LEMMA CallerSees ==
    ASSUME BundleInv, NEW p \in Procs, pc[p] # "idle", NEW at, NEW r, NEW v,
           Moved(p, at, r), Wrote(p, v)
    PROVE  Seen(p, at, r, v)
<1>1. pc[p] \in Labels /\ op[p].handle \in Handles /\ vol \in [Handles -> Volumes]
  BY Knows
<1>2. pc \in [Procs -> Labels]
  BY SameType DEF BundleInv, TypeParts, ControlOK
<1>3. box[op[p].handle] = BoxOf(Volume(p))
  BY <1>1 DEF box, Volume
<1>4. box' = [box EXCEPT ![op[p].handle] = BoxOf(v)]
  <2>1. \A h \in Handles : BoxOf(vol'[h]) = IF h = op[p].handle THEN BoxOf(v) ELSE BoxOf(vol[h])
    BY <1>1 DEF Wrote
  <2>2. box' = [h \in Handles |-> BoxOf(vol'[h])]
    BY DEF box, BoxOf
  <2> QED
    BY <1>1, <2>1, <2>2 DEF box
<1>5. cmd' = [q \in Procs |-> CmdOf(pc'[q], op'[q])]
  BY DEF cmd, CmdOf
<1>6. CmdOf(pc'[p], op'[p]) = Rec(op[p].kind, op[p].handle, op[p].req,
                                  PhaseOf(at, op[p].kind), ResultOf(at, r))
  <2>1. pc'[p] = at
    BY <1>2 DEF Moved
  <2> QED
    BY <2>1, CmdRec DEF Moved
<1>7. \A q \in Procs \ {p} : CmdOf(pc'[q], op'[q]) = CmdOf(pc[q], op[q])
  BY <1>2 DEF Moved
<1>8. cmd[p] = Rec(op[p].kind, op[p].handle, op[p].req, PhaseOf(pc[p], op[p].kind), "run")
  BY CmdRec DEF cmd, ResultOf
<1> QED
  BY <1>3, <1>4, <1>5, <1>6, <1>7, <1>8 DEF cmd, Seen, Shows

\* What the caller sees of a volume.
LEMMA BoxFacts ==
    ASSUME NEW v, Shape(v)
    PROVE  /\ v.meta \notin Nat => BoxOf(v) \in {Promise!Nothing, Promise!Remains}
           /\ ~v.dir => BoxOf(v) = Promise!Nothing
           /\ BoxOf(v) = Promise!Nothing => ~v.dir
           /\ v.dir => BoxOf(v).state # "none"
           /\ ~v.prepared => BoxOf(v) \in {Promise!Nothing, Promise!Remains}
<1>1. v.dir /\ ~(v.prepared /\ v.meta \in Nat) => BoxOf(v) = Promise!Remains
  BY DEF BoxOf, Promise!Remains, Promise!Box
<1>2. ~v.dir => ~v.prepared
  BY DEF Shape, Absent
<1>3. ~v.dir => BoxOf(v) = Promise!Nothing
  BY <1>2 DEF BoxOf, Promise!Nothing, Promise!Box
<1>4. v.dir => BoxOf(v).state # "none"
  BY DEF BoxOf
<1>5. Promise!Nothing.state = "none"
  BY DEF Promise!Nothing, Promise!Box
<1> QED
  BY <1>1, <1>3, <1>4, <1>5

\* The end of a command, and a step that the caller does not see.
LEMMA CallerDone ==
    ASSUME NEW p \in Procs, NEW k, NEW h, NEW q, NEW f, NEW s, NEW r,
           cmd[p] = Rec(k, h, q, f, s), Shows(p, Rec(k, h, q, "done", r))
    PROVE  Promise!Done(p, r)
<1>1. [cmd[p] EXCEPT !.phase = "done", !.result = r] = Rec(k, h, q, "done", r)
  <2> DEFINE c == [cmd[p] EXCEPT !.phase = "done", !.result = r]
  <2>0. cmd[p] \in [kind : {k}, handle : {h}, req : {q}, phase : {f}, result : {s}]
    BY DEF Rec
  <2>1. c \in [kind : {k}, handle : {h}, req : {q}, phase : {"done"}, result : {r}]
    BY <2>0
  <2> HIDE DEF c
  <2>2. c = Rec(k, h, q, "done", r)
    BY <2>1, RecWhole
  <2> QED
    BY <2>2 DEF c
<1>2. [cmd EXCEPT ![p].phase = "done", ![p].result = r]
      = [cmd EXCEPT ![p] = [cmd[p] EXCEPT !.phase = "done", !.result = r]]
  BY DEF cmd
<1> QED
  BY <1>1, <1>2, Zenon DEF Promise!Done, Shows

LEMMA CallerBuild ==
    ASSUME NEW p \in Procs, NEW k, NEW h, NEW q, NEW f, NEW s,
           cmd[p] = Rec(k, h, q, f, s), Shows(p, Rec(k, h, q, "build", s))
    PROVE  cmd' = [cmd EXCEPT ![p].phase = "build"]
<1>0. [Rec(k, h, q, f, s) EXCEPT !.phase = "build"] = Rec(k, h, q, "build", s)
  BY ONLY RecBuild
<1>1. [cmd[p] EXCEPT !.phase = "build"] = Rec(k, h, q, "build", s)
  BY <1>0, Zenon
<1>2. [cmd EXCEPT ![p].phase = "build"] = [cmd EXCEPT ![p] = [cmd[p] EXCEPT !.phase = "build"]]
  OBVIOUS
<1> QED
  BY <1>1, <1>2, Zenon DEF Shows

LEMMA CallerSame ==
    ASSUME NEW p \in Procs, NEW c, cmd[p] = c, Shows(p, c)
    PROVE  cmd' = cmd
BY DEF cmd, Shows

LEMMA BoxSame ==
    ASSUME NEW h \in Handles, NEW b, box[h] = b, box' = [box EXCEPT ![h] = b]
    PROVE  box' = box
BY DEF box

\* A step that is allowed is a step of BundleSpec, or one its caller does not see.
LEMMA AllowedRefines ==
    ASSUME BundleInv, TypeOK', NEW p \in Procs, pc[p] # "idle", NEW at, NEW r, NEW v,
           Moved(p, at, r), Wrote(p, v), Allowed(p, at, r, v)
    PROVE  Promise!Next \/ UNCHANGED <<box, cmd>>
<1> DEFINE h == op[p].handle
           kind == op[p].kind
           phase == PhaseOf(pc[p], kind)
<1>1. /\ box' = [box EXCEPT ![h] = BoxOf(v)]
      /\ box[h] = BoxOf(Volume(p))
      /\ Shows(p, Rec(kind, h, op[p].req, PhaseOf(at, kind), ResultOf(at, r)))
      /\ cmd[p] = Rec(kind, h, op[p].req, phase, "run")
  BY CallerSees DEF Seen
<1>2. h \in Handles /\ Shape(Volume(p)) /\ Shape(v)
  BY Knows DEF Allowed
<1>a. at \in Labels
  <2>1. pc \in [Procs -> Labels] /\ pc' \in [Procs -> Labels]
    BY SameType DEF BundleInv, TypeParts, ControlOK
  <2>2. pc'[p] = at
    BY <2>1 DEF Moved
  <2> QED
    BY <2>1, <2>2
<1>3. /\ cmd[p].kind = kind /\ cmd[p].handle = h /\ cmd[p].req = op[p].req
      /\ cmd[p].phase = phase /\ phase # "done"
  BY <1>1 DEF Rec, PhaseOf
<1>4. at = "idle" => Promise!Done(p, r)
  <2> SUFFICES ASSUME at = "idle" PROVE Promise!Done(p, r)
    OBVIOUS
  <2>1. Shows(p, Rec(kind, h, op[p].req, "done", r))
    BY <1>1 DEF PhaseOf, ResultOf
  <2> HIDE DEF h, kind, phase
  <2> QED
    BY <1>1, <2>1, CallerDone
<1>5. at # "idle" /\ PhaseOf(at, kind) = phase => cmd' = cmd
  <2> SUFFICES ASSUME at # "idle", PhaseOf(at, kind) = phase PROVE cmd' = cmd
    OBVIOUS
  <2>1. Shows(p, Rec(kind, h, op[p].req, phase, "run"))
    BY <1>1 DEF ResultOf
  <2> HIDE DEF h, kind, phase
  <2> QED
    BY <1>1, <2>1, CallerSame
<1>6. v = Volume(p) => box' = box
  BY <1>1, <1>2, BoxSame
<1>7. Promise!Put(p, BoxOf(v))
  BY <1>1, <1>3 DEF Promise!Put
<1>8. at = "idle" => r \in {"ok"} \cup Promise!Failure
  BY DEF Allowed, Promise!Failure
<1>9. v = Volume(p) /\ at = "idle" /\ r # "ok" => Promise!GiveUp(p)
  BY <1>3, <1>4, <1>6, <1>8 DEF Promise!GiveUp, Promise!Running
<1>k. kind \in {"create", "delete", "stats"}
  BY RunningKinds
<1> HIDE DEF h, kind, phase
<1>10. CASE kind = "stats"
  <2>1. v = Volume(p) /\ phase = "run" /\ (at # "idle" => PhaseOf(at, kind) = "run")
    BY <1>10 DEF Allowed, PhaseOf, kind, phase
  <2>2. CASE at = "idle" /\ r = "ok"
    <3>1. BoxOf(Volume(p)).state # "none"
      BY <1>2, <1>10, <2>1, <2>2, BoxFacts DEF Allowed, kind
    <3>2. Promise!Report(p)
      BY <1>1, <1>3, <1>4, <1>6, <1>10, <2>1, <2>2, <3>1 DEF Promise!Report, Promise!Phase
    <3> QED
      BY <3>2 DEF Promise!Next
  <2>3. CASE at # "idle"
    BY <1>5, <1>6, <2>1, <2>3
  <2> QED
    BY <1>9, <2>1, <2>2, <2>3 DEF Promise!Next
<1>11. CASE kind = "delete"
  <2>1. phase = "run" /\ (at # "idle" => PhaseOf(at, kind) = "run")
    BY <1>11 DEF PhaseOf, phase
  <2>2. BoxOf(v) \in {Promise!Nothing, Promise!Remains, BoxOf(Volume(p))}
    <3>1. CASE v.prepared /\ v.meta \in Nat
      <4>1. /\ v.dir = Volume(p).dir /\ v.quota = Volume(p).quota
            /\ Volume(p).prepared /\ v.meta = Volume(p).meta
        BY <1>11, <3>1, VolumeSentinels DEF Allowed, kind, Absent
      <4> QED
        BY <3>1, <4>1 DEF BoxOf
    <3>2. CASE ~(v.prepared /\ v.meta \in Nat)
      BY <1>2, <3>2, BoxFacts
    <3> QED
      BY <3>1, <3>2
  <2>3. BoxOf(Volume(p)) = Promise!Nothing => BoxOf(v) = Promise!Nothing
    <3>1. ~Volume(p).dir => ~v.dir
      BY <1>11 DEF Allowed, kind, Absent
    <3> QED
      BY <1>2, <3>1, BoxFacts
  <2>4. at = "idle" /\ r = "ok" => BoxOf(v) = Promise!Nothing
    <3>1. at = "idle" /\ r = "ok" => ~v.dir
      BY <1>11 DEF Allowed, StageAt, kind, Absent
    <3> QED
      BY <1>2, <3>1, BoxFacts
  <2>5. \/ cmd' = cmd
        \/ \E s \in Promise!Failure : Promise!Done(p, s)
        \/ BoxOf(v) = Promise!Nothing /\ Promise!Done(p, "ok")
    BY <1>4, <1>5, <1>8, <2>1, <2>4
  <2>6. Promise!Dismantle(p)
    BY <1>1, <1>3, <1>7, <1>11, <2>1, <2>2, <2>3, <2>5 DEF Promise!Dismantle, Promise!Phase
  <2> QED
    BY <2>6 DEF Promise!Next
<1>12. CASE kind = "create" /\ pc[p] = "exists"
  <2>1. v = Volume(p) /\ phase = "run" /\ (at = "lock" \/ (at = "idle" /\ r # "ok"))
    BY <1>12 DEF Allowed, PhaseOf, kind, phase
  <2>2. CASE at = "lock"
    <3>1. Shows(p, Rec(kind, h, op[p].req, "build", "run"))
      BY <1>1, <1>12, <2>2 DEF PhaseOf, ResultOf
    <3>2. cmd' = [cmd EXCEPT ![p].phase = "build"]
      BY <1>1, <3>1, CallerBuild
    <3>3. box[h] = Promise!Nothing
      <4>1. v = Absent
        BY <2>2 DEF Allowed, StageAt
      <4>2. ~v.dir
        BY <4>1 DEF Absent
      <4> QED
        BY <1>1, <1>2, <2>1, <4>2, BoxFacts
    <3>4. Promise!Admissible(op[p].req)
      <4>1. op[p].req \in Requests /\ ~Refused(op[p].req)
        BY <1>12, Knows DEF KindAt, CreateLabels
      <4>2. op[p].req.limit \in Int /\ op[p].req.size \in Nat
        BY <4>1, RequestType
      <4> QED
        BY <4>1, <4>2 DEF Promise!Admissible, Promise!ImageShare, Refused, Charged, TooSmall, VolumeQuota
    <3>5. Promise!Claim(p)
      BY <1>3, <1>6, <1>12, <2>1, <3>2, <3>3, <3>4 DEF Promise!Claim, Promise!Phase
    <3> QED
      BY <3>5 DEF Promise!Next
  <2> QED
    BY <1>9, <2>1, <2>2 DEF Promise!Next
<1>13. CASE kind = "create" /\ pc[p] # "exists"
  <2>1. phase = "build" /\ (at # "idle" => PhaseOf(at, kind) = "build")
    BY <1>13 DEF Allowed, PhaseOf, phase
  <2>2. CASE at = "idle" /\ r = "ok"
    <3>1. v = Built(TRUE, TRUE, Promise!PromisedQuota(op[p].req), op[p].req.size)
      BY <1>13, <2>2 DEF Allowed, StageAt, kind
    <3>2. op[p].req.size \in Nat
      <4>1. op[p] \in Commands
        BY Knows
      <4> QED
        BY <4>1, RequestType DEF Commands
    <3>3. BoxOf(v) = Promise!Box("made", Promise!PromisedQuota(op[p].req), op[p].req.size)
      BY <3>1, <3>2 DEF BoxOf, Built, Promise!Box
    <3>4. Promise!Succeed(p)
      BY <1>3, <1>4, <1>7, <1>13, <2>1, <2>2, <3>3 DEF Promise!Succeed, Promise!Phase
    <3> QED
      BY <3>4 DEF Promise!Next
  <2>3. CASE ~(at = "idle" /\ r = "ok")
    <3>1. v.meta \notin Nat
      <4>1. CASE at = "idle"
        BY <1>13, <2>3, <4>1 DEF Allowed, kind
      <4>2. CASE at # "idle"
        <5>1. v.meta \in {NoFile, Torn}
          BY <1>13, <1>a, <4>2 DEF Allowed, KindAt, StageAt, kind, Labels, CreateLabels, CreateLayerLabels,
                             DestroyLayerLabels, StatsLabels, Built, Absent
        <5> QED
          BY <5>1, VolumeSentinels
      <4> QED
        BY <4>1, <4>2
    <3>2. BoxOf(v) \in {Promise!Nothing, Promise!Remains}
      BY <1>2, <3>1, BoxFacts
    <3>3. Promise!Build(p)
      BY <1>3, <1>4, <1>5, <1>7, <1>8, <1>13, <2>1, <2>3, <3>2 DEF Promise!Build, Promise!Phase
    <3> QED
      BY <3>3 DEF Promise!Next
  <2> QED
    BY <2>2, <2>3
<1> QED
  BY <1>k, <1>10, <1>11, <1>12, <1>13

\* A command that begins is one that BundleSpec lets begin.
LEMMA BeginRefines ==
    ASSUME Serial, BundleInv, NEW p \in Procs, NEW at, NEW new, Fresh(at, new), Begin(p, at, new)
    PROVE  Promise!Next
<1> DEFINE c == CmdOf(at, new)
           forgotten == {q \in Procs \ {p} : Replaces(new, q)}
<1>1. c = Rec(new.kind, new.handle, new.req, PhaseOf(at, new.kind), ResultOf(at, new.result))
  BY CmdRec
<1>2. /\ c.kind = new.kind /\ c.handle = new.handle
      /\ c.phase = PhaseOf(at, new.kind) /\ c.result = ResultOf(at, new.result)
  BY <1>1 DEF Rec
<1>3. c \in Promise!Commands
  <2>1. NoCommand.req = NoRequest
    BY DEF NoCommand, CmdOf, NoOp
  <2>2. /\ new.kind \in {"create", "delete", "stats"} /\ new.handle \in Handles
        /\ new.req \in Requests \cup {NoCommand.req}
        /\ PhaseOf(at, new.kind) \in {"run", "done"}
        /\ ResultOf(at, new.result) \in {"run", "error"}
    BY <2>1 DEF Fresh, Commands, PhaseOf, ResultOf
  <2> HIDE DEF c
  <2> QED
    BY <1>1, <2>2 DEF Rec, Promise!Commands
<1>4. c.phase = "done" => c.result = "error"
  BY <1>2 DEF Fresh, PhaseOf, ResultOf
<1>5. ASSUME NEW q \in Procs
      PROVE  /\ Promise!Running(q) <=> pc[q] # "idle"
             /\ cmd[q].handle = op[q].handle /\ cmd[q].kind = op[q].kind
  BY DEF Promise!Running, cmd, CmdOf
<1>6. ~Promise!Running(p) /\ (c.kind # "stats" => Promise!Alone(c.handle))
  <2>1. pc[p] = "idle" /\ (new.kind # "stats" => Alone(new.handle))
    BY DEF Begin
  <2> HIDE DEF c
  <2> QED
    BY <1>2, <1>5, <2>1 DEF Promise!Alone, Alone
<1>7. forgotten \in SUBSET {q \in Procs \ {p} : ~Promise!Running(q)}
  BY <1>5 DEF Replaces
<1>8. cmd' = [q \in Procs |-> IF q = p THEN c ELSE IF q \in forgotten THEN NoCommand ELSE cmd[q]]
  <2>1. pc \in [Procs -> Labels]
    BY SameType DEF BundleInv, TypeParts, ControlOK
  <2>2. CmdOf(pc'[p], op'[p]) = c
    BY <2>1 DEF Begin, Goto
  <2>3. ASSUME NEW q \in Procs \ {p}
        PROVE  CmdOf(pc'[q], op'[q]) = IF q \in forgotten THEN NoCommand ELSE cmd[q]
    <3>1. pc'[q] = pc[q] /\ op'[q] = IF Replaces(new, q) THEN NoOp ELSE op[q]
      BY <2>1 DEF Begin, Goto
    <3>2. cmd[q] = CmdOf(pc[q], op[q])
      BY DEF cmd
    <3> QED
      BY <3>1, <3>2 DEF NoCommand, Replaces
  <2>4. cmd' = [q \in Procs |-> CmdOf(pc'[q], op'[q])]
    BY DEF cmd, CmdOf
  <2> HIDE DEF c, forgotten
  <2> QED
    BY <2>2, <2>3, <2>4
<1>9. box' = box
  BY DEF Begin, box, BoxOf
<1> HIDE DEF c, forgotten
<1>10. Promise!Begin(p, c)
  BY <1>4, <1>6, <1>7, <1>8, <1>9 DEF Promise!Begin
<1> QED
  BY <1>3, <1>10 DEF Promise!Next

\* The initial state is one of BundleSpec.
LEMMA InitRefines == Init => Promise!Init
<1> SUFFICES ASSUME Init PROVE Promise!Init
  OBVIOUS
<1>1. BoxOf(Absent) = Promise!Nothing
  BY DEF BoxOf, Absent, Promise!Nothing, Promise!Box
<1>2. BoxOf(OldVolume) = Promise!Remains
  BY VolumeSentinels DEF BoxOf, OldVolume, Promise!Remains, Promise!Box
<1>3. box \in [Handles -> {Promise!Nothing, Promise!Remains}]
  BY <1>1, <1>2 DEF box, Init
<1>4. cmd = [p \in Procs |-> NoCommand]
  BY DEF cmd, Init, NoCommand
<1> QED
  BY <1>3, <1>4 DEF Promise!Init

\* groot keeps its promise: for all serial callers, whatever calls fail and whichever
\* processes die, create, delete and stats implement BundleSpec.  A create goes on
\* only where there was nothing, its finished volume appears in one step with its success,
\* and only a delete takes it away.
THEOREM PromiseKept ==
    ASSUME Serial
    PROVE  Spec => BundlePromise
<1>1. BundleInv /\ [Next]_vars => [Promise!Next]_(Promise!vars)
  <2> SUFFICES ASSUME BundleInv, [Next]_vars PROVE Promise!Next \/ UNCHANGED <<box, cmd>>
    BY DEF Promise!vars
  <2>1. TypeOK'
    BY NextType DEF BundleInv
  <2>2. ASSUME NEW p \in Procs, Step(p) \/ Crash(p)
        PROVE  Promise!Next \/ UNCHANGED <<box, cmd>>
    BY <2>1, <2>2, StepDoes, AllowedRefines DEF Does
  <2>3. ASSUME NEW p \in Procs, Command(p) PROVE Promise!Next
    BY <2>3, CommandFresh, BeginRefines
  <2>4. CASE Heal \/ UNCHANGED vars
    BY <2>4 DEF Heal, vars, box, cmd, BoxOf, CmdOf
  <2> QED
    BY <2>2, <2>3, <2>4 DEF Next
<1> QED
  BY <1>1, InitRefines, BundleAlways, PTL DEF Spec, BundlePromise, Promise!Spec
=============================================================================
