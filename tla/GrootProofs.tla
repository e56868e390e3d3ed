------------------------------ MODULE GrootProofs -----------------------------
(***************************************************************************)
(* Theorems about Groot: a command uses the layer store and the volume     *)
(* store as LayerStore and VolumeStore assume, so that what is proved of   *)
(* them holds of commands, and what they promise fits together.            *)
(***************************************************************************)
EXTENDS Groot, TLAPS

\* The two halves with their lemmas.
LP == INSTANCE PullProofs WITH pc <- lpc, op <- lop
VP == INSTANCE VolumeStoreProofs WITH pc <- vpc, op <- vop

\* LP has the actions of L, and VP those of V.
LEMMA SameLayers ==
    /\ L!Init <=> LP!Init
    /\ L!Next <=> LP!Next
    /\ L!Heal <=> LP!Heal
    /\ \A p : (L!Step(p) <=> LP!Step(p)) /\ (L!Crash(p) <=> LP!Crash(p))
    /\ \A p, i : L!Start(p, i) <=> LP!Start(p, i)
    /\ \A i : L!ImageSize(i) = LP!ImageSize(i)
<1> USE DEF L!vars, LP!vars, L!Absent, LP!Absent, L!Whole, LP!Whole, L!OldLayer, LP!OldLayer, L!Fresh,
       LP!Fresh, L!NoWriter, LP!NoWriter, L!Layer, LP!Layer, L!Parents, LP!Parents,
       L!IsBase, LP!IsBase, L!Entry, LP!Entry, L!Faulty, LP!Faulty, L!Init, LP!Init,
       L!Goto, LP!Goto, L!Return, LP!Return, L!DiskCall, LP!DiskCall, L!Finish, LP!Finish,
       L!Start, LP!Start, L!LayerExists, LP!LayerExists, L!PrivilegesRefused,
       LP!PrivilegesRefused, L!EnableProcessPrivileges, LP!EnableProcessPrivileges,
       L!SizeMissing, LP!SizeMissing, L!SizeUnreadable, LP!SizeUnreadable, L!ReadSize,
       LP!ReadSize, L!Attempts, LP!Attempts, L!SizeFileOpen, LP!SizeFileOpen, L!HeldFiles,
       LP!HeldFiles, L!Removable, LP!Removable, L!PartlyRemoved, LP!PartlyRemoved,
       L!DestroyLayer, LP!DestroyLayer, L!MkdirAll, LP!MkdirAll, L!ParentsPresent,
       LP!ParentsPresent, L!RootsPresent, LP!RootsPresent, L!NewLayerWriter,
       LP!NewLayerWriter, L!Current, LP!Current, L!Accepted, LP!Accepted, L!Put, LP!Put,
       L!EntrySize, LP!EntrySize, L!Advance, LP!Advance, L!FirstHeader, LP!FirstHeader,
       L!WriteEntry, LP!WriteEntry, L!EntryRefused, LP!EntryRefused, L!EntryFails,
       LP!EntryFails, L!StreamBroken, LP!StreamBroken, L!StreamFails, LP!StreamFails,
       L!ContentFails, LP!ContentFails, L!CreateSizeFile, LP!CreateSizeFile,
       L!WriteSizeFile, LP!WriteSizeFile, L!CloseBase, LP!CloseBase, L!CloseStaged,
       LP!CloseStaged, L!CloseWriter, LP!CloseWriter, L!NextLayer, LP!NextLayer,
       L!AfterUnpack, LP!AfterUnpack, L!DisableProcessPrivileges,
       LP!DisableProcessPrivileges, L!Crash, LP!Crash, L!Heal, LP!Heal, L!Step, LP!Step,
       L!Next, LP!Next, L!EntrySizes, LP!EntrySizes, L!LayerSize,
       LP!LayerSize, L!LayerSizes, LP!LayerSizes, L!ImageSize, LP!ImageSize, L!SumTo,
       LP!SumTo
<1>1. L!Next <=> LP!Next
  OBVIOUS
<1>2. (L!Init <=> LP!Init) /\ (L!Heal <=> LP!Heal)
  OBVIOUS
<1>3. ASSUME NEW p PROVE L!Step(p) <=> LP!Step(p)
  OBVIOUS
<1>4. ASSUME NEW p PROVE L!Crash(p) <=> LP!Crash(p)
  OBVIOUS
<1>5. ASSUME NEW p, NEW i PROVE L!Start(p, i) <=> LP!Start(p, i)
  OBVIOUS
<1>6. ASSUME NEW i PROVE L!ImageSize(i) = LP!ImageSize(i)
  OBVIOUS
<1> HIDE DEF L!Next, LP!Next, L!Init, LP!Init, L!Heal, LP!Heal, L!Step, LP!Step, L!Crash, LP!Crash,
       L!Start, LP!Start, L!ImageSize, LP!ImageSize
<1> QED
  BY <1>1, <1>2, <1>3, <1>4, <1>5, <1>6

LEMMA SameVolumes ==
    /\ V!Init <=> VP!Init
    /\ V!Next <=> VP!Next
    /\ \A p : (V!Step(p) <=> VP!Step(p)) /\ (V!Crash(p) <=> VP!Crash(p))
    /\ \A p, h : (V!Delete(p, h) <=> VP!Delete(p, h)) /\ (V!Stats(p, h) <=> VP!Stats(p, h))
    /\ \A p, h, r : V!Pulled(p, h, r) <=> VP!Pulled(p, h, r)
<1> USE DEF V!vars, VP!vars, V!Absent, VP!Absent, V!OldVolume, VP!OldVolume, V!NoRequest, VP!NoRequest, V!NoOp, VP!NoOp,
       V!Faulty, VP!Faulty, V!Volume, VP!Volume, V!Init, VP!Init, V!Goto, VP!Goto, V!Fail,
       VP!Fail, V!Exit, VP!Exit, V!Alone, VP!Alone, V!Replaces, VP!Replaces, V!Begin,
       VP!Begin, V!SetVolume, VP!SetVolume, V!VolumeCall, VP!VolumeCall, V!Query,
       VP!Query, V!TooSmall, VP!TooSmall, V!Charged, VP!Charged, V!VolumeQuota,
       VP!VolumeQuota, V!Refused, VP!Refused, V!NewCreate, VP!NewCreate, V!Pulled,
       VP!Pulled, V!Create, VP!Create, V!Taken, VP!Taken, V!BundleExists, VP!BundleExists,
       V!CanLock, VP!CanLock, V!LockCreate, VP!LockCreate, V!CreateLayerFails,
       VP!CreateLayerFails, V!CreateSandboxLayer, VP!CreateSandboxLayer, V!ActivateLayer,
       VP!ActivateLayer, V!PrepareLayer, VP!PrepareLayer, V!UnlockCreate, VP!UnlockCreate,
       V!GetLayerMountPath, VP!GetLayerMountPath, V!SetQuota, VP!SetQuota,
       V!CreateMetadata, VP!CreateMetadata, V!FillMetadata, VP!FillMetadata,
       V!UnprepareLayer, VP!UnprepareLayer, V!Deactivated, VP!Deactivated,
       V!DeactivateLayer, VP!DeactivateLayer, V!MetadataOpen, VP!MetadataOpen,
       V!Removable, VP!Removable, V!GiveUp, VP!GiveUp, V!Attempts, VP!Attempts,
       V!DestroyLayer, VP!DestroyLayer, V!Delete, VP!Delete, V!DeleteExists,
       VP!DeleteExists, V!Stats, VP!Stats, V!StatsMountPath, VP!StatsMountPath,
       V!GetQuotaUsed, VP!GetQuotaUsed, V!OpenMetadata, VP!OpenMetadata, V!StatsMetadata,
       VP!StatsMetadata, V!Crash, VP!Crash, V!Heal, VP!Heal, V!Command, VP!Command,
       V!Step, VP!Step, V!Next, VP!Next
<1>1. V!Next <=> VP!Next
  OBVIOUS
<1>2. V!Init <=> VP!Init
  OBVIOUS
<1>3. ASSUME NEW p PROVE V!Step(p) <=> VP!Step(p)
  OBVIOUS
<1>4. ASSUME NEW p PROVE V!Crash(p) <=> VP!Crash(p)
  OBVIOUS
<1>5. ASSUME NEW p, NEW h PROVE (V!Delete(p, h) <=> VP!Delete(p, h)) /\ (V!Stats(p, h) <=> VP!Stats(p, h))
  OBVIOUS
<1>6. ASSUME NEW p, NEW h, NEW r PROVE V!Pulled(p, h, r) <=> VP!Pulled(p, h, r)
  OBVIOUS
<1> HIDE DEF V!Next, VP!Next, V!Init, VP!Init, V!Step, VP!Step, V!Crash, VP!Crash,
       V!Delete, VP!Delete, V!Stats, VP!Stats, V!Pulled, VP!Pulled
<1> QED
  BY <1>1, <1>2, <1>3, <1>4, <1>5, <1>6

LEMMA SameSpecs == (L!Spec <=> LP!Spec) /\ (V!Spec <=> VP!Spec)
<1>1. [L!Next]_(L!vars) <=> [LP!Next]_(LP!vars)
  BY SameLayers DEF L!vars, LP!vars
<1>2. [V!Next]_(V!vars) <=> [VP!Next]_(VP!vars)
  BY SameVolumes DEF V!vars, VP!vars
<1> QED
  BY <1>1, <1>2, SameLayers, SameVolumes, PTL DEF L!Spec, LP!Spec, V!Spec, VP!Spec

-----------------------------------------------------------------------------
(***************************************************************************)
(* What a command does to the layers is a pull.                            *)
(***************************************************************************)
LEMMA LayersInit == Init => LP!Init
BY SameLayers DEF Init

\* Nothing in the volume store ends the faults.
LEMMA VolumesKeepEnv ==
    /\ \A p : V!Step(p) \/ V!Crash(p) => env' = env
    /\ \A p, h : V!Delete(p, h) \/ V!Stats(p, h) => env' = env
    /\ \A p, h, r : V!Pulled(p, h, r) => env' = env
<1>1. ASSUME NEW p, V!Step(p) \/ V!Crash(p) PROVE env' = env
  BY <1>1 DEF V!Step, V!Crash, V!VolumeCall, V!Query, V!BundleExists, V!LockCreate,
       V!CreateSandboxLayer, V!ActivateLayer, V!PrepareLayer, V!UnlockCreate, V!GetLayerMountPath,
       V!SetQuota, V!CreateMetadata, V!FillMetadata, V!UnprepareLayer, V!DeactivateLayer,
       V!DestroyLayer, V!DeleteExists, V!StatsMountPath, V!GetQuotaUsed, V!OpenMetadata,
       V!StatsMetadata
<1>2. ASSUME NEW p, NEW h, V!Delete(p, h) \/ V!Stats(p, h) PROVE env' = env
  BY <1>2 DEF V!Delete, V!Stats, V!Begin
<1>3. ASSUME NEW p, NEW h, NEW r, V!Pulled(p, h, r) PROVE env' = env
  BY <1>3 DEF V!Pulled, V!Begin
<1> QED
  BY <1>1, <1>2, <1>3

\* And nothing in the layer store but Heal does.
LEMMA LayersKeepEnv ==
    /\ \A p : L!Step(p) \/ L!Crash(p) => env' = env
    /\ \A p, i : L!Start(p, i) => env' = env
<1>1. ASSUME NEW p, L!Step(p) \/ L!Crash(p) PROVE env' = env
  BY <1>1 DEF L!Step, L!Crash, L!DiskCall, L!LayerExists, L!EnableProcessPrivileges, L!ReadSize,
       L!DestroyLayer, L!MkdirAll, L!NewLayerWriter, L!FirstHeader, L!WriteEntry, L!EntryFails,
       L!StreamFails, L!ContentFails, L!CreateSizeFile, L!WriteSizeFile, L!CloseWriter, L!CloseBase,
       L!CloseStaged, L!DisableProcessPrivileges
<1>2. ASSUME NEW p, NEW i, L!Start(p, i) PROVE env' = env
  BY <1>2 DEF L!Start
<1> QED
  BY <1>1, <1>2

LEMMA ImagesOfJobs ==
    ASSUME NEW new \in Creates \cup Pulls
    PROVE  new.img \in Images /\ new.kind \in {"create", "pull"} /\ new.stage = "pull"
<1>1. CASE new \in Creates
  BY <1>1 DEF Creates
<1>2. CASE new \in Pulls
  <2>1. PICK i \in Images : new = [NoJob EXCEPT !.kind = "pull", !.stage = "pull", !.img = i]
    BY <1>2 DEF Pulls
  <2> QED
    BY <2>1 DEF NoJob
<1> QED
  BY <1>1, <1>2

LEMMA LayersNext == [Next]_vars => [LP!Next]_(LP!vars)
<1> SUFFICES ASSUME Next PROVE LP!Next \/ UNCHANGED LP!vars
  BY DEF vars, layers, LP!vars
<1>1. ASSUME NEW p \in Procs, AfterPull(p) PROVE UNCHANGED LP!vars
  BY <1>1, VolumesKeepEnv DEF AfterPull, Bundle, layers, LP!vars
<1>2. ASSUME NEW p \in Procs, LayerStep(p) PROVE LP!Next
  BY <1>2, SameLayers DEF LayerStep, LP!Next
<1>3. ASSUME NEW p \in Procs, VolumeStep(p) PROVE UNCHANGED LP!vars
  BY <1>3, VolumesKeepEnv DEF VolumeStep, layers, LP!vars
<1>4. ASSUME NEW p \in Procs, Crash(p) PROVE LP!Next \/ UNCHANGED LP!vars
  BY <1>4, VolumesKeepEnv, SameLayers DEF Crash, layers, LP!vars, LP!Next
<1>5. ASSUME NEW p \in Procs, NEW f \in Flags, Other(p, f) PROVE UNCHANGED LP!vars
  BY <1>5, VolumesKeepEnv DEF Other, Refuse, layers, LP!vars
<1>6. ASSUME NEW p \in Procs, NEW f \in Flags, NEW new \in Creates \cup Pulls, Pull(p, new, f)
      PROVE  LP!Next \/ UNCHANGED LP!vars
  BY <1>6, SameLayers, ImagesOfJobs DEF Pull, Refuse, layers, LP!vars, LP!Next
<1>7. ASSUME Heal PROVE LP!Next
  BY <1>7, SameLayers DEF Heal, LP!Next
<1> QED
  BY <1>1, <1>2, <1>3, <1>4, <1>5, <1>6, <1>7 DEF Next, Run

\* Whatever commands do to the layers, LayerStore allows.
LEMMA LayersFollow == Spec => LP!Spec
BY LayersInit, LayersNext, PTL DEF Spec, LP!Spec

LEMMA LayerFacts == Spec => [](LP!TypeOK /\ LP!ImageSizeExact)
<1>1. LP!Spec => []LP!TypeOK
  BY LP!TypeCorrect, LayersAssumption, SharedAssumption DEF L!Kinds, LP!Kinds
<1>2. LP!Spec => []LP!ImageSizeExact
  BY LP!SizesAreExact, LayersAssumption, SharedAssumption DEF L!Kinds, LP!Kinds
<1> QED
  BY <1>1, <1>2, LayersFollow, PTL

-----------------------------------------------------------------------------
(***************************************************************************)
(* A command knows what it pulls and bundles: while it pulls, its pull is  *)
(* of its image and its half of the volume store rests; from then on its   *)
(* pull rests, and the create it asked for is of its handle, with its      *)
(* limit and the exact size of its image.                                  *)
(***************************************************************************)
Jobs == [kind : {"none", "create", "pull"}, stage : {"pull", "done"},
         handle : Handles \cup {"none"}, img : Images \cup {<<>>}, limit : Int, exclude : BOOLEAN]

ToSandbox == {"exists", "lock", "sandbox"}

JobAt(j, lp, lo, vp, vo) ==
    /\ j.stage = "pull" => /\ j.kind = "create" => j \in Creates
                           /\ j.img \in Images /\ lo.img = j.img
                           /\ vp = "idle"
    /\ j.stage = "done" => lp = "idle"
    /\ j.stage = "done" /\ j.kind = "create" =>
           /\ j.img \in Images
           /\ vo.kind = "create" => /\ vo.handle = j.handle
                                    /\ vo.req = Request(j, LP!ImageSize(j.img))
    /\ vp \in ToSandbox => j.kind = "create"

JobInv ==
    /\ job \in [Procs -> Jobs]
    /\ \A p \in Procs : JobAt(job[p], lpc[p], lop[p], vpc[p], vop[p])

LEMMA NoJobType == NoJob \in Jobs
BY DEF NoJob, Jobs

LEMMA NewJobType ==
    ASSUME NEW new \in Creates \cup Pulls
    PROVE  new \in Jobs /\ (new.kind = "create" => new \in Creates)
<1>1. CASE new \in Creates
  <2>1. PICK h \in Handles, i \in Images, q \in Quotas :
            new = [kind |-> "create", stage |-> "pull", handle |-> h, img |-> i,
                   limit |-> q.limit, exclude |-> q.exclude]
    BY <1>1 DEF Creates
  <2>2. q.limit \in Int /\ q.exclude \in BOOLEAN
    BY VolumesAssumption
  <2> QED
    BY <1>1, <2>1, <2>2 DEF Jobs
<1>2. CASE new \in Pulls
  <2>1. PICK i \in Images : new = [NoJob EXCEPT !.kind = "pull", !.stage = "pull", !.img = i]
    BY <1>2 DEF Pulls
  <2>2. new = [kind |-> "pull", stage |-> "pull", handle |-> "none", img |-> i,
               limit |-> 0, exclude |-> FALSE]
    BY <2>1 DEF NoJob
  <2> QED
    BY <2>2 DEF Jobs
<1> QED
  BY <1>1, <1>2

LEMMA JobInit == Init => JobInv
<1> SUFFICES ASSUME Init PROVE JobInv
  OBVIOUS
<1>1. LP!Init /\ VP!Init
  BY SameLayers, SameVolumes DEF Init
<1>2. job = [p \in Procs |-> NoJob]
  BY DEF Init
<1>3. job \in [Procs -> Jobs]
  BY <1>2, NoJobType
<1>4. ASSUME NEW p \in Procs
      PROVE  JobAt(job[p], lpc[p], lop[p], vpc[p], vop[p])
  <2>1. lpc[p] = "idle" /\ vpc[p] = "idle" /\ job[p] = NoJob
    BY <1>1, <1>2, <1>4 DEF LP!Init, VP!Init
  <2> QED
    BY <2>1 DEF JobAt, ToSandbox, NoJob
<1> QED
  BY <1>3, <1>4 DEF JobInv

\* The request of a create after its pull is one of Requests.
LEMMA RequestOfCreate ==
    ASSUME NEW j \in Creates
    PROVE  Request(j, LP!ImageSize(j.img)) \in Requests /\ j.handle \in Handles
<1>1. PICK h \in Handles, i \in Images, q \in Quotas :
          j = [kind |-> "create", stage |-> "pull", handle |-> h, img |-> i,
               limit |-> q.limit, exclude |-> q.exclude]
  BY DEF Creates
<1>2. Request(j, LP!ImageSize(j.img)) = Request(q, LP!ImageSize(i))
  BY <1>1 DEF Request
<1> QED
  BY <1>1, <1>2, SameLayers DEF Requests

\* The pull of a create that goes on to Bundle has returned the size of its image.
LEMMA BundleAsked ==
    ASSUME LP!ImageSizeExact, JobInv, NEW p \in Procs,
           lpc[p] = "idle", job[p].stage = "pull", PullWorked(p), job[p].kind = "create"
    PROVE  /\ job[p] \in Creates
           /\ Request(job[p], PulledSize(p)) = Request(job[p], LP!ImageSize(job[p].img))
BY DEF JobInv, JobAt, PullWorked, PulledSize, LP!ImageSizeExact

LEMMA VolumesNext ==
    LP!ImageSizeExact /\ JobInv /\ [Next]_vars => [VP!Next]_(VP!vars)
<1> SUFFICES ASSUME LP!ImageSizeExact, JobInv, Next PROVE VP!Next \/ UNCHANGED VP!vars
  BY DEF vars, volumes, VP!vars
<1>1. ASSUME NEW p \in Procs, AfterPull(p) PROVE VP!Next \/ UNCHANGED VP!vars
  <2>1. CASE UNCHANGED <<volumes, env>>
    BY <2>1 DEF volumes, VP!vars
  <2>2. CASE PullWorked(p) /\ job[p].kind = "create" /\ Bundle(p)
    <3>1. job[p] \in Creates /\ Request(job[p], PulledSize(p)) = Request(job[p], LP!ImageSize(job[p].img))
      BY <1>1, <2>2, BundleAsked DEF AfterPull
    <3>2. job[p].handle \in Handles /\ Request(job[p], PulledSize(p)) \in Requests
      BY <3>1, RequestOfCreate
    <3>3. VP!Pulled(p, job[p].handle, Request(job[p], PulledSize(p)))
      BY <2>2, SameVolumes DEF Bundle
    <3> QED
      BY <3>2, <3>3 DEF VP!Next, VP!Command, VP!Create
  <2> QED
    BY <1>1, <2>1, <2>2 DEF AfterPull
<1>2. ASSUME NEW p \in Procs, LayerStep(p) PROVE UNCHANGED VP!vars
  <2>1. LP!Step(p)
    BY <1>2, SameLayers DEF LayerStep
  <2> QED
    BY <1>2, LayersKeepEnv DEF LayerStep, volumes, VP!vars
<1>3. ASSUME NEW p \in Procs, VolumeStep(p) PROVE VP!Next
  BY <1>3, SameVolumes DEF VolumeStep, VP!Next
<1>4. ASSUME NEW p \in Procs, Crash(p) PROVE VP!Next \/ UNCHANGED VP!vars
  BY <1>4, LayersKeepEnv, SameVolumes DEF Crash, volumes, VP!vars, VP!Next
<1>5. ASSUME NEW p \in Procs, NEW f \in Flags, Other(p, f) PROVE VP!Next \/ UNCHANGED VP!vars
  BY <1>5, SameVolumes DEF Other, Refuse, volumes, VP!vars, VP!Next, VP!Command
<1>6. ASSUME NEW p \in Procs, NEW f \in Flags, NEW new \in Creates \cup Pulls, Pull(p, new, f)
      PROVE  UNCHANGED VP!vars
  BY <1>6, LayersKeepEnv DEF Pull, Refuse, volumes, VP!vars
<1>7. ASSUME Heal PROVE VP!Next
  BY <1>7 DEF Heal, volumes, L!Heal, L!Faulty, VP!Next, VP!Heal, VP!Faulty
<1> QED
  BY <1>1, <1>2, <1>3, <1>4, <1>5, <1>6, <1>7 DEF Next, Run

-----------------------------------------------------------------------------
\* What VolumeStore assumes of its requests.
LEMMA RequestsType == Requests \subseteq [limit : Int, exclude : BOOLEAN, size : Nat]
<1> SUFFICES ASSUME NEW r \in Requests PROVE r \in [limit : Int, exclude : BOOLEAN, size : Nat]
  OBVIOUS
<1>1. PICK q \in Quotas, i \in Images : r = Request(q, LP!ImageSize(i))
  BY SameLayers DEF Requests
<1>2. LP!ImageSize(i) \in Nat
  BY LP!ImageSizeType, LayersAssumption, SharedAssumption DEF L!Kinds, LP!Kinds
<1>3. q.limit \in Int /\ q.exclude \in BOOLEAN
  BY VolumesAssumption
<1> QED
  BY <1>1, <1>2, <1>3 DEF Request

\* What p does leaves the commands of the others alone, but for outcomes they forget.
LEMMA OthersKept ==
    ASSUME NEW j, NEW lp, NEW lo, NEW vp, NEW vo, JobAt(j, lp, lo, vp, vo), NEW o,
           \/ o.kind # "create"
           \/ o.kind = vo.kind /\ o.handle = vo.handle /\ o.req = vo.req
    PROVE  JobAt(j, lp, lo, vp, o)
BY DEF JobAt

\* A step of a pull, and its end by a crash.
LEMMA PullMoves ==
    ASSUME LP!TypeOK, NEW p \in Procs, LP!Step(p) \/ LP!Crash(p)
    PROVE  /\ lpc[p] # "idle"
           /\ lop'[p].img = lop[p].img
           /\ \A q \in Procs \ {p} : lpc'[q] = lpc[q] /\ lop'[q] = lop[q]
<1>1. CASE LP!Step(p)
  BY <1>1, LP!StepKeepsImage, LP!StepFrame, LP!StepsRun, LayersAssumption, SharedAssumption DEF L!Kinds, LP!Kinds
<1>2. CASE LP!Crash(p)
  BY <1>2 DEF LP!Crash, LP!Finish, LP!Goto, LP!Fresh, LP!TypeOK
<1> QED
  BY <1>1, <1>2

\* A command of the volume store begins.
LEMMA CommandBegins ==
    ASSUME VP!TypeOK, NEW p \in Procs, NEW at, NEW new, VP!Begin(p, at, new)
    PROVE  /\ vpc'[p] = at /\ vop'[p] = new
           /\ \A q \in Procs \ {p} : vpc'[q] = vpc[q] /\ (vop'[q] = vop[q] \/ vop'[q].kind = "none")
BY DEF VP!TypeOK, VP!Begin, VP!Goto, VP!NoOp

\* What a command of the volume store asks for, and where it begins.
LEMMA OtherBegins ==
    ASSUME NEW p \in Procs, NEW h \in Handles, VP!Delete(p, h) \/ VP!Stats(p, h)
    PROVE  \E at, new : VP!Begin(p, at, new) /\ at \notin ToSandbox
BY DEF VP!Delete, VP!Stats, ToSandbox

LEMMA CreateBegins ==
    ASSUME NEW p \in Procs, NEW h \in Handles, NEW r, VP!Pulled(p, h, r)
    PROVE  \E at, new : VP!Begin(p, at, new) /\ new.handle = h /\ new.req = r
<1>1. CASE VP!Refused(r)
  <2> DEFINE new == [VP!NewCreate(h, r) EXCEPT !.result = "error"]
  <2>1. VP!Begin(p, "idle", new)
    BY <1>1 DEF VP!Pulled
  <2>2. new.handle = h /\ new.req = r
    BY DEF VP!NewCreate, VP!NoOp
  <2> QED
    BY <2>1, <2>2
<1>2. CASE ~VP!Refused(r)
  <2> DEFINE new == [VP!NewCreate(h, r) EXCEPT !.quota = VP!VolumeQuota(r), !.result = "run"]
  <2>1. VP!Begin(p, "exists", new)
    BY <1>2 DEF VP!Pulled
  <2>2. new.handle = h /\ new.req = r
    BY DEF VP!NewCreate, VP!NoOp
  <2> QED
    BY <2>1, <2>2
<1> QED
  BY <1>1, <1>2

\* p has its new command and its half of a store its new state; nobody else is concerned.
LEMMA JobPart ==
    ASSUME JobInv, NEW p \in Procs, NEW j \in Jobs,
           job' = [job EXCEPT ![p] = j],
           \A q \in Procs \ {p} :
               /\ lpc'[q] = lpc[q] /\ lop'[q] = lop[q] /\ vpc'[q] = vpc[q]
               /\ vop'[q] = vop[q] \/ vop'[q].kind = "none",
           JobAt(j, lpc'[p], lop'[p], vpc'[p], vop'[p])
    PROVE  JobInv'
<1>1. job' \in [Procs -> Jobs] /\ job'[p] = j
  BY DEF JobInv
<1>2. ASSUME NEW q \in Procs PROVE JobAt(job'[q], lpc'[q], lop'[q], vpc'[q], vop'[q])
  <2>1. CASE q = p
    BY <1>1, <2>1
  <2>2. CASE q # p
    <3>1. job'[q] = job[q] /\ JobAt(job[q], lpc[q], lop[q], vpc[q], vop[q])
      BY <2>2 DEF JobInv
    <3>2. lpc'[q] = lpc[q] /\ lop'[q] = lop[q] /\ vpc'[q] = vpc[q]
      BY <2>2
    <3>3. vop'[q] = vop[q] \/ vop'[q].kind # "create"
      BY <2>2
    <3> QED
      BY <3>1, <3>2, <3>3, OthersKept
  <2> QED
    BY <2>1, <2>2
<1> QED
  BY <1>1, <1>2 DEF JobInv

\* NoJob says nothing but that nothing is under way.
LEMMA RestingJob ==
    ASSUME NEW vp, NEW lo, NEW vo, vp \notin ToSandbox
    PROVE  JobAt(NoJob, "idle", lo, vp, vo)
BY DEF JobAt, NoJob

\* One step per action; the locals of the other processes do not matter.
LEMMA JobNext ==
    LP!TypeOK /\ LP!ImageSizeExact /\ VP!TypeOK /\ JobInv /\ [Next]_vars => JobInv'
<1> SUFFICES ASSUME LP!TypeOK, LP!ImageSizeExact, VP!TypeOK, JobInv, [Next]_vars PROVE JobInv'
  OBVIOUS
<1>a. ASSUME NEW p \in Procs
      PROVE  job[p] \in Jobs /\ JobAt(job[p], lpc[p], lop[p], vpc[p], vop[p])
  BY <1>a DEF JobInv
<1>1. ASSUME NEW p \in Procs, AfterPull(p) PROVE JobInv'
  <2>1. vpc[p] = "idle" /\ lpc[p] = "idle" /\ UNCHANGED <<lpc, lop>>
    BY <1>1, <1>a DEF AfterPull, JobAt, layers
  <2>2. CASE job' = [job EXCEPT ![p] = NoJob] /\ UNCHANGED <<volumes, env>>
    <3>1. JobAt(NoJob, lpc'[p], lop'[p], vpc'[p], vop'[p])
      BY <2>1, <2>2, RestingJob DEF volumes, ToSandbox
    <3> QED
      BY <2>1, <2>2, <3>1, JobPart, NoJobType DEF volumes
  <2>3. CASE /\ PullWorked(p) /\ job[p].kind = "create" /\ Bundle(p)
             /\ job' = [job EXCEPT ![p].stage = "done"]
    <3> DEFINE j == [job[p] EXCEPT !.stage = "done"]
    <3>1. job[p] \in Creates /\ Request(job[p], PulledSize(p)) = Request(job[p], LP!ImageSize(job[p].img))
      BY <1>1, <2>3, BundleAsked DEF AfterPull
    <3>2. job[p].handle \in Handles
      BY <3>1, RequestOfCreate
    <3>3. VP!Pulled(p, job[p].handle, Request(job[p], LP!ImageSize(job[p].img)))
      BY <2>3, <3>1, SameVolumes DEF Bundle
    <3>4. PICK at, new : /\ VP!Begin(p, at, new)
                         /\ new.handle = job[p].handle
                         /\ new.req = Request(job[p], LP!ImageSize(job[p].img))
      BY <3>2, <3>3, CreateBegins
    <3>5. /\ vpc'[p] = at /\ vop'[p] = new
          /\ \A q \in Procs \ {p} : vpc'[q] = vpc[q] /\ (vop'[q] = vop[q] \/ vop'[q].kind = "none")
      BY <3>4, CommandBegins
    <3>6. /\ j \in Jobs /\ j.stage = "done" /\ j.kind = "create" /\ j.handle = job[p].handle
          /\ j.img = job[p].img /\ j.limit = job[p].limit /\ j.exclude = job[p].exclude
      BY <1>a, <2>3 DEF Jobs
    <3>7. Request(j, LP!ImageSize(j.img)) = Request(job[p], LP!ImageSize(job[p].img))
      BY <3>6 DEF Request
    <3>8. job[p].img \in Images
      BY <1>1, <1>a DEF AfterPull, JobAt
    <3>9. job' = [job EXCEPT ![p] = j]
      BY <2>3 DEF JobInv
    <3> HIDE DEF j
    <3>10. JobAt(j, lpc'[p], lop'[p], vpc'[p], vop'[p])
      BY <2>1, <3>4, <3>5, <3>6, <3>7, <3>8 DEF JobAt
    <3> QED
      BY <2>1, <3>5, <3>6, <3>9, <3>10, JobPart
  <2> QED
    BY <1>1, <2>2, <2>3 DEF AfterPull
<1>2. ASSUME NEW p \in Procs, LayerStep(p) PROVE JobInv'
  <2>1. LP!Step(p) /\ UNCHANGED <<volumes, job>>
    BY <1>2, SameLayers DEF LayerStep
  <2>2. /\ lpc[p] # "idle" /\ lop'[p].img = lop[p].img
        /\ \A q \in Procs \ {p} : lpc'[q] = lpc[q] /\ lop'[q] = lop[q]
    BY <2>1, PullMoves
  <2>3. job[p].stage # "done"
    BY <1>a, <2>2 DEF JobAt
  <2>4. JobAt(job[p], lpc'[p], lop'[p], vpc[p], vop[p])
    BY <1>a, <2>2, <2>3 DEF JobAt
  <2> QED
    BY <1>a, <2>1, <2>2, <2>4, JobPart DEF volumes, JobInv
<1>v. ASSUME NEW p \in Procs, VP!Step(p) \/ VP!Crash(p), UNCHANGED <<lpc, lop, job>>
      PROVE  JobInv'
  <2>1. VP!Step(p) \/ VP!Crash(p)
    BY <1>v
  <2>2. /\ vop'[p].kind = vop[p].kind /\ vop'[p].handle = vop[p].handle /\ vop'[p].req = vop[p].req
        /\ \A q \in Procs \ {p} : vpc'[q] = vpc[q] /\ vop'[q] = vop[q]
    BY <2>1, VP!StepKeepsRequest, RequestsType, VolumesAssumption, SharedAssumption
  <2>3. vpc[p] # "idle" /\ (vpc'[p] \in ToSandbox => vpc[p] \in ToSandbox)
    <3>1. CASE VP!Step(p)
      <4>1. /\ vpc[p] # "idle" /\ vpc'[p] # "exists"
            /\ vpc'[p] = "lock" => vpc[p] = "exists"
            /\ vpc'[p] = "sandbox" => vpc[p] = "lock"
        BY <3>1, VP!WayToSandbox, RequestsType, VolumesAssumption, SharedAssumption
      <4> QED
        BY <4>1 DEF ToSandbox
    <3>2. CASE VP!Crash(p)
      BY <3>2 DEF VP!Crash, VP!Exit, VP!Goto, VP!TypeOK, ToSandbox
    <3> QED
      BY <2>1, <3>1, <3>2
  <2>4. JobAt(job[p], lpc[p], lop[p], vpc'[p], vop'[p])
    BY <1>a, <2>2, <2>3 DEF JobAt
  <2> QED
    BY <1>a, <1>v, <2>2, <2>4, JobPart DEF JobInv
<1>3. ASSUME NEW p \in Procs, VolumeStep(p) PROVE JobInv'
  BY <1>3, <1>v, SameVolumes DEF VolumeStep, layers
<1>4. ASSUME NEW p \in Procs, Crash(p) PROVE JobInv'
  <2>1. CASE V!Crash(p) /\ UNCHANGED <<layers, job, parents>>
    BY <1>v, <2>1, SameVolumes DEF layers
  <2>2. CASE L!Crash(p) /\ job' = [job EXCEPT ![p] = NoJob] /\ UNCHANGED <<volumes, parents>>
    <3>1. LP!Crash(p)
      BY <2>2, SameLayers
    <3>2. /\ lpc[p] # "idle"
          /\ \A q \in Procs \ {p} : lpc'[q] = lpc[q] /\ lop'[q] = lop[q]
      BY <3>1, PullMoves
    <3>3. lpc'[p] = "idle"
      BY <3>1 DEF LP!Crash, LP!Finish, LP!Goto, LP!TypeOK
    <3>4. vpc[p] = "idle"
      BY <1>a, <3>2 DEF JobAt, Jobs
    <3>5. JobAt(NoJob, lpc'[p], lop'[p], vpc'[p], vop'[p])
      BY <2>2, <3>3, <3>4, RestingJob DEF volumes, ToSandbox
    <3> QED
      BY <2>2, <3>2, <3>5, JobPart, NoJobType DEF volumes
  <2> QED
    BY <1>4, <2>1, <2>2 DEF Crash
<1>r. ASSUME NEW p \in Procs, Idle(p), Refuse(p) PROVE JobInv'
  <2>1. JobAt(NoJob, lpc'[p], lop'[p], vpc'[p], vop'[p])
    BY <1>r, RestingJob DEF Idle, Refuse, layers, volumes, ToSandbox
  <2> QED
    BY <1>r, <2>1, JobPart, NoJobType DEF Refuse, layers, volumes
<1>5. ASSUME NEW p \in Procs, NEW f \in Flags, Other(p, f) PROVE JobInv'
  <2>1. CASE Refuse(p)
    BY <1>5, <1>r, <2>1 DEF Other
  <2>2. CASE /\ \E h \in Handles : V!Delete(p, h) \/ V!Stats(p, h)
             /\ job' = [job EXCEPT ![p] = NoJob] /\ UNCHANGED <<layers, parents>>
    <3>1. PICK h \in Handles : VP!Delete(p, h) \/ VP!Stats(p, h)
      BY <2>2, SameVolumes
    <3>2. PICK at, new : VP!Begin(p, at, new) /\ at \notin ToSandbox
      BY <3>1, OtherBegins
    <3>3. /\ vpc'[p] = at
          /\ \A q \in Procs \ {p} : vpc'[q] = vpc[q] /\ (vop'[q] = vop[q] \/ vop'[q].kind = "none")
      BY <3>2, CommandBegins
    <3>4. JobAt(NoJob, lpc'[p], lop'[p], vpc'[p], vop'[p])
      BY <1>5, <2>2, <3>2, <3>3, RestingJob DEF Other, Idle, layers
    <3> QED
      BY <2>2, <3>3, <3>4, JobPart, NoJobType DEF layers
  <2> QED
    BY <1>5, <2>1, <2>2 DEF Other
<1>6. ASSUME NEW p \in Procs, NEW f \in Flags, NEW new \in Creates \cup Pulls, Pull(p, new, f)
      PROVE  JobInv'
  <2>1. CASE Refuse(p)
    BY <1>6, <1>r, <2>1 DEF Pull
  <2>2. CASE L!Start(p, new.img) /\ job' = [job EXCEPT ![p] = new] /\ UNCHANGED <<volumes, parents>>
    <3>1. LP!Start(p, new.img)
      BY <2>2, SameLayers
    <3>2. /\ lop'[p].img = new.img
          /\ \A q \in Procs \ {p} : lpc'[q] = lpc[q] /\ lop'[q] = lop[q]
      BY <3>1 DEF LP!Start, LP!Goto, LP!Fresh, LP!TypeOK
    <3>3. vpc'[p] = "idle"
      BY <1>6, <2>2 DEF Pull, Idle, volumes
    <3>4. JobAt(new, lpc'[p], lop'[p], vpc'[p], vop'[p])
      BY <3>2, <3>3, ImagesOfJobs, NewJobType DEF JobAt, ToSandbox
    <3> QED
      BY <2>2, <3>2, <3>4, JobPart, NewJobType DEF volumes
  <2> QED
    BY <1>6, <2>1, <2>2 DEF Pull
<1>7. CASE Heal \/ UNCHANGED vars
  <2>1. UNCHANGED <<lpc, lop, vpc, vop, job>>
    BY <1>7 DEF Heal, L!Heal, vars, layers, volumes
  <2> QED
    BY <2>1 DEF JobInv
<1>8. ASSUME NEW p \in Procs, Run(p) PROVE JobInv'
  BY <1>1, <1>2, <1>3, <1>8 DEF Run
<1> QED
  BY <1>4, <1>5, <1>6, <1>7, <1>8 DEF Next

LEMMA VolumeTypes ==
    /\ VP!Init => VP!TypeOK
    /\ VP!TypeOK /\ [VP!Next]_(VP!vars) => VP!TypeOK'
BY VP!InitType, VP!NextType, RequestsType, VolumesAssumption, SharedAssumption

LEMMA JobsAlways == Spec => [](LP!ImageSizeExact /\ VP!TypeOK /\ JobInv)
<1>1. Init => VP!TypeOK /\ JobInv
  BY VolumeTypes, SameVolumes, JobInit DEF Init
<1>2. /\ LP!TypeOK /\ LP!ImageSizeExact /\ VP!TypeOK /\ JobInv /\ [Next]_vars
      => VP!TypeOK' /\ JobInv'
  BY VolumeTypes, VolumesNext, JobNext
<1> QED
  BY <1>1, <1>2, LayerFacts, PTL DEF Spec

LEMMA VolumesFollow == Spec => VP!Spec
<1>1. Init => VP!Init
  BY SameVolumes DEF Init
<1> QED
  BY <1>1, VolumesNext, JobsAlways, PTL DEF Spec, VP!Spec

\* However many commands run, fail and die, and whatever their limits: they use the layer
\* store and the volume store only as LayerStore and VolumeStore allow, and Bundle is only
\* ever asked for with the exact size of an image.  What is proved of the halves is
\* therefore true of commands.
THEOREM HalvesKept == Spec => HalvesFollow
BY LayersFollow, VolumesFollow, SameSpecs DEF HalvesFollow

\* The caller of groot runs one create or delete at a time per bundle ID: then a create
\* that has succeeded has charged its container the bytes in the tars of its image's
\* layers, for all images and limits, and any number of processes that pull the same
\* layers meanwhile, fail and die.
THEOREM ChargedExactly ==
    ASSUME Serial
    PROVE  Spec => []CreatedExactly
<1>1. VP!Spec => []VP!BundleUsable
  BY VP!CreatedIsUsable, RequestsType, VolumesAssumption, SharedAssumption
<1>2. VP!BundleUsable /\ JobInv => CreatedExactly
  <2> SUFFICES ASSUME VP!BundleUsable, JobInv, NEW p \in Procs, Created(p)
               PROVE  LET req == Request(job[p], L!ImageSize(job[p].img))
                      IN  vol[job[p].handle] =
                              [dir |-> TRUE, active |-> TRUE, prepared |-> TRUE,
                               quota |-> V!Promise!PromisedQuota(req), meta |-> req.size]
    BY DEF CreatedExactly
  <2>1. VP!Ended(p, "create", "ok") /\ job[p].kind = "create" /\ job[p].stage = "done"
    BY DEF Created, V!Ended, VP!Ended
  <2>2. vol[vop[p].handle] = [dir |-> TRUE, active |-> TRUE, prepared |-> TRUE,
                              quota |-> VP!Promise!PromisedQuota(vop[p].req), meta |-> vop[p].req.size]
    BY <2>1 DEF VP!BundleUsable
  <2>3. vop[p].handle = job[p].handle /\ vop[p].req = Request(job[p], L!ImageSize(job[p].img))
    BY <2>1, SameLayers DEF JobInv, JobAt, VP!Ended
  <2>4. \A r : VP!Promise!PromisedQuota(r) = V!Promise!PromisedQuota(r)
    BY DEF VP!Promise!PromisedQuota, V!Promise!PromisedQuota, VP!Promise!ImageShare, V!Promise!ImageShare
  <2> QED
    BY <2>2, <2>3, <2>4
<1> QED
  BY <1>1, <1>2, VolumesFollow, JobsAlways, PTL

\* The promises of the halves hold of commands: to its caller groot behaves as BundleSpec
\* says, if the caller runs one create or delete at a time per bundle ID, and its pulls
\* keep to the claim protocol of LayerClaims.
THEOREM CommandsKeepPromises ==
    ASSUME Serial
    PROVE  Spec => VP!BundlePromise /\ LP!LayersClaimed
<1>1. VP!Spec => VP!BundlePromise
  BY VP!PromiseKept, RequestsType, VolumesAssumption, SharedAssumption
<1>2. LP!Spec => LP!LayersClaimed
  BY LP!ClaimsKept, LayersAssumption, SharedAssumption DEF L!Kinds, LP!Kinds
<1> QED
  BY <1>1, <1>2, LayersFollow, VolumesFollow

-----------------------------------------------------------------------------
(***************************************************************************)
(* The layers under a volume, and those of a create on its way to making   *)
(* one, have a size file and nobody who is about to write them.            *)
(***************************************************************************)
LayersOf(i) == {i[k] : k \in 1..Len(i)}

SettledLayers == {l \in Layers : LP!Settled(l)}

Bundling(p) == job[p].stage = "done" /\ job[p].kind = "create"

ParentsInv ==
    /\ \A h \in Handles : vol[h].dir => LayersOf(parents[h]) \subseteq SettledLayers
    /\ \A p \in Procs : Bundling(p) => LayersOf(job[p].img) \subseteq SettledLayers

LayersInv == LP!TypeOK /\ LP!SizeFileInv /\ LP!PulledSized

\* Settled layers stay so, and stay as they are.
LEMMA StaySettled ==
    ASSUME LayersInv, [Next]_vars
    PROVE  SettledLayers \subseteq SettledLayers' /\ \A l \in SettledLayers : disk'[l] = disk[l]
<1>1. [LP!Next]_(LP!vars)
  BY LayersNext
<1>2. ASSUME NEW l \in Layers, LP!Settled(l) PROVE LP!Settled(l)' /\ disk'[l] = disk[l]
  BY <1>1, <1>2, LP!SettledNext, LayersAssumption, SharedAssumption DEF LayersInv, L!Kinds, LP!Kinds
<1> QED
  BY <1>2 DEF SettledLayers

\* When the pull of the only process has succeeded, all layers of its image are settled.
LEMMA PulledSettled ==
    ASSUME LP!OneProcess, LayersInv, JobInv, NEW p \in Procs, AfterPull(p), PullWorked(p)
    PROVE  LayersOf(job[p].img) \subseteq SettledLayers
<1>1. lpc[p] = "idle" /\ lop[p].img = job[p].img /\ job[p].img \in Images
  BY DEF AfterPull, JobInv, JobAt
<1>2. \A k \in 1..Len(job[p].img) : job[p].img[k] \in Layers
  BY <1>1, LayersAssumption
<1>3. \A k \in 1..Len(job[p].img) : disk[job[p].img[k]].size \in Nat
  BY <1>1 DEF LayersInv, LP!PulledSized, LP!Sized, PullWorked
<1>4. \A l : \A q \in Procs : ~LP!Rebuilding(q, l)
  BY <1>1 DEF LP!OneProcess, LP!Rebuilding
<1> QED
  BY <1>2, <1>3, <1>4, SharedAssumption DEF LayersOf, SettledLayers, LP!Settled

LEMMA ParentsInit == Init => ParentsInv
<1> SUFFICES ASSUME Init PROVE ParentsInv
  OBVIOUS
<1>1. \A p \in Procs : job[p] = NoJob
  BY DEF Init
<1>2. \A h \in Handles : LayersOf(parents[h]) = {}
  BY DEF Init, LayersOf
<1> QED
  BY <1>1, <1>2 DEF ParentsInv, Bundling, NoJob

\* Only steps of Bundle and of Delete change volumes.
LEMMA VolumesKept ==
    ASSUME NEW p \in Procs
    PROVE  /\ V!Crash(p) => vol' = vol
           /\ \A h : V!Delete(p, h) \/ V!Stats(p, h) => vol' = vol
           /\ \A h, r : V!Pulled(p, h, r) => vol' = vol
BY DEF V!Crash, V!Delete, V!Stats, V!Pulled, V!Begin

\* A volume comes from the only create that is bundling.
LEMMA ParentsOfStep ==
    ASSUME VP!TypeOK, JobInv, ParentsInv, NEW p \in Procs, VolumeStep(p), NEW h \in Handles, vol'[h].dir
    PROVE  LayersOf(parents'[h]) \subseteq SettledLayers
<1>1. CASE vol[h].dir
  BY <1>1 DEF VolumeStep, ParentsInv
<1>2. CASE ~vol[h].dir
  <2>1. VP!Step(p)
    BY SameVolumes DEF VolumeStep
  <2>2. vpc[p] = "sandbox"
    BY <1>2, <2>1, VP!WayToSandbox, RequestsType, VolumesAssumption, SharedAssumption
  <2>3. Bundling(p)
    BY <2>2 DEF JobInv, JobAt, Jobs, ToSandbox, Bundling
  <2>4. parents'[h] = job[p].img
    BY <1>2 DEF VolumeStep
  <2> QED
    BY <2>3, <2>4 DEF ParentsInv
<1> QED
  BY <1>1, <1>2

LEMMA ParentsNext ==
    ASSUME LP!OneProcess
    PROVE  LayersInv /\ VP!TypeOK /\ JobInv /\ ParentsInv /\ [Next]_vars => ParentsInv'
<1> SUFFICES ASSUME LayersInv, VP!TypeOK, JobInv, ParentsInv, [Next]_vars PROVE ParentsInv'
  OBVIOUS
<1>s. SettledLayers \subseteq SettledLayers'
  BY StaySettled
<1>k. ASSUME UNCHANGED <<vol, parents>>
      PROVE  \A h \in Handles : vol'[h].dir => LayersOf(parents'[h]) \subseteq SettledLayers'
  BY <1>k, <1>s DEF ParentsInv
<1>j. ASSUME NEW p \in Procs, \/ UNCHANGED job
                              \/ job' = [job EXCEPT ![p] = NoJob]
                              \/ \E new \in Creates \cup Pulls : job' = [job EXCEPT ![p] = new]
      PROVE  \A q \in Procs : Bundling(q)' => LayersOf(job'[q].img) \subseteq SettledLayers'
  <2> SUFFICES ASSUME NEW q \in Procs, Bundling(q)' PROVE LayersOf(job'[q].img) \subseteq SettledLayers'
    OBVIOUS
  <2>1. job'[q] = job[q]
    BY <1>j, ImagesOfJobs DEF Bundling, JobInv, NoJob
  <2> QED
    BY <1>s, <2>1 DEF ParentsInv, Bundling
<1>1. ASSUME NEW p \in Procs, AfterPull(p) PROVE ParentsInv'
  <2>1. UNCHANGED <<vol, parents>>
    BY <1>1, VolumesKept DEF AfterPull, Bundle, volumes
  <2>2. CASE job' = [job EXCEPT ![p] = NoJob]
    BY <1>k, <1>j, <2>1, <2>2 DEF ParentsInv
  <2>3. CASE PullWorked(p) /\ job' = [job EXCEPT ![p].stage = "done"]
    <3>1. LayersOf(job[p].img) \subseteq SettledLayers
      BY <1>1, <2>3, PulledSettled
    <3>2. ASSUME NEW q \in Procs, Bundling(q)' PROVE LayersOf(job'[q].img) \subseteq SettledLayers'
      <4>1. CASE q = p
        <5>1. job'[p].img = job[p].img
          BY <2>3 DEF JobInv, Jobs
        <5> QED
          BY <1>s, <3>1, <4>1, <5>1
      <4>2. CASE q # p
        <5>1. job'[q] = job[q]
          BY <2>3, <4>2 DEF JobInv
        <5> QED
          BY <1>s, <3>2, <5>1 DEF ParentsInv, Bundling
      <4> QED
        BY <4>1, <4>2
    <3> QED
      BY <1>k, <2>1, <3>2 DEF ParentsInv
  <2> QED
    BY <1>1, <2>2, <2>3 DEF AfterPull
<1>2. ASSUME NEW p \in Procs, LayerStep(p) PROVE ParentsInv'
  BY <1>2, <1>k, <1>j DEF LayerStep, volumes, ParentsInv
<1>3. ASSUME NEW p \in Procs, VolumeStep(p) PROVE ParentsInv'
  <2>1. \A h \in Handles : vol'[h].dir => LayersOf(parents'[h]) \subseteq SettledLayers'
    BY <1>3, <1>s, ParentsOfStep
  <2> QED
    BY <1>3, <1>j, <2>1 DEF VolumeStep, ParentsInv
<1>4. ASSUME NEW p \in Procs, Crash(p) PROVE ParentsInv'
  <2>1. UNCHANGED <<vol, parents>> /\ (UNCHANGED job \/ job' = [job EXCEPT ![p] = NoJob])
    BY <1>4, VolumesKept DEF Crash, volumes
  <2> QED
    BY <2>1, <1>k, <1>j DEF ParentsInv
<1>5. ASSUME NEW p \in Procs, NEW f \in Flags, Other(p, f) PROVE ParentsInv'
  <2>1. UNCHANGED <<vol, parents>> /\ job' = [job EXCEPT ![p] = NoJob]
    BY <1>5, VolumesKept DEF Other, Refuse, volumes
  <2> QED
    BY <2>1, <1>k, <1>j DEF ParentsInv
<1>6. ASSUME NEW p \in Procs, NEW f \in Flags, NEW new \in Creates \cup Pulls, Pull(p, new, f)
      PROVE  ParentsInv'
  <2>1. /\ UNCHANGED <<vol, parents>>
        /\ job' = [job EXCEPT ![p] = NoJob] \/ job' = [job EXCEPT ![p] = new]
    BY <1>6 DEF Pull, Refuse, volumes
  <2> QED
    BY <2>1, <1>k, <1>j DEF ParentsInv
<1>7. CASE Heal \/ UNCHANGED vars
  <2>1. UNCHANGED <<vol, parents, job>>
    BY <1>7 DEF Heal, vars, volumes
  <2> QED
    BY <2>1, <1>k, <1>s DEF ParentsInv, Bundling
<1>8. ASSUME NEW p \in Procs, Run(p) PROVE ParentsInv'
  BY <1>1, <1>2, <1>3, <1>8 DEF Run
<1> QED
  BY <1>4, <1>5, <1>6, <1>7, <1>8 DEF Next

\* For one process at a time: the layers under a volume are never touched while it is
\* there, because a create only reaches CreateSandboxLayer after a pull that left a size
\* file in every layer, and a layer with a size file is final.
THEOREM ParentsStay ==
    ASSUME LP!OneProcess
    PROVE  Spec => ParentsImmutable
<1>1. LP!Spec => [](LP!TypeOK /\ LP!SizeFileInv /\ LP!PulledSized)
  <2>1. LP!Spec => []LP!TypeOK
    BY LP!TypeCorrect, LayersAssumption, SharedAssumption DEF L!Kinds, LP!Kinds
  <2>2. LP!Spec => []LP!SizeFileInv
    BY LP!SizeFileAlways, LayersAssumption, SharedAssumption DEF L!Kinds, LP!Kinds
  <2>3. LP!Spec => []LP!PulledSized
    BY LP!PulledInvariant, LayersAssumption, SharedAssumption DEF L!Kinds, LP!Kinds
  <2> QED
    BY <2>1, <2>2, <2>3, PTL
<1>2. Spec => []LayersInv
  BY <1>1, LayersFollow, PTL DEF LayersInv
<1>3. Spec => []ParentsInv
  BY <1>2, ParentsInit, ParentsNext, JobsAlways, PTL DEF Spec
<1>4. LayersInv /\ ParentsInv /\ [Next]_vars
      => [\A h \in Handles : vol[h].dir =>
             \A k \in 1..Len(parents[h]) : disk'[parents[h][k]] = disk[parents[h][k]]]_vars
  <2> SUFFICES ASSUME LayersInv, ParentsInv, [Next]_vars, NEW h \in Handles, vol[h].dir,
                      NEW k \in 1..Len(parents[h])
               PROVE  disk'[parents[h][k]] = disk[parents[h][k]]
    OBVIOUS
  <2>1. parents[h][k] \in SettledLayers
    BY DEF ParentsInv, LayersOf
  <2> QED
    BY <2>1, StaySettled
<1> QED
  BY <1>2, <1>3, <1>4, PTL DEF Spec, ParentsImmutable
=============================================================================
