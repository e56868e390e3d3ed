------------------------------ MODULE BundleSpec ------------------------------
(***************************************************************************)
(* What groot promises its caller about the volumes of containers, when    *)
(* the caller runs one create or delete at a time per bundle ID: a create  *)
(* that succeeds turns nothing into a finished volume in one step, one     *)
(* that fails never touches a volume it did not begin, and only a delete   *)
(* takes a finished volume away.  VolumeStore implements it.               *)
(***************************************************************************)
EXTENDS Integers

CONSTANTS Procs, Handles, Requests, Overhead, NoQuota, NoSize, NoCommand

VARIABLES
    box,    \* box[h]: nothing, the remains of a command, or a finished volume
    cmd     \* cmd[p]: the command of p and how far it is; once done, its outcome

vars == <<box, cmd>>

Box(state, quota, size) == [state |-> state, quota |-> quota, size |-> size]
Nothing == Box("none", NoQuota, NoSize)
Remains == Box("rest", NoQuota, NoSize)

\* The limit a caller may ask for, and the quota it is promised for it: none for a
\* limit of zero, else what the image leaves of it, plus what an empty volume takes.
ImageShare(req) == IF req.exclude THEN 0 ELSE req.size
Admissible(req) == req.limit = 0 \/ req.limit > ImageShare(req)
PromisedQuota(req) == IF req.limit = 0 THEN NoQuota ELSE req.limit - ImageShare(req) + Overhead

Running(p) == cmd[p].phase # "done"
Alone(h) == \A q \in Procs : Running(q) /\ cmd[q].handle = h => cmd[q].kind = "stats"

\* A volume of an older groot counts as remains: it has no size on record.
Init ==
    /\ box \in [Handles -> {Nothing, Remains}]
    /\ cmd = [p \in Procs |-> NoCommand]

-----------------------------------------------------------------------------
\* A command begins, or is refused at once; outcomes of earlier ones may be forgotten.
Begin(p, new) ==
    /\ ~Running(p)
    /\ new.kind # "stats" => Alone(new.handle)
    /\ new.phase = "done" => new.result = "error"
    /\ \E forgotten \in SUBSET {q \in Procs \ {p} : ~Running(q)} :
           cmd' = [q \in Procs |-> IF q = p THEN new
                                   ELSE IF q \in forgotten THEN NoCommand ELSE cmd[q]]
    /\ UNCHANGED box

Put(p, b) == box' = [box EXCEPT ![cmd[p].handle] = b]
Phase(p, kind, phase) == cmd[p].kind = kind /\ cmd[p].phase = phase
Done(p, r) == cmd' = [cmd EXCEPT ![p].phase = "done", ![p].result = r]
Failure == {"error", "panic", "crash"}

\* A create may go on only where there is nothing.
Claim(p) ==
    /\ Phase(p, "create", "run")
    /\ Admissible(cmd[p].req)
    /\ box[cmd[p].handle] = Nothing
    /\ cmd' = [cmd EXCEPT ![p].phase = "build"]
    /\ UNCHANGED box

Build(p) ==
    /\ Phase(p, "create", "build")
    /\ \E b \in {Nothing, Remains} : Put(p, b)
    /\ UNCHANGED cmd \/ \E r \in Failure : Done(p, r)

Succeed(p) ==
    /\ Phase(p, "create", "build")
    /\ Put(p, Box("made", PromisedQuota(cmd[p].req), cmd[p].req.size))
    /\ Done(p, "ok")

Dismantle(p) ==
    /\ Phase(p, "delete", "run")
    /\ \E b \in {Nothing, Remains, box[cmd[p].handle]} :
           /\ box[cmd[p].handle] = Nothing => b = Nothing
           /\ Put(p, b)
           /\ \/ UNCHANGED cmd
              \/ \E r \in Failure : Done(p, r)
              \/ b = Nothing /\ Done(p, "ok")

\* Stats succeed only on something.
Report(p) ==
    /\ Phase(p, "stats", "run")
    /\ box[cmd[p].handle].state # "none"
    /\ Done(p, "ok")
    /\ UNCHANGED box

GiveUp(p) ==
    /\ Running(p)
    /\ \E r \in Failure : Done(p, r)
    /\ UNCHANGED box

Commands ==
    [kind : {"create", "delete", "stats"}, handle : Handles, req : Requests \cup {NoCommand.req},
     phase : {"run", "done"}, result : {"run", "error"}]

Next == \E p \in Procs :
    \/ Claim(p) \/ Build(p) \/ Succeed(p) \/ Dismantle(p) \/ Report(p) \/ GiveUp(p)
    \/ \E new \in Commands : Begin(p, new)

Spec == Init /\ [][Next]_vars
=============================================================================
