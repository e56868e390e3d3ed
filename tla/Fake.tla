--------------------------------- MODULE Fake ---------------------------------
(***************************************************************************)
(* The test doubles that counterfeiter generated for the interfaces of     *)
(* Driver and of hcs.Client (driver/fakes, hcs/fakes).  All have one shape:*)
(* per method a RWMutex, the arguments of every call and the programmed    *)
(* results; over all methods the invocations map under a RWMutex of its    *)
(* own.  A test may inspect a double while goroutines of the code under    *)
(* test call it.                                                           *)
(*                                                                         *)
(* Abstractions                                                            *)
(*  - The arguments of a call are the goroutine that makes it.             *)
(*  - A result is programmed or not; stubs do not call the double.  A test *)
(*    programs a method in one step, which needs that method's mutex only. *)
(*  - A goroutine holds the mutexes that its pc says it holds.             *)
(***************************************************************************)
EXTENDS Naturals, SequencesExt

CONSTANTS
    Goroutines,
    MaxCalls,     \* calls a double gets
    MaxSetups     \* times a double is programmed

ASSUME FakeAssumption == MaxCalls \in Nat /\ MaxSetups \in Nat

VARIABLES
    double,     \* the double: its methods, in the order Invocations locks them
    args,       \* args[m]: the arguments of the calls of method m
    log,        \* log[m]: the invocations map
    set,        \* set[m]: what method m is programmed to return: a stub's result, a
                \* default, results for the calls with certain numbers
    setups,     \* times the double was programmed
    pc,
    op          \* op[g]: the locals of g's call

vars == <<double, args, log, set, setups, pc, op>>

-----------------------------------------------------------------------------
(* The doubles. *)

Limiter == <<"GetQuotaUsed", "SetQuota">>
PrivilegeElevator == <<"DisableProcessPrivileges", "EnableProcessPrivileges">>
TarStreamer == <<"FileInfoFromHeader", "Next", "SetReader", "WriteBackupStreamFromTarFile">>
HCSClient == <<"CreateLayer", "DestroyLayer", "GetLayerMountPath", "LayerExists", "NewLayerWriter">>
LayerWriter == <<"Add", "AddLink", "Close", "Remove", "Write">>

Doubles == {Limiter, PrivilegeElevator, TarStreamer, HCSClient, LayerWriter}

Methods == DOMAIN double
HasResults(m) == double[m] # "SetReader"
NoResult == [stub |-> FALSE, returns |-> FALSE, onCall |-> {}]
NoCall == [m |-> 0, n |-> 0, specific |-> FALSE, stub |-> FALSE, returns |-> FALSE]

Init ==
    /\ double \in Doubles
    /\ args = [m \in Methods |-> <<>>]
    /\ log = [m \in Methods |-> <<>>]
    /\ set = [m \in Methods |-> NoResult] /\ setups = 0
    /\ pc = [g \in Goroutines |-> "idle"]
    /\ op = [g \in Goroutines |-> NoCall]

-----------------------------------------------------------------------------
(* Who holds the mutex of method m, to write or, in Invocations, to read. *)

Writing(m) == {g \in Goroutines : pc[g] \in {"append", "record"} /\ op[g].m = m}
Waiting(m) == {g \in Goroutines : pc[g] = "enter" /\ op[g].m = m}
Collecting == {g \in Goroutines : pc[g] = "collect"}
Reading(m) == {g \in Collecting : op[g].m >= m}

\* Mutant: a call takes the mutex to read.
CanLock_Shared(m) == Reading(m) = {}

CanLock(m) == Writing(m) \cup Reading(m) = {}

\* A writer that waits for the readers keeps new ones out.
CanRLock(m) == Writing(m) = {} /\ (Waiting(m) = {} \/ Reading(m) = {})

Goto(g, at) == pc' = [pc EXCEPT ![g] = at]

-----------------------------------------------------------------------------
(***************************************************************************)
(* A call of method m: under m's mutex, look up the result for a call with *)
(* this number, append the arguments, read stub and default, and record    *)
(* the invocation under its own mutex; then return.                        *)
(***************************************************************************)
Pending == {g \in Goroutines : pc[g] \in {"enter", "append"}}

Begin(g, m) ==
    /\ pc[g] = "idle"
    /\ FoldSeq(LAMBDA s, n : Len(s) + n, 0, args) + Cardinality(Pending) < MaxCalls
    /\ op' = [op EXCEPT ![g] = [NoCall EXCEPT !.m = m]]
    /\ Goto(g, "enter")
    /\ UNCHANGED <<double, args, log, set, setups>>

Enter(g) ==
    LET m == op[g].m IN
    /\ pc[g] = "enter"
    /\ CanLock(m)
    /\ op' = [op EXCEPT ![g].n = Len(args[m]), ![g].specific = Len(args[m]) \in set[m].onCall]
    /\ Goto(g, "append")
    /\ UNCHANGED <<double, args, log, set, setups>>

AppendArgs(g) ==
    LET m == op[g].m IN
    /\ pc[g] = "append"
    /\ args' = [args EXCEPT ![m] = Append(@, g)]
    /\ op' = [op EXCEPT ![g].stub = set[m].stub, ![g].returns = set[m].returns]
    /\ Goto(g, "record")
    /\ UNCHANGED <<double, log, set, setups>>

\* Mutant: recordInvocation locks the method again.
CanRecord_Relock(g) == Collecting = {} /\ CanLock(op[g].m)

CanRecord(g) == Collecting = {}

RecordInvocation(g) ==
    /\ pc[g] = "record"
    /\ CanRecord(g)
    /\ log' = [log EXCEPT ![op[g].m] = Append(@, g)]
    /\ Goto(g, "return")
    /\ UNCHANGED <<double, args, set, setups, op>>

\* The result of the stub, that programmed for this call's number, or the default.
Return(g) ==
    /\ pc[g] = "return"
    /\ op' = [op EXCEPT ![g] = NoCall]
    /\ Goto(g, "idle")
    /\ UNCHANGED <<double, args, log, set, setups>>

-----------------------------------------------------------------------------
(* What a test calls.  Returns and ReturnsOnCall remove a stub. *)

Program(g, m, s) ==
    /\ pc[g] = "idle" /\ CanLock(m)
    /\ setups < MaxSetups /\ setups' = setups + 1
    /\ set' = [set EXCEPT ![m] = s]
    /\ UNCHANGED <<double, args, log, pc, op>>

Calls(g, m) == Program(g, m, [set[m] EXCEPT !.stub = TRUE])

Returns(g, m) ==
    HasResults(m) /\ Program(g, m, [set[m] EXCEPT !.stub = FALSE, !.returns = TRUE])

ReturnsOnCall(g, m, i) ==
    HasResults(m) /\ Program(g, m, [set[m] EXCEPT !.stub = FALSE, !.onCall = @ \cup {i}])

\* CallCount and ArgsForCall see args[m] at a moment when this holds.
Inspectable(m) == Writing(m) = {}

(***************************************************************************)
(* Invocations: read-lock the invocations, then one method after another,  *)
(* and copy the map once all are held.                                     *)
(***************************************************************************)
Invocations(g) ==
    /\ pc[g] = "idle"
    /\ Goto(g, "collect")
    /\ op' = [op EXCEPT ![g] = NoCall]
    /\ UNCHANGED <<double, args, log, set, setups>>

\* Mutant: only the invocations are locked.
Collected_AtOnce(g) == TRUE

Collected(g) == op[g].m = Len(double)

LockNext(g) ==
    /\ pc[g] = "collect" /\ ~Collected(g)
    /\ CanRLock(op[g].m + 1)
    /\ op' = [op EXCEPT ![g].m = @ + 1]
    /\ UNCHANGED <<double, args, log, set, setups, pc>>

CopyInvocations(g) ==
    /\ pc[g] = "collect" /\ Collected(g)
    /\ op' = [op EXCEPT ![g] = NoCall]
    /\ Goto(g, "idle")
    /\ UNCHANGED <<double, args, log, set, setups>>

Step(g) ==
    \/ Enter(g) \/ AppendArgs(g) \/ RecordInvocation(g) \/ Return(g)
    \/ LockNext(g) \/ CopyInvocations(g)

Next == \E g \in Goroutines :
    \/ Step(g) \/ Invocations(g)
    \/ \E m \in Methods :
          \/ Begin(g, m) \/ Calls(g, m) \/ Returns(g, m)
          \/ \E i \in 0..(MaxCalls - 1) : ReturnsOnCall(g, m, i)

\* A goroutine that waits for a RWMutex gets it if it becomes free again and again.
Spec == Init /\ [][Next]_vars /\ \A g \in Goroutines : SF_vars(Step(g))
-----------------------------------------------------------------------------
(* Properties. *)

\* The result programmed for call number n goes to the caller whose arguments
\* ArgsForCall(n) returns, also when several goroutines call the method at once, and a
\* call takes stub, default and result by number as they stand at one moment, although a
\* test programs the method meanwhile: all is read in one hold of the mutex.
ResultsFollowArgs ==
    \A g \in Goroutines :
        LET m == op[g].m IN
        /\ pc[g] \in {"record", "return"} => args[m][op[g].n + 1] = g
        /\ pc[g] = "record" => /\ op[g].stub = set[m].stub /\ op[g].returns = set[m].returns
                               /\ op[g].specific <=> op[g].n \in set[m].onCall

\* A double does not contradict itself: a call that CallCount and ArgsForCall show is in
\* the invocations already, and Invocations copies the map at a moment when it has
\* exactly the calls of every method, although it takes the mutexes one by one.
RecordsAgree ==
    /\ \A m \in Methods : Inspectable(m) => log[m] = args[m]
    /\ \A g \in Collecting : Collected(g) => log = args

\* Invocations waits for a call that waits for Invocations.
Inverted ==
    \E g \in Collecting : ~Collected(g) /\ \E h \in Writing(op[g].m + 1) : pc[h] = "record"

\* Calls of a double, and of Invocations, return, unless an Invocations meets a call half
\* way: the two take the mutexes in opposite orders.  Nothing else makes a call hang.
CallsReturn == \A g \in Goroutines : pc[g] # "idle" ~> (pc[g] = "idle" \/ Inverted)
=============================================================================
