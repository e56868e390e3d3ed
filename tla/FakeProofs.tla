------------------------------ MODULE FakeProofs ------------------------------
(***************************************************************************)
(* Proofs about the test doubles (Fake): for any number of goroutines,     *)
(* calls and setups, a call's result follows its number and the records of *)
(* a double agree.                                                         *)
(*                                                                         *)
(* Both rest on the inductive invariant FakeInv: who the mutexes keep out, *)
(* that what a call has read under its method's mutex still stands while it*)
(* holds it, and that the invocations lag behind the arguments by the one  *)
(* call that has appended its arguments and not yet recorded itself.       *)
(***************************************************************************)
EXTENDS Fake, TLAPS

-----------------------------------------------------------------------------
(* The inductive invariant. *)

Labels == {"idle", "enter", "append", "record", "return", "collect"}
Settings == [stub : BOOLEAN, returns : BOOLEAN, onCall : SUBSET Nat]
Locals == [m : Nat, n : Nat, specific : BOOLEAN, stub : BOOLEAN, returns : BOOLEAN]

\* Where g is in the double: in a method, or at a number of methods it has locked.
AtMethod(g) ==
    /\ pc[g] \in {"enter", "append", "record", "return"} => op[g].m \in Methods
    /\ pc[g] = "collect" => op[g].m <= Len(double)

FakeTypeOK ==
    /\ double \in Doubles
    /\ args \in [Methods -> Seq(Goroutines)]
    /\ log \in [Methods -> Seq(Goroutines)]
    /\ set \in [Methods -> Settings]
    /\ pc \in [Goroutines -> Labels]
    /\ op \in [Goroutines -> Locals]
    /\ \A g \in Goroutines : AtMethod(g)

InMethod(g, m) == pc[g] \in {"append", "record"} /\ op[g].m = m
HasRead(g, m) == pc[g] = "collect" /\ op[g].m >= m

\* A goroutine in a method keeps other callers and Invocations out.
MutexInv ==
    \A g, h \in Goroutines : \A m \in Methods :
        InMethod(g, m) => ~HasRead(h, m) /\ (InMethod(h, m) => g = h)

\* The programmed result that a call looked up is the one for its number.
CallInv(g) ==
    LET m == op[g].m IN
    /\ pc[g] = "append" => op[g].n = Len(args[m])
    /\ pc[g] \in {"append", "record"} => (op[g].specific <=> op[g].n \in set[m].onCall)
    /\ pc[g] = "record" => op[g].stub = set[m].stub /\ op[g].returns = set[m].returns
    /\ pc[g] \in {"record", "return"} => op[g].n < Len(args[m]) /\ args[m][op[g].n + 1] = g

AtRecord(g, m) == pc[g] = "record" /\ op[g].m = m

\* The invocations of m lack the call that is about to be recorded, and no other.
LogInv(m) ==
    /\ \A g \in Goroutines : AtRecord(g, m) => args[m] = Append(log[m], g)
    /\ (\A g \in Goroutines : ~AtRecord(g, m)) => log[m] = args[m]

FakeInv ==
    /\ FakeTypeOK
    /\ MutexInv
    /\ \A g \in Goroutines : CallInv(g)
    /\ \A m \in Methods : LogInv(m)

-----------------------------------------------------------------------------
(* What holds initially, and what every step keeps. *)

\* The methods of a double are numbered.
LEMMA MethodNumbers == double \in Doubles => Methods = 1..Len(double) /\ Len(double) \in Nat
BY DEF Doubles, Limiter, PrivilegeElevator, TarStreamer, HCSClient, LayerWriter, Methods

LEMMA InitInv == Init => FakeInv
<1> SUFFICES ASSUME Init PROVE FakeInv
  OBVIOUS
<1>1. Methods = 1..Len(double) /\ Len(double) \in Nat
  BY MethodNumbers DEF Init
<1>2. FakeTypeOK
  BY <1>1 DEF Init, FakeTypeOK, AtMethod, NoCall, NoResult, Locals, Settings, Labels
<1>3. MutexInv
  BY DEF Init, MutexInv, InMethod
<1>4. \A g \in Goroutines : CallInv(g)
  BY DEF Init, CallInv
<1>5. \A m \in Methods : LogInv(m)
  BY DEF Init, LogInv, AtRecord
<1> QED
  BY <1>2, <1>3, <1>4, <1>5 DEF FakeInv

\* Only the locals of g and where it is change.
Moves(g, at, o) ==
    /\ pc' = [pc EXCEPT ![g] = at]
    /\ op' = [op EXCEPT ![g] = o]

LEMMA MovesType ==
    ASSUME FakeTypeOK, NEW g \in Goroutines, NEW at \in Labels, NEW o \in Locals,
           Moves(g, at, o), double' = double,
           at \in {"enter", "append", "record", "return"} => o.m \in Methods,
           at = "collect" => o.m <= Len(double)
    PROVE  /\ pc' \in [Goroutines -> Labels] /\ op' \in [Goroutines -> Locals]
           /\ pc'[g] = at /\ op'[g] = o
           /\ \A h \in Goroutines \ {g} : pc'[h] = pc[h] /\ op'[h] = op[h]
           /\ \A h \in Goroutines : AtMethod(h)'
<1>1. /\ pc' \in [Goroutines -> Labels] /\ op' \in [Goroutines -> Locals]
      /\ pc'[g] = at /\ op'[g] = o
      /\ \A h \in Goroutines \ {g} : pc'[h] = pc[h] /\ op'[h] = op[h]
  BY DEF FakeTypeOK, Moves
<1>2. Methods' = Methods
  BY DEF Methods
<1>3. \A h \in Goroutines : AtMethod(h)'
  BY <1>1, <1>2 DEF FakeTypeOK, AtMethod
<1> QED
  BY <1>1, <1>3

\* A step by which g does not come to hold a mutex.
LEMMA IdleStep ==
    ASSUME FakeInv, NEW g \in Goroutines, NEW at \in {"idle", "enter", "collect"},
           NEW o \in Locals, Moves(g, at, o),
           pc[g] # "record",
           at = "enter" => o.m \in Methods, at = "collect" => o.m = 0,
           UNCHANGED <<double, args, log, set>>
    PROVE  FakeInv'
<1>1. Methods = 1..Len(double) /\ Len(double) \in Nat /\ Methods' = Methods
  BY MethodNumbers DEF FakeInv, FakeTypeOK, Methods
<1>2. /\ pc'[g] = at /\ op'[g] = o
      /\ \A h \in Goroutines \ {g} : pc'[h] = pc[h] /\ op'[h] = op[h]
      /\ FakeTypeOK'
  BY <1>1, MovesType DEF FakeInv, FakeTypeOK, Labels
<1>3. MutexInv'
  BY <1>1, <1>2 DEF FakeInv, MutexInv, InMethod, HasRead
<1>4. \A h \in Goroutines : CallInv(h)'
  BY <1>2 DEF FakeInv, CallInv
<1>5. \A m \in Methods' : LogInv(m)'
  BY <1>1, <1>2 DEF FakeInv, LogInv, AtRecord
<1> QED
  BY <1>2, <1>3, <1>4, <1>5 DEF FakeInv

LEMMA IdleActions ==
    ASSUME FakeInv, NEW g \in Goroutines, NEW m \in Methods,
           Begin(g, m) \/ Return(g) \/ Invocations(g) \/ CopyInvocations(g)
    PROVE  FakeInv'
<1>1. m \in Nat
  BY MethodNumbers DEF FakeInv, FakeTypeOK
<1>2. NoCall \in Locals /\ NoCall.m = 0
  BY DEF NoCall, Locals
<1>3. [NoCall EXCEPT !.m = m] \in Locals /\ [NoCall EXCEPT !.m = m].m = m
  BY <1>1 DEF NoCall, Locals
<1>4. CASE Begin(g, m)
  <2>1. Moves(g, "enter", [NoCall EXCEPT !.m = m])
    BY <1>4 DEF Begin, Moves, Goto
  <2> QED
    BY <1>3, <1>4, <2>1, IdleStep DEF Begin
<1>5. CASE Return(g) \/ CopyInvocations(g)
  <2>1. Moves(g, "idle", NoCall)
    BY <1>5 DEF Return, CopyInvocations, Moves, Goto
  <2> QED
    BY <1>2, <1>5, <2>1, IdleStep DEF Return, CopyInvocations
<1>6. CASE Invocations(g)
  <2>1. Moves(g, "collect", NoCall)
    BY <1>6 DEF Invocations, Moves, Goto
  <2> QED
    BY <1>2, <1>6, <2>1, IdleStep DEF Invocations
<1> QED
  BY <1>4, <1>5, <1>6

\* Invocations takes the mutex of one more method, which nobody is in.
LEMMA LockNextStep ==
    ASSUME FakeInv, NEW g \in Goroutines, LockNext(g)
    PROVE  FakeInv'
<1> DEFINE o == [op[g] EXCEPT !.m = @ + 1]
<1>1. Methods = 1..Len(double) /\ Len(double) \in Nat /\ Methods' = Methods
  BY MethodNumbers DEF FakeInv, FakeTypeOK, Methods, LockNext
<1>2. op[g] \in Locals /\ op[g].m <= Len(double) /\ op[g].m # Len(double)
  BY DEF FakeInv, FakeTypeOK, AtMethod, LockNext, Collected
<1>3. o \in Locals /\ o.m = op[g].m + 1 /\ o.m \in Methods /\ o.m <= Len(double)
  BY <1>1, <1>2 DEF Locals
<1>4. Moves(g, "collect", o)
  BY DEF LockNext, Moves, FakeInv, FakeTypeOK
<1>5. \A h \in Goroutines : ~InMethod(h, op[g].m + 1)
  BY DEF LockNext, CanRLock, Writing, InMethod
<1> HIDE DEF o
<1>6. /\ pc'[g] = "collect" /\ op'[g] = o
      /\ \A h \in Goroutines \ {g} : pc'[h] = pc[h] /\ op'[h] = op[h]
      /\ FakeTypeOK'
  BY <1>1, <1>3, <1>4, MovesType DEF FakeInv, FakeTypeOK, Labels, LockNext
<1>7. pc[g] = "collect" /\ UNCHANGED <<double, args, log, set>>
  BY DEF LockNext
<1>8. \A h \in Goroutines, k \in Methods :
         /\ InMethod(h, k)' <=> InMethod(h, k)
         /\ HasRead(h, k)' => HasRead(h, k) \/ k = op[g].m + 1
  <2> TAKE h \in Goroutines, k \in Methods
  <2>1. CASE h = g
    <3>1. op[g].m \in Nat /\ k \in Nat
      BY <1>1, <1>2 DEF Locals
    <3> QED
      BY <1>3, <1>6, <1>7, <2>1, <3>1 DEF InMethod, HasRead
  <2>2. CASE h # g
    BY <1>6, <2>2 DEF InMethod, HasRead
  <2> QED
    BY <2>1, <2>2
<1>9. MutexInv'
  BY <1>1, <1>5, <1>8 DEF FakeInv, MutexInv
<1>10. \A h \in Goroutines : CallInv(h)'
  BY <1>6, <1>7 DEF FakeInv, CallInv
<1>11. \A m \in Methods' : LogInv(m)'
  BY <1>1, <1>6, <1>7 DEF FakeInv, LogInv, AtRecord
<1> QED
  BY <1>6, <1>9, <1>10, <1>11 DEF FakeInv

\* A call gets its method's mutex, which nobody holds, and a number.
LEMMA EnterStep ==
    ASSUME FakeInv, NEW g \in Goroutines, Enter(g)
    PROVE  FakeInv'
<1> DEFINE m == op[g].m
           b == Len(args[m]) \in set[m].onCall
           o == [op[g] EXCEPT !.n = Len(args[m]), !.specific = b]
<1>1. Methods = 1..Len(double) /\ Len(double) \in Nat /\ Methods' = Methods
  BY MethodNumbers DEF FakeInv, FakeTypeOK, Methods, Enter
<1>2. op[g] \in Locals /\ m \in Methods /\ Len(args[m]) \in Nat
  BY DEF FakeInv, FakeTypeOK, AtMethod, Enter
<1>3. o \in Locals /\ o.m = m /\ o.n = Len(args[m])
  <2>1. CASE b
    <3>1. b = TRUE
      BY <2>1
    <3> HIDE DEF b
    <3> QED
      BY <1>2, <3>1 DEF Locals
  <2>2. CASE ~b
    <3>1. b = FALSE
      BY <2>2
    <3> HIDE DEF b
    <3> QED
      BY <1>2, <3>1 DEF Locals
  <2> QED
    BY <2>1, <2>2
<1>11. o.specific <=> o.n \in set[m].onCall
  BY <1>2, <1>3, Zenon DEF Locals
<1>4. Moves(g, "append", o)
  BY DEF Enter, Moves, Goto, FakeInv, FakeTypeOK
<1>5. \A h \in Goroutines : ~InMethod(h, m) /\ ~HasRead(h, m)
  BY DEF Enter, CanLock, Writing, Reading, Collecting, InMethod, HasRead
<1>6. pc[g] = "enter" /\ UNCHANGED <<double, args, log, set>>
  BY DEF Enter
<1> HIDE DEF o
<1>7. /\ pc'[g] = "append" /\ op'[g] = o
      /\ \A h \in Goroutines \ {g} : pc'[h] = pc[h] /\ op'[h] = op[h]
      /\ FakeTypeOK'
  BY <1>1, <1>2, <1>3, <1>4, <1>6, MovesType DEF FakeInv, FakeTypeOK, Labels
<1>8. MutexInv'
  BY <1>1, <1>2, <1>3, <1>5, <1>6, <1>7 DEF FakeInv, MutexInv, InMethod, HasRead
<1>9. \A h \in Goroutines : CallInv(h)'
  BY <1>3, <1>6, <1>7, <1>11 DEF FakeInv, CallInv
<1>10. \A k \in Methods' : LogInv(k)'
  BY <1>1, <1>6, <1>7 DEF FakeInv, LogInv, AtRecord
<1> QED
  BY <1>7, <1>8, <1>9, <1>10 DEF FakeInv

\* The arguments get the number that the call has looked up the result for.
LEMMA AppendStep ==
    ASSUME FakeInv, NEW g \in Goroutines, AppendArgs(g)
    PROVE  FakeInv'
<1> DEFINE m == op[g].m
           o == [op[g] EXCEPT !.stub = set[m].stub, !.returns = set[m].returns]
<1>1. Methods = 1..Len(double) /\ Len(double) \in Nat /\ Methods' = Methods
  BY MethodNumbers DEF FakeInv, FakeTypeOK, Methods, AppendArgs
<1>2. /\ op[g] \in Locals /\ m \in Methods /\ set[m] \in Settings
      /\ args[m] \in Seq(Goroutines)
  BY DEF FakeInv, FakeTypeOK, AtMethod, AppendArgs
<1>3. /\ o \in Locals /\ o.m = m /\ o.n = op[g].n /\ o.specific = op[g].specific
      /\ o.stub = set[m].stub /\ o.returns = set[m].returns
  BY <1>2 DEF Locals, Settings
<1>4. Moves(g, "record", o)
  BY DEF AppendArgs, Moves, Goto, FakeInv, FakeTypeOK
<1>5. pc[g] = "append" /\ UNCHANGED <<double, log, set>>
  BY DEF AppendArgs
<1>6. /\ args' \in [Methods -> Seq(Goroutines)]
      /\ args'[m] = Append(args[m], g)
      /\ \A k \in Methods \ {m} : args'[k] = args[k]
  BY <1>2 DEF AppendArgs, FakeInv, FakeTypeOK
<1> HIDE DEF o
<1>7. /\ pc'[g] = "record" /\ op'[g] = o
      /\ \A h \in Goroutines \ {g} : pc'[h] = pc[h] /\ op'[h] = op[h]
      /\ FakeTypeOK'
  BY <1>1, <1>2, <1>3, <1>4, <1>5, <1>6, MovesType DEF FakeInv, FakeTypeOK, Labels
<1>8. MutexInv'
  BY <1>1, <1>2, <1>3, <1>5, <1>7 DEF FakeInv, MutexInv, InMethod, HasRead
<1>9. \A h \in Goroutines \ {g} : ~InMethod(h, m)
  BY <1>2, <1>5 DEF FakeInv, MutexInv, InMethod
<1>10. \A i \in 1..Len(args[m]) : args'[m][i] = args[m][i]
  BY <1>2, <1>6
<1>11. op[g].n = Len(args[m]) /\ (op[g].specific <=> op[g].n \in set[m].onCall)
  BY <1>5 DEF FakeInv, CallInv
<1>12. Len(args'[m]) = Len(args[m]) + 1 /\ args'[m][Len(args[m]) + 1] = g
  BY <1>2, <1>6
<1>13. CallInv(g)'
  <2>1. op'[g].n \in Nat /\ op'[g].n < Len(args'[m]) /\ op'[g].n + 1 = Len(args[m]) + 1
    BY <1>2, <1>3, <1>7, <1>11, <1>12 DEF Locals
  <2> QED
    BY <1>3, <1>5, <1>7, <1>11, <1>12, <2>1 DEF CallInv
<1>14. ASSUME NEW h \in Goroutines \ {g} PROVE CallInv(h)'
  <2>1. pc'[h] = pc[h] /\ op'[h] = op[h] /\ CallInv(h) /\ op[h] \in Locals
    BY <1>7 DEF FakeInv, FakeTypeOK
  <2>2. CASE op[h].m # m
    <3>1. pc[h] \in {"append", "record", "return"} => args'[op[h].m] = args[op[h].m]
      BY <1>6, <2>2 DEF FakeInv, FakeTypeOK, AtMethod
    <3> QED
      BY <1>5, <2>1, <3>1 DEF CallInv
  <2>3. CASE op[h].m = m
    <3>1. pc[h] \notin {"append", "record"}
      BY <1>9, <2>3 DEF InMethod
    <3>2. pc[h] = "return" => op[h].n + 1 \in 1..Len(args[m]) /\ op[h].n < Len(args'[m])
      BY <1>2, <1>12, <2>1, <2>3 DEF CallInv, Locals
    <3> QED
      BY <1>10, <2>1, <2>3, <3>1, <3>2 DEF CallInv
  <2> QED
    BY <2>2, <2>3
<1>15. ASSUME NEW k \in Methods PROVE LogInv(k)'
  <2>1. CASE k # m
    BY <1>3, <1>5, <1>6, <1>7, <2>1 DEF FakeInv, LogInv, AtRecord
  <2>2. CASE k = m
    <3>1. log[m] = args[m]
      BY <1>2, <1>5, <1>9 DEF FakeInv, LogInv, AtRecord, InMethod
    <3>2. \A h \in Goroutines : AtRecord(h, k)' <=> h = g
      BY <1>3, <1>7, <1>9, <2>2 DEF AtRecord, InMethod
    <3> QED
      BY <1>5, <1>6, <2>2, <3>1, <3>2 DEF LogInv
  <2> QED
    BY <2>1, <2>2
<1> QED
  BY <1>1, <1>7, <1>8, <1>13, <1>14, <1>15 DEF FakeInv

\* The call that leaves its method is the one the invocations lacked.
LEMMA RecordStep ==
    ASSUME FakeInv, NEW g \in Goroutines, RecordInvocation(g)
    PROVE  FakeInv'
<1> DEFINE m == op[g].m
<1>1. Methods = 1..Len(double) /\ Len(double) \in Nat /\ Methods' = Methods
  BY MethodNumbers DEF FakeInv, FakeTypeOK, Methods, RecordInvocation
<1>2. op[g] \in Locals /\ m \in Methods /\ log[m] \in Seq(Goroutines)
  BY DEF FakeInv, FakeTypeOK, AtMethod, RecordInvocation
<1>3. Moves(g, "return", op[g])
  BY DEF RecordInvocation, Moves, Goto, FakeInv, FakeTypeOK
<1>4. pc[g] = "record" /\ UNCHANGED <<double, args, set>>
  BY DEF RecordInvocation
<1>5. /\ log' \in [Methods -> Seq(Goroutines)]
      /\ log'[m] = Append(log[m], g)
      /\ \A k \in Methods \ {m} : log'[k] = log[k]
  BY <1>2 DEF RecordInvocation, FakeInv, FakeTypeOK
<1>6. /\ pc'[g] = "return" /\ op'[g] = op[g]
      /\ \A h \in Goroutines \ {g} : pc'[h] = pc[h] /\ op'[h] = op[h]
      /\ FakeTypeOK'
  BY <1>1, <1>2, <1>3, <1>4, <1>5, MovesType DEF FakeInv, FakeTypeOK, Labels
<1>7. MutexInv'
  BY <1>1, <1>6 DEF FakeInv, MutexInv, InMethod, HasRead
<1>8. \A h \in Goroutines : CallInv(h)'
  BY <1>4, <1>6 DEF FakeInv, CallInv
<1>9. ASSUME NEW k \in Methods PROVE LogInv(k)'
  <2>1. CASE k # m
    BY <1>4, <1>5, <1>6, <2>1 DEF FakeInv, LogInv, AtRecord
  <2>2. CASE k = m
    <3>1. args[m] = Append(log[m], g)
      BY <1>2, <1>4 DEF FakeInv, LogInv, AtRecord
    <3>2. \A h \in Goroutines : ~AtRecord(h, k)'
      BY <1>2, <1>4, <1>6, <2>2 DEF FakeInv, MutexInv, AtRecord, InMethod
    <3> QED
      BY <1>4, <1>5, <2>2, <3>1, <3>2 DEF LogInv
  <2> QED
    BY <2>1, <2>2
<1> QED
  BY <1>1, <1>6, <1>7, <1>8, <1>9 DEF FakeInv

\* A test programs a method only while no call of it is under way.
LEMMA ProgramStep ==
    ASSUME FakeInv, NEW g \in Goroutines, NEW m \in Methods, NEW s \in Settings,
           Program(g, m, s)
    PROVE  FakeInv'
<1>1. UNCHANGED <<double, args, log, pc, op>> /\ Methods' = Methods
  BY DEF Program, Methods
<1>2. set' \in [Methods -> Settings] /\ \A k \in Methods \ {m} : set'[k] = set[k]
  BY DEF Program, FakeInv, FakeTypeOK
<1>3. \A h \in Goroutines : ~InMethod(h, m)
  BY DEF Program, CanLock, Writing, InMethod
<1>4. FakeTypeOK'
  BY <1>1, <1>2 DEF FakeInv, FakeTypeOK, AtMethod
<1>5. MutexInv'
  BY <1>1 DEF FakeInv, MutexInv, InMethod, HasRead
<1>6. ASSUME NEW h \in Goroutines PROVE CallInv(h)'
  <2>1. CASE pc[h] \in {"append", "record"}
    <3>1. set'[op[h].m] = set[op[h].m]
      BY <1>2, <1>3, <2>1 DEF FakeInv, FakeTypeOK, AtMethod, InMethod
    <3> QED
      BY <1>1, <3>1 DEF FakeInv, CallInv
  <2>2. CASE pc[h] \notin {"append", "record"}
    BY <1>1, <2>2 DEF FakeInv, CallInv
  <2> QED
    BY <2>1, <2>2
<1>7. \A k \in Methods' : LogInv(k)'
  BY <1>1 DEF FakeInv, LogInv, AtRecord
<1> QED
  BY <1>4, <1>5, <1>6, <1>7 DEF FakeInv

LEMMA SetupActions ==
    ASSUME FakeInv, NEW g \in Goroutines, NEW m \in Methods, NEW i \in Nat,
           Calls(g, m) \/ Returns(g, m) \/ ReturnsOnCall(g, m, i)
    PROVE  FakeInv'
<1>1. set[m] \in Settings /\ i \in Nat
  BY DEF FakeInv, FakeTypeOK
<1>2. [set[m] EXCEPT !.stub = TRUE] \in Settings
  BY <1>1 DEF Settings
<1>3. [set[m] EXCEPT !.stub = FALSE, !.returns = TRUE] \in Settings
  BY <1>1 DEF Settings
<1>4. [set[m] EXCEPT !.stub = FALSE, !.onCall = @ \cup {i}] \in Settings
  BY <1>1 DEF Settings
<1>5. CASE Calls(g, m)
  BY <1>2, <1>5, ProgramStep DEF Calls
<1>6. CASE Returns(g, m)
  BY <1>3, <1>6, ProgramStep DEF Returns
<1>7. CASE ReturnsOnCall(g, m, i)
  BY <1>4, <1>7, ProgramStep DEF ReturnsOnCall
<1> QED
  BY <1>5, <1>6, <1>7

LEMMA NextInv == FakeInv /\ [Next]_vars => FakeInv'
<1> SUFFICES ASSUME FakeInv, [Next]_vars PROVE FakeInv'
  OBVIOUS
<1>1. CASE UNCHANGED vars
  BY <1>1 DEF vars, FakeInv, FakeTypeOK, AtMethod, MutexInv, InMethod, HasRead, CallInv,
              LogInv, AtRecord, Methods
<1>2. ASSUME NEW g \in Goroutines, Step(g) PROVE FakeInv'
  <2>1. 1 \in Methods
    BY DEF FakeInv, FakeTypeOK, Methods, Doubles, Limiter, PrivilegeElevator, TarStreamer,
           HCSClient, LayerWriter
  <2> QED
    BY <1>2, <2>1, IdleActions, EnterStep, AppendStep, RecordStep, LockNextStep DEF Step
<1>3. ASSUME NEW g \in Goroutines, Invocations(g) PROVE FakeInv'
  <2>1. 1 \in Methods
    BY DEF FakeInv, FakeTypeOK, Methods, Doubles, Limiter, PrivilegeElevator, TarStreamer,
           HCSClient, LayerWriter
  <2> QED
    BY <1>3, <2>1, IdleActions
<1>4. ASSUME NEW g \in Goroutines, NEW m \in Methods,
             Begin(g, m) \/ Calls(g, m) \/ Returns(g, m)
      PROVE  FakeInv'
  <2>1. CASE Begin(g, m)
    BY <2>1, IdleActions
  <2>2. CASE Calls(g, m) \/ Returns(g, m)
    <3>1. 0 \in Nat
      OBVIOUS
    <3> QED
      BY <2>2, <3>1, SetupActions
  <2> QED
    BY <1>4, <2>1, <2>2
<1>5. ASSUME NEW g \in Goroutines, NEW m \in Methods, NEW i \in 0..(MaxCalls - 1),
             ReturnsOnCall(g, m, i)
      PROVE  FakeInv'
  <2>1. i \in Nat
    BY FakeAssumption
  <2> QED
    BY <1>5, <2>1, SetupActions
<1> QED
  BY <1>1, <1>2, <1>3, <1>4, <1>5 DEF Next

LEMMA Invariance == Spec => []FakeInv
BY InitInv, NextInv, PTL DEF Spec

-----------------------------------------------------------------------------
(* The theorems. *)

\* Whatever the goroutines that call a double and the test that programs it do, call
\* number n gets the result programmed for n, as it stood at one moment of the call, and
\* its arguments are the n-th that ArgsForCall shows.
THEOREM ResultFollowsNumber == Spec => []ResultsFollowArgs
<1>1. FakeInv => ResultsFollowArgs
  BY DEF FakeInv, CallInv, ResultsFollowArgs
<1> QED
  BY <1>1, Invariance, PTL

\* The arguments and the invocations of a double never contradict each other where a test
\* can look, for any number of goroutines, calls and concurrent Invocations.
THEOREM RecordsNeverDisagree == Spec => []RecordsAgree
<1>1. FakeInv => RecordsAgree
  <2> SUFFICES ASSUME FakeInv PROVE RecordsAgree
    OBVIOUS
  <2>1. Methods = 1..Len(double) /\ Len(double) \in Nat
    BY MethodNumbers DEF FakeInv, FakeTypeOK
  <2>2. \A m \in Methods : Inspectable(m) => log[m] = args[m]
    BY DEF FakeInv, LogInv, AtRecord, Inspectable, Writing
  <2>3. ASSUME NEW g \in Collecting, Collected(g) PROVE log = args
    <3>1. \A m \in Methods : HasRead(g, m)
      BY <2>1, <2>3 DEF Collecting, Collected, HasRead
    <3>2. \A h \in Goroutines, m \in Methods : ~AtRecord(h, m)
      BY <3>1 DEF Collecting, FakeInv, MutexInv, AtRecord, InMethod
    <3>3. \A m \in Methods : log[m] = args[m]
      BY <3>2 DEF FakeInv, LogInv
    <3> QED
      BY <3>3 DEF FakeInv, FakeTypeOK
  <2> QED
    BY <2>2, <2>3 DEF RecordsAgree
<1> QED
  BY <1>1, Invariance, PTL
=============================================================================
