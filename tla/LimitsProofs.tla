----------------------------- MODULE LimitsProofs -----------------------------
(***************************************************************************)
(* Proofs about the numbers of create and stats (Limits): for every word   *)
(* width, every overhead, image and limit, nothing that reaches quota.dll  *)
(* or the report has wrapped.                                              *)
(*                                                                         *)
(* The inductive invariant ExactInv ties every number to the exact one: the*)
(* image to the prefix sum of the layers' bytes, which the disk bounds, and*)
(* the quota to the limit.                                                 *)
(***************************************************************************)
EXTENDS Limits, SumsProofs

-----------------------------------------------------------------------------
(* Words and sums. *)

LEMMA SmallModulus ==
    ASSUME NEW d \in Nat, NEW n \in Nat, n < d
    PROVE  n % d = n
OBVIOUS

\* A number that an int64 holds does not wrap.
LEMMA Int64Holds ==
    ASSUME NEW n \in Int64
    PROVE  ToInt64(n) = n
<1>1. n + Half \in Nat /\ n + Half < 2 * Half /\ 2 * Half \in Nat
  BY WidthAssumption DEF Int64, MaxInt
<1>2. (n + Half) % (2 * Half) = n + Half
  BY <1>1, SmallModulus
<1> QED
  BY <1>2, WidthAssumption DEF ToInt64, Int64, MaxInt

\* Nor one below 2^W in a uint64.
LEMMA Uint64Holds ==
    ASSUME NEW n \in 0..(2 * Half - 1)
    PROVE  ToUint64(n) = n
<1>1. n \in Nat /\ n < 2 * Half /\ 2 * Half \in Nat
  BY WidthAssumption
<1> QED
  BY <1>1, SmallModulus DEF ToUint64

\* The layers built so far have no more bytes than all layers.
LEMMA PrefixBounded ==
    ASSUME NEW w \in [1..Layers -> Nat], NEW n \in 0..Layers
    PROVE  SumTo(w, n) \in Nat /\ SumTo(w, n) <= Total(w)
<1>1. ASSUME NEW k \in Nat
      PROVE  /\ SumTo(w, 0) = 0
             /\ SumTo(w, k + 1) = SumTo(w, k) + w[k + 1]
  BY SumToRecursion
<1>2. \A k \in Nat : k <= Layers => SumTo(w, k) \in Nat
  <2>1. \A k \in 0..Layers : SumTo(w, k) \in Nat
    BY WidthAssumption, SumToNat
  <2> QED
    BY <2>1, WidthAssumption
<1>3. \A k \in Nat : n + k <= Layers => SumTo(w, n) <= SumTo(w, n + k)
  <2> DEFINE T == {k \in Nat : n + k <= Layers => SumTo(w, n) <= SumTo(w, n + k)}
  <2>1. 0 \in T
    BY <1>2, n + 0 = n
  <2>2. ASSUME NEW k \in Nat, k \in T PROVE k + 1 \in T
    <3> SUFFICES ASSUME n + (k + 1) <= Layers PROVE SumTo(w, n) <= SumTo(w, n + (k + 1))
      OBVIOUS
    <3>1. n + k \in Nat /\ n + k <= Layers /\ n + (k + 1) = (n + k) + 1 /\ (n + k) + 1 \in 1..Layers
      BY WidthAssumption
    <3>2. SumTo(w, n) <= SumTo(w, n + k) /\ w[(n + k) + 1] \in Nat
      BY <2>2, <3>1
    <3>3. SumTo(w, n) \in Nat /\ SumTo(w, n + k) \in Nat
      BY <1>2, <3>1, WidthAssumption
    <3>4. SumTo(w, (n + k) + 1) = SumTo(w, n + k) + w[(n + k) + 1]
      BY <1>1, <3>1
    <3> QED
      BY <3>1, <3>2, <3>3, <3>4
  <2> HIDE DEF T
  <2>3. \A k \in Nat : k \in T
    BY <2>1, <2>2, Induction
  <2> QED
    BY <2>3 DEF T
<1>4. Layers - n \in Nat /\ n + (Layers - n) = Layers
  BY WidthAssumption
<1>5. n \in Nat /\ n <= Layers
  BY WidthAssumption
<1>6. SumTo(w, n) <= SumTo(w, n + (Layers - n))
  BY <1>3, <1>4, WidthAssumption
<1> QED
  BY <1>2, <1>4, <1>5, <1>6 DEF Total

-----------------------------------------------------------------------------
(* The inductive invariant. *)

TypeInv ==
    /\ req \in [limit : Int64, exclude : BOOLEAN, dll : BOOLEAN]
    /\ content \in [1..Layers -> Nat] /\ Total(content) <= MaxInt
    /\ pc \in {"limit", "build", "set", "made", "refused"}
    /\ built \in 0..Layers
    /\ used \in 0..(MaxInt - Total(content))

\* The image counts for the bytes of its layers, unless there is no limit or the request
\* excludes it.
Share == IF Charged THEN Total(content) ELSE 0

ExactInv ==
    /\ TypeInv
    /\ image = SumTo(content, built)
    /\ pc \in {"build", "set", "made"} => req.limit >= 0
    /\ pc \in {"set", "made"} => built = Layers /\ (Charged => req.limit > Share)
    /\ pc = "set" => quota = req.limit - Share
    /\ pc = "made" =>
          quota = IF req.limit = 0 THEN NoQuota ELSE req.limit - Share + Overhead

LEMMA Bytes ==
    ASSUME TypeInv
    PROVE  /\ SumTo(content, built) \in 0..MaxInt
           /\ Total(content) \in 0..MaxInt
           /\ built < Layers => SumTo(content, built + 1) \in 0..MaxInt
<1>1. MaxInt \in Int
  BY WidthAssumption DEF MaxInt
<1>2. Layers \in 0..Layers /\ built \in 0..Layers /\ (built < Layers => built + 1 \in 0..Layers)
  BY WidthAssumption DEF TypeInv
<1>3. \A n \in 0..Layers : SumTo(content, n) \in Nat /\ SumTo(content, n) <= Total(content)
  BY PrefixBounded DEF TypeInv
<1>4. Total(content) \in Nat
  BY <1>2, <1>3 DEF Total
<1> QED
  BY <1>1, <1>2, <1>3, <1>4 DEF TypeInv

LEMMA InitExact == Init => ExactInv
<1> SUFFICES ASSUME Init PROVE ExactInv
  OBVIOUS
<1>1. content \in [1..Layers -> Nat]
  BY WidthAssumption DEF Init, MaxInt
<1>2. Layers \in 0..Layers /\ Total(content) \in Nat
  BY <1>1, WidthAssumption, PrefixBounded DEF Total
<1>3. TypeInv
  BY <1>1, <1>2, WidthAssumption DEF Init, TypeInv, MaxInt
<1>4. image = SumTo(content, built)
  BY SumToRecursion DEF Init
<1> QED
  BY <1>3, <1>4 DEF Init, ExactInv

\* An action that keeps the request and what the layers hold.
LEMMA SameInputs ==
    ASSUME UNCHANGED Inputs
    PROVE  /\ Total(content)' = Total(content) /\ (Charged' <=> Charged) /\ Share' = Share
           /\ UNCHANGED <<req, content>>
BY DEF Inputs, Total, Charged, Share

LEMMA QuotaExceededExact ==
    ASSUME ExactInv, QuotaExceeded
    PROVE  ExactInv'
<1>1. TypeInv'
  BY SameInputs DEF ExactInv, TypeInv, QuotaExceeded, Goto
<1>2. pc' \in {"refused", "build"} /\ (pc' = "build" => req'.limit >= 0)
  BY SameInputs DEF QuotaExceeded, Goto, ExactInv, TypeInv, Int64
<1> QED
  BY <1>1, <1>2, SameInputs DEF ExactInv, QuotaExceeded

\* The next layer's bytes are added with no wrap.
LEMMA BuildLayerExact ==
    ASSUME ExactInv, BuildLayer
    PROVE  ExactInv'
<1>1. built < Layers /\ built \in Nat /\ built' = built + 1 /\ built' \in 0..Layers
  BY WidthAssumption DEF ExactInv, TypeInv, BuildLayer
<1>2. SumTo(content, built + 1) = image + content[built + 1]
  BY <1>1, SumToRecursion DEF ExactInv
<1>3. SumTo(content, built + 1) \in Int64
  BY <1>1, Bytes, WidthAssumption DEF ExactInv, Int64, MaxInt
<1>4. image' = SumTo(content, built + 1)
  BY <1>1, <1>2, <1>3, Int64Holds DEF BuildLayer
<1>5. TypeInv'
  BY <1>1, SameInputs DEF ExactInv, TypeInv, BuildLayer
<1> QED
  BY <1>1, <1>4, <1>5, SameInputs DEF ExactInv, BuildLayer

\* What is left of the limit is a difference of two numbers that are not negative.
LEMMA CreateQuotaExact ==
    ASSUME ExactInv, CreateQuota
    PROVE  ExactInv'
<1>1. image = Total(content) /\ image \in 0..MaxInt /\ req.limit \in Int64 /\ req.limit >= 0
  BY Bytes DEF ExactInv, TypeInv, CreateQuota, Total
<1>2. req.limit - image \in Int64
  BY <1>1, WidthAssumption DEF Int64, MaxInt
<1>3. Remaining = req.limit - image
  BY <1>2, Int64Holds DEF Remaining
<1>4. TypeInv'
  BY SameInputs DEF ExactInv, TypeInv, CreateQuota, Goto
<1>5. quota' = req.limit - Share
  BY <1>1, <1>3, WidthAssumption DEF CreateQuota, Share, Int64, MaxInt
<1>6. pc' \in {"set", "refused"} /\ (pc' = "set" /\ Charged => req.limit > Share)
  <2>1. CASE Charged
    BY <1>1, <1>3, <2>1, WidthAssumption DEF CreateQuota, Share, Goto, Int64, MaxInt
  <2>2. CASE ~Charged
    BY <2>2 DEF CreateQuota, Goto
  <2> QED
    BY <2>1, <2>2
<1>7. UNCHANGED <<built, image>> /\ UNCHANGED Inputs /\ built = Layers /\ pc = "build"
  BY DEF CreateQuota
<1> QED
  BY <1>1, <1>4, <1>5, <1>6, <1>7, SameInputs DEF ExactInv

\* The overhead fits: what is left and the overhead are both less than 2^(W-1).
LEMMA SetQuotaExact ==
    ASSUME ExactInv, SetQuota
    PROVE  ExactInv'
<1>1. req.limit \in 0..MaxInt /\ Share \in 0..MaxInt /\ req.limit - Share \in 0..MaxInt
  <2>1. Total(content) \in 0..MaxInt /\ MaxInt \in Int
    BY Bytes, WidthAssumption DEF ExactInv, MaxInt
  <2>2. req.limit \in 0..MaxInt
    BY DEF ExactInv, SetQuota, TypeInv, Int64
  <2>3. CASE Charged
    BY <2>1, <2>2, <2>3 DEF ExactInv, SetQuota, Share
  <2>4. CASE ~Charged
    BY <2>1, <2>2, <2>4 DEF Share
  <2> QED
    BY <2>3, <2>4
<1>2. ToUint64(quota) = req.limit - Share
  <2>1. req.limit - Share \in 0..(2 * Half - 1)
    BY <1>1, WidthAssumption DEF MaxInt
  <2> QED
    BY <2>1, Uint64Holds DEF ExactInv, SetQuota
<1>3. (req.limit - Share = 0) <=> (req.limit = 0)
  BY <1>1 DEF ExactInv, SetQuota, Share, Charged
<1>4. ToUint64(req.limit - Share + Overhead) = req.limit - Share + Overhead
  <2>1. req.limit - Share + Overhead \in 0..(2 * Half - 1)
    BY <1>1, WidthAssumption DEF MaxInt
  <2> QED
    BY <2>1, Uint64Holds
<1>5. pc' \in {"made", "refused"} /\ UNCHANGED <<built, image, used>> /\ UNCHANGED Inputs
      /\ pc = "set"
  BY DEF SetQuota, Goto
<1>6. pc' = "made" =>
        quota' = IF req.limit = 0 THEN NoQuota ELSE req.limit - Share + Overhead
  BY <1>2, <1>3, <1>4 DEF SetQuota, Goto, QuotaOf
<1>7. TypeInv'
  BY <1>5, SameInputs DEF ExactInv, TypeInv
<1> QED
  BY <1>5, <1>6, <1>7, SameInputs DEF ExactInv

LEMMA OtherExact ==
    ASSUME ExactInv, Usage \/ Stats \/ Again
    PROVE  ExactInv'
<1>1. Total(content) \in 0..MaxInt /\ MaxInt \in Int /\ 0 \in 0..Layers
  BY Bytes, WidthAssumption DEF ExactInv, MaxInt
<1>2. CASE Usage
  BY <1>1, <1>2, SameInputs DEF ExactInv, TypeInv, Usage
<1>3. CASE Stats
  BY <1>1, <1>3, SameInputs DEF ExactInv, TypeInv, Stats
<1>4. CASE Again
  <2>1. SumTo(content, 0) = 0
    BY SumToRecursion
  <2>2. TypeInv' /\ pc' = "limit"
    BY <1>1, <1>4, SameInputs DEF ExactInv, TypeInv, Again, Goto
  <2> QED
    BY <1>4, <2>1, <2>2, SameInputs DEF ExactInv, Again
<1> QED
  BY <1>2, <1>3, <1>4

LEMMA NextExact == ExactInv /\ [Next]_vars => ExactInv'
<1> SUFFICES ASSUME ExactInv, [Next]_vars PROVE ExactInv'
  OBVIOUS
<1>1. CASE UNCHANGED vars
  BY <1>1, SameInputs DEF vars, Inputs, ExactInv, TypeInv
<1> QED
  BY <1>1, QuotaExceededExact, BuildLayerExact, CreateQuotaExact, SetQuotaExact, OtherExact
  DEF Next

LEMMA AlwaysExact == Spec => []ExactInv
BY InitExact, NextExact, PTL DEF Spec

-----------------------------------------------------------------------------
(* The theorems. *)

\* For every word width, image, manifest, limit and overhead, SetQuota hands quota.dll
\* exactly the number the limit stands for, and no quota exactly when there is no limit.
THEOREM QuotaIsExact == Spec => []QuotaExact
<1>1. ExactInv => QuotaExact
  <2> SUFFICES ASSUME ExactInv, pc = "made", req.limit # 0
               PROVE  quota = req.limit - (IF req.exclude THEN 0 ELSE Total(content)) + Overhead
    BY DEF QuotaExact, ExactInv
  <2>1. Share = IF req.exclude THEN 0 ELSE Total(content)
    BY DEF Share, Charged
  <2> QED
    BY <2>1 DEF ExactInv
<1> QED
  BY <1>1, AlwaysExact, PTL

\* Stats never reports a wrapped number.
THEOREM StatsAreExact == Spec => StatsExact
<1>1. ASSUME ExactInv, Stats
      PROVE  report'.exclusive = used /\ report'.total = Total(content) + used
  <2>1. Total(content) \in 0..MaxInt /\ MaxInt \in Int /\ used \in 0..(MaxInt - Total(content))
    BY <1>1, Bytes, WidthAssumption DEF ExactInv, TypeInv, MaxInt
  <2>2. image = Total(content)
    BY <1>1 DEF ExactInv, Stats, Total
  <2>3. used \in Int64 /\ Total(content) + used \in Int64
    BY <2>1, WidthAssumption DEF Int64, MaxInt
  <2>4. ToInt64(used) = used /\ ToInt64(Total(content) + used) = Total(content) + used
    BY <2>3, Int64Holds
  <2> QED
    BY <1>1, <2>2, <2>4 DEF Stats, TotalUsed
<1>2. ExactInv /\ [Next]_vars =>
        [Stats => report'.exclusive = used /\ report'.total = Total(content) + used]_vars
  BY <1>1
<1> QED
  BY <1>2, AlwaysExact, PTL DEF Spec, StatsExact
=============================================================================
