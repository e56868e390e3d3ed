------------------------------ MODULE SumsProofs ------------------------------
(***************************************************************************)
(* What SumTo computes, by induction: a least counterexample.              *)
(***************************************************************************)
EXTENDS Sums, Integers, WellFoundedInduction, TLAPS

\* A set of natural numbers that is not empty has a least element.
LEMMA Least ==
    ASSUME NEW T, T \subseteq Nat, T # {}
    PROVE  \E x \in T : \A y \in T : x <= y
<1> DEFINE R == OpToRel(<, Nat)
<1>1. IsWellFoundedOn(R, Nat)
  BY NatLessThanWellFounded
<1>2. \A x, y \in Nat : y < x => <<y, x>> \in R
  BY DEF OpToRel
<1> HIDE DEF R
<1>3. PICK x \in T : \A y \in T : ~(<<y, x>> \in R)
  BY <1>1, WFMin
<1>4. ASSUME NEW y \in T PROVE x <= y
  <2>1. x \in Nat /\ y \in Nat
    OBVIOUS
  <2>2. ~(y < x)
    BY <1>2, <1>3, <2>1
  <2> QED
    BY <2>1, <2>2
<1> QED
  BY <1>4

\* A set of natural numbers with 0, and with n + 1 for each n in it, has them all.
LEMMA Induction ==
    ASSUME NEW T, 0 \in T, \A n \in Nat : n \in T => n + 1 \in T
    PROVE  \A n \in Nat : n \in T
<1> SUFFICES ASSUME Nat \ T # {} PROVE FALSE
  OBVIOUS
<1>1. PICK x \in Nat \ T : \A y \in Nat \ T : x <= y
  BY Least
<1>2. x # 0 /\ x - 1 \in Nat
  OBVIOUS
<1>3. x - 1 \in T
  BY <1>1, <1>2
<1> QED
  BY <1>2, <1>3

\* The equation of the sums, up to n.
Adds(f, w, n) ==
    /\ f[0] = 0
    /\ \A k \in 1..n : f[k] = f[k - 1] + w[k]

LEMMA PartialSums ==
    ASSUME NEW w, NEW n \in Nat
    PROVE  \E f : Adds(f, w, n)
<1> DEFINE T == {m \in Nat : \E f : Adds(f, w, m)}
<1>1. 0 \in T
  <2>1. Adds([k \in 0..0 |-> 0], w, 0)
    BY DEF Adds
  <2> QED
    BY <2>1
<1>2. ASSUME NEW m \in Nat, m \in T PROVE m + 1 \in T
  <2>1. PICK f : Adds(f, w, m)
    BY <1>2
  <2> DEFINE g == [k \in 0..(m + 1) |-> IF k = m + 1 THEN f[m] + w[m + 1] ELSE f[k]]
  <2>2. Adds(g, w, m + 1)
    <3>1. g[0] = 0
      BY <2>1 DEF Adds
    <3>2. ASSUME NEW k \in 1..(m + 1) PROVE g[k] = g[k - 1] + w[k]
      <4>1. CASE k = m + 1
        BY <4>1
      <4>2. CASE k # m + 1
        <5>1. k \in 1..m /\ k \in 0..(m + 1) /\ k - 1 \in 0..(m + 1) /\ k - 1 # m + 1
          BY <4>2
        <5>2. f[k] = f[k - 1] + w[k]
          BY <2>1, <5>1 DEF Adds
        <5> QED
          BY <4>2, <5>1, <5>2
      <4> QED
        BY <4>1, <4>2
    <3> HIDE DEF g
    <3> QED
      BY <3>1, <3>2 DEF Adds
  <2> HIDE DEF g
  <2> QED
    BY <2>2
<1> HIDE DEF T
<1>3. n \in T
  BY <1>1, <1>2, Induction
<1> QED
  BY <1>3 DEF T

\* Sums that satisfy the equation agree as far as both reach.
LEMMA SumsAgree ==
    ASSUME NEW w, NEW f, NEW g, NEW m \in Nat, NEW n \in Nat, Adds(f, w, m), Adds(g, w, n)
    PROVE  \A k \in Nat : k <= m /\ k <= n => f[k] = g[k]
<1> DEFINE T == {k \in Nat : k <= m /\ k <= n => f[k] = g[k]}
<1>1. 0 \in T
  BY DEF Adds
<1>2. ASSUME NEW k \in Nat, k \in T PROVE k + 1 \in T
  <2> SUFFICES ASSUME k + 1 <= m, k + 1 <= n PROVE f[k + 1] = g[k + 1]
    OBVIOUS
  <2>1. f[k] = g[k]
    BY <1>2
  <2>2. k + 1 \in 1..m /\ k + 1 \in 1..n /\ (k + 1) - 1 = k
    OBVIOUS
  <2> HIDE DEF T
  <2> QED
    BY <2>1, <2>2 DEF Adds
<1> HIDE DEF T
<1>3. \A k \in Nat : k \in T
  BY <1>1, <1>2, Induction
<1> QED
  BY <1>3 DEF T

\* The function that SumTo defines exists, so it satisfies its equation.
LEMMA SumFunction ==
    ASSUME NEW w
    PROVE  \E f : f = [k \in Nat |-> IF k = 0 THEN 0 ELSE f[k - 1] + w[k]]
<1> DEFINE G(n) == CHOOSE f : Adds(f, w, n)
           f == [k \in Nat |-> G(k)[k]]
<1>1. \A n \in Nat : Adds(G(n), w, n)
  BY PartialSums
<1> HIDE DEF G
<1>2. f[0] = 0
  BY <1>1 DEF Adds
<1>3. ASSUME NEW k \in Nat, k # 0 PROVE f[k] = f[k - 1] + w[k]
  <2>1. k \in 1..k /\ k - 1 \in Nat /\ k - 1 <= k /\ k - 1 <= k - 1
    BY <1>3
  <2>2. G(k)[k] = G(k)[k - 1] + w[k]
    BY <1>1, <2>1 DEF Adds
  <2>3. G(k)[k - 1] = G(k - 1)[k - 1]
    BY <1>1, <2>1, SumsAgree
  <2> QED
    BY <2>1, <2>2, <2>3
<1>4. f = [k \in Nat |-> f[k]]
  OBVIOUS
<1> HIDE DEF f
<1>5. f = [k \in Nat |-> IF k = 0 THEN 0 ELSE f[k - 1] + w[k]]
  BY <1>2, <1>3, <1>4
<1> QED
  BY <1>5

\* The recursion that SumTo stands for.
LEMMA SumToRecursion ==
    ASSUME NEW w
    PROVE  /\ SumTo(w, 0) = 0
           /\ \A n \in Nat : SumTo(w, n + 1) = SumTo(w, n) + w[n + 1]
<1> DEFINE E(f) == f = [k \in Nat |-> IF k = 0 THEN 0 ELSE f[k - 1] + w[k]]
           sum == CHOOSE f : E(f)
<1>1. \E f : E(f)
  BY SumFunction
<1>2. E(sum)
  BY <1>1
<1>3. \A n : SumTo(w, n) = sum[n]
  BY DEF SumTo
<1> HIDE DEF sum
<1>4. sum[0] = 0
  BY <1>2
<1>5. ASSUME NEW n \in Nat PROVE sum[n + 1] = sum[n] + w[n + 1]
  BY <1>2
<1> QED
  BY <1>3, <1>4, <1>5

\* Natural numbers add up to one.
LEMMA SumToNat ==
    ASSUME NEW m \in Nat, NEW w, \A k \in 1..m : w[k] \in Nat
    PROVE  \A n \in 0..m : SumTo(w, n) \in Nat
<1> DEFINE T == {k \in Nat : k <= m => SumTo(w, k) \in Nat}
<1>1. 0 \in T
  BY SumToRecursion
<1>2. ASSUME NEW k \in Nat, k \in T PROVE k + 1 \in T
  <2> SUFFICES ASSUME k + 1 <= m PROVE SumTo(w, k + 1) \in Nat
    OBVIOUS
  <2>1. k + 1 \in 1..m /\ k <= m
    OBVIOUS
  <2>2. SumTo(w, k) \in Nat /\ w[k + 1] \in Nat
    BY <1>2, <2>1
  <2>3. SumTo(w, k + 1) = SumTo(w, k) + w[k + 1]
    BY SumToRecursion
  <2> QED
    BY <2>2, <2>3
<1> HIDE DEF T
<1>3. \A k \in Nat : k \in T
  BY <1>1, <1>2, Induction
<1> QED
  BY <1>3 DEF T
=============================================================================
