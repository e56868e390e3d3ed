--------------------------------- MODULE Sums ---------------------------------
(***************************************************************************)
(* Sums over the first n values of a sequence or function.                 *)
(***************************************************************************)
EXTENDS Naturals

\* w[1] + ... + w[n]
SumTo(w, n) ==
    LET sum[k \in Nat] == IF k = 0 THEN 0 ELSE sum[k - 1] + w[k]
    IN  sum[n]
=============================================================================
