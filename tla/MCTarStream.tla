------------------------------ MODULE MCTarStream -----------------------------
(***************************************************************************)
(* Instances of TarStream for TLC.                                         *)
(***************************************************************************)
EXTENDS TarStream

File(n) == [kind |-> "file", chunks |-> n]
Boot(n) == [kind |-> "boot", chunks |-> n]
Link == [kind |-> "link", chunks |-> 0]

\* Tars of up to three entries with each kind first, in the middle and last, and content
\* that is empty, and that fills, half fills and overfills the buffer.
Entries == {File(1), File(3), Boot(0), Boot(2), Boot(5), Link}
SmallTars == UNION {[1..n -> Entries] : n \in 0..3}
=============================================================================
