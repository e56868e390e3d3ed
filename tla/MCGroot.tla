-------------------------------- MODULE MCGroot -------------------------------
(***************************************************************************)
(* Instances of Groot for TLC.                                             *)
(***************************************************************************)
EXTENDS Groot, TLC

CONSTANTS p1, h1, base, top

File(n) == [kind |-> "file", size |-> n]

\* An image of two layers, five bytes in all.
TwoLayers == {base, top}
OneImage == {<<base, top>>}
TwoTars == (base :> <<File(3)>>) @@ (top :> <<File(2)>>)

\* An invalid limit, one the image does not fit and does not count against, one that the
\* image uses up, one that leaves something for the volume, and none.
SomeQuotas ==
    {[limit |-> n, exclude |-> FALSE] : n \in {-1, 0, 5, 6}} \cup {[limit |-> 4, exclude |-> TRUE]}
=============================================================================
