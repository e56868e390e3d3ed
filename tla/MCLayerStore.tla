----------------------------- MODULE MCLayerStore -----------------------------
(***************************************************************************)
(* Instances of LayerStore for TLC.                                        *)
(***************************************************************************)
EXTENDS LayerStore, TLC

CONSTANTS p1, p2, base, mid, top

File(n) == [kind |-> "file", size |-> n]
Link == [kind |-> "link", size |-> 0]
Whiteout == [kind |-> "whiteout", size |-> 0]

\* A chain of three layers, of which one image uses the lower two.
ChainLayers == {base, mid, top}
ChainImages == {<<base, mid>>, <<base, mid, top>>}
ChainTar == (base :> <<File(3), Link, File(1)>>) @@ (mid :> <<Whiteout, File(2)>>) @@ (top :> <<>>)

\* Two images over one base layer, small enough for two processes.
SharedLayers == {base, top}
SharedImages == {<<base>>, <<base, top>>}
SharedTar == (base :> <<File(3)>>) @@ (top :> <<File(2)>>)

Symmetry == Permutations(Procs)
=============================================================================
