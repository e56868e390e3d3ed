------------------------------ MODULE LayerClaims -----------------------------
(***************************************************************************)
(* What the layer store promises without a lock: the size file of a layer  *)
(* is the claim protocol.  A process may begin to write a layer only at a  *)
(* moment when it has no size file; only processes that did so ever change *)
(* the size file; and a size appears only in a file that one of them has   *)
(* created.  LayerStore implements it.                                     *)
(***************************************************************************)
EXTENDS Naturals

CONSTANTS Procs, Layers, NoFile, Torn

VARIABLES
    size,     \* size[l]: the size file of layer l
    claims    \* claims[l]: the processes that have decided to write layer l

vars == <<size, claims>>

Init ==
    /\ size = [l \in Layers |-> NoFile]
    /\ claims = [l \in Layers |-> {}]

Claim(p, l) ==
    /\ \A m \in Layers : p \notin claims[m]
    /\ size[l] = NoFile
    /\ claims' = [claims EXCEPT ![l] = @ \cup {p}]
    /\ UNCHANGED size

\* The layer is removed, or its size file created, truncated or filled; the process
\* may give up in the same step.
Write(p, l) ==
    /\ p \in claims[l]
    /\ size' \in [Layers -> Nat \cup {NoFile, Torn}]
    /\ \A m \in Layers \ {l} : size'[m] = size[m]
    /\ size[l] = NoFile => size'[l] \notin Nat
    /\ \E gone \in SUBSET {p} : claims' = [claims EXCEPT ![l] = @ \ gone]

Next == \E p \in Procs, l \in Layers : Claim(p, l) \/ Write(p, l)

Spec == Init /\ [][Next]_vars
=============================================================================
