----------------------------- MODULE MCVolumeStore ----------------------------
(***************************************************************************)
(* Instances of VolumeStore for TLC.                                       *)
(***************************************************************************)
EXTENDS VolumeStore, TLC

CONSTANTS p1, p2, h1

\* An image of 2 bytes under: no limit, a limit below, at and above the image size,
\* one that excludes the image, and a negative one.
LimitRequests ==
    { [limit |-> 0, exclude |-> FALSE, size |-> 2], [limit |-> 1, exclude |-> FALSE, size |-> 2],
      [limit |-> 2, exclude |-> FALSE, size |-> 2], [limit |-> 3, exclude |-> FALSE, size |-> 2],
      [limit |-> 2, exclude |-> TRUE, size |-> 2], [limit |-> -1, exclude |-> TRUE, size |-> 2] }

OneRequest == { [limit |-> 3, exclude |-> FALSE, size |-> 2] }
=============================================================================
