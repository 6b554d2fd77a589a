-------------------------- MODULE MCTimedRotation --------------------------
(***************************************************************************)
(* TimedRotation on small instances.                                       *)
(***************************************************************************)
EXTENDS TimedRotation, TLC

CONSTANTS k1, k2, k3, k4, k5, own, h0, h1, r0, r1

\* Keys are drawn from an unordered set; used by the run without liveness.
Symmetry == Permutations(Key)
=============================================================================
