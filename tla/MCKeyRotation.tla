--------------------------- MODULE MCKeyRotation ---------------------------
(***************************************************************************)
(* The prover and the contract on small instances.                         *)
(***************************************************************************)
EXTENDS KeyRotation, TLC

CONSTANTS k1, k2, k3, own, h0, h1, r0, r1

\* Keys are drawn from an unordered set.
Symmetry == Permutations(Key)
=============================================================================
