--------------------------- MODULE MCSGXVerifier ---------------------------
(***************************************************************************)
(* The contract alone, with arbitrary callers.                             *)
(***************************************************************************)
EXTENDS SGXVerifier

CONSTANTS a1, a2, z0, h1, r0, r1   \* accounts, address(0), a batch hash, state roots
=============================================================================
