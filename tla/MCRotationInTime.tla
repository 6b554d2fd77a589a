------------------------- MODULE MCRotationInTime --------------------------
(***************************************************************************)
(* TimedRotation on an instance whose period has room for a rotation and   *)
(* for the failures: the hypothesis of RotationIsPunctual holds of it.     *)
(***************************************************************************)
EXTENDS MCTimedRotation

ASSUME PeriodSuffices == RotationFits
=============================================================================
