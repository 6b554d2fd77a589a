--------------------------- MODULE MCTraceReplay ---------------------------
(* Two keys between head and tail, two values; two changes before the block, which has up
   to two traces. *)
EXTENDS TraceReplay

MCKey == {1, 3}
=============================================================================
