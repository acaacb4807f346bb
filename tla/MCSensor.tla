------------------------------- MODULE MCSensor -------------------------------
(* Enough fills for an answer to be late, partial and mixed with the next.  *)
EXTENDS SensorRead
=============================================================================
