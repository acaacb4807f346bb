------------------------------- MODULE MCBeeper -------------------------------
(* Two descriptors: songs can overlap, one can be joined while another plays, *)
(* and pthread_create can run out of room.                                   *)
EXTENDS Beeper

CONSTANTS m1, m2

MCSongs == {m1, m2}
=============================================================================
