------------------------------ MODULE MCDispatch ------------------------------
(* Small instances of CommandDispatch.  Requests are what forms of the page  *)
(* really send.                                                              *)
EXTENDS CommandDispatch, TLC

CONSTANTS c1, c2, form1, form2

MCClients == {c1, c2}
OneClient == {c1}
ClientSymmetry == Permutations(MCClients)

MCLimits == {form1, form2}
NoLimits == {}

(* Both globals of the led worker, a byte that is reset and one that stays,  *)
(* and a message nobody reads; fan and buzzer cannot open their devices: one *)
(* returns, the other ends the process at any point.                         *)
MixedRequests == {a9_led(1), a9_seg(1, 53), a9_seg(0, 0), set_sms}
LedRequests == {a9_led(1), a9_seg(1, 53)}

(* Commands for a worker that runs and for one whose thread is missing.      *)
LiveRequests == {a9_led(1), zigbee_fan(1)}

LimitRequests == {setEnv(form1), setEnv(form2)}
=============================================================================
