------------------------------- MODULE MCPanel -------------------------------
(* Small instances of LedPanel: control registers as they are after reset,   *)
(* every form of the LED page and every pattern a digit can ask for.         *)
EXTENDS LedPanel

NoLimits == {}
ResetControl == [b \in Bank |-> {}]
OnOff == {a9_led(0), a9_led(1)}
AllPatterns == {a9_seg(0, 0)} \cup {a9_seg(1, c) : c \in 48..63}
=============================================================================
