------------------------------ MODULE CgiForms ------------------------------
(***************************************************************************)
(* The control forms of the web page and the System V message each CGI     *)
(* program sends for them (html-monitor-stage/cgi_proj).  A message is     *)
(* [msgtype, text]: msgtype is the field the monitor dispatches on and     *)
(* text stands for text[0], the command byte                               *)
(*                                                                         *)
(*     store << 6  |  kind << 4  |  value                                  *)
(*                                                                         *)
(* or, for setEnv, for the four thresholds taken together (one member of   *)
(* Limits per submitted form).  A form field is the digit the page sends,  *)
(* or NoChoice when no radio button is checked.  The field "type" is       *)
(* always 1, the type msgrcv asks for, so the queue is one FIFO.           *)
(***************************************************************************)
EXTENDS Integers

CONSTANTS
  Limits      \* threshold quadruples the setEnv form may carry

Byte == 0..255

(* The hidden field "store" of every form of a9_zigbee1.html is "1". *)
Store == 1

(* No radio button checked: cgiFormString leaves an empty string. *)
NoChoice == -1

CommandByte(store, kind, value) == 64 * store + 16 * kind + value

a9_led(led) ==
  [msgtype |-> 1, text |-> CommandByte(Store, 0, IF led = 1 THEN 1 ELSE 0)]

(* Without a choice text[] keeps the zeros of the memset. *)
a9_beep(beep) ==
  [msgtype |-> 2, text |-> IF beep \in 0..3 THEN CommandByte(Store, 1, beep) ELSE 0]

(* segvalue is the code of the first character typed into the text box, 0  *)
(* when the box is empty.  (c - 48) is or-ed unmasked into the byte: below *)
(* '0' it is negative and sets the upper bits, above '?' its upper bits    *)
(* fall on bits that are set already.                                      *)
SegByte(c) == IF c >= 48 THEN CommandByte(Store, 3, (c - 48) % 16)
                         ELSE 240 + (c % 16)

a9_seg(seg, segvalue) ==
  [msgtype |-> 3, text |-> CASE seg = 1 -> SegByte(segvalue)
                             [] seg = 0 -> CommandByte(Store, 0, 0)
                             [] OTHER   -> 0]

(* Only speeds 2 and 3 carry the store number. *)
zigbee_fan(fan) ==
  [msgtype |-> 4, text |-> CASE fan \in 0..1 -> CommandByte(0, 2, fan)
                             [] fan \in 2..3 -> CommandByte(Store, 2, fan)
                             [] OTHER        -> 0]

setEnv(l) == [msgtype |-> 5, text |-> l]

(* The telephone numbers; nothing in the monitor looks at them. *)
set_sms == [msgtype |-> 10, text |-> 0]

(* What the monitor can be sent, and what the page can make the CGIs send. *)
Message == [msgtype : 1..4, text : Byte]
             \cup [msgtype : {5}, text : Limits]
             \cup [msgtype : {6, 7, 10}, text : {0}]

PageRequests ==
  LET Choice(S) == S \cup {NoChoice}
  IN  {a9_led(v) : v \in Choice({0, 1})}
        \cup {a9_beep(v) : v \in Choice({0, 1})}
        \cup {a9_seg(s, c) : s \in Choice({0, 1}), c \in 0..127}
        \cup {zigbee_fan(v) : v \in Choice(0..3)}
        \cup {setEnv(l) : l \in Limits}
        \cup {set_sms}
=============================================================================
