------------------------------ MODULE SensorRead ------------------------------
(***************************************************************************)
(* How one fill of the record gets its values: the transfer thread         *)
(* (pthread_transfer.c) asks the ZigBee node over a serial line and waits  *)
(* for at most a second, then reads the ADC, whose driver (fsadc/adc.c)    *)
(* starts a conversion and sleeps until the interrupt.  The fan thread     *)
(* opens the same line and flushes its input when it starts                *)
(* (linuxuart.c).  The process may be killed; what is on the line and the  *)
(* driver's have_data outlive it.                                          *)
(*                                                                         *)
(* The node's answer to poll n has four characters, <<n, 1>> to <<n, 4>>:  *)
(* two digits of temperature, two of humidity.  They arrive in pieces, at  *)
(* any time, or not at all.                                                *)
(***************************************************************************)
EXTENDS Naturals, Sequences

CONSTANTS
  Polls,    \* bound: how many fills are made
  Starts    \* bound: how often the monitor is started

ASSUME SensorAssumption == Polls \in Nat \ {0} /\ Starts \in Nat \ {0}

Char == (1..Polls) \X (1..4)
Answer(n) == [i \in 1..4 |-> <<n, i>>]
Nul == <<0, 0>>
None == [temp |-> << >>, hum |-> << >>]     \* dh_temp and dh_humidity at start

Steps == {"down", "ask", "select", "read", "adc", "wait", "data", "reset"}

VARIABLES
  pc,          \* the call transfer is at, "down" if there is no monitor
  starts,      \* starts so far
  asked,       \* number of the poll, counting on through restarts
  wire,        \* characters on their way
  tty,         \* characters received and not read
  dh11_data,   \* the first four characters of the buffer
  shown,       \* the characters that dh_temp and dh_humidity were made of
  quiet,       \* nothing was under way when the question was sent
  taken,       \* characters read in this fill
  fan,         \* has the fan thread of this process set up the line?
  have_data,   \* the ADC driver's flag
  converting,  \* the fill whose conversion is going on, 0 if none
  adcdat,      \* the data register: the fill its value was converted in
  adc,         \* the same of the value read last
  cut          \* a wait for a conversion has been interrupted

process == <<pc, starts>>
line == <<asked, wire, tty, quiet, taken>>
reading == <<dh11_data, shown>>
driver == <<have_data, converting, adcdat, adc, cut>>
vars == <<process, line, reading, fan, driver>>

Init ==
  /\ pc = "down" /\ starts = 0
  /\ asked = 0 /\ wire = << >> /\ tty = << >> /\ quiet = TRUE /\ taken = 0
  /\ dh11_data = [i \in 1..4 |-> Nul] /\ shown = None
  /\ fan = TRUE
  /\ have_data = 0 /\ converting = 0 /\ adcdat = 0 /\ adc = 0 /\ cut = FALSE

Goto(from, to) == pc = from /\ pc' = to /\ UNCHANGED starts

-----------------------------------------------------------------------------
(* The process.                                                            *)

(* A start; transfer opens the line, which drops what had been received. *)
Start ==
  /\ pc = "down" /\ starts < Starts
  /\ pc' = "ask" /\ starts' = starts + 1
  /\ tty' = << >> /\ taken' = 0 /\ quiet' = FALSE
  /\ dh11_data' = [i \in 1..4 |-> Nul] /\ shown' = None
  /\ fan' = FALSE
  /\ UNCHANGED <<asked, wire, driver>>

(* The fan thread opens the line, at some time after the start. *)
FanFlush ==
  /\ ~fan /\ pc # "down"
  /\ fan' = TRUE
  /\ tty' = << >>
  /\ UNCHANGED <<process, asked, wire, quiet, taken, reading, driver>>

(* A kill ends the process; a sleeping ADC read returns early, as if the   *)
(* conversion were complete.  The driver's other steps are not interrupted. *)
Kill ==
  /\ pc \in {"ask", "select", "read", "adc", "wait"}
  /\ pc' = "down" /\ fan' = TRUE
  /\ have_data' = IF pc = "wait" THEN 0 ELSE have_data
  /\ cut' = (cut \/ (pc = "wait" /\ have_data = 0))
  /\ UNCHANGED <<starts, line, reading, converting, adcdat, adc>>

-----------------------------------------------------------------------------
(* The ZigBee node and the line.                                           *)

(* "22\n"; the node will answer, or does not get it. *)
Ask ==
  /\ Goto("ask", "select") /\ asked < Polls
  /\ asked' = asked + 1
  /\ wire' \in {wire, wire \o Answer(asked + 1)}
  /\ quiet' = (wire = << >> /\ tty = << >>)
  /\ taken' = 0
  /\ UNCHANGED <<tty, reading, fan, driver>>

Arrive ==
  \E k \in 1..Len(wire) :
    /\ tty' = tty \o SubSeq(wire, 1, k)
    /\ wire' = SubSeq(wire, k + 1, Len(wire))
    /\ UNCHANGED <<process, asked, quiet, taken, reading, fan, driver>>

Select ==
  /\ Goto("select", "read") /\ tty # << >>
  /\ UNCHANGED <<line, reading, fan, driver>>

(* A second without an answer: the old values are used. *)
Timeout ==
  /\ Goto("select", "adc") /\ tty = << >>
  /\ UNCHANGED <<line, reading, fan, driver>>

(* select or read fails: the record keeps the values it has. *)
Failure ==
  /\ pc \in {"select", "read"} /\ pc' = "adc"
  /\ UNCHANGED <<starts, line, reading, fan, driver>>

(* Mutant: room for one character more. *)
Room_OneMore == 6

(* sizeof(dh11_data): the most that one read takes. *)
Room == 5

(* Mutant: no terminator is written. *)
Filled_NoEnd(s) == [i \in 1..4 |-> IF i <= Len(s) THEN s[i] ELSE dh11_data[i]]

(* The buffer after a read of s: its characters, a terminator, old ones. *)
Filled(s) ==
  [i \in 1..4 |-> IF i <= Len(s) THEN s[i]
                  ELSE IF i = Len(s) + 1 THEN Nul ELSE dh11_data[i]]

(* atof of the two characters copied: it stops at a terminator. *)
Digits(a, b) == IF a = Nul THEN << >> ELSE IF b = Nul THEN <<a>> ELSE <<a, b>>

(* Mutant: the humidity is copied from the wrong offset. *)
Parsed_Offset(d) == [temp |-> Digits(d[1], d[2]), hum |-> Digits(d[2], d[3])]

Parsed(d) == [temp |-> Digits(d[1], d[2]), hum |-> Digits(d[3], d[4])]

(* The read takes what is there, and waits for the first character. *)
Read ==
  LET n == IF Len(tty) > Room THEN Room ELSE Len(tty)
      s == SubSeq(tty, 1, n)
  IN /\ Goto("read", "adc") /\ tty # << >>
     /\ tty' = SubSeq(tty, n + 1, Len(tty))
     /\ taken' = n
     /\ dh11_data' = Filled(s)
     /\ shown' = Parsed(Filled(s))
     /\ UNCHANGED <<asked, wire, quiet, fan, driver>>

-----------------------------------------------------------------------------
(* The ADC's driver and its interrupt.                                     *)

AdcStart ==
  /\ Goto("adc", "wait")
  /\ converting' = asked
  /\ UNCHANGED <<line, reading, fan, have_data, adcdat, adc, cut>>

AdcWait ==
  /\ Goto("wait", "data") /\ have_data = 1
  /\ UNCHANGED <<line, reading, fan, driver>>

AdcData ==
  /\ Goto("data", "reset")
  /\ adc' = adcdat
  /\ UNCHANGED <<line, reading, fan, have_data, converting, adcdat, cut>>

(* Mutant: the flag is not reset. *)
AdcReset_Missing ==
  /\ Goto("reset", "ask")
  /\ UNCHANGED <<line, reading, fan, driver>>

(* The flag is reset, and the fill is over. *)
AdcReset ==
  /\ Goto("reset", "ask")
  /\ have_data' = 0
  /\ UNCHANGED <<line, reading, fan, converting, adcdat, adc, cut>>

(* Mutant: the handler does not set the flag. *)
Handler_NoFlag ==
  /\ converting # 0
  /\ adcdat' = converting /\ converting' = 0
  /\ UNCHANGED <<process, line, reading, fan, have_data, adc, cut>>

(* End of conversion. *)
Handler ==
  /\ converting # 0
  /\ adcdat' = converting /\ converting' = 0
  /\ have_data' = 1
  /\ UNCHANGED <<process, line, reading, fan, adc, cut>>

-----------------------------------------------------------------------------
Transfer == Select \/ Timeout \/ Read \/ AdcStart \/ AdcWait \/ AdcData \/ AdcReset

Next == Start \/ FanFlush \/ Kill \/ Ask \/ Arrive \/ Failure \/ Transfer \/ Handler

Spec == Init /\ [][Next]_vars

(* The thread runs, a second passes, and a conversion ends; no failure has  *)
(* to happen.                                                               *)
FairSpec == Spec /\ WF_vars(Transfer) /\ WF_vars(Handler)

-----------------------------------------------------------------------------
(* Properties.                                                             *)

(* The type of every variable. *)
TypeOK ==
  /\ pc \in Steps /\ starts \in 0..Starts /\ asked \in 0..Polls
  /\ wire \in Seq(Char) /\ tty \in Seq(Char)
  /\ dh11_data \in [1..4 -> Char \cup {Nul}]
  /\ shown \in [temp : Seq(Char), hum : Seq(Char)]
  /\ Len(shown.temp) <= 2 /\ Len(shown.hum) <= 2
  /\ quiet \in BOOLEAN /\ fan \in BOOLEAN /\ cut \in BOOLEAN
  /\ taken \in 0..5
  /\ have_data \in {0, 1}
  /\ {converting, adcdat, adc} \subseteq 0..asked

(* Values from a line that was quiet when the question was sent, read in    *)
(* one piece, are the four characters of the answer to that question,       *)
(* whatever partial and late answers came before.                           *)
QuietAnswer ==
  pc = "adc" /\ quiet /\ taken = 4 =>
    shown = [temp |-> << <<asked, 1>>, <<asked, 2>> >>,
             hum |-> << <<asked, 3>>, <<asked, 4>> >>]

(* Reads return pieces, the buffer is never cleared, and nothing marks       *)
(* where an answer begins.  A number of two digits that is shown is made of  *)
(* characters that followed each other on the line: two of one answer, or a  *)
(* splice of the last character of an answer and the first of a later one,   *)
(* never a new digit and an old one.                                         *)
Within(a, b) == b = <<a[1], a[2] + 1>>
Splice(a, b) == a[2] = 4 /\ b[2] = 1 /\ b[1] > a[1]
Follows(a, b) == Within(a, b) \/ Splice(a, b)
LineOrder ==
  \A t \in {shown.temp, shown.hum} : Len(t) = 2 => Follows(t[1], t[2])

(* If the line was quiet when the question was sent and more than one       *)
(* character is read, there is no splice: both digits are of this answer.   *)
(* (A read of one character leaves the humidity of the fill before.)        *)
OwnDigits ==
  pc = "adc" /\ quiet /\ taken > 1 =>
    \A t \in {shown.temp, shown.hum} :
      Len(t) = 2 => t[1][1] = asked /\ Within(t[1], t[2])

(* Both hold: a shown number follows the line, and is of this fill's answer *)
(* if the line was quiet.                                                   *)
DigitsTogether == LineOrder /\ OwnDigits

(* As long as no wait for the ADC was interrupted, the value read is that   *)
(* of the conversion that this fill started.  (An interrupted wait leaves   *)
(* an interrupt to come, which satisfies the next read too early, and so on *)
(* for ever: have_data stays one conversion ahead.)                         *)
ConversionFresh == pc = "reset" /\ ~cut => adc = asked

(* Once the fan thread has set up the line, every fill comes to its end,    *)
(* answers or not.  (Before that, its flush can take away the answer that   *)
(* select has announced, and the read waits for ever.)                      *)
FillEnds == (pc = "select" /\ fan) ~> pc \in {"ask", "down"}
=============================================================================
