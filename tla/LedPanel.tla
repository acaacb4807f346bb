------------------------------- MODULE LedPanel -------------------------------
(***************************************************************************)
(* The four LEDs: the programs the led thread runs on them (pthread_led.c) *)
(* one ioctl at a time, and the driver that turns an ioctl into a register *)
(* write (drivers/fsled/demoarm.c).                                        *)
(*                                                                         *)
(* LED2 is pin 7 of GPX2, LED3 pin 0 of GPX1, LED4 and LED5 are pins 4 and *)
(* 5 of GPF3.  A register is the set of its bits that are 1.  led_on and   *)
(* led_off take the other bits of the data register from the CONTROL       *)
(* register, so a write to one LED decides about every LED of its bank.    *)
(*                                                                         *)
(* How bytes get into led_cmd and seg_cmd is CommandDispatch's subject;    *)
(* here a store may come whenever the led thread does not hold its mutex   *)
(* (CommandDispatch!MutexInv), and any wake-up may be lost or spurious.    *)
(***************************************************************************)
EXTENDS CgiForms, Sequences

CONSTANTS
  Boot,       \* [Bank -> bits of the control register] before the driver loads
  LedForms,   \* the messages of a9_led the user may send
  SegForms    \* the messages of a9_seg the user may send

Led == 2..5
Bank == {"GPX1", "GPX2", "GPF3"}

ASSUME PanelAssumption ==
  /\ Boot \in [Bank -> SUBSET (0..31)]
  /\ LedForms \subseteq {a9_led(v) : v \in {0, 1, NoChoice}}
  /\ SegForms \subseteq {a9_seg(s, c) : s \in {0, 1, NoChoice}, c \in 0..127}

BankOf(l) == CASE l = 2 -> "GPX2" [] l = 3 -> "GPX1" [] OTHER -> "GPF3"
Pin(l) == CASE l = 2 -> 7 [] l = 3 -> 0 [] OTHER -> l

(* The driver makes its pins outputs: a pin's nibble becomes 1.            *)
Control ==
  [b \in Bank |->
     LET pins == {Pin(l) : l \in {k \in Led : BankOf(k) = b}}
     IN  {i \in Boot[b] : i \div 4 \notin pins} \cup {4 * p : p \in pins}]

-----------------------------------------------------------------------------
(* The programs of the led thread, as sequences of ioctls.                 *)

On(l) == [op |-> "FS_LED_ON", led_num |-> l]
Off(l) == [op |-> "FS_LED_OFF", led_num |-> l]

fsled_close_all == [i \in 1..4 |-> Off(i + 1)]

(* times rounds of on and off for LED2 to LED5; times is 2. *)
fswaterled_control ==
  [i \in 1..16 |-> LET l == (((i - 1) \div 2) % 4) + 2
                   IN  IF i % 2 = 1 THEN On(l) ELSE Off(l)]

(* Bit i of the low nibble stands for LED i+2.  The loop ends with the      *)
(* highest bit that is set: the LEDs above it are not written.              *)
Bit(n, i) == (n \div (2^i)) % 2 = 1
Asked(n) == {l \in Led : Bit(n, l - 2)}
Visited(n) == CHOOSE k \in 0..4 : /\ \A i \in k..3 : ~Bit(n, i)
                                  /\ k # 0 => Bit(n, k - 1)

(* Mutants: does not switch everything off first; stops one LED early;      *)
(* starts with LED3.                                                        *)
fsled_control_NoClose(n) ==
  [i \in 1..Visited(n) |-> IF Bit(n, i - 1) THEN On(i + 1) ELSE Off(i + 1)]
fsled_control_Short(n) ==
  fsled_close_all
    \o [i \in 1..(IF Visited(n) = 4 THEN 3 ELSE Visited(n)) |->
          IF Bit(n, i - 1) THEN On(i + 1) ELSE Off(i + 1)]

fsled_control_Shifted(n) ==
  fsled_close_all
    \o [i \in 1..Visited(n) |-> IF Bit(n, i - 1) THEN On(i + 2) ELSE Off(i + 2)]

fsled_control(n) ==
  fsled_close_all
    \o [i \in 1..Visited(n) |-> IF Bit(n, i - 1) THEN On(i + 1) ELSE Off(i + 1)]

(* The four ifs of a round: the global, the bytes, what runs, what the user *)
(* asked to be lit afterwards, and whether the global is reset.             *)
Tests(n) == <<
  [of |-> "led_cmd", on |-> {65}, run |-> fswaterled_control, lit |-> {}, reset |-> TRUE],
  [of |-> "led_cmd", on |-> {64}, run |-> fsled_close_all, lit |-> {}, reset |-> TRUE],
  [of |-> "seg_cmd", on |-> {64}, run |-> fsled_close_all, lit |-> {}, reset |-> TRUE],
  [of |-> "seg_cmd", on |-> 112..127, run |-> fsled_control(n % 16),
   lit |-> Asked(n % 16), reset |-> FALSE] >>

-----------------------------------------------------------------------------
VARIABLES
  cmd,        \* [{"led_cmd", "seg_cmd"} -> Byte]
  pc,         \* the led thread is "away" from its mutex, "asleep" or in a "round"
  test,       \* the if of the round it is at; 5 after the last
  ioctls,     \* what is left of the program it runs
  lit,        \* the LEDs whose data bit is 1
  wanted      \* the LEDs the program run last was asked to leave lit

vars == <<cmd, pc, test, ioctls, lit, wanted>>

Init ==
  /\ cmd = [s \in {"led_cmd", "seg_cmd"} |-> 0]
  /\ pc = "away"
  /\ test = 1
  /\ ioctls = << >>
  /\ lit = {}
  /\ wanted = {}

(* client_request stores a message, with mutex_led held. *)
Receive(s, forms) ==
  /\ pc \in {"away", "asleep"}
  /\ \E m \in forms : cmd' = [cmd EXCEPT ![s] = m.text]
  /\ UNCHANGED <<pc, test, ioctls, lit, wanted>>

(* Lock and cond_wait. *)
Sleep ==
  /\ pc = "away"
  /\ pc' = "asleep"
  /\ UNCHANGED <<cmd, test, ioctls, lit, wanted>>

Wake ==
  /\ pc = "asleep"
  /\ pc' = "round" /\ test' = 1
  /\ UNCHANGED <<cmd, ioctls, lit, wanted>>

(* An if that is true: its program starts, or is over. *)
Enter ==
  /\ pc = "round" /\ test <= 4 /\ ioctls = << >>
  /\ LET t == Tests(cmd["seg_cmd"])[test] IN
       \/ /\ cmd[t.of] \in t.on
          /\ ioctls' = t.run
          /\ wanted' = t.lit
          /\ UNCHANGED test
       \/ /\ cmd[t.of] \notin t.on
          /\ test' = test + 1
          /\ UNCHANGED <<ioctls, wanted>>
  /\ UNCHANGED <<cmd, pc, lit>>

Written(bank, bits) ==
  {l \in lit : BankOf(l) # bank} \cup {l \in Led : BankOf(l) = bank /\ Pin(l) \in bits}

(* led_on and led_off write the control register's bits to the data one. *)
myled_ioctl(c) ==
  LET b == BankOf(c.led_num)
  IN  CASE c.op = "FS_LED_ON"  -> Written(b, Control[b] \cup {Pin(c.led_num)})
        [] c.op = "FS_LED_OFF" -> Written(b, Control[b] \ {Pin(c.led_num)})

(* One ioctl; the last one ends the body of the if, with its reset. *)
Ioctl ==
  /\ ioctls # << >>
  /\ lit' = myled_ioctl(Head(ioctls))
  /\ ioctls' = Tail(ioctls)
  /\ IF Len(ioctls) = 1
       THEN LET t == Tests(cmd["seg_cmd"])[test] IN
              /\ test' = test + 1
              /\ cmd' = [cmd EXCEPT ![t.of] = IF t.reset THEN 0 ELSE @]
       ELSE UNCHANGED <<test, cmd>>
  /\ UNCHANGED <<pc, wanted>>

Unlock ==
  /\ pc = "round" /\ test = 5
  /\ pc' = "away"
  /\ UNCHANGED <<cmd, test, ioctls, lit, wanted>>

Next == \/ Receive("led_cmd", LedForms)
        \/ Receive("seg_cmd", SegForms)
        \/ Sleep \/ Wake \/ Enter \/ Ioctl \/ Unlock

Spec == Init /\ [][Next]_vars

-----------------------------------------------------------------------------
(* Every variable stays in its range, and a program only runs inside an if. *)
TypeOK ==
  /\ cmd \in [{"led_cmd", "seg_cmd"} -> Byte]
  /\ pc \in {"away", "asleep", "round"} /\ test \in 1..5
  /\ ioctls \in Seq({On(l) : l \in Led} \cup {Off(l) : l \in Led})
  /\ lit \subseteq Led /\ wanted \subseteq Led
  /\ ioctls # << >> => pc = "round" /\ test # 5

(* A program leaves no LED lit that it was not asked to light: not one of   *)
(* an earlier pattern that its own, shorter, loop does not visit, and not   *)
(* one that shares its bank with the LEDs it writes.  After the light show  *)
(* and after off that means none, whatever the panel showed before.         *)
NothingUnasked == ioctls = << >> => lit \subseteq wanted

(* Of the LEDs asked for, the highest of each bank is lit: switching on     *)
(* LED2 and LED3 and the last LED of GPF3 is never undone by a later ioctl. *)
HighestShown ==
  ioctls = << >> =>
    \A l \in wanted : (\A k \in wanted : BankOf(k) = BankOf(l) => k <= l) => l \in lit

-----------------------------------------------------------------------------
(* A claim of the sources that the code does not keep.                      *)

(* "Read the current value of the data register, set bit 7 to 1"            *)
(* (demoarm.c:148-149): lighting one LED leaves the others of its bank as   *)
(* they are, so every LED of a pattern is lit at its end.                   *)
EveryAskedShown == ioctls = << >> => wanted \subseteq lit
=============================================================================
