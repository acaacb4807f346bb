---------------------------- MODULE LedPanelProofs ----------------------------
(***************************************************************************)
(* Proofs about LedPanel for any forms and any control registers.          *)
(*                                                                         *)
(* What the panel will show does not depend on how far a program has got:  *)
(* for each LED the last ioctl to come on its bank decides, or its data    *)
(* bit if there is none.  An ioctl keeps this by nature; that a program    *)
(* brings about what it was asked to is a fact about its ioctls alone.     *)
(***************************************************************************)
EXTENDS LedPanel, SequenceTheorems, TLAPS

(* What an ioctl leaves lit of its bank.                                    *)
Lights(c) ==
  {l \in Led : /\ BankOf(l) = BankOf(c.led_num)
               /\ IF c.op = "FS_LED_ON" THEN Pin(l) \in Control[BankOf(l)] \cup {Pin(c.led_num)}
                                        ELSE Pin(l) \in Control[BankOf(l)] \ {Pin(c.led_num)}}

Untouched(p, l) == \A i \in 1..Len(p) : BankOf(p[i].led_num) # BankOf(l)
LastOn(p, i, l) ==
  /\ i \in 1..Len(p) /\ BankOf(p[i].led_num) = BankOf(l)
  /\ \A j \in i + 1..Len(p) : BankOf(p[j].led_num) # BankOf(l)

WillBeDark(l) ==
  \/ Untouched(ioctls, l) /\ l \notin lit
  \/ \E i \in 1..Len(ioctls) : LastOn(ioctls, i, l) /\ l \notin Lights(ioctls[i])
WillBeLit(l) ==
  \/ Untouched(ioctls, l) /\ l \in lit
  \/ \E i \in 1..Len(ioctls) : LastOn(ioctls, i, l) /\ l \in Lights(ioctls[i])

Highest(l, w) == l \in w /\ \A k \in w : BankOf(k) = BankOf(l) => k <= l

DarkInv == \A l \in Led \ wanted : WillBeDark(l)
LitInv == \A l \in Led : Highest(l, wanted) => WillBeLit(l)

(* The control register of the bank that two LEDs share does not have the   *)
(* bits 4 and 5 set, of the nibbles that say what pin 1 is for: led_on and  *)
(* led_off would write them to LED4 and LED5.  They are 0 after a reset.    *)
BootClear == {4, 5} \cap Boot["GPF3"] = {}

IInv == TypeOK /\ LitInv /\ (BootClear => DarkInv)

IoctlCommand == {On(l) : l \in Led} \cup {Off(l) : l \in Led}

-----------------------------------------------------------------------------
(* The LEDs, their banks and their pins.                                    *)
LEMMA Banks ==
  /\ BankOf(2) = "GPX2" /\ BankOf(3) = "GPX1" /\ BankOf(4) = "GPF3" /\ BankOf(5) = "GPF3"
  /\ Pin(2) = 7 /\ Pin(3) = 0 /\ Pin(4) = 4 /\ Pin(5) = 5
  /\ \A l \in Led : l = 2 \/ l = 3 \/ l = 4 \/ l = 5
BY DEF BankOf, Pin, Led

(* Bits 4 and 5 of the shared bank's control register stay 0.               *)
LEMMA ControlClear ==
  ASSUME BootClear
  PROVE  4 \notin Control["GPF3"] /\ 5 \notin Control["GPF3"]
<1> DEFINE pins == {Pin(l) : l \in {k \in Led : BankOf(k) = "GPF3"}}
<1>1. Control["GPF3"] = {i \in Boot["GPF3"] : i \div 4 \notin pins} \cup {4 * p : p \in pins}
  BY DEF Control, Bank
<1>2. \A p \in pins : p = 4 \/ p = 5
  BY Banks
<1> HIDE DEF pins
<1>3. \A p \in pins : 4 * p # 4 /\ 4 * p # 5
  BY <1>2
<1> QED
  BY <1>1, <1>3 DEF BootClear

(* Switching the LED of a bank of its own, and LED5 after LED4.             *)
LEMMA LightsOf ==
  /\ \A l \in Led : l \in Lights(On(l)) /\ l \notin Lights(Off(l))
  /\ \A l \in Led, k \in Led : k \in Lights(On(l)) \cup Lights(Off(l)) => BankOf(k) = BankOf(l)
  /\ BootClear => \A k \in Led, l \in Led :
       k \in Lights(On(l)) \cup Lights(Off(l)) => k = l
<1>1. \A l \in Led : /\ On(l).op = "FS_LED_ON" /\ On(l).led_num = l
                     /\ Off(l).op # "FS_LED_ON" /\ Off(l).led_num = l
  BY DEF On, Off
<1>2. \A l \in Led : l \in Lights(On(l)) /\ l \notin Lights(Off(l))
  BY <1>1 DEF Lights
<1>3. \A l \in Led, k \in Led : k \in Lights(On(l)) \cup Lights(Off(l)) => BankOf(k) = BankOf(l)
  BY <1>1 DEF Lights
<1>4. ASSUME BootClear, NEW k \in Led, NEW l \in Led, k \in Lights(On(l)) \cup Lights(Off(l))
      PROVE  k = l
  <2>1. BankOf(k) = BankOf(l)
    BY <1>3, <1>4
  <2>2. k = l \/ (k \in {4, 5} /\ l \in {4, 5} /\ BankOf(k) = "GPF3")
    BY <2>1, Banks
  <2>3. CASE k \in {4, 5} /\ l \in {4, 5} /\ BankOf(k) = "GPF3"
    <3>1. Pin(k) \notin Control[BankOf(k)]
      BY <1>4, <2>3, Banks, ControlClear
    <3>2. Pin(k) = Pin(l)
      BY <1>1, <1>4, <3>1 DEF Lights
    <3> QED
      BY <2>3, <3>2, Banks
  <2> QED
    BY <2>2, <2>3
<1> QED
  BY <1>2, <1>3, <1>4

(* The bits of a write, in terms of Lights.                                 *)
LEMMA IoctlWrites ==
  ASSUME NEW c \in IoctlCommand, lit \subseteq Led
  PROVE  /\ myled_ioctl(c) \subseteq Led
         /\ \A l \in Led : BankOf(l) # BankOf(c.led_num) => (l \in myled_ioctl(c) <=> l \in lit)
         /\ \A l \in Led : BankOf(l) = BankOf(c.led_num) =>
              (l \in myled_ioctl(c) <=> l \in Lights(c))
<1>1. CASE c.op = "FS_LED_ON"
  <2>1. myled_ioctl(c) = Written(BankOf(c.led_num), Control[BankOf(c.led_num)] \cup {Pin(c.led_num)})
    BY <1>1 DEF myled_ioctl
  <2> QED
    BY <1>1, <2>1 DEF Written, Lights
<1>2. CASE c.op = "FS_LED_OFF"
  <2>1. myled_ioctl(c) = Written(BankOf(c.led_num), Control[BankOf(c.led_num)] \ {Pin(c.led_num)})
    BY <1>2 DEF myled_ioctl
  <2> QED
    BY <1>2, <2>1 DEF Written, Lights
<1>3. c.op = "FS_LED_ON" \/ c.op = "FS_LED_OFF"
  BY DEF IoctlCommand, On, Off
<1> QED
  BY <1>1, <1>2, <1>3

(* What will be shown does not change with an ioctl.                        *)
LEMMA IoctlDecides ==
  ASSUME TypeOK, Ioctl, NEW l \in Led
  PROVE  /\ WillBeDark(l) => WillBeDark(l)'
         /\ WillBeLit(l) => WillBeLit(l)'
<1>1. PICK c \in IoctlCommand : c = ioctls[1] /\ lit' = myled_ioctl(c)
  <2>1. ioctls \in Seq(IoctlCommand) /\ ioctls # << >>
    BY DEF TypeOK, Ioctl, IoctlCommand
  <2>2. Head(ioctls) = ioctls[1] /\ Head(ioctls) \in IoctlCommand
    BY <2>1
  <2> QED
    BY <2>2 DEF Ioctl
<1>2. PICK n \in Nat : /\ n = Len(ioctls) /\ n > 0 /\ Len(ioctls') = n - 1
                      /\ \A i \in 1..n - 1 : ioctls'[i] = ioctls[i + 1]
  <2>1. ioctls \in Seq(IoctlCommand) /\ ioctls # << >> /\ ioctls' = Tail(ioctls)
    BY DEF TypeOK, Ioctl, IoctlCommand
  <2>2. Len(ioctls) \in Nat /\ Len(ioctls) > 0
    BY <2>1, EmptySeq
  <2>3. /\ Len(Tail(ioctls)) = Len(ioctls) - 1
        /\ \A i \in 1..Len(Tail(ioctls)) : Tail(ioctls)[i] = ioctls[i + 1]
    <3>1. PICK s \in Seq(IoctlCommand) : s = ioctls /\ s # << >>
      BY <2>1
    <3>2. Len(Tail(s)) = Len(s) - 1
      BY <3>1
    <3>3. \A i \in 1..Len(Tail(s)) : Tail(s)[i] = s[i + 1]
      BY <3>1
    <3> QED
      BY <3>1, <3>2, <3>3
  <2>4. PICK n \in Nat : n = Len(ioctls) /\ n > 0
    BY <2>2
  <2>5. Len(ioctls') = n - 1 /\ \A i \in 1..n - 1 : ioctls'[i] = ioctls[i + 1]
    BY ONLY <2>1, <2>3, <2>4
  <2> QED
    BY ONLY <2>4, <2>5
<1>3. lit \subseteq Led
  BY DEF TypeOK
<1>4. CASE Untouched(ioctls, l)
  <2>1. BankOf(c.led_num) # BankOf(l)
    BY <1>1, <1>2, <1>4 DEF Untouched
  <2>2. Untouched(ioctls', l)
    <3> SUFFICES ASSUME NEW i \in 1..n - 1 PROVE BankOf(ioctls'[i].led_num) # BankOf(l)
      BY <1>2 DEF Untouched
    <3>1. i + 1 \in 1..n
      OBVIOUS
    <3> QED
      BY <1>2, <1>4, <3>1 DEF Untouched
  <2>3. l \in lit' <=> l \in lit
    BY <1>1, <1>3, <2>1, IoctlWrites
  <2>4. ~\E i \in 1..Len(ioctls) : LastOn(ioctls, i, l)
    BY <1>4 DEF Untouched, LastOn
  <2> QED
    BY <2>2, <2>3, <2>4 DEF WillBeDark, WillBeLit
<1>5. ASSUME NEW i \in 1..n, LastOn(ioctls, i, l)
      PROVE  /\ l \in Lights(ioctls[i]) => WillBeLit(l)'
             /\ l \notin Lights(ioctls[i]) => WillBeDark(l)'
  <2>1. CASE i = 1
    <3>1. l \in lit' <=> l \in Lights(ioctls[i])
      BY <1>1, <1>3, <1>5, <2>1, IoctlWrites DEF LastOn
    <3>2. Untouched(ioctls', l)
      <4> SUFFICES ASSUME NEW j \in 1..n - 1 PROVE BankOf(ioctls'[j].led_num) # BankOf(l)
        BY <1>2 DEF Untouched
      <4>1. j + 1 \in i + 1..n
        BY <2>1
      <4> QED
        BY <1>2, <1>5, <4>1 DEF LastOn
    <3> QED
      BY <3>1, <3>2 DEF WillBeDark, WillBeLit
  <2>2. CASE i # 1
    <3>1. PICK k \in 1..n - 1 : k + 1 = i
      <4>1. i - 1 \in 1..n - 1 /\ (i - 1) + 1 = i
        BY <2>2
      <4> QED
        BY <4>1
    <3>2. ioctls'[k] = ioctls[i]
      BY <1>2, <3>1
    <3>3. LastOn(ioctls', k, l)
      <4>1. BankOf(ioctls'[k].led_num) = BankOf(l)
        BY <1>5, <3>2 DEF LastOn
      <4>2. ASSUME NEW j \in k + 1..n - 1 PROVE BankOf(ioctls'[j].led_num) # BankOf(l)
        <5>1. j + 1 \in i + 1..n /\ j \in 1..n - 1
          BY <3>1
        <5> QED
          BY <1>2, <1>5, <5>1 DEF LastOn
      <4> QED
        BY <1>2, <3>1, <4>1, <4>2 DEF LastOn
    <3> QED
      BY <1>2, <3>1, <3>2, <3>3 DEF WillBeDark, WillBeLit
  <2> QED
    BY <2>1, <2>2
<1> QED
  BY <1>2, <1>4, <1>5 DEF WillBeDark, WillBeLit

-----------------------------------------------------------------------------
(* What a program brings about, whatever the panel showed before it.        *)
Shows(p, w) ==
  /\ p \in Seq(IoctlCommand)
  /\ \A l \in Led :
       \E i \in 1..Len(p) :
         /\ LastOn(p, i, l)
         /\ Highest(l, w) => l \in Lights(p[i])
         /\ BootClear /\ l \notin w => l \notin Lights(p[i])

(* Off and the light show leave nothing lit.                                *)
LEMMA CloseAllOrder ==
  /\ fsled_close_all \in Seq(IoctlCommand) /\ Len(fsled_close_all) = 4
  /\ \A i \in 1..4 : fsled_close_all[i] = Off(i + 1)
<1> DEFINE p == fsled_close_all
<1>1. p = << Off(2), Off(3), Off(4), Off(5) >>
  BY DEF fsled_close_all
<1>2. /\ Off(2) \in IoctlCommand /\ Off(3) \in IoctlCommand
      /\ Off(4) \in IoctlCommand /\ Off(5) \in IoctlCommand
  BY DEF IoctlCommand, Led
<1> HIDE DEF p
<1>3. p \in Seq(IoctlCommand) /\ Len(p) = 4
  BY <1>1, <1>2
<1>4. /\ p[1] = Off(2) /\ p[2] = Off(3) /\ p[3] = Off(4) /\ p[4] = Off(5)
  BY <1>1
<1>5. \A i \in 1..4 : p[i] = Off(i + 1)
  <2>1. \A i \in 1..4 : i = 1 \/ i = 2 \/ i = 3 \/ i = 4
    OBVIOUS
  <2>2. 1 + 1 = 2 /\ 2 + 1 = 3 /\ 3 + 1 = 4 /\ 4 + 1 = 5
    OBVIOUS
  <2> QED
    BY ONLY <1>4, <2>1, <2>2
<1> QED
  BY <1>3, <1>5 DEF p

LEMMA CloseAllShows == Shows(fsled_close_all, {})
<1> DEFINE p == fsled_close_all
<1>1. p \in Seq(IoctlCommand) /\ Len(p) = 4 /\ \A i \in 1..4 : p[i] = Off(i + 1)
  BY CloseAllOrder
<1> HIDE DEF p
<1>2. \A l \in Led : ~Highest(l, {})
  BY DEF Highest
<1>3. /\ p[1] = Off(2) /\ p[2] = Off(3) /\ p[4] = Off(5)
      /\ \A i \in 1..4 : p[i].led_num = i + 1 /\ i + 1 \in Led
  BY <1>1 DEF Off, Led
<1>4. LastOn(p, 1, 2)
  <2>1. \A j \in 2..4 : p[j].led_num \in 3..5
    BY <1>3
  <2> QED
    BY <1>1, <1>3, <2>1, Banks DEF LastOn
<1>5. LastOn(p, 2, 3)
  <2>1. \A j \in 3..4 : p[j].led_num \in 4..5
    BY <1>3
  <2> QED
    BY <1>1, <1>3, <2>1, Banks DEF LastOn
<1>6. LastOn(p, 4, 4) /\ LastOn(p, 4, 5)
  BY <1>1, <1>3, Banks DEF LastOn
<1>7. 2 \notin Lights(p[1]) /\ 3 \notin Lights(p[2]) /\ 5 \notin Lights(p[4])
  BY <1>3, LightsOf DEF Led
<1>8. BootClear => 4 \notin Lights(p[4])
  BY <1>3, LightsOf DEF Led
<1>10. ASSUME NEW l \in Led
       PROVE  \E i \in 1..4 : LastOn(p, i, l) /\ (BootClear => l \notin Lights(p[i]))
  BY <1>4, <1>5, <1>6, <1>7, <1>8, Banks
<1> QED
  BY <1>1, <1>2, <1>10 DEF Shows, p

LEMMA WaterledShows == Shows(fswaterled_control, {})
<1> DEFINE p == fswaterled_control
           led(i) == (((i - 1) \div 2) % 4) + 2
<1>1. /\ \A i \in 1..16 : p[i] = IF i % 2 = 1 THEN On(led(i)) ELSE Off(led(i))
      /\ p = [i \in 1..16 |-> p[i]]
  BY DEF fswaterled_control
<1>2. \A i \in 1..16 : led(i) \in Led
  BY DEF Led
<1>3. /\ led(10) = 2 /\ led(11) = 3 /\ led(12) = 3 /\ led(13) = 4 /\ led(14) = 4
      /\ led(15) = 5 /\ led(16) = 5
      /\ 10 % 2 # 1 /\ 12 % 2 # 1 /\ 16 % 2 # 1
  OBVIOUS
<1> HIDE DEF p, led
<1>4. \A i \in 1..16 : p[i] \in IoctlCommand /\ p[i].led_num = led(i)
  BY <1>1, <1>2 DEF IoctlCommand, On, Off
<1>5. p \in Seq(IoctlCommand) /\ Len(p) = 16
  <2>1. PICK n \in Nat : n = 16
    OBVIOUS
  <2>2. p \in [1..n -> IoctlCommand]
    BY ONLY <1>1, <1>4, <2>1
  <2>3. p \in Seq(IoctlCommand) /\ Len(p) = n
    BY ONLY <2>2, n \in Nat
  <2> QED
    BY <2>1, <2>3
<1>6. p[10] = Off(2) /\ p[12] = Off(3) /\ p[16] = Off(5)
  BY <1>1, <1>3
<1>7. \A j \in 11..16 : p[j].led_num \in 3..5 /\ (j > 12 => p[j].led_num \in 4..5)
  <2>1. \A j \in 11..16 : led(j) \in 3..5 /\ (j > 12 => led(j) \in 4..5)
    BY <1>3
  <2> QED
    BY <1>4, <2>1
<1>8. LastOn(p, 10, 2)
  BY <1>5, <1>6, <1>7, Banks DEF LastOn, Off
<1>9. LastOn(p, 12, 3)
  BY <1>5, <1>6, <1>7, Banks DEF LastOn, Off
<1>10. LastOn(p, 16, 4) /\ LastOn(p, 16, 5)
  BY <1>5, <1>6, Banks DEF LastOn, Off
<1>11. 2 \notin Lights(p[10]) /\ 3 \notin Lights(p[12]) /\ 5 \notin Lights(p[16])
  BY <1>6, LightsOf DEF Led
<1>12. BootClear => 4 \notin Lights(p[16])
  BY <1>6, LightsOf DEF Led
<1>13. ASSUME NEW l \in Led
       PROVE  \E i \in 1..16 : LastOn(p, i, l) /\ (BootClear => l \notin Lights(p[i]))
  BY <1>8, <1>9, <1>10, <1>11, <1>12, Banks
<1>15. \A l \in Led : ~Highest(l, {})
  BY DEF Highest
<1> QED
  BY <1>5, <1>13, <1>15 DEF Shows, p

(* The loop of fsled_control stops behind the highest bit.                  *)
LEMMA VisitedEnd ==
  ASSUME NEW n \in 0..15
  PROVE  /\ Visited(n) \in 0..4
         /\ \A i \in 0..3 : i >= Visited(n) => ~Bit(n, i)
         /\ Visited(n) # 0 => Bit(n, Visited(n) - 1)
<1> DEFINE P(k) == (\A i \in k..3 : ~Bit(n, i)) /\ (k # 0 => Bit(n, k - 1))
<1>1. \E k \in 0..4 : P(k)
  <2>1. CASE Bit(n, 3)
    <3>1. P(4)
      BY <2>1
    <3> QED
      BY <3>1
  <2>2. CASE ~Bit(n, 3) /\ Bit(n, 2)
    <3>1. P(3)
      BY <2>2
    <3> QED
      BY <3>1
  <2>3. CASE ~Bit(n, 3) /\ ~Bit(n, 2) /\ Bit(n, 1)
    <3>1. P(2)
      BY <2>3
    <3> QED
      BY <3>1
  <2>4. CASE ~Bit(n, 3) /\ ~Bit(n, 2) /\ ~Bit(n, 1) /\ Bit(n, 0)
    <3>1. P(1)
      BY <2>4
    <3> QED
      BY <3>1
  <2>5. CASE ~Bit(n, 3) /\ ~Bit(n, 2) /\ ~Bit(n, 1) /\ ~Bit(n, 0)
    <3>1. P(0)
      BY <2>5
    <3> QED
      BY <3>1
  <2> QED
    BY <2>1, <2>2, <2>3, <2>4, <2>5
<1>2. Visited(n) = CHOOSE k \in 0..4 : P(k)
  BY DEF Visited
<1>3. Visited(n) \in 0..4 /\ P(Visited(n))
  <2> HIDE DEF P
  <2> QED
    BY <1>1, <1>2
<1> QED
  BY <1>3

(* A pattern shows the highest LED of each bank that is asked for, and no   *)
(* other.                                                                   *)
LEMMA PatternShows ==
  ASSUME NEW n \in 0..15
  PROVE  Shows(fsled_control(n), Asked(n))
<1> DEFINE V == Visited(n)
           e(i) == IF Bit(n, i - 1) THEN On(i + 1) ELSE Off(i + 1)
           q == [i \in 1..V |-> e(i)]
           p == fsled_close_all \o q
           w == Asked(n)
<1>1. /\ V \in 0..4 /\ \A i \in 0..3 : i >= V => ~Bit(n, i)
      /\ V # 0 => Bit(n, V - 1)
  BY VisitedEnd
<1> HIDE DEF V
<1>2. \A i \in 1..V : i + 1 \in Led /\ e(i) \in IoctlCommand /\ e(i).led_num = i + 1
  <2> SUFFICES ASSUME NEW i \in 1..V
               PROVE  i + 1 \in Led /\ e(i) \in IoctlCommand /\ e(i).led_num = i + 1
    OBVIOUS
  <2>1. i + 1 \in Led
    BY <1>1 DEF Led
  <2> QED
    BY <2>1 DEF IoctlCommand, On, Off
<1> HIDE DEF e
<1>3. q \in Seq(IoctlCommand) /\ Len(q) = V /\ \A i \in 1..V : q[i] = e(i)
  <2>1. q \in [1..V -> IoctlCommand] /\ \A i \in 1..V : q[i] = e(i)
    BY <1>2
  <2>2. V \in Nat
    BY <1>1
  <2> HIDE DEF q
  <2> QED
    BY ONLY <2>1, <2>2
<1> HIDE DEF q
<1>4. /\ p \in Seq(IoctlCommand) /\ Len(p) = 4 + V
      /\ \A i \in 1..4 + V : p[i] = IF i <= 4 THEN fsled_close_all[i] ELSE q[i - 4]
  <2>1. /\ p \in Seq(IoctlCommand) /\ Len(p) = Len(fsled_close_all) + Len(q)
        /\ \A i \in 1..Len(fsled_close_all) + Len(q) :
             p[i] = IF i <= Len(fsled_close_all) THEN fsled_close_all[i]
                    ELSE q[i - Len(fsled_close_all)]
    BY <1>3, CloseAllOrder, ConcatProperties
  <2> HIDE DEF p
  <2> QED
    BY <1>3, <2>1, CloseAllOrder
<1> HIDE DEF p
<1>5. \A i \in 1..4 : p[i] = Off(i + 1) /\ p[i].led_num = i + 1
  <2>1. \A i \in 1..4 : i \in 1..4 + V /\ i <= 4
    BY <1>1
  <2>2. \A i \in 1..4 : p[i] = Off(i + 1)
    BY <1>4, <2>1, CloseAllOrder
  <2> QED
    BY <2>2 DEF Off
<1>6. \A i \in 1..V : p[i + 4] = e(i) /\ p[i + 4].led_num = i + 1
  <2> SUFFICES ASSUME NEW i \in 1..V PROVE p[i + 4] = e(i)
    BY <1>2
  <2>1. i + 4 \in 1..4 + V /\ ~(i + 4 <= 4) /\ (i + 4) - 4 = i
    BY <1>1
  <2>2. p[i + 4] = q[(i + 4) - 4]
    BY ONLY <1>4, <2>1
  <2> QED
    BY <1>3, <2>1, <2>2
<1>7. \A k \in 5..4 + V : p[k].led_num = k - 3
  <2> SUFFICES ASSUME NEW k \in 5..4 + V PROVE p[k].led_num = k - 3
    OBVIOUS
  <2>1. k - 4 \in 1..V /\ (k - 4) + 4 = k /\ (k - 4) + 1 = k - 3
    BY <1>1
  <2> QED
    BY <1>6, <2>1
<1>8. \A l \in Led : l \in w <=> Bit(n, l - 2)
  BY DEF Asked
<1> HIDE DEF w
<1> DEFINE Good(i, l) == /\ LastOn(p, i, l)
                         /\ Highest(l, w) => l \in Lights(p[i])
                         /\ BootClear /\ l \notin w => l \notin Lights(p[i])
<1>9. ASSUME NEW l \in {2, 3} PROVE \E i \in 1..Len(p) : Good(i, l)
  <2>0. l \in Led /\ l - 1 \in 1..4 /\ (l - 1) + 1 = l /\ (l - 1) - 1 = l - 2
    BY DEF Led
  <2>a. \A k \in 3..5 : BankOf(k) # BankOf(2) /\ (k > 3 => BankOf(k) # BankOf(3))
    BY Banks
  <2>1. CASE V >= l - 1
    <3>1. p[l + 3] = e(l - 1) /\ p[l + 3].led_num = l /\ l + 3 \in 1..4 + V
      <4>1. l - 1 \in 1..V /\ (l - 1) + 4 = l + 3
        BY <1>1, <2>1
      <4> QED
        BY <1>1, <1>6, <2>0, <4>1
    <3>2. ASSUME NEW j \in (l + 3) + 1..4 + V PROVE BankOf(p[j].led_num) # BankOf(l)
      <4>1. j \in 5..4 + V /\ j - 3 \in 3..5 /\ j - 3 > l
        BY <1>1
      <4> QED
        BY <1>7, <2>a, <4>1
    <3>3. LastOn(p, l + 3, l)
      BY <1>4, <3>1, <3>2 DEF LastOn
    <3>4. e(l - 1) = IF Bit(n, l - 2) THEN On(l) ELSE Off(l)
      BY <2>0 DEF e
    <3>5. l \in Lights(p[l + 3]) <=> l \in w
      BY <1>8, <2>0, <3>1, <3>4, LightsOf
    <3> QED
      BY <1>4, <3>1, <3>3, <3>5 DEF Highest
  <2>2. CASE V < l - 1
    <3>1. p[l - 1] = Off(l) /\ p[l - 1].led_num = l /\ l - 1 \in 1..4 + V
      BY <1>1, <1>5, <2>0
    <3>2. ASSUME NEW j \in (l - 1) + 1..4 + V PROVE BankOf(p[j].led_num) # BankOf(l)
      <4>1. CASE j <= 4
        <5>1. j \in 1..4 /\ j + 1 \in 3..5 /\ j + 1 > l
          BY <1>1, <4>1
        <5> QED
          BY <1>5, <2>a, <5>1
      <4>2. CASE j > 4
        <5>1. j = 5 /\ l = 3 /\ V = 1
          BY <1>1, <2>2, <4>2
        <5>2. p[j].led_num = 2
          BY <1>7, <5>1
        <5> QED
          BY <5>1, <5>2, Banks
      <4>3. j <= 4 \/ j > 4
        BY <1>1
      <4> QED
        BY <4>1, <4>2, <4>3
    <3>3. LastOn(p, l - 1, l)
      BY <1>4, <3>1, <3>2 DEF LastOn
    <3>4. l \notin w
      <4>1. l - 2 \in 0..3 /\ l - 2 >= V
        BY <1>1, <2>2
      <4> QED
        BY <1>1, <1>8, <2>0, <4>1
    <3>5. l \notin Lights(p[l - 1])
      BY <2>0, <3>1, LightsOf
    <3> QED
      BY <1>4, <3>1, <3>3, <3>4, <3>5 DEF Highest
  <2> QED
    BY <1>1, <2>1, <2>2
<1>10. ASSUME NEW l \in {4, 5} PROVE \E i \in 1..Len(p) : Good(i, l)
  <2>0. /\ BankOf(l) = "GPF3" /\ BankOf(4) = "GPF3" /\ BankOf(5) = "GPF3"
        /\ l \in Led /\ 4 \in Led /\ 5 \in Led
        /\ BankOf(2) # "GPF3" /\ BankOf(3) # "GPF3"
    BY Banks DEF Led
  <2>1. CASE V = 4
    <3>1. p[8] = e(4) /\ p[8].led_num = 5 /\ Bit(n, 3) /\ Len(p) = 8
      BY <1>1, <1>4, <1>6, <2>1
    <3>2. p[8] = On(5)
      BY <3>1 DEF e
    <3>3. LastOn(p, 8, l)
      BY <2>0, <3>1 DEF LastOn
    <3>4. 5 \in w
      BY <1>8, <2>0, <3>1
    <3>5. l = 4 => ~Highest(l, w)
      BY <2>0, <3>4 DEF Highest
    <3>6. 5 \in Lights(p[8]) /\ (BootClear => 4 \notin Lights(p[8]))
      BY <2>0, <3>2, LightsOf
    <3> QED
      BY <3>1, <3>3, <3>4, <3>5, <3>6
  <2>2. CASE V = 3
    <3>1. p[7] = e(3) /\ p[7].led_num = 4 /\ Bit(n, 2) /\ ~Bit(n, 3) /\ Len(p) = 7
      BY <1>1, <1>4, <1>6, <2>2
    <3>2. p[7] = On(4)
      BY <3>1 DEF e
    <3>3. LastOn(p, 7, l)
      BY <2>0, <3>1 DEF LastOn
    <3>4. 4 \in w /\ 5 \notin w
      BY <1>8, <2>0, <3>1
    <3>5. l = 5 => ~Highest(l, w)
      BY <3>4 DEF Highest
    <3>6. 4 \in Lights(p[7]) /\ (BootClear => 5 \notin Lights(p[7]))
      BY <2>0, <3>2, LightsOf
    <3> QED
      BY <3>1, <3>3, <3>4, <3>5, <3>6
  <2>3. CASE V <= 2
    <3>1. p[4] = Off(5) /\ p[4].led_num = 5 /\ 4 \in 1..Len(p)
      BY <1>1, <1>4, <1>5
    <3>2. ASSUME NEW j \in 5..4 + V PROVE BankOf(p[j].led_num) # BankOf(l)
      <4>1. j - 3 \in {2, 3}
        BY <1>1, <2>3
      <4> QED
        BY <1>7, <2>0, <4>1
    <3>3. LastOn(p, 4, l)
      BY <1>4, <2>0, <3>1, <3>2 DEF LastOn
    <3>4. l \notin w
      <4>1. l - 2 \in 0..3 /\ l - 2 >= V
        BY <1>1, <2>3
      <4> QED
        BY <1>1, <1>8, <2>0, <4>1
    <3>5. BootClear => l \notin Lights(p[4])
      BY <2>0, <3>1, LightsOf
    <3> QED
      BY <3>1, <3>3, <3>4, <3>5 DEF Highest
  <2> QED
    BY <1>1, <2>1, <2>2, <2>3
<1>12. p = fsled_control(n) /\ w = Asked(n)
  BY DEF p, q, e, V, w, fsled_control
<1>13. \A l \in Led : \E i \in 1..Len(p) : Good(i, l)
  <2> HIDE DEF Good
  <2> QED
    BY <1>9, <1>10, Banks
<1> QED
  BY <1>4, <1>12, <1>13 DEF Shows

-----------------------------------------------------------------------------
(* The four ifs of a round.                                                 *)
LEMMA RoundTests ==
  ASSUME NEW n \in Byte, NEW i \in 1..4
  PROVE  /\ Tests(n)[i].of \in {"led_cmd", "seg_cmd"}
         /\ Shows(Tests(n)[i].run, Tests(n)[i].lit) /\ Tests(n)[i].lit \subseteq Led
<1> DEFINE t1 == [of |-> "led_cmd", on |-> {65}, run |-> fswaterled_control, lit |-> {}, reset |-> TRUE]
           t2 == [of |-> "led_cmd", on |-> {64}, run |-> fsled_close_all, lit |-> {}, reset |-> TRUE]
           t3 == [of |-> "seg_cmd", on |-> {64}, run |-> fsled_close_all, lit |-> {}, reset |-> TRUE]
           t4 == [of |-> "seg_cmd", on |-> 112..127, run |-> fsled_control(n % 16),
                  lit |-> Asked(n % 16), reset |-> FALSE]
<1>1. Tests(n) = <<t1, t2, t3, t4>>
  BY DEF Tests
<1>2. /\ t1.of = "led_cmd" /\ t1.run = fswaterled_control /\ t1.lit = {}
      /\ t2.of = "led_cmd" /\ t2.run = fsled_close_all /\ t2.lit = {}
      /\ t3.of = "seg_cmd" /\ t3.run = fsled_close_all /\ t3.lit = {}
      /\ t4.of = "seg_cmd" /\ t4.run = fsled_control(n % 16) /\ t4.lit = Asked(n % 16)
  OBVIOUS
<1> HIDE DEF t1, t2, t3, t4
<1>3. /\ i = 1 => Tests(n)[i] = t1
      /\ i = 2 => Tests(n)[i] = t2
      /\ i = 3 => Tests(n)[i] = t3
      /\ i = 4 => Tests(n)[i] = t4
      /\ i = 1 \/ i = 2 \/ i = 3 \/ i = 4
  BY <1>1
<1>4. n % 16 \in 0..15 /\ Asked(n % 16) \subseteq Led
  BY DEF Byte, Asked
<1>5. Shows(fsled_control(n % 16), Asked(n % 16))
  BY <1>4, PatternShows
<1> QED
  BY <1>2, <1>3, <1>4, <1>5, CloseAllShows, WaterledShows

(* The page's messages are bytes.                                           *)
LEMMA FormBytes ==
  /\ \A m \in LedForms : m.text \in Byte
  /\ \A m \in SegForms : m.text \in Byte
<1>1. \A v : a9_led(v).text \in Byte
  BY DEF a9_led, CommandByte, Store, Byte
<1>2. ASSUME NEW s \in {0, 1, NoChoice}, NEW c \in 0..127
      PROVE  a9_seg(s, c).text \in Byte
  <2>1. SegByte(c) \in Byte
    <3>1. CASE c >= 48
      <4>1. (c - 48) % 16 \in 0..15
        OBVIOUS
      <4> QED
        BY <3>1, <4>1 DEF SegByte, CommandByte, Store, Byte
    <3>2. CASE ~(c >= 48)
      <4>1. c % 16 \in 0..15
        OBVIOUS
      <4> QED
        BY <3>2, <4>1 DEF SegByte, Byte
    <3> QED
      BY <3>1, <3>2
  <2>2. CommandByte(Store, 0, 0) \in Byte /\ 0 \in Byte
    BY DEF CommandByte, Store, Byte
  <2>3. a9_seg(s, c).text = IF s = 1 THEN SegByte(c)
                            ELSE IF s = 0 THEN CommandByte(Store, 0, 0) ELSE 0
    BY DEF a9_seg
  <2> QED
    BY <2>1, <2>2, <2>3
<1>3. ASSUME NEW m \in LedForms PROVE m.text \in Byte
  <2>1. m \in {a9_led(v) : v \in {0, 1, NoChoice}}
    BY <1>3, PanelAssumption DEF PanelAssumption
  <2>2. PICK v \in {0, 1, NoChoice} : m = a9_led(v)
    BY <2>1
  <2> QED
    BY <1>1, <2>2
<1>4. ASSUME NEW m \in SegForms PROVE m.text \in Byte
  <2>1. m \in {a9_seg(s, c) : s \in {0, 1, NoChoice}, c \in 0..127}
    BY <1>4, PanelAssumption DEF PanelAssumption
  <2>2. PICK s \in {0, 1, NoChoice}, c \in 0..127 : m = a9_seg(s, c)
    BY <2>1
  <2> QED
    BY <1>2, <2>2
<1> QED
  BY <1>3, <1>4

(* A program that runs in an if was asked for what is wanted.               *)
LEMMA ProgramStarts ==
  ASSUME Shows(ioctls', wanted')
  PROVE  LitInv' /\ (BootClear => DarkInv')
<1>1. ASSUME NEW l \in Led
      PROVE  /\ Highest(l, wanted') => WillBeLit(l)'
             /\ BootClear /\ l \notin wanted' => WillBeDark(l)'
  BY DEF Shows, WillBeLit, WillBeDark
<1> QED
  BY <1>1 DEF LitInv, DarkInv

LEMMA InitIInv == Init => IInv
<1> SUFFICES ASSUME Init PROVE IInv
  OBVIOUS
<1>1. TypeOK
  BY DEF Init, TypeOK, Byte
<1>2. LitInv
  BY DEF Init, LitInv, Highest
<1>3. DarkInv
  <2>1. Len(ioctls) = 0 /\ lit = {}
    BY EmptySeq DEF Init
  <2> QED
    BY <2>1 DEF DarkInv, WillBeDark, Untouched
<1> QED
  BY <1>1, <1>2, <1>3 DEF IInv

(* Every step keeps the types.                                              *)
LEMMA TypeStep ==
  ASSUME TypeOK, [Next]_vars
  PROVE  TypeOK'
<1>0. /\ cmd \in [{"led_cmd", "seg_cmd"} -> Byte] /\ cmd["seg_cmd"] \in Byte
      /\ pc \in {"away", "asleep", "round"} /\ test \in 1..5
      /\ ioctls \in Seq(IoctlCommand) /\ lit \subseteq Led /\ wanted \subseteq Led
      /\ ioctls # << >> => pc = "round" /\ test # 5
  BY DEF TypeOK, IoctlCommand
<1>1. CASE Receive("led_cmd", LedForms) \/ Receive("seg_cmd", SegForms)
  <2>1. cmd' \in [{"led_cmd", "seg_cmd"} -> Byte]
    BY <1>0, <1>1, FormBytes DEF Receive
  <2> QED
    BY <1>0, <1>1, <2>1 DEF Receive, TypeOK, IoctlCommand
<1>2. CASE Sleep \/ Wake \/ Unlock
  BY <1>0, <1>2 DEF Sleep, Wake, Unlock, TypeOK, IoctlCommand
<1>3. CASE Enter
  <2> DEFINE t == Tests(cmd["seg_cmd"])[test]
  <2>1. pc = "round" /\ test \in 1..4
    BY <1>0, <1>3 DEF Enter
  <2>2. t.run \in Seq(IoctlCommand) /\ t.lit \subseteq Led
    BY <1>0, <2>1, RoundTests DEF Shows
  <2>3. /\ UNCHANGED <<cmd, pc, lit>>
        /\ \/ ioctls' = t.run /\ wanted' = t.lit /\ test' = test
           \/ ioctls' = << >> /\ wanted' = wanted /\ test' = test + 1
    BY <1>3 DEF Enter
  <2> HIDE DEF t
  <2>4. /\ ioctls' \in Seq(IoctlCommand) /\ wanted' \subseteq Led /\ test' \in 1..5
        /\ ioctls' # << >> => test' # 5
    <3>1. CASE ioctls' = t.run /\ wanted' = t.lit /\ test' = test
      BY <2>1, <2>2, <3>1
    <3>2. CASE ioctls' = << >> /\ wanted' = wanted /\ test' = test + 1
      <4>1. << >> \in Seq(IoctlCommand)
        BY EmptySeq
      <4>2. test' \in 1..5
        BY <2>1, <3>2
      <4> QED
        BY <1>0, <3>2, <4>1, <4>2
    <3> QED
      BY <2>3, <3>1, <3>2
  <2>5. cmd' = cmd /\ pc' = "round" /\ lit' = lit
    BY <2>1, <2>3
  <2> QED
    BY <1>0, <2>4, <2>5 DEF TypeOK, IoctlCommand
<1>4. CASE Ioctl
  <2> DEFINE t == Tests(cmd["seg_cmd"])[test]
  <2>1. ioctls # << >> /\ pc = "round" /\ test \in 1..4
    BY <1>0, <1>4 DEF Ioctl
  <2>2. t.of \in {"led_cmd", "seg_cmd"}
    BY <1>0, <2>1, RoundTests
  <2>3. Head(ioctls) \in IoctlCommand /\ Tail(ioctls) \in Seq(IoctlCommand)
    BY <1>0, <2>1
  <2>4. /\ lit' = myled_ioctl(Head(ioctls)) /\ ioctls' = Tail(ioctls)
        /\ UNCHANGED <<pc, wanted>>
        /\ IF Len(ioctls) = 1
           THEN test' = test + 1 /\ cmd' = [cmd EXCEPT ![t.of] = IF t.reset THEN 0 ELSE @]
           ELSE UNCHANGED <<test, cmd>>
    BY <1>4 DEF Ioctl
  <2>5. lit' \subseteq Led
    BY <1>0, <2>3, <2>4, IoctlWrites
  <2>6. CASE Len(ioctls) = 1
    <3>1. cmd' \in [{"led_cmd", "seg_cmd"} -> Byte]
      <4>1. /\ cmd' = [cmd EXCEPT ![t.of] = 0] \/ cmd' = [cmd EXCEPT ![t.of] = cmd[t.of]]
            /\ 0 \in Byte
        BY <2>4, <2>6 DEF Byte
      <4> QED
        BY <1>0, <2>2, <4>1
    <3>2. test' \in 1..5
      BY <2>1, <2>4, <2>6
    <3>3. ioctls' = << >>
      <4>1. PICK s \in Seq(IoctlCommand) : s = ioctls /\ Len(s) = 1
        BY <1>0, <2>6
      <4>2. Tail(s) \in Seq(IoctlCommand) /\ Len(Tail(s)) = 0
        BY <4>1, HeadTailProperties, EmptySeq
      <4>3. Tail(s) = << >>
        BY <4>2, EmptySeq
      <4> QED
        BY <2>4, <4>1, <4>3
    <3> QED
      BY <1>0, <2>3, <2>4, <2>5, <3>1, <3>2, <3>3 DEF TypeOK, IoctlCommand
  <2>7. CASE Len(ioctls) # 1
    BY <1>0, <2>1, <2>3, <2>4, <2>5, <2>7 DEF TypeOK, IoctlCommand
  <2> QED
    BY <2>6, <2>7
<1>5. CASE UNCHANGED vars
  BY <1>0, <1>5 DEF vars, TypeOK, IoctlCommand
<1> QED
  BY <1>1, <1>2, <1>3, <1>4, <1>5 DEF Next

(* Every step keeps the invariant.                                          *)
LEMMA NextIInv ==
  ASSUME IInv, [Next]_vars
  PROVE  IInv'
<1>0. TypeOK /\ LitInv /\ (BootClear => DarkInv)
  BY DEF IInv
<1>1. TypeOK'
  BY <1>0, TypeStep
<1>2. CASE UNCHANGED <<ioctls, lit, wanted>>
  <2>1. LitInv' /\ (DarkInv => DarkInv')
    BY <1>0, <1>2 DEF LitInv, DarkInv, WillBeLit, WillBeDark
  <2> QED
    BY <1>0, <1>1, <2>1 DEF IInv
<1>3. CASE Enter /\ ioctls' # << >>
  <2> DEFINE t == Tests(cmd["seg_cmd"])[test]
  <2>1. ioctls' = t.run /\ wanted' = t.lit /\ test \in 1..4 /\ cmd["seg_cmd"] \in Byte
    BY <1>0, <1>3 DEF Enter, TypeOK
  <2>2. Shows(t.run, t.lit)
    BY <2>1, RoundTests
  <2> HIDE DEF t
  <2>3. LitInv' /\ (BootClear => DarkInv')
    BY <2>1, <2>2, ProgramStarts
  <2> QED
    BY <1>1, <2>3 DEF IInv
<1>4. CASE Ioctl
  <2>1. wanted' = wanted
    BY <1>4 DEF Ioctl
  <2>2. LitInv'
    BY <1>0, <1>4, <2>1, IoctlDecides DEF LitInv
  <2>3. DarkInv => DarkInv'
    BY <1>0, <1>4, <2>1, IoctlDecides DEF DarkInv
  <2> QED
    BY <1>0, <1>1, <2>2, <2>3 DEF IInv
<1>5. ASSUME ~Ioctl, ~(Enter /\ ioctls' # << >>)
      PROVE  UNCHANGED <<ioctls, lit, wanted>>
  <2>1. CASE Enter
    <3>1. ioctls' = << >> /\ ioctls = << >> /\ lit' = lit
      BY <1>5, <2>1 DEF Enter
    <3>2. CASE wanted' = wanted
      BY <3>1, <3>2
    <3>3. CASE wanted' # wanted
      <4> DEFINE t == Tests(cmd["seg_cmd"])[test]
      <4>1. ioctls' = t.run /\ test \in 1..4 /\ cmd["seg_cmd"] \in Byte
        BY <1>0, <2>1, <3>3 DEF Enter, TypeOK
      <4>2. Shows(t.run, t.lit)
        BY <4>1, RoundTests
      <4> HIDE DEF t
      <4>3. PICK i : i \in 1..Len(ioctls')
        <5>1. 2 \in Led
          BY DEF Led
        <5>2. \A l \in Led : \E i \in 1..Len(t.run) : TRUE
          BY <4>2 DEF Shows
        <5> QED
          BY <4>1, <5>1, <5>2
      <4>4. Len(ioctls') = 0
        BY <3>1, EmptySeq
      <4> QED
        BY <4>3, <4>4
    <3> QED
      BY <3>2, <3>3
  <2> QED
    BY <1>5, <2>1 DEF Next, Receive, Sleep, Wake, Unlock, vars
<1> QED
  BY <1>2, <1>3, <1>4, <1>5

LEMMA Invariants == Spec => []IInv
<1>1. IInv /\ [Next]_vars => IInv'
  BY NextIInv
<1> QED
  BY InitIInv, <1>1, PTL DEF Spec

-----------------------------------------------------------------------------
(* The variables stay in their types: in particular, a program is only      *)
(* under way inside an if of a round.                                       *)
THEOREM TypeCorrect == Spec => []TypeOK
<1>1. IInv => TypeOK
  BY DEF IInv
<1> QED
  BY <1>1, Invariants, PTL

(* After the light show, off or a pattern, no LED is lit that was not asked *)
(* for, whatever the panel showed before, if the control register of GPF3   *)
(* does not have the bits 4 and 5 set.                                      *)
THEOREM UnaskedCorrect ==
  ASSUME BootClear
  PROVE  Spec => []NothingUnasked
<1>1. IInv => NothingUnasked
  <2> SUFFICES ASSUME IInv, ioctls = << >>, NEW l \in lit, l \notin wanted
               PROVE  FALSE
    BY DEF NothingUnasked
  <2>1. WillBeDark(l)
    BY DEF IInv, DarkInv, TypeOK
  <2>2. Len(ioctls) = 0
    BY EmptySeq
  <2> QED
    BY <2>1, <2>2 DEF WillBeDark
<1> QED
  BY <1>1, Invariants, PTL

(* Of the LEDs a pattern asks for, the highest of each bank is lit at its   *)
(* end, whatever the control registers held.                                *)
THEOREM HighestCorrect == Spec => []HighestShown
<1>1. IInv => HighestShown
  <2> SUFFICES ASSUME IInv, ioctls = << >>, NEW l \in wanted,
                      \A k \in wanted : BankOf(k) = BankOf(l) => k <= l
               PROVE  l \in lit
    BY DEF HighestShown
  <2>1. WillBeLit(l)
    BY DEF IInv, LitInv, TypeOK, Highest
  <2>2. Len(ioctls) = 0
    BY EmptySeq
  <2> QED
    BY <2>1, <2>2 DEF WillBeLit
<1> QED
  BY <1>1, Invariants, PTL

=============================================================================
