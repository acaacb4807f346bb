--------------------------- MODULE SensorReadProofs ---------------------------
(***************************************************************************)
(* Proofs about SensorRead for any number of polls and starts.             *)
(*                                                                         *)
(* What is received and what is still to come make one stream: an arrival  *)
(* moves a character from one to the other, a flush or a read cuts the     *)
(* front off, a question lengthens the end.  StreamInv says that there is  *)
(* never a gap in it (the end of one answer may be followed by a later     *)
(* one), DataInv what this means for the buffer, QuietInv that only the    *)
(* answer is in it when the line was quiet, and FreshInv whose conversion  *)
(* the ADC is at.                                                          *)
(***************************************************************************)
EXTENDS SensorRead, SequenceTheorems, TLAPS

Gapless(s) == \A i \in 1..Len(s) - 1 : Follows(s[i], s[i + 1])
EndOfAnswer(s, n) == Len(s) > 0 => s[Len(s)][2] = 4 /\ s[Len(s)][1] <= n

(* The characters that have not been read: each follows the one before,     *)
(* and the last is the end of an answer.                                    *)
Stream == tty \o wire
StreamInv == Gapless(Stream) /\ EndOfAnswer(Stream, asked)

(* The two characters of a number in the buffer followed each other on the  *)
(* line, unless one of them is a terminator.                                *)
Together(a, b) == a # Nul /\ b # Nul => Follows(a, b)
DataInv ==
  /\ Together(dh11_data[1], dh11_data[2]) /\ Together(dh11_data[3], dh11_data[4])
  /\ LineOrder

(* A suffix of the answer to the n-th question.                             *)
RestOfAnswer(s, n) ==
  Len(s) <= 4 /\ \A i \in 1..Len(s) : s[i] = <<n, i + 4 - Len(s)>>
QuietInv ==
  /\ pc \in {"select", "read"} /\ quiet => RestOfAnswer(Stream, asked)
  /\ pc \in {"select", "read"} => taken = 0
  /\ QuietAnswer /\ OwnDigits

(* As long as no wait was interrupted: no conversion goes on between two    *)
(* reads of the ADC, and during one it is this fill's.                      *)
FreshInv ==
  /\ pc \notin {"down", "ask"} => asked > 0
  /\ ~cut =>
       /\ pc \in {"down", "ask", "select", "read", "adc"} => converting = 0 /\ have_data = 0
       /\ pc = "wait" => \/ converting = asked /\ have_data = 0
                         \/ converting = 0 /\ have_data = 1 /\ adcdat = asked
       /\ pc \in {"data", "reset"} => converting = 0 /\ have_data = 1 /\ adcdat = asked
       /\ pc = "reset" => adc = asked

IInv == TypeOK /\ StreamInv /\ DataInv /\ QuietInv /\ FreshInv

-----------------------------------------------------------------------------
(* Suffixes of the stream.                                                  *)

Suffix(r, s) ==
  /\ r \in Seq(Char) /\ Len(r) <= Len(s)
  /\ \A i \in 1..Len(r) : r[i] = s[Len(s) - Len(r) + i]

(* A suffix of a stream without gaps has none, ends where the stream ends,  *)
(* and is a suffix of an answer if the stream is.                           *)
LEMMA SuffixKeeps ==
  ASSUME NEW s \in Seq(Char), NEW r \in Seq(Char), Suffix(r, s), NEW n
  PROVE  /\ Gapless(s) => Gapless(r)
         /\ EndOfAnswer(s, n) => EndOfAnswer(r, n)
         /\ RestOfAnswer(s, n) => RestOfAnswer(r, n)
<1>1. PICK k \in Nat, m \in Nat : k = Len(s) /\ m = Len(r)
  OBVIOUS
<1>2. m <= k /\ \A i \in 1..m : r[i] = s[k - m + i]
  BY <1>1 DEF Suffix
<1>3. Gapless(s) => Gapless(r)
  <2> SUFFICES ASSUME Gapless(s), NEW i \in 1..m - 1 PROVE Follows(r[i], r[i + 1])
    BY <1>1 DEF Gapless
  <2>1. /\ k - m + i \in 1..k - 1 /\ i \in 1..m /\ i + 1 \in 1..m
        /\ k - m + (i + 1) = (k - m + i) + 1
    BY <1>2
  <2>2. r[i] = s[k - m + i] /\ r[i + 1] = s[(k - m + i) + 1]
    BY <1>2, <2>1
  <2> QED
    BY <1>1, <2>1, <2>2 DEF Gapless
<1>4. EndOfAnswer(s, n) => EndOfAnswer(r, n)
  <2>1. m > 0 => r[m] = s[k]
    <3>1. m > 0 => m \in 1..m /\ k - m + m = k
      OBVIOUS
    <3> QED
      BY <1>2, <3>1
  <2>2. m > 0 => k > 0
    BY <1>2
  <2> QED
    BY <1>1, <2>1, <2>2 DEF EndOfAnswer
<1>5. RestOfAnswer(s, n) => RestOfAnswer(r, n)
  <2> SUFFICES ASSUME RestOfAnswer(s, n)
               PROVE  m <= 4 /\ \A i \in 1..m : r[i] = <<n, i + 4 - m>>
    BY <1>1 DEF RestOfAnswer
  <2>1. k <= 4 /\ \A i \in 1..k : s[i] = <<n, i + 4 - k>>
    BY <1>1 DEF RestOfAnswer
  <2>2. ASSUME NEW i \in 1..m PROVE r[i] = <<n, i + 4 - m>>
    <3>1. k - m + i \in 1..k /\ (k - m + i) + 4 - k = i + 4 - m
      BY <1>2
    <3> QED
      BY <1>2, <2>1, <3>1
  <2> QED
    BY <1>2, <2>1, <2>2
<1> QED
  BY <1>3, <1>4, <1>5

(* A flush leaves what is to come.                                          *)
LEMMA FlushSuffix ==
  ASSUME NEW t \in Seq(Char), NEW w \in Seq(Char)
  PROVE  Suffix(<< >> \o w, t \o w)
<1>1. << >> \o w = w
  BY ConcatEmptySeq
<1>2. /\ Len(t \o w) = Len(t) + Len(w)
      /\ \A i \in 1..Len(t) + Len(w) :
           (t \o w)[i] = IF i <= Len(t) THEN t[i] ELSE w[i - Len(t)]
  BY ConcatProperties
<1>3. Len(t) \in Nat /\ Len(w) \in Nat
  OBVIOUS
<1> HIDE DEF Char
<1> QED
  BY <1>1, <1>2, <1>3 DEF Suffix

(* A read takes the front off.                                              *)
LEMMA ReadSuffix ==
  ASSUME NEW t \in Seq(Char), NEW w \in Seq(Char), NEW n \in 0..Len(t)
  PROVE  /\ SubSeq(t, n + 1, Len(t)) \in Seq(Char)
         /\ Suffix(SubSeq(t, n + 1, Len(t)) \o w, t \o w)
<1> DEFINE u == SubSeq(t, n + 1, Len(t))
<1>1. PICK k \in Nat, m \in Nat : k = Len(t) /\ m = Len(w)
  OBVIOUS
<1>2. \A i \in n + 1..k : t[i] \in Char
  BY <1>1, ElementOfSeq
<1>3. /\ u \in Seq(Char) /\ Len(u) = k - n
      /\ \A i \in 1..k - n : u[i] = t[n + i]
  <2>1. /\ u \in Seq(Char)
        /\ Len(u) = IF n + 1 <= k THEN k - (n + 1) + 1 ELSE 0
        /\ \A i \in 1..k - (n + 1) + 1 : u[i] = t[(n + 1) + i - 1]
    BY <1>1, <1>2, SubSeqProperties
  <2> HIDE DEF u
  <2>2. k - (n + 1) + 1 = k - n /\ \A i \in Int : (n + 1) + i - 1 = n + i
    BY <1>1
  <2>3. Len(u) = k - n
    BY <1>1, <2>1
  <2> QED
    BY <1>1, <2>1, <2>2, <2>3
<1> HIDE DEF u
<1>4. /\ t \o w \in Seq(Char) /\ Len(t \o w) = k + m
      /\ \A i \in 1..k + m : (t \o w)[i] = IF i <= k THEN t[i] ELSE w[i - k]
  BY <1>1, ConcatProperties
<1>5. /\ u \o w \in Seq(Char) /\ Len(u \o w) = (k - n) + m
      /\ \A i \in 1..(k - n) + m : (u \o w)[i] = IF i <= k - n THEN u[i] ELSE w[i - (k - n)]
  BY <1>1, <1>3, ConcatProperties
<1>6. ASSUME NEW i \in 1..(k - n) + m
      PROVE  (u \o w)[i] = (t \o w)[(k + m) - ((k - n) + m) + i]
  <2>1. (k + m) - ((k - n) + m) + i = n + i /\ n + i \in 1..k + m
    BY <1>1
  <2>2. CASE i <= k - n
    BY <1>1, <1>3, <1>4, <1>5, <2>1, <2>2
  <2>3. CASE i > k - n
    <3>1. i - (k - n) = (n + i) - k /\ ~(n + i <= k) /\ ~(i <= k - n)
      BY <1>1, <2>3
    <3>2. (u \o w)[i] = w[i - (k - n)]
      BY ONLY <1>5, <3>1, <1>6
    <3>3. (t \o w)[n + i] = w[(n + i) - k]
      BY ONLY <1>4, <2>1, <3>1
    <3> QED
      BY ONLY <2>1, <3>1, <3>2, <3>3
  <2>4. i <= k - n \/ i > k - n
    BY <1>1
  <2> QED
    BY ONLY <2>2, <2>3, <2>4
<1>7. (k - n) + m <= k + m
  BY <1>1
<1>8. Suffix(u \o w, t \o w)
  BY <1>4, <1>5, <1>6, <1>7 DEF Suffix
<1> QED
  BY <1>3, <1>8 DEF u

(* An arrival leaves the stream as it is.                                   *)
LEMMA ArrivalKeeps ==
  ASSUME NEW t \in Seq(Char), NEW w \in Seq(Char), NEW k \in 1..Len(w)
  PROVE  /\ t \o SubSeq(w, 1, k) \in Seq(Char)
         /\ SubSeq(w, k + 1, Len(w)) \in Seq(Char)
         /\ (t \o SubSeq(w, 1, k)) \o SubSeq(w, k + 1, Len(w)) = t \o w
<1> DEFINE a == SubSeq(w, 1, k)
           b == SubSeq(w, k + 1, Len(w))
<1>1. Len(w) \in Nat /\ \A i \in 1..Len(w) : w[i] \in Char
  BY ElementOfSeq
<1>2. a \in Seq(Char)
  <2>1. \A i \in 1..k : w[i] \in Char
    BY <1>1
  <2> QED
    BY <2>1, SubSeqProperties
<1>3. b \in Seq(Char)
  <2>1. \A i \in k + 1..Len(w) : w[i] \in Char
    BY <1>1
  <2> QED
    BY <1>1, <2>1, SubSeqProperties
<1>4. a \o b = w
  <2>1. a \o b = SubSeq(w, 1, Len(w))
    <3>1. /\ 1 \in 1..Len(w) + 1 /\ k \in 1 - 1..Len(w) /\ Len(w) \in k..Len(w)
      BY <1>1
    <3> QED
      BY <3>1, ConcatAdjacentSubSeq
  <2> QED
    BY <2>1, SubSeqFull
<1> HIDE DEF a, b
<1>5. t \o a \in Seq(Char) /\ (t \o a) \o b = t \o w
  <2>1. PICK x \in Seq(Char), y \in Seq(Char) : x = a /\ y = b
    BY <1>2, <1>3
  <2>2. t \o x \in Seq(Char)
    BY ConcatProperties
  <2>3. (t \o x) \o y = t \o (x \o y)
    BY ConcatAssociative, SMTT(30)
  <2> QED
    BY ONLY <1>4, <2>1, <2>2, <2>3
<1> QED
  BY <1>3, <1>5 DEF a, b

(* An answer is four characters.                                            *)
LEMMA AnswerChars ==
  ASSUME NEW n \in Nat, n < Polls
  PROVE  /\ Answer(n + 1) \in Seq(Char) /\ Len(Answer(n + 1)) = 4
         /\ \A i \in 1..4 : Answer(n + 1)[i] = <<n + 1, i>>
<1> DEFINE a == Answer(n + 1)
<1> USE SensorAssumption DEF SensorAssumption
<1>1. a = << <<n + 1, 1>>, <<n + 1, 2>>, <<n + 1, 3>>, <<n + 1, 4>> >>
  BY DEF Answer
<1>2. \A i \in 1..4 : <<n + 1, i>> \in Char
  BY DEF Char
<1> HIDE DEF a
<1>3. /\ a \in Seq(Char) /\ Len(a) = 4
      /\ \A i \in 1..4 : a[i] = <<n + 1, i>>
  BY <1>1, <1>2
<1> QED
  BY <1>3 DEF a

(* A new answer continues the stream.                                       *)
LEMMA AskContinues ==
  ASSUME NEW t \in Seq(Char), NEW w \in Seq(Char), NEW n \in Nat, n < Polls,
         Gapless(t \o w), EndOfAnswer(t \o w, n)
  PROVE  LET s == t \o (w \o Answer(n + 1)) IN
         /\ w \o Answer(n + 1) \in Seq(Char)
         /\ Gapless(s) /\ EndOfAnswer(s, n + 1)
<1> DEFINE a == Answer(n + 1)
           v == t \o w
           s == t \o (w \o a)
<1> USE SensorAssumption DEF SensorAssumption
<1>1. /\ a \in Seq(Char) /\ Len(a) = 4
      /\ \A i \in 1..4 : a[i] = <<n + 1, i>>
  BY AnswerChars
<1> HIDE DEF a
<1>2. w \o a \in Seq(Char) /\ s = v \o a /\ v \in Seq(Char)
  <2>1. w \o a \in Seq(Char) /\ v \in Seq(Char)
    BY <1>1, ConcatProperties
  <2>2. (t \o w) \o a = t \o (w \o a)
    BY <1>1, ConcatAssociative, SMTT(30)
  <2> QED
    BY ONLY <2>1, <2>2
<1> HIDE DEF v, s
<1>3. PICK k \in Nat : k = Len(v)
  BY <1>2
<1>4. /\ Len(s) = k + 4
      /\ \A i \in 1..k + 4 : s[i] = IF i <= k THEN v[i] ELSE a[i - k]
  <2>1. /\ Len(v \o a) = Len(v) + Len(a)
        /\ \A i \in 1..Len(v) + Len(a) :
             (v \o a)[i] = IF i <= Len(v) THEN v[i] ELSE a[i - Len(v)]
    BY ONLY <1>1, <1>2, ConcatProperties
  <2>2. Len(v) = k /\ Len(a) = 4 /\ s = v \o a
    BY <1>1, <1>2, <1>3
  <2> QED
    BY ONLY <2>1, <2>2
<1>5. Gapless(v) /\ EndOfAnswer(v, n)
  BY DEF v
<1>6. Gapless(s)
  <2> SUFFICES ASSUME NEW i \in 1..k + 3 PROVE Follows(s[i], s[i + 1])
    BY <1>3, <1>4 DEF Gapless
  <2>0. i \in 1..k + 4 /\ i + 1 \in 1..k + 4
    BY <1>3
  <2>1. CASE i < k
    <3>1. s[i] = v[i] /\ s[i + 1] = v[i + 1] /\ i \in 1..k - 1
      BY <1>3, <1>4, <2>0, <2>1
    <3> QED
      BY <1>3, <1>5, <3>1 DEF Gapless
  <2>2. CASE i = k
    <3>1. s[i] = v[k] /\ s[i + 1] = a[1]
      BY <1>3, <1>4, <2>0, <2>2
    <3>2. a[1] = <<n + 1, 1>>
      BY <1>1
    <3>3. v[k][2] = 4 /\ v[k][1] <= n /\ v[k] \in Char
      BY <1>2, <1>3, <1>5, <2>0, <2>2, ElementOfSeq DEF EndOfAnswer
    <3> QED
      BY <3>1, <3>2, <3>3 DEF Follows, Splice, Char
  <2>3. CASE i > k
    <3>1. PICK j \in 1..3 : j = i - k
      BY <1>3, <2>3
    <3>2. s[i] = a[j] /\ s[i + 1] = a[j + 1]
      BY <1>3, <1>4, <2>0, <2>3, <3>1
    <3>3. a[j] = <<n + 1, j>> /\ a[j + 1] = <<n + 1, j + 1>>
      BY <1>1, <3>1
    <3> QED
      BY <3>2, <3>3 DEF Follows, Within
  <2> QED
    BY <1>3, <2>1, <2>2, <2>3
<1>7. EndOfAnswer(s, n + 1)
  <2>1. s[k + 4] = a[4] /\ a[4] = <<n + 1, 4>>
    <3>1. k + 4 \in 1..k + 4 /\ ~(k + 4 <= k) /\ (k + 4) - k = 4
      BY <1>3
    <3>2. s[k + 4] = a[(k + 4) - k]
      BY ONLY <1>4, <3>1
    <3> QED
      BY ONLY <1>1, <3>1, <3>2
  <2> QED
    BY <1>3, <1>4, <2>1 DEF EndOfAnswer
<1> QED
  BY <1>2, <1>6, <1>7 DEF s, a

-----------------------------------------------------------------------------
(* The buffer.                                                              *)

(* A number is shown by two digits only if neither was a terminator.        *)
LEMMA DigitsShown ==
  ASSUME NEW a \in Char \cup {Nul}, NEW b \in Char \cup {Nul}
  PROVE  /\ Digits(a, b) \in Seq(Char) /\ Len(Digits(a, b)) <= 2
         /\ Len(Digits(a, b)) = 2 =>
              a # Nul /\ b # Nul /\ Digits(a, b)[1] = a /\ Digits(a, b)[2] = b
<1>1. CASE a = Nul
  BY <1>1 DEF Digits
<1>2. CASE a # Nul /\ b = Nul
  BY <1>2 DEF Digits
<1>3. CASE a # Nul /\ b # Nul
  BY <1>3 DEF Digits
<1> QED
  BY <1>1, <1>2, <1>3

(* What a read leaves in the buffer, in the line and on the display.        *)
LEMMA ReadFills ==
  ASSUME TypeOK, Read
  PROVE  \E n \in 1..5 :
           /\ n <= Len(tty) /\ n = (IF Len(tty) > 5 THEN 5 ELSE Len(tty))
           /\ taken' = n /\ tty' = SubSeq(tty, n + 1, Len(tty))
           /\ dh11_data' \in [1..4 -> Char \cup {Nul}]
           /\ \A i \in 1..4 : i <= n => dh11_data'[i] = tty[i] /\ tty[i] \in Char
           /\ \A i \in 1..4 : i = n + 1 => dh11_data'[i] = Nul
           /\ \A i \in 1..4 : i > n + 1 => dh11_data'[i] = dh11_data[i]
           /\ shown' = Parsed(dh11_data')
<1> DEFINE n == IF Len(tty) > Room THEN Room ELSE Len(tty)
           f == SubSeq(tty, 1, n)
<1>1. /\ tty # << >> /\ tty' = SubSeq(tty, n + 1, Len(tty)) /\ taken' = n
      /\ dh11_data' = Filled(f) /\ shown' = Parsed(Filled(f))
  BY DEF Read
<1>2. /\ tty \in Seq(Char) /\ Len(tty) \in Nat /\ Len(tty) > 0
      /\ dh11_data \in [1..4 -> Char \cup {Nul}]
  BY <1>1, EmptySeq DEF TypeOK
<1>3. n \in 1..5 /\ n <= Len(tty) /\ n = (IF Len(tty) > 5 THEN 5 ELSE Len(tty))
  <2>1. PICK k \in Nat : k = Len(tty) /\ k > 0
    BY <1>2
  <2>2. n = IF k > 5 THEN 5 ELSE k
    BY <2>1 DEF Room
  <2> HIDE DEF n
  <2>3. n \in 1..5 /\ n <= k
    BY <2>1, <2>2
  <2> QED
    BY <2>1, <2>2, <2>3
<1> HIDE DEF n
<1>4. Len(f) = n /\ \A i \in 1..n : f[i] = tty[i] /\ tty[i] \in Char
  <2>1. \A i \in 1..n : tty[i] \in Char
    BY <1>2, <1>3, ElementOfSeq
  <2>2. /\ Len(f) = IF 1 <= n THEN n - 1 + 1 ELSE 0
        /\ \A i \in 1..n - 1 + 1 : f[i] = tty[1 + i - 1]
    BY <1>3, <2>1, SubSeqProperties
  <2> HIDE DEF f
  <2>3. 1 <= n /\ n - 1 + 1 = n /\ \A i \in 1..n : 1 + i - 1 = i
    BY <1>3
  <2> QED
    BY <2>1, <2>2, <2>3
<1> HIDE DEF f
<1>5. /\ Filled(f) \in [1..4 -> Char \cup {Nul}]
      /\ \A i \in 1..4 : i <= n => Filled(f)[i] = tty[i] /\ tty[i] \in Char
      /\ \A i \in 1..4 : i = n + 1 => Filled(f)[i] = Nul
      /\ \A i \in 1..4 : i > n + 1 => Filled(f)[i] = dh11_data[i]
  <2>1. \A i \in 1..4 : i <= n => i \in 1..n
    BY <1>3
  <2>2. \A i \in 1..4 :
          Filled(f)[i] = IF i <= n THEN f[i] ELSE IF i = n + 1 THEN Nul ELSE dh11_data[i]
    BY <1>4 DEF Filled
  <2>3. Filled(f) = [i \in 1..4 |-> Filled(f)[i]]
    BY DEF Filled
  <2>4. \A i \in 1..4 : i <= n => Filled(f)[i] = tty[i] /\ tty[i] \in Char
    BY <1>4, <2>1, <2>2
  <2>5. \A i \in 1..4 : i = n + 1 => Filled(f)[i] = Nul
    BY <1>3, <2>2
  <2>6. \A i \in 1..4 : i > n + 1 => Filled(f)[i] = dh11_data[i]
    BY <1>3, <2>2
  <2>7. \A i \in 1..4 : Filled(f)[i] \in Char \cup {Nul}
    <3>1. \A i \in 1..4 : i <= n \/ i = n + 1 \/ i > n + 1
      BY <1>3
    <3> QED
      BY <1>2, <2>4, <2>5, <2>6, <3>1
  <2> QED
    BY <2>3, <2>4, <2>5, <2>6, <2>7
<1> QED
  BY <1>1, <1>3, <1>5

-----------------------------------------------------------------------------
(* The invariant holds.                                                     *)

LEMMA InitIInv == Init => IInv
<1> SUFFICES ASSUME Init PROVE IInv
  OBVIOUS
<1> USE SensorAssumption DEF SensorAssumption, Init
<1>1. << >> \in Seq(Char) /\ Len(<< >>) = 0 /\ << >> \o << >> = << >>
  BY EmptySeq
<1>2. TypeOK
  <2>1. /\ shown \in [temp : Seq(Char), hum : Seq(Char)]
        /\ Len(shown.temp) <= 2 /\ Len(shown.hum) <= 2
    BY <1>1 DEF None
  <2>2. dh11_data \in [1..4 -> Char \cup {Nul}]
    OBVIOUS
  <2>3. /\ wire \in Seq(Char) /\ tty \in Seq(Char) /\ pc \in Steps
        /\ starts \in 0..Starts /\ asked \in 0..Polls /\ taken \in 0..5
        /\ have_data \in {0, 1} /\ {converting, adcdat, adc} \subseteq 0..asked
    BY <1>1 DEF Steps
  <2>4. quiet \in BOOLEAN /\ fan \in BOOLEAN /\ cut \in BOOLEAN
    BY Zenon
  <2> QED
    BY <2>1, <2>2, <2>3, <2>4 DEF TypeOK
<1>3. StreamInv
  BY <1>1 DEF StreamInv, Stream, Gapless, EndOfAnswer
<1>4. DataInv
  BY <1>1 DEF DataInv, Together, LineOrder, None
<1>5. QuietInv /\ FreshInv
  BY DEF QuietInv, QuietAnswer, OwnDigits, FreshInv
<1> QED
  BY <1>2, <1>3, <1>4, <1>5 DEF IInv

(* Every step keeps the types.                                              *)
LEMMA TypeStep ==
  ASSUME TypeOK, StreamInv, [Next]_vars
  PROVE  TypeOK'
<1> USE SensorAssumption DEF SensorAssumption
<1>0. /\ pc \in Steps /\ starts \in 0..Starts /\ asked \in 0..Polls
      /\ wire \in Seq(Char) /\ tty \in Seq(Char)
      /\ dh11_data \in [1..4 -> Char \cup {Nul}]
      /\ shown \in [temp : Seq(Char), hum : Seq(Char)]
      /\ Len(shown.temp) <= 2 /\ Len(shown.hum) <= 2
      /\ quiet \in BOOLEAN /\ fan \in BOOLEAN /\ cut \in BOOLEAN
      /\ taken \in 0..5
      /\ have_data \in {0, 1}
      /\ {converting, adcdat, adc} \subseteq 0..asked
      /\ << >> \in Seq(Char) /\ Len(<< >>) = 0
  BY EmptySeq DEF TypeOK
<1>1. CASE Start
  <2>1. /\ shown' \in [temp : Seq(Char), hum : Seq(Char)]
        /\ Len(shown'.temp) <= 2 /\ Len(shown'.hum) <= 2
    BY <1>0, <1>1 DEF Start, None
  <2>2. dh11_data' \in [1..4 -> Char \cup {Nul}]
    BY <1>1 DEF Start
  <2>3. quiet' \in BOOLEAN /\ fan' \in BOOLEAN
    BY <1>1 DEF Start
  <2>4. /\ pc' \in Steps /\ starts' \in 0..Starts /\ tty' = << >> /\ taken' = 0
        /\ UNCHANGED <<asked, wire, driver>>
    BY <1>0, <1>1 DEF Start, Steps
  <2> QED
    BY <1>0, <2>1, <2>2, <2>3, <2>4 DEF driver, TypeOK
<1>2. CASE FanFlush
  BY <1>0, <1>2 DEF FanFlush, process, reading, driver, TypeOK
<1>3. CASE Kill
  <2>1. cut' \in BOOLEAN /\ have_data' \in {0, 1}
    BY <1>0, <1>3 DEF Kill
  <2> QED
    BY <1>0, <1>3, <2>1 DEF Kill, line, reading, Steps, TypeOK
<1>4. CASE Ask
  <2>1. wire' \in Seq(Char)
    <3>1. asked \in Nat /\ asked < Polls
      BY <1>0, <1>4 DEF Ask
    <3>2. wire \o Answer(asked + 1) \in Seq(Char)
      BY <1>0, <3>1, AskContinues DEF StreamInv, Stream
    <3> QED
      BY <1>0, <1>4, <3>2 DEF Ask
  <2>2. asked' \in 0..Polls /\ {converting, adcdat, adc} \subseteq 0..asked'
    BY <1>0, <1>4 DEF Ask
  <2>3. quiet' \in BOOLEAN
    BY <1>4 DEF Ask
  <2> QED
    BY <1>0, <1>4, <2>1, <2>2, <2>3 DEF Ask, Goto, reading, driver, Steps, TypeOK
<1>5. CASE Arrive
  <2>1. tty' \in Seq(Char) /\ wire' \in Seq(Char)
    <3>1. PICK k \in 1..Len(wire) : /\ tty' = tty \o SubSeq(wire, 1, k)
                                    /\ wire' = SubSeq(wire, k + 1, Len(wire))
      BY <1>5 DEF Arrive
    <3> QED
      BY ONLY <1>0, <3>1, ArrivalKeeps
  <2> QED
    BY <1>0, <1>5, <2>1 DEF Arrive, process, reading, driver, TypeOK
<1>6. CASE Read
  <2>1. PICK n \in 1..5 :
          /\ n <= Len(tty) /\ taken' = n /\ tty' = SubSeq(tty, n + 1, Len(tty))
          /\ dh11_data' \in [1..4 -> Char \cup {Nul}] /\ shown' = Parsed(dh11_data')
    BY <1>6, ReadFills
  <2>2. tty' \in Seq(Char)
    <3>1. n \in 0..Len(tty)
      BY <1>0, <2>1
    <3> QED
      BY <1>0, <2>1, <3>1, ReadSuffix
  <2>3. /\ shown' \in [temp : Seq(Char), hum : Seq(Char)]
        /\ Len(shown'.temp) <= 2 /\ Len(shown'.hum) <= 2
    <3> DEFINE d == dh11_data'
    <3>1. d[1] \in Char \cup {Nul} /\ d[2] \in Char \cup {Nul}
          /\ d[3] \in Char \cup {Nul} /\ d[4] \in Char \cup {Nul}
      BY <2>1
    <3>2. /\ Digits(d[1], d[2]) \in Seq(Char) /\ Len(Digits(d[1], d[2])) <= 2
          /\ Digits(d[3], d[4]) \in Seq(Char) /\ Len(Digits(d[3], d[4])) <= 2
      BY <3>1, DigitsShown
    <3> QED
      BY <2>1, <3>2 DEF Parsed
  <2>4. pc' = "adc" /\ UNCHANGED <<starts, asked, wire, quiet, fan, driver>>
    BY <1>6 DEF Read, Goto
  <2>5. taken' \in 0..5
    BY <2>1
  <2> QED
    BY <1>0, <2>1, <2>2, <2>3, <2>4, <2>5 DEF driver, Steps, TypeOK
<1>7. CASE Failure \/ Select \/ Timeout \/ AdcStart \/ AdcWait \/ AdcData \/ AdcReset
  <2>1. /\ UNCHANGED <<starts, line, reading, fan, cut>> /\ pc' \in Steps
        /\ have_data' \in {0, 1} /\ {converting', adcdat', adc'} \subseteq 0..asked
    BY <1>0, <1>7 DEF Failure, Select, Timeout, AdcStart, AdcWait, AdcData, AdcReset, Goto, driver, Steps
  <2> QED
    BY <1>0, <2>1 DEF line, reading, TypeOK
<1>8. CASE Handler
  BY <1>0, <1>8 DEF Handler, process, line, reading, TypeOK
<1>9. CASE UNCHANGED vars
  BY <1>0, <1>9 DEF vars, process, line, reading, driver, TypeOK
<1> QED
  BY <1>1, <1>2, <1>3, <1>4, <1>5, <1>6, <1>7, <1>8, <1>9 DEF Next, Transfer

(* What is on the line after a step: the same, a suffix of it, or an answer *)
(* more.                                                                    *)
LEMMA StreamMoves ==
  ASSUME TypeOK, [Next]_vars
  PROVE  \/ Stream' = Stream /\ UNCHANGED asked
         \/ Stream' \in Seq(Char) /\ Suffix(Stream', Stream) /\ ~Ask /\ UNCHANGED asked
         \/ Ask /\ Stream' = tty \o (wire \o Answer(asked + 1))
         \/ Ask /\ Stream' = Stream
<1>0. wire \in Seq(Char) /\ tty \in Seq(Char) /\ asked \in Nat
  BY DEF TypeOK
<1>1. CASE Start \/ FanFlush
  <2>1. tty' = << >> /\ wire' = wire /\ asked' = asked
    BY <1>1 DEF Start, FanFlush
  <2>2. Suffix(Stream', Stream)
    BY <1>0, <2>1, FlushSuffix DEF Stream
  <2>3. ~Ask
    BY <1>0, <1>1 DEF Start, FanFlush, Ask, Goto
  <2> QED
    BY <2>1, <2>2, <2>3 DEF Suffix
<1>2. CASE Ask
  BY <1>2 DEF Ask, Stream
<1>3. CASE Arrive
  <2>1. PICK k \in 1..Len(wire) : /\ tty' = tty \o SubSeq(wire, 1, k)
                                  /\ wire' = SubSeq(wire, k + 1, Len(wire))
                                  /\ asked' = asked
    BY <1>3 DEF Arrive
  <2>2. (tty \o SubSeq(wire, 1, k)) \o SubSeq(wire, k + 1, Len(wire)) = tty \o wire
    BY ONLY <1>0, <2>1, ArrivalKeeps
  <2> QED
    BY <2>1, <2>2 DEF Stream
<1>4. CASE Read
  <2>1. PICK n \in 1..5 : n <= Len(tty) /\ tty' = SubSeq(tty, n + 1, Len(tty))
    BY <1>4, ReadFills
  <2>2. n \in 0..Len(tty) /\ wire' = wire /\ asked' = asked /\ ~Ask
    BY <1>0, <1>4, <2>1 DEF Read, Goto, Ask
  <2>3. Suffix(Stream', Stream)
    BY <1>0, <2>1, <2>2, ReadSuffix DEF Stream
  <2> QED
    BY <2>2, <2>3 DEF Suffix
<1>5. CASE Kill \/ Failure \/ Select \/ Timeout \/ AdcStart \/ AdcWait \/ AdcData \/ AdcReset
           \/ Handler \/ UNCHANGED vars
  <2>1. UNCHANGED line
    BY <1>5 DEF Kill, Failure, Select, Timeout, AdcStart, AdcWait, AdcData, AdcReset, Handler, vars
  <2> QED
    BY <2>1 DEF line, Stream
<1> QED
  BY <1>1, <1>2, <1>3, <1>4, <1>5 DEF Next, Transfer

(* There is never a gap in the stream.                                      *)
LEMMA StreamStep ==
  ASSUME TypeOK, StreamInv, [Next]_vars
  PROVE  StreamInv'
<1>0. /\ wire \in Seq(Char) /\ tty \in Seq(Char) /\ asked \in Nat
      /\ Stream \in Seq(Char) /\ Gapless(Stream) /\ EndOfAnswer(Stream, asked)
  BY ConcatProperties DEF TypeOK, StreamInv, Stream
<1>1. CASE Stream' = Stream /\ UNCHANGED asked
  BY <1>1 DEF StreamInv
<1>2. CASE Stream' \in Seq(Char) /\ Suffix(Stream', Stream) /\ UNCHANGED asked
  <2>1. Gapless(Stream') /\ EndOfAnswer(Stream', asked)
    BY <1>0, <1>2, SuffixKeeps
  <2> QED
    BY <1>2, <2>1 DEF StreamInv
<1>3. CASE Ask
  <2>1. asked' = asked + 1 /\ asked < Polls
    BY <1>3 DEF Ask
  <2>2. CASE Stream' = Stream
    <3>1. Len(Stream) > 0 => Stream[Len(Stream)] \in Char
      BY <1>0, ElementOfSeq
    <3>2. EndOfAnswer(Stream, asked + 1)
      BY <1>0, <3>1 DEF EndOfAnswer, Char
    <3> QED
      BY <1>0, <2>1, <2>2, <3>2 DEF StreamInv
  <2>3. CASE Stream' = tty \o (wire \o Answer(asked + 1))
    <3>1. /\ Gapless(tty \o (wire \o Answer(asked + 1)))
          /\ EndOfAnswer(tty \o (wire \o Answer(asked + 1)), asked + 1)
      BY <1>0, <2>1, AskContinues DEF Stream
    <3> QED
      BY <2>1, <2>3, <3>1 DEF StreamInv
  <2> QED
    BY <1>3, <2>2, <2>3 DEF Ask, Stream
<1> QED
  BY <1>1, <1>2, <1>3, StreamMoves

(* A read of some characters of the stream leaves no new digit beside an    *)
(* old one.                                                                 *)
LEMMA DataStep ==
  ASSUME TypeOK, StreamInv, DataInv, [Next]_vars
  PROVE  DataInv'
<1>1. CASE Start
  <2>1. /\ dh11_data'[1] = Nul /\ dh11_data'[3] = Nul
        /\ shown'.temp = << >> /\ shown'.hum = << >>
    BY <1>1 DEF Start, None
  <2>2. Len(<< >>) # 2
    BY EmptySeq
  <2> QED
    BY <2>1, <2>2 DEF DataInv, Together, LineOrder
<1>2. CASE Read
  <2>1. PICK n \in 1..5 :
          /\ n <= Len(tty)
          /\ dh11_data' \in [1..4 -> Char \cup {Nul}]
          /\ \A i \in 1..4 : i <= n => dh11_data'[i] = tty[i]
          /\ \A i \in 1..4 : i = n + 1 => dh11_data'[i] = Nul
          /\ \A i \in 1..4 : i > n + 1 => dh11_data'[i] = dh11_data[i]
          /\ shown' = Parsed(dh11_data')
    BY <1>2, ReadFills
  <2> DEFINE d == dh11_data'
  <2>2. \A i \in 1..3 : i + 1 <= n => Follows(tty[i], tty[i + 1])
    <3> SUFFICES ASSUME NEW i \in 1..3, i + 1 <= n PROVE Follows(tty[i], tty[i + 1])
      OBVIOUS
    <3>1. tty \in Seq(Char) /\ wire \in Seq(Char)
      BY DEF TypeOK
    <3>2. PICK k \in Nat, m \in Nat : k = Len(tty) /\ m = Len(wire)
      BY <3>1
    <3>3. /\ Len(Stream) = k + m
          /\ \A j \in 1..k + m : Stream[j] = IF j <= k THEN tty[j] ELSE wire[j - k]
      BY ONLY <3>1, <3>2, ConcatProperties DEF Stream
    <3>4. n <= k
      BY <2>1, <3>2
    <3>5. Stream[i] = tty[i] /\ Stream[i + 1] = tty[i + 1] /\ i \in 1..k + m - 1
      BY ONLY <3>2, <3>3, <3>4, n \in 1..5, i \in 1..3, i + 1 <= n
    <3> QED
      BY <3>3, <3>5 DEF StreamInv, Gapless
  <2>3. Together(d[1], d[2])
    <3>1. CASE n = 1
      BY <2>1, <3>1 DEF Together
    <3>2. CASE n > 1
      <4>1. d[1] = tty[1] /\ d[2] = tty[2] /\ Follows(tty[1], tty[1 + 1])
        BY <2>1, <2>2, <3>2
      <4> QED
        BY <4>1 DEF Together
    <3> QED
      BY <3>1, <3>2
  <2>4. Together(d[3], d[4])
    <3>1. CASE n = 1
      BY <2>1, <3>1 DEF Together, DataInv
    <3>2. CASE n = 2
      BY <2>1, <3>2 DEF Together
    <3>3. CASE n = 3
      BY <2>1, <3>3 DEF Together
    <3>4. CASE n > 3
      <4>1. d[3] = tty[3] /\ d[4] = tty[4] /\ Follows(tty[3], tty[3 + 1])
        BY <2>1, <2>2, <3>4
      <4> QED
        BY <4>1 DEF Together
    <3> QED
      BY <3>1, <3>2, <3>3, <3>4
  <2>5. /\ d[1] \in Char \cup {Nul} /\ d[2] \in Char \cup {Nul}
        /\ d[3] \in Char \cup {Nul} /\ d[4] \in Char \cup {Nul}
        /\ shown'.temp = Digits(d[1], d[2]) /\ shown'.hum = Digits(d[3], d[4])
    BY <2>1 DEF Parsed
  <2> HIDE DEF d
  <2>6. LineOrder'
    <3>1. Len(Digits(d[1], d[2])) = 2 => Follows(Digits(d[1], d[2])[1], Digits(d[1], d[2])[2])
      <4>1. Len(Digits(d[1], d[2])) = 2 =>
              /\ d[1] # Nul /\ d[2] # Nul
              /\ Digits(d[1], d[2])[1] = d[1] /\ Digits(d[1], d[2])[2] = d[2]
        <5>1. PICK a \in Char \cup {Nul}, b \in Char \cup {Nul} : a = d[1] /\ b = d[2]
          BY <2>5
        <5>2. Len(Digits(a, b)) = 2 =>
                a # Nul /\ b # Nul /\ Digits(a, b)[1] = a /\ Digits(a, b)[2] = b
          BY DigitsShown
        <5> QED
          BY ONLY <5>1, <5>2
      <4> QED
        BY ONLY <2>3, <4>1 DEF Together
    <3>2. Len(Digits(d[3], d[4])) = 2 => Follows(Digits(d[3], d[4])[1], Digits(d[3], d[4])[2])
      <4>1. Len(Digits(d[3], d[4])) = 2 =>
              /\ d[3] # Nul /\ d[4] # Nul
              /\ Digits(d[3], d[4])[1] = d[3] /\ Digits(d[3], d[4])[2] = d[4]
        <5>1. PICK a \in Char \cup {Nul}, b \in Char \cup {Nul} : a = d[3] /\ b = d[4]
          BY <2>5
        <5>2. Len(Digits(a, b)) = 2 =>
                a # Nul /\ b # Nul /\ Digits(a, b)[1] = a /\ Digits(a, b)[2] = b
          BY DigitsShown
        <5> QED
          BY ONLY <5>1, <5>2
      <4> QED
        BY ONLY <2>4, <4>1 DEF Together
    <3> QED
      BY <2>5, <3>1, <3>2 DEF LineOrder
  <2> QED
    BY <2>3, <2>4, <2>6 DEF DataInv, d
<1>3. CASE ~Start /\ ~Read
  <2>1. UNCHANGED reading
    BY <1>3 DEF Next, Transfer, FanFlush, Kill, Ask, Arrive, Failure, Select, Timeout, AdcStart, AdcWait,
                AdcData, AdcReset, Handler, vars
  <2> QED
    BY <2>1 DEF reading, DataInv, LineOrder
<1> QED
  BY <1>1, <1>2, <1>3

(* After a quiet start, nothing but the answer is on the line until it is   *)
(* read.                                                                    *)
LEMMA QuietStep ==
  ASSUME TypeOK, StreamInv, QuietInv, FreshInv, [Next]_vars
  PROVE  QuietInv'
<1>0. /\ wire \in Seq(Char) /\ tty \in Seq(Char) /\ asked \in Nat /\ Stream \in Seq(Char)
      /\ << >> \in Seq(Char)
  BY ConcatProperties, EmptySeq DEF TypeOK, Stream
<1>1. CASE Ask
  <2>1. /\ pc' = "select" /\ asked' = asked + 1 /\ taken' = 0
        /\ quiet' = (wire = << >> /\ tty = << >>)
    BY <1>1 DEF Ask, Goto
  <2>2. ASSUME quiet' PROVE RestOfAnswer(Stream, asked)'
    <3>1. wire = << >> /\ tty = << >>
      BY <2>1, <2>2
    <3>2. Stream' = << >> \/ Stream' = << >> \o (<< >> \o Answer(asked + 1))
      BY <1>1, <3>1, ConcatEmptySeq DEF Ask, Stream
    <3>3. CASE Stream' = << >>
      BY <3>3, EmptySeq DEF RestOfAnswer
    <3>4. CASE Stream' = << >> \o (<< >> \o Answer(asked + 1))
      <4>1. /\ Answer(asked + 1) \in Seq(Char) /\ Len(Answer(asked + 1)) = 4
            /\ \A i \in 1..4 : Answer(asked + 1)[i] = <<asked + 1, i>>
        <5>1. asked < Polls
          BY <1>1 DEF Ask
        <5> QED
          BY <1>0, <5>1, AnswerChars
      <4>2. Stream' = Answer(asked + 1)
        BY ONLY <3>4, <4>1, ConcatEmptySeq
      <4>3. Len(Stream') = 4
        BY <4>1, <4>2
      <4>4. ASSUME NEW i \in 1..4 PROVE Stream'[i] = <<asked', i + 4 - Len(Stream')>>
        <5>1. i + 4 - Len(Stream') = i
          BY <4>3
        <5>2. Stream'[i] = <<asked + 1, i>>
          BY <4>1, <4>2
        <5> QED
          BY <2>1, <5>1, <5>2
      <4> QED
        BY <4>3, <4>4 DEF RestOfAnswer
    <3> QED
      BY <3>2, <3>3, <3>4
  <2> QED
    BY <2>1, <2>2 DEF QuietInv, QuietAnswer, OwnDigits
<1>2. CASE Read
  <2>1. PICK n \in 1..5 :
          /\ n <= Len(tty) /\ n = (IF Len(tty) > 5 THEN 5 ELSE Len(tty))
          /\ taken' = n
          /\ dh11_data' \in [1..4 -> Char \cup {Nul}]
          /\ \A i \in 1..4 : i <= n => dh11_data'[i] = tty[i] /\ tty[i] \in Char
          /\ \A i \in 1..4 : i = n + 1 => dh11_data'[i] = Nul
          /\ shown' = Parsed(dh11_data')
    BY <1>2, ReadFills
  <2>2. pc = "read" /\ pc' = "adc" /\ quiet' = quiet /\ asked' = asked
    BY <1>2 DEF Read, Goto
  <2>3. ASSUME quiet, n = 4
        PROVE  shown' = [temp |-> << <<asked, 1>>, <<asked, 2>> >>,
                         hum |-> << <<asked, 3>>, <<asked, 4>> >>]
    <3>1. PICK k \in Nat, m \in Nat : k = Len(tty) /\ m = Len(wire)
      BY <1>0
    <3>2. k = 4
      BY <2>1, <2>3, <3>1
    <3>3. /\ Len(Stream) = k + m
          /\ \A j \in 1..k + m : Stream[j] = IF j <= k THEN tty[j] ELSE wire[j - k]
      BY ONLY <1>0, <3>1, ConcatProperties DEF Stream
    <3>4. k + m <= 4 /\ \A i \in 1..k + m : Stream[i] = <<asked, i + 4 - (k + m)>>
      BY <2>2, <2>3, <3>3 DEF QuietInv, RestOfAnswer
    <3>5. m = 0
      BY <3>1, <3>2, <3>4
    <3>6. \A i \in 1..4 : tty[i] = <<asked, i>>
      <4> SUFFICES ASSUME NEW i \in 1..4 PROVE tty[i] = <<asked, i>>
        OBVIOUS
      <4>1. i \in 1..k + m /\ i <= k /\ i + 4 - (k + m) = i
        BY <3>2, <3>5
      <4> QED
        BY ONLY <3>3, <3>4, <4>1
    <3>7. asked # 0
      BY <1>0, <2>2 DEF FreshInv
    <3>8. \A i \in 1..4 : dh11_data'[i] = <<asked, i>> /\ <<asked, i>> # Nul
      BY <2>1, <2>3, <3>6, <3>7 DEF Nul
    <3>9. /\ Digits(dh11_data'[1], dh11_data'[2]) = << <<asked, 1>>, <<asked, 2>> >>
          /\ Digits(dh11_data'[3], dh11_data'[4]) = << <<asked, 3>>, <<asked, 4>> >>
      BY <3>8 DEF Digits
    <3> QED
      BY <2>1, <3>9 DEF Parsed
  <2>4. ASSUME quiet, n > 1
        PROVE  \A t \in {shown'.temp, shown'.hum} :
                 Len(t) = 2 => t[1][1] = asked /\ Within(t[1], t[2])
    <3> DEFINE d == dh11_data'
    <3>1. PICK k \in Nat, m \in Nat : k = Len(tty) /\ m = Len(wire)
      BY <1>0
    <3>2. /\ Len(Stream) = k + m
          /\ \A j \in 1..k + m : Stream[j] = IF j <= k THEN tty[j] ELSE wire[j - k]
      BY ONLY <1>0, <3>1, ConcatProperties DEF Stream
    <3>3. k + m <= 4 /\ \A i \in 1..k + m : Stream[i] = <<asked, i + 4 - (k + m)>>
      BY <2>2, <2>4, <3>2 DEF QuietInv, RestOfAnswer
    <3>4. ASSUME NEW i \in 1..4, i <= n PROVE d[i] = <<asked, i + 4 - (k + m)>>
      <4>1. i \in 1..k + m /\ i <= k
        BY <2>1, <3>1, <3>4
      <4>2. d[i] = tty[i]
        BY <2>1, <3>4
      <4> QED
        BY ONLY <3>2, <3>3, <4>1, <4>2
    <3>5. \A i \in 1..3 : i + 1 <= n => d[i][1] = asked /\ Within(d[i], d[i + 1])
      <4> SUFFICES ASSUME NEW i \in 1..3, i + 1 <= n
                   PROVE  d[i][1] = asked /\ Within(d[i], d[i + 1])
        OBVIOUS
      <4>1. i \in 1..4 /\ i + 1 \in 1..4 /\ i <= n
        BY <2>1
      <4>2. d[i] = <<asked, i + 4 - (k + m)>> /\ d[i + 1] = <<asked, (i + 1) + 4 - (k + m)>>
        BY <3>4, <4>1
      <4>3. (i + 1) + 4 - (k + m) = (i + 4 - (k + m)) + 1
        BY <3>1
      <4> QED
        BY ONLY <4>2, <4>3 DEF Within
    <3>6. PICK a \in Char \cup {Nul}, b \in Char \cup {Nul},
               e \in Char \cup {Nul}, f \in Char \cup {Nul} :
            a = d[1] /\ b = d[2] /\ e = d[3] /\ f = d[4]
      BY <2>1
    <3> HIDE DEF d
    <3>7. shown'.temp = Digits(a, b) /\ shown'.hum = Digits(e, f)
      BY <2>1, <3>6 DEF Parsed, d
    <3>8. Len(Digits(a, b)) = 2 => Digits(a, b)[1] = a /\ Digits(a, b)[2] = b
      BY DigitsShown
    <3>9. Len(Digits(e, f)) = 2 =>
            e # Nul /\ f # Nul /\ Digits(e, f)[1] = e /\ Digits(e, f)[2] = f
      BY DigitsShown
    <3>10. a[1] = asked /\ Within(a, b)
      <4>1. 1 \in 1..3 /\ 1 + 1 <= n /\ 1 + 1 = 2
        BY <2>1, <2>4
      <4> QED
        BY ONLY <3>5, <3>6, <4>1
    <3>11. e # Nul /\ f # Nul => e[1] = asked /\ Within(e, f)
      <4>1. CASE n = 2
        <5>1. 3 \in 1..4 /\ 3 = n + 1
          BY <4>1
        <5>2. e = Nul
          BY ONLY <2>1, <3>6, <5>1 DEF d
        <5> QED
          BY ONLY <5>2
      <4>2. CASE n = 3
        <5>1. 4 \in 1..4 /\ 4 = n + 1
          BY <4>2
        <5>2. f = Nul
          BY ONLY <2>1, <3>6, <5>1 DEF d
        <5> QED
          BY ONLY <5>2
      <4>3. CASE n > 3
        <5>1. 3 \in 1..3 /\ 3 + 1 <= n /\ 3 + 1 = 4
          BY <2>1, <4>3
        <5> QED
          BY ONLY <3>5, <3>6, <5>1
      <4>4. n = 2 \/ n = 3 \/ n > 3
        <5>1. n \in 1..5 /\ n > 1
          BY <2>4
        <5> QED
          BY ONLY <5>1
      <4> QED
        BY ONLY <4>1, <4>2, <4>3, <4>4
    <3> QED
      BY ONLY <3>7, <3>8, <3>9, <3>10, <3>11
  <2> QED
    BY <2>1, <2>2, <2>3, <2>4 DEF QuietInv, QuietAnswer, OwnDigits
<1>3. CASE Start \/ Kill
  <2>1. pc' \in {"ask", "down"}
    BY <1>3 DEF Start, Kill
  <2> QED
    BY <2>1 DEF QuietInv, QuietAnswer, OwnDigits
<1>4. CASE FanFlush \/ Arrive
  <2>1. UNCHANGED <<pc, asked, quiet, taken, shown>> /\ ~Ask
    BY <1>0, <1>4 DEF FanFlush, Arrive, process, reading, Ask
  <2>2. RestOfAnswer(Stream, asked) => RestOfAnswer(Stream', asked)
    <3>1. Stream' = Stream \/ (Stream' \in Seq(Char) /\ Suffix(Stream', Stream))
      BY <2>1, StreamMoves
    <3> QED
      BY <1>0, <3>1, SuffixKeeps
  <2> QED
    BY <2>1, <2>2 DEF QuietInv, QuietAnswer, OwnDigits
<1>5. CASE Failure \/ Select \/ Timeout \/ AdcStart \/ AdcWait \/ AdcData \/ AdcReset
  <2>1. /\ UNCHANGED <<line, reading>>
        /\ pc' \in {"select", "read"} => pc \in {"select", "read"}
        /\ pc' = "adc" => pc \in {"select", "read"}
    BY <1>5 DEF Failure, Select, Timeout, AdcStart, AdcWait, AdcData, AdcReset, Goto
  <2>2. Stream' = Stream /\ UNCHANGED <<asked, quiet, taken, shown>>
    BY <2>1 DEF line, reading, Stream
  <2>3. QuietAnswer' /\ OwnDigits'
    BY <2>1, <2>2 DEF QuietInv, QuietAnswer, OwnDigits
  <2> QED
    BY <2>1, <2>2, <2>3 DEF QuietInv
<1>6. CASE Handler \/ UNCHANGED vars
  <2>1. UNCHANGED <<process, line, reading>>
    BY <1>6 DEF Handler, vars
  <2> QED
    BY <2>1 DEF process, line, reading, Stream, QuietInv, QuietAnswer, OwnDigits
<1> QED
  BY <1>1, <1>2, <1>3, <1>4, <1>5, <1>6 DEF Next, Transfer

(* A conversion is this fill's, unless a wait was interrupted before.       *)
LEMMA FreshStep ==
  ASSUME TypeOK, FreshInv, [Next]_vars
  PROVE  FreshInv'
<1>0. asked \in Nat /\ pc \in Steps
  BY DEF TypeOK
<1>1. CASE Start \/ Ask
  <2>1. /\ pc \in {"down", "ask"} /\ UNCHANGED driver
        /\ pc' = "ask" \/ (pc' = "select" /\ asked' > 0)
    BY <1>0, <1>1 DEF Start, Ask, Goto
  <2> QED
    BY <2>1 DEF FreshInv, driver
<1>2. CASE Kill
  <2>1. /\ pc \in {"ask", "select", "read", "adc", "wait"} /\ pc' = "down"
        /\ have_data' = IF pc = "wait" THEN 0 ELSE have_data
        /\ cut' = (cut \/ (pc = "wait" /\ have_data = 0))
        /\ converting' = converting
    BY <1>2 DEF Kill
  <2>2. ~cut' => converting = 0 /\ have_data' = 0
    BY <2>1 DEF FreshInv
  <2> QED
    BY <2>1, <2>2 DEF FreshInv
<1>3. CASE FanFlush \/ Arrive
  BY <1>3 DEF FanFlush, Arrive, process, driver, FreshInv
<1>4. CASE Failure \/ Select \/ Timeout \/ Read
  <2>1. /\ pc \in {"select", "read"} /\ pc' \in {"read", "adc"}
        /\ UNCHANGED <<asked, driver>>
    BY <1>4 DEF Failure, Select, Timeout, Read, Goto, line
  <2> QED
    BY <2>1 DEF FreshInv, driver
<1>5. CASE AdcStart
  BY <1>5 DEF AdcStart, Goto, line, FreshInv
<1>6. CASE AdcWait
  BY <1>0, <1>6 DEF AdcWait, Goto, line, driver, FreshInv
<1>7. CASE AdcData
  BY <1>7 DEF AdcData, Goto, line, FreshInv
<1>8. CASE AdcReset
  BY <1>8 DEF AdcReset, Goto, line, FreshInv
<1>9. CASE Handler
  BY <1>0, <1>9 DEF Handler, process, line, FreshInv, Steps
<1>10. CASE UNCHANGED vars
  BY <1>10 DEF vars, process, line, driver, FreshInv
<1> QED
  BY <1>1, <1>2, <1>3, <1>4, <1>5, <1>6, <1>7, <1>8, <1>9, <1>10 DEF Next, Transfer

LEMMA Invariants == Spec => []IInv
<1>1. IInv /\ [Next]_vars => IInv'
  BY TypeStep, StreamStep, DataStep, QuietStep, FreshStep DEF IInv
<1> QED
  BY InitIInv, <1>1, PTL DEF Spec

-----------------------------------------------------------------------------
(* The variables stay in their types: no read takes more than the buffer    *)
(* holds, and no conversion is ahead of the fills.                          *)
THEOREM TypeCorrect == Spec => []TypeOK
<1>1. IInv => TypeOK
  BY DEF IInv
<1> QED
  BY <1>1, Invariants, PTL

(* A temperature or humidity of two digits is made of characters that       *)
(* followed each other on the line, in whatever pieces they arrived and     *)
(* whenever the line was flushed or the monitor restarted: of one answer,   *)
(* or of the end of one and the start of a later one.  If the line was      *)
(* quiet when the question was sent, both are of this fill's answer.        *)
THEOREM DigitsCorrect == Spec => []DigitsTogether
<1>1. IInv => DigitsTogether
  BY DEF IInv, DataInv, QuietInv, DigitsTogether
<1> QED
  BY <1>1, Invariants, PTL

(* If the line was quiet when the question was sent and its answer came in  *)
(* one piece, what is shown is that answer.                                 *)
THEOREM QuietCorrect == Spec => []QuietAnswer
<1>1. IInv => QuietAnswer
  BY DEF IInv, QuietInv
<1> QED
  BY <1>1, Invariants, PTL

(* Until a signal interrupts a wait for the ADC, each fill gets the value   *)
(* of its own conversion.                                                   *)
THEOREM FreshCorrect == Spec => []ConversionFresh
<1>1. IInv => ConversionFresh
  BY DEF IInv, FreshInv, ConversionFresh
<1> QED
  BY <1>1, Invariants, PTL

=============================================================================
