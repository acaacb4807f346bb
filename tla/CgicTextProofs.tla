---------------------------- MODULE CgicTextProofs ----------------------------
(***************************************************************************)
(* Lemmas about the text operators of CgicText that the proofs about       *)
(* requests rest on, for texts of any length.                              *)
(***************************************************************************)
EXTENDS CgicText, SequenceTheorems, FiniteSetTheorems, WellFoundedInduction, TLAPS

(* A set of numbers that is not empty has a least one.                     *)
LEMMA LeastNat ==
  ASSUME NEW T, T \subseteq Nat, T # {}
  PROVE  \E x \in T : \A y \in T : x <= y
<1>1. \E x \in T : \A y \in T : ~ (<<y, x>> \in OpToRel(<, Nat))
  BY NatLessThanWellFounded, WFMin
<1>2. PICK x \in T : \A y \in T : ~ (<<y, x>> \in OpToRel(<, Nat))
  BY <1>1
<1>3. \A y \in T : ~(y < x)
  BY <1>2 DEF OpToRel
<1> QED
  BY <1>3

(* The smaller and the larger of two numbers.                              *)
LEMMA MinTwo ==
  ASSUME NEW a \in Int, NEW b \in Int
  PROVE  Min({a, b}) = IF a <= b THEN a ELSE b
<1> DEFINE m == IF a <= b THEN a ELSE b
<1>1. m \in {a, b} /\ \A y \in {a, b} : m <= y
  OBVIOUS
<1>2. \A x \in {a, b} : (\A y \in {a, b} : x <= y) => x = m
  OBVIOUS
<1> QED
  BY <1>1, <1>2 DEF Min

(* The larger of two numbers.                                              *)
LEMMA MaxTwo ==
  ASSUME NEW a \in Int, NEW b \in Int
  PROVE  Max({a, b}) = IF a >= b THEN a ELSE b
<1> DEFINE m == IF a >= b THEN a ELSE b
<1>1. m \in {a, b} /\ \A y \in {a, b} : m >= y
  OBVIOUS
<1>2. \A x \in {a, b} : (\A y \in {a, b} : x >= y) => x = m
  OBVIOUS
<1> QED
  BY <1>1, <1>2 DEF Max

(* Of the positions from p on the first one in T, or the one behind a text *)
(* of length L.                                                            *)
LEMMA FirstOf ==
  ASSUME NEW L \in Nat, NEW p \in Nat, NEW T
  PROVE  \E i \in p..Max({p, L + 1}) :
           /\ i <= L => i \in T
           /\ \A j \in p..i - 1 : j \notin T
<1> DEFINE m == Max({p, L + 1})
           C == {i \in p..m : i <= L => i \in T}
<1>1. m \in Nat /\ p <= m /\ m > L
  BY MaxTwo
<1> HIDE DEF m
<1>2. m \in C
  BY <1>1
<1>3. C \subseteq Nat
  BY <1>1
<1>4. PICK i \in C : \A y \in C : i <= y
  BY <1>2, <1>3, LeastNat, Zenon
<1>5. \A j \in p..i - 1 : j \notin T
  BY <1>4, <1>1
<1>6. i \in p..m /\ (i <= L => i \in T)
  BY <1>4
<1> QED
  BY <1>5, <1>6 DEF m

(* Seek stops at the first letter in S, and at the latest behind the text. *)
LEMMA SeekFacts ==
  ASSUME NEW s, Len(s) \in Nat, NEW p \in Nat, NEW S
  PROVE  /\ Seek(s, p, S) \in Nat
         /\ Seek(s, p, S) >= p
         /\ Seek(s, p, S) <= Max({p, Len(s) + 1})
         /\ \A j \in p..Seek(s, p, S) - 1 : s[j] \notin S
         /\ Seek(s, p, S) <= Len(s) => s[Seek(s, p, S)] \in S
<1> DEFINE Good(i, from) == /\ i <= Len(s) => s[i] \in S
                            /\ \A j \in from..i - 1 : s[j] \notin S
           m == Max({p, Len(s) + 1})
           T == {i \in Nat : s[i] \in S}
<1>1. m \in Nat /\ p <= m
  BY MaxTwo
<1>2. PICK i \in p..m : (i <= Len(s) => i \in T) /\ \A j \in p..i - 1 : j \notin T
  BY FirstOf, Zenon
<1>3. Good(i, p)
  BY <1>1, <1>2
<1>4. Seek(s, p, S) = CHOOSE k \in p..m : Good(k, p)
  BY DEF Seek
<1> HIDE DEF Good, m
<1>5. Seek(s, p, S) \in p..m /\ Good(Seek(s, p, S), p)
  BY <1>3, <1>4
<1> QED
  BY <1>1, <1>5 DEF Good, m

(* Skip stands at the first position from p on that is not in S, or behind *)
(* the text.                                                               *)
LEMMA SkipFacts ==
  ASSUME NEW s, Len(s) \in Nat, NEW p \in Nat, NEW S
  PROVE  /\ Skip(s, p, S) \in Nat
         /\ Skip(s, p, S) >= p
         /\ Skip(s, p, S) <= Max({p, Len(s) + 1})
<1> DEFINE Good(i, from) == /\ i <= Len(s) => s[i] \notin S
                            /\ \A j \in from..i - 1 : s[j] \in S
           m == Max({p, Len(s) + 1})
           T == {i \in Nat : s[i] \notin S}
<1>1. m \in Nat /\ p <= m
  BY MaxTwo
<1>2. PICK i \in p..m : (i <= Len(s) => i \in T) /\ \A j \in p..i - 1 : j \notin T
  BY FirstOf, Zenon
<1>3. Good(i, p)
  BY <1>1, <1>2
<1>4. Skip(s, p, S) = CHOOSE k \in p..m : Good(k, p)
  BY DEF Skip
<1> HIDE DEF Good, m
<1>5. Skip(s, p, S) \in p..m /\ Good(Skip(s, p, S), p)
  BY <1>3, <1>4
<1> QED
  BY <1>1, <1>5 DEF Good, m

(* A boundary holds no whitespace, however the content type is written.    *)
LEMMA BoundaryFacts ==
  ASSUME NEW type \in Seq(Nat), NEW w
  PROVE  BoundaryOf(type, w) \in Seq(Nat \ Whitespace)
<1> DEFINE key == <<w, EQ>>
           semis == {i \in 1..Len(type) :
                       /\ type[i] = SEMI
                       /\ StrBeginsNc(SubSeq(type, Skip(type, i + 1, Whitespace),
                                             Len(type)), key)}
           from == Skip(type, Min(semis) + 1, Whitespace) + Len(key)
           end == Seek(type, from, Whitespace)
<1>1. CASE semis = {}
  <2>1. BoundaryOf(type, w) = << >>
    BY <1>1 DEF BoundaryOf
  <2> QED
    BY <2>1
<1>2. CASE semis # {}
  <2> HIDE DEF semis
  <2>1. semis \subseteq Nat
    BY DEF semis
  <2>2. Min(semis) \in Nat
    BY <1>2, <2>1, LeastNat, Zenon DEF Min
  <2>3. Len(type) \in Nat /\ Len(key) = 2
    OBVIOUS
  <2>4. Skip(type, Min(semis) + 1, Whitespace) \in Nat
    <3>1. PICK p \in Nat : p = Min(semis) + 1
      BY <2>2
    <3>2. Skip(type, p, Whitespace) \in Nat
      BY <2>3, SkipFacts
    <3> QED
      BY <3>1, <3>2
  <2>5. from \in Nat /\ from >= 1
    BY <2>3, <2>4
  <2> HIDE DEF from, key
  <2>6. /\ end \in Nat /\ end >= from
        /\ end <= Max({from, Len(type) + 1})
        /\ \A j \in from..end - 1 : type[j] \notin Whitespace
    BY <2>3, <2>5, SeekFacts
  <2> HIDE DEF end
  <2>7. \A i \in from..end - 1 : type[i] \in Nat \ Whitespace
    BY <2>3, <2>5, <2>6, MaxTwo
  <2>8. SubSeq(type, from, end - 1) \in Seq(Nat \ Whitespace)
    BY <2>5, <2>6, <2>7, SubSeqProperties
  <2>9. BoundaryOf(type, w) = SubSeq(type, from, end - 1)
    BY <1>2 DEF BoundaryOf, semis, from, key, end
  <2> QED
    BY <2>8, <2>9
<1> QED
  BY <1>1, <1>2

-----------------------------------------------------------------------------
(* s is the end of t, from some position on.                               *)
Ends(s, t) == \E n \in 0..Len(t) : s = SubSeq(t, n + 1, Len(t))

(* A text is an end of itself.                                             *)
LEMMA EndOfSelf ==
  ASSUME NEW t \in Seq(Nat)
  PROVE  Ends(t, t)
<1>1. 0 \in 0..Len(t) /\ t = SubSeq(t, 0 + 1, Len(t))
  BY SubSeqFull
<1> QED
  BY <1>1, Zenon DEF Ends

(* What is behind the beginning of an end is an end.                       *)
LEMMA EndOfEnd ==
  ASSUME NEW t \in Seq(Nat), NEW u \in Seq(Nat), NEW v \in Seq(Nat), Ends(u \o v, t)
  PROVE  Ends(v, t)
<1>1. PICK n \in 0..Len(t) : u \o v = SubSeq(t, n + 1, Len(t))
  BY DEF Ends
<1>2. /\ Len(u) \in Nat /\ Len(v) \in Nat /\ Len(t) \in Nat
      /\ \A i \in 1..Len(v) : v[i] \in Nat
      /\ \A i \in 1..Len(t) : t[i] \in Nat
  OBVIOUS
<1>3. /\ Len(u \o v) = Len(u) + Len(v)
      /\ \A i \in 1..Len(u) + Len(v) :
           (u \o v)[i] = IF i <= Len(u) THEN u[i] ELSE v[i - Len(u)]
  BY ConcatProperties
<1>4. /\ Len(SubSeq(t, n + 1, Len(t))) = Len(t) - n
      /\ \A i \in 1..Len(t) - n : SubSeq(t, n + 1, Len(t))[i] = t[n + i]
  <2>1. \A i \in n + 1..Len(t) : t[i] \in Nat
    BY <1>2
  <2> QED
    BY <2>1, SubSeqProperties
<1>5. Len(u) + Len(v) = Len(t) - n
  BY <1>1, <1>3, <1>4
<1>6. \A i \in 1..Len(v) : v[i] = t[n + Len(u) + i]
  <2> TAKE i \in 1..Len(v)
  <2>1. Len(u) + i \in 1..Len(u) + Len(v) /\ ~(Len(u) + i <= Len(u)) /\ Len(u) + i - Len(u) = i
    BY <1>2
  <2>2. (u \o v)[Len(u) + i] = v[i]
    BY <2>1, <1>3
  <2>3. SubSeq(t, n + 1, Len(t))[Len(u) + i] = t[n + (Len(u) + i)]
    BY <2>1, <1>4, <1>5
  <2> QED
    <3>1. n + (Len(u) + i) = n + Len(u) + i
      BY <1>2
    <3> QED
      BY <2>2, <2>3, <3>1, <1>1
<1> DEFINE k == n + Len(u)
           w == SubSeq(t, k + 1, Len(t))
<1>7. k \in 0..Len(t) /\ Len(t) - k = Len(v)
  BY <1>2, <1>5
<1>8. w \in Seq(Nat) /\ Len(w) = Len(v) /\ \A i \in 1..Len(v) : w[i] = t[k + i]
  <2>1. \A i \in k + 1..Len(t) : t[i] \in Nat
    BY <1>2, <1>7
  <2> QED
    <3>1. k + 1 \in Int /\ Len(t) \in Int /\ Len(t) - (k + 1) + 1 = Len(v)
      BY <1>2, <1>7
    <3>2. k + 1 <= Len(t) <=> Len(v) # 0
      BY <1>2, <1>7
    <3> HIDE DEF k
    <3>3. \A i \in 1..Len(v) : k + 1 + i - 1 = k + i
      BY <1>7
    <3> QED
      BY <2>1, <3>1, <3>2, <3>3, SubSeqProperties
<1>9. v = w
  <2>1. \A i \in 1..Len(v) : v[i] = w[i]
    BY <1>6, <1>8
  <2> QED
    BY <2>1, <1>8, SeqEqual
<1> QED
  BY <1>7, <1>9 DEF Ends

(* An end is a suffix.                                                     *)
LEMMA EndIsSuffix ==
  ASSUME NEW t \in Seq(Nat), NEW s, Ends(s, t)
  PROVE  IsSuffix(s, t)
<1>1. PICK n \in 0..Len(t) : s = SubSeq(t, n + 1, Len(t))
  BY DEF Ends
<1> DEFINE m == Len(t) - n
<1>2. Len(t) \in Nat /\ m \in Nat /\ m <= Len(t) /\ \A i \in 1..Len(t) : t[i] \in Nat
  OBVIOUS
<1>3. Len(s) = m /\ \A i \in 1..m : s[i] = t[n + i]
  <2>1. \A i \in n + 1..Len(t) : t[i] \in Nat
    BY <1>2
  <2> QED
    BY <2>1, <1>1, SubSeqProperties
<1>4. Len(Reverse(s)) = m /\ Len(Reverse(t)) = Len(t)
  BY <1>2, <1>3 DEF Reverse
<1>5. \A i \in 1..m : Reverse(s)[i] = Reverse(t)[i]
  <2> TAKE i \in 1..m
  <2>1. Reverse(s)[i] = s[m - i + 1]
    BY <1>3 DEF Reverse
  <2>2. m - i + 1 \in 1..m /\ n + (m - i + 1) = Len(t) - i + 1 /\ i \in 1..Len(t)
    BY <1>2
  <2>3. Reverse(t)[i] = t[Len(t) - i + 1]
    BY <2>2 DEF Reverse
  <2> QED
    BY <2>1, <2>2, <2>3, <1>3
<1>6. \A i \in 1..m : Reverse(t)[i] \in Nat
  <2> TAKE i \in 1..m
  <2>1. i \in 1..Len(t) /\ Len(t) - i + 1 \in 1..Len(t)
    BY <1>2
  <2> QED
    BY <2>1, <1>2 DEF Reverse
<1>7. SubSeq(Reverse(s), 1, m) = SubSeq(Reverse(t), 1, m)
  <2> DEFINE a == SubSeq(Reverse(s), 1, m)
             b == SubSeq(Reverse(t), 1, m)
  <2>1. b \in Seq(Nat) /\ Len(b) = m /\ \A i \in 1..m : b[i] = Reverse(t)[i]
    BY <1>2, <1>6, SubSeqProperties
  <2>2. a \in Seq(Nat) /\ Len(a) = m /\ \A i \in 1..m : a[i] = Reverse(s)[i]
    <3>1. \A i \in 1..m : Reverse(s)[i] \in Nat
      BY <1>5, <1>6
    <3> QED
      BY <3>1, <1>2, SubSeqProperties
  <2> QED
    BY <2>1, <2>2, <1>5, SeqEqual
<1> QED
  BY <1>2, <1>4, <1>7 DEF IsSuffix, IsPrefix

-----------------------------------------------------------------------------
(* A text without letters is the empty one.                                *)
LEMMA EmptyText ==
  ASSUME NEW s \in Seq(Nat), Len(s) = 0
  PROVE  s = << >>
OBVIOUS

(* Two, three, four texts.                                                 *)
Three(a, b, c) == a \in Seq(Nat) /\ b \in Seq(Nat) /\ c \in Seq(Nat)
Four(a, b, c, x) == Three(a, b, c) /\ x \in Seq(Nat)

Two(a, b) == a \in Seq(Nat) /\ b \in Seq(Nat)

(* The letters of two texts that are joined.                               *)
LEMMA Joined ==
  \A a, b : Two(a, b) =>
    /\ a \o b \in Seq(Nat)
    /\ Len(a \o b) = Len(a) + Len(b)
    /\ \A i \in 1..Len(a) : (a \o b)[i] = a[i]
    /\ \A i \in 1..Len(b) : (a \o b)[Len(a) + i] = b[i]
<1> SUFFICES ASSUME NEW a \in Seq(Nat), NEW b \in Seq(Nat)
             PROVE  /\ a \o b \in Seq(Nat)
                    /\ Len(a \o b) = Len(a) + Len(b)
                    /\ \A i \in 1..Len(a) : (a \o b)[i] = a[i]
                    /\ \A i \in 1..Len(b) : (a \o b)[Len(a) + i] = b[i]
  BY Zenon DEF Two
<1>1. /\ a \o b \in Seq(Nat)
      /\ Len(a \o b) = Len(a) + Len(b)
      /\ \A i \in 1..Len(a) + Len(b) :
           (a \o b)[i] = IF i <= Len(a) THEN a[i] ELSE b[i - Len(a)]
  OBVIOUS
<1>2. PICK m \in Nat, n \in Nat : m = Len(a) /\ n = Len(b)
  OBVIOUS
<1>3. \A i \in 1..m : i \in 1..m + n /\ i <= m
  OBVIOUS
<1>4. \A i \in 1..n : m + i \in 1..m + n /\ ~(m + i <= m) /\ m + i - m = i
  OBVIOUS
<1>5. \A i \in 1..Len(a) : (a \o b)[i] = a[i]
  BY <1>1, <1>2, <1>3, Zenon
<1>6. \A i \in 1..n : (a \o b)[m + i] = b[i]
  <2> TAKE i \in 1..n
  <2>1. PICK k : k = m + i
    OBVIOUS
  <2>2. k \in 1..m + n /\ ~(k <= m) /\ k - m = i
    BY <1>4, <2>1
  <2>3. (a \o b)[k] = b[k - m]
    BY <1>1, <1>2, <2>2, Zenon
  <2> QED
    BY <2>1, <2>2, <2>3, Zenon
<1> QED
  BY <1>1, <1>2, <1>5, <1>6, Zenon

(* Texts are joined in any order.                                          *)
LEMMA Assoc ==
  \A a, b, c : Three(a, b, c) => (a \o b) \o c = a \o (b \o c)
<1>1. ASSUME NEW a \in Seq(Nat), NEW b \in Seq(Nat), NEW c \in Seq(Nat)
      PROVE  (a \o b) \o c = a \o (b \o c)
  BY ONLY <1>1, ConcatAssociative, SMTT(20)
<1> QED
  BY <1>1, Zenon DEF Three

(* The same for four texts, in the two forms a putback needs.              *)
LEMMA Regroup ==
  \A a, b, c, x : Four(a, b, c, x) =>
    /\ (a \o b) \o (c \o x) = (a \o (b \o c)) \o x
    /\ ((a \o b) \o c) \o x = (a \o b) \o (c \o x)
<1> SUFFICES ASSUME NEW a, NEW b, NEW c, NEW x, Four(a, b, c, x)
             PROVE  /\ (a \o b) \o (c \o x) = (a \o (b \o c)) \o x
                    /\ ((a \o b) \o c) \o x = (a \o b) \o (c \o x)
  BY Zenon
<1>1. PICK ab : ab = a \o b
  OBVIOUS
<1>2. Three(a, b, c) /\ Three(ab, c, x)
  <2>1. a \o b \in Seq(Nat)
    BY Four(a, b, c, x), ConcatProperties DEF Four, Three
  <2> QED
    BY <1>1, <2>1 DEF Four, Three
<1>3. (ab \o c) \o x = ab \o (c \o x)
  BY ONLY <1>2, Assoc
<1>4. (a \o b) \o c = a \o (b \o c)
  BY ONLY <1>2, Assoc
<1> QED
  BY ONLY <1>1, <1>3, <1>4, Zenon

(* The beginning of a text, and what is behind it.                         *)
Taken(s, k) == SubSeq(s, 1, k)
Left(s, k) == SubSeq(s, Len(Taken(s, k)) + 1, Len(s))

IsSplit(s, k, u, v) ==
  /\ u \in Seq(Nat) /\ v \in Seq(Nat)
  /\ Len(u) = IF k >= 1 THEN k ELSE 0
  /\ Len(v) = Len(s) - Len(u)
  /\ s = u \o v
  /\ \A i \in 1..Len(u) : u[i] = s[i]
  /\ \A i \in 1..Len(v) : v[i] = s[Len(u) + i]

(* A text is what SubSeq takes from its beginning and what it leaves.      *)
LEMMA Split ==
  ASSUME NEW s \in Seq(Nat), NEW k \in Int, k <= Len(s)
  PROVE  IsSplit(s, k, Taken(s, k), Left(s, k))
<1> SUFFICES ASSUME NEW u, u = Taken(s, k), NEW v, v = Left(s, k)
             PROVE  IsSplit(s, k, u, v)
  BY Zenon
<1>0. u = SubSeq(s, 1, k) /\ v = SubSeq(s, Len(u) + 1, Len(s))
  BY DEF Taken, Left
<1> DEFINE c == IF k >= 1 THEN k ELSE 0
<1>1. c \in Nat /\ c <= Len(s) /\ Len(s) \in Nat /\ \A i \in 1..Len(s) : s[i] \in Nat
  OBVIOUS
<1>2. u = SubSeq(s, 1, c)
  <2>1. CASE k >= 1
    BY <2>1, <1>0
  <2>2. CASE ~(k >= 1)
    BY <2>2, <1>0, SubSeqEmpty
  <2> QED
    BY <2>1, <2>2
<1>3. PICK d \in Nat : d = c
  BY <1>1
<1> HIDE DEF c
<1>4. u \in Seq(Nat) /\ Len(u) = d /\ \A i \in 1..d : u[i] = s[i]
  <2>1. \A i \in 1..d : s[i] \in Nat
    BY <1>1, <1>3
  <2>2. d - 1 + 1 = d /\ \A i \in 1..d : 1 + i - 1 = i
    OBVIOUS
  <2> QED
    BY <1>2, <1>3, <2>1, <2>2, SubSeqProperties
<1>5. v = SubSeq(s, d + 1, Len(s)) /\ d <= Len(s)
  BY <1>0, <1>1, <1>3, <1>4
<1>6. v \in Seq(Nat) /\ Len(v) = Len(s) - d /\ \A i \in 1..Len(v) : v[i] = s[d + i]
  <2>1. PICK a \in Int, n \in Nat : a = d + 1 /\ n = Len(s)
    BY <1>1
  <2>2. \A i \in a..n : s[i] \in Nat
    BY <1>1, <2>1
  <2>3. /\ SubSeq(s, a, n) \in Seq(Nat)
        /\ Len(SubSeq(s, a, n)) = IF a <= n THEN n - a + 1 ELSE 0
        /\ \A i \in 1..n - a + 1 : SubSeq(s, a, n)[i] = s[a + i - 1]
    BY ONLY <2>2, SubSeqProperties
  <2>4. v = SubSeq(s, a, n)
    BY <1>5, <2>1
  <2>5. d \in Nat /\ n \in Nat /\ a = d + 1 /\ d <= n
    BY <1>5, <2>1
  <2>6. Len(v) = IF a <= n THEN n - a + 1 ELSE 0
    BY <2>3, <2>4, Zenon
  <2>7. Len(v) = n - d
    BY ONLY <2>5, <2>6
  <2>8. \A i \in 1..n - d : i \in 1..n - a + 1 /\ a + i - 1 = d + i
    BY ONLY <2>5
  <2>9. \A i \in 1..n - d : v[i] = s[d + i]
    BY <2>3, <2>4, <2>8, Zenon
  <2> QED
    BY <2>1, <2>3, <2>4, <2>7, <2>9
<1>7. s = u \o v
  <2>1. 1 \in 1..Len(s) + 1 /\ d \in 1 - 1..Len(s) /\ Len(s) \in d..Len(s)
    BY <1>1, <1>5
  <2>2. SubSeq(s, 1, d) \o SubSeq(s, d + 1, Len(s)) = SubSeq(s, 1, Len(s))
    BY ONLY <2>1, s \in Seq(Nat), ConcatAdjacentSubSeq
  <2> QED
    BY <2>2, <1>2, <1>3, <1>5, SubSeqFull
<1> QED
  BY <1>3, <1>4, <1>6, <1>7 DEF c, IsSplit

(* The first n letters of a ring and then of an input that asks for no     *)
(* more than `room`.                                                       *)
IsTaken(ring, inp, n, back, left, fresh, rest) ==
  /\ back \in Seq(Nat) /\ left \in Seq(Nat) /\ fresh \in Seq(Nat) /\ rest \in Seq(Nat)
  /\ Len(back) = IF Len(ring) >= n THEN n ELSE Len(ring)
  /\ Len(left) = IF Len(ring) >= n THEN Len(ring) - n ELSE 0
  /\ Len(back) + Len(fresh) <= n
  /\ Len(rest) = Len(inp) - Len(fresh)
  /\ \A i \in 1..Len(back) : back[i] = ring[i]
  /\ \A i \in 1..Len(left) : left[i] = ring[n + i]
  /\ inp = fresh \o rest
  /\ (back \o fresh) \o (left \o rest) = ring \o inp

(* mpRead takes what it can from the ring and then from its input: joined  *)
(* with what is left of both it is the text that was there.                *)
LEMMA TakeFirst ==
  ASSUME NEW ring, NEW inp, NEW n \in Nat, NEW room \in Int,
         NEW back, NEW left, NEW asked, NEW fresh, NEW rest
  PROVE  /\ ring \in Seq(Nat) /\ inp \in Seq(Nat)
         /\ back = Fit(ring, n + 1) /\ left = SubSeq(ring, Len(back) + 1, Len(ring))
         /\ asked = Min({n - Len(back), room})
         /\ fresh = SubSeq(inp, 1, Min({asked, Len(inp)}))
         /\ rest = SubSeq(inp, Len(fresh) + 1, Len(inp))
         => IsTaken(ring, inp, n, back, left, fresh, rest)
<1>0. HAVE /\ ring \in Seq(Nat) /\ inp \in Seq(Nat)
           /\ back = Fit(ring, n + 1) /\ left = SubSeq(ring, Len(back) + 1, Len(ring))
           /\ asked = Min({n - Len(back), room})
           /\ fresh = SubSeq(inp, 1, Min({asked, Len(inp)}))
           /\ rest = SubSeq(inp, Len(fresh) + 1, Len(inp))
<1>1. PICK r \in Nat, l \in Nat : r = Len(ring) /\ l = Len(inp)
  BY <1>0
<1>2. PICK b \in Nat : b = IF r >= n THEN n ELSE r
  BY <1>1
<1>3. back = SubSeq(ring, 1, b)
  <2>1. n + 1 - 1 = n
    OBVIOUS
  <2>2. Min({r, n}) = b
    BY ONLY <1>2, r \in Int, n \in Int, MinTwo
  <2> QED
    <3>1. PICK space : space = n + 1
      OBVIOUS
    <3>2. Fit(ring, space) = SubSeq(ring, 1, Min({Len(ring), space - 1}))
      BY Zenon DEF Fit
    <3> QED
      <4>1. space - 1 = n
        BY <3>1
      <4> QED
        BY <1>0, <1>1, <4>1, <2>2, <3>1, <3>2, Zenon
<1>4. b <= Len(ring) /\ b \in Int
  BY <1>1, <1>2
<1>5. /\ back \in Seq(Nat) /\ left \in Seq(Nat)
      /\ Len(back) = IF b >= 1 THEN b ELSE 0
      /\ Len(left) = Len(ring) - Len(back)
      /\ ring = back \o left
      /\ \A i \in 1..Len(back) : back[i] = ring[i]
      /\ \A i \in 1..Len(left) : left[i] = ring[Len(back) + i]
  <2>1. back = Taken(ring, b) /\ left = Left(ring, b)
    BY <1>0, <1>3, Zenon DEF Taken, Left
  <2>2. IsSplit(ring, b, back, left)
    <3>1. ring \in Seq(Nat)
      BY <1>0
    <3>2. IsSplit(ring, b, Taken(ring, b), Left(ring, b))
      BY ONLY <3>1, <1>4, Split, Zenon
    <3> QED
      BY ONLY <2>1, <3>2, Zenon
  <2> QED
    BY ONLY <2>2, Zenon DEF IsSplit
<1>6. Len(back) = b
  <2>1. Len(back) = IF b >= 1 THEN b ELSE 0
    BY <1>5
  <2> QED
    BY ONLY <2>1, b \in Nat
<1>7. Len(left) = r - b
  BY <1>1, <1>5, <1>6, Zenon
<1>8. PICK a \in Int : a = asked /\ a <= n - b
  <2>1. PICK d \in Int : d = n - b
    OBVIOUS
  <2>2. asked = Min({d, room})
    BY <1>0, <2>1, <1>6, Zenon
  <2>3. Min({d, room}) = IF d <= room THEN d ELSE room
    BY ONLY d \in Int, room \in Int, MinTwo
  <2> QED
    BY ONLY <2>1, <2>2, <2>3, d \in Int, room \in Int
<1>9. PICK k \in Int : k = Min({asked, Len(inp)}) /\ k <= l /\ k <= a
  <2>1. Min({a, l}) = IF a <= l THEN a ELSE l
    BY ONLY a \in Int, l \in Int, MinTwo
  <2>2. Min({asked, Len(inp)}) = Min({a, l})
    BY <1>1, <1>8, Zenon
  <2> QED
    BY ONLY <2>1, <2>2, a \in Int, l \in Nat
<1>10. fresh = SubSeq(inp, 1, k) /\ k <= Len(inp)
  BY <1>0, <1>1, <1>9, Zenon
<1>11. /\ fresh \in Seq(Nat) /\ rest \in Seq(Nat)
       /\ Len(fresh) = IF k >= 1 THEN k ELSE 0
       /\ Len(rest) = Len(inp) - Len(fresh)
       /\ inp = fresh \o rest
  <2>1. fresh = Taken(inp, k) /\ rest = Left(inp, k)
    BY <1>0, <1>10, Zenon DEF Taken, Left
  <2>2. IsSplit(inp, k, fresh, rest)
    <3>1. inp \in Seq(Nat)
      BY <1>0
    <3>2. IsSplit(inp, k, Taken(inp, k), Left(inp, k))
      BY ONLY <3>1, <1>10, Split, Zenon
    <3> QED
      BY ONLY <2>1, <3>2, Zenon
  <2> QED
    BY ONLY <2>2, Zenon DEF IsSplit
<1>12. PICK c \in Nat : c = Len(fresh) /\ b + c <= n /\ (r >= n => c = 0)
  <2>1. PICK c \in Nat : c = IF k >= 1 THEN k ELSE 0
    OBVIOUS
  <2>2. c = Len(fresh)
    BY <1>11, <2>1, Zenon
  <2>3. b + c <= n /\ (r >= n => c = 0)
    BY ONLY <1>2, <1>8, <1>9, <2>1, b \in Nat, n \in Nat, k \in Int, a \in Int
  <2> QED
    BY <2>2, <2>3
<1>13. Len(left) = IF r >= n THEN r - n ELSE 0
  BY ONLY <1>2, <1>7, r \in Nat, n \in Nat
<1>14. \A i \in 1..Len(left) : left[i] = ring[n + i]
  <2> TAKE i \in 1..Len(left)
  <2>1. i \in 1..r - b
    BY <1>7, Zenon
  <2>2. b = n
    BY ONLY <1>2, <2>1, r \in Nat, n \in Nat
  <2>3. left[i] = ring[b + i]
    BY <1>5, <1>6, Zenon
  <2> QED
    BY <2>2, <2>3, Zenon
<1>15. back \in Seq(Nat) /\ left \in Seq(Nat) /\ fresh \in Seq(Nat) /\ rest \in Seq(Nat)
  BY <1>5, <1>11
<1>16. (back \o fresh) \o (left \o rest) = ring \o inp
  <2>1. CASE r >= n
    <3>1. Len(fresh) = 0
      BY <2>1, <1>12, Zenon
    <3>2. fresh = << >>
      BY <3>1, <1>11, EmptyText, Zenon
    <3>3. back \o fresh = back /\ inp = rest
      BY <3>2, <1>5, <1>11, ConcatEmptySeq, Zenon
    <3>4. (back \o left) \o rest = back \o (left \o rest)
      <4>1. Three(back, left, rest)
        BY <1>15 DEF Three
      <4> QED
        BY ONLY <4>1, Assoc
    <3> QED
      BY <3>3, <3>4, <1>5, Zenon
  <2>2. CASE ~(r >= n)
    <3>1. Len(left) = 0
      BY <2>2, <1>13, Zenon
    <3>2. left = << >>
      BY <3>1, <1>5, EmptyText, Zenon
    <3>3. left \o rest = rest /\ ring = back
      BY <3>2, <1>5, <1>11, ConcatEmptySeq, Zenon
    <3>4. (back \o fresh) \o rest = back \o (fresh \o rest)
      <4>1. Three(back, fresh, rest)
        BY <1>15 DEF Three
      <4> QED
        BY ONLY <4>1, Assoc
    <3> QED
      BY <3>3, <3>4, <1>11, Zenon
  <2> QED
    BY <2>1, <2>2
<1>17. Len(back) = IF Len(ring) >= n THEN n ELSE Len(ring)
  BY <1>1, <1>2, <1>6, Zenon
<1>18. Len(left) = IF Len(ring) >= n THEN Len(ring) - n ELSE 0
  BY <1>1, <1>13, Zenon
<1>19. Len(back) + Len(fresh) <= n
  BY <1>6, <1>12, Zenon
<1> QED
  BY <1>5, <1>11, <1>14, <1>16, <1>17, <1>18, <1>19, Zenon DEF IsTaken

-----------------------------------------------------------------------------
(* The first m letters of a boundary d: what they are with one more, and   *)
(* with one less, the first being added to a text o.                       *)
AtBoundary(o, d, m) == o \in Seq(Nat) /\ d \in Seq(Nat) /\ m \in Nat /\ m < Len(d)
SeenMore(d, m, got) ==
  /\ SubSeq(d, 1, m) \in Seq(Nat)
  /\ got = <<d[m + 1]>> => SubSeq(d, 1, m + 1) = SubSeq(d, 1, m) \o got
SeenLess(o, d, m) ==
  /\ SubSeq(d, 2, m) \in Seq(Nat) /\ <<d[1]>> \in Seq(Nat)
  /\ Len(SubSeq(d, 2, m)) = m - 1 /\ \A i \in 1..m - 1 : SubSeq(d, 2, m)[i] = d[1 + i]
  /\ SubSeq(d, 1, m) = <<d[1]>> \o SubSeq(d, 2, m)
  /\ Append(o, d[1]) = o \o <<d[1]>> /\ Append(o, d[1]) \in Seq(Nat)

(* Another letter of the boundary is seen.                                 *)
LEMMA BoundaryGrows ==
  \A o, d, m, got : AtBoundary(o, d, m) => SeenMore(d, m, got)
<1> TAKE o, d, m, got
<1>1. HAVE AtBoundary(o, d, m)
<1>2. d \in Seq(Nat) /\ m \in Nat /\ m < Len(d)
  BY <1>1, Zenon DEF AtBoundary
<1>3. \A i \in 1..m : d[i] \in Nat
  BY <1>2
<1>4. SubSeq(d, 1, m) \in Seq(Nat)
  BY <1>2, <1>3, SubSeqProperties
<1>5. got = <<d[m + 1]>> => SubSeq(d, 1, m + 1) = SubSeq(d, 1, m) \o got
  <2>1. PICK n : n = m + 1
    OBVIOUS
  <2>2. n \in 1..Len(d) /\ 1 \in 1..Len(d) /\ n - 1 = m
    BY <1>2, <2>1
  <2>3. SubSeq(d, 1, n) = SubSeq(d, 1, n - 1) \o <<d[n]>>
    BY <1>2, <2>2, SubSeqRecursiveSecond
  <2> QED
    BY <2>1, <2>2, <2>3, Zenon
<1> QED
  BY <1>4, <1>5, Zenon DEF SeenMore

(* What was seen is no boundary: its first letter belongs to the text.     *)
LEMMA BoundaryFails ==
  \A o, d, m : AtBoundary(o, d, m) /\ m > 0 => SeenLess(o, d, m)
<1> TAKE o, d, m
<1>1. HAVE AtBoundary(o, d, m) /\ m > 0
<1>2. o \in Seq(Nat) /\ d \in Seq(Nat) /\ m \in Nat /\ m < Len(d) /\ m > 0
  BY <1>1, Zenon DEF AtBoundary
<1>3. (\A i \in 2..m : d[i] \in Nat) /\ d[1] \in Nat
  BY <1>2
<1>4. /\ SubSeq(d, 2, m) \in Seq(Nat) /\ <<d[1]>> \in Seq(Nat)
      /\ Len(SubSeq(d, 2, m)) = m - 1 /\ \A i \in 1..m - 1 : SubSeq(d, 2, m)[i] = d[1 + i]
  BY <1>2, <1>3, SubSeqProperties
<1>5. SubSeq(d, 1, m) = <<d[1]>> \o SubSeq(d, 2, m)
  <2>1. 1 \in 1..Len(d) /\ m \in 1..Len(d)
    BY <1>2
  <2>2. SubSeq(d, 1, m) = <<d[1]>> \o SubSeq(d, 1 + 1, m)
    BY <1>2, <2>1, SubSeqRecursiveFirst
  <2>3. 1 + 1 = 2
    OBVIOUS
  <2> QED
    BY <2>2, <2>3, Zenon
<1>6. Append(o, d[1]) = o \o <<d[1]>> /\ Append(o, d[1]) \in Seq(Nat)
  BY <1>2, <1>3, AppendIsConcat, AppendProperties
<1> QED
  BY <1>4, <1>5, <1>6, Zenon DEF SeenLess

(* Its other letters and what showed the mistake come before the rest.     *)
LEMMA Again ==
  \A o, h, t, got, x : Four(o, h, t, got) /\ x \in Seq(Nat) =>
    (o \o (h \o t)) \o (got \o x) = (o \o h) \o ((t \o got) \o x)
<1> TAKE o, h, t, got, x
<1>1. HAVE Four(o, h, t, got) /\ x \in Seq(Nat)
<1>2. PICK y : y = got \o x
  OBVIOUS
<1>3. Four(o, h, t, y) /\ Three(t, got, x)
  <2>1. Two(got, x)
    BY <1>1, Zenon DEF Four, Three, Two
  <2>2. got \o x \in Seq(Nat)
    BY ONLY <2>1, Joined
  <2> QED
    BY <1>1, <1>2, <2>2, Zenon DEF Four, Three
<1>4. (o \o h) \o (t \o y) = (o \o (h \o t)) \o y
  BY ONLY <1>3, Regroup
<1>5. (t \o got) \o x = t \o (got \o x)
  BY ONLY <1>3, Assoc
<1> QED
  BY ONLY <1>2, <1>4, <1>5, Zenon

-----------------------------------------------------------------------------
(* A list: a sequence of whatever it holds.                                *)
IsList(s) == s \in Seq(ToSet(s))

(* A sequence over any set is a list.                                      *)
LEMMA SeqIsList ==
  ASSUME NEW S, NEW s \in Seq(S)
  PROVE  IsList(s)
<1>1. \A i \in 1..Len(s) : s[i] \in ToSet(s)
  BY DEF ToSet
<1> QED
  BY <1>1 DEF IsList

(* A list with one element more.                                           *)
LEMMA ListAppend ==
  ASSUME NEW s, IsList(s), NEW e
  PROVE  /\ IsList(Append(s, e))
         /\ DOMAIN s = 1..Len(s) /\ Len(s) \in Nat
         /\ Len(Append(s, e)) = Len(s) + 1
         /\ DOMAIN Append(s, e) = 1..Len(s) + 1
         /\ \A i \in 1..Len(s) : Append(s, e)[i] = s[i]
         /\ Append(s, e)[Len(s) + 1] = e
         /\ \A i \in 1..Len(s) + 1 : i \in 1..Len(s) \/ i = Len(s) + 1
         /\ ToSet(s) \subseteq ToSet(Append(s, e)) /\ e \in ToSet(Append(s, e))
<1>1. PICK S, t, n : S = ToSet(s) \cup {e} /\ t = Append(s, e) /\ n = Len(s)
  OBVIOUS
<1>2. s \in Seq(S) /\ e \in S
  <2>1. s \in Seq(ToSet(s)) /\ ToSet(s) \subseteq S
    BY <1>1 DEF IsList
  <2> QED
    BY <1>1, <2>1
<1>3. /\ t \in Seq(S) /\ Len(t) = n + 1 /\ n \in Nat
      /\ \A i \in 1..n : t[i] = s[i]
      /\ t[n + 1] = e
  BY <1>1, <1>2, AppendProperties
<1>4. DOMAIN s = 1..n /\ DOMAIN t = 1..n + 1
  BY <1>1, <1>2, <1>3
<1>5. n + 1 \in 1..n + 1 /\ (\A i \in 1..n : i \in 1..n + 1)
      /\ (\A i \in 1..n + 1 : i \in 1..n \/ i = n + 1)
  BY <1>3
<1>6. ToSet(s) \subseteq ToSet(t)
  BY <1>3, <1>4, <1>5 DEF ToSet
<1>7. e \in ToSet(t)
  BY <1>3, <1>4, <1>5, Zenon DEF ToSet
<1>8. IsList(t)
  BY <1>3, SeqIsList
<1> QED
  BY <1>1, <1>3, <1>4, <1>5, <1>6, <1>7, <1>8, Zenon

-----------------------------------------------------------------------------
(* ParseFormInput.                                                         *)

(* The pair at p of a submitted form, and where it ends.                   *)
PairEq(data, p) == Seek(data, p, {EQ})
PairEnd(data, p) == Seek(data, PairEq(data, p) + 1, {AMP})
PairAt(data, p) ==
  FormEntry(UnescapeChars(SubSeq(data, p, PairEq(data, p) - 1)),
            UnescapeChars(SubSeq(data, PairEq(data, p) + 1, PairEnd(data, p) - 1)))
PairsAt(data, f, p) ==
  IF PairEq(data, p) > Len(data) THEN << >>
  ELSE <<PairAt(data, p)>>
       \o (IF PairEnd(data, p) > Len(data) THEN << >> ELSE f[PairEnd(data, p) + 1])

(* A pair ends behind its beginning.                                       *)
LEMMA PairMoves ==
  ASSUME NEW data, Len(data) \in Nat, NEW p \in Nat
  PROVE  /\ PairEq(data, p) \in Nat /\ PairEq(data, p) >= p
         /\ PairEnd(data, p) \in Nat /\ PairEnd(data, p) > p
<1>1. PICK eq : eq = PairEq(data, p)
  OBVIOUS
<1>2. eq \in Nat /\ eq >= p
  BY <1>1, SeekFacts, Zenon DEF PairEq
<1>3. PICK b \in Nat : b = eq + 1
  BY <1>2
<1>4. Seek(data, b, {AMP}) \in Nat /\ Seek(data, b, {AMP}) >= b
  BY SeekFacts, Zenon
<1>5. PICK e : e = PairEnd(data, p)
  OBVIOUS
<1>6. e \in Nat /\ e >= b
  BY <1>1, <1>3, <1>4, <1>5, Zenon DEF PairEnd
<1>7. e > p
  BY ONLY <1>2, <1>3, <1>6, p \in Nat
<1> QED
  BY <1>1, <1>2, <1>5, <1>6, <1>7, Zenon

-----------------------------------------------------------------------------
(* Sequences of anything.                                                  *)

(* One sequence after another is one.                                      *)
LEMMA SeqJoined ==
  ASSUME NEW P, NEW u \in Seq(P), NEW v \in Seq(P)
  PROVE  u \o v \in Seq(P)
OBVIOUS

(* So is an empty one,                                                     *)
LEMMA SeqNone ==
  ASSUME NEW P
  PROVE  << >> \in Seq(P)
OBVIOUS

(* one element,                                                            *)
LEMMA SeqOne ==
  ASSUME NEW P, NEW x \in P
  PROVE  <<x>> \in Seq(P)
OBVIOUS

(* and a part of one.                                                      *)
LEMMA SeqPart ==
  ASSUME NEW P, NEW s \in Seq(P), NEW i \in 1..Len(s) + 1,
         NEW j \in Int, j \in i - 1..Len(s)
  PROVE  SubSeq(s, i, j) \in Seq(P)
OBVIOUS

-----------------------------------------------------------------------------
(* Induction and recursion, with sets and functions in place of predicates *)
(* and operators.                                                          *)

(* What holds of each number of a range if it holds of all smaller ones     *)
(* holds of the range.                                                     *)
LEMMA RangeUp ==
  ASSUME NEW m \in Int, NEW n \in Int, NEW Q,
         \A p \in m..n : (\A q \in m..p - 1 : q \in Q) => p \in Q
  PROVE  \A p \in m..n : p \in Q
<1> DEFINE Bad == {j \in Nat : m + j <= n /\ m + j \notin Q}
<1>1. Bad = {}
  <2> SUFFICES ASSUME Bad # {} PROVE FALSE
    OBVIOUS
  <2>1. PICK j \in Bad : \A i \in Bad : j <= i
    <3>1. Bad \subseteq Nat
      OBVIOUS
    <3> HIDE DEF Bad
    <3> QED
      BY <3>1, LeastNat, Zenon
  <2>2. m + j \in m..n /\ m + j \notin Q /\ j \in Nat
    OBVIOUS
  <2>3. \A q \in m..m + j - 1 : q \in Q
    <3> TAKE q \in m..m + j - 1
    <3>1. q - m \in Nat /\ ~(j <= q - m) /\ m + (q - m) = q /\ m + (q - m) <= n
      BY <2>2
    <3> QED
      BY <2>1, <3>1
  <2> QED
    BY <2>2, <2>3
<1>2. ASSUME NEW p \in m..n
      PROVE  p \in Q
  <2>1. p - m \in Nat /\ m + (p - m) = p /\ p <= n
    OBVIOUS
  <2> QED
    BY <1>1, <2>1
<1> QED
  BY <1>2

(* And if it holds of all larger ones.                                     *)
LEMMA RangeDown ==
  ASSUME NEW m \in Int, NEW n \in Int, NEW Q,
         \A p \in m..n : (\A q \in p + 1..n : q \in Q) => p \in Q
  PROVE  \A p \in m..n : p \in Q
<1> DEFINE R == {p \in m..n : m + n - p \in Q}
<1>1. \A p \in m..n : (\A q \in m..p - 1 : q \in R) => p \in R
  <2> TAKE p \in m..n
  <2>1. HAVE \A q \in m..p - 1 : q \in R
  <2>2. m + n - p \in m..n
    OBVIOUS
  <2>3. \A q \in (m + n - p) + 1..n : q \in Q
    <3> TAKE q \in (m + n - p) + 1..n
    <3>1. m + n - q \in m..p - 1 /\ m + n - (m + n - q) = q
      OBVIOUS
    <3> QED
      BY <2>1, <3>1
  <2> QED
    BY <2>2, <2>3
<1> HIDE DEF R
<1>2. \A p \in m..n : p \in R
  BY <1>1, RangeUp, Zenon
<1>3. ASSUME NEW p \in m..n
      PROVE  p \in Q
  <2>1. m + n - p \in m..n /\ m + n - (m + n - p) = p
    OBVIOUS
  <2> QED
    BY <1>2, <2>1 DEF R
<1> QED
  BY <1>3

(* The step of a recursive definition maps a function to the one it        *)
(* defines; what it says of a place depends on the places before it, or on  *)
(* those behind it.                                                        *)
StepUp(G, m, n, S) ==
  /\ G \in [[m..n -> S] -> [m..n -> S]]
  /\ \A p \in m..n : \A f, g \in [m..n -> S] :
       (\A q \in m..p - 1 : f[q] = g[q]) => G[f][p] = G[g][p]
StepDown(G, m, n, S) ==
  /\ G \in [[m..n -> S] -> [m..n -> S]]
  /\ \A p \in m..n : \A f, g \in [m..n -> S] :
       (\A q \in p + 1..n : f[q] = g[q]) => G[f][p] = G[g][p]

(* There is a function that is defined at each place by its values before   *)
(* it.                                                                     *)
LEMMA FunctionUp ==
  ASSUME NEW m \in Int, NEW n \in Int, NEW S, S # {}, NEW G, StepUp(G, m, n, S)
  PROVE  \E f \in [m..n -> S] : f = G[f]
<1> PICK c : c \in S
  OBVIOUS
<1> SUFFICES \E f \in [m..n -> S] : \A p \in m..n : f[p] = G[f][p]
  BY DEF StepUp
<1> USE DEF StepUp
<1> DEFINE D == [m..n -> S]
           Good(f, k) == \A p \in m..k : f[p] = G[f][p]
           Q == {k \in m - 1..n : \E f \in D : Good(f, k)}
<1>1. \A k \in m - 1..n : (\A q \in m - 1..k - 1 : q \in Q) => k \in Q
  <2> TAKE k \in m - 1..n
  <2>1. HAVE \A q \in m - 1..k - 1 : q \in Q
  <2>2. CASE k = m - 1
    <3>1. [p \in m..n |-> c] \in D
      OBVIOUS
    <3>2. m..k = {}
      BY <2>2
    <3>3. Good([p \in m..n |-> c], k)
      BY <3>2
    <3> QED
      BY <3>1, <3>3
  <2>3. CASE k # m - 1
    <3>1. k - 1 \in m - 1..k - 1 /\ k \in m..n
      BY <2>3
    <3>2. k - 1 \in Q
      BY <2>1, <3>1
    <3>3. PICK g \in D : Good(g, k - 1)
      BY <3>2
    <3>4. PICK v : v = G[g][k] /\ v \in S
      BY <3>1
    <3> DEFINE f == [p \in m..n |-> IF p = k THEN v ELSE g[p]]
    <3>5. f \in D
      BY <3>3, <3>4
    <3>6. \A q \in m..k - 1 : f[q] = g[q]
      BY <3>1
    <3>7. f[k] = v
      BY <3>1
    <3> HIDE DEF f
    <3>8. \A p \in m..k : G[f][p] = G[g][p]
      <4> TAKE p \in m..k
      <4>1. p \in m..n /\ \A q \in m..p - 1 : q \in m..k - 1
        BY <3>1
      <4>2. \A q \in m..p - 1 : f[q] = g[q]
        BY <3>6, <4>1
      <4> QED
        BY <3>5, <4>1, <4>2
    <3>9. \A p \in m..k : p = k \/ p \in m..k - 1
      BY <3>1
    <3>10. k \in m..k
      BY <3>1
    <3>11. Good(f, k)
      <4> SUFFICES ASSUME NEW p \in m..k PROVE f[p] = G[f][p]
        OBVIOUS
      <4>1. CASE p = k
        BY <3>4, <3>7, <3>8, <4>1
      <4>2. CASE p \in m..k - 1
        BY <3>3, <3>6, <3>8, <4>2
      <4> QED
        BY <3>9, <4>1, <4>2
    <3> QED
      BY <3>5, <3>11
  <2> QED
    BY <2>2, <2>3
<1> HIDE DEF Q
<1>2. \A k \in m - 1..n : k \in Q
  <2>1. m - 1 \in Int
    OBVIOUS
  <2> QED
    BY <1>1, <2>1, RangeUp, Zenon
<1>3. CASE m - 1 <= n
  <2>1. n \in m - 1..n
    BY <1>3
  <2> QED
    BY <1>2, <2>1 DEF Q
<1>4. CASE ~(m - 1 <= n)
  <2>1. m..n = {} /\ [p \in m..n |-> c] \in [m..n -> S]
    BY <1>4
  <2> QED
    BY <2>1
<1> QED
  BY <1>3, <1>4

(* And by those behind it.                                                 *)
LEMMA FunctionDown ==
  ASSUME NEW m \in Int, NEW n \in Int, NEW S, S # {}, NEW G, StepDown(G, m, n, S)
  PROVE  \E f \in [m..n -> S] : f = G[f]
<1> SUFFICES \E f \in [m..n -> S] : \A p \in m..n : f[p] = G[f][p]
  BY DEF StepDown
<1> USE DEF StepDown
<1> DEFINE Turned(f) == [p \in m..n |-> f[m + n - p]]
           H == [f \in [m..n -> S] |-> Turned(G[Turned(f)])]
<1>1. \A p \in m..n : m + n - p \in m..n /\ m + n - (m + n - p) = p
  OBVIOUS
<1>2. \A f \in [m..n -> S] : Turned(f) \in [m..n -> S]
  BY <1>1
<1>3. \A f \in [m..n -> S], p \in m..n : f[m + n - p] = Turned(f)[p]
  OBVIOUS
<1> HIDE DEF Turned
<1>4. H \in [[m..n -> S] -> [m..n -> S]]
  BY <1>1, <1>2
<1>5. \A f \in [m..n -> S], p \in m..n : H[f][p] = G[Turned(f)][m + n - p]
  <2> TAKE f \in [m..n -> S], p \in m..n
  <2>1. PICK g : g = G[Turned(f)] /\ g \in [m..n -> S]
    BY <1>2
  <2>2. Turned(g)[p] = g[m + n - p]
    BY <1>3, <2>1
  <2> QED
    BY <2>1, <2>2
<1> HIDE DEF H
<1>6. \A p \in m..n : \A f, g \in [m..n -> S] :
        (\A q \in m..p - 1 : f[q] = g[q]) => H[f][p] = H[g][p]
  <2> TAKE p \in m..n
  <2> TAKE f, g \in [m..n -> S]
  <2>1. HAVE \A q \in m..p - 1 : f[q] = g[q]
  <2>2. \A q \in (m + n - p) + 1..n : Turned(f)[q] = Turned(g)[q]
    <3> TAKE q \in (m + n - p) + 1..n
    <3>1. q \in m..n /\ m + n - q \in m..p - 1
      OBVIOUS
    <3> QED
      BY <1>3, <2>1, <3>1
  <2>3. G[Turned(f)][m + n - p] = G[Turned(g)][m + n - p]
    BY <1>1, <1>2, <2>2
  <2> QED
    BY <1>5, <2>3
<1>7. PICK h \in [m..n -> S] : h = H[h]
  <2>1. StepUp(H, m, n, S)
    BY <1>4, <1>6 DEF StepUp
  <2>2. \A G1 : StepUp(G1, m, n, S) => \E f \in [m..n -> S] : f = G1[f]
    BY FunctionUp
  <2> QED
    BY <2>1, <2>2, Zenon
<1>8. \A p \in m..n : Turned(h)[p] = G[Turned(h)][p]
  <2> TAKE p \in m..n
  <2>1. Turned(h)[p] = h[m + n - p]
    BY <1>3
  <2>2. h[m + n - p] = G[Turned(h)][m + n - (m + n - p)]
    BY <1>1, <1>5, <1>7
  <2> QED
    BY <1>1, <2>1, <2>2
<1> QED
  BY <1>2, <1>8

-----------------------------------------------------------------------------
(* UnescapeChars.                                                          *)

(* The letters from p on, by those from f.                                 *)
UnescapedFrom(s, f, p) ==
  CASE p > Len(s) -> << >>
    [] p <= Len(s) /\ s[p] # PERCENT ->
         <<IF s[p] = PLUS THEN SP ELSE s[p]>> \o f[p + 1]
    [] OTHER -> IF p + 2 > Len(s) THEN << >> ELSE <<Unescaped(s, p)>> \o f[p + 3]
Unread(s) == CHOOSE f : f = [p \in 1..Len(s) + 1 |-> UnescapedFrom(s, f, p)]

(* They are letters if those behind them are.                              *)
LEMMA UnescapedText ==
  ASSUME NEW s \in Seq(Nat), NEW p \in 1..Len(s) + 1, NEW f,
         \A q \in p + 1..Len(s) + 1 : f[q] \in Seq(Nat)
  PROVE  UnescapedFrom(s, f, p) \in Seq(Nat)
<1>1. /\ p + 1 <= Len(s) + 1 => f[p + 1] \in Seq(Nat)
      /\ p + 3 <= Len(s) + 1 => f[p + 3] \in Seq(Nat)
  OBVIOUS
<1>2. p <= Len(s) => s[p] \in Nat
  OBVIOUS
<1>3. p + 2 <= Len(s) => Unescaped(s, p) \in Nat
  <2>1. \A c \in Nat : HexValue(c) \in Nat
    <3> TAKE c \in Nat
    <3>1. /\ c \in 48..57 => c - 48 \in Nat
          /\ c \in 65..70 => c - 55 \in Nat
          /\ c \in 97..102 => c - 87 \in Nat
          /\ 0 \in Nat
      OBVIOUS
    <3> QED
      BY <3>1, Zenon DEF HexValue
  <2>2. HAVE p + 2 <= Len(s)
  <2>3. s[p + 1] \in Nat /\ s[p + 2] \in Nat
    BY <2>2
  <2>4. HexValue(s[p + 1]) \in Nat /\ HexValue(s[p + 2]) \in Nat
    BY <2>1, <2>3, Zenon
  <2> QED
    BY <2>4 DEF Unescaped
<1>4. \A x \in Nat, t \in Seq(Nat) : <<x>> \o t \in Seq(Nat)
  OBVIOUS
<1>5. SP \in Nat /\ << >> \in Seq(Nat)
  BY DEF SP
<1>6. CASE p > Len(s)
  BY <1>5, <1>6 DEF UnescapedFrom
<1>7. CASE p <= Len(s) /\ s[p] # PERCENT
  BY <1>1, <1>2, <1>4, <1>5, <1>7 DEF UnescapedFrom
<1>8. CASE ~(p > Len(s)) /\ ~(p <= Len(s) /\ s[p] # PERCENT)
  <2>1. UnescapedFrom(s, f, p)
          = IF p + 2 > Len(s) THEN << >> ELSE <<Unescaped(s, p)>> \o f[p + 3]
    BY <1>8 DEF UnescapedFrom
  <2> QED
    BY <1>1, <1>3, <1>4, <1>5, <2>1
<1> QED
  BY <1>6, <1>7, <1>8

(* The function UnescapeChars takes its text from is defined everywhere.   *)
LEMMA UnescapedRest ==
  ASSUME NEW s \in Seq(Nat)
  PROVE  /\ Unread(s) \in [1..Len(s) + 1 -> Seq(Nat)]
         /\ \A p \in 1..Len(s) + 1 : Unread(s)[p] = UnescapedFrom(s, Unread(s), p)
         /\ UnescapeChars(s) = CString(Unread(s)[1])
<1> DEFINE n == Len(s) + 1
           S == Seq(Nat)
           G == [f \in [1..n -> S] |-> [p \in 1..n |-> UnescapedFrom(s, f, p)]]
<1>1. n \in Int /\ 1 \in Int /\ S # {}
  <2>1. << >> \in S
    BY SeqNone
  <2>2. n \in Int /\ 1 \in Int
    <3> HIDE DEF G
    <3> QED
      OBVIOUS
  <2> QED
    BY <2>1, <2>2, Zenon
<1>2. StepDown(G, 1, n, S)
  <2>1. G \in [[1..n -> S] -> [1..n -> S]]
    <3>1. \A f \in [1..n -> S], p \in 1..n : UnescapedFrom(s, f, p) \in S
      <4> TAKE f \in [1..n -> S], p \in 1..n
      <4>1. \A q \in p + 1..n : f[q] \in S
        OBVIOUS
      <4> QED
        BY <4>1, UnescapedText
    <3> QED
      BY <3>1
  <2>2. ASSUME NEW p \in 1..n, NEW f \in [1..n -> S], NEW g \in [1..n -> S],
               \A q \in p + 1..n : f[q] = g[q]
        PROVE  UnescapedFrom(s, f, p) = UnescapedFrom(s, g, p)
    <3>1. /\ p <= Len(s) => f[p + 1] = g[p + 1]
          /\ p + 2 <= Len(s) => f[p + 3] = g[p + 3]
      BY <2>2
    <3>2. p > Len(s) \/ p <= Len(s)
      OBVIOUS
    <3>3. ~(p + 2 > Len(s)) => p + 2 <= Len(s)
      OBVIOUS
    <3> QED
      BY <3>1, <3>2, <3>3, Zenon DEF UnescapedFrom
  <2> QED
    BY <2>1, <2>2 DEF StepDown
<1> HIDE DEF G
<1>3. PICK f \in [1..n -> S] : f = G[f]
  BY <1>1, <1>2, FunctionDown
<1>4. f = [p \in 1..n |-> UnescapedFrom(s, f, p)]
  BY <1>3 DEF G
<1>5. PICK h : h = Unread(s) /\ h = [p \in 1..n |-> UnescapedFrom(s, h, p)]
  BY <1>4, Zenon DEF Unread
<1>6. \A p \in 1..n : h[p] = UnescapedFrom(s, h, p)
  BY <1>5
<1>7. \A p \in 1..n : h[p] \in S
  <2> DEFINE Q == {p \in 1..n : h[p] \in S}
  <2>1. \A p \in 1..n : (\A q \in p + 1..n : q \in Q) => p \in Q
    BY <1>6, UnescapedText
  <2> HIDE DEF Q
  <2>2. \A p \in 1..n : p \in Q
    BY <1>1, <2>1, RangeDown
  <2> QED
    BY <2>2 DEF Q
<1>8. UnescapeChars(s) = CString(Unread(s)[1])
  BY Zenon DEF UnescapeChars, Unread, UnescapedFrom
<1> QED
  BY <1>5, <1>6, <1>7, <1>8

(* The beginning of a text.                                                *)
LEMMA CStringText ==
  ASSUME NEW s \in Seq(Nat)
  PROVE  CString(s) \in Seq(Nat)
<1>1. PICK q : q = Seek(s, 1, {NUL})
  OBVIOUS
<1>2. q \in Nat /\ q >= 1 /\ q <= Max({1, Len(s) + 1})
  <2>1. Len(s) \in Nat /\ 1 \in Nat
    OBVIOUS
  <2> QED
    BY <1>1, <2>1, SeekFacts, Zenon
<1>3. q <= Len(s) + 1
  <2>1. 1 \in Int /\ Len(s) + 1 \in Int /\ Len(s) + 1 >= 1
    OBVIOUS
  <2>2. Max({1, Len(s) + 1}) = Len(s) + 1
    BY <2>1, MaxTwo
  <2> QED
    BY <1>2, <2>2
<1>4. SubSeq(s, 1, q - 1) \in Seq(Nat)
  BY <1>2, <1>3
<1> QED
  BY <1>1, <1>4, Zenon DEF CString

(* A C string: no NUL is in it.                                            *)
Plain(s) == \A i \in 1..Len(s) : s[i] # NUL
PlainEntry(e) ==
  Plain(e.attr) /\ Plain(e.value) /\ Plain(e.fileName) /\ Plain(e.contentType)

(* What a C program sees of a text is one, and is the text if that is one. *)
LEMMA CStringPlain ==
  ASSUME NEW s \in Seq(Nat)
  PROVE  Plain(CString(s)) /\ (Plain(s) => CString(s) = s)
<1>1. PICK q : q = Seek(s, 1, {NUL})
  OBVIOUS
<1>2. /\ q \in Nat /\ q >= 1 /\ q <= Max({1, Len(s) + 1})
      /\ \A j \in 1..q - 1 : s[j] \notin {NUL}
      /\ q <= Len(s) => s[q] \in {NUL}
  <2>1. Len(s) \in Nat /\ 1 \in Nat
    OBVIOUS
  <2> QED
    BY <1>1, <2>1, SeekFacts, Zenon
<1>3. q <= Len(s) + 1
  <2>1. 1 \in Int /\ Len(s) + 1 \in Int /\ Len(s) + 1 >= 1
    OBVIOUS
  <2>2. Max({1, Len(s) + 1}) = Len(s) + 1
    BY <2>1, MaxTwo
  <2> QED
    BY <1>2, <2>2
<1>4. PICK t : t = SubSeq(s, 1, q - 1)
  OBVIOUS
<1>5. Len(t) = q - 1 /\ \A j \in 1..q - 1 : t[j] = s[j]
  BY <1>2, <1>3, <1>4
<1>6. Plain(t)
  BY <1>2, <1>5 DEF Plain
<1>7. Plain(s) => t = s
  <2>1. HAVE Plain(s)
  <2>2. ~(q <= Len(s))
    BY <1>2, <2>1 DEF Plain
  <2>3. q - 1 = Len(s)
    BY <1>2, <1>3, <2>2
  <2>4. t = SubSeq(s, 1, Len(s))
    BY <1>4, <2>3, Zenon
  <2> QED
    BY <2>4
<1>8. CString(s) = t
  BY <1>1, <1>4, Zenon DEF CString
<1> QED
  BY <1>6, <1>7, <1>8, Zenon

(* What is decoded is text.                                                *)
LEMMA DecodedText ==
  ASSUME NEW s \in Seq(Nat)
  PROVE  UnescapeChars(s) \in Seq(Nat) /\ Plain(UnescapeChars(s))
<1>1. PICK t \in Seq(Nat) : UnescapeChars(s) = CString(t)
  BY UnescapedRest
<1> QED
  BY <1>1, CStringText, CStringPlain

(* The part of a text from p up to what was looked for.                    *)
LEMMA PieceText ==
  ASSUME NEW s \in Seq(Nat), NEW p \in Nat, p >= 1,
         NEW e \in Nat, e <= Max({p, Len(s) + 1})
  PROVE  SubSeq(s, p, e - 1) \in Seq(Nat)
<1>1. Max({p, Len(s) + 1}) = IF p >= Len(s) + 1 THEN p ELSE Len(s) + 1
  <2>1. p \in Int /\ Len(s) + 1 \in Int
    OBVIOUS
  <2> QED
    BY <2>1, MaxTwo, Zenon
<1>2. CASE e <= p
  BY <1>2
<1>3. CASE e > p
  BY <1>1, <1>3
<1> QED
  BY <1>2, <1>3

-----------------------------------------------------------------------------
(* ParseFormInput.                                                         *)

(* What may be a pair.                                                     *)
Pairs(data) == {PairAt(data, p) : p \in 1..Len(data) + 1}

(* A submitted form is a list of its pairs.                                *)
LEMMA ParsedPairs ==
  ASSUME NEW data, Len(data) \in Nat
  PROVE  ParseFormInput(data) \in Seq(Pairs(data))
<1> DEFINE n == Len(data) + 1
           S == Seq(Pairs(data))
           G == [f \in [1..n -> S] |-> [p \in 1..n |-> PairsAt(data, f, p)]]
           Top == CHOOSE f : f = [p \in 1..n |-> PairsAt(data, f, p)]
<1>1. n \in Int /\ 1 \in Int /\ S # {}
  <2>1. << >> \in S
    BY SeqNone
  <2>2. n \in Int /\ 1 \in Int
    <3> HIDE DEF G, Top
    <3> QED
      OBVIOUS
  <2> QED
    BY <2>1, <2>2, Zenon
<1>2. ASSUME NEW p \in 1..n
      PROVE  ~(PairEnd(data, p) > Len(data)) => PairEnd(data, p) + 1 \in p + 1..n
  <2>1. p \in Nat
    OBVIOUS
  <2>2. PairEnd(data, p) \in Nat /\ PairEnd(data, p) > p
    BY <2>1, PairMoves, Zenon
  <2> QED
    BY <2>2
<1>3. ASSUME NEW p \in 1..n, NEW f, \A q \in p + 1..n : f[q] \in S
      PROVE  PairsAt(data, f, p) \in S
  <2>1. ~(PairEnd(data, p) > Len(data)) => f[PairEnd(data, p) + 1] \in S
    BY <1>2, <1>3, Zenon
  <2>2. PairAt(data, p) \in Pairs(data)
    BY DEF Pairs
  <2>3. << >> \in S /\ <<PairAt(data, p)>> \in S
    BY <2>2
  <2>4. \A u, v \in S : u \o v \in S
    BY SeqJoined
  <2> HIDE DEF S
  <2> QED
    BY <2>1, <2>3, <2>4, Zenon DEF PairsAt
<1>4. ASSUME NEW p \in 1..n, NEW f, NEW g, \A q \in p + 1..n : f[q] = g[q]
      PROVE  PairsAt(data, f, p) = PairsAt(data, g, p)
  BY <1>2, <1>4, Zenon DEF PairsAt
<1> HIDE DEF S
<1>5. StepDown(G, 1, n, S)
  <2>1. \A f \in [1..n -> S], p \in 1..n : PairsAt(data, f, p) \in S
    <3> TAKE f \in [1..n -> S], p \in 1..n
    <3>1. \A q \in p + 1..n : f[q] \in S
      OBVIOUS
    <3> QED
      BY <1>3, <3>1, Zenon
  <2>2. G \in [[1..n -> S] -> [1..n -> S]]
    BY <2>1
  <2>3. \A p \in 1..n : \A f, g \in [1..n -> S] :
          (\A q \in p + 1..n : f[q] = g[q]) => G[f][p] = G[g][p]
    BY <1>4
  <2> QED
    BY <2>2, <2>3, Zenon DEF StepDown
<1> HIDE DEF G
<1>6. PICK f \in [1..n -> S] : f = G[f]
  BY <1>1, <1>5, FunctionDown
<1>7. f = [p \in 1..n |-> PairsAt(data, f, p)]
  BY <1>6 DEF G
<1>8. Top = [p \in 1..n |-> PairsAt(data, Top, p)]
  BY <1>7, Zenon
<1>9. ParseFormInput(data) = Top[1]
  BY Zenon DEF ParseFormInput, PairsAt, PairAt, PairEq, PairEnd
<1> HIDE DEF Top
<1>10. \A p \in 1..n : Top[p] = PairsAt(data, Top, p)
  BY <1>8
<1>11. \A p \in 1..n : Top[p] \in S
  <2> DEFINE Q == {p \in 1..n : Top[p] \in S}
  <2>1. \A p \in 1..n : (\A q \in p + 1..n : q \in Q) => p \in Q
    <3> TAKE p \in 1..n
    <3>1. HAVE \A q \in p + 1..n : q \in Q
    <3>2. Top[p] \in S
      BY <1>3, <1>10, <3>1, Zenon
    <3> QED
      BY <3>2
  <2> HIDE DEF Q
  <2>2. \A p \in 1..n : p \in Q
    BY <1>1, <2>1, RangeDown
  <2> QED
    BY <2>2 DEF Q
<1>12. 1 \in 1..n
  OBVIOUS
<1> QED
  BY <1>9, <1>11, <1>12 DEF S

(* An entry of a form.                                                     *)
EntryShape == [attr : Seq(Nat), value : Seq(Nat), valueLength : Nat,
               fileName : Seq(Nat), contentType : Seq(Nat), tfile : Int]

(* A pair of a text is two texts.                                          *)
LEMMA PairShape ==
  ASSUME NEW data \in Seq(Nat)
  PROVE  \A e \in Pairs(data) : e \in EntryShape /\ e.tfile = NoFile /\ PlainEntry(e)
<1>1. ASSUME NEW p \in 1..Len(data) + 1
      PROVE  /\ PairAt(data, p) \in EntryShape /\ PairAt(data, p).tfile = NoFile
             /\ PlainEntry(PairAt(data, p))
  <2>1. PICK eq, end, n, v :
               /\ eq = PairEq(data, p) /\ end = PairEnd(data, p)
               /\ n = SubSeq(data, p, eq - 1) /\ v = SubSeq(data, eq + 1, end - 1)
    OBVIOUS
  <2>2. p \in Nat /\ p >= 1 /\ Len(data) \in Nat
    OBVIOUS
  <2>3. eq \in Nat /\ eq >= p /\ eq <= Max({p, Len(data) + 1})
    BY <2>1, <2>2, SeekFacts, Zenon DEF PairEq
  <2>4. n \in Seq(Nat)
    BY <2>1, <2>2, <2>3, PieceText
  <2>5. PICK b \in Nat : b = eq + 1 /\ b >= 1
    BY <2>3
  <2>6. end \in Nat /\ end <= Max({b, Len(data) + 1})
    BY <2>1, <2>2, <2>5, SeekFacts, Zenon DEF PairEnd
  <2>7. v \in Seq(Nat)
    BY <2>1, <2>5, <2>6, PieceText
  <2>8. PICK x, y : /\ x = UnescapeChars(n) /\ y = UnescapeChars(v)
                    /\ x \in Seq(Nat) /\ y \in Seq(Nat) /\ Plain(x) /\ Plain(y)
    BY <2>4, <2>7, DecodedText
  <2>9. PairAt(data, p) = FormEntry(x, y)
    BY <2>1, <2>8, Zenon DEF PairAt
  <2>10. FormEntry(x, y) \in EntryShape /\ FormEntry(x, y).tfile = NoFile
    BY <2>8 DEF FormEntry, EntryShape, NoFile
  <2>11. Plain(<< >>)
    BY DEF Plain
  <2>12. PlainEntry(FormEntry(x, y))
    BY <2>8, <2>11, Zenon DEF FormEntry, PlainEntry
  <2> QED
    BY <2>9, <2>10, <2>12, Zenon
<1> QED
  BY <1>1 DEF Pairs

(* A submitted form is a list of entries without files.                    *)
LEMMA ParsedFacts ==
  ASSUME NEW data \in Seq(Nat)
  PROVE  /\ ParseFormInput(data) \in Seq(EntryShape)
         /\ \A i \in DOMAIN ParseFormInput(data) :
              ParseFormInput(data)[i].tfile = NoFile /\ PlainEntry(ParseFormInput(data)[i])
<1>1. PICK t, S : t = ParseFormInput(data) /\ S = Pairs(data) /\ t \in Seq(S)
  BY ParsedPairs
<1>2. \A e \in S : e \in EntryShape /\ e.tfile = NoFile /\ PlainEntry(e)
  BY <1>1, PairShape
<1>3. \A i \in DOMAIN t : t[i] \in S
  BY <1>1
<1>4. t \in Seq(EntryShape)
  BY <1>1, <1>2
<1> QED
  BY <1>1, <1>2, <1>3, <1>4

-----------------------------------------------------------------------------
(* The parameters of a header value.                                       *)

(* What a Seek or a Skip within a text finds is within it, or just behind. *)
LEMMA Within ==
  ASSUME NEW s \in Seq(Nat), NEW p \in 1..Len(s) + 1, NEW S
  PROVE  /\ Seek(s, p, S) \in p..Len(s) + 1
         /\ Skip(s, p, S) \in p..Len(s) + 1
<1>1. p \in Nat /\ Len(s) \in Nat /\ p \in Int /\ Len(s) + 1 \in Int
  OBVIOUS
<1>2. Max({p, Len(s) + 1}) = Len(s) + 1
  <2>1. Max({p, Len(s) + 1}) = IF p >= Len(s) + 1 THEN p ELSE Len(s) + 1
    BY <1>1, MaxTwo, Zenon
  <2> QED
    BY <2>1
<1>3. PICK k, l : k = Seek(s, p, S) /\ l = Skip(s, p, S)
  OBVIOUS
<1>4. k \in Nat /\ k >= p /\ k <= Len(s) + 1
  <2>1. /\ Seek(s, p, S) \in Nat /\ Seek(s, p, S) >= p
        /\ Seek(s, p, S) <= Max({p, Len(s) + 1})
    BY <1>1, SeekFacts
  <2> QED
    BY <1>2, <1>3, <2>1, Zenon
<1>5. l \in Nat /\ l >= p /\ l <= Len(s) + 1
  BY <1>1, <1>2, <1>3, SkipFacts, Zenon
<1> QED
  BY <1>3, <1>4, <1>5

(* A value is text and ends within the text it stands in.                  *)
LEMMA ValueText ==
  ASSUME NEW s \in Seq(Nat), NEW p \in 1..Len(s) + 1
  PROVE  /\ ValueAt(s, p).text \in Seq(Nat)
         /\ ValueAt(s, p).next \in p..Len(s) + 1
<1>1. CASE p <= Len(s) /\ s[p] = QUOTE
  <2>1. p + 1 \in 1..Len(s) + 1 /\ p + 1 \in Nat
    BY <1>1
  <2>2. PICK q : q = Seek(s, p + 1, {QUOTE}) /\ q \in p + 1..Len(s) + 1
    BY <2>1, Within
  <2>3. q \in 1..Len(s) + 1
    BY <2>2
  <2>4. PICK e : e = Seek(s, q, {SEMI}) /\ e \in q..Len(s) + 1
    BY <2>3, Within
  <2>5. ValueAt(s, p) = [text |-> SubSeq(s, p + 1, q - 1), next |-> e]
    BY <1>1, <2>2, <2>4, Zenon DEF ValueAt
  <2>6. SubSeq(s, p + 1, q - 1) \in Seq(Nat)
    <3>1. q - 1 \in (p + 1) - 1..Len(s) /\ q - 1 \in Int
      BY <2>1, <2>2
    <3> QED
      BY <2>1, <3>1, SeqPart
  <2>7. e \in p..Len(s) + 1
    BY <2>1, <2>2, <2>4
  <2> QED
    BY <2>5, <2>6, <2>7
<1>2. CASE ~(p <= Len(s) /\ s[p] = QUOTE)
  <2>1. PICK q : q = Seek(s, p, {SEMI}) /\ q \in p..Len(s) + 1
    BY Within
  <2>2. ValueAt(s, p) = [text |-> SubSeq(s, p, q - 1), next |-> q]
    BY <1>2, <2>1, Zenon DEF ValueAt
  <2>3. SubSeq(s, p, q - 1) \in Seq(Nat)
    <3>1. q - 1 \in p - 1..Len(s) /\ q - 1 \in Int
      BY <2>1
    <3> QED
      BY <3>1, SeqPart
  <2>4. q \in p..Len(s) + 1
    BY <2>1
  <2> QED
    BY <2>2, <2>3, <2>4
<1> QED
  BY <1>1, <1>2

(* The parameter at the ; at p: its name, its = and its value.             *)
NameAt(s, p) == Skip(s, p + 1, Whitespace)
NameEnd(s, p) == Skip(s, NameAt(s, p), Alnum)
EqAt(s, p) == Skip(s, NameEnd(s, p), Whitespace)
ArgValue(s, p) == ValueAt(s, Skip(s, EqAt(s, p) + 1, Whitespace))
ArgAt(s, p) == [name |-> SubSeq(s, NameAt(s, p), NameEnd(s, p) - 1),
                text |-> ArgValue(s, p).text]
NoArg(s, p) == p > Len(s) \/ EqAt(s, p) > Len(s)
ArgsFrom(s, f, p) ==
  IF NoArg(s, p) THEN << >>
  ELSE IF s[EqAt(s, p)] # EQ THEN << >>
  ELSE <<ArgAt(s, p)>> \o f[ArgValue(s, p).next]
ArgShape == [name : Seq(Nat), text : Seq(Nat)]

(* A parameter is text, and the next one stands behind it.                 *)
LEMMA ArgMoves ==
  ASSUME NEW s \in Seq(Nat), NEW p \in 1..Len(s) + 1, ~NoArg(s, p)
  PROVE  ArgAt(s, p) \in ArgShape /\ ArgValue(s, p).next \in p + 1..Len(s) + 1
<1>1. PICK n, end, eq : n = NameAt(s, p) /\ end = NameEnd(s, p) /\ eq = EqAt(s, p)
  OBVIOUS
<1>2. ~(p > Len(s)) /\ ~(eq > Len(s))
  BY <1>1, Zenon DEF NoArg
<1>3. p + 1 \in 1..Len(s) + 1 /\ p \in Nat
  BY <1>2
<1>4. n \in p + 1..Len(s) + 1
  BY <1>1, <1>3, Within, Zenon DEF NameAt
<1>5. n \in 1..Len(s) + 1
  BY <1>3, <1>4
<1>6. end \in n..Len(s) + 1
  BY <1>1, <1>5, Within, Zenon DEF NameEnd
<1>7. end \in 1..Len(s) + 1
  BY <1>5, <1>6
<1>8. eq \in end..Len(s) + 1
  BY <1>1, <1>7, Within, Zenon DEF EqAt
<1>9. eq + 1 \in 1..Len(s) + 1 /\ eq > p
  BY <1>2, <1>3, <1>4, <1>6, <1>7, <1>8
<1>10. PICK v : v = Skip(s, eq + 1, Whitespace) /\ v \in eq + 1..Len(s) + 1
  BY <1>9, Within
<1>11. v \in 1..Len(s) + 1 /\ v > p
  BY <1>3, <1>7, <1>8, <1>9, <1>10
<1>12. ArgValue(s, p) = ValueAt(s, v)
  BY <1>1, <1>10, Zenon DEF ArgValue
<1>13. ArgValue(s, p).text \in Seq(Nat) /\ ArgValue(s, p).next \in v..Len(s) + 1
  BY <1>11, <1>12, ValueText
<1>14. SubSeq(s, n, end - 1) \in Seq(Nat)
  BY <1>5, <1>6
<1>15. ArgAt(s, p) \in ArgShape
  BY <1>1, <1>13, <1>14 DEF ArgAt, ArgShape
<1> QED
  BY <1>3, <1>11, <1>13, <1>15

(* The parameters of a header value are a list of texts.                   *)
LEMMA ArgumentsText ==
  ASSUME NEW s \in Seq(Nat), NEW start \in 1..Len(s) + 1
  PROVE  Arguments(s, start) \in Seq(ArgShape)
<1> DEFINE n == Len(s) + 1
           S == Seq(ArgShape)
           G == [f \in [1..n -> S] |-> [p \in 1..n |-> ArgsFrom(s, f, p)]]
           Top == CHOOSE f : f = [p \in 1..n |-> ArgsFrom(s, f, p)]
<1>1. n \in Int /\ 1 \in Int /\ S # {}
  <2>1. << >> \in S
    BY SeqNone
  <2>2. n \in Int /\ 1 \in Int
    <3> HIDE DEF G, Top
    <3> QED
      OBVIOUS
  <2> QED
    BY <2>1, <2>2, Zenon
<1>2. ASSUME NEW p \in 1..n, NEW f, \A q \in p + 1..n : f[q] \in S
      PROVE  ArgsFrom(s, f, p) \in S
  <2>1. ~NoArg(s, p) => ArgAt(s, p) \in ArgShape /\ f[ArgValue(s, p).next] \in S
    BY <1>2, ArgMoves, Zenon
  <2>2. << >> \in Seq(ArgShape) /\ \A x \in ArgShape : <<x>> \in Seq(ArgShape)
    OBVIOUS
  <2>3. \A u, v \in Seq(ArgShape) : u \o v \in Seq(ArgShape)
    BY SeqJoined
  <2> QED
    BY <2>1, <2>2, <2>3, Zenon DEF ArgsFrom
<1>3. ASSUME NEW p \in 1..n, NEW f, NEW g, \A q \in p + 1..n : f[q] = g[q]
      PROVE  ArgsFrom(s, f, p) = ArgsFrom(s, g, p)
  <2>1. ~NoArg(s, p) => f[ArgValue(s, p).next] = g[ArgValue(s, p).next]
    BY <1>3, ArgMoves, Zenon
  <2> QED
    BY <2>1, Zenon DEF ArgsFrom
<1> HIDE DEF S
<1>4. StepDown(G, 1, n, S)
  <2>1. \A f \in [1..n -> S], p \in 1..n : ArgsFrom(s, f, p) \in S
    <3> TAKE f \in [1..n -> S], p \in 1..n
    <3>1. \A q \in p + 1..n : f[q] \in S
      OBVIOUS
    <3> QED
      BY <1>2, <3>1, Zenon
  <2>2. G \in [[1..n -> S] -> [1..n -> S]]
    BY <2>1
  <2>3. \A p \in 1..n : \A f, g \in [1..n -> S] :
          (\A q \in p + 1..n : f[q] = g[q]) => G[f][p] = G[g][p]
    BY <1>3
  <2> QED
    BY <2>2, <2>3, Zenon DEF StepDown
<1> HIDE DEF G
<1>5. PICK f \in [1..n -> S] : f = G[f]
  BY <1>1, <1>4, FunctionDown
<1>6. f = [p \in 1..n |-> ArgsFrom(s, f, p)]
  BY <1>5 DEF G
<1>7. Top = [p \in 1..n |-> ArgsFrom(s, Top, p)]
  BY <1>6, Zenon
<1>8. Arguments(s, start) = Top[start]
  BY Zenon DEF Arguments, ArgsFrom, ArgAt, NoArg, ArgValue, EqAt, NameEnd, NameAt
<1> HIDE DEF Top
<1>9. \A p \in 1..n : Top[p] = ArgsFrom(s, Top, p)
  BY <1>7
<1>10. \A p \in 1..n : Top[p] \in S
  <2> DEFINE Q == {p \in 1..n : Top[p] \in S}
  <2>1. \A p \in 1..n : (\A q \in p + 1..n : q \in Q) => p \in Q
    <3> TAKE p \in 1..n
    <3>1. HAVE \A q \in p + 1..n : q \in Q
    <3>2. Top[p] \in S
      BY <1>2, <1>9, <3>1, Zenon
    <3> QED
      BY <3>2
  <2> HIDE DEF Q
  <2>2. \A p \in 1..n : p \in Q
    BY <1>1, <2>1, RangeDown
  <2> QED
    BY <2>2 DEF Q
<1> QED
  BY <1>8, <1>10, Zenon DEF S

(* The greatest of some numbers of a range.                                *)
LEMMA MaxIn ==
  ASSUME NEW n \in Nat, NEW I, I \subseteq 1..n, I # {}
  PROVE  Max(I) \in I /\ \A y \in I : Max(I) >= y
<1> DEFINE J == {j \in 0..n : n - j \in I}
<1>1. \A i \in I : i \in 1..n /\ n - i \in J /\ n - (n - i) = i
  OBVIOUS
<1>2. J # {} /\ J \subseteq Nat
  <2>1. PICK i : i \in I
    OBVIOUS
  <2>2. n - i \in J
    BY <1>1, <2>1
  <2> QED
    BY <2>2
<1>3. PICK j \in J : \A k \in J : j <= k
  <2> HIDE DEF J
  <2> QED
    BY <1>2, LeastNat, Zenon
<1>4. n - j \in I /\ \A y \in I : n - j >= y
  BY <1>1, <1>3
<1> QED
  BY <1>4, Zenon DEF Max

(* What the library keeps of a parameter is text.                          *)
LEMMA ArgumentText ==
  ASSUME NEW d, d.args \in Seq(ArgShape), NEW name
  PROVE  Argument(d, name) \in Seq(Nat)
<1> DEFINE I == {i \in 1..Len(d.args) : StrEqNc(d.args[i].name, name)}
<1>1. Argument(d, name) = IF (IF I # {} THEN Max(I) ELSE 0) = 0 THEN << >>
                          ELSE d.args[IF I # {} THEN Max(I) ELSE 0].text
  BY Zenon DEF Argument, SelectLastInSeq
<1>2. I \subseteq 1..Len(d.args) /\ Len(d.args) \in Nat
  OBVIOUS
<1> HIDE DEF I
<1>3. CASE I = {}
  BY <1>1, <1>3
<1>4. CASE I # {}
  <2>1. Max(I) \in 1..Len(d.args)
    BY <1>2, <1>4, MaxIn
  <2>2. d.args[Max(I)] \in ArgShape
    BY <2>1
  <2>3. d.args[Max(I)].text \in Seq(Nat)
    BY <2>2, Zenon DEF ArgShape
  <2> QED
    BY <1>1, <1>4, <2>1, <2>3
<1> QED
  BY <1>3, <1>4

(* What a header line is taken apart into is text.                         *)
LEMMA DecomposedText ==
  ASSUME NEW s \in Seq(Nat)
  PROVE  /\ DecomposeValue(s).value \in Seq(Nat)
         /\ \A name : Argument(DecomposeValue(s), name) \in Seq(Nat)
<1>1. 1 \in 1..Len(s) + 1
  OBVIOUS
<1>2. PICK p : p = Skip(s, 1, Whitespace) /\ p \in 1..Len(s) + 1
  BY <1>1, Within
<1>3. PICK v : v = ValueAt(s, p) /\ v.text \in Seq(Nat) /\ v.next \in p..Len(s) + 1
  BY <1>2, ValueText
<1>4. v.next \in 1..Len(s) + 1
  BY <1>2, <1>3
<1>5. DecomposeValue(s) = [value |-> v.text, args |-> Arguments(s, v.next)]
  BY <1>2, <1>3, Zenon DEF DecomposeValue
<1>6. DecomposeValue(s).args \in Seq(ArgShape)
  BY <1>4, <1>5, ArgumentsText
<1> QED
  BY <1>3, <1>5, <1>6, ArgumentText

-----------------------------------------------------------------------------
(* The saved file.                                                         *)

FieldShape == [attr : Seq(Nat), value : Seq(Nat), valueLength : Nat, fileName : Seq(Nat),
               contentType : Seq(Nat), content : Seq(Nat)]

(* At p of a file D stand the int n, the string s; from p up to q the      *)
(* content of a field f, all of f.                                         *)
IntAt(D, p, n) ==
  p + 3 <= Len(D) /\ D[p] = n % 256 /\ D[p + 1] = n \div 256 /\ D[p + 2] = 0 /\ D[p + 3] = 0
StringAt(D, p, s) ==
  IntAt(D, p, Len(s)) /\ p + 3 + Len(s) <= Len(D) /\ \A j \in 1..Len(s) : D[p + 3 + j] = s[j]
ContentAt(D, p, q, c, k) ==
  \/ IntAt(D, p, 0) /\ c = << >> /\ q = p + 4
  \/ /\ IntAt(D, p, 1) /\ Len(c) = k /\ q = p + 4 + k /\ q - 1 <= Len(D)
     /\ \A j \in 1..k : D[p + 3 + j] = c[j]
ValuePos(p, f) == p + 4 + Len(f.attr)
NamePos(p, f) == ValuePos(p, f) + 4 + Len(f.value)
TypePos(p, f) == NamePos(p, f) + 4 + Len(f.fileName)
LengthPos(p, f) == TypePos(p, f) + 4 + Len(f.contentType)
FieldAt(D, p, q, f) ==
  /\ StringAt(D, p, f.attr) /\ StringAt(D, ValuePos(p, f), f.value)
  /\ StringAt(D, NamePos(p, f), f.fileName) /\ StringAt(D, TypePos(p, f), f.contentType)
  /\ IntAt(D, LengthPos(p, f), f.valueLength)
  /\ ContentAt(D, LengthPos(p, f) + 4, q, f.content, f.valueLength)

(* Y stands in Z behind its first `off` letters.                           *)
Inside(Y, off, Z) ==
  /\ Y \in Seq(Nat) /\ Z \in Seq(Nat) /\ off \in Nat /\ off + Len(Y) <= Len(Z)
  /\ \A j \in 1..Len(Y) : Z[off + j] = Y[j]

(* Where a part of a text stands in the whole the ints of the part stand,  *)
LEMMA IntMoves ==
  ASSUME NEW Y, NEW off, NEW Z, Inside(Y, off, Z), NEW p \in Nat \ {0}, NEW n \in Nat,
         IntAt(Y, p, n)
  PROVE  IntAt(Z, off + p, n)
<1>1. /\ Y \in Seq(Nat) /\ Z \in Seq(Nat) /\ off \in Nat /\ off + Len(Y) <= Len(Z)
      /\ \A j \in 1..Len(Y) : Z[off + j] = Y[j]
  BY DEF Inside
<1>2. p + 3 <= Len(Y) /\ Y[p] = n % 256 /\ Y[p + 1] = n \div 256 /\ Y[p + 2] = 0 /\ Y[p + 3] = 0
  BY DEF IntAt
<1>3. p \in 1..Len(Y) /\ p + 1 \in 1..Len(Y) /\ p + 2 \in 1..Len(Y) /\ p + 3 \in 1..Len(Y)
  <2>1. Y \in Seq(Nat) /\ p + 3 <= Len(Y)
    BY <1>1, <1>2, Zenon
  <2> QED
    BY <2>1
<1>4. /\ Z[off + p] = Y[p] /\ Z[off + (p + 1)] = Y[p + 1] /\ Z[off + (p + 2)] = Y[p + 2]
      /\ Z[off + (p + 3)] = Y[p + 3]
  BY <1>1, <1>3
<1>5. /\ off + (p + 1) = (off + p) + 1 /\ off + (p + 2) = (off + p) + 2
      /\ off + (p + 3) = (off + p) + 3 /\ (off + p) + 3 <= Len(Z)
  BY <1>1, <1>2
<1> QED
  BY <1>2, <1>4, <1>5, Zenon DEF IntAt

(* its strings,                                                            *)
LEMMA StringMoves ==
  ASSUME NEW Y, NEW off, NEW Z, Inside(Y, off, Z), NEW p \in Nat \ {0}, NEW s \in Seq(Nat),
         StringAt(Y, p, s)
  PROVE  StringAt(Z, off + p, s)
<1>1. /\ Y \in Seq(Nat) /\ Z \in Seq(Nat) /\ off \in Nat /\ off + Len(Y) <= Len(Z)
      /\ \A j \in 1..Len(Y) : Z[off + j] = Y[j]
  BY DEF Inside
<1>2. /\ IntAt(Y, p, Len(s)) /\ p + 3 + Len(s) <= Len(Y) /\ Len(s) \in Nat
      /\ \A j \in 1..Len(s) : Y[p + 3 + j] = s[j]
  BY DEF StringAt
<1>3. IntAt(Z, off + p, Len(s))
  BY <1>2, IntMoves
<1>4. \A j \in 1..Len(s) : Z[off + p + 3 + j] = s[j]
  <2> TAKE j \in 1..Len(s)
  <2>1. p + 3 + j \in 1..Len(Y) /\ off + (p + 3 + j) = off + p + 3 + j
    BY <1>1, <1>2
  <2> QED
    BY <1>1, <1>2, <2>1
<1>5. off + p + 3 + Len(s) <= Len(Z)
  BY <1>1, <1>2
<1> QED
  BY <1>3, <1>4, <1>5, Zenon DEF StringAt

(* the contents of files,                                                  *)
LEMMA ContentMoves ==
  ASSUME NEW Y, NEW off, NEW Z, Inside(Y, off, Z), NEW p \in Nat \ {0}, NEW q \in Nat,
         NEW c, NEW k \in Nat, ContentAt(Y, p, q, c, k)
  PROVE  ContentAt(Z, off + p, off + q, c, k)
<1>1. /\ Y \in Seq(Nat) /\ Z \in Seq(Nat) /\ off \in Nat /\ off + Len(Y) <= Len(Z)
      /\ Len(Y) \in Nat /\ Len(Z) \in Nat
  BY DEF Inside
<1>2. \A j \in 1..Len(Y) : Z[off + j] = Y[j]
  BY DEF Inside
<1>3. PICK P \in Nat, Q \in Nat : P = off + p /\ Q = off + q
  BY <1>1
<1>4. \A n \in Nat : IntAt(Y, p, n) => IntAt(Z, P, n)
  BY <1>3, IntMoves
<1>5. CASE IntAt(Y, p, 0) /\ c = << >> /\ q = p + 4
  <2>1. IntAt(Z, P, 0)
    BY <1>4, <1>5
  <2>2. Q = P + 4
    BY <1>1, <1>3, <1>5
  <2>3. ContentAt(Z, P, Q, c, k)
    BY <1>5, <2>1, <2>2, Zenon DEF ContentAt
  <2> QED
    BY <1>3, <2>3, Zenon
<1>6. CASE /\ IntAt(Y, p, 1) /\ Len(c) = k /\ q = p + 4 + k /\ q - 1 <= Len(Y)
           /\ \A j \in 1..k : Y[p + 3 + j] = c[j]
  <2>1. IntAt(Y, p, 1) /\ 1 \in Nat
    BY <1>6
  <2>2. IntAt(Z, P, 1)
    BY <1>4, <2>1
  <2>3. q = p + 4 + k /\ q - 1 <= Len(Y)
    BY <1>6
  <2>4. Q = P + 4 + k /\ Q - 1 <= Len(Z)
    BY <1>1, <1>3, <2>3
  <2>5. \A j \in 1..k : p + 3 + j \in 1..Len(Y) /\ off + (p + 3 + j) = P + 3 + j
    BY <1>1, <1>3, <2>3
  <2>6. \A j \in 1..k : Y[p + 3 + j] = c[j]
    BY <1>6
  <2>7. \A j \in 1..k : Z[P + 3 + j] = c[j]
    BY <1>2, <2>5, <2>6, Zenon
  <2>8. Len(c) = k
    BY <1>6
  <2>9. ContentAt(Z, P, Q, c, k)
    BY ONLY <2>2, <2>4, <2>7, <2>8 DEF ContentAt
  <2> QED
    BY <1>3, <2>9, Zenon
<1> QED
  BY <1>5, <1>6, Zenon DEF ContentAt

(* The positions within a field.                                           *)
LEMMA Positions ==
  ASSUME NEW f \in FieldShape, NEW p \in Nat \ {0}
  PROVE  /\ f.attr \in Seq(Nat) /\ f.value \in Seq(Nat) /\ f.fileName \in Seq(Nat)
         /\ f.contentType \in Seq(Nat) /\ f.content \in Seq(Nat) /\ f.valueLength \in Nat
         /\ Len(f.attr) \in Nat /\ Len(f.value) \in Nat /\ Len(f.fileName) \in Nat
         /\ Len(f.contentType) \in Nat /\ Len(f.content) \in Nat
         /\ ValuePos(p, f) \in Nat \ {0} /\ NamePos(p, f) \in Nat \ {0}
         /\ TypePos(p, f) \in Nat \ {0} /\ LengthPos(p, f) \in Nat \ {0}
         /\ \A off \in Nat :
              /\ ValuePos(off + p, f) = off + ValuePos(p, f)
              /\ NamePos(off + p, f) = off + NamePos(p, f)
              /\ TypePos(off + p, f) = off + TypePos(p, f)
              /\ LengthPos(off + p, f) = off + LengthPos(p, f)
<1>1. /\ f.attr \in Seq(Nat) /\ f.value \in Seq(Nat) /\ f.fileName \in Seq(Nat)
      /\ f.contentType \in Seq(Nat) /\ f.content \in Seq(Nat) /\ f.valueLength \in Nat
  BY DEF FieldShape
<1>2. /\ Len(f.attr) \in Nat /\ Len(f.value) \in Nat /\ Len(f.fileName) \in Nat
      /\ Len(f.contentType) \in Nat /\ Len(f.content) \in Nat
  BY <1>1
<1>3. PICK a \in Nat, v \in Nat, n \in Nat, t \in Nat :
        /\ a = Len(f.attr) /\ v = Len(f.value) /\ n = Len(f.fileName)
        /\ t = Len(f.contentType)
  BY <1>2
<1>4. \A i \in Nat :
            /\ ValuePos(i, f) = i + 4 + a /\ NamePos(i, f) = i + 4 + a + 4 + v
            /\ TypePos(i, f) = i + 4 + a + 4 + v + 4 + n
            /\ LengthPos(i, f) = i + 4 + a + 4 + v + 4 + n + 4 + t
  BY <1>3, Zenon DEF ValuePos, NamePos, TypePos, LengthPos
<1>5. /\ ValuePos(p, f) \in Nat \ {0} /\ NamePos(p, f) \in Nat \ {0}
      /\ TypePos(p, f) \in Nat \ {0} /\ LengthPos(p, f) \in Nat \ {0}
  BY <1>4
<1>6. ASSUME NEW off \in Nat
      PROVE  /\ ValuePos(off + p, f) = off + ValuePos(p, f)
             /\ NamePos(off + p, f) = off + NamePos(p, f)
             /\ TypePos(off + p, f) = off + TypePos(p, f)
             /\ LengthPos(off + p, f) = off + LengthPos(p, f)
  <2>1. off + p \in Nat /\ p \in Nat
    OBVIOUS
  <2>2. PICK m : m = off + p
    OBVIOUS
  <2>3. /\ ValuePos(m, f) = m + 4 + a /\ NamePos(m, f) = m + 4 + a + 4 + v
        /\ TypePos(m, f) = m + 4 + a + 4 + v + 4 + n
        /\ LengthPos(m, f) = m + 4 + a + 4 + v + 4 + n + 4 + t
    BY <1>4, <2>1, <2>2, Zenon
  <2>4. /\ ValuePos(p, f) = p + 4 + a /\ NamePos(p, f) = p + 4 + a + 4 + v
        /\ TypePos(p, f) = p + 4 + a + 4 + v + 4 + n
        /\ LengthPos(p, f) = p + 4 + a + 4 + v + 4 + n + 4 + t
    BY <1>4, <2>1, Zenon
  <2> QED
    BY <2>2, <2>3, <2>4
<1> QED
  BY <1>1, <1>2, <1>5, <1>6

(* and its fields.                                                         *)
LEMMA FieldMoves ==
  ASSUME NEW Y, NEW off, NEW Z, Inside(Y, off, Z), NEW p \in Nat \ {0}, NEW q \in Nat,
         NEW f \in FieldShape, FieldAt(Y, p, q, f)
  PROVE  FieldAt(Z, off + p, off + q, f)
<1>1. off \in Nat
  BY DEF Inside
<1>2. /\ StringAt(Z, off + p, f.attr) /\ StringAt(Z, off + ValuePos(p, f), f.value)
      /\ StringAt(Z, off + NamePos(p, f), f.fileName)
      /\ StringAt(Z, off + TypePos(p, f), f.contentType)
  BY Positions, StringMoves, Zenon DEF FieldAt
<1>3. IntAt(Z, off + LengthPos(p, f), f.valueLength)
  BY Positions, IntMoves, Zenon DEF FieldAt
<1>4. ContentAt(Z, off + LengthPos(p, f) + 4, off + q, f.content, f.valueLength)
  <2>1. PICK l \in Nat \ {0}, k \in Nat : l = LengthPos(p, f) /\ k = f.valueLength
    BY Positions
  <2>2. ContentAt(Y, l + 4, q, f.content, k)
    BY <2>1, Zenon DEF FieldAt
  <2>3. l + 4 \in Nat \ {0} /\ off + (l + 4) = off + l + 4
    BY <1>1
  <2>4. ContentAt(Z, off + (l + 4), off + q, f.content, k)
    BY <2>2, <2>3, ContentMoves
  <2> QED
    BY <2>1, <2>3, <2>4, Zenon
<1>5. /\ ValuePos(off + p, f) = off + ValuePos(p, f) /\ NamePos(off + p, f) = off + NamePos(p, f)
      /\ TypePos(off + p, f) = off + TypePos(p, f) /\ LengthPos(off + p, f) = off + LengthPos(p, f)
  BY <1>1, Positions, Zenon
<1> QED
  BY <1>2, <1>3, <1>4, <1>5, Zenon DEF FieldAt

(* A beginning of a text.                                                  *)
LEMMA Beginning ==
  ASSUME NEW D \in Seq(Nat), NEW m \in 0..Len(D), NEW d, d = SubSeq(D, 1, m)
  PROVE  d \in Seq(Nat) /\ Len(d) = m /\ \A i \in 1..m : d[i] = D[i]
OBVIOUS

(* Four letters of a text, cut out.                                        *)
LEMMA FourLetters ==
  ASSUME NEW d \in Seq(Nat), NEW p \in Nat \ {0}, p + 3 <= Len(d),
         NEW b, b = SubSeq(d, p, p + 3)
  PROVE  b[1] = d[p] /\ b[2] = d[p + 1] /\ b[3] = d[p + 2] /\ b[4] = d[p + 3]
<1>1. Len(b) = 4
  OBVIOUS
<1>2. \A j \in 1..4 : b[j] = d[p - 1 + j]
  OBVIOUS
<1>3. b[1] = d[p - 1 + 1] /\ b[2] = d[p - 1 + 2] /\ b[3] = d[p - 1 + 3] /\ b[4] = d[p - 1 + 4]
  BY <1>2
<1>4. p - 1 + 1 = p /\ p - 1 + 2 = p + 1 /\ p - 1 + 3 = p + 2 /\ p - 1 + 4 = p + 3
  OBVIOUS
<1> QED
  BY <1>3, <1>4, Zenon

(* A number is made of its low and its high byte.                          *)
LEMMA TwoBytes ==
  ASSUME NEW n \in Nat
  PROVE  (n % 256) + 256 * (n \div 256) = n
OBVIOUS

(* What k letters of a text from q on are.                                 *)
LEMMA CutOut ==
  ASSUME NEW d \in Seq(Nat), NEW q \in Nat \ {0}, NEW k \in Nat, q + k - 1 <= Len(d)
  PROVE  SubSeq(d, q, q + k - 1) \in Seq(Nat) /\ Len(SubSeq(d, q, q + k - 1)) = k
OBVIOUS

(* An int that stands in a text stands in a beginning that is long enough, *)
LEMMA IntInBeginning ==
  ASSUME NEW D \in Seq(Nat), NEW d \in Seq(Nat), NEW p \in Nat \ {0}, NEW n \in Nat,
         \A i \in 1..Len(d) : d[i] = D[i], p + 3 <= Len(d), IntAt(D, p, n)
  PROVE  IntAt(d, p, n)
<1>1. p \in 1..Len(d) /\ p + 1 \in 1..Len(d) /\ p + 2 \in 1..Len(d) /\ p + 3 \in 1..Len(d)
  <2>1. Len(d) \in Nat
    OBVIOUS
  <2> QED
    BY ONLY <2>1, p \in Nat \ {0}, p + 3 <= Len(d)
<1>2. d[p] = D[p] /\ d[p + 1] = D[p + 1] /\ d[p + 2] = D[p + 2] /\ d[p + 3] = D[p + 3]
  BY ONLY <1>1, \A i \in 1..Len(d) : d[i] = D[i], Zenon
<1>3. IntAt(D, p, n)
  OBVIOUS
<1>4. D[p] = n % 256 /\ D[p + 1] = n \div 256 /\ D[p + 2] = 0 /\ D[p + 3] = 0
  BY ONLY <1>3, Zenon DEF IntAt
<1>5. d[p] = n % 256 /\ d[p + 1] = n \div 256 /\ d[p + 2] = 0 /\ d[p + 3] = 0
  BY ONLY <1>2, <1>4, Zenon
<1>6. p + 3 <= Len(d)
  OBVIOUS
<1> QED
  BY ONLY <1>5, <1>6, Zenon DEF IntAt

(* and is read from its letters.                                           *)
LEMMA IntLetters ==
  ASSUME NEW d \in Seq(Nat), NEW p \in Nat \ {0}, NEW n \in Nat, IntAt(d, p, n)
  PROVE  \E b : /\ b = SubSeq(d, p, p + 3)
               /\ b[3] = 0 /\ b[4] = 0 /\ b[1] + 256 * b[2] = n
<1>1. PICK b : b = SubSeq(d, p, p + 3)
  OBVIOUS
<1>2. b[1] = d[p] /\ b[2] = d[p + 1] /\ b[3] = d[p + 2] /\ b[4] = d[p + 3]
  <2>1. p + 3 <= Len(d)
    BY DEF IntAt
  <2> QED
    BY <1>1, <2>1, FourLetters
<1>3. b[1] = n % 256 /\ b[2] = n \div 256 /\ b[3] = 0 /\ b[4] = 0
  BY <1>2, Zenon DEF IntAt
<1>4. PICK lo, hi : lo = n % 256 /\ hi = n \div 256
  OBVIOUS
<1>5. lo + 256 * hi = n
  BY <1>4, TwoBytes
<1>6. b[1] = lo /\ b[2] = hi
  BY <1>3, <1>4, Zenon
<1>7. b[1] + 256 * b[2] = n
  BY ONLY <1>5, <1>6, Zenon
<1>8. b[3] = 0 /\ b[4] = 0
  BY ONLY <1>3, Zenon
<1> QED
  BY ONLY <1>1, <1>7, <1>8, Zenon

(* A text that stands in another is part of it.                            *)
LEMMA PieceOf ==
  ASSUME NEW d \in Seq(Nat), NEW p \in Nat \ {0}, NEW s \in Seq(Nat),
         p + Len(s) - 1 <= Len(d), \A j \in 1..Len(s) : d[p - 1 + j] = s[j]
  PROVE  SubSeq(d, p, p + Len(s) - 1) = s
<1>1. PICK k \in Nat : k = Len(s)
  OBVIOUS
<1>2. PICK t : t = SubSeq(d, p, p + k - 1)
  OBVIOUS
<1>3. t \in Seq(Nat) /\ Len(t) = k /\ \A j \in 1..k : t[j] = d[p - 1 + j]
  <2>1. p + k - 1 <= Len(d)
    BY <1>1
  <2> QED
    BY <1>2, <2>1
<1>4. \A j \in 1..k : t[j] = s[j]
  BY <1>1, <1>3
<1>5. t = s
  BY <1>1, <1>3, <1>4, SeqEqual
<1> QED
  BY <1>1, <1>2, <1>5

(* One text after another: both stand in the whole.                        *)
LEMMA InsideJoined ==
  ASSUME NEW X \in Seq(Nat), NEW Y \in Seq(Nat)
  PROVE  /\ X \o Y \in Seq(Nat) /\ Len(X \o Y) = Len(X) + Len(Y)
         /\ Inside(X, 0, X \o Y) /\ Inside(Y, Len(X), X \o Y)
<1>1. /\ X \o Y \in Seq(Nat) /\ Len(X \o Y) = Len(X) + Len(Y)
      /\ Len(X) \in Nat /\ Len(Y) \in Nat
  OBVIOUS
<1>2. /\ \A j \in 1..Len(X) : (X \o Y)[0 + j] = X[j]
      /\ \A j \in 1..Len(Y) : (X \o Y)[Len(X) + j] = Y[j]
  OBVIOUS
<1> QED
  BY <1>1, <1>2 DEF Inside

(* A beginning of a beginning is one.                                      *)
LEMMA InsideTwice ==
  ASSUME NEW A, NEW B, NEW C, Inside(A, 0, B), Inside(B, 0, C)
  PROVE  Inside(A, 0, C)
<1>1. /\ A \in Seq(Nat) /\ B \in Seq(Nat) /\ C \in Seq(Nat)
      /\ Len(A) <= Len(B) /\ Len(B) <= Len(C)
  BY DEF Inside
<1>2. \A j \in 1..Len(A) : j \in 1..Len(B) /\ 0 + j = j
  BY <1>1
<1>3. \A j \in 1..Len(A) : C[0 + j] = A[j]
  BY <1>2, Zenon DEF Inside
<1> QED
  BY <1>1, <1>3 DEF Inside

-----------------------------------------------------------------------------
(* Access to the entries of a form.                                        *)

(* A list without members is the empty one.                                *)
LEMMA EmptyList ==
  ASSUME NEW P, NEW s \in Seq(P), Len(s) = 0
  PROVE  s = << >>
OBVIOUS

(* A flattened list is made by joining its members one after the other.    *)
LEMMA Flattened ==
  ASSUME NEW S, NEW l \in Seq(Seq(S))
  PROVE  \E f \in [0..Len(l) -> Seq(S)] :
           /\ f[0] = << >>
           /\ \A i \in 1..Len(l) : f[i] = f[i - 1] \o l[i]
           /\ FlattenSeq(l) = f[Len(l)]
<1>1. PICK n \in Nat : n = Len(l) /\ n \in Int /\ 1 \in Int
  OBVIOUS
<1>2. \A i \in 1..n : l[i] \in Seq(S)
  BY <1>1
<1>3. << >> \in Seq(S)
  BY SeqNone
<1> DEFINE D == [1..n -> Seq(S)]
           Next1(g, i) == IF i = 1 THEN l[i] ELSE g[i - 1] \o l[i]
           G == [g \in D |-> [i \in 1..n |-> Next1(g, i)]]
<1>4. \A g \in D, i \in 1..n : Next1(g, i) \in Seq(S)
  <2> TAKE g \in D, i \in 1..n
  <2>1. CASE i = 1
    BY <1>2, <2>1
  <2>2. CASE i # 1
    <3>1. i - 1 \in 1..n
      BY <2>2
    <3>2. g[i - 1] \in Seq(S) /\ l[i] \in Seq(S)
      BY <1>2, <3>1
    <3>3. g[i - 1] \o l[i] \in Seq(S)
      BY <3>2, SeqJoined
    <3> QED
      BY <2>2, <3>3
  <2> QED
    BY <2>1, <2>2
<1>5. \A p \in 1..n : \A g, h \in D :
        (\A q \in 1..p - 1 : g[q] = h[q]) => Next1(g, p) = Next1(h, p)
  <2> TAKE p \in 1..n
  <2> TAKE g, h \in D
  <2>1. HAVE \A q \in 1..p - 1 : g[q] = h[q]
  <2>2. CASE p = 1
    BY <2>2
  <2>3. CASE p # 1
    <3>1. p - 1 \in 1..p - 1
      BY <2>3
    <3> QED
      BY <2>1, <2>3, <3>1
  <2> QED
    BY <2>2, <2>3
<1>6. PICK h \in D : h = [i \in 1..n |-> Next1(h, i)]
  <2> HIDE DEF Next1
  <2>1. StepUp(G, 1, n, Seq(S))
    BY <1>4, <1>5 DEF StepUp
  <2>2. \E h \in [1..n -> Seq(S)] : h = G[h]
    <3>1. Seq(S) # {}
      BY <1>3
    <3> HIDE DEF G, D
    <3> QED
      BY <1>1, <2>1, <3>1, FunctionUp
  <2> QED
    BY <2>2
<1> DEFINE g == CHOOSE g : g = [i \in 1..Len(l) |-> IF i = 1 THEN l[i] ELSE g[i - 1] \o l[i]]
<1>7. g = [i \in 1..Len(l) |-> IF i = 1 THEN l[i] ELSE g[i - 1] \o l[i]]
  <2>1. h = [i \in 1..Len(l) |-> IF i = 1 THEN l[i] ELSE h[i - 1] \o l[i]]
    BY <1>1, <1>6
  <2> QED
    BY <2>1, Zenon
<1>8. FlattenSeq(l) = IF Len(l) = 0 THEN l ELSE g[Len(l)]
  BY Zenon DEF FlattenSeq
<1> HIDE DEF g
<1>9. \A i \in 1..n : g[i] = IF i = 1 THEN l[i] ELSE g[i - 1] \o l[i]
  BY <1>1, <1>7
<1>10. \A i \in 1..n : g[i] \in Seq(S)
  <2> DEFINE Q == {i \in 1..n : g[i] \in Seq(S)}
  <2>1. \A p \in 1..n : (\A q \in 1..p - 1 : q \in Q) => p \in Q
    <3> TAKE p \in 1..n
    <3>1. HAVE \A q \in 1..p - 1 : q \in Q
    <3>2. CASE p = 1
      BY <1>2, <1>9, <3>2
    <3>3. CASE p # 1
      <4>1. p - 1 \in 1..p - 1
        BY <3>3
      <4>2. g[p - 1] \in Seq(S) /\ l[p] \in Seq(S)
        BY <1>2, <3>1, <4>1
      <4>3. g[p - 1] \o l[p] \in Seq(S)
        BY <4>2, SeqJoined
      <4> QED
        BY <1>9, <3>3, <4>3
    <3> QED
      BY <3>2, <3>3
  <2> HIDE DEF Q
  <2>2. \A p \in 1..n : p \in Q
    BY <1>1, <2>1, RangeUp, Zenon
  <2> QED
    BY <2>2 DEF Q
<1> DEFINE f == [i \in 0..n |-> IF i = 0 THEN << >> ELSE g[i]]
<1>11. f \in [0..n -> Seq(S)]
  BY <1>3, <1>10
<1>12. f[0] = << >>
  OBVIOUS
<1>13. \A i \in 1..n : f[i] = f[i - 1] \o l[i]
  <2> TAKE i \in 1..n
  <2>1. CASE i = 1
    <3>1. f[i] = l[i] /\ f[i - 1] = << >>
      BY <1>9, <2>1
    <3>2. << >> \o l[i] = l[i]
      BY <1>2
    <3> QED
      BY <3>1, <3>2, Zenon
  <2>2. CASE i # 1
    <3>1. i - 1 \in 0..n /\ i - 1 # 0 /\ i # 0 /\ i \in 0..n
      BY <2>2
    <3>2. f[i] = g[i] /\ f[i - 1] = g[i - 1]
      BY <3>1
    <3>3. g[i] = g[i - 1] \o l[i]
      BY <1>9, <2>2, Zenon
    <3> QED
      BY <3>2, <3>3, Zenon
  <2> QED
    BY <2>1, <2>2
<1>14. FlattenSeq(l) = f[n]
  <2>1. CASE n = 0
    <3>1. l = << >>
      BY <1>1, <2>1, EmptyList
    <3>2. f[n] = << >>
      BY <2>1
    <3> QED
      BY <1>1, <1>8, <2>1, <3>1, <3>2, Zenon
  <2>2. CASE n # 0
    BY <1>1, <1>8, <2>2
  <2> QED
    BY <2>1, <2>2
<1> QED
  <2> HIDE DEF f
  <2> QED
    BY <1>1, <1>11, <1>12, <1>13, <1>14, Zenon

(* pos names the members of a set of positions one after the other.        *)
Enumerates(pos, m, P) ==
  /\ pos \in [1..m -> P]
  /\ \A j \in P : \E k \in 1..m : pos[k] = j
  /\ \A a, b \in 1..m : a < b => pos[a] < pos[b]

(* One more position, behind all others.                                   *)
OneMore(q, pos, m, P, i) ==
  /\ Enumerates(q, m + 1, P \cup {i})
  /\ q[m + 1] = i
  /\ \A k \in 1..m : q[k] = pos[k]

(* It can always be named as the last one.                                 *)
LEMMA EnumeratesMore ==
  ASSUME NEW m \in Nat, NEW P, NEW i \in Nat, NEW pos, Enumerates(pos, m, P), P \subseteq 1..i - 1
  PROVE  \E q : OneMore(q, pos, m, P, i)
<1>1. /\ pos \in [1..m -> P]
      /\ \A j \in P : \E k \in 1..m : pos[k] = j
      /\ \A a, b \in 1..m : a < b => pos[a] < pos[b]
  BY DEF Enumerates
<1> DEFINE q == [k \in 1..m + 1 |-> IF k = m + 1 THEN i ELSE pos[k]]
<1>2. \A k \in 1..m : k \in 1..m + 1 /\ k # m + 1 /\ pos[k] \in P
  BY <1>1
<1>3. q[m + 1] = i /\ \A k \in 1..m : q[k] = pos[k]
  BY <1>2
<1>4. \A k \in 1..m + 1 : k = m + 1 \/ k \in 1..m
  OBVIOUS
<1>5. q \in [1..m + 1 -> P \cup {i}]
  BY <1>2, <1>4
<1> HIDE DEF q
<1>6. \A j \in P \cup {i} : \E k \in 1..m + 1 : q[k] = j
  <2> TAKE j \in P \cup {i}
  <2>1. CASE j = i
    <3>1. m + 1 \in 1..m + 1
      OBVIOUS
    <3> QED
      BY <1>3, <2>1, <3>1
  <2>2. CASE j \in P
    BY <1>1, <1>2, <1>3, <2>2
  <2> QED
    BY <2>1, <2>2
<1>7. \A a, b \in 1..m + 1 : a < b => q[a] < q[b]
  <2> TAKE a, b \in 1..m + 1
  <2>1. HAVE a < b
  <2>2. a \in 1..m
    BY <2>1
  <2>3. pos[a] \in 1..i - 1 /\ q[a] = pos[a]
    BY <1>2, <1>3, <2>2
  <2>4. CASE b = m + 1
    BY <1>3, <2>3, <2>4
  <2>5. CASE b \in 1..m
    BY <1>1, <1>3, <2>1, <2>2, <2>5
  <2> QED
    BY <1>4, <2>4, <2>5
<1> QED
  <2>1. Enumerates(q, m + 1, P \cup {i})
    BY <1>5, <1>6, <1>7 DEF Enumerates
  <2>2. OneMore(q, pos, m, P, i)
    BY <1>3, <2>1, Zenon DEF OneMore
  <2> QED
    BY <2>2

(* h holds the members of v at the positions T, in their order.            *)
PickedFrom(h, pos, S, v, T) ==
  /\ h \in Seq(S)
  /\ Enumerates(pos, Len(h), {i \in 1..Len(v) : i \in T})
  /\ \A k \in 1..Len(h) : h[k] = v[pos[k]]

(* A list joined of some members of a sequence holds them in its order.    *)
LEMMA Picked ==
  ASSUME NEW S, NEW v \in Seq(S), NEW T, NEW l,
         l = [i \in 1..Len(v) |-> IF i \in T THEN <<v[i]>> ELSE << >>]
  PROVE  \E h, pos : h = FlattenSeq(l) /\ PickedFrom(h, pos, S, v, T)
<1>1. PICK n \in Nat : n = Len(v) /\ 0 \in Int /\ n \in Int
  OBVIOUS
<1>2. \A i \in 1..n : v[i] \in S /\ l[i] = IF i \in T THEN <<v[i]>> ELSE << >>
  BY <1>1
<1>3. l \in Seq(Seq(S)) /\ Len(l) = n
  <2>1. \A i \in 1..n : (IF i \in T THEN <<v[i]>> ELSE << >>) \in Seq(S)
    BY <1>2, SeqOne, SeqNone
  <2>2. l \in [1..n -> Seq(S)]
    BY <1>1, <2>1
  <2> QED
    BY <2>2
<1>4. PICK f \in [0..n -> Seq(S)] :
         /\ f[0] = << >> /\ FlattenSeq(l) = f[n]
         /\ \A i \in 1..n : f[i] = f[i - 1] \o l[i]
  <2>1. \E f \in [0..Len(l) -> Seq(S)] :
          /\ f[0] = << >>
          /\ \A i \in 1..Len(l) : f[i] = f[i - 1] \o l[i]
          /\ FlattenSeq(l) = f[Len(l)]
    BY <1>3, Flattened, Zenon
  <2> QED
    BY <1>3, <2>1, Zenon
<1> DEFINE Part(i) == {j \in 1..i : j \in T}
           Good(i) == \E pos : /\ Enumerates(pos, Len(f[i]), Part(i))
                               /\ \A k \in 1..Len(f[i]) : f[i][k] = v[pos[k]]
           Q == {i \in 0..n : Good(i)}
<1>5. \A i \in 0..n : (\A j \in 0..i - 1 : j \in Q) => i \in Q
  <2> TAKE i \in 0..n
  <2>1. HAVE \A j \in 0..i - 1 : j \in Q
  <2>2. CASE i = 0
    <3>1. Part(0) = {} /\ Len(f[0]) = 0 /\ 1..0 = {}
      BY <1>4
    <3> DEFINE e == [k \in {} |-> 0]
    <3>2. Enumerates(e, 0, {})
      BY DEF Enumerates
    <3> HIDE DEF e
    <3> QED
      BY <2>2, <3>1, <3>2
  <2>3. CASE i # 0
    <3>1. i - 1 \in 0..i - 1 /\ i \in 1..n /\ i - 1 \in 0..n /\ i \in Nat
      BY <2>3
    <3>2. PICK pos : /\ Enumerates(pos, Len(f[i - 1]), Part(i - 1))
                     /\ \A k \in 1..Len(f[i - 1]) : f[i - 1][k] = v[pos[k]]
      BY <2>1, <3>1
    <3>3. PICK g : g = f[i - 1] /\ g \in Seq(S) /\ Len(g) \in Nat
      BY <3>1
    <3>4. CASE i \in T
      <4>1. f[i] = g \o <<v[i]>>
        BY <1>2, <1>4, <3>1, <3>3, <3>4, Zenon
      <4>2. /\ Len(f[i]) = Len(g) + 1 /\ f[i][Len(g) + 1] = v[i]
            /\ \A k \in 1..Len(g) : f[i][k] = g[k]
        <5>1. PICK x \in S : x = v[i]
          BY <1>2, <3>1
        <5> QED
          BY <3>3, <4>1, <5>1
      <4>3. Part(i) = Part(i - 1) \cup {i} /\ Part(i - 1) \subseteq 1..i - 1
        BY <3>1, <3>4
      <4>4. PICK q : /\ Enumerates(q, Len(g) + 1, Part(i - 1) \cup {i})
                     /\ q[Len(g) + 1] = i
                     /\ \A k \in 1..Len(g) : q[k] = pos[k]
        <5>1. PICK m, P : m = Len(g) /\ P = Part(i - 1) /\ m \in Nat
          BY <3>3
        <5>2. Enumerates(pos, m, P) /\ P \subseteq 1..i - 1
          BY <3>2, <3>3, <4>3, <5>1, Zenon
        <5>3. PICK q : OneMore(q, pos, m, P, i)
          BY <3>1, <5>1, <5>2, EnumeratesMore, Zenon
        <5>4. /\ Enumerates(q, m + 1, P \cup {i})
              /\ q[m + 1] = i
              /\ \A k \in 1..m : q[k] = pos[k]
          BY <5>3, Zenon DEF OneMore
        <5> QED
          BY <5>1, <5>4, Zenon
      <4>5. \A k \in 1..Len(f[i]) : f[i][k] = v[q[k]]
        <5> TAKE k \in 1..Len(f[i])
        <5>1. k = Len(g) + 1 \/ k \in 1..Len(g)
          BY <3>3, <4>2
        <5> QED
          BY <3>2, <3>3, <4>2, <4>4, <5>1, Zenon
      <4>6. Good(i)
        BY <4>2, <4>3, <4>4, <4>5, Zenon
      <4> QED
        BY <4>6
    <3>5. CASE i \notin T
      <4>1. f[i] = g
        <5>1. f[i] = g \o << >>
          BY <1>2, <1>4, <3>1, <3>3, <3>5, Zenon
        <5> QED
          BY <3>3, <5>1
      <4>2. Part(i) = Part(i - 1)
        BY <3>1, <3>5
      <4>3. Good(i)
        BY <3>2, <3>3, <4>1, <4>2, Zenon
      <4> QED
        BY <4>3
    <3> QED
      BY <3>4, <3>5
  <2> QED
    BY <2>2, <2>3
<1> HIDE DEF Q
<1>6. \A i \in 0..n : i \in Q
  BY ONLY <1>1, <1>5, RangeUp
<1>7. Good(n)
  <2>1. n \in Q
    BY <1>6
  <2> HIDE DEF Good
  <2> QED
    BY <2>1 DEF Q
<1>8. f[n] \in Seq(S)
  BY <1>4
<1>9. PICK pos : /\ Enumerates(pos, Len(f[n]), Part(n))
                 /\ \A k \in 1..Len(f[n]) : f[n][k] = v[pos[k]]
  BY <1>7, Zenon
<1>10. Part(n) = {i \in 1..Len(v) : i \in T}
  BY <1>1, Zenon
<1> HIDE DEF Part, Good
<1>11. PICK h : h = f[n]
  OBVIOUS
<1>12. h = FlattenSeq(l) /\ PickedFrom(h, pos, S, v, T)
  <2>1. h = FlattenSeq(l) /\ h \in Seq(S)
    BY <1>4, <1>8, <1>11, Zenon
  <2>2. Enumerates(pos, Len(h), {i \in 1..Len(v) : i \in T})
    BY <1>9, <1>10, <1>11, Zenon
  <2>3. \A k \in 1..Len(h) : h[k] = v[pos[k]]
    BY <1>9, <1>11
  <2> QED
    BY <2>1, <2>2, <2>3, Zenon DEF PickedFrom
<1> QED
  BY <1>12

-----------------------------------------------------------------------------
(* The text of an entry: a letter is copied, a burst of CRs and LFs is      *)
(* held back until the letter behind it comes.                             *)
Burst == [text : Seq(Nat), cr : Nat, lf : Nat, truncated : BOOLEAN]
NoBurst == [text |-> << >>, cr |-> 0, lf |-> 0, truncated |-> FALSE]
Want(b, newlines) == IF newlines THEN Newlines(b) ELSE 0
Lfs(k) == [i \in 1..k |-> LF]

(* The text once the letter c came, if nothing is cut, and what is held     *)
(* back then.                                                              *)
WholeText(b, c, newlines) ==
  IF c \in {CR, LF} THEN b.text
  ELSE IF c = NUL THEN b.text \o Lfs(Want(b, newlines))
  ELSE Append(b.text \o Lfs(Want(b, newlines)), c)
NextCr(b, c) == IF c = CR THEN b.cr + 1 ELSE IF c = LF THEN b.cr ELSE 0
NextLf(b, c) == IF c = LF THEN b.lf + 1 ELSE IF c = CR THEN b.lf ELSE 0

(* A burst stands for a number of LFs.                                     *)
LEMMA WantNat ==
  ASSUME NEW b \in Burst, NEW newlines \in BOOLEAN
  PROVE  Want(b, newlines) \in Nat /\ Want(b, newlines) <= Newlines(b)
         /\ Newlines(b) = IF b.cr >= b.lf THEN b.cr ELSE b.lf
<1>1. b.cr \in Nat /\ b.lf \in Nat
  BY DEF Burst
<1>2. Newlines(b) = IF b.cr >= b.lf THEN b.cr ELSE b.lf
  <2>1. PICK x \in Nat, y \in Nat : x = b.cr /\ y = b.lf
    BY <1>1
  <2>2. Max({x, y}) = IF x >= y THEN x ELSE y
    BY MaxTwo
  <2> QED
    BY <2>1, <2>2, Zenon DEF Newlines
<1> QED
  BY <1>1, <1>2 DEF Want

(* A text of LFs.                                                          *)
LEMMA LfText ==
  ASSUME NEW k \in Int
  PROVE  /\ Lfs(k) \in Seq(Nat)
         /\ Len(Lfs(k)) = IF k >= 0 THEN k ELSE 0
         /\ \A i \in 1..Len(Lfs(k)) : Lfs(k)[i] = LF
<1>1. LF \in Nat
  BY DEF LF
<1>2. CASE k >= 0
  <2>1. k \in Nat
    BY <1>2
  <2>2. Lfs(k) \in Seq(Nat) /\ Len(Lfs(k)) = k
    BY <1>1, <2>1 DEF Lfs
  <2>3. \A i \in 1..k : Lfs(k)[i] = LF
    BY DEF Lfs
  <2> QED
    BY <1>2, <2>2, <2>3
<1>3. CASE ~(k >= 0)
  <2>1. 1..k = {}
    BY <1>3
  <2>2. Lfs(k) = [i \in {} |-> LF]
    BY <2>1, Zenon DEF Lfs
  <2>3. [i \in {} |-> LF] = << >>
    OBVIOUS
  <2>4. Lfs(k) = << >>
    BY <2>2, <2>3, Zenon
  <2> QED
    BY <1>3, <2>4
<1> QED
  BY <1>2, <1>3

(* A text with LFs behind it.                                              *)
LEMMA WithLfs ==
  ASSUME NEW t \in Seq(Nat), NEW k \in Int
  PROVE  \E u \in Seq(Nat) :
           /\ u = t \o Lfs(k)
           /\ Len(u) = Len(t) + IF k >= 0 THEN k ELSE 0
           /\ \A i \in 1..Len(t) : u[i] = t[i]
           /\ \A i \in Len(t) + 1..Len(u) : u[i] = LF
<1>1. PICK s \in Seq(Nat) : s = Lfs(k)
  BY LfText, Zenon
<1>2. Len(s) = (IF k >= 0 THEN k ELSE 0) /\ \A i \in 1..Len(s) : s[i] = LF
  BY <1>1, LfText, Zenon
<1>3. PICK u : u = t \o s
  OBVIOUS
<1>4. /\ u \in Seq(Nat) /\ Len(u) = Len(t) + Len(s)
      /\ \A i \in 1..Len(t) : u[i] = t[i]
      /\ \A i \in 1..Len(s) : u[Len(t) + i] = s[i]
  <2>1. Two(t, s)
    BY DEF Two
  <2> QED
    BY ONLY <1>3, <2>1, Joined
<1>5. \A i \in Len(t) + 1..Len(u) : u[i] = LF
  <2> TAKE i \in Len(t) + 1..Len(u)
  <2>1. PICK m \in Nat, n \in Nat : m = Len(t) /\ n = Len(s)
    OBVIOUS
  <2>2. i - m \in 1..n /\ m + (i - m) = i
    BY <1>4, <2>1
  <2> QED
    BY <1>2, <1>4, <2>1, <2>2, Zenon
<1> QED
  BY <1>1, <1>2, <1>3, <1>4, <1>5, Zenon

(* A burst by its parts.                                                   *)
Made(r, text, cr, lf, truncated) ==
  r \in Burst /\ r.text = text /\ r.cr = cr /\ r.lf = lf /\ (r.truncated <=> truncated)

(* What CopyChar makes of a letter, with k of the w LFs that the burst     *)
(* stands for.                                                             *)
Copied(r, b, c, a, w, k, t) ==
  /\ k = IF w <= a - Len(b.text) THEN w ELSE a - Len(b.text)
  /\ t = b.text \o Lfs(k)
  /\ c = CR => Made(r, b.text, b.cr + 1, b.lf, FALSE)
  /\ c = LF => Made(r, b.text, b.cr, b.lf + 1, FALSE)
  /\ c = NUL => Made(r, t, 0, 0, k < w)
  /\ c \notin {CR, LF, NUL}
       => IF Len(t) = a THEN Made(r, t, 0, 0, TRUE) ELSE Made(r, Append(t, c), 0, 0, k < w)

(* A burst with some of its parts replaced.                                *)
LEMMA PartsExcept ==
  ASSUME NEW b \in Burst
  PROVE  /\ \A x \in Nat : Made([b EXCEPT !.cr = x], b.text, x, b.lf, b.truncated)
         /\ \A x \in Nat : Made([b EXCEPT !.lf = x], b.text, b.cr, x, b.truncated)
         /\ \A t \in Seq(Nat) : Made([b EXCEPT !.text = t], t, b.cr, b.lf, b.truncated)
         /\ \A x \in BOOLEAN : Made([b EXCEPT !.truncated = x], b.text, b.cr, b.lf, x)
BY DEF Burst, Made

(* An emptied one.                                                         *)
LEMMA Emptied ==
  ASSUME NEW b \in Burst, NEW t \in Seq(Nat), NEW x \in BOOLEAN
  PROVE  Made([b EXCEPT !.text = t, !.cr = 0, !.lf = 0, !.truncated = x], t, 0, 0, x)
BY DEF Burst, Made

(* The cases of CopyChar.                                                  *)
LEMMA CopyCases ==
  ASSUME NEW b \in Burst, ~b.truncated, NEW c \in Nat, NEW a \in Nat, NEW newlines \in BOOLEAN
  PROVE  \E k \in Int, t \in Seq(Nat) :
           Copied(CopyChar(b, c, a, newlines), b, c, a, Want(b, newlines), k, t)
<1>1. PICK w \in Nat : w = Want(b, newlines)
  BY WantNat
<1>2. PICK L \in Nat : L = Len(b.text)
  BY DEF Burst
<1>3. PICK k \in Int : /\ k = IF w <= a - L THEN w ELSE a - L
                       /\ k = Min({Want(b, newlines), a - Len(b.text)})
  <2>1. Min({w, a - L}) = IF w <= a - L THEN w ELSE a - L
    BY MinTwo
  <2> QED
    BY <1>1, <1>2, <2>1
<1>4. PICK t \in Seq(Nat) : t = b.text \o Lfs(k)
  <2>1. PICK s \in Seq(Nat) : s = b.text
    BY DEF Burst
  <2> QED
    BY <2>1, WithLfs
<1> DEFINE Flush(t1, k1) == [b EXCEPT !.text = t1, !.cr = 0, !.lf = 0,
                                      !.truncated = k1 < Want(b, newlines)]
           K == Min({Want(b, newlines), a - Len(b.text)})
           T == b.text \o Lfs(K)
           r == CopyChar(b, c, a, newlines)
<1>5. PICK flush : flush = Flush(t, k)
  OBVIOUS
<1>6. r = CASE c = CR  -> [b EXCEPT !.cr = b.cr + 1]
            [] c = LF  -> [b EXCEPT !.lf = b.lf + 1]
            [] c = NUL -> flush
            [] OTHER   -> IF Len(t) = a THEN [flush EXCEPT !.truncated = TRUE]
                          ELSE [flush EXCEPT !.text = Append(flush.text, c)]
  <2>1. r = IF b.truncated THEN b
            ELSE CASE c = CR  -> [b EXCEPT !.cr = @ + 1]
                   [] c = LF  -> [b EXCEPT !.lf = @ + 1]
                   [] c = NUL -> Flush(T, K)
                   [] OTHER   -> IF Len(T) = a THEN [Flush(T, K) EXCEPT !.truncated = TRUE]
                                 ELSE [Flush(T, K) EXCEPT !.text = Append(@, c)]
    BY Zenon DEF CopyChar, Lfs, Want
  <2>2. t = T /\ k = K
    BY <1>3, <1>4, Zenon
  <2> HIDE DEF Flush, T, K, r
  <2> QED
    BY <1>5, <2>1, <2>2, Zenon
<1>7. Made(flush, t, 0, 0, k < w)
  <2>1. /\ Made([b EXCEPT !.text = t, !.cr = 0, !.lf = 0, !.truncated = TRUE], t, 0, 0, TRUE)
        /\ Made([b EXCEPT !.text = t, !.cr = 0, !.lf = 0, !.truncated = FALSE], t, 0, 0, FALSE)
    BY Emptied
  <2>2. flush = [b EXCEPT !.text = t, !.cr = 0, !.lf = 0, !.truncated = k < w]
    BY <1>1, <1>5, Zenon
  <2>3. \/ (k < w) /\ (k < w) = TRUE
        \/ ~(k < w) /\ (k < w) = FALSE
    OBVIOUS
  <2>4. CASE (k < w) /\ (k < w) = TRUE
    <3>1. Made(flush, t, 0, 0, TRUE)
      BY <2>1, <2>2, <2>4, Zenon
    <3> QED
      BY <2>4, <3>1, Zenon DEF Made
  <2>5. CASE ~(k < w) /\ (k < w) = FALSE
    <3>1. Made(flush, t, 0, 0, FALSE)
      BY <2>1, <2>2, <2>5, Zenon
    <3> QED
      BY <2>5, <3>1, Zenon DEF Made
  <2> QED
    BY <2>3, <2>4, <2>5, Zenon
<1> HIDE DEF Flush, T, K
<1>8. flush \in Burst /\ flush.text = t
  BY <1>7 DEF Made
<1>9. b.cr + 1 \in Nat /\ b.lf + 1 \in Nat /\ Append(t, c) \in Seq(Nat)
  BY DEF Burst
<1>10. CR # LF /\ CR # NUL /\ LF # NUL
  BY DEF CR, LF, NUL
<1>11. c = CR => Made(r, b.text, b.cr + 1, b.lf, FALSE)
  <2>1. ASSUME c = CR PROVE r = [b EXCEPT !.cr = b.cr + 1]
    BY <1>6, <1>10, <2>1, Zenon
  <2>2. Made([b EXCEPT !.cr = b.cr + 1], b.text, b.cr + 1, b.lf, b.truncated)
    BY <1>9, PartsExcept
  <2> QED
    BY <2>1, <2>2, Zenon DEF Made
<1>12. c = LF => Made(r, b.text, b.cr, b.lf + 1, FALSE)
  <2>1. ASSUME c = LF PROVE r = [b EXCEPT !.lf = b.lf + 1]
    BY <1>6, <1>10, <2>1, Zenon
  <2>2. Made([b EXCEPT !.lf = b.lf + 1], b.text, b.cr, b.lf + 1, b.truncated)
    BY <1>9, PartsExcept
  <2> QED
    BY <2>1, <2>2, Zenon DEF Made
<1>13. c = NUL => Made(r, t, 0, 0, k < w)
  <2>1. ASSUME c = NUL PROVE r = flush
    BY <1>6, <1>10, <2>1, Zenon
  <2> QED
    BY <1>7, <2>1, Zenon
<1>14. ASSUME c \notin {CR, LF, NUL}
       PROVE  IF Len(t) = a THEN Made(r, t, 0, 0, TRUE) ELSE Made(r, Append(t, c), 0, 0, k < w)
  <2>1. r = IF Len(t) = a THEN [flush EXCEPT !.truncated = TRUE]
            ELSE [flush EXCEPT !.text = Append(flush.text, c)]
    BY <1>6, <1>14, Zenon
  <2>2. CASE Len(t) = a
    <3>1. Made([flush EXCEPT !.truncated = TRUE], flush.text, flush.cr, flush.lf, TRUE)
      BY <1>8, PartsExcept
    <3> QED
      BY <1>7, <2>1, <2>2, <3>1, Zenon DEF Made
  <2>3. CASE Len(t) # a
    <3>1. Made([flush EXCEPT !.text = Append(t, c)], Append(t, c), flush.cr, flush.lf,
               flush.truncated)
      BY <1>8, <1>9, PartsExcept
    <3>2. r = [flush EXCEPT !.text = Append(t, c)]
      BY <1>8, <2>1, <2>3, Zenon
    <3> QED
      BY <1>7, <2>3, <3>1, <3>2, Zenon DEF Made
  <2> QED
    BY <2>2, <2>3
<1> HIDE DEF r
<1>15. Copied(r, b, c, a, w, k, t)
  BY <1>2, <1>3, <1>4, <1>11, <1>12, <1>13, <1>14, Zenon DEF Copied
<1> QED
  BY <1>1, <1>15, Zenon DEF r

(* One text begins with another.                                           *)
Begins(t, u) == Len(t) <= Len(u) /\ \A i \in 1..Len(t) : u[i] = t[i]

(* A beginning by its length.                                              *)
LEMMA BeginningIs ==
  ASSUME NEW t \in Seq(Nat), NEW u \in Seq(Nat), Begins(t, u)
  PROVE  t = SubSeq(u, 1, Len(t))
<1>1. PICK n \in Nat : n = Len(t)
  OBVIOUS
<1>2. PICK s : s = SubSeq(u, 1, n)
  OBVIOUS
<1>3. s \in Seq(Nat) /\ Len(s) = n /\ \A i \in 1..n : s[i] = u[i]
  BY <1>1, <1>2 DEF Begins
<1>4. \A i \in 1..n : s[i] = t[i]
  BY <1>1, <1>3 DEF Begins
<1> QED
  BY <1>1, <1>2, <1>3, <1>4, SeqEqual

(* The same text with fewer LFs behind it.                                 *)
LEMMA FewerLfs ==
  ASSUME NEW t \in Seq(Nat), NEW k \in Int, NEW w \in Nat, k <= w
  PROVE  /\ t \o Lfs(k) \in Seq(Nat) /\ t \o Lfs(w) \in Seq(Nat)
         /\ Len(t \o Lfs(k)) = Len(t) + (IF k >= 0 THEN k ELSE 0)
         /\ Len(t \o Lfs(w)) = Len(t) + w
         /\ Begins(t \o Lfs(k), t \o Lfs(w)) /\ Begins(t, t \o Lfs(w))
<1>1. PICK u \in Seq(Nat) : /\ u = t \o Lfs(k)
                            /\ Len(u) = Len(t) + IF k >= 0 THEN k ELSE 0
                            /\ \A i \in 1..Len(t) : u[i] = t[i]
                            /\ \A i \in Len(t) + 1..Len(u) : u[i] = LF
  BY WithLfs
<1>2. PICK v \in Seq(Nat) : /\ v = t \o Lfs(w)
                            /\ Len(v) = Len(t) + w
                            /\ \A i \in 1..Len(t) : v[i] = t[i]
                            /\ \A i \in Len(t) + 1..Len(v) : v[i] = LF
  <2>1. w \in Int /\ (IF w >= 0 THEN w ELSE 0) = w
    OBVIOUS
  <2>2. \E v \in Seq(Nat) : /\ v = t \o Lfs(w)
                            /\ Len(v) = Len(t) + IF w >= 0 THEN w ELSE 0
                            /\ \A i \in 1..Len(t) : v[i] = t[i]
                            /\ \A i \in Len(t) + 1..Len(v) : v[i] = LF
    BY <2>1, WithLfs, Zenon
  <2> QED
    BY <2>1, <2>2, Zenon
<1>3. PICK L \in Nat : L = Len(t)
  OBVIOUS
<1>4. Len(u) \in Nat /\ Len(v) \in Nat /\ Len(u) <= Len(v)
  BY <1>1, <1>2, <1>3
<1>5. \A i \in 1..Len(u) : v[i] = u[i]
  <2> TAKE i \in 1..Len(u)
  <2>1. \/ i \in 1..Len(t)
        \/ i \in Len(t) + 1..Len(u) /\ i \in Len(t) + 1..Len(v)
    BY <1>3, <1>4
  <2> QED
    BY <1>1, <1>2, <2>1, Zenon
<1>6. Begins(u, v) /\ Begins(t, v)
  BY <1>2, <1>3, <1>4, <1>5 DEF Begins
<1> QED
  BY <1>1, <1>2, <1>6, Zenon

(* One more letter.                                                        *)
LEMMA Appended ==
  ASSUME NEW u \in Seq(Nat), NEW c \in Nat
  PROVE  /\ Append(u, c) \in Seq(Nat) /\ Len(Append(u, c)) = Len(u) + 1
         /\ Append(u, c)[Len(u) + 1] = c
         /\ Begins(u, Append(u, c))
BY DEF Begins

(* A beginning of a beginning is one.                                      *)
LEMMA BeginsTwice ==
  ASSUME NEW t \in Seq(Nat), NEW u \in Seq(Nat), NEW v \in Seq(Nat), Begins(t, u), Begins(u, v)
  PROVE  Begins(t, v)
<1>1. Len(t) \in Nat /\ Len(u) \in Nat /\ Len(v) \in Nat
  OBVIOUS
<1>2. /\ Len(t) <= Len(u) /\ Len(u) <= Len(v)
      /\ \A i \in 1..Len(t) : u[i] = t[i]
      /\ \A i \in 1..Len(u) : v[i] = u[i]
  BY DEF Begins
<1>3. \A i \in 1..Len(t) : i \in 1..Len(u)
  BY <1>1, <1>2
<1>4. Len(t) <= Len(v)
  BY <1>1, <1>2
<1> QED
  BY <1>2, <1>3, <1>4 DEF Begins

(* What the text becomes when nothing is cut begins with what it was.      *)
LEMMA WholeFacts ==
  ASSUME NEW b \in Burst, NEW c \in Nat, NEW newlines \in BOOLEAN
  PROVE  /\ WholeText(b, c, newlines) \in Seq(Nat)
         /\ Begins(b.text, WholeText(b, c, newlines))
         /\ Len(WholeText(b, c, newlines)) <= Len(b.text) + Newlines(b) + 1
         /\ c \in {CR, LF} => WholeText(b, c, newlines) = b.text
         /\ c = NUL => Len(WholeText(b, c, newlines)) <= Len(b.text) + Newlines(b)
         /\ (\A j \in 1..Len(b.text) : b.text[j] # CR)
              => \A j \in 1..Len(WholeText(b, c, newlines)) : WholeText(b, c, newlines)[j] # CR
<1>1. PICK t \in Seq(Nat) : t = b.text
  BY DEF Burst
<1>2. PICK w \in Nat : w = Want(b, newlines) /\ w <= Newlines(b) /\ Newlines(b) \in Nat
  <2>1. Newlines(b) \in Nat
    BY WantNat DEF Burst
  <2> QED
    BY <2>1, WantNat
<1>3. PICK u : u = t \o Lfs(w)
  OBVIOUS
<1>4. u \in Seq(Nat) /\ Len(u) = Len(t) + w /\ Begins(t, u)
  <2>1. w \in Int /\ w <= w
    OBVIOUS
  <2> QED
    BY <1>3, <2>1, FewerLfs, Zenon
<1>5. /\ Append(u, c) \in Seq(Nat) /\ Len(Append(u, c)) = Len(u) + 1
      /\ Begins(u, Append(u, c)) /\ Append(u, c)[Len(u) + 1] = c
  BY <1>4, Appended
<1>12. CR # LF /\ CR # NUL
  BY DEF CR, LF, NUL
<1>13. (\A j \in 1..Len(t) : t[j] # CR) => \A j \in 1..Len(u) : u[j] # CR
  <2> SUFFICES ASSUME \A j \in 1..Len(t) : t[j] # CR, NEW j \in 1..Len(u) PROVE u[j] # CR
    OBVIOUS
  <2>1. PICK x \in Seq(Nat) : /\ x = t \o Lfs(w)
                              /\ \A i \in 1..Len(t) : x[i] = t[i]
                              /\ \A i \in Len(t) + 1..Len(x) : x[i] = LF
    <3>1. w \in Int
      OBVIOUS
    <3> QED
      BY <3>1, WithLfs
  <2>2. x = u
    BY <1>3, <2>1, Zenon
  <2>3. j \in 1..Len(t) \/ j \in Len(t) + 1..Len(x)
    BY <1>4, <2>2
  <2> QED
    BY <1>12, <2>1, <2>2, <2>3, Zenon
<1>14. ASSUME c # CR, \A j \in 1..Len(t) : t[j] # CR
       PROVE  \A j \in 1..Len(Append(u, c)) : Append(u, c)[j] # CR
  <2> TAKE j \in 1..Len(Append(u, c))
  <2>1. j = Len(u) + 1 \/ j \in 1..Len(u)
    BY <1>4, <1>5
  <2>2. \A i \in 1..Len(u) : u[i] # CR /\ Append(u, c)[i] = u[i]
    BY <1>5, <1>13, <1>14, Zenon DEF Begins
  <2> QED
    BY <1>5, <1>14, <2>1, <2>2, Zenon
<1>6. Begins(t, Append(u, c))
  BY <1>4, <1>5, BeginsTwice
<1>7. Len(t) \in Nat /\ Len(u) \in Nat
  BY <1>4
<1>8. Begins(t, t)
  BY <1>7 DEF Begins
<1>9. CASE c \in {CR, LF}
  <2>1. WholeText(b, c, newlines) = t
    BY <1>1, <1>9, Zenon DEF WholeText
  <2>2. Len(t) <= Len(t) + Newlines(b) + 1
    BY <1>2, <1>7
  <2>3. c # NUL
    BY <1>9 DEF NUL, LF, CR
  <2> QED
    BY <1>1, <1>8, <1>9, <2>1, <2>2, <2>3, Zenon
<1>10. CASE c \notin {CR, LF} /\ c = NUL
  <2>1. WholeText(b, c, newlines) = u
    BY <1>1, <1>2, <1>3, <1>10, Zenon DEF WholeText
  <2>2. Len(u) <= Len(t) + Newlines(b) /\ Len(u) <= Len(t) + Newlines(b) + 1
    BY <1>2, <1>4, <1>7
  <2> QED
    BY <1>1, <1>4, <1>10, <1>13, <2>1, <2>2, Zenon
<1>11. CASE c \notin {CR, LF} /\ c # NUL
  <2>1. WholeText(b, c, newlines) = Append(u, c)
    BY <1>1, <1>2, <1>3, <1>11, Zenon DEF WholeText
  <2>2. Len(Append(u, c)) <= Len(t) + Newlines(b) + 1
    BY <1>2, <1>4, <1>5, <1>7
  <2> QED
    BY <1>1, <1>5, <1>6, <1>11, <1>14, <2>1, <2>2, Zenon
<1> QED
  BY <1>9, <1>10, <1>11

(* r is what becomes of b by the letter c, which made its text W: W if      *)
(* that fits, or what fits of it.                                          *)
Fits(r, b, c, a, W) ==
  IF Len(W) <= a THEN Made(r, W, NextCr(b, c), NextLf(b, c), FALSE)
  ELSE r \in Burst /\ r.truncated /\ r.text = SubSeq(W, 1, a)

(* And that is what CopyChar does.                                         *)
LEMMA CopyFits ==
  ASSUME NEW b \in Burst, ~b.truncated, NEW c \in Nat, NEW a \in Nat, Len(b.text) <= a,
         NEW newlines \in BOOLEAN
  PROVE  Fits(CopyChar(b, c, a, newlines), b, c, a, WholeText(b, c, newlines))
<1>1. PICK r : r = CopyChar(b, c, a, newlines)
  OBVIOUS
<1>2. PICK w \in Nat : w = Want(b, newlines)
  BY WantNat
<1>3. PICK k \in Int, t \in Seq(Nat) : Copied(r, b, c, a, w, k, t)
  BY <1>1, <1>2, CopyCases, Zenon
<1>4. PICK s \in Seq(Nat), L \in Nat : s = b.text /\ L = Len(s) /\ L <= a
  BY DEF Burst
<1>5. k = (IF w <= a - L THEN w ELSE a - L) /\ t = s \o Lfs(k)
  BY <1>3, <1>4, Zenon DEF Copied
<1>6. k <= w /\ k >= 0 /\ L + k <= a /\ (L + w >= a => L + k = a) /\ (L + w <= a => k = w)
      /\ (L + w > a => k < w)
  <2>1. k = IF w <= a - L THEN w ELSE a - L
    BY <1>5
  <2>2. L \in Nat /\ L <= a /\ a \in Nat /\ w \in Nat
    BY <1>4
  <2> QED
    BY ONLY <2>1, <2>2
<1>7. PICK u : u = s \o Lfs(w)
  OBVIOUS
<1>8. /\ u \in Seq(Nat) /\ Len(u) = L + w /\ Begins(t, u) /\ Len(t) = L + k
  <2>1. /\ s \o Lfs(w) \in Seq(Nat)
        /\ Len(s \o Lfs(k)) = Len(s) + (IF k >= 0 THEN k ELSE 0)
        /\ Len(s \o Lfs(w)) = Len(s) + w
        /\ Begins(s \o Lfs(k), s \o Lfs(w))
    BY <1>6, FewerLfs
  <2>2. (IF k >= 0 THEN k ELSE 0) = k
    BY <1>6
  <2> QED
    BY <1>4, <1>5, <1>7, <2>1, <2>2, Zenon
<1>9. CR # LF /\ CR # NUL /\ LF # NUL
  BY DEF CR, LF, NUL
<1>10. CASE c \in {CR, LF}
  <2>1. WholeText(b, c, newlines) = s
    BY <1>4, <1>10, Zenon DEF WholeText
  <2>2. Made(r, s, NextCr(b, c), NextLf(b, c), FALSE)
    <3>1. CASE c = CR
      BY <1>3, <1>4, <1>9, <3>1, Zenon DEF Copied, NextCr, NextLf
    <3>2. CASE c = LF
      BY <1>3, <1>4, <1>9, <3>2, Zenon DEF Copied, NextCr, NextLf
    <3> QED
      BY <1>10, <3>1, <3>2
  <2> QED
    BY <1>1, <1>4, <2>1, <2>2, Zenon DEF Fits
<1>11. ASSUME c \notin {CR, LF}
       PROVE  NextCr(b, c) = 0 /\ NextLf(b, c) = 0
  BY <1>11, Zenon DEF NextCr, NextLf
<1>12. CASE c = NUL
  <2>1. c \notin {CR, LF} /\ WholeText(b, c, newlines) = u
    BY <1>2, <1>4, <1>7, <1>9, <1>12, Zenon DEF WholeText
  <2>2. Made(r, t, 0, 0, k < w)
    BY <1>3, <1>12, Zenon DEF Copied
  <2>3. CASE L + w <= a
    <3>1. t = u /\ ~(k < w)
      <4>1. k = w
        BY <1>6, <2>3
      <4>2. t = u
        BY <1>5, <1>7, <4>1, Zenon
      <4> QED
        BY <4>1, <4>2
    <3>2. Made(r, u, 0, 0, FALSE)
      BY <2>2, <3>1, Zenon DEF Made
    <3>3. Len(u) <= a
      BY <1>8, <2>3
    <3> QED
      BY <1>1, <1>11, <2>1, <3>2, <3>3, Zenon DEF Fits
  <2>4. CASE ~(L + w <= a)
    <3>1. k < w /\ Len(t) = a /\ ~(Len(u) <= a)
      BY <1>4, <1>6, <1>8, <2>4
    <3>2. t = SubSeq(u, 1, a)
      BY <1>8, <3>1, BeginningIs
    <3> QED
      BY <1>1, <2>1, <2>2, <3>1, <3>2, Zenon DEF Fits, Made
  <2> QED
    BY <2>3, <2>4
<1>13. CASE c \notin {CR, LF, NUL}
  <2>1. PICK W : W = Append(u, c)
    OBVIOUS
  <2>2. W \in Seq(Nat) /\ Len(W) = L + w + 1 /\ Begins(u, W)
    <3>1. /\ Append(u, c) \in Seq(Nat) /\ Len(Append(u, c)) = Len(u) + 1
          /\ Begins(u, Append(u, c))
      BY <1>8, Appended
    <3> QED
      BY <1>8, <2>1, <3>1, Zenon
  <2>3. c \notin {CR, LF} /\ WholeText(b, c, newlines) = W
    BY <1>2, <1>4, <1>7, <1>13, <2>1, Zenon DEF WholeText
  <2>4. IF Len(t) = a THEN Made(r, t, 0, 0, TRUE) ELSE Made(r, Append(t, c), 0, 0, k < w)
    BY <1>3, <1>13, Zenon DEF Copied
  <2>5. CASE L + w + 1 <= a
    <3>0. L + w <= a
      BY <1>4, <2>5
    <3>1. t = u /\ ~(k < w) /\ Len(t) # a /\ Len(W) <= a
      <4>1. k = w
        BY <1>6, <3>0
      <4>2. t = u
        BY <1>5, <1>7, <4>1, Zenon
      <4>3. ~(k < w) /\ Len(t) # a
        BY <1>4, <1>8, <2>5, <4>1
      <4> QED
        BY <2>2, <2>5, <4>2, <4>3
    <3>2. Made(r, W, 0, 0, FALSE)
      BY <2>1, <2>4, <3>1, Zenon DEF Made
    <3> QED
      BY <1>1, <1>11, <2>3, <3>1, <3>2, Zenon DEF Fits
  <2>6. CASE ~(L + w + 1 <= a)
    <3>1. Len(t) = a /\ ~(Len(W) <= a)
      BY <1>4, <1>6, <1>8, <2>2, <2>6
    <3>2. Begins(t, W)
      BY <1>8, <2>2, BeginsTwice
    <3>3. t = SubSeq(W, 1, a)
      BY <2>2, <3>1, <3>2, BeginningIs
    <3> QED
      BY <1>1, <2>3, <2>4, <3>1, <3>3, Zenon DEF Fits, Made
  <2> QED
    BY <2>5, <2>6
<1> QED
  BY <1>10, <1>12, <1>13

(* What it makes of a burst is a burst.                                    *)
LEMMA CopyTyped ==
  ASSUME NEW b \in Burst, NEW c \in Nat, NEW a \in Nat, NEW newlines \in BOOLEAN
  PROVE  /\ CopyChar(b, c, a, newlines) \in Burst
         /\ b.truncated => CopyChar(b, c, a, newlines) = b
<1>1. PICK r : r = CopyChar(b, c, a, newlines)
  OBVIOUS
<1>2. CASE b.truncated
  BY <1>2, Zenon DEF CopyChar
<1>3. CASE ~b.truncated
  <2>1. PICK k \in Int, t \in Seq(Nat) : Copied(r, b, c, a, Want(b, newlines), k, t)
    BY <1>1, <1>3, CopyCases, Zenon
  <2>2. c = CR \/ c = LF \/ c = NUL \/ c \notin {CR, LF, NUL}
    OBVIOUS
  <2>3. r \in Burst
    BY <2>1, <2>2, Zenon DEF Copied, Made
  <2> QED
    BY <1>1, <1>3, <2>3, Zenon
<1> QED
  BY <1>2, <1>3

(* f copies the letters L one after the other into a buffer for a of them.  *)
CopyRun(f, L, a, newlines) ==
  /\ f \in [0..Len(L) -> Burst]
  /\ f[0] = NoBurst
  /\ \A i \in 1..Len(L) : f[i] = CopyChar(f[i - 1], L[i], a, newlines)

(* f yields what EntryString returns.                                      *)
CopiedBy(f, L, e, max, newlines) ==
  /\ CopyRun(f, L, max - 1, newlines)
  /\ EntryString(e, max, newlines).text = f[Len(L)].text
  /\ EntryString(e, max, newlines).result = "Truncated" <=> f[Len(L)].truncated

(* EntryString copies the value and the NUL behind it.                     *)
LEMMA EntryCopied ==
  ASSUME NEW e, NEW L \in Seq(Nat), L = Append(e.value, NUL), NEW max \in Nat \ {0},
         NEW newlines \in BOOLEAN
  PROVE  \E f : CopiedBy(f, L, e, max, newlines)
<1>1. PICK n \in Nat : n = Len(L) /\ n \in Int /\ 0 \in Int
  OBVIOUS
<1>2. \A i \in 1..n : L[i] \in Nat
  BY <1>1
<1>3. PICK a \in Nat : a = max - 1
  OBVIOUS
<1>4. NoBurst \in Burst
  <2>1. << >> \in Seq(Nat)
    OBVIOUS
  <2> QED
    BY <2>1 DEF NoBurst, Burst
<1> DEFINE D == [0..n -> Burst]
           Next1(g, i) == IF i = 0 THEN NoBurst ELSE CopyChar(g[i - 1], L[i], a, newlines)
           G == [g \in D |-> [i \in 0..n |-> Next1(g, i)]]
<1>5. \A g \in D, i \in 0..n : Next1(g, i) \in Burst
  <2> TAKE g \in D, i \in 0..n
  <2>1. CASE i = 0
    BY <1>4, <2>1
  <2>2. CASE i # 0
    <3>1. i - 1 \in 0..n /\ i \in 1..n
      BY <2>2
    <3>2. g[i - 1] \in Burst /\ L[i] \in Nat
      BY <1>2, <3>1
    <3>3. CopyChar(g[i - 1], L[i], a, newlines) \in Burst
      BY <3>2, CopyTyped
    <3> QED
      BY <2>2, <3>3
  <2> QED
    BY <2>1, <2>2
<1>6. \A p \in 0..n : \A g, h \in D :
        (\A q \in 0..p - 1 : g[q] = h[q]) => Next1(g, p) = Next1(h, p)
  <2> TAKE p \in 0..n
  <2> TAKE g, h \in D
  <2>1. HAVE \A q \in 0..p - 1 : g[q] = h[q]
  <2>2. CASE p = 0
    BY <2>2
  <2>3. CASE p # 0
    <3>1. p - 1 \in 0..p - 1
      BY <2>3
    <3>2. g[p - 1] = h[p - 1]
      BY <2>1, <3>1
    <3> QED
      BY <3>2, Zenon
  <2> QED
    BY <2>2, <2>3
<1>7. PICK h \in D : h = [i \in 0..n |-> Next1(h, i)]
  <2> HIDE DEF Next1
  <2>1. StepUp(G, 0, n, Burst)
    BY <1>5, <1>6 DEF StepUp
  <2>2. \E h \in [0..n -> Burst] : h = G[h]
    <3>1. Burst # {}
      BY <1>4
    <3> HIDE DEF G, D
    <3> QED
      BY <1>1, <2>1, <3>1, FunctionUp
  <2> QED
    BY <2>2
<1> DEFINE letters == Append(e.value, NUL)
           f == CHOOSE f : f = [i \in 0..Len(letters) |->
                  IF i = 0 THEN [text |-> << >>, cr |-> 0, lf |-> 0, truncated |-> FALSE]
                  ELSE CopyChar(f[i - 1], letters[i], max - 1, newlines)]
<1>8. f = [i \in 0..Len(letters) |->
            IF i = 0 THEN [text |-> << >>, cr |-> 0, lf |-> 0, truncated |-> FALSE]
            ELSE CopyChar(f[i - 1], letters[i], max - 1, newlines)]
  <2>1. h = [i \in 0..Len(letters) |->
              IF i = 0 THEN [text |-> << >>, cr |-> 0, lf |-> 0, truncated |-> FALSE]
              ELSE CopyChar(h[i - 1], letters[i], max - 1, newlines)]
    BY <1>1, <1>3, <1>7, Zenon DEF NoBurst
  <2> QED
    BY <2>1, Zenon
<1>9. EntryString(e, max, newlines) =
        [text |-> f[Len(letters)].text,
         result |-> IF f[Len(letters)].truncated THEN "Truncated"
                    ELSE IF f[Len(letters)].text = << >> THEN "Empty" ELSE "Success"]
  BY Zenon DEF EntryString
<1>10. letters = L
  OBVIOUS
<1> HIDE DEF f, letters
<1>11. f = [i \in 0..n |-> Next1(f, i)]
  BY <1>1, <1>3, <1>8, <1>10, Zenon DEF NoBurst
<1>12. \A i \in 0..n : f[i] \in Burst
  <2> DEFINE Q == {i \in 0..n : f[i] \in Burst}
  <2>1. \A p \in 0..n : (\A q \in 0..p - 1 : q \in Q) => p \in Q
    <3> TAKE p \in 0..n
    <3>1. HAVE \A q \in 0..p - 1 : q \in Q
    <3>2. CASE p = 0
      BY <1>4, <1>11, <3>2
    <3>3. CASE p # 0
      <4>1. p - 1 \in 0..p - 1 /\ p \in 1..n
        BY <3>3
      <4>2. f[p - 1] \in Burst /\ L[p] \in Nat
        BY <1>2, <3>1, <4>1
      <4>3. CopyChar(f[p - 1], L[p], a, newlines) \in Burst
        BY <4>2, CopyTyped
      <4> QED
        BY <1>11, <3>3, <4>3
    <3> QED
      BY <3>2, <3>3
  <2> HIDE DEF Q
  <2>2. \A p \in 0..n : p \in Q
    BY ONLY <1>1, <2>1, RangeUp
  <2> QED
    BY <2>2 DEF Q
<1>13. \A i \in 0..n : f[i] = Next1(f, i)
  BY <1>11
<1>14. f \in [0..n -> Burst]
  BY <1>11, <1>12
<1>15. f[0] = NoBurst /\ \A i \in 1..n : f[i] = CopyChar(f[i - 1], L[i], a, newlines)
  <2>1. 0 \in 0..n /\ \A i \in 1..n : i \in 0..n /\ i # 0
    BY <1>1
  <2> QED
    BY <1>13, <2>1, Zenon
<1>16. CopyRun(f, L, max - 1, newlines)
  BY <1>1, <1>3, <1>14, <1>15, Zenon DEF CopyRun
<1>17. /\ EntryString(e, max, newlines).text = f[Len(L)].text
       /\ EntryString(e, max, newlines).result = "Truncated" <=> f[Len(L)].truncated
  BY <1>9, <1>10
<1> QED
  BY <1>16, <1>17, Zenon DEF CopiedBy

(* Two bursts that are made alike are the same.                            *)
LEMMA MadeAlike ==
  ASSUME NEW r, NEW s, NEW t, NEW x, NEW y, Made(r, t, x, y, FALSE), Made(s, t, x, y, FALSE)
  PROVE  r = s
BY DEF Made, Burst

(* A beginning of two texts one of which begins with the other.            *)
LEMMA SameBeginning ==
  ASSUME NEW t \in Seq(Nat), NEW u \in Seq(Nat), Begins(t, u), NEW a \in Nat, a <= Len(t)
  PROVE  SubSeq(u, 1, a) = SubSeq(t, 1, a)
<1>1. PICK x, y : x = SubSeq(u, 1, a) /\ y = SubSeq(t, 1, a)
  OBVIOUS
<1>2. x \in Seq(Nat) /\ Len(x) = a /\ \A i \in 1..a : x[i] = u[i]
  <2>1. Len(t) \in Nat /\ Len(u) \in Nat /\ Len(t) <= Len(u)
    BY DEF Begins
  <2>2. a \in 0..Len(u)
    BY <2>1
  <2> QED
    BY <1>1, <2>2, Beginning, Zenon
<1>3. y \in Seq(Nat) /\ Len(y) = a /\ \A i \in 1..a : y[i] = t[i]
  <2>1. a \in 0..Len(t)
    OBVIOUS
  <2> QED
    BY <1>1, <2>1, Beginning, Zenon
<1>4. \A i \in 1..a : x[i] = y[i]
  <2> TAKE i \in 1..a
  <2>1. i \in 1..Len(t)
    OBVIOUS
  <2> QED
    BY <1>2, <1>3, <2>1 DEF Begins
<1> QED
  BY <1>1, <1>2, <1>3, <1>4, SeqEqual

(* One step of a run.                                                      *)
CopyStep(f, L, a, newlines, i) ==
  /\ f[i - 1] \in Burst /\ f[i] \in Burst /\ L[i] \in Nat
  /\ f[i - 1].truncated => f[i] = f[i - 1]
  /\ ~f[i - 1].truncated /\ Len(f[i - 1].text) <= a
       => Fits(f[i], f[i - 1], L[i], a, WholeText(f[i - 1], L[i], newlines))

(* Each step of a run is one.                                              *)
LEMMA RunStep ==
  ASSUME NEW L \in Seq(Nat), NEW a \in Nat, NEW newlines \in BOOLEAN, NEW f,
         CopyRun(f, L, a, newlines), NEW i \in 1..Len(L)
  PROVE  CopyStep(f, L, a, newlines, i)
<1>1. i - 1 \in 0..Len(L) /\ i \in 0..Len(L)
  OBVIOUS
<1>2. /\ f[i - 1] \in Burst /\ f[i] \in Burst /\ L[i] \in Nat
      /\ f[i] = CopyChar(f[i - 1], L[i], a, newlines)
  <2>1. f \in [0..Len(L) -> Burst]
    BY DEF CopyRun
  <2>2. f[i - 1] \in Burst /\ f[i] \in Burst
    BY <1>1, <2>1, Zenon
  <2>3. L[i] \in Nat
    OBVIOUS
  <2>4. f[i] = CopyChar(f[i - 1], L[i], a, newlines)
    BY Zenon DEF CopyRun
  <2> QED
    BY <2>2, <2>3, <2>4
<1>3. f[i - 1].truncated => f[i] = f[i - 1]
  BY <1>2, CopyTyped
<1>4. ASSUME ~f[i - 1].truncated, Len(f[i - 1].text) <= a
      PROVE  Fits(f[i], f[i - 1], L[i], a, WholeText(f[i - 1], L[i], newlines))
  <2>1. Fits(CopyChar(f[i - 1], L[i], a, newlines), f[i - 1], L[i], a,
             WholeText(f[i - 1], L[i], newlines))
    BY <1>2, <1>4, CopyFits
  <2> QED
    BY <1>2, <2>1, Zenon
<1> QED
  BY <1>2, <1>3, <1>4, Zenon DEF CopyStep

(* The larger of two counts ...                                            *)
Larger(x, y) == IF x >= y THEN x ELSE y

(* ... grows by one at most when each grows by one at most.                *)
LEMMA LargerGrows ==
  ASSUME NEW x \in Nat, NEW y \in Nat, NEW x2 \in Nat, NEW y2 \in Nat,
         x2 \in {x, x + 1}, y2 \in {y, y + 1}
  PROVE  Larger(x2, y2) <= Larger(x, y) + 1 /\ Larger(x2, y2) \in Nat
BY DEF Larger

(* What a burst may still become after i letters.                          *)
Roomy(b, i, a) ==
  /\ b \in Burst /\ ~b.truncated /\ Len(b.text) <= a
  /\ \A j \in 1..Len(b.text) : b.text[j] # CR
  /\ i <= a => Len(b.text) + Newlines(b) <= i

(* A buffer as long as the value: nothing is cut, and no CR comes through.  *)
LEMMA WholeRun ==
  ASSUME NEW v \in Seq(Nat), Plain(v), NEW L \in Seq(Nat), L = Append(v, NUL),
         NEW newlines \in BOOLEAN, NEW f, CopyRun(f, L, Len(v), newlines)
  PROVE  \A i \in 0..Len(L) : Roomy(f[i], i, Len(v))
<1>1. PICK a \in Nat, n \in Nat : a = Len(v) /\ n = Len(L) /\ n = a + 1 /\ n \in Int /\ 0 \in Int
  OBVIOUS
<1>2. L[n] = NUL /\ \A i \in 1..a : L[i] = v[i] /\ L[i] # NUL
  BY <1>1 DEF Plain
<1> DEFINE Q == {i \in 0..n : Roomy(f[i], i, a)}
<1>3. \A i \in 0..n : (\A j \in 0..i - 1 : j \in Q) => i \in Q
  <2> TAKE i \in 0..n
  <2>1. HAVE \A j \in 0..i - 1 : j \in Q
  <2>2. CASE i = 0
    <3>1. f[0] = NoBurst
      BY DEF CopyRun
    <3>2. NoBurst \in Burst /\ NoBurst.text = << >> /\ ~NoBurst.truncated /\ Newlines(NoBurst) = 0
      <4>1. << >> \in Seq(Nat)
        OBVIOUS
      <4>2. NoBurst \in Burst /\ NoBurst.cr = 0 /\ NoBurst.lf = 0
        BY <4>1 DEF NoBurst, Burst
      <4>3. Newlines(NoBurst) = 0
        BY <4>2, WantNat
      <4> QED
        BY <4>2, <4>3 DEF NoBurst
    <3>3. Roomy(NoBurst, 0, a)
      BY <3>2 DEF Roomy
    <3> QED
      BY <2>2, <3>1, <3>3
  <2>3. CASE i # 0
    <3>1. i - 1 \in 0..i - 1 /\ i \in 1..n /\ i - 1 <= a /\ i \in 1..Len(L) /\ i \in Nat
      BY <1>1, <2>3
    <3>2. PICK b, c, W : b = f[i - 1] /\ c = L[i] /\ W = WholeText(b, c, newlines)
      OBVIOUS
    <3>3. Roomy(b, i - 1, a)
      <4>1. i - 1 \in Q
        BY <2>1, <3>1
      <4> QED
        BY <3>2, <4>1
    <3>4. /\ b \in Burst /\ ~b.truncated /\ Len(b.text) <= a
          /\ \A j \in 1..Len(b.text) : b.text[j] # CR
          /\ Len(b.text) + Newlines(b) <= i - 1
          /\ Len(b.text) \in Nat /\ Newlines(b) \in Nat
      <4>1. /\ b \in Burst /\ ~b.truncated /\ Len(b.text) <= a
            /\ \A j \in 1..Len(b.text) : b.text[j] # CR
            /\ Len(b.text) + Newlines(b) <= i - 1
        BY <3>1, <3>3 DEF Roomy
      <4>2. Len(b.text) \in Nat /\ b.cr \in Nat /\ b.lf \in Nat
        BY <4>1 DEF Burst
      <4>3. Newlines(b) = IF b.cr >= b.lf THEN b.cr ELSE b.lf
        BY <4>1, WantNat, Zenon
      <4>4. Newlines(b) \in Nat
        BY <4>2, <4>3
      <4> QED
        BY <4>1, <4>2, <4>4
    <3>5. f[i] \in Burst /\ c \in Nat /\ Fits(f[i], b, c, a, W)
      <4>1. CopyRun(f, L, a, newlines)
        BY <1>1, Zenon
      <4>2. /\ f[i] \in Burst /\ L[i] \in Nat
            /\ ~f[i - 1].truncated /\ Len(f[i - 1].text) <= a
                 => Fits(f[i], f[i - 1], L[i], a, WholeText(f[i - 1], L[i], newlines))
        <5>1. CopyStep(f, L, a, newlines, i)
          BY <1>1, <3>1, <4>1, RunStep, Zenon
        <5> QED
          BY <5>1, Zenon DEF CopyStep
      <4> QED
        BY <3>2, <3>4, <4>2, Zenon
    <3>6. /\ W \in Seq(Nat) /\ Len(W) \in Nat
          /\ Len(W) <= Len(b.text) + Newlines(b) + 1
          /\ c \in {CR, LF} => W = b.text
          /\ c = NUL => Len(W) <= Len(b.text) + Newlines(b)
          /\ \A j \in 1..Len(W) : W[j] # CR
      <4>1. /\ WholeText(b, c, newlines) \in Seq(Nat)
            /\ Len(WholeText(b, c, newlines)) <= Len(b.text) + Newlines(b) + 1
            /\ c \in {CR, LF} => WholeText(b, c, newlines) = b.text
            /\ c = NUL => Len(WholeText(b, c, newlines)) <= Len(b.text) + Newlines(b)
            /\ (\A j \in 1..Len(b.text) : b.text[j] # CR)
                 => \A j \in 1..Len(WholeText(b, c, newlines)) : WholeText(b, c, newlines)[j] # CR
        BY ONLY <3>4, <3>5, newlines \in BOOLEAN, WholeFacts
      <4>2. W \in Seq(Nat)
        BY <3>2, <4>1, Zenon
      <4>3. Len(W) \in Nat
        BY <4>2
      <4> QED
        BY <3>2, <3>4, <4>1, <4>2, <4>3, Zenon
    <3>7. CR # LF /\ CR # NUL /\ LF # NUL
      BY DEF CR, LF, NUL
    <3>8. Len(W) <= a
      <4>1. CASE c \in {CR, LF}
        BY <3>4, <3>6, <4>1
      <4>2. CASE i <= a
        BY <3>4, <3>6, <4>2
      <4>3. CASE i = n
        <5>1. c = NUL
          BY <1>2, <3>2, <4>3
        <5> QED
          BY <3>1, <3>4, <3>6, <5>1
      <4>4. i <= a \/ i = n
        BY <1>1, <3>1
      <4> QED
        BY <4>2, <4>3, <4>4
    <3>9. Made(f[i], W, NextCr(b, c), NextLf(b, c), FALSE)
      BY <3>5, <3>8, Zenon DEF Fits
    <3>10. /\ f[i] \in Burst /\ ~f[i].truncated /\ f[i].text = W
           /\ f[i].cr = NextCr(b, c) /\ f[i].lf = NextLf(b, c)
      BY <3>9, Zenon DEF Made
    <3>11. i <= a => Len(W) + Newlines(f[i]) <= i
      <4> SUFFICES ASSUME i <= a PROVE Len(W) + Newlines(f[i]) <= i
        OBVIOUS
      <4>1. c # NUL
        BY <1>2, <3>1, <3>2
      <4>2. Newlines(f[i]) = IF f[i].cr >= f[i].lf THEN f[i].cr ELSE f[i].lf
        BY <3>10, WantNat
      <4>3. Newlines(b) = (IF b.cr >= b.lf THEN b.cr ELSE b.lf) /\ b.cr \in Nat /\ b.lf \in Nat
        <5>1. Newlines(b) = IF b.cr >= b.lf THEN b.cr ELSE b.lf
          BY <3>4, WantNat, Zenon
        <5>2. b.cr \in Nat /\ b.lf \in Nat
          BY <3>4 DEF Burst
        <5> QED
          BY <5>1, <5>2
      <4>4. CASE c \in {CR, LF}
        <5>1. PICK x \in Nat, y \in Nat : x = b.cr /\ y = b.lf
          BY <4>3
        <5>2. PICK x2 \in Nat, y2 \in Nat : /\ x2 = f[i].cr /\ y2 = f[i].lf
                                            /\ x2 \in {x, x + 1} /\ y2 \in {y, y + 1}
          <6>1. CASE c = CR
            BY <3>7, <3>10, <5>1, <6>1 DEF NextCr, NextLf
          <6>2. CASE c = LF
            BY <3>7, <3>10, <5>1, <6>2 DEF NextCr, NextLf
          <6> QED
            BY <4>4, <6>1, <6>2, Zenon
        <5>3. Newlines(f[i]) = Larger(x2, y2) /\ Newlines(b) = Larger(x, y)
          BY <4>2, <4>3, <5>1, <5>2, Zenon DEF Larger
        <5>4. Larger(x2, y2) <= Larger(x, y) + 1 /\ Larger(x2, y2) \in Nat
          BY <5>2, LargerGrows, Zenon
        <5>5. Newlines(f[i]) <= Newlines(b) + 1
          BY <5>3, <5>4, Zenon
        <5>6. Newlines(f[i]) \in Nat
          BY <5>3, <5>4, Zenon
        <5>7. W = b.text
          BY <3>6, <4>4, Zenon
        <5> QED
          BY <3>1, <3>4, <5>5, <5>6, <5>7
      <4>5. CASE c \notin {CR, LF}
        <5>1. f[i].cr = 0 /\ f[i].lf = 0
          BY <3>10, <4>5, Zenon DEF NextCr, NextLf
        <5>2. Newlines(f[i]) = 0
          BY <4>2, <5>1, Zenon
        <5>3. PICK w \in Nat, l \in Nat, k \in Nat :
                /\ w = Len(W) /\ l = Len(b.text) /\ k = Newlines(b)
                /\ w <= l + k + 1 /\ l + k <= i - 1
          BY <3>4, <3>6, Zenon
        <5>4. w <= i
          BY <3>1, <5>3
        <5> QED
          BY <5>2, <5>3, <5>4
      <4> QED
        BY <4>4, <4>5
    <3>12. Roomy(f[i], i, a)
      BY <3>6, <3>8, <3>10, <3>11, Zenon DEF Roomy
    <3> QED
      BY <3>12
  <2> QED
    BY <2>2, <2>3
<1> HIDE DEF Q
<1>4. \A i \in 0..n : i \in Q
  BY ONLY <1>1, <1>3, RangeUp
<1> QED
  BY <1>1, <1>4 DEF Q

(* A burst of a buffer for a letters, beside the burst that nothing cuts.  *)
Trails(c, b, a) ==
  IF c.truncated THEN a < Len(b.text) /\ c.text = SubSeq(b.text, 1, a)
  ELSE c = b /\ Len(b.text) <= a

(* One letter later it still is.                                           *)
LEMMA TrailStep ==
  ASSUME NEW b \in Burst, ~b.truncated, NEW d \in Burst, NEW x \in Nat, NEW newlines \in BOOLEAN,
         NEW A \in Nat, Len(b.text) <= A, NEW a \in Nat,
         NEW b2 \in Burst, ~b2.truncated, Fits(b2, b, x, A, WholeText(b, x, newlines)),
         NEW d2 \in Burst, d.truncated => d2 = d,
         ~d.truncated /\ Len(d.text) <= a => Fits(d2, d, x, a, WholeText(d, x, newlines)),
         Trails(d, b, a)
  PROVE  Trails(d2, b2, a)
<1>1. PICK W : W = WholeText(b, x, newlines)
  OBVIOUS
<1>2. W \in Seq(Nat) /\ Begins(b.text, W) /\ Len(W) \in Nat
  <2>1. WholeText(b, x, newlines) \in Seq(Nat) /\ Begins(b.text, WholeText(b, x, newlines))
    BY WholeFacts
  <2>2. W \in Seq(Nat) /\ Begins(b.text, W)
    BY <1>1, <2>1, Zenon
  <2> QED
    BY <2>2
<1>3. Made(b2, W, NextCr(b, x), NextLf(b, x), FALSE)
  BY <1>1, Zenon DEF Fits
<1>4. b2.text = W
  BY <1>3, Zenon DEF Made
<1>5. CASE d.truncated
  <2>1. a < Len(b.text) /\ d.text = SubSeq(b.text, 1, a) /\ d2 = d
    BY <1>5, Zenon DEF Trails
  <2>2. b.text \in Seq(Nat) /\ Len(b.text) \in Nat
    BY DEF Burst
  <2>3. a <= Len(b.text) /\ a < Len(W)
    <3>1. Len(b.text) <= Len(W)
      BY <1>2, Zenon DEF Begins
    <3>2. PICK l \in Nat, k \in Nat : l = Len(b.text) /\ k = Len(W)
      BY <1>2, <2>2, Zenon
    <3>3. a < l /\ l <= k
      BY <2>1, <3>1, <3>2, Zenon
    <3>4. a <= l /\ a < k
      BY ONLY <3>3, a \in Nat, l \in Nat, k \in Nat
    <3> QED
      BY <3>2, <3>4, Zenon
  <2>4. SubSeq(W, 1, a) = SubSeq(b.text, 1, a)
    BY <1>2, <2>2, <2>3, SameBeginning
  <2> QED
    BY <1>4, <1>5, <2>1, <2>3, <2>4, Zenon DEF Trails
<1>6. CASE ~d.truncated
  <2>1. d = b /\ Len(b.text) <= a
    BY <1>6, Zenon DEF Trails
  <2>2. Fits(d2, b, x, a, W)
    BY <1>1, <1>6, <2>1, Zenon
  <2>3. CASE Len(W) <= a
    <3>1. Made(d2, W, NextCr(b, x), NextLf(b, x), FALSE)
      BY <2>2, <2>3, Zenon DEF Fits
    <3>2. d2 = b2
      BY <1>3, <3>1, MadeAlike, Zenon
    <3> QED
      BY <1>4, <2>3, <3>2, Zenon DEF Trails
  <2>4. CASE ~(Len(W) <= a)
    <3>1. d2.truncated /\ d2.text = SubSeq(W, 1, a)
      BY <2>2, <2>4, Zenon DEF Fits
    <3>2. a < Len(W)
      BY <1>2, <2>4
    <3> QED
      BY <1>4, <3>1, <3>2, Zenon DEF Trails
  <2> QED
    BY <2>3, <2>4
<1> QED
  BY <1>5, <1>6

(* A buffer of any size beside one that cuts nothing.                      *)
LEMMA CutRun ==
  ASSUME NEW L \in Seq(Nat), NEW newlines \in BOOLEAN, NEW A \in Nat, NEW f,
         CopyRun(f, L, A, newlines), \A i \in 0..Len(L) : Roomy(f[i], i, A),
         NEW a \in Nat, NEW g, CopyRun(g, L, a, newlines)
  PROVE  \A i \in 0..Len(L) : Trails(g[i], f[i], a)
<1>1. PICK n \in Nat : n = Len(L) /\ n \in Int /\ 0 \in Int
  OBVIOUS
<1> DEFINE Q == {i \in 0..n : Trails(g[i], f[i], a)}
<1>2. \A i \in 0..n : (\A j \in 0..i - 1 : j \in Q) => i \in Q
  <2> TAKE i \in 0..n
  <2>1. HAVE \A j \in 0..i - 1 : j \in Q
  <2>2. CASE i = 0
    <3>1. f[0] = NoBurst /\ g[0] = NoBurst
      BY Zenon DEF CopyRun
    <3>2. ~NoBurst.truncated /\ Len(NoBurst.text) <= a
      BY DEF NoBurst
    <3>3. Trails(g[i], f[i], a)
      BY <2>2, <3>1, <3>2, Zenon DEF Trails
    <3> QED
      BY <3>3
  <2>3. CASE i # 0
    <3>1. i - 1 \in 0..i - 1 /\ i \in 1..Len(L) /\ i - 1 \in 0..Len(L) /\ i \in 0..Len(L)
      BY <1>1, <2>3
    <3>2. Trails(g[i - 1], f[i - 1], a)
      BY <2>1, <3>1, Zenon
    <3>3. /\ f[i - 1] \in Burst /\ f[i] \in Burst /\ L[i] \in Nat
          /\ ~f[i - 1].truncated /\ Len(f[i - 1].text) <= A
               => Fits(f[i], f[i - 1], L[i], A, WholeText(f[i - 1], L[i], newlines))
      <4>1. CopyStep(f, L, A, newlines, i)
        BY <3>1, RunStep, Zenon
      <4> QED
        BY <4>1, Zenon DEF CopyStep
    <3>4. /\ g[i - 1] \in Burst /\ g[i] \in Burst
          /\ g[i - 1].truncated => g[i] = g[i - 1]
          /\ ~g[i - 1].truncated /\ Len(g[i - 1].text) <= a
               => Fits(g[i], g[i - 1], L[i], a, WholeText(g[i - 1], L[i], newlines))
      <4>1. CopyStep(g, L, a, newlines, i)
        BY <3>1, RunStep, Zenon
      <4> QED
        BY <4>1, Zenon DEF CopyStep
    <3>5. ~f[i - 1].truncated /\ Len(f[i - 1].text) <= A /\ ~f[i].truncated
      BY <3>1, Zenon DEF Roomy
    <3>6. Fits(f[i], f[i - 1], L[i], A, WholeText(f[i - 1], L[i], newlines))
      BY <3>3, <3>5, Zenon
    <3>7. Trails(g[i], f[i], a)
      <4>1. PICK b, b2, d, d2, x : b = f[i - 1] /\ b2 = f[i] /\ d = g[i - 1] /\ d2 = g[i] /\ x = L[i]
        OBVIOUS
      <4>2. /\ b \in Burst /\ b2 \in Burst /\ x \in Nat /\ d \in Burst /\ d2 \in Burst
            /\ ~b.truncated /\ Len(b.text) <= A /\ ~b2.truncated
            /\ Fits(b2, b, x, A, WholeText(b, x, newlines))
        BY <3>3, <3>4, <3>5, <3>6, <4>1, Zenon
      <4>3. /\ d.truncated => d2 = d
            /\ ~d.truncated /\ Len(d.text) <= a => Fits(d2, d, x, a, WholeText(d, x, newlines))
            /\ Trails(d, b, a)
        BY <3>2, <3>4, <4>1, Zenon
      <4>4. Trails(d2, b2, a)
        BY ONLY <4>2, <4>3, TrailStep, newlines \in BOOLEAN, A \in Nat, a \in Nat
      <4> QED
        BY <4>1, <4>4, Zenon
    <3> QED
      BY <3>7
  <2> QED
    BY <2>2, <2>3
<1> HIDE DEF Q
<1>3. \A i \in 0..n : i \in Q
  BY ONLY <1>1, <1>2, RangeUp
<1> QED
  BY <1>1, <1>3 DEF Q

(* The text of e is cut off at the size of the buffer, and not at all      *)
(* where that has room for n letters.                                      *)
CutOff(e, n) ==
  LET whole == EntryString(e, n + 1, TRUE)
  IN  /\ whole.result # "Truncated"
      /\ whole.text \in Seq(Nat) /\ CR \notin ToSet(whole.text)
      /\ \A max \in 1..n + 1 :
           LET cut == EntryString(e, max, TRUE)
           IN  /\ cut.text = Fit(whole.text, max)
               /\ (cut.result = "Truncated") = (cut.text # whole.text)

(* So it is where the buffer has the size that cgiFormStringSpaceNeeded    *)
(* names.                                                                  *)
LEMMA EntryCut ==
  ASSUME NEW e, NEW v \in Seq(Nat), v = e.value, Plain(v)
  PROVE  CutOff(e, Len(v))
<1>1. PICK n \in Nat : n = Len(v)
  OBVIOUS
<1>2. NUL \in Nat
  BY DEF NUL
<1>3. PICK L \in Seq(Nat) : L = Append(v, NUL) /\ L = Append(e.value, NUL) /\ Len(L) = n + 1
  <2>1. Append(v, NUL) \in Seq(Nat) /\ Len(Append(v, NUL)) = n + 1
    BY <1>1, <1>2
  <2> QED
    BY <2>1, Zenon
<1>4. PICK whole : whole = EntryString(e, n + 1, TRUE)
  OBVIOUS
<1>5. PICK f : /\ CopyRun(f, L, n, TRUE)
               /\ whole.text = f[n + 1].text
               /\ whole.result = "Truncated" <=> f[n + 1].truncated
  <2>1. n + 1 \in Nat \ {0} /\ (n + 1) - 1 = n /\ TRUE \in BOOLEAN
    OBVIOUS
  <2>2. \E f : CopiedBy(f, L, e, n + 1, TRUE)
    BY <1>3, <2>1, EntryCopied, Zenon
  <2> QED
    BY <1>3, <1>4, <2>1, <2>2, Zenon DEF CopiedBy
<1>6. \A i \in 0..Len(L) : Roomy(f[i], i, n)
  <2>1. CopyRun(f, L, Len(v), TRUE) /\ TRUE \in BOOLEAN
    BY <1>1, <1>5, Zenon
  <2>2. \A i \in 0..Len(L) : Roomy(f[i], i, Len(v))
    BY ONLY <1>3, <2>1, WholeRun, v \in Seq(Nat), Plain(v)
  <2> QED
    BY <1>1, <2>2, Zenon
<1>7. PICK t : t = whole.text
  OBVIOUS
<1>8. /\ t = f[n + 1].text /\ t \in Seq(Nat) /\ Len(t) \in Nat /\ ~f[n + 1].truncated
      /\ \A j \in 1..Len(t) : t[j] # CR
  <2>1. n + 1 \in 0..Len(L)
    BY <1>3
  <2>2. Roomy(f[n + 1], n + 1, n)
    BY <1>6, <2>1, Zenon
  <2>3. t = f[n + 1].text /\ f[n + 1] \in Burst
    BY <1>5, <1>7, <2>2, Zenon DEF Roomy
  <2>4. t \in Seq(Nat)
    BY <2>3 DEF Burst
  <2>5. Len(t) \in Nat
    BY <2>4
  <2> QED
    BY <2>2, <2>3, <2>4, <2>5, Zenon DEF Roomy
<1>9. CR \notin ToSet(t)
  <2>1. DOMAIN t = 1..Len(t)
    BY <1>8
  <2> QED
    BY <1>8, <2>1, Zenon DEF ToSet
<1>10. ASSUME NEW max \in 1..n + 1, NEW cut, cut = EntryString(e, max, TRUE)
       PROVE  cut.text = Fit(t, max) /\ (cut.result = "Truncated") = (cut.text # t)
  <2>1. max \in Nat \ {0} /\ max - 1 \in Nat /\ TRUE \in BOOLEAN
    OBVIOUS
  <2>2. PICK g : /\ CopyRun(g, L, max - 1, TRUE)
                 /\ EntryString(e, max, TRUE).text = g[Len(L)].text
                 /\ EntryString(e, max, TRUE).result = "Truncated" <=> g[Len(L)].truncated
    BY <1>3, <2>1, EntryCopied, Zenon DEF CopiedBy
  <2>3. Len(L) \in 0..Len(L)
    BY <1>3
  <2>4. \A i \in 0..Len(L) : Trails(g[i], f[i], max - 1)
    BY ONLY <1>1, <1>3, <1>5, <1>6, <2>1, <2>2, CutRun
  <2>5. Trails(g[n + 1], f[n + 1], max - 1)
    BY <1>3, <2>3, <2>4, Zenon
  <2>6. /\ cut.text = g[n + 1].text
        /\ cut.result = "Truncated" <=> g[n + 1].truncated
    BY <1>3, <1>10, <2>2, Zenon
  <2>7. Fit(t, max) = SubSeq(t, 1, IF Len(t) <= max - 1 THEN Len(t) ELSE max - 1)
    <3>1. PICK l \in Nat, a \in Nat : l = Len(t) /\ a = max - 1
      BY <1>8, <2>1
    <3>2. Min({l, a}) = IF l <= a THEN l ELSE a
      BY MinTwo
    <3> QED
      BY <3>1, <3>2, Zenon DEF Fit
  <2>8. CASE g[n + 1].truncated
    <3>1. max - 1 < Len(t) /\ g[n + 1].text = SubSeq(t, 1, max - 1)
      BY <1>8, <2>5, <2>8, Zenon DEF Trails
    <3>2. cut.text = Fit(t, max)
      <4>1. ~(Len(t) <= max - 1)
        BY <1>8, <3>1
      <4> QED
        BY <2>6, <2>7, <3>1, <4>1, Zenon
    <3>3. cut.text # t
      <4>1. Len(SubSeq(t, 1, max - 1)) = max - 1
        BY <1>8, <3>1
      <4>2. Len(SubSeq(t, 1, max - 1)) # Len(t)
        BY <3>1, <4>1
      <4> QED
        BY <2>6, <3>1, <4>2, Zenon
    <3> QED
      BY <2>6, <2>8, <3>2, <3>3
  <2>9. CASE ~g[n + 1].truncated
    <3>1. Len(t) <= max - 1 /\ g[n + 1].text = t
      BY <1>8, <2>5, <2>9, Zenon DEF Trails
    <3>2. SubSeq(t, 1, Len(t)) = t
      BY <1>8
    <3>3. cut.text = Fit(t, max)
      BY <2>6, <2>7, <3>1, <3>2, Zenon
    <3> QED
      BY <2>6, <2>9, <3>1, <3>3
  <2> QED
    BY <2>8, <2>9
<1>11. whole.result # "Truncated"
  BY <1>5, <1>8, Zenon
<1>12. \A max \in 1..n + 1 :
         /\ EntryString(e, max, TRUE).text = Fit(t, max)
         /\ (EntryString(e, max, TRUE).result = "Truncated") = (EntryString(e, max, TRUE).text # t)
  BY <1>10, Zenon
<1>13. /\ whole.text \in Seq(Nat) /\ CR \notin ToSet(whole.text)
       /\ \A max \in 1..n + 1 :
            /\ EntryString(e, max, TRUE).text = Fit(whole.text, max)
            /\ (EntryString(e, max, TRUE).result = "Truncated")
                 = (EntryString(e, max, TRUE).text # whole.text)
  BY <1>7, <1>8, <1>9, <1>12, Zenon
<1>14. PICK w : w = EntryString(e, Len(v) + 1, TRUE)
  OBVIOUS
<1>15. w = whole
  BY <1>1, <1>4, <1>14, Zenon
<1>16. /\ w.result # "Truncated" /\ w.text \in Seq(Nat) /\ CR \notin ToSet(w.text)
       /\ \A max \in 1..Len(v) + 1 :
            /\ EntryString(e, max, TRUE).text = Fit(w.text, max)
            /\ (EntryString(e, max, TRUE).result = "Truncated")
                 = (EntryString(e, max, TRUE).text # w.text)
  BY <1>1, <1>11, <1>13, <1>15, Zenon
<1> QED
  BY <1>14, <1>16, Zenon DEF CutOff

(* The positions of the entries of a name.                                 *)
Named(v, name) == {i \in 1..Len(v) : v[i].attr = name}

(* FindFirst returns the entry of that name that is first in the list.     *)
LEMMA FirstFound ==
  ASSUME NEW S, NEW v \in Seq(S), NEW name, Found(v, name)
  PROVE  \E m \in Named(v, name) : First(v, name) = v[m] /\ \A j \in Named(v, name) : m <= j
<1>1. DOMAIN v = 1..Len(v)
  OBVIOUS
<1>2. Named(v, name) # {} /\ Named(v, name) \subseteq Nat
  BY <1>1 DEF Found, Named
<1>3. PICK m \in Named(v, name) : \A j \in Named(v, name) : m <= j
  BY <1>2, LeastNat
<1>4. Min(Named(v, name)) = m
  <2>1. \A x \in Named(v, name) : (\A y \in Named(v, name) : x <= y) => x = m
    BY <1>2, <1>3
  <2> QED
    BY <1>3, <2>1, Zenon DEF Min
<1>5. SelectInSeq(v, LAMBDA e : e.attr = name) = m
  BY <1>2, <1>4, Zenon DEF SelectInSeq, Named
<1> QED
  BY <1>3, <1>5, Zenon DEF First

(* FindNext returns the others, one after the other.                       *)
LEMMA FoundInOrder ==
  ASSUME NEW S, NEW v \in Seq(S), NEW name
  PROVE  \E h, pos : h = Find(v, name) /\ PickedFrom(h, pos, S, v, Named(v, name))
<1> DEFINE T == Named(v, name)
           l == [i \in 1..Len(v) |-> IF i \in T THEN <<v[i]>> ELSE << >>]
<1>1. \E h, pos : h = FlattenSeq(l) /\ PickedFrom(h, pos, S, v, T)
  <2> HIDE DEF T
  <2>1. l = [i \in 1..Len(v) |-> IF i \in T THEN <<v[i]>> ELSE << >>]
    OBVIOUS
  <2> HIDE DEF l
  <2> QED
    BY <2>1, Picked
<1>2. DOMAIN v = 1..Len(v)
  OBVIOUS
<1>3. [i \in DOMAIN v |-> IF v[i].attr = name THEN <<v[i]>> ELSE << >>] = l
  <2>1. \A i \in 1..Len(v) : (i \in T) <=> (v[i].attr = name)
    BY DEF Named
  <2>2. \A i \in 1..Len(v) : (IF v[i].attr = name THEN <<v[i]>> ELSE << >>)
                              = (IF i \in T THEN <<v[i]>> ELSE << >>)
    BY <2>1, Zenon
  <2> QED
    BY <1>2, <2>2, Zenon
<1>4. Find(v, name) = FlattenSeq(l)
  BY <1>3, Zenon DEF Find
<1> QED
  BY <1>1, <1>4, Zenon

(* The first that both know is the same.                                   *)
LEMMA FirstOfAll ==
  ASSUME NEW S, NEW v \in Seq(S), NEW name, Found(v, name)
  PROVE  \E h \in Seq(S) : h = Find(v, name) /\ 1 \in 1..Len(h) /\ h[1] = First(v, name)
<1>1. PICK h, pos : h = Find(v, name) /\ PickedFrom(h, pos, S, v, Named(v, name))
  BY FoundInOrder, Zenon
<1>2. PICK m \in Named(v, name) : First(v, name) = v[m] /\ \A j \in Named(v, name) : m <= j
  BY FirstFound
<1>3. {i \in 1..Len(v) : i \in Named(v, name)} = Named(v, name) /\ Named(v, name) \subseteq Nat
  BY DEF Named
<1>4. PICK P, n : P = Named(v, name) /\ n = Len(h) /\ n \in Nat
  BY <1>1 DEF PickedFrom
<1>5. /\ h \in Seq(S) /\ pos \in [1..n -> P] /\ P \subseteq Nat
      /\ \A j \in P : \E k \in 1..n : pos[k] = j
      /\ \A a, b \in 1..n : a < b => pos[a] < pos[b]
      /\ \A k \in 1..n : h[k] = v[pos[k]]
  BY <1>1, <1>3, <1>4, Zenon DEF PickedFrom, Enumerates
<1>6. PICK k \in 1..n : pos[k] = m
  <2>1. m \in P
    BY <1>2, <1>4, Zenon
  <2>2. \E k \in 1..n : pos[k] = m
    BY <1>5, <2>1, Zenon
  <2> QED
    BY <2>2, Zenon
<1>7. 1 \in 1..n
  BY <1>4, <1>6
<1>8. k = 1
  <2> SUFFICES ASSUME k # 1 PROVE FALSE
    OBVIOUS
  <2>1. 1 < k
    BY <1>6
  <2>2. pos[1] < m /\ pos[1] \in P
    BY <1>5, <1>6, <1>7, <2>1
  <2>3. m <= pos[1] /\ m \in Nat /\ pos[1] \in Nat
    BY <1>2, <1>4, <1>5, <2>2
  <2> QED
    BY <2>2, <2>3
<1>9. h[1] = v[m]
  BY <1>5, <1>6, <1>7, <1>8, Zenon
<1> QED
  BY <1>1, <1>2, <1>4, <1>5, <1>7, <1>9, Zenon

(* A field can be had whole, and what the first of its name and the list of *)
(* them return is the same.                                                *)
LEMMA SpaceEnough ==
  ASSUME NEW v \in Seq(EntryShape), \A i \in 1..Len(v) : PlainEntry(v[i]), NEW name, Found(v, name)
  PROVE  LET space == FormStringSpaceNeeded(v, name)
             whole == FormString(v, name, space)
         IN  /\ whole.result # "Truncated"
             /\ whole.text = FormStringMultiple(v, name)[1]
             /\ CR \notin ToSet(whole.text)
             /\ \A max \in 1..space :
                  LET cut == FormString(v, name, max)
                  IN  /\ cut.text = Fit(whole.text, max)
                      /\ (cut.result = "Truncated") = (cut.text # whole.text)
<1>1. PICK e : e = First(v, name)
  OBVIOUS
<1>2. e \in EntryShape /\ PlainEntry(e)
  <2>1. PICK m \in Named(v, name) : First(v, name) = v[m]
    BY FirstFound
  <2>2. m \in 1..Len(v)
    BY DEF Named
  <2> QED
    BY <1>1, <2>1, <2>2
<1>3. PICK u : u = e.value
  OBVIOUS
<1>4. u \in Seq(Nat) /\ Plain(u)
  BY <1>2, <1>3 DEF EntryShape, PlainEntry
<1>5. FormStringSpaceNeeded(v, name) = Len(u) + 1
  BY <1>1, <1>3, Zenon DEF FormStringSpaceNeeded
<1>6. \A max : FormString(v, name, max) = EntryString(e, max, TRUE)
  BY <1>1, Zenon DEF FormString
<1>7. PICK whole : whole = EntryString(e, Len(u) + 1, TRUE)
  OBVIOUS
<1>8. /\ whole.result # "Truncated" /\ CR \notin ToSet(whole.text)
      /\ \A max \in 1..Len(u) + 1 :
           /\ EntryString(e, max, TRUE).text = Fit(whole.text, max)
           /\ (EntryString(e, max, TRUE).result = "Truncated")
                = (EntryString(e, max, TRUE).text # whole.text)
  <2>1. CutOff(e, Len(u))
    BY <1>3, <1>4, EntryCut, Zenon
  <2> QED
    BY <1>7, <2>1, Zenon DEF CutOff
<1>9. whole.text = FormStringMultiple(v, name)[1]
  <2>1. PICK h \in Seq(EntryShape) : h = Find(v, name) /\ 1 \in 1..Len(h) /\ h[1] = First(v, name)
    BY FirstOfAll
  <2>2. 1 \in DOMAIN h
    BY <2>1
  <2>3. FormStringMultiple(v, name) =
          [i \in DOMAIN h |-> EntryString(h[i], Len(h[i].value) + 1, TRUE).text]
    BY <2>1, Zenon DEF FormStringMultiple
  <2>4. FormStringMultiple(v, name)[1] = EntryString(h[1], Len(h[1].value) + 1, TRUE).text
    BY <2>2, <2>3, Zenon
  <2> QED
    BY <1>1, <1>3, <1>7, <2>1, <2>4, Zenon
<1>10. PICK w : w = FormString(v, name, FormStringSpaceNeeded(v, name))
  OBVIOUS
<1>11. w = whole
  BY <1>5, <1>6, <1>7, <1>10, Zenon
<1>12. /\ w.result # "Truncated" /\ w.text = FormStringMultiple(v, name)[1]
       /\ CR \notin ToSet(w.text)
       /\ \A max \in 1..FormStringSpaceNeeded(v, name) :
            /\ FormString(v, name, max).text = Fit(w.text, max)
            /\ (FormString(v, name, max).result = "Truncated")
                 = (FormString(v, name, max).text # w.text)
  <2>1. w.result # "Truncated" /\ CR \notin ToSet(w.text)
    BY <1>8, <1>11, Zenon
  <2>2. w.text = FormStringMultiple(v, name)[1]
    BY <1>9, <1>11, Zenon
  <2>3. ASSUME NEW max \in 1..FormStringSpaceNeeded(v, name)
        PROVE  /\ FormString(v, name, max).text = Fit(w.text, max)
               /\ (FormString(v, name, max).result = "Truncated")
                    = (FormString(v, name, max).text # w.text)
    <3>1. max \in 1..Len(u) + 1 /\ FormString(v, name, max) = EntryString(e, max, TRUE)
      BY <1>5, <1>6, Zenon
    <3> QED
      BY <1>8, <1>11, <3>1, Zenon
  <2> QED
    BY <2>1, <2>2, <2>3, Zenon
<1> QED
  BY <1>10, <1>12, Zenon

(* f numbers the members of a set.                                         *)
Numbers(f, n, S) ==
  /\ f \in [1..n -> S]
  /\ \A x \in S : \E k \in 1..n : f[k] = x
  /\ \A a, b \in 1..n : f[a] = f[b] => a = b

(* There are as many of them as there are numbers.                         *)
LEMMA Numbered ==
  ASSUME NEW S, NEW n \in Nat, NEW f, Numbers(f, n, S)
  PROVE  IsFiniteSet(S) /\ Cardinality(S) = n
<1>1. f \in Bijection(1..n, S)
  BY DEF Numbers, Bijection, Injection, Surjection, IsInjective
<1>2. ExistsBijection(1..n, S)
  BY <1>1, Zenon DEF ExistsBijection
<1>3. IsFiniteSet(S)
  BY <1>2, FS_NatBijection
<1>4. Cardinality(S) = n
  BY <1>2, FS_CountingElements
<1> QED
  BY <1>3, <1>4

(* As many members are picked as there are positions.                      *)
LEMMA PickedCount ==
  ASSUME NEW S, NEW v \in Seq(S), NEW T, NEW h, NEW pos, PickedFrom(h, pos, S, v, T),
         T \subseteq 1..Len(v)
  PROVE  IsFiniteSet(T) /\ Cardinality(T) = Len(h)
<1>1. {i \in 1..Len(v) : i \in T} = T
  OBVIOUS
<1>2. PICK n : n = Len(h) /\ n \in Nat
  BY DEF PickedFrom
<1>3. /\ pos \in [1..n -> T]
      /\ \A j \in T : \E k \in 1..n : pos[k] = j
      /\ \A a, b \in 1..n : a < b => pos[a] < pos[b]
  BY <1>1, <1>2, Zenon DEF PickedFrom, Enumerates
<1>4. \A a, b \in 1..n : pos[a] = pos[b] => a = b
  <2> SUFFICES ASSUME NEW a \in 1..n, NEW b \in 1..n, pos[a] = pos[b], a # b PROVE FALSE
    OBVIOUS
  <2>1. pos[a] \in Int /\ pos[b] \in Int
    <3>1. pos[a] \in T /\ pos[b] \in T
      BY <1>3
    <3>2. pos[a] \in 1..Len(v) /\ pos[b] \in 1..Len(v)
      BY <3>1, Zenon
    <3> QED
      BY <3>2
  <2>2. a < b \/ b < a
    OBVIOUS
  <2>3. pos[a] < pos[b] \/ pos[b] < pos[a]
    BY <1>3, <2>2, Zenon
  <2> QED
    BY <2>1, <2>3
<1>5. IsFiniteSet(T) /\ Cardinality(T) = n
  <2>1. Numbers(pos, n, T)
    BY <1>3, <1>4, Zenon DEF Numbers
  <2> QED
    BY <1>2, <2>1, Numbered, Zenon
<1> QED
  BY <1>2, <1>5, Zenon

(* What the library finds of a name is as many entries as have it.         *)
LEMMA FoundCount ==
  ASSUME NEW S, NEW v \in Seq(S), NEW name
  PROVE  /\ Find(v, name) \in Seq(S)
         /\ IsFiniteSet(Named(v, name)) /\ Cardinality(Named(v, name)) = Len(Find(v, name))
         /\ ToSet(Find(v, name)) = {v[i] : i \in Named(v, name)}
<1>1. PICK h, pos : h = Find(v, name) /\ PickedFrom(h, pos, S, v, Named(v, name))
  BY FoundInOrder, Zenon
<1>2. Named(v, name) \subseteq 1..Len(v)
  BY DEF Named
<1>3. IsFiniteSet(Named(v, name)) /\ Cardinality(Named(v, name)) = Len(h)
  BY <1>1, <1>2, PickedCount
<1>4. h \in Seq(S)
  BY <1>1 DEF PickedFrom
<1>5. ToSet(h) = {v[i] : i \in Named(v, name)}
  <2>1. {i \in 1..Len(v) : i \in Named(v, name)} = Named(v, name)
    BY <1>2
  <2>2. /\ pos \in [1..Len(h) -> Named(v, name)]
        /\ \A j \in Named(v, name) : \E k \in 1..Len(h) : pos[k] = j
        /\ \A k \in 1..Len(h) : h[k] = v[pos[k]]
    BY <1>1, <2>1, Zenon DEF PickedFrom, Enumerates
  <2>3. ToSet(h) = {h[k] : k \in 1..Len(h)}
    BY <1>4 DEF ToSet
  <2>4. \A k \in 1..Len(h) : h[k] \in {v[i] : i \in Named(v, name)}
    BY <2>2
  <2>5. \A j \in Named(v, name) : v[j] \in {h[k] : k \in 1..Len(h)}
    BY <2>2
  <2> QED
    BY <2>3, <2>4, <2>5
<1> QED
  BY <1>1, <1>3, <1>4, <1>5, Zenon

(* Of each name the first entry is picked.                                 *)
FirstOnes(v) == {i \in 1..Len(v) : ~ \E j \in 1..i - 1 : v[j].attr = v[i].attr}

(* h lists the names of the entries, each of them once.                    *)
EachOnce(h, A, v) ==
  /\ h \in Seq(A) /\ ToSet(h) = {e.attr : e \in ToSet(v)}
  /\ Len(h) = Cardinality(ToSet(h))
  /\ \A a, b \in 1..Len(h) : h[a] = h[b] => a = b

(* cgiFormEntries does.                                                    *)
LEMMA EachNameOnce ==
  ASSUME NEW S, NEW v \in Seq(S)
  PROVE  \E A, h : h = FormEntries(v) /\ EachOnce(h, A, v)
<1> DEFINE A == {v[i].attr : i \in 1..Len(v)}
           u == [i \in 1..Len(v) |-> v[i].attr]
           T == FirstOnes(v)
           l == [i \in 1..Len(v) |-> IF i \in T THEN <<u[i]>> ELSE << >>]
<1>1. u \in Seq(A) /\ Len(u) = Len(v)
  <2>1. u \in [1..Len(v) -> A]
    OBVIOUS
  <2> HIDE DEF A, u
  <2>2. Len(v) \in Nat
    OBVIOUS
  <2> QED
    BY <2>1, <2>2
<1>2. \E h, pos : h = FlattenSeq(l) /\ PickedFrom(h, pos, A, u, T)
  <2>1. l = [i \in 1..Len(u) |-> IF i \in T THEN <<u[i]>> ELSE << >>]
    BY <1>1, Zenon
  <2> HIDE DEF l, u, T, A
  <2> QED
    BY <1>1, <2>1, Picked
<1>3. DOMAIN v = 1..Len(v)
  OBVIOUS
<1>4. FormEntries(v) = FlattenSeq(l)
  <2>1. \A i \in 1..Len(v) :
          (IF \E j \in 1..i - 1 : v[j].attr = v[i].attr THEN << >> ELSE <<v[i].attr>>)
            = (IF i \in T THEN <<u[i]>> ELSE << >>)
    BY Zenon DEF FirstOnes
  <2>2. [i \in DOMAIN v |-> IF \E j \in 1..i - 1 : v[j].attr = v[i].attr THEN << >>
                            ELSE <<v[i].attr>>] = l
    BY <1>3, <2>1, Zenon
  <2> QED
    BY <2>2, Zenon DEF FormEntries
<1>5. PICK h, pos : h = FormEntries(v) /\ PickedFrom(h, pos, A, u, T)
  BY <1>2, <1>4, Zenon
<1>6. T \subseteq 1..Len(v) /\ {i \in 1..Len(u) : i \in T} = T
  BY <1>1 DEF FirstOnes
<1>7. /\ h \in Seq(A) /\ Len(h) \in Nat
      /\ pos \in [1..Len(h) -> T]
      /\ \A j \in T : \E k \in 1..Len(h) : pos[k] = j
      /\ \A a, b \in 1..Len(h) : a < b => pos[a] < pos[b]
      /\ \A k \in 1..Len(h) : h[k] = u[pos[k]]
  <2>1. h \in Seq(A)
    BY <1>5, Zenon DEF PickedFrom
  <2>2. Len(h) \in Nat
    BY <2>1
  <2> QED
    BY <1>5, <1>6, <2>1, <2>2, Zenon DEF PickedFrom, Enumerates
<1>8. \A k \in 1..Len(h) : pos[k] \in T /\ pos[k] \in 1..Len(v) /\ h[k] = v[pos[k]].attr
  BY <1>6, <1>7
<1>9. \A i \in 1..Len(v) : \E k \in 1..Len(h) : h[k] = v[i].attr
  <2> TAKE i \in 1..Len(v)
  <2>1. Named(v, v[i].attr) \subseteq Nat /\ i \in Named(v, v[i].attr)
    BY DEF Named
  <2>2. PICK m \in Named(v, v[i].attr) : \A j \in Named(v, v[i].attr) : m <= j
    BY <2>1, LeastNat
  <2>3. m \in 1..Len(v) /\ v[m].attr = v[i].attr
    BY DEF Named
  <2>4. m \in T
    <3> SUFFICES ASSUME NEW j \in 1..m - 1, v[j].attr = v[m].attr PROVE FALSE
      BY <2>3, Zenon DEF FirstOnes
    <3>1. j \in 1..Len(v) /\ j < m
      BY <2>3
    <3>2. j \in Named(v, v[i].attr)
      BY <2>3, <3>1, Zenon DEF Named
    <3>3. m <= j
      BY <2>2, <3>2, Zenon
    <3> QED
      BY <2>3, <3>1, <3>3
  <2>5. PICK k \in 1..Len(h) : pos[k] = m
    BY <1>7, <2>4, Zenon
  <2>6. h[k] = v[i].attr
    BY <1>8, <2>3, <2>5, Zenon
  <2> QED
    BY <2>6
<1>10. \A a, b \in 1..Len(h) : a < b => h[a] # h[b]
  <2> SUFFICES ASSUME NEW a \in 1..Len(h), NEW b \in 1..Len(h), a < b, h[a] = h[b] PROVE FALSE
    OBVIOUS
  <2>1. /\ pos[a] < pos[b] /\ pos[a] \in 1..Len(v) /\ pos[b] \in T
        /\ v[pos[a]].attr = v[pos[b]].attr /\ pos[b] \in 1..Len(v)
    BY <1>7, <1>8, Zenon
  <2>2. pos[a] \in 1..pos[b] - 1
    BY <2>1
  <2> QED
    BY <2>1, <2>2, Zenon DEF FirstOnes
<1>11. \A a, b \in 1..Len(h) : h[a] = h[b] => a = b
  <2> TAKE a, b \in 1..Len(h)
  <2>1. a < b \/ b < a \/ a = b
    BY <1>7
  <2> QED
    BY <1>10, <2>1, Zenon
<1>12. ToSet(h) = {h[k] : k \in 1..Len(h)} /\ ToSet(v) = {v[i] : i \in 1..Len(v)}
  <2>1. DOMAIN h = 1..Len(h)
    BY <1>7
  <2> QED
    BY <1>3, <2>1, Zenon DEF ToSet
<1>13. ToSet(h) = {e.attr : e \in ToSet(v)}
  <2>1. \A k \in 1..Len(h) : h[k] \in {e.attr : e \in ToSet(v)}
    BY <1>8, <1>12, Zenon
  <2>2. \A e \in ToSet(v) : e.attr \in ToSet(h)
    BY <1>9, <1>12, Zenon
  <2> QED
    BY <1>12, <2>1, <2>2, Zenon
<1>14. Cardinality(ToSet(h)) = Len(h)
  <2>1. h \in [1..Len(h) -> ToSet(h)]
    BY <1>7, <1>12
  <2>2. \A x \in ToSet(h) : \E k \in 1..Len(h) : h[k] = x
    BY <1>12, Zenon
  <2>3. PICK B, n : B = ToSet(h) /\ n = Len(h) /\ n \in Nat
    BY <1>7
  <2>4. Numbers(h, n, B)
    BY <1>11, <2>1, <2>2, <2>3, Zenon DEF Numbers
  <2>5. Cardinality(B) = n
    BY <2>3, <2>4, Numbered, Zenon
  <2> QED
    BY <2>3, <2>5, Zenon
<1> HIDE DEF A
<1>15. EachOnce(h, A, v)
  BY <1>7, <1>11, <1>13, <1>14, Zenon DEF EachOnce
<1> QED
  BY <1>5, <1>15, Zenon

(* The entries of the names up to the k-th.                                *)
Upto(v, h, k) == {i \in 1..Len(v) : \E j \in 1..k : h[j] = v[i].attr}

(* The length of two lists that are joined.                                *)
LEMMA JoinedLen ==
  ASSUME NEW S, NEW s \in Seq(S), NEW t \in Seq(S)
  PROVE  Len(s \o t) = Len(s) + Len(t)
OBVIOUS

(* What is returned for a name is one text for each entry of it.           *)
LEMMA MultipleCount ==
  ASSUME NEW S, NEW v \in Seq(S), NEW name, NEW U,
         U = {EntryString(e, Len(e.value) + 1, TRUE).text : e \in ToSet(v)}
  PROVE  /\ FormStringMultiple(v, name) \in Seq(U)
         /\ IsFiniteSet(Named(v, name))
         /\ Len(FormStringMultiple(v, name)) = Cardinality(Named(v, name))
<1>1. PICK h : h = Find(v, name)
  OBVIOUS
<1>2. /\ h \in Seq(S) /\ IsFiniteSet(Named(v, name)) /\ Cardinality(Named(v, name)) = Len(h)
      /\ ToSet(h) = {v[i] : i \in Named(v, name)}
  BY <1>1, FoundCount, Zenon
<1>3. DOMAIN h = 1..Len(h) /\ Len(h) \in Nat /\ DOMAIN v = 1..Len(v)
  BY <1>2
<1>4. PICK m : m = FormStringMultiple(v, name)
  OBVIOUS
<1>5. m = [i \in 1..Len(h) |-> EntryString(h[i], Len(h[i].value) + 1, TRUE).text]
  BY <1>1, <1>3, <1>4, Zenon DEF FormStringMultiple
<1>6. \A i \in 1..Len(h) : EntryString(h[i], Len(h[i].value) + 1, TRUE).text \in U
  <2> TAKE i \in 1..Len(h)
  <2>1. h[i] \in ToSet(h)
    BY <1>3, Zenon DEF ToSet
  <2>2. h[i] \in ToSet(v)
    <3>1. PICK j \in Named(v, name) : h[i] = v[j]
      BY <1>2, <2>1
    <3>2. j \in 1..Len(v)
      BY DEF Named
    <3> QED
      BY <1>3, <3>1, <3>2, Zenon DEF ToSet
  <2> QED
    BY <2>2
<1>7. m \in [1..Len(h) -> U]
  BY <1>5, <1>6
<1>8. m \in Seq(U) /\ Len(m) = Len(h)
  <2>1. PICK n \in Nat : n = Len(h)
    BY <1>3
  <2>2. m \in [1..n -> U]
    BY <1>7, <2>1, Zenon
  <2>3. m \in Seq(U) /\ Len(m) = n
    BY ONLY <2>2, n \in Nat
  <2> QED
    BY <2>1, <2>3, Zenon
<1> QED
  BY <1>2, <1>4, <1>8, Zenon

(* Under the names h as many texts are found as there are entries.         *)
AllFound(h, v) ==
  Len(FlattenSeq([k \in DOMAIN h |-> FormStringMultiple(v, h[k])])) = Len(v)

(* They are where each name is listed once.                                *)
LEMMA NothingLeft ==
  ASSUME NEW S, NEW v \in Seq(S), NEW A, NEW h, EachOnce(h, A, v)
  PROVE  AllFound(h, v)
<1> DEFINE l == [k \in DOMAIN h |-> FormStringMultiple(v, h[k])]
<1>0. /\ h \in Seq(A) /\ ToSet(h) = {e.attr : e \in ToSet(v)}
      /\ \A a, b \in 1..Len(h) : h[a] = h[b] => a = b
  BY Zenon DEF EachOnce
<1>1. PICK n \in Nat : n = Len(h) /\ 0 \in Int /\ n \in Int
  BY <1>0
<1>2. PICK U : U = {EntryString(e, Len(e.value) + 1, TRUE).text : e \in ToSet(v)}
  OBVIOUS
<1>3. DOMAIN h = 1..n /\ DOMAIN v = 1..Len(v)
  BY <1>0, <1>1
<1>4. /\ l \in Seq(Seq(U)) /\ Len(l) = n
      /\ \A k \in 1..n : /\ l[k] \in Seq(U) /\ IsFiniteSet(Named(v, h[k]))
                         /\ Len(l[k]) = Cardinality(Named(v, h[k]))
  <2>1. \A k \in 1..n : /\ FormStringMultiple(v, h[k]) \in Seq(U)
                        /\ IsFiniteSet(Named(v, h[k]))
                        /\ Len(FormStringMultiple(v, h[k])) = Cardinality(Named(v, h[k]))
    BY <1>2, MultipleCount, Zenon
  <2>2. l = [k \in 1..n |-> FormStringMultiple(v, h[k])]
    BY <1>3
  <2> HIDE DEF l
  <2>3. l \in [1..n -> Seq(U)]
    BY <2>1, <2>2
  <2>4. l \in Seq(Seq(U)) /\ Len(l) = n
    BY <2>3
  <2>5. \A k \in 1..n : l[k] = FormStringMultiple(v, h[k])
    BY <2>2, Zenon
  <2> QED
    BY <2>1, <2>4, <2>5, Zenon
<1>5. PICK f \in [0..n -> Seq(U)] : /\ f[0] = << >> /\ FlattenSeq(l) = f[n]
                                    /\ \A k \in 1..n : f[k] = f[k - 1] \o l[k]
  <2> HIDE DEF l
  <2>1. \E f \in [0..Len(l) -> Seq(U)] :
          /\ f[0] = << >>
          /\ \A i \in 1..Len(l) : f[i] = f[i - 1] \o l[i]
          /\ FlattenSeq(l) = f[Len(l)]
    BY <1>4, Flattened, Zenon
  <2> QED
    BY <1>4, <2>1, Zenon
<1> HIDE DEF l
<1> DEFINE Good(k) == IsFiniteSet(Upto(v, h, k)) /\ Len(f[k]) = Cardinality(Upto(v, h, k))
           Q == {k \in 0..n : Good(k)}
<1>6. \A k \in 0..n : (\A j \in 0..k - 1 : j \in Q) => k \in Q
  <2> TAKE k \in 0..n
  <2>1. HAVE \A j \in 0..k - 1 : j \in Q
  <2>2. CASE k = 0
    <3>1. Upto(v, h, 0) = {}
      BY DEF Upto
    <3>2. Len(f[0]) = 0
      BY <1>5
    <3>3. Good(0)
      BY <3>1, <3>2, FS_EmptySet, Zenon
    <3> QED
      BY <2>2, <3>3
  <2>3. CASE k # 0
    <3>1. k - 1 \in 0..k - 1 /\ k \in 1..n /\ k - 1 \in 0..n /\ k \in Int
      BY <2>3
    <3>2. PICK B, C : B = Upto(v, h, k - 1) /\ C = Named(v, h[k])
      OBVIOUS
    <3>3. IsFiniteSet(B) /\ Len(f[k - 1]) = Cardinality(B)
      BY <2>1, <3>1, <3>2, Zenon
    <3>4. IsFiniteSet(C) /\ Len(l[k]) = Cardinality(C)
      BY <1>4, <3>1, <3>2, Zenon
    <3>5. Upto(v, h, k) = B \cup C
      <4>1. \A j : j \in 1..k <=> j \in 1..k - 1 \/ j = k
        BY <3>1
      <4>2. \A i \in 1..Len(v) : (\E j \in 1..k : h[j] = v[i].attr)
                                  <=> (\E j \in 1..k - 1 : h[j] = v[i].attr) \/ v[i].attr = h[k]
        BY <4>1, Zenon
      <4>3. \A i : i \in Upto(v, h, k) <=> i \in Upto(v, h, k - 1) \/ i \in Named(v, h[k])
        BY <4>2, Zenon DEF Upto, Named
      <4> QED
        BY <3>2, <4>3, Zenon
    <3>6. B \cap C = {}
      <4> SUFFICES ASSUME NEW i \in B, i \in C PROVE FALSE
        OBVIOUS
      <4>1. PICK j \in 1..k - 1 : h[j] = v[i].attr
        BY <3>2, Zenon DEF Upto
      <4>2. v[i].attr = h[k]
        BY <3>2, Zenon DEF Named
      <4>3. j \in 1..Len(h) /\ k \in 1..Len(h) /\ j # k
        BY <1>1, <3>1
      <4> QED
        BY <1>0, <4>1, <4>2, <4>3, Zenon
    <3>7. /\ IsFiniteSet(B \cup C)
          /\ Cardinality(B \cup C) = Cardinality(B) + Cardinality(C)
      <4>1. /\ IsFiniteSet(B \cup C)
            /\ Cardinality(B \cup C) = Cardinality(B) + Cardinality(C) - Cardinality(B \cap C)
        BY <3>3, <3>4, FS_Union, Zenon
      <4>2. Cardinality(B \cap C) = 0
        BY <3>6, FS_EmptySet, Zenon
      <4>3. Cardinality(B) \in Nat /\ Cardinality(C) \in Nat
        BY <3>3, <3>4, FS_CardinalityType, Zenon
      <4> QED
        BY <4>1, <4>2, <4>3
    <3>8. Len(f[k]) = Len(f[k - 1]) + Len(l[k])
      <4>1. f[k - 1] \in Seq(U) /\ l[k] \in Seq(U) /\ f[k] = f[k - 1] \o l[k]
        BY <1>4, <1>5, <3>1, Zenon
      <4>2. Len(f[k - 1] \o l[k]) = Len(f[k - 1]) + Len(l[k])
        BY <4>1, JoinedLen, Zenon
      <4> QED
        BY <4>1, <4>2, Zenon
    <3>9. Good(k)
      BY <3>3, <3>4, <3>5, <3>7, <3>8, Zenon
    <3> QED
      BY <3>9
  <2> QED
    BY <2>2, <2>3
<1> HIDE DEF Q
<1>7. \A k \in 0..n : k \in Q
  BY ONLY <1>1, <1>6, RangeUp
<1>8. Good(n)
  <2>1. n \in 0..n
    BY <1>1
  <2> QED
    BY <1>7, <2>1, Zenon DEF Q
<1>9. Upto(v, h, n) = 1..Len(v)
  <2>1. \A i \in 1..Len(v) : \E j \in 1..n : h[j] = v[i].attr
    <3> TAKE i \in 1..Len(v)
    <3>1. v[i] \in ToSet(v)
      BY <1>3, Zenon DEF ToSet
    <3>2. v[i].attr \in ToSet(h)
      BY <1>0, <3>1, Zenon
    <3> QED
      BY <1>3, <3>2, Zenon DEF ToSet
  <2> QED
    BY <2>1, Zenon DEF Upto
<1>10. Cardinality(1..Len(v)) = Len(v)
  <2>1. Len(v) \in Nat /\ 1 \in Int /\ Len(v) \in Int
    OBVIOUS
  <2>2. Cardinality(1..Len(v)) = IF 1 > Len(v) THEN 0 ELSE Len(v) - 1 + 1
    BY <2>1, FS_Interval, Zenon
  <2> QED
    BY <2>1, <2>2
<1>11. Len(FlattenSeq(l)) = Len(v)
  BY <1>5, <1>8, <1>9, <1>10, Zenon
<1> QED
  BY <1>11, Zenon DEF AllFound, l

(* A text without line ends so far is copied as it is; the first line end  *)
(* leaves its trace.                                                       *)
Clean(b, u, i) ==
  b.cr = 0 /\ b.lf = 0 /\ Len(b.text) = i /\ \A j \in 1..i : b.text[j] = u[j]
Traced(b) == (\E j \in 1..Len(b.text) : b.text[j] = LF) \/ b.cr >= 1 \/ b.lf >= 1

(* A trace stays.                                                          *)
LEMMA TraceStays ==
  ASSUME NEW b \in Burst, NEW x \in Nat, Traced(b), NEW r,
         Made(r, WholeText(b, x, TRUE), NextCr(b, x), NextLf(b, x), FALSE)
  PROVE  Traced(r)
<1>1. PICK t \in Seq(Nat) : t = b.text
  BY DEF Burst
<1>2. PICK W : W = WholeText(b, x, TRUE)
  OBVIOUS
<1>3. W \in Seq(Nat) /\ Begins(t, W)
  <2>1. TRUE \in BOOLEAN
    OBVIOUS
  <2>2. WholeText(b, x, TRUE) \in Seq(Nat) /\ Begins(b.text, WholeText(b, x, TRUE))
    BY <2>1, WholeFacts
  <2> QED
    BY <1>1, <1>2, <2>2, Zenon
<1>4. r.text = W /\ r.cr = NextCr(b, x) /\ r.lf = NextLf(b, x)
  BY <1>2, Zenon DEF Made
<1>5. CASE \E j \in 1..Len(t) : t[j] = LF
  <2>1. PICK j \in 1..Len(t) : t[j] = LF
    BY <1>5
  <2>2. W[j] = LF
    BY <1>3, <2>1, Zenon DEF Begins
  <2>3. j \in 1..Len(W)
    BY <1>3 DEF Begins
  <2> QED
    BY <1>4, <2>2, <2>3, Zenon DEF Traced
<1>6. CASE b.cr >= 1 \/ b.lf >= 1
  <2>1. b.cr \in Nat /\ b.lf \in Nat /\ CR # LF
    BY DEF Burst, CR, LF
  <2>2. CASE x = CR
    <3>1. r.cr = b.cr + 1
      BY <1>4, <2>2, Zenon DEF NextCr
    <3>2. r.cr >= 1
      BY <2>1, <3>1
    <3> QED
      BY <3>2 DEF Traced
  <2>3. CASE x = LF
    <3>1. r.lf = b.lf + 1
      BY <1>4, <2>3, Zenon DEF NextLf
    <3>2. r.lf >= 1
      BY <2>1, <3>1
    <3> QED
      BY <3>2 DEF Traced
  <2>4. CASE x \notin {CR, LF}
    <3>1. PICK w \in Nat : w = Want(b, TRUE) /\ w >= 1
      <4>1. Newlines(b) = IF b.cr >= b.lf THEN b.cr ELSE b.lf
        BY WantNat
      <4>2. Newlines(b) \in Nat /\ Newlines(b) >= 1
        BY <1>6, <2>1, <4>1
      <4> QED
        BY <4>2 DEF Want
    <3>2. PICK s \in Seq(Nat) : /\ s = t \o Lfs(w)
                                /\ Len(s) = Len(t) + IF w >= 0 THEN w ELSE 0
                                /\ \A i \in Len(t) + 1..Len(s) : s[i] = LF
      <4>1. w \in Int
        OBVIOUS
      <4>2. \E s \in Seq(Nat) : /\ s = t \o Lfs(w)
                                /\ Len(s) = Len(t) + IF w >= 0 THEN w ELSE 0
                                /\ \A i \in 1..Len(t) : s[i] = t[i]
                                /\ \A i \in Len(t) + 1..Len(s) : s[i] = LF
        BY <4>1, WithLfs
      <4> QED
        BY <4>2, Zenon
    <3>3. Len(t) \in Nat /\ Len(s) = Len(t) + w /\ Len(t) + 1 \in 1..Len(s)
      <4>1. PICK l \in Nat : l = Len(t)
        BY <1>1
      <4>2. Len(s) = l + IF w >= 0 THEN w ELSE 0
        BY <3>2, <4>1, Zenon
      <4>3. (IF w >= 0 THEN w ELSE 0) = w
        OBVIOUS
      <4>4. Len(s) = l + w
        BY <4>2, <4>3, Zenon
      <4>5. w >= 1
        BY <3>1, Zenon
      <4>6. l + 1 \in 1..l + w
        BY ONLY <4>5, l \in Nat, w \in Nat
      <4> QED
        BY <4>1, <4>4, <4>6, Zenon
    <3>4. s[Len(t) + 1] = LF
      <4>1. Len(t) + 1 \in Len(t) + 1..Len(s)
        BY <3>3
      <4> QED
        BY <3>2, <4>1, Zenon
    <3>5. Begins(s, W)
      <4>1. CASE x = NUL
        <5>1. W = s
          BY <1>1, <1>2, <2>4, <3>1, <3>2, <4>1, Zenon DEF WholeText
        <5> QED
          BY <3>2, <5>1 DEF Begins
      <4>2. CASE x # NUL
        <5>1. W = Append(s, x)
          BY <1>1, <1>2, <2>4, <3>1, <3>2, <4>2, Zenon DEF WholeText
        <5>2. Begins(s, Append(s, x))
          BY <3>2, Appended
        <5> QED
          BY <5>1, <5>2, Zenon
      <4> QED
        BY <4>1, <4>2
    <3>6. W[Len(t) + 1] = LF
      BY <3>3, <3>4, <3>5, Zenon DEF Begins
    <3>7. Len(t) + 1 \in 1..Len(W)
      BY <1>3, <3>3, <3>5 DEF Begins
    <3> QED
      BY <1>4, <3>6, <3>7, Zenon DEF Traced
  <2> QED
    BY <2>2, <2>3, <2>4
<1> QED
  BY <1>1, <1>5, <1>6, Zenon DEF Traced

(* Another letter of a text without line ends.                             *)
LEMMA CleanStep ==
  ASSUME NEW b \in Burst, NEW x \in Nat, NEW u \in Seq(Nat), NEW i \in Nat, Clean(b, u, i), NEW r,
         Made(r, WholeText(b, x, TRUE), NextCr(b, x), NextLf(b, x), FALSE)
  PROVE  /\ x \in {CR, LF} => Traced(r)
         /\ x = NUL => r.text = b.text
         /\ x \notin {CR, LF, NUL} /\ i + 1 \in 1..Len(u) /\ x = u[i + 1] => Clean(r, u, i + 1)
<1>1. PICK t \in Seq(Nat) : t = b.text
  BY DEF Burst
<1>2. Len(t) = i /\ b.cr = 0 /\ b.lf = 0 /\ \A j \in 1..i : t[j] = u[j]
  BY <1>1, Zenon DEF Clean
<1>3. Want(b, TRUE) = 0
  BY <1>2, WantNat DEF Want
<1>4. t \o Lfs(0) = t
  <2>1. PICK s \in Seq(Nat) : /\ s = t \o Lfs(0)
                              /\ Len(s) = Len(t) + IF 0 >= 0 THEN 0 ELSE 0
                              /\ \A j \in 1..Len(t) : s[j] = t[j]
    <3>1. 0 \in Int
      OBVIOUS
    <3> QED
      BY <3>1, WithLfs
  <2>2. Len(s) = Len(t)
    BY <2>1
  <2>3. s = t
    BY <2>1, <2>2, SeqEqual
  <2> QED
    BY <2>1, <2>3
<1>5. /\ r.text = WholeText(b, x, TRUE) /\ r.cr = NextCr(b, x) /\ r.lf = NextLf(b, x)
  BY Zenon DEF Made
<1>6. CR # LF /\ CR # NUL /\ LF # NUL
  BY DEF CR, LF, NUL
<1>7. x \in {CR, LF} => Traced(r)
  <2>1. CASE x = CR
    <3>1. r.cr = b.cr + 1
      BY <1>5, <2>1, Zenon DEF NextCr
    <3>2. r.cr >= 1
      BY <1>2, <3>1
    <3> QED
      BY <3>2 DEF Traced
  <2>2. CASE x = LF
    <3>1. r.lf = b.lf + 1
      BY <1>5, <2>2, Zenon DEF NextLf
    <3>2. r.lf >= 1
      BY <1>2, <3>1
    <3> QED
      BY <3>2 DEF Traced
  <2> QED
    BY <2>1, <2>2
<1>8. x = NUL => r.text = b.text
  BY <1>1, <1>3, <1>4, <1>5, <1>6, Zenon DEF WholeText
<1>9. ASSUME x \notin {CR, LF, NUL}, i + 1 \in 1..Len(u), x = u[i + 1]
      PROVE  Clean(r, u, i + 1)
  <2>1. r.text = Append(t, x)
    BY <1>1, <1>3, <1>4, <1>5, <1>9, Zenon DEF WholeText
  <2>2. Len(Append(t, x)) = i + 1 /\ Append(t, x)[i + 1] = x
        /\ \A j \in 1..i : Append(t, x)[j] = t[j]
    BY <1>2
  <2>3. \A j \in 1..i + 1 : j \in 1..i \/ j = i + 1
    OBVIOUS
  <2>4. \A j \in 1..i + 1 : Append(t, x)[j] = u[j]
    BY <1>2, <1>9, <2>2, <2>3, Zenon
  <2>5. r.cr = 0 /\ r.lf = 0
    BY <1>5, <1>9, Zenon DEF NextCr, NextLf
  <2> QED
    BY <2>1, <2>2, <2>4, <2>5, Zenon DEF Clean
<1> QED
  BY <1>7, <1>8, <1>9, Zenon

(* What f is after the first i letters of u.                               *)
Followed(b, u, i) ==
  \/ Clean(b, u, i) /\ \A j \in 1..i : u[j] \notin {CR, LF}
  \/ Traced(b) /\ \E j \in 1..i : u[j] \in {CR, LF}

(* What one step does to the text that nothing cuts.                       *)
LEMMA WholeStep ==
  ASSUME NEW L \in Seq(Nat), NEW a \in Nat, NEW f, CopyRun(f, L, a, TRUE),
         \A i \in 0..Len(L) : Roomy(f[i], i, a), NEW i \in 1..Len(L)
  PROVE  /\ f[i - 1] \in Burst /\ L[i] \in Nat
         /\ Made(f[i], WholeText(f[i - 1], L[i], TRUE), NextCr(f[i - 1], L[i]),
                 NextLf(f[i - 1], L[i]), FALSE)
<1>1. TRUE \in BOOLEAN /\ i - 1 \in 0..Len(L) /\ i \in 0..Len(L)
  OBVIOUS
<1>2. /\ f[i - 1] \in Burst /\ f[i] \in Burst /\ L[i] \in Nat
      /\ ~f[i - 1].truncated /\ Len(f[i - 1].text) <= a
           => Fits(f[i], f[i - 1], L[i], a, WholeText(f[i - 1], L[i], TRUE))
  <2>1. CopyStep(f, L, a, TRUE, i)
    BY <1>1, RunStep
  <2> QED
    BY <2>1, Zenon DEF CopyStep
<1>3. Roomy(f[i - 1], i - 1, a) /\ Roomy(f[i], i, a)
  BY <1>1, Zenon
<1>4. Fits(f[i], f[i - 1], L[i], a, WholeText(f[i - 1], L[i], TRUE))
  BY <1>2, <1>3, Zenon DEF Roomy
<1> QED
  BY <1>2, <1>3, <1>4, Zenon DEF Fits, Roomy

(* A value comes through as it is when it holds no line end, and with an   *)
(* LF in it otherwise.                                                     *)
Through(t, v) ==
  IF \A j \in 1..Len(v) : v[j] \notin {CR, LF} THEN t = v
  ELSE \E j \in 1..Len(t) : t[j] = LF

(* That is what cgiFormEntryString returns where the buffer is big enough. *)
LEMMA EntryText ==
  ASSUME NEW e, NEW v \in Seq(Nat), v = e.value, Plain(v), NEW t,
         t = EntryString(e, Len(v) + 1, TRUE).text
  PROVE  Through(t, v)
<1>1. PICK n \in Nat : n = Len(v) /\ n \in Int /\ 0 \in Int
  OBVIOUS
<1>2. NUL \in Nat
  BY DEF NUL
<1>3. PICK L \in Seq(Nat) : L = Append(v, NUL) /\ L = Append(e.value, NUL) /\ Len(L) = n + 1
                            /\ L[n + 1] = NUL /\ \A i \in 1..n : L[i] = v[i]
  <2>1. /\ Append(v, NUL) \in Seq(Nat) /\ Len(Append(v, NUL)) = n + 1
        /\ Append(v, NUL)[n + 1] = NUL /\ \A i \in 1..n : Append(v, NUL)[i] = v[i]
    BY <1>1, <1>2
  <2> QED
    BY <2>1, Zenon
<1>4. PICK f : CopyRun(f, L, n, TRUE) /\ t = f[n + 1].text
  <2>1. n + 1 \in Nat \ {0} /\ (n + 1) - 1 = n /\ TRUE \in BOOLEAN
    OBVIOUS
  <2>2. \E f : CopiedBy(f, L, e, n + 1, TRUE)
    BY <1>3, <2>1, EntryCopied, Zenon
  <2> QED
    BY <1>1, <1>3, <2>1, <2>2, Zenon DEF CopiedBy
<1>5. \A i \in 0..Len(L) : Roomy(f[i], i, n)
  <2>1. CopyRun(f, L, Len(v), TRUE) /\ TRUE \in BOOLEAN
    BY <1>1, <1>4, Zenon
  <2>2. \A i \in 0..Len(L) : Roomy(f[i], i, Len(v))
    BY ONLY <1>3, <2>1, WholeRun, v \in Seq(Nat), Plain(v)
  <2> QED
    BY <1>1, <2>2, Zenon
<1>6. \A i \in 1..n + 1 :
        /\ f[i - 1] \in Burst /\ L[i] \in Nat
        /\ Made(f[i], WholeText(f[i - 1], L[i], TRUE), NextCr(f[i - 1], L[i]),
                NextLf(f[i - 1], L[i]), FALSE)
  <2>1. n \in Nat /\ 1..n + 1 = 1..Len(L)
    BY <1>3
  <2> QED
    BY <1>3, <1>4, <1>5, <2>1, WholeStep, Zenon
<1> DEFINE Q == {i \in 0..n : Followed(f[i], v, i)}
<1>7. \A i \in 0..n : (\A j \in 0..i - 1 : j \in Q) => i \in Q
  <2> TAKE i \in 0..n
  <2>1. HAVE \A j \in 0..i - 1 : j \in Q
  <2>2. CASE i = 0
    <3>1. f[0] = NoBurst
      BY <1>4, Zenon DEF CopyRun
    <3>2. Clean(NoBurst, v, 0)
      BY DEF Clean, NoBurst
    <3>3. \A j \in 1..0 : v[j] \notin {CR, LF}
      OBVIOUS
    <3>4. Followed(f[i], v, i)
      BY <2>2, <3>1, <3>2, <3>3, Zenon DEF Followed
    <3> QED
      BY <3>4
  <2>3. CASE i # 0
    <3>1. /\ i - 1 \in 0..i - 1 /\ i - 1 \in Nat /\ (i - 1) + 1 = i /\ i \in 1..n + 1
          /\ i \in 1..n /\ i \in 1..Len(v)
      BY <1>1, <2>3
    <3>2. PICK b, r, x, m : b = f[i - 1] /\ r = f[i] /\ x = L[i] /\ m = i - 1
      OBVIOUS
    <3>3. /\ b \in Burst /\ x \in Nat /\ x = v[i] /\ m \in Nat /\ m + 1 = i
          /\ Made(r, WholeText(b, x, TRUE), NextCr(b, x), NextLf(b, x), FALSE)
      BY <1>3, <1>6, <3>1, <3>2, Zenon
    <3>4. x # NUL
      BY <1>1, <3>1, <3>3, Zenon DEF Plain
    <3>5. Followed(b, v, m)
      BY <2>1, <3>1, <3>2, Zenon
    <3>6. \A j : j \in 1..i <=> j \in 1..m \/ j = i
      BY <3>1, <3>2
    <3>7. CASE Traced(b) /\ \E j \in 1..m : v[j] \in {CR, LF}
      <4>1. Traced(r)
        BY <3>3, <3>7, TraceStays
      <4>2. \E j \in 1..i : v[j] \in {CR, LF}
        BY <3>6, <3>7, Zenon
      <4> QED
        BY <3>2, <4>1, <4>2, Zenon DEF Followed
    <3>8. CASE Clean(b, v, m) /\ \A j \in 1..m : v[j] \notin {CR, LF}
      <4>1. /\ x \in {CR, LF} => Traced(r)
            /\ x \notin {CR, LF, NUL} /\ m + 1 \in 1..Len(v) /\ x = v[m + 1] => Clean(r, v, m + 1)
        BY <3>3, <3>8, CleanStep
      <4>2. CASE x \in {CR, LF}
        BY <3>2, <3>3, <3>6, <4>1, <4>2, Zenon DEF Followed
      <4>3. CASE x \notin {CR, LF}
        <5>1. Clean(r, v, i)
          BY <3>1, <3>3, <3>4, <4>1, <4>3, Zenon
        <5>2. \A j \in 1..i : v[j] \notin {CR, LF}
          BY <3>3, <3>6, <3>8, <4>3, Zenon
        <5> QED
          BY <3>2, <5>1, <5>2, Zenon DEF Followed
      <4> QED
        BY <4>2, <4>3
    <3>9. Followed(f[i], v, i)
      BY <3>5, <3>7, <3>8, Zenon DEF Followed
    <3> QED
      BY <3>9
  <2> QED
    BY <2>2, <2>3
<1> HIDE DEF Q
<1>8. \A i \in 0..n : i \in Q
  BY ONLY <1>1, <1>7, RangeUp
<1>9. Followed(f[n], v, n)
  <2>1. n \in 0..n
    BY <1>1
  <2> QED
    BY <1>8, <2>1, Zenon DEF Q
<1>10. PICK b, r : b = f[n] /\ r = f[n + 1]
  OBVIOUS
<1>11. b \in Burst /\ Made(r, WholeText(b, NUL, TRUE), NextCr(b, NUL), NextLf(b, NUL), FALSE)
  <2>1. n + 1 \in 1..n + 1 /\ (n + 1) - 1 = n
    OBVIOUS
  <2> QED
    BY <1>3, <1>6, <1>10, <2>1, Zenon
<1>12. NUL \notin {CR, LF}
  BY DEF CR, LF, NUL
<1>13. CASE Clean(b, v, n) /\ \A j \in 1..n : v[j] \notin {CR, LF}
  <2>1. r.text = b.text
    <3>1. NUL = NUL => r.text = b.text
      BY <1>2, <1>11, <1>13, CleanStep
    <3> QED
      BY <3>1
  <2>2. b.text \in Seq(Nat)
    BY <1>11 DEF Burst
  <2>3. b.text = v
    <3>1. PICK s \in Seq(Nat) : s = b.text
      BY <2>2
    <3>2. Len(s) = Len(v) /\ \A j \in 1..Len(s) : s[j] = v[j]
      BY <1>1, <1>13, <3>1, Zenon DEF Clean
    <3> QED
      BY <3>1, <3>2, SeqEqual
  <2> QED
    BY <1>1, <1>4, <1>10, <1>13, <2>1, <2>3, Zenon DEF Through
<1>14. CASE Traced(b) /\ \E j \in 1..n : v[j] \in {CR, LF}
  <2>1. Traced(r)
    BY <1>2, <1>11, <1>14, TraceStays
  <2>2. r.cr = 0 /\ r.lf = 0
    BY <1>11, <1>12, Zenon DEF Made, NextCr, NextLf
  <2>3. ~(r.cr >= 1) /\ ~(r.lf >= 1)
    BY <2>2
  <2>4. \E j \in 1..Len(r.text) : r.text[j] = LF
    BY <2>1, <2>3, Zenon DEF Traced
  <2> QED
    BY <1>1, <1>4, <1>10, <1>14, <2>4, Zenon DEF Through
<1> QED
  BY <1>9, <1>10, <1>13, <1>14, Zenon DEF Followed

(* The choice that a value is, where no two choices are the same.          *)
LEMMA ChoiceIs ==
  ASSUME NEW S, NEW C \in Seq(S), \A i, j \in 1..Len(C) : C[i] = C[j] => i = j, NEW value
  PROVE  /\ ChoiceOf(value, C) \in 0..Len(C)
         /\ \A i \in 1..Len(C) : ChoiceOf(value, C) = i <=> C[i] = value
<1>1. PICK I : I = {i \in 1..Len(C) : C[i] = value}
  OBVIOUS
<1>2. ChoiceOf(value, C) = IF I # {} THEN Min(I) ELSE 0
  BY <1>1, Zenon DEF ChoiceOf, SelectInSeq
<1>3. CASE I = {}
  <2>1. ChoiceOf(value, C) = 0
    BY <1>2, <1>3, Zenon
  <2>2. \A i \in 1..Len(C) : C[i] # value /\ i # 0
    <3>1. \A i \in 1..Len(C) : i # 0
      OBVIOUS
    <3>2. \A i \in 1..Len(C) : C[i] # value
      BY <1>1, <1>3
    <3> QED
      BY <3>1, <3>2
  <2>3. 0 \in 0..Len(C)
    OBVIOUS
  <2> QED
    BY <2>1, <2>2, <2>3, Zenon
<1>4. CASE I # {}
  <2>1. PICK m \in I : TRUE
    BY <1>4
  <2>2. m \in 1..Len(C) /\ C[m] = value /\ m \in Nat
    BY <1>1
  <2>3. I = {m, m}
    <3>1. \A i \in I : i = m
      BY <1>1, <2>2
    <3> QED
      BY <3>1, Zenon
  <2>4. Min({m, m}) = m
    BY <2>2, MinTwo
  <2>5. ChoiceOf(value, C) = m
    BY <1>2, <1>4, <2>3, <2>4, Zenon
  <2>6. m \in 0..Len(C)
    BY <2>2
  <2>7. \A i \in 1..Len(C) : m = i <=> C[i] = value
    BY <2>2
  <2> QED
    BY <2>5, <2>6, <2>7, Zenon
<1> QED
  BY <1>3, <1>4

(* A text without line ends is what is returned of an entry if and only if *)
(* it is the value of the entry.                                           *)
LEMMA TextIsValue ==
  ASSUME NEW e \in EntryShape, PlainEntry(e), NEW c \in Seq(Nat),
         \A j \in 1..Len(c) : c[j] \notin {CR, LF}
  PROVE  EntryString(e, Len(e.value) + 1, TRUE).text = c <=> e.value = c
<1>1. PICK u : u = e.value
  OBVIOUS
<1>2. u \in Seq(Nat) /\ Plain(u)
  BY <1>1 DEF EntryShape, PlainEntry
<1>3. PICK t : t = EntryString(e, Len(u) + 1, TRUE).text
  OBVIOUS
<1>4. Through(t, u)
  BY <1>1, <1>2, <1>3, EntryText, Zenon
<1>5. t = c => u = c
  BY <1>4, LF \in {CR, LF}, Zenon DEF Through
<1>6. u = c => t = c
  BY <1>4, Zenon DEF Through
<1> QED
  BY <1>1, <1>3, <1>5, <1>6, Zenon

(* Choices are different texts without a line end; no text of an entry      *)
(* holds a NUL.                                                            *)
ChoicesFit(C) ==
  /\ C \in Seq(Seq(Nat))
  /\ \A i, j \in 1..Len(C) : C[i] = C[j] => i = j
  /\ \A i \in 1..Len(C) : \A j \in 1..Len(C[i]) : C[i][j] \notin {CR, LF}
AllPlain(v) == \A i \in 1..Len(v) : PlainEntry(v[i])

(* The choices that the library recognises among the entries of a name are *)
(* those that the program finds among their texts.                         *)
LEMMA ChosenAgree ==
  ASSUME NEW v \in Seq(EntryShape), AllPlain(v), NEW name, NEW C, ChoicesFit(C)
  PROVE  FormSelectMultiple(v, name, C).chosen
           = {i \in DOMAIN C : C[i] \in ToSet(FormStringMultiple(v, name))}
<1> USE DEF AllPlain, ChoicesFit
<1>1. PICK h : h = Find(v, name)
  OBVIOUS
<1>2. h \in Seq(EntryShape) /\ ToSet(h) = {v[i] : i \in Named(v, name)}
  <2>1. Find(v, name) \in Seq(EntryShape) /\ ToSet(Find(v, name)) = {v[i] : i \in Named(v, name)}
    BY FoundCount
  <2> QED
    BY <1>1, <2>1, Zenon
<1>3. DOMAIN h = 1..Len(h) /\ DOMAIN C = 1..Len(C)
  BY <1>2
<1>4. \A e \in ToSet(h) : e \in EntryShape /\ PlainEntry(e)
  <2> TAKE e \in ToSet(h)
  <2>1. PICK i \in Named(v, name) : e = v[i]
    BY <1>2
  <2>2. i \in 1..Len(v)
    BY DEF Named
  <2> QED
    BY <2>1, <2>2
<1> DEFINE Text(e) == EntryString(e, Len(e.value) + 1, TRUE).text
           chosen == {ChoiceOf(e.value, C) : e \in ToSet(h)} \ {0}
           texts == FormStringMultiple(v, name)
<1>5. FormSelectMultiple(v, name, C).chosen = chosen
  BY <1>1 DEF FormSelectMultiple
<1>6. texts = [k \in 1..Len(h) |-> Text(h[k])]
  BY <1>1, <1>3, Zenon DEF FormStringMultiple
<1>7. ToSet(texts) = {Text(e) : e \in ToSet(h)}
  <2> HIDE DEF Text, texts
  <2>1. DOMAIN texts = 1..Len(h) /\ \A k \in 1..Len(h) : texts[k] = Text(h[k])
    BY <1>6
  <2>2. \A x : x \in ToSet(texts) <=> \E k \in 1..Len(h) : x = Text(h[k])
    BY <2>1, Zenon DEF ToSet
  <2>3. \A e : e \in ToSet(h) <=> \E k \in 1..Len(h) : e = h[k]
    BY <1>3, Zenon DEF ToSet
  <2>4. \A x : x \in ToSet(texts) <=> \E e \in ToSet(h) : x = Text(e)
    BY <2>2, <2>3, Zenon
  <2> QED
    BY <2>4, Zenon
<1>8. \A i \in 1..Len(C) : \A e \in ToSet(h) : Text(e) = C[i] <=> ChoiceOf(e.value, C) = i
  <2> TAKE i \in 1..Len(C)
  <2> TAKE e \in ToSet(h)
  <2>1. C[i] \in Seq(Nat) /\ \A j \in 1..Len(C[i]) : C[i][j] \notin {CR, LF}
    OBVIOUS
  <2>2. Text(e) = C[i] <=> e.value = C[i]
    BY <1>4, <2>1, TextIsValue, Zenon
  <2>3. ChoiceOf(e.value, C) = i <=> C[i] = e.value
    BY ChoiceIs, Zenon
  <2> QED
    BY <2>2, <2>3, Zenon
<1>9. \A e : ChoiceOf(e.value, C) \in 0..Len(C)
  BY ChoiceIs, Zenon
<1>10. \A i : i \in 0..Len(C) /\ i # 0 <=> i \in 1..Len(C)
  OBVIOUS
<1> HIDE DEF Text, texts
<1>11. \A i : i \in chosen <=> i \in 1..Len(C) /\ C[i] \in ToSet(texts)
  <2> TAKE i
  <2>1. i \in chosen <=> i # 0 /\ \E e \in ToSet(h) : i = ChoiceOf(e.value, C)
    BY Zenon
  <2>2. i \in chosen => i \in 1..Len(C)
    BY <1>9, <1>10, <2>1, Zenon
  <2>3. ASSUME i \in 1..Len(C)
        PROVE  i # 0 /\ (C[i] \in ToSet(texts) <=> \E e \in ToSet(h) : i = ChoiceOf(e.value, C))
    <3>1. i # 0
      BY <1>10, <2>3, Zenon
    <3>2. C[i] \in ToSet(texts) <=> \E e \in ToSet(h) : C[i] = Text(e)
      BY <1>7, Zenon
    <3> QED
      BY <1>8, <2>3, <3>1, <3>2, Zenon
  <2> QED
    BY <2>1, <2>2, <2>3, Zenon
<1> HIDE DEF chosen
<1>12. chosen = {i \in DOMAIN C : C[i] \in ToSet(texts)}
  BY <1>3, <1>11, Zenon
<1> QED
  BY <1>5, <1>12 DEF texts

(* What is escaped holds no letter of a tag.                               *)
LEMMA Escaped ==
  ASSUME NEW s \in Seq(Nat)
  PROVE  HtmlEscape(s) \in Seq(Nat \ {LT, GT})
<1>1. PICK T : T = Nat \ {LT, GT}
  OBVIOUS
<1>2. PICK n \in Nat : n = Len(s) /\ DOMAIN s = 1..n
  OBVIOUS
<1>3. /\ AMP \in T /\ 108 \in T /\ 116 \in T /\ SEMI \in T
      /\ 97 \in T /\ 109 \in T /\ 112 \in T /\ 103 \in T
  BY <1>1 DEF AMP, SEMI, LT, GT
<1>4. /\ <<AMP, 108, 116, SEMI>> \in Seq(T) /\ <<AMP, 97, 109, 112, SEMI>> \in Seq(T)
      /\ <<AMP, 103, 116, SEMI>> \in Seq(T)
  BY <1>3
<1>5. \A c \in Nat : HtmlEscapeChar(c) \in Seq(T)
  <2> TAKE c \in Nat
  <2>1. CASE c \in {LT, GT, AMP}
    <3>1. LT # AMP /\ LT # GT /\ AMP # GT
      BY DEF LT, GT, AMP
    <3> QED
      BY <1>4, <2>1, <3>1 DEF HtmlEscapeChar
  <2>2. CASE c \notin {LT, GT, AMP}
    <3>1. HtmlEscapeChar(c) = <<c>>
      BY <2>2 DEF HtmlEscapeChar
    <3>2. c \in T
      BY <1>1, <2>2
    <3>3. <<c>> \in Seq(T)
      BY <3>2, SeqOne
    <3> QED
      BY <3>1, <3>3, Zenon
  <2> QED
    BY <2>1, <2>2
<1>6. PICK l : l = [i \in 1..n |-> HtmlEscapeChar(s[i])]
  OBVIOUS
<1>7. l \in Seq(Seq(T)) /\ Len(l) = n
  <2>1. \A i \in 1..n : HtmlEscapeChar(s[i]) \in Seq(T)
    <3> TAKE i \in 1..n
    <3>1. s[i] \in Nat
      BY <1>2
    <3> QED
      BY <1>5, <3>1
  <2>2. l \in [1..n -> Seq(T)]
    BY <1>6, <2>1
  <2> QED
    BY ONLY <2>2, n \in Nat
<1>8. FlattenSeq(l) \in Seq(T)
  <2>1. PICK f \in [0..Len(l) -> Seq(T)] :
          /\ f[0] = << >>
          /\ \A i \in 1..Len(l) : f[i] = f[i - 1] \o l[i]
          /\ FlattenSeq(l) = f[Len(l)]
    BY <1>7, Flattened, Zenon
  <2>2. Len(l) \in 0..Len(l)
    BY <1>7
  <2> QED
    BY <2>1, <2>2
<1>9. HtmlEscape(s) = FlattenSeq(l)
  BY <1>2, <1>6, Zenon DEF HtmlEscape
<1> QED
  BY <1>1, <1>8, <1>9, Zenon

(* What is returned of an entry is a text.                                 *)
LEMMA EntryTyped ==
  ASSUME NEW e \in EntryShape, NEW max \in Nat \ {0}, NEW newlines \in BOOLEAN
  PROVE  EntryString(e, max, newlines).text \in Seq(Nat)
<1>1. e.value \in Seq(Nat) /\ NUL \in Nat
  BY DEF EntryShape, NUL
<1>2. PICK L \in Seq(Nat) : L = Append(e.value, NUL)
  <2>1. Append(e.value, NUL) \in Seq(Nat)
    BY <1>1
  <2> QED
    BY <2>1, Zenon
<1>3. PICK f : /\ CopyRun(f, L, max - 1, newlines)
               /\ EntryString(e, max, newlines).text = f[Len(L)].text
  <2>1. \E f : CopiedBy(f, L, e, max, newlines)
    BY <1>2, EntryCopied, Zenon
  <2> QED
    BY <2>1, Zenon DEF CopiedBy
<1>4. Len(L) \in 0..Len(L)
  OBVIOUS
<1>5. f[Len(L)] \in Burst
  <2>1. f \in [0..Len(L) -> Burst]
    BY <1>3, Zenon DEF CopyRun
  <2> QED
    BY <1>4, <2>1, Zenon
<1>6. f[Len(L)].text \in Seq(Nat)
  BY <1>5 DEF Burst
<1> QED
  BY <1>3, <1>6, Zenon

(* So is what is returned of the first entry of a name.                    *)
LEMMA FormStringTyped ==
  ASSUME NEW v \in Seq(EntryShape), NEW name, NEW max \in Nat \ {0}
  PROVE  /\ FormString(v, name, max).text \in Seq(Nat)
         /\ FormStringNoNewlines(v, name, max).text \in Seq(Nat)
<1>1. CASE Found(v, name)
  <2>1. First(v, name) \in EntryShape
    <3>1. PICK m \in Named(v, name) : First(v, name) = v[m]
      BY <1>1, FirstFound
    <3>2. m \in 1..Len(v)
      BY DEF Named
    <3> QED
      BY <3>1, <3>2
  <2>2. TRUE \in BOOLEAN /\ FALSE \in BOOLEAN
    OBVIOUS
  <2>3. /\ EntryString(First(v, name), max, TRUE).text \in Seq(Nat)
        /\ EntryString(First(v, name), max, FALSE).text \in Seq(Nat)
    BY <2>1, <2>2, EntryTyped, Zenon
  <2> QED
    BY <1>1, <2>3, Zenon DEF FormString, FormStringNoNewlines
<1>2. CASE ~Found(v, name)
  <2>1. NotFound.text = << >> /\ << >> \in Seq(Nat)
    BY DEF NotFound
  <2> QED
    BY <1>2, <2>1, Zenon DEF FormString, FormStringNoNewlines
<1> QED
  BY <1>1, <1>2
=============================================================================
