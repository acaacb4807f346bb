------------------------------ MODULE CgicProofs ------------------------------
(***************************************************************************)
(* Proofs about CgicRequest for any requests, any boundary, any number of  *)
(* faults and of processes one after the other.                            *)
(*                                                                         *)
(* RingInv is why mpPutBack may put letters behind those that are still in *)
(* the ring: nothing is ever put back into a ring that is not empty, but   *)
(* in the search for the first boundary, after which the ring is empty.    *)
(* OrderInv follows: what the process holds and what is still to be read   *)
(* are the end of the message.  FileInv says whose a temporary file is.    *)
(***************************************************************************)
EXTENDS CgicRequest, CgicTextProofs

Searching == {"search", "eol"}
WithFile == Searching \cup {"store"}

(* The records and sequences of the reader.                                *)
StreamInv ==
  /\ mp \in [putback : Text, offset : Int]
  /\ DOMAIN part = DOMAIN NewPart /\ DOMAIN line = DOMAIN NoLine
  /\ IsList(faults) /\ Len(faults) <= MaxFaults
  /\ served \in 0..MaxRequests /\ pc \in Steps
  /\ pc \in {"idle", "start"} => mp = NewStream /\ part = NewPart /\ entries = << >>
  /\ pc = "start" => env.query \in Text
  /\ pc \in Reading \cup {"start"} =>
       /\ stdin \in Text
       /\ req.length \in Nat /\ req.body \in Text /\ req.env.contentType \in Text

(* A message is not longer than declared, and the offset runs behind.      *)
OffsetInv ==
  /\ pc = "start" /\ req.method = "POST" => Len(stdin) <= req.length
  /\ pc \in Reading => mp.offset + Len(mp.putback) + Len(stdin) <= req.length

(* The boundary that is looked for, and how much of it was seen.           *)
DelimiterInv ==
  pc \in Searching =>
    /\ part.first \in BOOLEAN /\ part.to \in {"nowhere", "memory", "file"}
    /\ part.first <=> part.to = "nowhere"
    /\ part.delim \in Text /\ part.out \in Text
    /\ part.matched \in 0..Len(part.delim)
    /\ pc = "search" => part.matched < Len(part.delim)
    /\ ~part.first => /\ part.delim[1] = CR
                      /\ \A i \in 2..Len(part.delim) : part.delim[i] # CR

(* What is in the ring.                                                    *)
RingInv ==
  /\ pc = "search" /\ part.first => Len(mp.putback) + part.matched <= Len(part.delim)
  /\ pc = "search" /\ ~part.first =>
       /\ part.matched > 0 => mp.putback = << >>
       /\ \A i \in 1..Len(mp.putback) - 1 : mp.putback[i] # CR
  /\ pc = "eol" => mp.putback = << >>
  /\ pc \in {"part", "store", "header"} => Len(mp.putback) <= 2
  /\ pc \in {"cr", "body"} => Len(mp.putback) <= 1
  /\ pc = "header" => /\ Len(mp.putback) = 2 => line.attr = << >> /\ ~line.skip
                      /\ line.skip => mp.putback = << >>

Held == part.out \o SubSeq(part.delim, 1, part.matched)
Rest == mp.putback \o stdin

OrderInv ==
  /\ pc = "start" => stdin = req.body
  /\ pc \in Reading => Ends(stdin, req.body)
  /\ pc \in Reading /\ pc # "search" => Ends(Rest, req.body)
  /\ pc = "search" /\ ~part.first => Ends(Held \o Rest, req.body)

(* A list of entries on a disk: an entry's file exists and is its own.     *)
Owned(es, disk) ==
  /\ IsList(es) /\ DOMAIN disk \subseteq TempFiles
  /\ \A i \in DOMAIN es :
       /\ es[i].tfile \in TempFiles \cup {NoFile, Junk}
       /\ es[i].tfile \in TempFiles => es[i].tfile \in DOMAIN disk
  /\ \A i, j \in DOMAIN es :
       i # j /\ es[i].tfile \in TempFiles => es[i].tfile # es[j].tfile
Unowned(file, es) ==
  \A i \in DOMAIN es : es[i].tfile \in TempFiles => es[i].tfile # file

(* The file of the part being read exists, and is no entry's.              *)
EntryInv ==
  /\ Owned(entries, files)
  /\ pc \in WithFile => /\ part.file \in DOMAIN files \cup {NoFile}
                        /\ part.to = "file" => part.file \in DOMAIN files
                        /\ Unowned(part.file, entries)

(* A file belongs to an entry, to the part being read, or to nobody alive, *)
(* or it is empty and could not be opened.                                 *)
Spare(f) == Happened({"fopen"}) /\ files[f] = << >>
FileInv ==
  \A f \in DOMAIN files :
    \/ f \in orphans
    \/ \E i \in DOMAIN entries : entries[i].tfile = f
    \/ pc \in WithFile /\ part.to = "file" /\ part.file = f
    \/ Spare(f)

ReaderInv == StreamInv /\ OffsetInv /\ DelimiterInv /\ RingInv /\ OrderInv
IInv == ReaderInv /\ EntryInv /\ FileInv

-----------------------------------------------------------------------------
(* What mpRead(n) does: it takes the first letters of ring and input, the  *)
(* ring first, and never moves the offset past what is read.               *)
IsRead(n, r) ==
  /\ r.got \in Seq(Nat) /\ r.rest \in Seq(Nat)
  /\ r.stream \in [putback : Seq(Nat), offset : Int]
  /\ Len(r.got) <= n /\ (Len(mp.putback) >= n => Len(r.got) = n)
  /\ Len(mp.putback) < n => Len(r.got) >= Len(mp.putback)
  /\ Len(r.stream.putback) = IF Len(mp.putback) >= n THEN Len(mp.putback) - n ELSE 0
  /\ \A i \in 1..Len(r.stream.putback) : r.stream.putback[i] = mp.putback[n + i]
  /\ \A i \in 1..n : i <= Len(mp.putback) => r.got[i] = mp.putback[i]
  /\ \E u \in Seq(Nat) : stdin = u \o r.rest
  /\ r.got \o (r.stream.putback \o r.rest) = mp.putback \o stdin
  /\ r.stream.offset + Len(r.stream.putback) + Len(r.rest)
       <= mp.offset + Len(mp.putback) + Len(stdin)

(* What mpRead returns and leaves, for any number of letters.              *)
LEMMA ReadFacts ==
  ASSUME mp \in [putback : Text, offset : Int], stdin \in Text, req.length \in Nat,
         NEW n \in Nat
  PROVE  IsRead(n, Read(n))
<1>1. PICK ring, off, room : ring = mp.putback /\ off = mp.offset /\ room = req.length - mp.offset
  OBVIOUS
<1>2. ring \in Seq(Nat) /\ off \in Int /\ room \in Int /\ stdin \in Seq(Nat)
  BY <1>1 DEF Text
<1>3. PICK back : back = Fit(ring, n + 1)
  OBVIOUS
<1>4. PICK left, asked : left = SubSeq(ring, Len(back) + 1, Len(ring))
                         /\ asked = Min({n - Len(back), room})
  OBVIOUS
<1>5. PICK fresh : fresh = SubSeq(stdin, 1, Min({asked, Len(stdin)}))
  OBVIOUS
<1>6. PICK rest : rest = SubSeq(stdin, Len(fresh) + 1, Len(stdin))
  OBVIOUS
<1>7. IsTaken(ring, stdin, n, back, left, fresh, rest)
  <2>1. room \in Int
    BY <1>2
  <2> QED
    BY ONLY <1>2, <1>3, <1>4, <1>5, <1>6, <2>1, n \in Nat, TakeFirst, Zenon
<1>8. Read(n) = [got |-> back \o fresh,
                 stream |-> [putback |-> left,
                             offset |-> IF asked = 0 THEN off
                                        ELSE off + Len(back) + Len(fresh)],
                 rest |-> rest]
  BY <1>1, <1>3, <1>4, <1>5, <1>6, Zenon DEF Read, Allowed
<1>9. PICK offset : offset = IF asked = 0 THEN off ELSE off + Len(back) + Len(fresh)
  OBVIOUS
<1>10. PICK r : r = Read(n)
  OBVIOUS
<1>11. r.got = back \o fresh /\ r.stream = [putback |-> left, offset |-> offset]
       /\ r.stream.putback = left /\ r.stream.offset = offset /\ r.rest = rest
  BY <1>8, <1>9, <1>10
<1>12. /\ back \in Seq(Nat) /\ left \in Seq(Nat) /\ fresh \in Seq(Nat) /\ rest \in Seq(Nat)
       /\ \A i \in 1..Len(left) : left[i] = ring[n + i]
       /\ \A i \in 1..Len(back) : back[i] = ring[i]
       /\ stdin = fresh \o rest
       /\ (back \o fresh) \o (left \o rest) = ring \o stdin
  BY <1>7, Zenon DEF IsTaken
<1>13. PICK b \in Nat, f \in Nat, l \in Nat, t \in Nat, p \in Nat, s \in Nat :
         /\ b = Len(back) /\ f = Len(fresh) /\ l = Len(left) /\ t = Len(rest)
         /\ p = Len(ring) /\ s = Len(stdin)
  BY <1>2, <1>12
<1>14. /\ b = IF p >= n THEN n ELSE p
       /\ l = IF p >= n THEN p - n ELSE 0
       /\ b + f <= n /\ t = s - f
  BY <1>7, <1>13, Zenon DEF IsTaken
<1>15. /\ b + f <= n /\ (p >= n => b + f = n) /\ (p < n => b + f >= p)
       /\ \A i \in 1..n : i <= p => i \in 1..b
  BY ONLY <1>14, b \in Nat, f \in Nat, p \in Nat, n \in Nat
<1>16. offset \in Int /\ offset + l + t <= off + p + s
  <2>1. offset = IF asked = 0 THEN off ELSE off + b + f
    BY <1>9, <1>13, Zenon
  <2>2. off \in Int
    BY <1>2
  <2> QED
    BY ONLY <1>14, <2>1, <2>2, b \in Nat, f \in Nat, l \in Nat, t \in Nat, p \in Nat,
       s \in Nat, n \in Nat
<1>17. r.got \in Seq(Nat) /\ Len(r.got) = b + f /\ \A i \in 1..b : r.got[i] = back[i]
  <2>1. /\ back \o fresh \in Seq(Nat) /\ Len(back \o fresh) = Len(back) + Len(fresh)
        /\ \A i \in 1..Len(back) : (back \o fresh)[i] = back[i]
    BY ONLY <1>12, ConcatProperties
  <2> QED
    BY <2>1, <1>11, <1>13, Zenon
<1>18. \A i \in 1..n : i <= p => r.got[i] = ring[i]
  BY <1>12, <1>13, <1>15, <1>17, Zenon
<1>19. r.stream \in [putback : Seq(Nat), offset : Int]
  BY <1>11, <1>12, <1>16
<1>20. \E u \in Seq(Nat) : stdin = u \o r.rest
  BY <1>11, <1>12, Zenon
<1>21. /\ Len(r.got) <= n /\ (p >= n => Len(r.got) = n) /\ (p < n => Len(r.got) >= p)
       /\ Len(r.stream.putback) = IF p >= n THEN p - n ELSE 0
       /\ r.stream.offset + Len(r.stream.putback) + Len(r.rest) <= off + p + s
  BY <1>11, <1>13, <1>14, <1>15, <1>16, <1>17, Zenon
<1>22. IsRead(n, r)
  BY <1>1, <1>11, <1>12, <1>13, <1>17, <1>18, <1>19, <1>20, <1>21, Zenon DEF IsRead
<1> QED
  BY <1>10, <1>22, Zenon
(* A boundary behind a line end begins with the only CR in it.             *)
LEMMA DelimiterFacts ==
  ASSUME req.env.contentType \in Text
  PROVE  /\ Delimiter(TRUE) \in Seq(Nat) /\ Len(Delimiter(TRUE)) >= 2
         /\ Delimiter(FALSE) \in Seq(Nat) /\ Len(Delimiter(FALSE)) >= 4
         /\ Delimiter(FALSE)[1] = CR
         /\ \A i \in 2..Len(Delimiter(FALSE)) : Delimiter(FALSE)[i] # CR
<1>1. PICK type : type = req.env.contentType /\ type \in Seq(Nat)
  BY DEF Text
<1>2. PICK b : b = BoundaryOf(type, BoundaryWord)
  OBVIOUS
<1>3. b \in Seq(Nat \ Whitespace)
  BY ONLY <1>1, <1>2, BoundaryFacts
<1>4. b \in Seq(Nat) /\ \A i \in 1..Len(b) : b[i] # CR
  <2>1. CR \in Whitespace
    BY DEF Whitespace
  <2>2. \A i \in 1..Len(b) : b[i] \in Nat \ Whitespace
    BY <1>3
  <2>3. b \in Seq(Nat)
    BY <1>3, <2>2
  <2> QED
    BY <2>1, <2>2, <2>3
<1>5. PICK e, t : e = <<CR, LF>> /\ t = <<DASH, DASH>>
  OBVIOUS
<1>6. /\ e \in Seq(Nat) /\ Len(e) = 2 /\ e[1] = CR /\ e[2] # CR
      /\ t \in Seq(Nat) /\ Len(t) = 2 /\ t[1] # CR /\ t[2] # CR
  BY <1>5 DEF CR, LF, DASH
<1>7. << >> \o t = t
  BY <1>6, ConcatEmptySeq
<1>8. Delimiter(TRUE) = t \o b /\ Delimiter(FALSE) = (e \o t) \o b
  BY <1>1, <1>2, <1>5, <1>7, Zenon DEF Delimiter
<1>9. Two(t, b) /\ Two(e, t)
  BY <1>4, <1>6 DEF Two
<1>10. PICK f : f = e \o t
  OBVIOUS
<1>11. /\ f \in Seq(Nat) /\ Len(f) = 4
       /\ f[1] = CR /\ \A i \in 2..4 : f[i] # CR
  <2>1. /\ f \in Seq(Nat) /\ Len(f) = 2 + 2
        /\ \A i \in 1..2 : f[i] = e[i]
        /\ \A i \in 1..2 : f[2 + i] = t[i]
    <3>1. /\ e \o t \in Seq(Nat) /\ Len(e \o t) = Len(e) + Len(t)
          /\ \A i \in 1..Len(e) : (e \o t)[i] = e[i]
          /\ \A i \in 1..Len(t) : (e \o t)[Len(e) + i] = t[i]
      BY ONLY <1>9, Joined
    <3> QED
      BY <1>6, <1>10, <3>1, Zenon
  <2>2. f[1] = e[1] /\ f[2] = e[2] /\ f[3] = t[1] /\ f[4] = t[2]
    <3>1. f[2 + 1] = t[1] /\ f[2 + 2] = t[2]
      BY <2>1
    <3> QED
      BY <2>1, <3>1
  <2>3. \A i \in 2..4 : i = 2 \/ i = 3 \/ i = 4
    OBVIOUS
  <2> QED
    BY <1>6, <2>1, <2>2, <2>3
<1>12. Two(f, b)
  BY <1>4, <1>11 DEF Two
<1>13. /\ t \o b \in Seq(Nat) /\ Len(t \o b) = 2 + Len(b)
       /\ f \o b \in Seq(Nat) /\ Len(f \o b) = 4 + Len(b)
       /\ \A i \in 1..4 : (f \o b)[i] = f[i]
       /\ \A i \in 1..Len(b) : (f \o b)[4 + i] = b[i]
  <2>1. t \o b \in Seq(Nat) /\ Len(t \o b) = Len(t) + Len(b)
    BY ONLY <1>9, Joined
  <2>2. /\ f \o b \in Seq(Nat) /\ Len(f \o b) = Len(f) + Len(b)
        /\ \A i \in 1..Len(f) : (f \o b)[i] = f[i]
        /\ \A i \in 1..Len(b) : (f \o b)[Len(f) + i] = b[i]
    BY ONLY <1>12, Joined
  <2> QED
    BY <1>6, <1>11, <2>1, <2>2, Zenon
<1>14. PICK n \in Nat : n = Len(b)
  BY <1>4
<1>15. \A i \in 2..4 + n : (f \o b)[i] # CR
  <2> TAKE i \in 2..4 + n
  <2>1. CASE i <= 4
    BY <2>1, <1>11, <1>13
  <2>2. CASE ~(i <= 4)
    <3>1. PICK j \in 1..n : i = 4 + j
      <4>1. i - 4 \in 1..n /\ i = 4 + (i - 4)
        BY <2>2
      <4> QED
        BY <4>1, Zenon
    <3> QED
      BY <3>1, <1>4, <1>13, <1>14, Zenon
  <2> QED
    BY <2>1, <2>2
<1>16. 2 + n >= 2 /\ 4 + n >= 4 /\ 1 \in 1..4
  OBVIOUS
<1>17. Delimiter(TRUE) \in Seq(Nat) /\ Len(Delimiter(TRUE)) >= 2
  BY <1>8, <1>13, <1>14, <1>16, Zenon
<1>18. /\ Delimiter(FALSE) = f \o b /\ f \o b \in Seq(Nat) /\ Len(f \o b) = 4 + n
       /\ 4 + n >= 4 /\ (f \o b)[1] = CR
  BY <1>8, <1>10, <1>11, <1>13, <1>14, <1>16, Zenon
<1> QED
  BY <1>15, <1>17, <1>18, Zenon

-----------------------------------------------------------------------------
(* The steps of the reader.                                                *)

Fields == {"first", "delim", "matched", "to", "out", "file"}

(* What is known of a reader that looks for a boundary.                    *)
LEMMA SearchFacts ==
  ASSUME ReaderInv, pc \in Searching
  PROVE  /\ part.delim \in Seq(Nat) /\ part.out \in Seq(Nat) /\ part.matched \in Nat
         /\ part.matched <= Len(part.delim)
         /\ pc = "search" => part.matched < Len(part.delim)
         /\ Fields \subseteq DOMAIN part
         /\ part.first \in BOOLEAN /\ part.to \in {"nowhere", "memory", "file"}
         /\ part.first <=> part.to = "nowhere"
         /\ ~part.first => /\ part.delim[1] = CR
                           /\ \A i \in 2..Len(part.delim) : part.delim[i] # CR
<1>1. Fields \subseteq DOMAIN part
  BY DEF ReaderInv, StreamInv, NewPart, Fields
<1>2. part.matched \in 0..Len(part.delim) /\ part.delim \in Seq(Nat) /\ part.out \in Seq(Nat)
  BY DEF ReaderInv, DelimiterInv, Text
<1>3. part.matched \in Nat /\ part.matched <= Len(part.delim)
  BY <1>2
<1> QED
  BY <1>1, <1>2, <1>3, Zenon DEF ReaderInv, DelimiterInv

(* What is known of it wherever it reads.                                  *)
LEMMA ReadingFacts ==
  ASSUME ReaderInv, pc \in Reading, NEW n \in Nat
  PROVE  /\ IsRead(n, Read(n))
         /\ mp.putback \in Seq(Nat) /\ stdin \in Seq(Nat) /\ mp.offset \in Int
         /\ req.length \in Nat /\ req.body \in Seq(Nat) /\ req.env.contentType \in Seq(Nat)
         /\ mp.offset + Len(mp.putback) + Len(stdin) <= req.length
         /\ Ends(stdin, req.body)
<1>1. mp \in [putback : Text, offset : Int] /\ stdin \in Text /\ req.length \in Nat
      /\ req.body \in Text /\ req.env.contentType \in Text
  BY Zenon DEF ReaderInv, StreamInv
<1>2. IsRead(n, Read(n))
  BY <1>1, ReadFacts, Zenon
<1>3. mp.putback \in Seq(Nat) /\ mp.offset \in Int
  BY <1>1 DEF Text
<1> QED
  BY <1>1, <1>2, <1>3, Zenon DEF ReaderInv, OffsetInv, OrderInv, Text

(* The part of the invariant that every step of the reader keeps alike:    *)
(* letters only move from the input to the ring or to the part.            *)
Moved(stream, rest) ==
  /\ stream \in [putback : Text, offset : Int] /\ rest \in Text
  /\ stream.offset + Len(stream.putback) + Len(rest)
       <= mp.offset + Len(mp.putback) + Len(stdin)
  /\ Ends(rest, req.body)

(* Reading moves the reader on in its message.                             *)
LEMMA ReadMoves ==
  ASSUME ReaderInv, pc \in Reading, NEW n \in Nat
  PROVE  Moved(Read(n).stream, Read(n).rest)
<1>1. PICK r : r = Read(n)
  OBVIOUS
<1>2. IsRead(n, r) /\ Ends(stdin, req.body) /\ req.body \in Seq(Nat)
  BY <1>1, ReadingFacts, Zenon
<1>3. PICK u \in Seq(Nat) : stdin = u \o r.rest
  BY <1>2, Zenon DEF IsRead
<1>4. r.rest \in Seq(Nat)
  BY <1>2, Zenon DEF IsRead
<1>5. Ends(r.rest, req.body)
  <2>1. Ends(u \o r.rest, req.body)
    BY <1>2, <1>3, Zenon
  <2> QED
    BY <1>2, <1>4, <2>1, EndOfEnd, Zenon
<1>6. Moved(r.stream, r.rest)
  BY <1>2, <1>5, Zenon DEF IsRead, Moved, Text
<1> QED
  BY <1>1, <1>6, Zenon

(* What was read can be put back.                                          *)
LEMMA PutBackMoves ==
  ASSUME NEW stream, NEW rest, Moved(stream, rest), NEW data, data \in Seq(Nat)
  PROVE  Moved(PutBack(stream, data), rest)
<1>1. PICK s, t, off : s = stream.putback /\ off = stream.offset /\ t = PutBack(stream, data)
  OBVIOUS
<1>2. s \in Seq(Nat) /\ off \in Int /\ rest \in Seq(Nat)
  BY <1>1 DEF Moved, Text
<1>3. t = [putback |-> s \o data, offset |-> off - Len(data)]
  BY <1>1, Zenon DEF PutBack
<1>4. s \o data \in Seq(Nat) /\ Len(s \o data) = Len(s) + Len(data)
  <2>1. Two(s, data)
    BY <1>2 DEF Two
  <2> QED
    BY ONLY <2>1, Joined
<1>5. PICK ls \in Nat, ld \in Nat : ls = Len(s) /\ ld = Len(data)
  BY <1>2
<1>6. off - ld \in Int /\ off - ld + (ls + ld) = off + ls
  BY <1>2
<1>7. t.putback = s \o data /\ t.offset = off - ld
  BY <1>3, <1>5
<1>8. t \in [putback : Text, offset : Int]
  BY <1>3, <1>4, <1>5, <1>6 DEF Text
<1>9. t.offset + Len(t.putback) + Len(rest) = stream.offset + Len(stream.putback) + Len(rest)
  BY <1>1, <1>4, <1>5, <1>6, <1>7, Zenon
<1> QED
  BY <1>1, <1>8, <1>9, Zenon DEF Moved

(* An offset and two lengths.                                              *)
LEMMA SumIsInt ==
  ASSUME NEW i \in Int, NEW m \in Nat, NEW n \in Nat
  PROVE  i + m + n \in Int
OBVIOUS

(* A step of the reader that moves letters keeps the first part of the     *)
(* invariant; the rest is about the places where it reads.                 *)
LEMMA MovedKeeps ==
  ASSUME ReaderInv, pc \in Reading, UNCHANGED <<req, served>>,
         Moved(mp', stdin'), pc' \in Steps \ {"idle", "start"},
         DOMAIN part' = DOMAIN NewPart, DOMAIN line' = DOMAIN NoLine,
         IsList(faults'), Len(faults') <= MaxFaults
  PROVE  StreamInv' /\ OffsetInv' /\ Ends(stdin', req'.body)
<1>1. /\ mp' \in [putback : Text, offset : Int] /\ stdin' \in Text
      /\ mp'.offset + Len(mp'.putback) + Len(stdin') <= mp.offset + Len(mp.putback) + Len(stdin)
      /\ Ends(stdin', req.body)
  BY Zenon DEF Moved
<1>2. StreamInv'
  BY <1>1, Zenon DEF ReaderInv, StreamInv
<1>3. OffsetInv'
  <2>1. mp.offset + Len(mp.putback) + Len(stdin) <= req.length
    BY Zenon DEF ReaderInv, OffsetInv
  <2>2. /\ mp'.offset \in Int /\ Len(mp'.putback) \in Nat /\ Len(stdin') \in Nat
        /\ mp.offset \in Int /\ Len(mp.putback) \in Nat /\ Len(stdin) \in Nat
        /\ req.length \in Nat
    <3>1. mp \in [putback : Text, offset : Int] /\ stdin \in Text /\ req.length \in Nat
      BY Zenon DEF ReaderInv, StreamInv
    <3> QED
      BY <1>1, <3>1 DEF Text
  <2>3. mp'.offset + Len(mp'.putback) + Len(stdin') <= req.length
    <3>1. /\ mp'.offset + Len(mp'.putback) + Len(stdin') \in Int
          /\ mp.offset + Len(mp.putback) + Len(stdin) \in Int
      BY <2>2, SumIsInt, Zenon
    <3>2. PICK u \in Int, w \in Int, n \in Nat :
            /\ u = mp'.offset + Len(mp'.putback) + Len(stdin')
            /\ w = mp.offset + Len(mp.putback) + Len(stdin) /\ n = req.length
      BY <2>2, <3>1, Zenon
    <3>3. u <= w /\ w <= n
      BY <1>1, <2>1, <3>2, Zenon
    <3>4. u <= n
      BY ONLY <3>3, u \in Int, w \in Int, n \in Nat
    <3> QED
      BY <3>2, <3>4, Zenon
  <2>4. ~(pc' = "start")
    OBVIOUS
  <2> QED
    BY <2>3, <2>4, Zenon DEF OffsetInv
<1> QED
  BY <1>1, <1>2, <1>3, Zenon

(* The name of a temporary file is none of the two that are no name.       *)
LEMMA TempNames ==
  /\ \A f \in TempFiles : f \in Int /\ f # NoFile /\ f # Junk
  /\ NoFile \notin TempFiles
<1>1. \A f \in TempFiles : f \in Nat /\ f # 0
  BY MultipartAssumption, Zenon
<1>2. \A f : f \in Nat /\ f # 0 => f \in Int /\ f # NoFile /\ f # Junk
  BY DEF NoFile, Junk
<1> QED
  BY <1>1, <1>2, Zenon

(* The list of faults stays a list within its bound, without a fault ...   *)
LEMMA SameFaults ==
  ASSUME ReaderInv, UNCHANGED faults
  PROVE  IsList(faults') /\ Len(faults') <= MaxFaults
BY Zenon DEF ReaderInv, StreamInv

(* ... and with one.                                                       *)
LEMMA OneFault ==
  ASSUME ReaderInv, NEW kind, Fault(kind)
  PROVE  /\ IsList(faults') /\ Len(faults') <= MaxFaults
         /\ ToSet(faults) \subseteq ToSet(faults') /\ kind \in ToSet(faults')
<1>1. IsList(faults) /\ Len(faults) <= MaxFaults
  BY Zenon DEF ReaderInv, StreamInv
<1>2. Len(faults) < MaxFaults /\ faults' = Append(faults, kind)
  BY DEF Fault
<1>3. /\ IsList(faults') /\ Len(faults') = Len(faults) + 1 /\ Len(faults) \in Nat
      /\ ToSet(faults) \subseteq ToSet(faults') /\ kind \in ToSet(faults')
  BY <1>1, <1>2, ListAppend, Zenon
<1>4. MaxFaults \in Nat
  BY MultipartAssumption
<1>5. \A n \in Nat, m \in Nat : n < m => n + 1 <= m
  OBVIOUS
<1>6. Len(faults') <= MaxFaults
  BY <1>2, <1>3, <1>4, <1>5, Zenon
<1> QED
  BY <1>3, <1>6

(* Outside the reader there is nothing more to keep.                       *)
LEMMA LeavesReader ==
  ASSUME StreamInv', OffsetInv', pc' \in Steps \ (Reading \cup {"start"})
  PROVE  ReaderInv'
BY DEF ReaderInv, DelimiterInv, RingInv, OrderInv, Searching, Reading

(* One letter in the search for a boundary.                                *)
LEMMA SearchByteKeeps ==
  ASSUME ReaderInv, SearchByte, UNCHANGED <<req, served>>
  PROVE  ReaderInv'
<1>1. pc = "search" /\ pc \in Reading /\ pc \in Searching
  BY DEF SearchByte, Reading, Searching
<1>2. PICK r, d, o, m, c, ring, new :
        /\ r = Read(1) /\ c = r.got[1] /\ ring = mp.putback /\ new = r.stream.putback
        /\ d = part.delim /\ o = part.out /\ m = part.matched
  OBVIOUS
<1>3. /\ IsRead(1, r) /\ Moved(r.stream, r.rest)
      /\ ring \in Seq(Nat) /\ stdin \in Seq(Nat) /\ req.body \in Seq(Nat)
  BY <1>1, <1>2, ReadingFacts, ReadMoves, Zenon
<1>4. /\ d \in Seq(Nat) /\ o \in Seq(Nat) /\ m \in Nat /\ m < Len(d)
      /\ Fields \subseteq DOMAIN part
      /\ part.first \in BOOLEAN /\ part.to \in {"nowhere", "memory", "file"}
      /\ part.first <=> part.to = "nowhere"
      /\ ~part.first => d[1] = CR /\ \A i \in 2..Len(d) : d[i] # CR
  BY <1>1, <1>2, SearchFacts, Zenon
<1>5. /\ r.got # << >> /\ stdin' = r.rest
      /\ UNCHANGED <<line, entries, files, faults>>
  BY <1>2, Zenon DEF SearchByte
<1>6. /\ new \in Seq(Nat) /\ r.rest \in Seq(Nat) /\ r.got \in Seq(Nat) /\ Len(r.got) <= 1
      /\ Len(new) = IF Len(ring) >= 1 THEN Len(ring) - 1 ELSE 0
      /\ \A i \in 1..Len(new) : new[i] = ring[1 + i]
      /\ \A i \in 1..1 : i <= Len(ring) => r.got[i] = ring[i]
      /\ r.got \o (new \o r.rest) = ring \o stdin
  <2>1. r.stream \in [putback : Seq(Nat), offset : Int]
    BY <1>3, Zenon DEF IsRead
  <2>2. new \in Seq(Nat)
    BY <1>2, <2>1
  <2> QED
    BY <1>2, <1>3, <2>2, Zenon DEF IsRead
<1>7. r.got = <<c>> /\ c \in Nat /\ (1 <= Len(ring) => c = ring[1])
  <2>1. Len(r.got) = 1
    <3>1. Len(r.got) # 0
      BY <1>5, <1>6, EmptyText, Zenon
    <3>2. PICK k \in Nat : k = Len(r.got)
      BY <1>6
    <3>3. k <= 1 /\ k # 0
      BY <1>6, <3>1, <3>2, Zenon
    <3>4. k = 1
      BY ONLY <3>3, k \in Nat
    <3> QED
      BY <3>2, <3>4, Zenon
  <2>2. 1 <= Len(ring) => r.got[1] = ring[1]
    <3>1. 1 \in 1..1
      OBVIOUS
    <3> QED
      BY <1>6, <3>1, Zenon
  <2> QED
    BY <1>2, <1>6, <2>1, <2>2
<1>8. RingInv /\ Ends(stdin, req.body) /\ (~part.first => Ends(Held \o Rest, req.body))
  BY <1>1, Zenon DEF ReaderInv, OrderInv
<1>9. DOMAIN line' = DOMAIN NoLine /\ IsList(faults') /\ Len(faults') <= MaxFaults
      /\ DOMAIN part = DOMAIN NewPart
  BY <1>5, SameFaults, Zenon DEF ReaderInv, StreamInv
<1>10. new \o r.rest \in Seq(Nat)
  <2>1. Two(new, r.rest)
    BY <1>6 DEF Two
  <2> QED
    BY ONLY <2>1, Joined
<1>11. PICK ln \in Nat, lr \in Nat, ld \in Nat :
          /\ ln = Len(new) /\ lr = Len(ring) /\ ld = Len(d)
          /\ ln = IF lr >= 1 THEN lr - 1 ELSE 0
  BY <1>3, <1>4, <1>6
<1>12. PICK got, u, x :
        /\ got = r.got /\ u = SubSeq(d, 1, m) /\ x = new \o r.rest
  OBVIOUS
<1>13. /\ Held \o Rest = (o \o u) \o (got \o x)
      /\ AtBoundary(o, d, m) /\ Four(o, u, got, x) /\ got = <<c>>
  <2>1. Held \o Rest = (o \o u) \o (got \o x)
    BY <1>2, <1>6, <1>12, Zenon DEF Held, Rest
  <2>2. AtBoundary(o, d, m)
    BY <1>4, Zenon DEF AtBoundary
  <2>3. SeenMore(d, m, got)
    BY <2>2, BoundaryGrows, Zenon
  <2> QED
    BY <1>6, <1>7, <1>10, <1>12, <2>1, <2>2, <2>3, Zenon
       DEF SeenMore, AtBoundary, Four, Three
<1>14. CASE /\ c = d[m + 1] /\ mp' = r.stream
            /\ part' = [part EXCEPT !.matched = @ + 1]
            /\ pc' = IF m + 1 = Len(d) THEN "eol" ELSE "search"
  <2>1. /\ part'.delim = d /\ part'.out = o /\ part'.matched = m + 1
        /\ part'.to = part.to /\ part'.first = part.first
        /\ DOMAIN part' = DOMAIN NewPart
    BY <1>2, <1>4, <1>9, <1>14 DEF Fields
  <2>2. pc' \in {"eol", "search"} /\ pc' \in Steps \ {"idle", "start"} /\ pc' \in Reading
        /\ (pc' = "eol" => m + 1 = Len(d)) /\ (pc' = "search" => m + 1 # Len(d))
    BY <1>14 DEF Steps, Reading
  <2>3. StreamInv' /\ OffsetInv' /\ Ends(stdin', req'.body)
    BY <1>1, <1>3, <1>5, <1>9, <1>14, <2>1, <2>2, MovedKeeps, Zenon
  <2>4. DelimiterInv'
    <3>1. m + 1 \in 0..Len(d) /\ (m + 1 # Len(d) => m + 1 < Len(d))
      BY <1>4
    <3> QED
      BY <1>4, <2>1, <2>2, <3>1, Zenon DEF DelimiterInv, Searching, Text
  <2>5. RingInv'
    <3>1. mp'.putback = new
      BY <1>2, <1>14
    <3>2. part.first => Len(ring) + m <= Len(d)
      BY <1>1, <1>2, <1>8, Zenon DEF RingInv
    <3>3. ~part.first => /\ m > 0 => ring = << >>
                         /\ \A i \in 1..Len(ring) - 1 : ring[i] # CR
      BY <1>1, <1>2, <1>8, Zenon DEF RingInv
    <3>4. part.first => Len(new) + (m + 1) <= Len(d) /\ (m + 1 = Len(d) => Len(new) = 0)
      <4>1. m < ld /\ m \in Nat
        BY <1>4, <1>11, Zenon
      <4>2. lr + m <= ld => ln + (m + 1) <= ld /\ (m + 1 = ld => ln = 0)
        <5>1. ln = IF lr >= 1 THEN lr - 1 ELSE 0
          BY <1>11, Zenon
        <5> QED
          BY ONLY <4>1, <5>1, ln \in Nat, lr \in Nat, ld \in Nat
      <4> QED
        BY <1>11, <3>2, <4>2, Zenon
    <3>5. ~part.first => Len(new) = 0
      <4> SUFFICES ASSUME ~part.first PROVE Len(new) = 0
        OBVIOUS
      <4>1. CASE m > 0
        BY <4>1, <1>6, <3>3
      <4>2. CASE ~(m > 0)
        <5>1. c = CR
          BY <4>2, <1>4, <1>14
        <5>2. ~(Len(ring) >= 2)
          <6> SUFFICES ASSUME Len(ring) >= 2 PROVE FALSE
            OBVIOUS
          <6>1. ring[1] # CR
            BY <1>3, <3>3
          <6> QED
            BY <5>1, <6>1, <1>7
        <5> QED
          BY <5>2, <1>11
      <4> QED
        BY <4>1, <4>2
    <3>6. Len(new) = 0 => new = << >>
      BY <1>6, EmptyText
    <3>7. (pc' = "eol" \/ ~part.first) => new = << >>
      BY <3>4, <3>5, <3>6, <2>2
    <3>8. ~part.first => \A i \in 1..Len(new) - 1 : new[i] # CR
      BY <3>5
    <3> QED
      BY <2>1, <2>2, <3>1, <3>4, <3>7, <3>8, Zenon DEF RingInv
  <2>6. OrderInv'
    <3>1. mp'.putback = new
      BY <1>2, <1>14
    <3>2. pc' = "eol" => Ends(Rest', req'.body)
      <4> SUFFICES ASSUME pc' = "eol" PROVE Ends(Rest', req'.body)
        OBVIOUS
      <4>1. new = << >>
        BY <2>5, <3>1, Zenon DEF RingInv
      <4>2. Rest' = r.rest
        BY <1>5, <1>6, <3>1, <4>1, ConcatEmptySeq DEF Rest
      <4> QED
        BY <2>3, <4>2, <1>5
    <3>3. ~part.first => Ends((Held \o Rest)', req'.body)
      <4> SUFFICES ASSUME ~part.first PROVE Ends((Held \o Rest)', req'.body)
        OBVIOUS
      <4>1. SubSeq(d, 1, m + 1) = u \o got
        <5>1. SeenMore(d, m, got)
          BY <1>13, BoundaryGrows, Zenon
        <5> QED
          BY <1>14, <1>12, <1>13, <5>1, Zenon DEF SeenMore
      <4>2. (Held \o Rest)' = (o \o SubSeq(d, 1, m + 1)) \o x
        BY <1>5, <1>12, <2>1, <3>1, Zenon DEF Held, Rest
      <4>3. (o \o u) \o (got \o x) = (o \o (u \o got)) \o x
        BY ONLY <1>13, Regroup
      <4>4. req' = req /\ Ends(Held \o Rest, req.body)
        BY <1>8
      <4> QED
        BY <1>13, <4>1, <4>2, <4>3, <4>4, Zenon
    <3> QED
      BY <2>1, <2>2, <2>3, <3>2, <3>3, Zenon DEF OrderInv
  <2> QED
    BY <2>3, <2>4, <2>5, <2>6, Zenon DEF ReaderInv
<1>15. CASE /\ m > 0 /\ mp' = FalseMatch(r)
            /\ part' = [Emit(part.delim[1]) EXCEPT !.matched = 0] /\ pc' = pc
  <2>1. PICK t, h, data : t = SubSeq(d, 2, m) /\ h = <<d[1]>> /\ data = t \o got
    OBVIOUS
  <2>2. SeenLess(o, d, m)
    BY <1>15, <1>13, BoundaryFails, Zenon
  <2>3. /\ t \in Seq(Nat) /\ h \in Seq(Nat) /\ u = h \o t
        /\ Len(t) = m - 1 /\ \A i \in 1..m - 1 : t[i] = d[1 + i]
        /\ Append(o, d[1]) = o \o h /\ Append(o, d[1]) \in Seq(Nat)
    BY <1>12, <2>1, <2>2, Zenon DEF SeenLess
  <2>4. /\ data \in Seq(Nat) /\ Len(data) = Len(t) + Len(got) /\ Len(got) = 1
        /\ \A i \in 1..Len(t) : data[i] = t[i]
    <3>1. Two(t, got)
      BY <2>3, <1>6, <1>12, Zenon DEF Two
    <3>2. Len(got) = 1
      BY <1>13
    <3>3. /\ t \o got \in Seq(Nat) /\ Len(t \o got) = Len(t) + Len(got)
          /\ \A i \in 1..Len(t) : (t \o got)[i] = t[i]
      BY ONLY <3>1, Joined, SMTT(20)
    <3> QED
      BY <2>1, <3>2, <3>3, Zenon
  <2>5. /\ part'.delim = d /\ part'.matched = 0
        /\ part'.to = part.to /\ part'.first = part.first
        /\ DOMAIN part' = DOMAIN NewPart
        /\ part.first => part'.out = o
        /\ ~part.first => part'.out = Append(o, d[1])
    BY <1>2, <1>4, <1>9, <1>15 DEF Fields, Emit
  <2>6. pc' = "search" /\ pc' \in Steps \ {"idle", "start"} /\ pc' \in Reading
    BY <1>1, <1>15 DEF Steps, Reading
  <2>7. mp' = PutBack(r.stream, data)
    BY <1>2, <1>15, <1>12, <2>1, Zenon DEF FalseMatch
  <2>8. mp'.putback = new \o data
    BY <1>2, <2>7 DEF PutBack
  <2>9. StreamInv' /\ OffsetInv' /\ Ends(stdin', req'.body)
    <3>1. Moved(mp', stdin')
      BY <1>3, <1>5, <2>4, <2>7, PutBackMoves, Zenon
    <3> QED
      BY <1>1, <1>9, <2>5, <2>6, <3>1, MovedKeeps, Zenon
  <2>10. part'.out \in Seq(Nat)
    BY <1>4, <2>3, <2>5, Zenon
  <2>11. DelimiterInv'
    <3>1. 0 \in 0..Len(d) /\ 0 < Len(d)
      BY <1>4
    <3> QED
      BY <1>4, <2>5, <2>6, <2>10, <3>1, Zenon DEF DelimiterInv, Text
  <2>12. ~part.first => new = << >>
    <3> SUFFICES ASSUME ~part.first PROVE new = << >>
      OBVIOUS
    <3>1. ring = << >>
      BY <1>1, <1>2, <1>8, <1>15, Zenon DEF RingInv
    <3>2. lr = 0
      BY <1>11, <3>1
    <3>3. ln = IF lr >= 1 THEN lr - 1 ELSE 0
      BY <1>11, Zenon
    <3>4. ln = 0
      BY ONLY <3>2, <3>3
    <3> QED
      BY <1>6, <1>11, <3>4, EmptyText, Zenon
  <2>13. RingInv'
    <3>1. part.first => Len(mp'.putback) + 0 <= Len(d)
      <4> SUFFICES ASSUME part.first PROVE Len(mp'.putback) + 0 <= Len(d)
        OBVIOUS
      <4>1. lr + m <= ld
        BY <1>1, <1>2, <1>8, <1>11, Zenon DEF RingInv
      <4>2. Len(mp'.putback) = ln + (m - 1 + 1)
        <5>1. Two(new, data)
          BY <1>6, <2>4, Zenon DEF Two
        <5>2. Len(new \o data) = Len(new) + Len(data)
          BY ONLY <5>1, Joined
        <5> QED
          BY <1>11, <2>3, <2>4, <2>8, <5>2, Zenon
      <4>3. ln = IF lr >= 1 THEN lr - 1 ELSE 0
        BY <1>11, Zenon
      <4>4. m \in Nat
        BY <1>4, Zenon
      <4>5. ln + (m - 1 + 1) + 0 <= ld
        BY ONLY <4>1, <4>3, <4>4, ln \in Nat, lr \in Nat, ld \in Nat
      <4> QED
        BY <4>2, <4>5, <1>11, Zenon
    <3>2. ~part.first => \A i \in 1..Len(mp'.putback) - 1 : mp'.putback[i] # CR
      <4> SUFFICES ASSUME ~part.first, NEW i \in 1..Len(mp'.putback) - 1
                   PROVE  mp'.putback[i] # CR
        OBVIOUS
      <4>1. mp'.putback = data
        BY <2>4, <2>8, <2>12, ConcatEmptySeq, Zenon
      <4>2. PICK k : k = Len(data)
        OBVIOUS
      <4>3. k = m - 1 + 1 /\ m \in Nat /\ m < ld
        BY <1>4, <1>11, <2>3, <2>4, <4>2, Zenon
      <4>4. i \in 1..m - 1 /\ 1 + i \in 2..ld
        <5>1. i \in 1..k - 1
          BY <4>1, <4>2, Zenon
        <5> QED
          BY ONLY <4>3, <5>1, ld \in Nat
      <4>5. data[i] = d[1 + i]
        BY <2>3, <2>4, <4>4, Zenon
      <4> QED
        BY <1>4, <1>11, <4>1, <4>4, <4>5, Zenon
    <3>3. ~(part'.matched > 0)
      BY <2>5
    <3> QED
      BY <2>5, <2>6, <3>1, <3>2, <3>3, Zenon DEF RingInv
  <2>14. OrderInv'
    <3>1. ~part.first => Ends((Held \o Rest)', req'.body)
      <4> SUFFICES ASSUME ~part.first PROVE Ends((Held \o Rest)', req'.body)
        OBVIOUS
      <4>1. part'.out \o SubSeq(part'.delim, 1, part'.matched) = o \o h
        <5>1. SubSeq(d, 1, 0) = << >>
          BY SubSeqEmpty
        <5> QED
          BY <2>3, <2>5, <5>1, ConcatEmptySeq, Zenon
      <4>2. (Held \o Rest)' = (o \o h) \o (data \o r.rest)
        BY <1>5, <2>4, <2>8, <2>12, <4>1, ConcatEmptySeq, Zenon DEF Held, Rest
      <4>3. x = r.rest
        BY <1>6, <1>12, <2>12, ConcatEmptySeq, Zenon
      <4>4. Four(o, h, t, got) /\ x \in Seq(Nat)
        BY <1>13, <2>3, Zenon DEF Four, Three
      <4>5. (o \o (h \o t)) \o (got \o x) = (o \o h) \o ((t \o got) \o x)
        BY ONLY <4>4, Again, SMTT(30)
      <4>6. req' = req /\ Ends(Held \o Rest, req.body)
        BY <1>8
      <4> QED
        BY <1>13, <2>1, <2>3, <4>2, <4>3, <4>5, <4>6, Zenon
    <3> QED
      BY <2>5, <2>6, <2>9, <3>1, Zenon DEF OrderInv
  <2> QED
    BY <2>9, <2>11, <2>13, <2>14, Zenon DEF ReaderInv
<1>16. CASE m = 0 /\ mp' = r.stream /\ part' = Emit(c) /\ pc' = pc
  <2>1. /\ part'.delim = d /\ part'.matched = m
        /\ part'.to = part.to /\ part'.first = part.first
        /\ DOMAIN part' = DOMAIN NewPart
        /\ part.first => part'.out = o
        /\ ~part.first => part'.out = Append(o, c)
    BY <1>2, <1>4, <1>9, <1>16 DEF Fields, Emit
  <2>2. pc' = "search" /\ pc' \in Steps \ {"idle", "start"} /\ pc' \in Reading
    BY <1>1, <1>16 DEF Steps, Reading
  <2>3. StreamInv' /\ OffsetInv' /\ Ends(stdin', req'.body)
    BY <1>1, <1>3, <1>5, <1>9, <1>16, <2>1, <2>2, MovedKeeps, Zenon
  <2>4. Append(o, c) = o \o got /\ Append(o, c) \in Seq(Nat)
    BY <1>4, <1>7, <1>13, AppendIsConcat, AppendProperties
  <2>5. DelimiterInv'
    <3>1. m \in 0..Len(d) /\ m < Len(d)
      BY <1>4
    <3>2. part'.out \in Seq(Nat)
      BY <1>4, <2>1, <2>4, Zenon
    <3> QED
      BY <1>4, <2>1, <2>2, <3>1, <3>2, Zenon DEF DelimiterInv, Text
  <2>6. RingInv'
    <3>1. mp'.putback = new
      BY <1>2, <1>16
    <3>2. part.first => Len(new) + m <= Len(d)
      <4>1. part.first => lr + m <= ld
        BY <1>1, <1>2, <1>8, <1>11, Zenon DEF RingInv
      <4>2. ln = (IF lr >= 1 THEN lr - 1 ELSE 0) /\ m \in Nat
        BY <1>4, <1>11, Zenon
      <4>3. lr + m <= ld => ln + m <= ld
        BY ONLY <4>2, ln \in Nat, lr \in Nat, ld \in Nat
      <4> QED
        BY <1>11, <4>1, <4>3, Zenon
    <3>3. ~part.first => \A i \in 1..Len(new) - 1 : new[i] # CR
      <4> SUFFICES ASSUME ~part.first, NEW i \in 1..Len(new) - 1 PROVE new[i] # CR
        OBVIOUS
      <4>1. \A j \in 1..lr - 1 : ring[j] # CR
        BY <1>1, <1>2, <1>8, <1>11, Zenon DEF RingInv
      <4>2. i \in 1..ln - 1 /\ ln = IF lr >= 1 THEN lr - 1 ELSE 0
        BY <1>11, Zenon
      <4>3. 1 + i \in 1..lr - 1 /\ i \in 1..ln
        BY ONLY <4>2, ln \in Nat, lr \in Nat
      <4>4. new[i] = ring[1 + i]
        BY <1>6, <1>11, <4>3, Zenon
      <4> QED
        BY <4>1, <4>3, <4>4, Zenon
    <3>4. ~(part'.matched > 0)
      BY <1>16, <2>1
    <3> QED
      BY <2>1, <2>2, <3>1, <3>2, <3>3, <3>4, Zenon DEF RingInv
  <2>7. OrderInv'
    <3>1. ~part.first => Ends((Held \o Rest)', req'.body)
      <4> SUFFICES ASSUME ~part.first PROVE Ends((Held \o Rest)', req'.body)
        OBVIOUS
      <4>1. u = << >>
        BY <1>16, <1>12, SubSeqEmpty
      <4>2. part'.out \o SubSeq(part'.delim, 1, part'.matched) = o \o got
        BY <1>16, <1>12, <2>1, <2>4, <4>1, ConcatEmptySeq, Zenon
      <4>3. (Held \o Rest)' = (o \o got) \o x
        BY <1>2, <1>5, <1>16, <1>12, <4>2, Zenon DEF Held, Rest
      <4>4. Held \o Rest = o \o (got \o x)
        BY <1>4, <1>13, <4>1, ConcatEmptySeq, Zenon
      <4>5. (o \o got) \o x = o \o (got \o x)
        <5>1. Three(o, got, x)
          BY <1>13, Zenon DEF Four, Three
        <5> QED
          BY ONLY <5>1, Assoc
      <4>6. req' = req /\ Ends(Held \o Rest, req.body)
        BY <1>8
      <4> QED
        BY <4>3, <4>4, <4>5, <4>6, Zenon
    <3> QED
      BY <2>1, <2>2, <2>3, <3>1, Zenon DEF OrderInv
  <2> QED
    BY <2>3, <2>5, <2>6, <2>7, Zenon DEF ReaderInv
<1> QED
  BY <1>2, <1>14, <1>15, <1>16, Zenon DEF SearchByte, Goto

-----------------------------------------------------------------------------
(* The steps between two searches: nothing is put back into a ring that    *)
(* still holds letters.                                                    *)

Between == {"part", "store", "header", "cr", "body"}

(* Reading n letters from a ring of no more than n empties it, and putting *)
(* them back undoes it.                                                    *)
Undone(n, r) ==
  Len(mp.putback) <= n =>
    /\ r.stream.putback = << >>
    /\ Moved(PutBack(r.stream, r.got), r.rest)
    /\ PutBack(r.stream, r.got).putback = r.got
    /\ Ends(r.got \o r.rest, req.body)

(* Outside the search a reader reads on, and may put back what it has read *)
(* if the ring held no more than that.                                     *)
LEMMA ReadOn ==
  ASSUME ReaderInv, pc \in Reading \ {"search"}, NEW n \in Nat, NEW r, r = Read(n)
  PROVE  /\ Moved(r.stream, r.rest)
         /\ Ends(r.stream.putback \o r.rest, req.body)
         /\ r.got \in Seq(Nat) /\ Len(r.got) <= n
         /\ r.stream.putback \in Seq(Nat)
         /\ Len(r.stream.putback) = IF Len(mp.putback) >= n THEN Len(mp.putback) - n ELSE 0
         /\ Undone(n, r)
<1>1. IsRead(n, r) /\ Moved(r.stream, r.rest) /\ req.body \in Seq(Nat)
      /\ mp.putback \in Seq(Nat)
  BY ReadingFacts, ReadMoves, Zenon
<1>2. PICK new, got, rest : new = r.stream.putback /\ got = r.got /\ rest = r.rest
  OBVIOUS
<1>3. /\ new \in Seq(Nat) /\ got \in Seq(Nat) /\ rest \in Seq(Nat) /\ Len(got) <= n
      /\ Len(new) = IF Len(mp.putback) >= n THEN Len(mp.putback) - n ELSE 0
      /\ got \o (new \o rest) = mp.putback \o stdin
  <2>1. r.stream \in [putback : Seq(Nat), offset : Int]
    BY <1>1, Zenon DEF IsRead
  <2>2. new \in Seq(Nat)
    BY <1>2, <2>1
  <2> QED
    BY <1>1, <1>2, <2>2, Zenon DEF IsRead
<1>4. Ends(got \o (new \o rest), req.body)
  BY <1>3, Zenon DEF ReaderInv, OrderInv, Rest
<1>5. new \o rest \in Seq(Nat)
  <2>1. Two(new, rest)
    BY <1>3 DEF Two
  <2> QED
    BY ONLY <2>1, Joined
<1>6. Ends(new \o rest, req.body)
  BY <1>1, <1>3, <1>4, <1>5, EndOfEnd, Zenon
<1>7. Undone(n, r)
  <2> SUFFICES ASSUME Len(mp.putback) <= n
               PROVE  /\ new = << >> /\ Moved(PutBack(r.stream, r.got), r.rest)
                      /\ PutBack(r.stream, r.got).putback = r.got
                      /\ Ends(r.got \o r.rest, req.body)
    BY <1>2, Zenon DEF Undone
  <2>1. PICK p \in Nat : p = Len(mp.putback)
    BY <1>1
  <2>2. (IF p >= n THEN p - n ELSE 0) = 0
    BY <2>1
  <2>3. new = << >>
    BY <1>3, <2>1, <2>2, EmptyText, Zenon
  <2>4. Moved(PutBack(r.stream, r.got), r.rest)
    BY <1>1, <1>2, <1>3, PutBackMoves, Zenon
  <2>5. PutBack(r.stream, r.got).putback = new \o got
    BY <1>2 DEF PutBack
  <2>6. new \o got = got /\ new \o rest = rest
    BY <1>3, <2>3, ConcatEmptySeq, Zenon
  <2> QED
    BY <1>2, <1>4, <2>3, <2>4, <2>5, <2>6, Zenon
<1> QED
  BY <1>1, <1>2, <1>3, <1>6, <1>7, Zenon

(* Where nothing is read nothing moves.                                    *)
LEMMA StandsStill ==
  ASSUME ReaderInv, pc \in Reading
  PROVE  /\ Moved(mp, stdin)
         /\ pc # "search" => Ends(mp.putback \o stdin, req.body)
         /\ Len(mp.putback) \in Nat
         /\ DOMAIN part = DOMAIN NewPart /\ DOMAIN line = DOMAIN NoLine
<1>1. mp \in [putback : Text, offset : Int] /\ stdin \in Text
      /\ DOMAIN part = DOMAIN NewPart /\ DOMAIN line = DOMAIN NoLine
  BY Zenon DEF ReaderInv, StreamInv
<1>2. PICK k : k = mp.offset + Len(mp.putback) + Len(stdin)
  OBVIOUS
<1>3. k \in Int /\ Len(mp.putback) \in Nat
  BY <1>1, <1>2 DEF Text
<1>4. k <= k
  BY <1>3
<1>5. Moved(mp, stdin)
  BY <1>1, <1>2, <1>4, Zenon DEF Moved, ReaderInv, OrderInv
<1> QED
  BY <1>1, <1>3, <1>5, Zenon DEF ReaderInv, OrderInv, Rest

(* What a step to one of these places has to show.                         *)
LEMMA ReadsOn ==
  ASSUME ReaderInv, pc \in Reading, UNCHANGED <<req, served>>,
         Moved(mp', stdin'), Ends(mp'.putback \o stdin', req.body), pc' \in Between,
         DOMAIN part' = DOMAIN NewPart, DOMAIN line' = DOMAIN NoLine,
         IsList(faults'), Len(faults') <= MaxFaults, RingInv'
  PROVE  ReaderInv'
<1>1. pc' \in Steps \ {"idle", "start"} /\ pc' \notin {"search", "eol", "start"}
  BY DEF Between, Steps
<1>2. StreamInv' /\ OffsetInv' /\ Ends(stdin', req'.body)
  BY <1>1, MovedKeeps, Zenon
<1>3. DelimiterInv'
  BY <1>1, Zenon DEF DelimiterInv, Searching
<1>4. OrderInv'
  BY <1>1, <1>2, Zenon DEF OrderInv, Rest
<1> QED
  BY <1>2, <1>3, <1>4, Zenon DEF ReaderInv

(* A step that ends the reading has less to show.                          *)
LEMMA StopsReading ==
  ASSUME ReaderInv, pc \in Reading, UNCHANGED <<req, served>>, Moved(mp', stdin'),
         pc' \in {"main", "failed", "crashed"},
         DOMAIN part' = DOMAIN NewPart, DOMAIN line' = DOMAIN NoLine,
         IsList(faults'), Len(faults') <= MaxFaults
  PROVE  ReaderInv'
<1>1. pc' \in Steps \ {"idle", "start"} /\ pc' \in Steps \ (Reading \cup {"start"})
  BY DEF Reading, Steps
<1>2. StreamInv' /\ OffsetInv'
  BY <1>1, MovedKeeps, Zenon
<1> QED
  BY <1>1, <1>2, LeavesReader, Zenon

(* Behind a boundary.                                                      *)
LEMMA SearchEndKeeps ==
  ASSUME ReaderInv, SearchEnd, UNCHANGED <<req, served>>
  PROVE  ReaderInv'
<1>1. pc = "eol" /\ pc \in Reading /\ pc \in Reading \ {"search"}
  BY DEF SearchEnd, Reading
<1>2. PICK r : r = Read(2)
  OBVIOUS
<1>3. /\ Len(r.got) = 2 /\ stdin' = r.rest /\ UNCHANGED <<line, part, entries, files, faults>>
      /\ mp' = IF r.got[1] = DASH THEN PutBack(r.stream, r.got) ELSE r.stream
      /\ pc' \in {"part", "store"}
  BY <1>2 DEF SearchEnd, Goto
<1>4. mp.putback = << >> /\ Len(mp.putback) = 0
  <2>1. mp.putback = << >>
    BY <1>1, Zenon DEF ReaderInv, RingInv
  <2> QED
    BY <2>1
<1>5. Len(mp.putback) <= 2
  BY <1>4
<1>6. /\ Moved(r.stream, r.rest) /\ Ends(r.stream.putback \o r.rest, req.body)
      /\ Undone(2, r)
  BY <1>1, <1>2, ReadOn, 2 \in Nat, Zenon
<1>7. /\ r.stream.putback = << >> /\ Moved(PutBack(r.stream, r.got), r.rest)
      /\ PutBack(r.stream, r.got).putback = r.got /\ Ends(r.got \o r.rest, req.body)
  BY <1>5, <1>6, Zenon DEF Undone
<1>8. Moved(mp', stdin') /\ Ends(mp'.putback \o stdin', req.body)
  BY <1>3, <1>6, <1>7, Zenon
<1>9. Len(mp'.putback) <= 2
  <2>1. Len(r.got) <= 2 /\ Len(r.stream.putback) <= 2
    BY <1>3, <1>7
  <2> QED
    BY <1>3, <1>7, <2>1, Zenon
<1>10. RingInv'
  BY <1>3, <1>9 DEF RingInv
<1>11. pc' \in Between
  BY <1>3 DEF Between
<1>12. DOMAIN part' = DOMAIN NewPart /\ DOMAIN line' = DOMAIN NoLine
  BY <1>1, <1>3, StandsStill, Zenon
<1> QED
  BY <1>1, <1>3, <1>8, <1>10, <1>11, <1>12, SameFaults, ReadsOn, Zenon

(* Reading stops, and the part is given up.                                *)
LEMMA GivesUp ==
  ASSUME ReaderInv, pc \in Reading, UNCHANGED <<req, served, stdin, mp, line>>,
         pc' \in {"main", "failed", "crashed"}, part' \in {part, NewPart},
         IsList(faults'), Len(faults') <= MaxFaults
  PROVE  ReaderInv'
<1>1. DOMAIN part' = DOMAIN NewPart /\ DOMAIN line' = DOMAIN NoLine /\ Moved(mp', stdin')
  BY StandsStill, Zenon
<1> QED
  BY <1>1, StopsReading, Zenon

(* A search that ends without a boundary gives up.                         *)
LEMMA SearchFailsKeeps ==
  ASSUME ReaderInv, UNCHANGED <<req, served>>, SearchFails \/ SearchNoMemory
  PROVE  ReaderInv'
<1>1. CASE SearchFails
  <2>1. /\ pc \in Reading /\ pc' \in {"main", "failed", "crashed"} /\ part' \in {part, NewPart}
        /\ UNCHANGED <<stdin, mp, line, faults>>
    BY <1>1 DEF SearchFails, Goto, Reading
  <2> QED
    BY <2>1, SameFaults, GivesUp, Zenon
<1>2. CASE SearchNoMemory
  <2>1. /\ pc \in Reading /\ pc' \in {"main", "failed", "crashed"} /\ part' \in {part, NewPart}
        /\ UNCHANGED <<stdin, mp, line>>
    BY <1>2 DEF SearchNoMemory, Goto, Reading
  <2>2. Fault("body")
    BY <1>2, Zenon DEF SearchNoMemory
  <2>3. IsList(faults') /\ Len(faults') <= MaxFaults
    BY <2>2, OneFault, Zenon
  <2> QED
    BY <2>1, <2>3, GivesUp, Zenon
<1> QED
  BY <1>1, <1>2

(* In front of a part.                                                     *)
LEMMA NextPartKeeps ==
  ASSUME ReaderInv, NextPart, UNCHANGED <<req, served>>
  PROVE  ReaderInv'
<1>1. pc = "part" /\ pc \in Reading /\ pc \in Reading \ {"search"}
  BY DEF NextPart, Reading
<1>2. PICK r : r = Read(2)
  OBVIOUS
<1>3. /\ stdin' = r.rest /\ part' = NewPart /\ line' = NoLine /\ UNCHANGED faults
      /\ \/ mp' = r.stream /\ pc' = "main"
         \/ mp' = PutBack(r.stream, r.got) /\ pc' = "header"
  BY <1>2, Zenon DEF NextPart, Goto
<1>4. Len(mp.putback) <= 2
  BY <1>1, Zenon DEF ReaderInv, RingInv
<1>5. /\ Moved(r.stream, r.rest) /\ Len(r.got) <= 2 /\ Undone(2, r)
  BY <1>1, <1>2, ReadOn, 2 \in Nat, Zenon
<1>6. IsList(faults') /\ Len(faults') <= MaxFaults
  BY <1>3, SameFaults, Zenon
<1>7. DOMAIN part' = DOMAIN NewPart /\ DOMAIN line' = DOMAIN NoLine
  BY <1>3, Zenon
<1>8. CASE mp' = r.stream /\ pc' = "main"
  BY <1>1, <1>3, <1>5, <1>6, <1>7, <1>8, StopsReading, Zenon
<1>9. CASE mp' = PutBack(r.stream, r.got) /\ pc' = "header"
  <2>1. Moved(mp', stdin') /\ Ends(mp'.putback \o stdin', req.body) /\ mp'.putback = r.got
    BY <1>3, <1>4, <1>5, <1>9, Zenon DEF Undone
  <2>2. line'.attr = << >> /\ ~line'.skip
    BY <1>3 DEF NoLine
  <2>3. RingInv'
    BY <1>5, <1>9, <2>1, <2>2 DEF RingInv
  <2>4. pc' \in Between
    BY <1>9 DEF Between
  <2> QED
    BY <1>1, <1>6, <1>7, <2>1, <2>3, <2>4, ReadsOn, Zenon
<1> QED
  BY <1>3, <1>8, <1>9

(* The end of a header line.                                               *)
LEMMA HeaderLineFacts ==
  ASSUME HeaderLine, DOMAIN part = DOMAIN NewPart
  PROVE  /\ line' = NoLine /\ pc' \in {"crashed", "header", "body"}
         /\ DOMAIN part' = DOMAIN NewPart /\ DOMAIN line' = DOMAIN NoLine
<1>1. PICK d : d = DecomposeValue(line.value)
  OBVIOUS
<1>2. /\ line' = NoLine
      /\ \/ pc' = "crashed" /\ part' = part
         \/ part' = Headed(d) /\ pc' = "header"
         \/ pc' = "body" /\ part' = part
  BY <1>1 DEF HeaderLine, Goto
<1>3. DOMAIN Headed(d) = DOMAIN part
  BY DEF Headed
<1> QED
  BY <1>2, <1>3

(* One letter of a header line.                                            *)
LEMMA HeaderByteKeeps ==
  ASSUME ReaderInv, HeaderByte, UNCHANGED <<req, served>>
  PROVE  ReaderInv'
<1>1. pc = "header" /\ pc \in Reading /\ pc \in Reading \ {"search"}
  BY DEF HeaderByte, Reading
<1>2. PICK r, c : r = Read(1) /\ c = r.got[1]
  OBVIOUS
<1>3. /\ stdin' = r.rest /\ UNCHANGED faults
      /\ mp' = IF line.skip /\ c \notin Whitespace THEN PutBack(r.stream, r.got) ELSE r.stream
      /\ \/ /\ line.skip
            /\ line' = [line EXCEPT !.skip = c \in Whitespace]
            /\ UNCHANGED <<part, pc>>
         \/ /\ ~line.skip /\ pc' = "cr" /\ UNCHANGED <<part, line>>
         \/ ~line.skip /\ HeaderLine
         \/ /\ ~line.skip
            /\ line' = IF c = COLON /\ line.attr # << >>
                         THEN [line EXCEPT !.found = TRUE, !.skip = TRUE]
                         ELSE IF line.found THEN [line EXCEPT !.value = Append(@, c)]
                         ELSE IF c \in Whitespace THEN line
                         ELSE [line EXCEPT !.attr = Append(@, c)]
            /\ UNCHANGED <<part, pc>>
  BY <1>2 DEF HeaderByte, Goto
<1>4. /\ Len(mp.putback) <= 2
      /\ Len(mp.putback) = 2 => line.attr = << >> /\ ~line.skip
      /\ line.skip => mp.putback = << >>
  BY <1>1, Zenon DEF ReaderInv, RingInv
<1>5. /\ DOMAIN part = DOMAIN NewPart /\ DOMAIN line = DOMAIN NoLine
      /\ IsList(faults') /\ Len(faults') <= MaxFaults
  BY <1>1, <1>3, StandsStill, SameFaults, Zenon
<1>6. /\ Moved(r.stream, r.rest) /\ Ends(r.stream.putback \o r.rest, req.body)
      /\ r.got \in Seq(Nat) /\ Len(r.got) <= 1 /\ r.stream.putback \in Seq(Nat)
      /\ Len(r.stream.putback) = IF Len(mp.putback) >= 1 THEN Len(mp.putback) - 1 ELSE 0
      /\ Undone(1, r)
  BY <1>1, <1>2, ReadOn, 1 \in Nat, Zenon
<1>7. PICK ln \in Nat, lr \in Nat, lg \in Nat :
         /\ ln = Len(r.stream.putback) /\ lr = Len(mp.putback) /\ lg = Len(r.got)
  <2>1. Len(mp.putback) \in Nat
    BY <1>1, StandsStill, Zenon
  <2>2. Len(r.stream.putback) \in Nat /\ Len(r.got) \in Nat
    BY <1>6
  <2> QED
    BY <2>1, <2>2, Zenon
<1>8. /\ lr <= 2 /\ lg <= 1 /\ (line.skip => lr = 0)
      /\ lr # 2 \/ line.attr = << >>
  BY <1>4, <1>6, <1>7
<1>9. ln = (IF lr >= 1 THEN lr - 1 ELSE 0) /\ lr <= 2 /\ lg <= 1
  BY <1>6, <1>7, <1>8, Zenon
<1>10. /\ ln <= 1 /\ ln <= 2 /\ ln # 2 /\ lg <= 2 /\ lg # 2
       /\ (lr = 0 => lr <= 1 /\ ln = 0) /\ (lr # 2 => ln = 0)
  BY ONLY <1>9, ln \in Nat, lr \in Nat, lg \in Nat
<1>11. CASE line.skip /\ c \notin Whitespace
  <2>1. /\ mp'.putback = r.got /\ Moved(mp', stdin') /\ Ends(mp'.putback \o stdin', req.body)
    <3>1. lr = 0
      BY <1>8, <1>11
    <3>2. Len(mp.putback) <= 1
      BY <1>7, <1>10, <3>1, Zenon
    <3>3. mp' = PutBack(r.stream, r.got) /\ stdin' = r.rest
      BY <1>3, <1>11, Zenon
    <3> QED
      BY <1>6, <3>2, <3>3, Zenon DEF Undone
  <2>2. line' = [line EXCEPT !.skip = c \in Whitespace] /\ UNCHANGED <<part, pc>>
    BY <1>2, <1>11 DEF HeaderByte
  <2>3. DOMAIN line' = DOMAIN NoLine /\ ~line'.skip /\ DOMAIN part' = DOMAIN NewPart
    <3>1. PICK w : w = (c \in Whitespace)
      OBVIOUS
    <3>2. ~w
      BY <1>11, <3>1, Zenon
    <3>3. line' = [line EXCEPT !.skip = w]
      BY <2>2, <3>1, Zenon
    <3>4. line'.skip = w /\ DOMAIN line' = DOMAIN NoLine
      BY <1>5, <3>3 DEF NoLine
    <3> QED
      BY <1>5, <2>2, <3>2, <3>4, Zenon
  <2>4. pc' = "header" /\ pc' \in Between
    BY <1>1, <2>2 DEF Between
  <2>5. Len(mp'.putback) <= 2 /\ Len(mp'.putback) # 2
    BY <1>7, <1>10, <2>1, Zenon
  <2>6. RingInv'
    BY <2>3, <2>4, <2>5 DEF RingInv
  <2> QED
    BY <1>1, <1>5, <2>1, <2>3, <2>4, <2>6, ReadsOn, Zenon
<1>12. CASE ~(line.skip /\ c \notin Whitespace)
  <2>1. /\ mp' = r.stream /\ Moved(mp', stdin') /\ Ends(mp'.putback \o stdin', req.body)
        /\ Len(mp'.putback) = ln /\ mp'.putback \in Seq(Nat)
    BY <1>3, <1>6, <1>7, <1>12, Zenon
  <2>2. ln = 0 => mp'.putback = << >>
    BY <2>1, EmptyText, Zenon
  <2>3. CASE /\ ~line.skip /\ HeaderLine
    <3>1. /\ line' = NoLine /\ pc' \in {"crashed", "header", "body"}
          /\ DOMAIN part' = DOMAIN NewPart /\ DOMAIN line' = DOMAIN NoLine
      BY <1>5, <2>3, HeaderLineFacts, Zenon
    <3>2. CASE pc' = "crashed"
      BY <1>1, <1>5, <2>1, <3>1, <3>2, StopsReading, Zenon
    <3>3. CASE pc' \in {"header", "body"}
      <4>1. pc' \in Between
        BY <3>3 DEF Between
      <4>2. ~line'.skip
        BY <3>1 DEF NoLine
      <4>3. RingInv'
        BY <1>10, <2>1, <3>3, <4>2 DEF RingInv
      <4> QED
        BY <1>1, <1>5, <2>1, <3>1, <4>1, <4>3, ReadsOn, Zenon
    <3> QED
      BY <3>1, <3>2, <3>3
  <2>4. CASE ~line.skip /\ pc' = "cr" /\ UNCHANGED <<part, line>>
    <3>1. pc' \in Between
      BY <2>4 DEF Between
    <3>2. RingInv'
      BY <1>10, <2>1, <2>4 DEF RingInv
    <3> QED
      BY <1>1, <1>5, <2>1, <2>4, <3>1, <3>2, ReadsOn, Zenon
  <2>5. CASE /\ UNCHANGED <<part, pc>> /\ DOMAIN line' = DOMAIN NoLine
             /\ line'.skip => ln = 0
    <3>1. pc' = "header" /\ pc' \in Between
      BY <1>1, <2>5 DEF Between
    <3>2. RingInv'
      BY <1>10, <2>1, <2>2, <2>5, <3>1 DEF RingInv
    <3> QED
      BY <1>1, <1>5, <2>1, <2>5, <3>1, <3>2, ReadsOn, Zenon
  <2>6. CASE /\ line.skip /\ line' = [line EXCEPT !.skip = c \in Whitespace]
             /\ UNCHANGED <<part, pc>>
    <3>1. DOMAIN line' = DOMAIN NoLine
      BY <1>5, <2>6
    <3>2. ln = 0
      BY <1>8, <1>10, <2>6
    <3> QED
      BY <2>5, <2>6, <3>1, <3>2
  <2>7. CASE /\ ~line.skip
             /\ line' = IF c = COLON /\ line.attr # << >>
                         THEN [line EXCEPT !.found = TRUE, !.skip = TRUE]
                         ELSE IF line.found THEN [line EXCEPT !.value = Append(@, c)]
                         ELSE IF c \in Whitespace THEN line
                         ELSE [line EXCEPT !.attr = Append(@, c)]
             /\ UNCHANGED <<part, pc>>
    <3>1. CASE c = COLON /\ line.attr # << >>
      <4>1. ln = 0
        BY <1>8, <1>10, <3>1
      <4>2. line' = [line EXCEPT !.found = TRUE, !.skip = TRUE]
        BY ONLY <2>7, <3>1
      <4>3. DOMAIN line' = DOMAIN NoLine
        BY <1>5, <4>2
      <4> QED
        BY <2>5, <2>7, <4>1, <4>3
    <3>2. CASE ~(c = COLON /\ line.attr # << >>)
      <4>1. line' \in {[line EXCEPT !.value = Append(@, c)], line,
                       [line EXCEPT !.attr = Append(@, c)]}
        BY <2>7, <3>2
      <4>2. DOMAIN line' = DOMAIN NoLine
        BY <1>5, <4>1
      <4>3. ~line'.skip
        BY <1>5, <2>7, <4>1 DEF NoLine
      <4> QED
        BY <2>5, <2>7, <4>2, <4>3
    <3> QED
      BY <3>1, <3>2
  <2> QED
    BY <1>3, <2>3, <2>4, <2>6, <2>7, Zenon
<1> QED
  BY <1>11, <1>12, Zenon

(* Behind the CR of a header line.                                         *)
LEMMA HeaderCRKeeps ==
  ASSUME ReaderInv, HeaderCR, UNCHANGED <<req, served>>
  PROVE  ReaderInv'
<1>1. pc = "cr" /\ pc \in Reading /\ pc \in Reading \ {"search"}
  BY DEF HeaderCR, Reading
<1>2. PICK r : r = Read(1)
  OBVIOUS
<1>3. /\ stdin' = r.rest /\ UNCHANGED faults /\ HeaderLine
      /\ mp' = IF r.got \in {<< >>, <<LF>>} THEN r.stream ELSE PutBack(r.stream, r.got)
  BY <1>2, Zenon DEF HeaderCR
<1>4. Len(mp.putback) <= 1
  BY <1>1, Zenon DEF ReaderInv, RingInv
<1>5. /\ DOMAIN part = DOMAIN NewPart /\ DOMAIN line = DOMAIN NoLine
      /\ IsList(faults') /\ Len(faults') <= MaxFaults
  BY <1>1, <1>3, StandsStill, SameFaults, Zenon
<1>6. /\ Moved(r.stream, r.rest) /\ Ends(r.stream.putback \o r.rest, req.body)
      /\ Len(r.got) <= 1 /\ Undone(1, r)
  BY <1>1, <1>2, ReadOn, 1 \in Nat, Zenon
<1>7. /\ r.stream.putback = << >> /\ Moved(PutBack(r.stream, r.got), r.rest)
      /\ PutBack(r.stream, r.got).putback = r.got /\ Ends(r.got \o r.rest, req.body)
  BY <1>4, <1>6, Zenon DEF Undone
<1>8. Moved(mp', stdin') /\ Ends(mp'.putback \o stdin', req.body)
  BY <1>3, <1>6, <1>7, Zenon
<1>9. Len(mp'.putback) <= 1
  <2>1. Len(r.stream.putback) <= 1
    BY <1>7
  <2> QED
    BY <1>3, <1>6, <1>7, <2>1, Zenon
<1>10. /\ line' = NoLine /\ pc' \in {"crashed", "header", "body"}
       /\ DOMAIN part' = DOMAIN NewPart /\ DOMAIN line' = DOMAIN NoLine
  BY <1>3, <1>5, HeaderLineFacts, Zenon
<1>11. CASE pc' = "crashed"
  BY <1>1, <1>5, <1>8, <1>10, <1>11, StopsReading, Zenon
<1>12. CASE pc' \in {"header", "body"}
  <2>1. pc' \in Between
    BY <1>12 DEF Between
  <2>2. ~line'.skip
    BY <1>10 DEF NoLine
  <2>3. Len(mp'.putback) <= 2 /\ Len(mp'.putback) # 2
    <3>1. mp'.putback \in Seq(Nat)
      BY <1>8 DEF Moved, Text
    <3>2. PICK n \in Nat : n = Len(mp'.putback)
      BY <3>1
    <3>3. n <= 1
      BY <1>9, <3>2, Zenon
    <3>4. n <= 2 /\ n # 2
      BY ONLY <3>3, n \in Nat
    <3> QED
      BY <3>2, <3>4, Zenon
  <2>4. RingInv'
    BY <1>9, <1>12, <2>2, <2>3 DEF RingInv
  <2> QED
    BY <1>1, <1>5, <1>8, <1>10, <2>1, <2>4, ReadsOn, Zenon
<1> QED
  BY <1>10, <1>11, <1>12

(* A step of the reader that leaves ring and input alone.                  *)
LEMMA HeaderEndsKeeps ==
  ASSUME ReaderInv, HeaderEnds, UNCHANGED <<req, served>>
  PROVE  ReaderInv'
<1>1. /\ pc = "header" /\ pc \in Reading /\ pc # "search" /\ Read(1).got = << >>
      /\ pc' = "body" /\ line' = NoLine /\ UNCHANGED <<stdin, mp, part, faults>>
  BY DEF HeaderEnds, Goto, Reading
<1>2. /\ Moved(mp', stdin') /\ Ends(mp'.putback \o stdin', req.body)
      /\ Len(mp.putback) \in Nat /\ DOMAIN part' = DOMAIN NewPart
  BY <1>1, StandsStill, Zenon
<1>3. ~(Len(mp.putback) >= 1)
  <2> SUFFICES ASSUME Len(mp.putback) >= 1 PROVE FALSE
    OBVIOUS
  <2>1. IsRead(1, Read(1))
    BY <1>1, ReadingFacts, 1 \in Nat, Zenon
  <2>2. Len(Read(1).got) = 1
    BY <2>1, Zenon DEF IsRead
  <2>3. Len(<< >>) = 0 /\ 0 # 1
    OBVIOUS
  <2> QED
    BY <1>1, <2>2, <2>3, Zenon
<1>4. Len(mp'.putback) <= 1
  BY <1>1, <1>2, <1>3
<1>5. RingInv' /\ pc' \in Between
  BY <1>1, <1>4 DEF RingInv, Between
<1> QED
  BY <1>1, <1>2, <1>5, SameFaults, ReadsOn, Zenon

(* Parts that are kept or passed over.                                     *)
LEMMA ToNextPart ==
  ASSUME ReaderInv, UNCHANGED <<req, served>>,
         pc \in {"body", "store"}, pc' = "part", UNCHANGED <<stdin, mp, line, part>>,
         IsList(faults'), Len(faults') <= MaxFaults
  PROVE  ReaderInv'
<1>1. pc \in Reading /\ pc # "search"
  BY DEF Reading
<1>2. /\ Moved(mp', stdin') /\ Ends(mp'.putback \o stdin', req.body)
      /\ Len(mp.putback) \in Nat
      /\ DOMAIN part' = DOMAIN NewPart /\ DOMAIN line' = DOMAIN NoLine
  BY <1>1, StandsStill, Zenon
<1>3. Len(mp.putback) <= 2
  <2>1. pc = "body" => Len(mp.putback) <= 1
    BY DEF ReaderInv, RingInv
  <2>2. pc = "store" => Len(mp.putback) <= 2
    BY DEF ReaderInv, RingInv
  <2> QED
    BY <1>2, <2>1, <2>2
<1>4. RingInv' /\ pc' \in Between
  BY <1>3 DEF RingInv, Between
<1> QED
  BY <1>1, <1>2, <1>4, ReadsOn, Zenon

(* A part that was stored, or is no field, is followed by the next one.    *)
LEMMA StoreKeeps ==
  ASSUME ReaderInv, UNCHANGED <<req, served>>, NotAField \/ Store \/ StoreShort
  PROVE  ReaderInv'
<1>1. CASE NotAField
  <2>1. /\ pc \in {"body", "store"} /\ pc' = "part"
        /\ UNCHANGED <<stdin, mp, line, part, faults>>
    BY <1>1 DEF NotAField, Goto, multipartVars
  <2> QED
    BY <2>1, SameFaults, ToNextPart, Zenon
<1>2. CASE Store
  <2>1. /\ pc \in {"body", "store"} /\ pc' = "part"
        /\ UNCHANGED <<stdin, mp, line, part, faults>>
    BY <1>2 DEF Store, Goto
  <2> QED
    BY <2>1, SameFaults, ToNextPart, Zenon
<1>3. CASE StoreShort
  <2>1. /\ pc \in {"body", "store"} /\ pc' = "part"
        /\ UNCHANGED <<stdin, mp, line, part>> /\ Fault("short")
    BY <1>3, Zenon DEF StoreShort, Goto
  <2> QED
    BY <2>1, OneFault, ToNextPart, Zenon
<1> QED
  BY <1>1, <1>2, <1>3

(* A part that cannot be stored ends the reading.                          *)
LEMMA StoreFailsKeeps ==
  ASSUME ReaderInv, UNCHANGED <<req, served>>, StoreNoMemory
  PROVE  ReaderInv'
<1>1. /\ pc \in Reading /\ pc' \in {"main", "failed", "crashed"} /\ part' \in {part, NewPart}
      /\ UNCHANGED <<stdin, mp, line>>
  BY DEF StoreNoMemory, Goto, Reading
<1>2. Fault("unlinked") \/ Fault("linked")
  BY Zenon DEF StoreNoMemory
<1>3. IsList(faults') /\ Len(faults') <= MaxFaults
  BY <1>2, OneFault, Zenon
<1> QED
  BY <1>1, <1>3, GivesUp, Zenon

(* The body of a part is opened: the next boundary is looked for in what   *)
(* is still to be read.                                                    *)
LEMMA CollectKeeps ==
  ASSUME ReaderInv, UNCHANGED <<req, served>>, pc = "body", pc' = "search",
         NEW to \in {"memory", "file"}, NEW file, Collect(to, file),
         UNCHANGED <<stdin, mp, line>>, IsList(faults'), Len(faults') <= MaxFaults
  PROVE  ReaderInv'
<1>1. pc \in Reading /\ pc # "search" /\ pc' \in Reading
      /\ pc' \in Steps \ {"idle", "start"} /\ pc' \in Searching
  BY DEF Reading, Steps, Searching
<1>2. /\ Moved(mp', stdin') /\ Ends(mp.putback \o stdin, req.body)
      /\ DOMAIN part = DOMAIN NewPart /\ DOMAIN line' = DOMAIN NoLine
  BY <1>1, StandsStill, Zenon
<1>3. PICK d : d = Delimiter(FALSE)
  OBVIOUS
<1>4. /\ d \in Seq(Nat) /\ Len(d) >= 4 /\ d[1] = CR /\ \A i \in 2..Len(d) : d[i] # CR
  <2>1. req.env.contentType \in Text
    BY <1>1, Zenon DEF ReaderInv, StreamInv
  <2> QED
    BY <1>3, <2>1, DelimiterFacts, Zenon
<1>5. /\ part'.first = FALSE /\ part'.delim = d /\ part'.matched = 0 /\ part'.to = to
      /\ part'.out = << >> /\ DOMAIN part' = DOMAIN NewPart
  <2>1. part' = [part EXCEPT !.first = FALSE, !.delim = d, !.matched = 0,
                             !.to = to, !.file = file, !.out = << >>]
    BY <1>3, Zenon DEF Collect
  <2> QED
    BY <1>2, <2>1 DEF NewPart
<1>6. StreamInv' /\ OffsetInv' /\ Ends(stdin', req'.body)
  BY <1>1, <1>2, <1>5, MovedKeeps, Zenon
<1>7. DelimiterInv'
  <2>1. 0 \in 0..Len(d) /\ 0 < Len(d) /\ << >> \in Text
    BY <1>4 DEF Text
  <2> QED
    BY <1>4, <1>5, <2>1 DEF DelimiterInv, Text
<1>8. RingInv'
  <2>1. Len(mp.putback) <= 1 /\ Len(mp.putback) \in Nat
    BY <1>1, StandsStill, Zenon DEF ReaderInv, RingInv
  <2>2. \A i \in 1..Len(mp.putback) - 1 : FALSE
    BY <2>1
  <2>3. ~(0 > 0)
    OBVIOUS
  <2> QED
    BY <1>5, <2>2, <2>3, Zenon DEF RingInv
<1>9. OrderInv'
  <2>1. mp.putback \o stdin \in Seq(Nat)
    <3>1. Two(mp.putback, stdin)
      BY <1>1, ReadingFacts, 0 \in Nat, Zenon DEF Two
    <3> QED
      BY ONLY <3>1, Joined
  <2>2. SubSeq(d, 1, 0) = << >> /\ << >> \o << >> = << >>
    BY SubSeqEmpty
  <2>3. << >> \o (mp.putback \o stdin) = mp.putback \o stdin
    BY <2>1, ConcatEmptySeq, Zenon
  <2>4. (Held \o Rest)' = mp.putback \o stdin
    BY <1>5, <2>2, <2>3, Zenon DEF Held, Rest
  <2> QED
    BY <1>2, <1>6, <2>4, Zenon DEF OrderInv
<1> QED
  BY <1>6, <1>7, <1>8, <1>9, Zenon DEF ReaderInv

(* A body is opened: the search for its end begins.                        *)
LEMMA OpenBodyKeeps ==
  ASSUME ReaderInv, UNCHANGED <<req, served>>, OpenBody \/ OpenBodyFails
  PROVE  ReaderInv'
<1>1. \A kind : Fault(kind) => IsList(faults') /\ Len(faults') <= MaxFaults
  BY OneFault, Zenon
<1>2. CASE OpenBody
  <2>1. /\ pc = "body" /\ pc' = "search" /\ UNCHANGED <<stdin, mp, line, faults>>
        /\ \E to \in {"memory", "file"} : \E file : Collect(to, file)
    BY <1>2, Zenon DEF OpenBody, Goto
  <2> QED
    BY <2>1, SameFaults, CollectKeeps, Zenon
<1>3. CASE OpenBodyFails
  <2>1. pc = "body" /\ pc \in Reading /\ UNCHANGED <<stdin, mp, line>>
    BY <1>3 DEF OpenBodyFails, Reading
  <2>2. \/ /\ pc' = "failed" /\ part' \in {part, NewPart}
           /\ IsList(faults') /\ Len(faults') <= MaxFaults
        \/ /\ pc' = "search" /\ Collect("memory", FreshFile)
           /\ IsList(faults') /\ Len(faults') <= MaxFaults
    BY <1>1, <1>3, SameFaults, Zenon DEF OpenBodyFails, Goto
  <2>3. CASE pc' = "failed" /\ part' \in {part, NewPart}
             /\ IsList(faults') /\ Len(faults') <= MaxFaults
    <3>1. pc' \in {"main", "failed", "crashed"}
      BY <2>3
    <3> QED
      BY <2>1, <2>3, <3>1, GivesUp, Zenon
  <2>4. CASE pc' = "search" /\ Collect("memory", FreshFile)
             /\ IsList(faults') /\ Len(faults') <= MaxFaults
    <3>1. "memory" \in {"memory", "file"}
      OBVIOUS
    <3> QED
      BY <2>1, <2>4, <3>1, CollectKeeps, Zenon
  <2> QED
    BY <2>2, <2>3, <2>4
<1> QED
  BY <1>2, <1>3

(* Every step of the reader keeps the reader's invariant.                  *)
LEMMA MultipartStepKeeps ==
  ASSUME ReaderInv, MultipartStep, UNCHANGED served
  PROVE  ReaderInv'
BY SearchByteKeeps, SearchEndKeeps, SearchFailsKeeps, NextPartKeeps, HeaderByteKeeps,
   HeaderCRKeeps, HeaderEndsKeeps, StoreKeeps, StoreFailsKeeps, OpenBodyKeeps, Zenon
   DEF MultipartStep

-----------------------------------------------------------------------------
(* The steps of the program around the reader.                             *)

(* Outside the reader its variables stay, or are reset when the process    *)
(* ends.                                                                   *)
LEMMA Outside ==
  ASSUME ReaderInv, pc' \in Steps \ (Reading \cup {"start"}),
         mp' \in {mp, NewStream}, part' \in {part, NewPart}, line' \in {line, NoLine},
         IsList(faults'), Len(faults') <= MaxFaults, served' = served,
         pc' = "idle" => mp' = NewStream /\ part' = NewPart /\ entries' = << >>
  PROVE  ReaderInv'
<1>1. NewStream \in [putback : Text, offset : Int]
  BY DEF NewStream, Text
<1>2. StreamInv'
  BY <1>1, Zenon DEF ReaderInv, StreamInv
<1>3. OffsetInv'
  BY Zenon DEF OffsetInv
<1> QED
  BY <1>2, <1>3, LeavesReader, Zenon

(* A process starts.                                                       *)
LEMMA ArriveKeeps ==
  ASSUME ReaderInv, Arrive
  PROVE  ReaderInv'
<1>1. /\ pc = "idle" /\ served < MaxRequests /\ served' = served + 1 /\ pc' = "start"
      /\ UNCHANGED <<mp, line, part, entries, faults>>
  BY DEF Arrive, Goto
<1>2. PICK r \in FirstRequests \cup LaterRequests :
        /\ req' = IF r.method = "GET" THEN [r EXCEPT !.length = Len(r.env.query)] ELSE r
        /\ stdin' = r.body
        /\ env' = [r.env EXCEPT !.contentType = TypeOf(@)]
  BY DEF Arrive
<1>3. r \in Requests /\ Len(r.body) <= r.length
  BY RequestAssumption
<1>4. /\ r.body \in Text /\ r.env.contentType \in Text /\ r.length \in Nat
      /\ Len(r.env.query) \in Nat /\ env'.query \in Text
  BY <1>2, <1>3 DEF Requests, Text
<1>5. /\ req'.body = r.body /\ req'.env = r.env /\ req'.length \in Nat
      /\ req'.method = r.method /\ (r.method # "GET" => req'.length = r.length)
  BY <1>2, <1>3, <1>4 DEF Requests
<1>6. served' \in 0..MaxRequests
  <2>1. served \in 0..MaxRequests /\ MaxRequests \in Nat
    BY RequestAssumption, Zenon DEF ReaderInv, StreamInv
  <2> QED
    BY <1>1, <2>1
<1>7. StreamInv'
  <2>1. pc' \in Steps
    BY <1>1 DEF Steps
  <2>2. stdin' \in Text /\ req'.body \in Text /\ req'.env.contentType \in Text
    BY <1>2, <1>4, <1>5, Zenon
  <2>3. /\ mp' \in [putback : Text, offset : Int]
        /\ DOMAIN part' = DOMAIN NewPart /\ DOMAIN line' = DOMAIN NoLine
        /\ IsList(faults') /\ Len(faults') <= MaxFaults
        /\ mp' = NewStream /\ part' = NewPart /\ entries' = << >>
    BY <1>1 DEF ReaderInv, StreamInv
  <2> QED
    BY <1>4, <1>5, <1>6, <2>1, <2>2, <2>3, Zenon DEF StreamInv
<1>8. pc' \notin Reading /\ pc' \notin Searching /\ ~(pc' \in {"part", "store", "header"})
      /\ ~(pc' \in {"cr", "body"})
  BY <1>1 DEF Reading, Searching
<1>9. OffsetInv'
  <2>1. req'.method = "POST" => Len(stdin') <= req'.length
    BY <1>2, <1>3, <1>5
  <2> QED
    BY <1>8, <2>1, Zenon DEF OffsetInv
<1>10. DelimiterInv' /\ RingInv'
  BY <1>1, <1>8 DEF DelimiterInv, RingInv
<1>11. OrderInv'
  BY <1>1, <1>2, <1>5, <1>8 DEF OrderInv
<1> QED
  BY <1>7, <1>9, <1>10, <1>11, Zenon DEF ReaderInv

(* The reading of a multipart form begins.                                 *)
LEMMA ParseMultipartKeeps ==
  ASSUME ReaderInv, ParseMultipart, UNCHANGED <<req, served>>
  PROVE  ReaderInv'
<1>1. /\ pc = "start" /\ req.method = "POST" /\ pc' \in {"main", "search"}
      /\ UNCHANGED <<stdin, mp, line, entries, faults>>
  BY DEF ParseMultipart, IsPost, Goto
<1>2. PICK d : d = Delimiter(TRUE)
  OBVIOUS
<1>3. part' = [NewPart EXCEPT !.first = TRUE, !.delim = d]
  BY <1>2, Zenon DEF ParseMultipart
<1>4. /\ stdin \in Text /\ req.length \in Nat /\ req.body \in Text
      /\ req.env.contentType \in Text /\ stdin = req.body /\ Len(stdin) <= req.length
      /\ mp = NewStream /\ IsList(faults) /\ Len(faults) <= MaxFaults
      /\ served \in 0..MaxRequests /\ DOMAIN line = DOMAIN NoLine
  BY <1>1 DEF ReaderInv, StreamInv, OffsetInv, OrderInv
<1>5. d \in Seq(Nat) /\ Len(d) >= 2
  BY <1>2, <1>4, DelimiterFacts, Zenon
<1>6. /\ part'.first = TRUE /\ part'.delim = d /\ part'.matched = 0
      /\ part'.to = "nowhere" /\ part'.out = << >> /\ DOMAIN part' = DOMAIN NewPart
  BY <1>3 DEF NewPart
<1>7. mp'.putback = << >> /\ mp'.offset = 0 /\ mp' \in [putback : Text, offset : Int]
  BY <1>1, <1>4 DEF NewStream, Text
<1>8. pc' \in Steps \ {"idle", "start"}
  BY <1>1 DEF Steps
<1>9. StreamInv'
  BY <1>1, <1>4, <1>6, <1>7, <1>8, Zenon DEF StreamInv
<1>10. OffsetInv'
  <2>1. PICK l \in Nat, n \in Nat : l = Len(stdin) /\ n = req.length
    BY <1>4 DEF Text
  <2>2. mp'.offset + Len(mp'.putback) + Len(stdin') <= req'.length
    <3>1. l <= n
      BY <1>4, <2>1, Zenon
    <3>2. 0 + 0 + l <= n
      BY ONLY <3>1, l \in Nat, n \in Nat
    <3>3. Len(<< >>) = 0
      OBVIOUS
    <3> QED
      BY <1>1, <1>7, <2>1, <3>2, <3>3, Zenon
  <2> QED
    BY <1>8, <2>2, Zenon DEF OffsetInv
<1>11. CASE pc' = "main"
  <2>1. pc' \in Steps \ (Reading \cup {"start"})
    BY <1>11 DEF Steps, Reading
  <2> QED
    BY <1>9, <1>10, <2>1, LeavesReader, Zenon
<1>12. CASE pc' = "search"
  <2>1. DelimiterInv'
    <3>1. 0 \in 0..Len(d) /\ 0 < Len(d) /\ << >> \in Text
      BY <1>5 DEF Text
    <3> QED
      BY <1>5, <1>6, <1>12, <3>1 DEF DelimiterInv, Text
  <2>2. RingInv'
    <3>1. Len(mp'.putback) + part'.matched <= Len(part'.delim)
      BY <1>5, <1>6, <1>7
    <3> QED
      BY <1>6, <1>12, <3>1 DEF RingInv
  <2>3. OrderInv'
    <3>1. Ends(stdin', req'.body)
      BY <1>1, <1>4, EndOfSelf, Zenon DEF Text
    <3> QED
      BY <1>6, <1>12, <3>1, Zenon DEF OrderInv
  <2> QED
    BY <1>9, <1>10, <2>1, <2>2, <2>3, Zenon DEF ReaderInv
<1> QED
  BY <1>1, <1>11, <1>12

(* Every other step stays outside the reader.                              *)
LEMMA ParseKeeps ==
  ASSUME ReaderInv, Parse
  PROVE  ReaderInv'
<1>1. UNCHANGED <<req, served>>
  BY Zenon DEF Parse
<1>2. CASE ParseMultipart
  BY <1>1, <1>2, ParseMultipartKeeps, Zenon
<1>3. CASE MultipartStep
  BY <1>1, <1>3, MultipartStepKeeps, Zenon
<1>4. CASE ParseGet \/ ParsePost \/ ParseNothing \/ ParseNoMemory
  <2>1. pc' \in {"main", "failed"} /\ UNCHANGED <<mp, line, part>>
    BY <1>4 DEF ParseGet, ParsePost, ParseNothing, ParseNoMemory, Goto, formVars
  <2>2. IsList(faults') /\ Len(faults') <= MaxFaults
    BY <1>4, SameFaults, OneFault, Zenon
       DEF ParseGet, ParsePost, ParseNothing, ParseNoMemory, formVars
  <2>3. pc' \in Steps \ (Reading \cup {"start"}) /\ pc' # "idle"
    BY <2>1 DEF Steps, Reading
  <2> QED
    BY <1>1, <2>1, <2>2, <2>3, Outside, Zenon
<1> QED
  BY <1>2, <1>3, <1>4, Zenon DEF Parse

(* The program that cgic calls does not touch the reader.                  *)
LEMMA ProgramKeeps ==
  ASSUME ReaderInv, Main \/ HandleSubmit \/ Save \/ Load
  PROVE  ReaderInv'
<1>1. /\ pc' \in {"save", "load", "submit", "done"}
      /\ UNCHANGED <<mp, line, part, served>>
  <2>1. CASE Main
    BY <2>1 DEF Main, Goto, formVars
  <2>2. CASE HandleSubmit
    BY <2>2 DEF HandleSubmit, Goto, formVars
  <2>3. CASE Save
    BY <2>3 DEF Save, SaveOpen, SaveEntry, SaveLost, SavePart, SaveClose, SaveFails,
       SaveCut, Goto, formVars
  <2>4. CASE Load
    <3>1. CASE LoadOpen
      BY <3>1 DEF LoadOpen, Goto
    <3>2. CASE LoadEntry \/ LoadCut
      BY <3>2 DEF LoadEntry, LoadCut
    <3>3. CASE LoadClose \/ LoadStops
      BY <3>3 DEF LoadClose, LoadStops, Goto, formVars
    <3>4. CASE LoadFails \/ LoadUnopened
      BY <3>4 DEF LoadFails, LoadUnopened, Goto
    <3> QED
      BY <2>4, <3>1, <3>2, <3>3, <3>4 DEF Load
  <2> QED
    BY <2>1, <2>2, <2>3, <2>4
<1>2. IsList(faults') /\ Len(faults') <= MaxFaults
  <2>1. UNCHANGED faults \/ \E kind : Fault(kind)
    BY Zenon DEF Main, HandleSubmit, Save, SaveOpen, SaveEntry, SaveLost, SavePart,
       SaveClose, SaveFails, SaveCut, Load, LoadOpen, LoadEntry, LoadCut, LoadClose,
       LoadStops, LoadFails, LoadUnopened, formVars
  <2> QED
    BY <2>1, SameFaults, OneFault, Zenon
<1>3. pc' \in Steps \ (Reading \cup {"start"}) /\ pc' # "idle"
  BY <1>1 DEF Steps, Reading
<1> QED
  BY <1>1, <1>2, <1>3, Outside, Zenon

(* The end of a process resets the reader.                                 *)
LEMMA EndKeeps ==
  ASSUME ReaderInv, FreeResources \/ Dies
  PROVE  ReaderInv'
<1>1. Exit
  BY Zenon DEF FreeResources, Dies
<1>2. /\ pc' = "idle" /\ mp' = NewStream /\ line' = NoLine /\ part' = NewPart
      /\ entries' = << >> /\ served' = served
  BY <1>1, Zenon DEF Exit, Goto
<1>3. IsList(faults') /\ Len(faults') <= MaxFaults
  BY SameFaults, OneFault, Zenon DEF FreeResources, Dies
<1>4. pc' \in Steps \ (Reading \cup {"start"})
  BY <1>2 DEF Steps, Reading
<1> QED
  BY <1>2, <1>3, <1>4, Outside, Zenon

(* The invariant of the reader holds at first ...                          *)
LEMMA ReaderInit ==
  ASSUME Init
  PROVE  ReaderInv
<1>1. /\ pc = "idle" /\ mp = NewStream /\ line = NoLine /\ part = NewPart
      /\ entries = << >> /\ faults = << >> /\ served = 0
  BY DEF Init
<1>2. /\ NewStream \in [putback : Text, offset : Int] /\ IsList(<< >>) /\ Len(<< >>) = 0
      /\ 0 <= MaxFaults /\ 0 \in 0..MaxRequests
  <2>1. NewStream \in [putback : Text, offset : Int]
    BY DEF NewStream, Text
  <2>2. << >> \in Seq({}) /\ Len(<< >>) = 0
    OBVIOUS
  <2>3. 0 <= MaxFaults /\ 0 \in 0..MaxRequests
    BY MultipartAssumption, RequestAssumption
  <2> QED
    BY <2>1, <2>2, <2>3, SeqIsList, Zenon
<1>3. pc \in Steps /\ pc \notin Reading /\ pc # "start" /\ pc \notin Searching
  BY <1>1 DEF Steps, Reading, Searching
<1>4. StreamInv
  BY <1>1, <1>2, <1>3, Zenon DEF StreamInv
<1>5. OffsetInv /\ DelimiterInv /\ RingInv /\ OrderInv
  BY <1>1, <1>3 DEF OffsetInv, DelimiterInv, RingInv, OrderInv
<1> QED
  BY <1>4, <1>5, Zenon DEF ReaderInv

(* ... and every step keeps it.                                            *)
LEMMA ReaderStep ==
  ASSUME ReaderInv, [Next]_vars
  PROVE  ReaderInv'
<1>1. CASE UNCHANGED vars
  <2>1. UNCHANGED <<req, pc, stdin, mp, line, part, entries, faults, env, served>>
    BY <1>1 DEF vars, multipartVars
  <2>2. StreamInv /\ OffsetInv /\ DelimiterInv /\ RingInv /\ OrderInv
    BY DEF ReaderInv
  <2>3. StreamInv'
    BY <2>1, <2>2 DEF StreamInv
  <2>4. OffsetInv'
    BY <2>1, <2>2 DEF OffsetInv
  <2>5. DelimiterInv'
    BY <2>1, <2>2 DEF DelimiterInv
  <2>6. RingInv'
    BY <2>1, <2>2 DEF RingInv
  <2>7. OrderInv'
    BY <2>1, <2>2 DEF OrderInv, Held, Rest
  <2> QED
    BY <2>3, <2>4, <2>5, <2>6, <2>7 DEF ReaderInv
<1>2. CASE Next
  BY <1>2, ArriveKeeps, ParseKeeps, ProgramKeeps, EndKeeps, Zenon DEF Next
<1> QED
  BY <1>1, <1>2

(* No letter of a body is lost or comes out of order, for any message and  *)
(* any boundary: what the process kept, holds back and has still to read   *)
(* is always the end of the message.                                       *)
THEOREM OrderCorrect == Spec => []NothingLost
<1>1. Init => ReaderInv
  BY ReaderInit
<1>2. ReaderInv /\ [Next]_vars => ReaderInv'
  BY ReaderStep
<1>3. ReaderInv => NothingLost
  <2> SUFFICES ASSUME ReaderInv, pc = "search", part.to # "nowhere"
               PROVE  IsSuffix(part.out \o SubSeq(part.delim, 1, part.matched)
                               \o mp.putback \o stdin, req.body)
    BY DEF NothingLost
  <2>1. pc \in Reading /\ pc \in Searching
    BY DEF Reading, Searching
  <2>2. PICK o, d, m, u, ring : /\ o = part.out /\ d = part.delim /\ m = part.matched
                                /\ u = SubSeq(d, 1, m) /\ ring = mp.putback
    OBVIOUS
  <2>3. /\ o \in Seq(Nat) /\ ring \in Seq(Nat) /\ stdin \in Seq(Nat) /\ req.body \in Seq(Nat)
        /\ AtBoundary(o, d, m)
    BY <2>1, <2>2, SearchFacts, ReadingFacts, 1 \in Nat, Zenon DEF AtBoundary
  <2>4. u \in Seq(Nat)
    BY <2>2, <2>3, BoundaryGrows, Zenon DEF SeenMore
  <2>5. Four(o, u, ring, stdin)
    BY <2>3, <2>4, Zenon DEF Four, Three
  <2>6. ((o \o u) \o ring) \o stdin = (o \o u) \o (ring \o stdin)
    BY ONLY <2>5, Regroup
  <2>7. Ends((o \o u) \o (ring \o stdin), req.body)
    <3>1. ~part.first
      BY <2>1, SearchFacts, Zenon
    <3> QED
      BY <2>2, <3>1, Zenon DEF ReaderInv, OrderInv, Held, Rest
  <2>8. IsSuffix(((o \o u) \o ring) \o stdin, req.body)
    BY <2>3, <2>6, <2>7, EndIsSuffix, Zenon
  <2> QED
    BY <2>2, <2>8, Zenon
<1> QED
  BY <1>1, <1>2, <1>3, PTL DEF Spec

-----------------------------------------------------------------------------
(* Temporary files.                                                        *)

(* More files on the disk do no harm to a list of entries.                 *)
LEMMA OwnedMore ==
  ASSUME NEW es, NEW disk, NEW more, Owned(es, disk),
         DOMAIN disk \subseteq DOMAIN more, DOMAIN more \subseteq TempFiles
  PROVE  Owned(es, more)
BY DEF Owned

(* Nor does it that a file is removed which is no entry's.                 *)
LEMMA OwnedLess ==
  ASSUME NEW es, NEW disk, NEW less, NEW file, Owned(es, disk), Unowned(file, es),
         DOMAIN less = DOMAIN disk \ {file}
  PROVE  Owned(es, less)
BY DEF Owned, Unowned

(* A list without entries needs no file.                                   *)
LEMMA OwnedNone ==
  ASSUME NEW disk, DOMAIN disk \subseteq TempFiles
  PROVE  Owned(<< >>, disk)
<1>1. IsList(<< >>)
  <2>1. << >> \in Seq({})
    OBVIOUS
  <2> QED
    BY <2>1, SeqIsList, Zenon
<1>2. \A i \in DOMAIN << >> : FALSE
  OBVIOUS
<1> QED
  BY <1>1, <1>2, Zenon DEF Owned

(* A longer list holds the elements it held, and the new one.              *)
LEMMA AppendKeeps ==
  ASSUME NEW es, NEW e, IsList(es)
  PROVE  /\ \A i \in DOMAIN es : i \in DOMAIN Append(es, e) /\ Append(es, e)[i] = es[i]
         /\ \E i \in DOMAIN Append(es, e) : Append(es, e)[i] = e
<1>1. DOMAIN es = 1..Len(es) /\ Len(es) \in Nat
  BY ONLY IsList(es), ListAppend
<1>2. DOMAIN Append(es, e) = 1..Len(es) + 1
  BY ONLY IsList(es), ListAppend
<1>3. \A i \in 1..Len(es) : Append(es, e)[i] = es[i]
  BY ONLY IsList(es), ListAppend
<1>4. Append(es, e)[Len(es) + 1] = e
  BY ONLY IsList(es), ListAppend
<1>5. \A n \in Nat : n + 1 \in 1..n + 1 /\ 1..n \subseteq 1..n + 1
  OBVIOUS
<1> QED
  BY <1>1, <1>2, <1>3, <1>4, <1>5, Zenon

(* An entry whose file is on the disk and nobody else's.                   *)
LEMMA OwnedAppend ==
  ASSUME NEW es, NEW disk, NEW more, NEW e, Owned(es, disk), Unowned(e.tfile, es),
         DOMAIN disk \subseteq DOMAIN more, DOMAIN more \subseteq TempFiles,
         e.tfile \in DOMAIN more \cup {NoFile, Junk}
  PROVE  Owned(Append(es, e), more)
<1>1. IsList(es)
  BY Zenon DEF Owned
<1>2. /\ IsList(Append(es, e)) /\ DOMAIN es = 1..Len(es)
      /\ DOMAIN Append(es, e) = 1..Len(es) + 1
      /\ \A i \in 1..Len(es) : Append(es, e)[i] = es[i]
      /\ Append(es, e)[Len(es) + 1] = e
      /\ \A i \in 1..Len(es) + 1 : i \in 1..Len(es) \/ i = Len(es) + 1
  <2>1. IsList(Append(es, e)) /\ DOMAIN es = 1..Len(es)
    BY ONLY <1>1, ListAppend
  <2>2. DOMAIN Append(es, e) = 1..Len(es) + 1
    BY ONLY <1>1, ListAppend
  <2>3. \A i \in 1..Len(es) : Append(es, e)[i] = es[i]
    BY ONLY <1>1, ListAppend
  <2>4. Append(es, e)[Len(es) + 1] = e
    BY ONLY <1>1, ListAppend
  <2>5. \A i \in 1..Len(es) + 1 : i \in 1..Len(es) \/ i = Len(es) + 1
    BY ONLY <1>1, ListAppend
  <2> QED
    BY <2>1, <2>2, <2>3, <2>4, <2>5
<1>3. PICK t, old, k :
        /\ t = Append(es, e) /\ IsList(t) /\ DOMAIN es = old
        /\ \A i \in old : t[i] = es[i]
        /\ t[k] = e
        /\ \A i \in DOMAIN t : i \in old \/ i = k
  <2>1. PICK t, old, k : t = Append(es, e) /\ old = 1..Len(es) /\ k = Len(es) + 1
    OBVIOUS
  <2>2. /\ IsList(t) /\ DOMAIN es = old
        /\ \A i \in old : t[i] = es[i]
        /\ t[k] = e
        /\ \A i \in DOMAIN t : i \in old \/ i = k
    BY <1>2, <2>1
  <2> QED
    BY <2>1, <2>2, Zenon
<1>4. \A i \in DOMAIN t : (i \in DOMAIN es /\ t[i] = es[i]) \/ (i = k /\ t[i] = e)
  <2> TAKE i \in DOMAIN t
  <2>1. CASE i \in old
    <3>1. i \in DOMAIN es
      BY <1>3, <2>1
    <3>2. t[i] = es[i]
      BY <1>3, <2>1, Zenon
    <3> QED
      BY <3>1, <3>2
  <2>2. CASE i = k
    BY <1>3, <2>2
  <2> QED
    BY <1>3, <2>1, <2>2, Zenon
<1>5. \A i \in DOMAIN t :
        /\ t[i].tfile \in TempFiles \cup {NoFile, Junk}
        /\ t[i].tfile \in TempFiles => t[i].tfile \in DOMAIN more
  <2> TAKE i \in DOMAIN t
  <2>1. CASE i \in DOMAIN es /\ t[i] = es[i]
    BY <2>1 DEF Owned
  <2>2. CASE i = k /\ t[i] = e
    <3>1. NoFile \notin TempFiles /\ Junk \notin TempFiles
      BY MultipartAssumption DEF NoFile, Junk
    <3> QED
      BY <2>2, <3>1
  <2> QED
    BY <1>4, <2>1, <2>2
<1>6. ASSUME NEW i \in DOMAIN t, NEW j \in DOMAIN t, i # j, t[i].tfile \in TempFiles
      PROVE  t[i].tfile # t[j].tfile
  <2>1. CASE i \in DOMAIN es /\ t[i] = es[i] /\ j \in DOMAIN es /\ t[j] = es[j]
    BY <1>6, <2>1, Zenon DEF Owned
  <2>2. CASE i \in DOMAIN es /\ t[i] = es[i] /\ j = k /\ t[j] = e
    BY <1>6, <2>2, Zenon DEF Unowned
  <2>3. CASE i = k /\ t[i] = e /\ j \in DOMAIN es /\ t[j] = es[j]
    <3> SUFFICES ASSUME t[i].tfile = t[j].tfile PROVE FALSE
      BY Zenon
    <3>1. es[j].tfile \in TempFiles /\ es[j].tfile = e.tfile
      BY <1>6, <2>3, Zenon
    <3> QED
      BY <2>3, <3>1, Zenon DEF Unowned
  <2>4. /\ (i \in DOMAIN es /\ t[i] = es[i]) \/ (i = k /\ t[i] = e)
        /\ (j \in DOMAIN es /\ t[j] = es[j]) \/ (j = k /\ t[j] = e)
    BY <1>4, <1>6, Zenon
  <2>5. ~(i = k /\ j = k)
    BY <1>6, Zenon
  <2> QED
    BY <2>1, <2>2, <2>3, <2>4, <2>5, Zenon
<1>7. \A i, j \in DOMAIN t : i # j /\ t[i].tfile \in TempFiles => t[i].tfile # t[j].tfile
  BY <1>6, Zenon
<1> QED
  BY <1>3, <1>5, <1>7, Zenon DEF Owned

(* What a step shall keep, as long as no fault is forgotten.               *)
Remembered == Happened({"fopen"}) => Happened({"fopen"})'
FilesStep == EntryInv' /\ (FileInv /\ Remembered => FileInv')

(* A step that leaves entries and files alone, and in which a part neither *)
(* gets nor loses a file.                                                  *)
LEMMA QuietFiles ==
  ASSUME EntryInv, UNCHANGED <<entries, files, orphans>>,
         pc' \in WithFile => /\ pc \in WithFile
                             /\ part'.file = part.file /\ part'.to = part.to,
         pc \in WithFile /\ part.to = "file" => pc' \in WithFile
  PROVE  FilesStep
<1>1. EntryInv'
  BY DEF EntryInv
<1>2. FileInv /\ Remembered => FileInv'
  BY Zenon DEF FileInv, Remembered, Spare
<1> QED
  BY <1>1, <1>2 DEF FilesStep

(* A new file for the part being read, or for an entry.                    *)
LEMMA FreshFacts ==
  ASSUME EntryInv, NamesLeft, NEW content, NEW disk, disk = With(FreshFile, content)
  PROVE  /\ FreshFile \in TempFiles /\ FreshFile \notin DOMAIN files
         /\ DOMAIN disk = DOMAIN files \cup {FreshFile} /\ DOMAIN disk \subseteq TempFiles
         /\ disk[FreshFile] = content /\ \A f \in DOMAIN files : disk[f] = files[f]
         /\ Unowned(FreshFile, entries)
<1>1. FreshFile \in TempFiles /\ FreshFile \notin DOMAIN files
  BY DEF NamesLeft, FreshFile
<1>2. /\ DOMAIN disk = DOMAIN files \cup {FreshFile}
      /\ disk[FreshFile] = content /\ \A f \in DOMAIN files : disk[f] = files[f]
  BY <1>1 DEF With
<1>3. Owned(entries, files)
  BY DEF EntryInv
<1>4. DOMAIN disk \subseteq TempFiles
  BY <1>1, <1>2, <1>3 DEF Owned
<1>5. Unowned(FreshFile, entries)
  BY <1>1, <1>3, Zenon DEF Owned, Unowned
<1> QED
  BY <1>1, <1>2, <1>4, <1>5

(* The part loses its file.                                                *)
LEMMA WithoutFiles ==
  ASSUME EntryInv, pc \in WithFile, pc' \notin WithFile, UNCHANGED <<entries, orphans>>,
         files' = IF part.to = "file" THEN Without(part.file) ELSE files
  PROVE  FilesStep
<1>1. CASE part.to = "file"
  <2>1. /\ DOMAIN files' = DOMAIN files \ {part.file}
        /\ \A f \in DOMAIN files' : files'[f] = files[f]
    BY <1>1 DEF Without
  <2>2. Owned(entries, files) /\ Unowned(part.file, entries)
    BY DEF EntryInv
  <2>3. EntryInv'
    BY <2>1, <2>2, OwnedLess, Zenon DEF EntryInv
  <2>4. FileInv /\ Remembered => FileInv'
    BY <2>1 DEF FileInv, Remembered, Spare
  <2> QED
    BY <2>3, <2>4 DEF FilesStep
<1>2. CASE part.to # "file"
  BY <1>2, QuietFiles, Zenon
<1> QED
  BY <1>1, <1>2

(* All entries lose their files.                                           *)
LEMMA UnlinkedFiles ==
  ASSUME EntryInv, pc \notin WithFile, pc' \notin WithFile, entries' = << >>,
         files' = Unlinked(entries), orphans' = orphans
  PROVE  FilesStep
<1>1. /\ DOMAIN files' = DOMAIN files \ {e.tfile : e \in ToSet(entries)}
      /\ \A f \in DOMAIN files' : files'[f] = files[f]
  BY DEF Unlinked
<1>2. \A i \in DOMAIN entries : entries[i].tfile \in {e.tfile : e \in ToSet(entries)}
  BY DEF ToSet
<1>3. DOMAIN files' \subseteq TempFiles
  BY <1>1 DEF EntryInv, Owned
<1>4. EntryInv'
  BY <1>3, OwnedNone, Zenon DEF EntryInv
<1>5. FileInv /\ Remembered => FileInv'
  BY <1>1, <1>2 DEF FileInv, Remembered, Spare
<1> QED
  BY <1>4, <1>5 DEF FilesStep

-----------------------------------------------------------------------------
(* The steps of the reader and the temporary files.                        *)

(* In the search the part keeps its file, and loses it at the end of the   *)
(* input.                                                                  *)
LEMMA SearchFiles ==
  ASSUME ReaderInv, EntryInv, UNCHANGED orphans,
         SearchByte \/ SearchEnd \/ SearchFails \/ SearchNoMemory
  PROVE  FilesStep
<1>1. pc \in Searching
  BY DEF SearchByte, SearchEnd, SearchFails, SearchNoMemory, Searching
<1>2. /\ Fields \subseteq DOMAIN part /\ part.first \in BOOLEAN
      /\ part.first <=> part.to = "nowhere"
  BY <1>1, SearchFacts, Zenon
<1>3. CASE SearchByte
  <2>1. UNCHANGED <<entries, files>> /\ pc' \in WithFile
    BY <1>3 DEF SearchByte, Goto, WithFile, Searching
  <2>2. part'.file = part.file /\ part'.to = part.to
    BY <1>2, <1>3 DEF SearchByte, Emit, Fields
  <2> QED
    BY <1>1, <2>1, <2>2, QuietFiles, Zenon DEF WithFile
<1>4. CASE SearchEnd
  <2>1. UNCHANGED <<entries, files, part>>
    BY <1>4 DEF SearchEnd
  <2>2. pc \in WithFile /\ (part.to = "file" => pc' = "store" /\ pc' \in WithFile)
    BY <1>1, <1>2, <1>4 DEF SearchEnd, Goto, WithFile
  <2> QED
    BY <2>1, <2>2, QuietFiles, Zenon
<1>5. CASE SearchFails \/ SearchNoMemory
  <2>1. pc' \notin WithFile /\ UNCHANGED entries
    BY <1>5 DEF SearchFails, SearchNoMemory, Goto, WithFile, Searching
  <2>2. files' = IF part.to = "file" THEN Without(part.file) ELSE files
    <3>1. CASE SearchFails
      BY <1>2, <3>1 DEF SearchFails
    <3>2. CASE SearchNoMemory
      BY <3>2 DEF SearchNoMemory
    <3> QED
      BY <1>5, <3>1, <3>2
  <2>3. pc \in WithFile
    BY <1>1 DEF WithFile
  <2> QED
    BY <2>1, <2>2, <2>3, WithoutFiles, Zenon
<1> QED
  BY <1>3, <1>4, <1>5

(* Between two bodies no part has a file.                                  *)
LEMMA HeaderFiles ==
  ASSUME EntryInv, UNCHANGED orphans,
         NextPart \/ HeaderByte \/ HeaderCR \/ HeaderEnds \/ NotAField
  PROVE  FilesStep
<1>1. UNCHANGED <<entries, files>>
  BY DEF NextPart, HeaderByte, HeaderCR, HeaderEnds, NotAField, multipartVars
<1>2. pc \in {"part", "header", "cr", "body"}
  BY DEF NextPart, HeaderByte, HeaderCR, HeaderEnds, NotAField
<1>3. pc' \in {"main", "part", "header", "cr", "body", "crashed"}
  BY DEF NextPart, HeaderByte, HeaderCR, HeaderEnds, NotAField, HeaderLine, Goto
<1>4. pc \notin WithFile /\ pc' \notin WithFile
  BY <1>2, <1>3 DEF WithFile, Searching
<1> QED
  BY <1>1, <1>4, QuietFiles, Zenon

(* A part gets its file.                                                   *)
LEMMA OpenBodyFiles ==
  ASSUME ReaderInv, EntryInv, UNCHANGED orphans, OpenBody \/ OpenBodyFails
  PROVE  FilesStep
<1>1. pc = "body" /\ pc \notin WithFile /\ entries' = entries
  BY DEF OpenBody, OpenBodyFails, WithFile, Searching
<1>2. Owned(entries, files)
  BY Zenon DEF EntryInv
<1>3. "file" \in DOMAIN part /\ "to" \in DOMAIN part
  BY DEF ReaderInv, StreamInv, NewPart
<1>4. \A to, file : Collect(to, file) => part'.to = to /\ part'.file = file
  BY <1>3 DEF Collect
<1>5. CASE /\ pc' = "search" /\ files' = files
           /\ Collect("memory", NoFile)
  <2>1. part'.to = "memory" /\ part'.file = NoFile
    BY <1>4, <1>5, Zenon
  <2>2. Unowned(NoFile, entries)
    <3>1. NoFile \notin TempFiles
      BY MultipartAssumption DEF NoFile
    <3> QED
      BY <3>1, Zenon DEF Unowned
  <2>3. EntryInv'
    BY <1>1, <1>2, <1>5, <2>1, <2>2 DEF EntryInv
  <2>4. FileInv /\ Remembered => FileInv'
    BY <1>1, <1>5 DEF FileInv, Remembered, Spare
  <2> QED
    BY <2>3, <2>4, Zenon DEF FilesStep
<1>6. CASE /\ pc' = "search" /\ NamesLeft /\ files' = With(FreshFile, << >>)
           /\ \/ Collect("file", FreshFile)
              \/ Collect("memory", FreshFile) /\ Fault("fopen")
  <2>1. /\ FreshFile \in TempFiles /\ FreshFile \notin DOMAIN files
        /\ DOMAIN files' = DOMAIN files \cup {FreshFile} /\ DOMAIN files' \subseteq TempFiles
        /\ files'[FreshFile] = << >> /\ \A f \in DOMAIN files : files'[f] = files[f]
        /\ Unowned(FreshFile, entries)
    BY <1>6, FreshFacts, Zenon
  <2>2. part'.file = FreshFile /\ part'.to \in {"file", "memory"}
    BY <1>4, <1>6
  <2>3. Owned(entries, files')
    <3>1. DOMAIN files \subseteq DOMAIN files'
      BY <2>1
    <3> QED
      BY <1>2, <2>1, <3>1, OwnedMore, Zenon
  <2>4. EntryInv'
    <3>1. part'.file \in DOMAIN files' /\ Unowned(part'.file, entries')
      BY <1>1, <2>1, <2>2
    <3> QED
      BY <1>1, <2>3, <3>1 DEF EntryInv
  <2>5. CASE Collect("file", FreshFile)
    <3>1. pc' \in WithFile /\ part'.to = "file"
      BY <1>4, <1>6, <2>5, Zenon DEF WithFile, Searching
    <3>2. FileInv /\ Remembered => FileInv'
      BY <1>1, <2>1, <2>2, <3>1 DEF FileInv, Remembered, Spare
    <3> QED
      BY <2>4, <3>2, Zenon DEF FilesStep
  <2>6. CASE Fault("fopen")
    <3>1. Happened({"fopen"})'
      BY <2>6, OneFault DEF Happened
    <3>2. FileInv => FileInv'
      BY <1>1, <2>1, <3>1 DEF FileInv, Spare
    <3> QED
      BY <2>4, <3>2, Zenon DEF FilesStep
  <2> QED
    BY <1>6, <2>5, <2>6
<1>7. CASE pc' = "failed" /\ files' = files
  <2>1. pc' \notin WithFile
    BY <1>7 DEF WithFile, Searching
  <2> QED
    BY <1>1, <1>7, <2>1, QuietFiles, Zenon
<1> QED
  BY <1>5, <1>6, <1>7, Zenon DEF OpenBody, OpenBodyFails, Goto

(* An entry takes over the file of its part.                               *)
LEMMA StoreFiles ==
  ASSUME EntryInv, UNCHANGED orphans, Store \/ StoreShort
  PROVE  FilesStep
<1>1. pc = "store" /\ pc' = "part" /\ entries' = Append(entries, PartEntry)
  BY DEF Store, StoreShort, Goto
<1>2. pc \in WithFile /\ pc' \notin WithFile
  BY <1>1 DEF WithFile, Searching
<1>3. /\ DOMAIN files' = DOMAIN files
      /\ \A f \in DOMAIN files : f # part.file => files'[f] = files[f]
  BY DEF Store, StoreShort
<1>4. PICK e : e = PartEntry /\ e.tfile = part.file
  <2>1. PartEntry.tfile = part.file
    BY Zenon DEF PartEntry
  <2> QED
    BY <2>1, Zenon
<1>5. /\ Owned(entries, files) /\ Unowned(part.file, entries)
      /\ part.file \in DOMAIN files \cup {NoFile} /\ DOMAIN files \subseteq TempFiles
  BY <1>2 DEF EntryInv, Owned
<1>6. EntryInv'
  <2>1. /\ Unowned(e.tfile, entries) /\ e.tfile \in DOMAIN files' \cup {NoFile, Junk}
        /\ DOMAIN files \subseteq DOMAIN files' /\ DOMAIN files' \subseteq TempFiles
    BY <1>3, <1>4, <1>5
  <2>2. Owned(Append(entries, e), files')
    BY <1>5, <2>1, OwnedAppend, Zenon
  <2> QED
    BY <1>1, <1>2, <1>4, <2>2, Zenon DEF EntryInv
<1>7. ASSUME FileInv, Remembered PROVE FileInv'
  <2>1. IsList(entries)
    BY <1>5, Zenon DEF Owned
  <2>2. /\ \A i \in DOMAIN entries : i \in DOMAIN entries' /\ entries'[i] = entries[i]
        /\ \E i \in DOMAIN entries' : entries'[i] = e
    BY <1>1, <1>4, <2>1, AppendKeeps
  <2>3. SUFFICES ASSUME NEW f \in DOMAIN files
                 PROVE  \/ f \in orphans \/ Spare(f)'
                        \/ \E i \in DOMAIN entries' : entries'[i].tfile = f
    BY <1>3, Zenon DEF FileInv
  <2>4. CASE \E i \in DOMAIN entries : entries[i].tfile = f
    BY <2>2, <2>4, Zenon
  <2>5. CASE part.file = f
    BY <1>4, <2>2, <2>5, Zenon
  <2>6. CASE part.file # f /\ Spare(f)
    BY <1>3, <1>7, <2>6, Zenon DEF Remembered, Spare
  <2> QED
    BY <1>7, <2>4, <2>5, <2>6, Zenon DEF FileInv
<1> QED
  BY <1>6, <1>7, Zenon DEF FilesStep

(* Every step of the reader keeps entries and files together.              *)
LEMMA StepFiles ==
  ASSUME ReaderInv, EntryInv, UNCHANGED orphans, MultipartStep
  PROVE  FilesStep
<1>1. CASE StoreNoMemory
  <2>1. /\ pc \in WithFile /\ pc' \notin WithFile /\ UNCHANGED entries
        /\ files' = IF part.to = "file" THEN Without(part.file) ELSE files
    BY <1>1 DEF StoreNoMemory, Goto, WithFile, Searching
  <2> QED
    BY <2>1, WithoutFiles, Zenon
<1> QED
  BY <1>1, SearchFiles, HeaderFiles, OpenBodyFiles, StoreFiles, Zenon DEF MultipartStep

-----------------------------------------------------------------------------
(* The other steps and the temporary files.                                *)

(* A form that is no multipart form has no files.                          *)
LEMMA ParseFiles ==
  ASSUME ReaderInv, EntryInv, Parse
  PROVE  FilesStep
<1>1. UNCHANGED orphans
  BY Zenon DEF Parse
<1>2. CASE MultipartStep
  BY <1>1, <1>2, StepFiles, Zenon
<1>3. CASE ParseMultipart
  <2>1. /\ pc = "start" /\ UNCHANGED <<entries, files>>
        /\ part' = [NewPart EXCEPT !.first = TRUE, !.delim = Delimiter(TRUE)]
    BY <1>3 DEF ParseMultipart
  <2>2. part'.file = NoFile /\ part'.to = "nowhere"
    BY <2>1 DEF NewPart
  <2>3. Unowned(NoFile, entries)
    <3>1. NoFile \notin TempFiles
      BY MultipartAssumption DEF NoFile
    <3> QED
      BY <3>1, Zenon DEF Unowned
  <2>4. EntryInv'
    BY <2>1, <2>2, <2>3 DEF EntryInv
  <2>5. pc \notin WithFile
    BY <2>1 DEF WithFile, Searching
  <2>6. FileInv /\ Remembered => FileInv'
    BY <1>1, <2>1, <2>5, Zenon DEF FileInv, Remembered, Spare
  <2> QED
    BY <2>4, <2>6, Zenon DEF FilesStep
<1>4. CASE ParseGet \/ ParsePost \/ ParseNothing \/ ParseNoMemory
  <2>1. pc = "start" /\ pc' \in {"main", "failed"} /\ UNCHANGED files
    BY <1>4 DEF ParseGet, ParsePost, ParseNothing, ParseNoMemory, Goto, formVars
  <2>2. pc \notin WithFile /\ pc' \notin WithFile
    BY <2>1 DEF WithFile, Searching
  <2>3. CASE UNCHANGED entries
    BY <1>1, <2>1, <2>2, <2>3, QuietFiles, Zenon
  <2>4. ASSUME NEW data \in Seq(Nat), entries' = ParseFormInput(data)
        PROVE  FilesStep
    <3>1. IsList(entries') /\ \A i \in DOMAIN entries' : entries'[i].tfile = NoFile
      BY <2>4, ParsedFacts, SeqIsList, Zenon
    <3>2. NoFile \notin TempFiles
      BY MultipartAssumption DEF NoFile
    <3>3. DOMAIN files' \subseteq TempFiles
      BY <2>1 DEF EntryInv, Owned
    <3>4. Owned(entries', files')
      BY <3>1, <3>2, <3>3 DEF Owned
    <3>5. EntryInv'
      BY <2>2, <3>4, Zenon DEF EntryInv
    <3>6. ASSUME FileInv, Remembered PROVE FileInv'
      <4>1. entries = << >>
        BY <2>1 DEF ReaderInv, StreamInv
      <4>2. \A i \in DOMAIN entries : FALSE
        BY <4>1
      <4>3. \A f \in DOMAIN files : f \in orphans \/ Spare(f)
        BY <2>2, <3>6, <4>2, Zenon DEF FileInv
      <4> QED
        BY <1>1, <2>1, <3>6, <4>3, Zenon DEF FileInv, Remembered, Spare
    <3> QED
      BY <3>5, <3>6, Zenon DEF FilesStep
  <2>5. UNCHANGED entries \/ \E data \in Seq(Nat) : entries' = ParseFormInput(data)
    <3>1. env.query \in Seq(Nat)
      BY <2>1 DEF ReaderInv, StreamInv, Text
    <3>2. ASSUME ~(Len(stdin) < req.length)
          PROVE  SubSeq(stdin, 1, req.length) \in Seq(Nat)
      <4>1. stdin \in Seq(Nat) /\ req.length \in Nat
        BY <2>1, Zenon DEF ReaderInv, StreamInv, Text
      <4>2. PICK n \in Nat : n = req.length /\ n <= Len(stdin)
        BY <3>2, <4>1
      <4>3. SubSeq(stdin, 1, n) \in Seq(Nat)
        BY ONLY <4>1, <4>2
      <4> QED
        BY <4>2, <4>3, Zenon
    <3>3. CASE ParsePost
      BY <3>2, <3>3, Zenon DEF ParsePost
    <3>4. CASE ParseGet \/ ParseNothing \/ ParseNoMemory
      BY <3>1, <3>4, Zenon DEF ParseGet, ParseNothing, ParseNoMemory, formVars
    <3> QED
      BY <1>4, <3>3, <3>4
  <2> QED
    BY <2>3, <2>4, <2>5, Zenon
<1> QED
  BY <1>2, <1>3, <1>4, Zenon DEF Parse

(* A restored entry has a file of its own, or none.                        *)
LEMMA LoadEntryFiles ==
  ASSUME EntryInv, LoadEntry \/ LoadCut
  PROVE  FilesStep
<1>1. pc = "load" /\ pc' = pc /\ pc \notin WithFile /\ pc' \notin WithFile /\ orphans' = orphans
  BY DEF LoadEntry, LoadCut, WithFile, Searching
<1>2. Owned(entries, files) /\ DOMAIN files \subseteq TempFiles
  BY Zenon DEF EntryInv, Owned
<1>3. PICK r : r = EntryRead /\ "tfile" \in DOMAIN r.entry
  <2>1. DOMAIN EntryRead.entry = {"attr", "value", "valueLength", "fileName",
                                  "contentType", "tfile"}
    BY DEF EntryRead
  <2> QED
    BY <2>1
<1>4. ASSUME NEW e, entries' = Append(entries, e), Unowned(e.tfile, entries),
             e.tfile \in DOMAIN files' \cup {NoFile, Junk},
             DOMAIN files \subseteq DOMAIN files', DOMAIN files' \subseteq TempFiles,
             \A f \in DOMAIN files' : f \in DOMAIN files \/ f = e.tfile,
             \A f \in DOMAIN files : files'[f] = files[f]
      PROVE  FilesStep
  <2>1. EntryInv'
    BY <1>1, <1>2, <1>4, OwnedAppend, Zenon DEF EntryInv
  <2>2. ASSUME FileInv, Remembered PROVE FileInv'
    <3>1. IsList(entries)
      BY <1>2, Zenon DEF Owned
    <3>2. /\ \A i \in DOMAIN entries : i \in DOMAIN entries' /\ entries'[i] = entries[i]
          /\ \E i \in DOMAIN entries' : entries'[i] = e
      BY <1>4, <3>1, AppendKeeps
    <3>3. \A f \in DOMAIN files :
             f \in orphans \/ Spare(f) \/ \E i \in DOMAIN entries : entries[i].tfile = f
      BY <1>1, <2>2, Zenon DEF FileInv
    <3>4. \A f \in DOMAIN files : Spare(f) => Spare(f)'
      BY <1>4, <2>2, Zenon DEF Remembered, Spare
    <3>5. \A f \in DOMAIN files' :
             f \in orphans' \/ Spare(f)' \/ \E i \in DOMAIN entries' : entries'[i].tfile = f
      BY <1>1, <1>4, <3>2, <3>3, <3>4, Zenon
    <3> QED
      BY <3>5, Zenon DEF FileInv
  <2> QED
    BY <2>1, <2>2, Zenon DEF FilesStep
<1>5. CASE r.isFile
  <2>1. /\ NamesLeft /\ \E content : files' = With(FreshFile, content)
        /\ entries' = Append(entries, [r.entry EXCEPT !.tfile = FreshFile])
    BY <1>3, <1>5, Zenon DEF LoadEntry, LoadCut
  <2>2. PICK e : e = [r.entry EXCEPT !.tfile = FreshFile]
    OBVIOUS
  <2>3. e.tfile = FreshFile
    BY <1>3, <2>2
  <2>4. /\ DOMAIN files' = DOMAIN files \cup {FreshFile} /\ DOMAIN files' \subseteq TempFiles
        /\ Unowned(FreshFile, entries) /\ \A f \in DOMAIN files : files'[f] = files[f]
    <3>1. PICK content : files' = With(FreshFile, content)
      BY <2>1
    <3> QED
      BY <2>1, <3>1, FreshFacts, Zenon
  <2>5. entries' = Append(entries, e) /\ Unowned(e.tfile, entries)
    BY <2>1, <2>2, <2>3, <2>4, Zenon
  <2>6. /\ e.tfile \in DOMAIN files' \cup {NoFile, Junk} /\ DOMAIN files \subseteq DOMAIN files'
        /\ \A f \in DOMAIN files' : f \in DOMAIN files \/ f = e.tfile
    BY <2>3, <2>4
  <2> QED
    BY <1>4, <2>4, <2>5, <2>6, Zenon
<1>6. CASE ~r.isFile
  <2>1. /\ files' = files
        /\ \E t \in {NoFile, Junk} : entries' = Append(entries, [r.entry EXCEPT !.tfile = t])
    BY <1>3, <1>6, Zenon DEF LoadEntry, LoadCut
  <2>2. PICK t \in {NoFile, Junk} : entries' = Append(entries, [r.entry EXCEPT !.tfile = t])
    BY <2>1
  <2> DEFINE e == [r.entry EXCEPT !.tfile = t]
  <2>3. e.tfile = t
    BY <1>3
  <2>6. entries' = Append(entries, e)
    BY <2>2
  <2> HIDE DEF e
  <2>4. Unowned(e.tfile, entries)
    <3>1. e.tfile \notin TempFiles
      BY <2>2, <2>3, MultipartAssumption DEF NoFile, Junk
    <3> QED
      BY <3>1, Zenon DEF Unowned
  <2>5. /\ e.tfile \in DOMAIN files' \cup {NoFile, Junk}
        /\ DOMAIN files \subseteq DOMAIN files' /\ DOMAIN files' \subseteq TempFiles
        /\ \A f \in DOMAIN files' : f \in DOMAIN files \/ f = e.tfile
        /\ \A f \in DOMAIN files : files'[f] = files[f]
    BY <1>2, <2>1, <2>2, <2>3
  <2> QED
    BY <1>4, <2>4, <2>5, <2>6, Zenon
<1> QED
  BY <1>5, <1>6

(* A restored file that cannot be opened stays, empty; all others are      *)
(* freed.                                                                  *)
LEMMA UnopenedFiles ==
  ASSUME ReaderInv, EntryInv, LoadUnopened
  PROVE  FilesStep
<1>1. /\ pc = "load" /\ pc' = "done" /\ entries' = << >> /\ NamesLeft
      /\ Fault("fopen") /\ orphans' = orphans
  BY DEF LoadUnopened, Goto
<1>2. pc \notin WithFile /\ pc' \notin WithFile
  BY <1>1 DEF WithFile, Searching
<1>3. FreshFile \in TempFiles /\ FreshFile \notin DOMAIN files
  BY <1>1, FreshFacts, Zenon
<1>4. /\ DOMAIN files' = (DOMAIN files \ {e.tfile : e \in ToSet(entries)}) \cup {FreshFile}
      /\ \A f \in DOMAIN files' : files'[f] = IF f = FreshFile THEN << >> ELSE files[f]
  BY DEF LoadUnopened, Unlinked
<1>5. \A i \in DOMAIN entries : entries[i].tfile \in {e.tfile : e \in ToSet(entries)}
  BY DEF ToSet
<1>6. DOMAIN files' \subseteq TempFiles
  BY <1>3, <1>4 DEF EntryInv, Owned
<1>7. EntryInv'
  BY <1>1, <1>2, <1>6, OwnedNone, Zenon DEF EntryInv
<1>8. Happened({"fopen"})'
  BY <1>1, OneFault DEF Happened
<1>9. FileInv => FileInv'
  BY <1>1, <1>2, <1>4, <1>5, <1>8 DEF FileInv, Spare
<1> QED
  BY <1>7, <1>9, Zenon DEF FilesStep

(* The rest of the program frees all files or leaves them alone.           *)
LEMMA ProgramFiles ==
  ASSUME ReaderInv, EntryInv, Arrive \/ Main \/ HandleSubmit \/ Save \/ Load
  PROVE  FilesStep
<1>1. CASE Arrive \/ Main \/ HandleSubmit \/ Save \/ LoadClose \/ LoadStops
  <2>1. UNCHANGED <<entries, files, orphans>>
    BY <1>1 DEF Arrive, Main, HandleSubmit, Save, SaveOpen, SaveEntry, SaveLost, SavePart,
       SaveClose, SaveFails, SaveCut, LoadClose, LoadStops, formVars
  <2>2. pc \in {"idle", "main", "submit", "save", "load"}
    BY <1>1 DEF Arrive, Main, HandleSubmit, Save, SaveOpen, SaveEntry, SaveLost, SavePart,
       SaveClose, SaveFails, SaveCut, LoadClose, LoadStops
  <2>3. pc' \in {"start", "submit", "save", "load", "done"}
    BY <1>1, <2>2 DEF Arrive, Main, HandleSubmit, Save, SaveOpen, SaveEntry, SaveLost,
       SavePart, SaveClose, SaveFails, SaveCut, LoadClose, LoadStops, Goto
  <2>4. pc \notin WithFile /\ pc' \notin WithFile
    BY <2>2, <2>3 DEF WithFile, Searching
  <2> QED
    BY <2>1, <2>4, QuietFiles, Zenon
<1>2. CASE LoadEntry \/ LoadCut
  BY <1>2, LoadEntryFiles, Zenon
<1>3. CASE LoadOpen \/ LoadFails
  <2>1. /\ pc = "load" /\ pc' \in {"load", "done"} /\ entries' = << >>
        /\ files' = Unlinked(entries) /\ orphans' = orphans
    BY <1>3 DEF LoadOpen, LoadFails, Goto
  <2>2. pc \notin WithFile /\ pc' \notin WithFile
    BY <2>1 DEF WithFile, Searching
  <2> QED
    BY <2>1, <2>2, UnlinkedFiles, Zenon
<1> QED
  BY <1>1, <1>2, <1>3, UnopenedFiles, Zenon DEF Load

(* At its end a process frees all files, or dies and leaves them behind.   *)
LEMMA EndFiles ==
  ASSUME ReaderInv, EntryInv, FreeResources \/ Dies
  PROVE  FilesStep
<1>1. pc' = "idle" /\ pc' \notin WithFile /\ entries' = << >>
  BY DEF FreeResources, Dies, Exit, Goto, WithFile, Searching
<1>2. CASE FreeResources
  <2>1. pc \notin WithFile /\ files' = Unlinked(entries) /\ orphans' = orphans
    BY <1>2 DEF FreeResources, WithFile, Searching
  <2> QED
    BY <1>1, <2>1, UnlinkedFiles, Zenon
<1>3. CASE Dies
  <2>1. files' = files /\ orphans' = orphans \cup DOMAIN files
    BY <1>3 DEF Dies
  <2>2. DOMAIN files' \subseteq TempFiles /\ DOMAIN files' \subseteq orphans'
    BY <2>1 DEF EntryInv, Owned
  <2>3. EntryInv'
    BY <1>1, <2>2, OwnedNone, Zenon DEF EntryInv
  <2>4. FileInv'
    BY <2>2 DEF FileInv
  <2> QED
    BY <2>3, <2>4, Zenon DEF FilesStep
<1> QED
  BY <1>2, <1>3

(* A step meets at most one fault.                                         *)
LEMMA OneStep ==
  ASSUME Next
  PROVE  UNCHANGED faults \/ \E kind : Fault(kind)
<1>1. MultipartStep => UNCHANGED faults \/ \E kind : Fault(kind)
  BY Zenon DEF MultipartStep, SearchByte, SearchEnd, SearchFails, SearchNoMemory,
     NextPart, HeaderByte, HeaderCR, HeaderEnds, NotAField, OpenBody, OpenBodyFails,
     Store, StoreShort, StoreNoMemory, multipartVars
<1>2. Parse => UNCHANGED faults \/ \E kind : Fault(kind)
  BY <1>1, Zenon DEF Parse, ParseGet, ParsePost, ParseMultipart, ParseNothing,
     ParseNoMemory, formVars
<1>3. Save \/ Load => UNCHANGED faults \/ \E kind : Fault(kind)
  BY Zenon DEF Save, SaveOpen, SaveEntry, SaveLost, SavePart, SaveClose, SaveFails,
     SaveCut, Load, LoadOpen, LoadEntry, LoadCut, LoadClose, LoadStops, LoadFails,
     LoadUnopened, formVars
<1> QED
  BY <1>2, <1>3, Zenon DEF Next, Arrive, Main, HandleSubmit, FreeResources, Dies, formVars

(* No fault is forgotten.                                                  *)
LEMMA FaultsStay ==
  ASSUME ReaderInv, Next, NEW kinds, Happened(kinds)
  PROVE  Happened(kinds)'
<1>1. UNCHANGED faults \/ \E kind : Fault(kind)
  BY OneStep
<1>2. ToSet(faults) \subseteq ToSet(faults')
  <2>1. CASE UNCHANGED faults
    BY <2>1
  <2>2. CASE \E kind : Fault(kind)
    BY <2>2, OneFault, Zenon
  <2> QED
    BY <1>1, <2>1, <2>2
<1> QED
  BY <1>2 DEF Happened

(* No entries and no files at first.                                       *)
LEMMA FilesInit ==
  ASSUME Init
  PROVE  EntryInv /\ FileInv
<1>1. pc \notin WithFile /\ entries = << >> /\ DOMAIN files = {}
  BY DEF Init, WithFile, Searching
<1>2. EntryInv
  BY <1>1, OwnedNone DEF EntryInv
<1>3. FileInv
  BY <1>1 DEF FileInv
<1> QED
  BY <1>2, <1>3

(* Every step keeps the invariant ...                                      *)
LEMMA StepKeeps ==
  ASSUME IInv, [Next]_vars
  PROVE  IInv'
<1>1. ReaderInv /\ EntryInv /\ FileInv
  BY DEF IInv
<1>2. ReaderInv'
  BY <1>1, ReaderStep, Zenon
<1>3. CASE Next
  <2>1. FilesStep
    BY <1>1, <1>3, ParseFiles, ProgramFiles, EndFiles, Zenon DEF Next
  <2>2. Remembered
    BY <1>1, <1>3, FaultsStay, Zenon DEF Remembered
  <2>3. FileInv'
    BY <1>1, <2>1, <2>2, Zenon DEF FilesStep
  <2> QED
    BY <1>2, <2>1, <2>3, Zenon DEF FilesStep, IInv
<1>4. CASE UNCHANGED vars
  <2>1. UNCHANGED <<entries, files, orphans, pc, part, faults>>
    BY <1>4 DEF vars, multipartVars
  <2>2. EntryInv'
    BY <1>1, <2>1 DEF EntryInv
  <2>3. FileInv'
    BY <1>1, <2>1 DEF FileInv, Spare, Happened
  <2> QED
    BY <1>2, <2>2, <2>3, Zenon DEF IInv
<1> QED
  BY <1>3, <1>4

(* ... which therefore always holds.                                       *)
LEMMA Inductive == Spec => []IInv
<1>1. Init => IInv
  BY ReaderInit, FilesInit DEF IInv
<1>2. IInv /\ [Next]_vars => IInv'
  BY StepKeeps
<1> QED
  BY <1>1, <1>2, PTL DEF Spec

(* When no process runs no temporary file is left on the disk, however the *)
(* last one ended, but for those of processes that were killed or crashed  *)
(* and for empty ones that were made and could then not be opened: never   *)
(* the content of an upload of a process that ended of itself.             *)
THEOREM GoneCorrect == Spec => []TempFilesGone
<1>1. IInv => TempFilesGone
  <2> SUFFICES ASSUME IInv, pc = "idle", NEW f \in DOMAIN files
               PROVE  f \in orphans \/ Spare(f)
    BY DEF TempFilesGone, Spare
  <2>1. entries = << >> /\ pc \notin WithFile
    BY DEF IInv, ReaderInv, StreamInv, WithFile, Searching
  <2>2. FileInv
    BY DEF IInv
  <2> QED
    BY <2>1, <2>2 DEF FileInv
<1> QED
  BY <1>1, Inductive, PTL

(* While a body is read the offset never passes the length that was        *)
(* declared; no two entries ever share a temporary file, and faults and    *)
(* requests stay within their bounds.                                      *)
THEOREM TypeCorrect == Spec => []TypeOK
<1>1. IInv => TypeOK
  <2> SUFFICES ASSUME IInv PROVE TypeOK
    OBVIOUS
  <2>1. /\ pc \in Steps /\ served \in 0..MaxRequests /\ Len(faults) <= MaxFaults
        /\ mp \in [putback : Text, offset : Int]
        /\ pc \in Reading => stdin \in Text /\ req.length \in Nat
    BY Zenon DEF IInv, ReaderInv, StreamInv
  <2>2. pc \in Reading => mp.offset <= req.length
    <3>1. mp.offset \in Int /\ Len(mp.putback) \in Nat
      BY <2>1 DEF Text
    <3>2. pc \in Reading => Len(stdin) \in Nat /\ req.length \in Nat
      BY <2>1 DEF Text
    <3>3. pc \in Reading => mp.offset + Len(mp.putback) + Len(stdin) <= req.length
      BY Zenon DEF IInv, ReaderInv, OffsetInv
    <3> QED
      BY <3>1, <3>2, <3>3
  <2>3. Owned(entries, files)
    BY Zenon DEF IInv, EntryInv
  <2>4. \A e \in ToSet(entries) : e.tfile \in TempFiles \cup {NoFile, Junk}
    BY <2>3 DEF Owned, ToSet
  <2>5. mp.offset \in Int
    BY <2>1
  <2> QED
    BY <2>1, <2>2, <2>3, <2>4, <2>5, Zenon DEF TypeOK, Owned
<1> QED
  BY <1>1, Inductive, PTL

-----------------------------------------------------------------------------
(* What is written to a saved file, and what is read back from it.         *)

(* An int of which all is there is read,                                   *)
LEMMA ReadsInt ==
  ASSUME NEW D \in Seq(Nat), NEW m \in 0..Len(D), saved.data = SubSeq(D, 1, m),
         NEW p \in Nat \ {0}, NEW n \in Nat, IntAt(D, p, n)
  PROVE  /\ ReadInt[p].ok <=> p + 3 <= m
         /\ ReadInt[p].next = p + 4
         /\ ReadInt[p].ok => ReadInt[p].value = n
<1>1. PICK d : d = saved.data
  OBVIOUS
<1>2. d \in Seq(Nat) /\ Len(d) = m /\ \A i \in 1..m : d[i] = D[i]
  BY <1>1, Beginning
<1>3. PICK b : b = SubSeq(d, p, p + 3)
  OBVIOUS
<1>4. ReadInt[p] = IF p + 3 > Len(d) THEN [ok |-> FALSE, value |-> 0, next |-> p + 4]
                   ELSE [ok |-> TRUE, next |-> p + 4,
                         value |-> IF b[3] = 0 /\ b[4] = 0 THEN b[1] + 256 * b[2] ELSE Huge]
  <2>1. p \in Nat
    OBVIOUS
  <2> QED
    BY <1>1, <1>3, <2>1, Zenon DEF ReadInt
<1>5. CASE p + 3 > m
  <2>1. ReadInt[p] = [ok |-> FALSE, value |-> 0, next |-> p + 4]
    BY <1>2, <1>4, <1>5, Zenon
  <2>2. ~(p + 3 <= m)
    BY <1>5
  <2> QED
    BY <2>1, <2>2
<1>6. CASE p + 3 <= m
  <2>1. b[3] = 0 /\ b[4] = 0 /\ b[1] + 256 * b[2] = n
    <3>1. IntAt(d, p, n)
      BY <1>2, <1>6, IntInBeginning
    <3>0. d \in Seq(Nat)
      BY <1>2
    <3>2. PICK c : c = SubSeq(d, p, p + 3) /\ c[3] = 0 /\ c[4] = 0 /\ c[1] + 256 * c[2] = n
      BY ONLY <3>0, <3>1, p \in Nat \ {0}, n \in Nat, IntLetters
    <3>3. c = b
      BY <1>3, <3>2, Zenon
    <3> QED
      BY <3>2, <3>3, Zenon
  <2>2. ~(p + 3 > Len(d))
    BY <1>2, <1>6
  <2>3. ReadInt[p] = [ok |-> TRUE, next |-> p + 4, value |-> n]
    BY <1>4, <2>1, <2>2, Zenon
  <2> QED
    BY <1>6, <2>3
<1> QED
  BY <1>5, <1>6

(* and so is a string.                                                     *)
LEMMA ReadsString ==
  ASSUME NEW D \in Seq(Nat), NEW m \in 0..Len(D), saved.data = SubSeq(D, 1, m),
         NEW p \in Nat \ {0}, NEW s \in Seq(Nat), StringAt(D, p, s)
  PROVE  /\ ReadString[p].ok <=> p + 3 + Len(s) <= m
         /\ ReadString[p].ok => /\ ReadString[p].next = p + 4 + Len(s)
                                /\ Plain(s) => ReadString[p].text = s
<1>1. PICK d : d = saved.data
  OBVIOUS
<1>2. d \in Seq(Nat) /\ Len(d) = m /\ \A i \in 1..m : d[i] = D[i]
  BY <1>1, Beginning
<1>3. PICK k \in Nat : k = Len(s)
  OBVIOUS
<1>4. PICK n : n = ReadInt[p]
  OBVIOUS
<1>5. (n.ok <=> p + 3 <= m) /\ n.next = p + 4 /\ (n.ok => n.value = k)
  BY <1>3, <1>4, ReadsInt DEF StringAt
<1> DEFINE ok == n.ok /\ n.next + n.value - 1 <= Len(d)
<1>6. ReadString[p] = [ok |-> ok, next |-> n.next + n.value,
                       text |-> IF ok THEN CString(SubSeq(d, n.next, n.next + n.value - 1))
                                ELSE << >>]
  <2>1. p \in Nat
    OBVIOUS
  <2> QED
    BY <1>1, <1>4, <2>1, Zenon DEF ReadString
<1>7. ok <=> p + 3 + k <= m
  <2>1. ASSUME n.ok PROVE n.next + n.value - 1 = p + 3 + k
    <3>1. n.next + n.value - 1 = p + 4 + k - 1
      BY <1>5, <2>1, Zenon
    <3>2. p + 4 + k - 1 = p + 3 + k
      BY <1>3
    <3> QED
      BY <3>1, <3>2, Zenon
  <2>2. p + 3 + k <= m => p + 3 <= m
    BY <1>3
  <2> QED
    BY <1>2, <1>5, <2>1, <2>2, Zenon
<1> HIDE DEF ok
<1>8. ASSUME ok PROVE n.next + n.value = p + 4 + k /\ SubSeq(d, n.next, n.next + n.value - 1) = s
  <2>1. p + 3 + k <= m /\ n.next = p + 4 /\ n.value = k
    BY <1>5, <1>7, <1>8
  <2>2. \A j \in 1..k : d[p + 4 - 1 + j] = s[j]
    <3> TAKE j \in 1..k
    <3>1. p + 3 + j \in 1..m /\ p + 4 - 1 + j = p + 3 + j
      BY <2>1
    <3>2. D[p + 3 + j] = s[j]
      BY <1>3 DEF StringAt
    <3> QED
      BY <1>2, <3>1, <3>2
  <2>3. PICK q \in Nat \ {0} : q = p + 4
    OBVIOUS
  <2>4. SubSeq(d, q, q + k - 1) = s
    <3>1. q + Len(s) - 1 <= Len(d)
      BY <1>2, <1>3, <2>1, <2>3
    <3>2. \A j \in 1..Len(s) : d[q - 1 + j] = s[j]
      BY <1>3, <2>2, <2>3
    <3>3. SubSeq(d, q, q + Len(s) - 1) = s
      BY ONLY <1>2, <3>1, <3>2, PieceOf, d \in Seq(Nat), s \in Seq(Nat), q \in Nat \ {0}
    <3> QED
      BY <1>3, <3>3, Zenon
  <2> QED
    BY <2>1, <2>3, <2>4
<1>9. Plain(s) => CString(s) = s
  BY CStringPlain
<1>10. ReadString[p].ok = ok /\ ReadString[p].next = n.next + n.value
       /\ (ok => ReadString[p].text = CString(SubSeq(d, n.next, n.next + n.value - 1)))
  BY <1>6
<1> QED
  BY <1>3, <1>7, <1>8, <1>9, <1>10, Zenon

(* What a field is read as.                                                *)
AsEntry(f) ==
  [attr |-> f.attr, value |-> f.value, valueLength |-> f.valueLength,
   fileName |-> f.fileName, contentType |-> f.contentType, tfile |-> NoFile]

(* A field of which all is there is read as it was written.                *)
LEMMA ReadsEntry ==
  ASSUME NEW D \in Seq(Nat), NEW m \in 0..Len(D), saved.data = SubSeq(D, 1, m),
         at \in Nat \ {0}, NEW q \in Nat, NEW f \in FieldShape, FieldAt(D, at, q, f),
         PlainEntry(f), ReadString[at].ok, EntryRead.ok
  PROVE  /\ EntryRead.next = q /\ EntryRead.entry = AsEntry(f)
         /\ EntryRead.isFile => EntryRead.content = f.content /\ Len(f.content) = f.valueLength
         /\ ~EntryRead.isFile => f.content = << >>
<1>1. PICK p \in Nat \ {0}, vp \in Nat \ {0}, np \in Nat \ {0}, tp \in Nat \ {0}, lp \in Nat \ {0} :
        /\ p = at /\ vp = p + 4 + Len(f.attr) /\ np = vp + 4 + Len(f.value)
        /\ tp = np + 4 + Len(f.fileName) /\ lp = tp + 4 + Len(f.contentType)
        /\ StringAt(D, p, f.attr) /\ StringAt(D, vp, f.value)
        /\ StringAt(D, np, f.fileName) /\ StringAt(D, tp, f.contentType)
        /\ IntAt(D, lp, f.valueLength)
        /\ ContentAt(D, lp + 4, q, f.content, f.valueLength)
  <2>1. PICK p \in Nat \ {0} : p = at
    OBVIOUS
  <2>2. /\ ValuePos(p, f) \in Nat \ {0} /\ NamePos(p, f) \in Nat \ {0}
        /\ TypePos(p, f) \in Nat \ {0} /\ LengthPos(p, f) \in Nat \ {0}
    BY Positions, Zenon
  <2> QED
    BY <2>1, <2>2, Zenon DEF FieldAt, ValuePos, NamePos, TypePos, LengthPos
<1>2. /\ f.attr \in Seq(Nat) /\ f.value \in Seq(Nat) /\ f.fileName \in Seq(Nat)
      /\ f.contentType \in Seq(Nat) /\ f.content \in Seq(Nat) /\ f.valueLength \in Nat
      /\ Plain(f.attr) /\ Plain(f.value) /\ Plain(f.fileName) /\ Plain(f.contentType)
  BY DEF FieldShape, PlainEntry
<1>3. PICK attr, value, name, type, len, flag, end :
        /\ attr = ReadString[at] /\ value = ReadString[attr.next]
        /\ name = ReadString[value.next] /\ type = ReadString[name.next]
        /\ len = ReadInt[type.next] /\ flag = ReadInt[len.next]
        /\ end = IF flag.value = 0 THEN flag.next ELSE flag.next + len.value
  OBVIOUS
<1>4. EntryRead =
        [ok   |-> value.ok /\ name.ok /\ type.ok /\ len.ok /\ flag.ok
                  /\ end - 1 <= Len(saved.data),
         entry |-> [attr |-> attr.text, value |-> value.text, valueLength |-> len.value,
                    fileName |-> name.text, contentType |-> type.text, tfile |-> NoFile],
         isFile |-> flag.value # 0, next |-> end,
         content |-> SubSeq(saved.data, flag.next, Min({end - 1, Len(saved.data)}))]
  BY <1>3, Zenon DEF EntryRead
<1>5. /\ attr.ok /\ value.ok /\ name.ok /\ type.ok /\ len.ok /\ flag.ok
      /\ end - 1 <= Len(saved.data)
  BY <1>3, <1>4
<1>6. /\ EntryRead.next = end /\ EntryRead.isFile = (flag.value # 0)
      /\ EntryRead.content = SubSeq(saved.data, flag.next, Min({end - 1, Len(saved.data)}))
      /\ EntryRead.entry = [attr |-> attr.text, value |-> value.text, valueLength |-> len.value,
                    fileName |-> name.text, contentType |-> type.text, tfile |-> NoFile]
  BY <1>4
<1>s. \A x \in Nat \ {0}, s \in Seq(Nat) :
        StringAt(D, x, s) /\ ReadString[x].ok
          => ReadString[x].next = x + 4 + Len(s) /\ (Plain(s) => ReadString[x].text = s)
  BY ReadsString
<1>i. \A x \in Nat \ {0}, n \in Nat :
        IntAt(D, x, n) /\ ReadInt[x].ok
          => ReadInt[x].next = x + 4 /\ ReadInt[x].value = n
  BY ReadsInt
<1>7. attr.next = vp /\ attr.text = f.attr
  <2>1. p = at /\ StringAt(D, p, f.attr) /\ vp = p + 4 + Len(f.attr)
    BY <1>1
  <2>2. ReadString[p] = attr /\ attr.ok
    BY <1>1, <1>3, <1>5
  <2>3. attr.next = p + 4 + Len(f.attr) /\ attr.text = f.attr
    BY <1>s, <1>2, <2>1, <2>2
  <2> QED
    BY <2>1, <2>3
<1>8. value.next = np /\ value.text = f.value
  <2>1. StringAt(D, vp, f.value) /\ np = vp + 4 + Len(f.value)
    BY <1>1
  <2>2. ReadString[vp] = value /\ value.ok
    BY <1>3, <1>5, <1>7, Zenon
  <2>3. value.next = vp + 4 + Len(f.value) /\ value.text = f.value
    BY <1>s, <1>2, <2>1, <2>2
  <2> QED
    BY <2>1, <2>3
<1>9. name.next = tp /\ name.text = f.fileName
  <2>1. StringAt(D, np, f.fileName) /\ tp = np + 4 + Len(f.fileName)
    BY <1>1
  <2>2. ReadString[np] = name /\ name.ok
    BY <1>3, <1>5, <1>8, Zenon
  <2>3. name.next = np + 4 + Len(f.fileName) /\ name.text = f.fileName
    BY <1>s, <1>2, <2>1, <2>2
  <2> QED
    BY <2>1, <2>3
<1>10. type.next = lp /\ type.text = f.contentType
  <2>1. StringAt(D, tp, f.contentType) /\ lp = tp + 4 + Len(f.contentType)
    BY <1>1
  <2>2. ReadString[tp] = type /\ type.ok
    BY <1>3, <1>5, <1>9, Zenon
  <2>3. type.next = tp + 4 + Len(f.contentType) /\ type.text = f.contentType
    BY <1>s, <1>2, <2>1, <2>2
  <2> QED
    BY <2>1, <2>3
<1>11. len.next = lp + 4 /\ len.value = f.valueLength
  <2>1. IntAt(D, lp, f.valueLength)
    BY <1>1
  <2>2. ReadInt[lp] = len /\ len.ok
    BY <1>3, <1>5, <1>10, Zenon
  <2>3. len.next = lp + 4 /\ len.value = f.valueLength
    BY <1>i, <1>2, <2>1, <2>2
  <2> QED
    BY <2>1, <2>3
<1>12. EntryRead.entry = AsEntry(f)
  BY <1>6, <1>7, <1>8, <1>9, <1>10, <1>11, Zenon DEF AsEntry
<1>13. PICK c \in Nat \ {0}, k \in Nat : c = lp + 4 /\ k = f.valueLength /\ ContentAt(D, c, q, f.content, k)
  <2>1. lp + 4 \in Nat \ {0}
    OBVIOUS
  <2> QED
    BY <1>1, <1>2, <2>1, Zenon
<1>14. CASE IntAt(D, c, 0) /\ f.content = << >> /\ q = c + 4
  <2>1. 0 \in Nat
    OBVIOUS
  <2>2. flag.next = c + 4 /\ flag.value = 0
    <3>1. ReadInt[c] = flag /\ flag.ok
      BY <1>3, <1>5, <1>11, <1>13, Zenon
    <3>2. IntAt(D, c, 0)
      BY <1>14
    <3> QED
      BY <1>i, <2>1, <3>1, <3>2
  <2>3. end = q
    BY <1>3, <1>14, <2>2
  <2> QED
    BY <1>6, <1>12, <1>14, <2>2, <2>3
<1>15. CASE /\ IntAt(D, c, 1) /\ Len(f.content) = k /\ q = c + 4 + k /\ q - 1 <= Len(D)
            /\ \A j \in 1..k : D[c + 3 + j] = f.content[j]
  <2>1. 1 \in Nat
    OBVIOUS
  <2>2. flag.next = c + 4 /\ flag.value = 1
    <3>1. ReadInt[c] = flag /\ flag.ok
      BY <1>3, <1>5, <1>11, <1>13, Zenon
    <3>2. IntAt(D, c, 1)
      BY <1>15
    <3> QED
      BY <1>i, <2>1, <3>1, <3>2
  <2>3. len.value = k
    BY <1>11, <1>13
  <2>4. end = c + 4 + k /\ end = q
    <3>1. q = c + 4 + k
      BY <1>15
    <3>2. end = IF flag.value = 0 THEN flag.next ELSE flag.next + len.value
      BY <1>3
    <3> QED
      BY <2>2, <2>3, <3>1, <3>2
  <2>5. PICK d : d = saved.data /\ d \in Seq(Nat) /\ Len(d) = m /\ \A i \in 1..m : d[i] = D[i]
    BY Beginning
  <2>6. c + 4 + k - 1 <= m
    BY <1>5, <2>4, <2>5
  <2>7. Min({end - 1, Len(saved.data)}) = c + 4 + k - 1
    <3>1. c + 4 + k - 1 \in Int /\ Len(d) \in Int
      BY <2>5
    <3>2. Min({c + 4 + k - 1, Len(d)}) = c + 4 + k - 1
      BY <2>5, <2>6, <3>1, MinTwo
    <3> QED
      BY <2>4, <2>5, <3>2
  <2>8. SubSeq(d, c + 4, c + 4 + k - 1) = f.content
    <3>1. PICK r, s : r \in Nat \ {0} /\ r = c + 4 /\ s = f.content
      OBVIOUS
    <3>2. s \in Seq(Nat) /\ Len(s) = k
      BY <1>2, <1>15, <3>1
    <3>3. \A j \in 1..k : d[r - 1 + j] = s[j]
      <4> TAKE j \in 1..k
      <4>1. c + 3 + j \in 1..m /\ r - 1 + j = c + 3 + j
        BY <2>6, <3>1
      <4>2. D[c + 3 + j] = s[j]
        BY <1>15, <3>1
      <4> QED
        BY <2>5, <4>1, <4>2
    <3>4. r + Len(s) - 1 <= Len(d)
      BY <2>5, <2>6, <3>1, <3>2
    <3>5. \A j \in 1..Len(s) : d[r - 1 + j] = s[j]
      BY <3>2, <3>3
    <3>6. d \in Seq(Nat) /\ r \in Nat \ {0} /\ s \in Seq(Nat)
      BY <2>5, <3>1, <3>2, Zenon
    <3>7. SubSeq(d, r, r + Len(s) - 1) = s
      BY ONLY <3>4, <3>5, <3>6, PieceOf
    <3> QED
      BY <3>1, <3>2, <3>7, Zenon
  <2>9. EntryRead.content = f.content
    BY <1>6, <2>2, <2>5, <2>7, <2>8, Zenon
  <2>10. EntryRead.isFile
    <3>1. EntryRead.isFile = (flag.value # 0)
      BY <1>6
    <3>2. flag.value # 0
      BY <2>2
    <3> QED
      BY <3>1, <3>2, Zenon
  <2> QED
    BY <1>6, <1>12, <1>13, <1>15, <2>4, <2>9, <2>10
<1> QED
  BY <1>13, <1>14, <1>15, Zenon DEF ContentAt

(* An int is written as four letters,                                      *)
LEMMA WrittenInt ==
  ASSUME NEW n \in Nat
  PROVE  WriteInt(n) \in Seq(Nat) /\ Len(WriteInt(n)) = 4 /\ IntAt(WriteInt(n), 1, n)
<1>1. PICK l \in Nat, h \in Nat : l = n % 256 /\ h = n \div 256
  OBVIOUS
<1>2. WriteInt(n) = <<l, h, 0, 0>>
  BY <1>1 DEF WriteInt
<1>3. IntAt(<<l, h, 0, 0>>, 1, n)
  BY <1>1 DEF IntAt
<1> QED
  BY <1>2, <1>3

(* and a string behind its length.                                         *)
LEMMA WrittenString ==
  ASSUME NEW s \in Seq(Nat)
  PROVE  /\ WriteString(s) \in Seq(Nat) /\ Len(WriteString(s)) = 4 + Len(s)
         /\ StringAt(WriteString(s), 1, s)
<1>1. PICK k \in Nat, w \in Seq(Nat) :
        k = Len(s) /\ w = WriteInt(k) /\ Len(w) = 4 /\ IntAt(w, 1, k)
  BY WrittenInt
<1>2. PICK t : t = w \o s
  OBVIOUS
<1>3. /\ t \in Seq(Nat) /\ Len(t) = 4 + k /\ Inside(w, 0, t) /\ Inside(s, 4, t)
  BY <1>1, <1>2, InsideJoined
<1>4. IntAt(t, 1, k)
  <2>1. IntAt(t, 0 + 1, k)
    BY <1>1, <1>3, IntMoves
  <2> QED
    BY <2>1
<1>5. \A j \in 1..k : t[1 + 3 + j] = s[j]
  <2>1. \A j \in 1..k : t[4 + j] = s[j]
    BY <1>1, <1>3, Zenon DEF Inside
  <2> QED
    BY <2>1
<1>6. 1 + 3 + k <= Len(t)
  BY <1>3
<1>7. StringAt(t, 1, s)
  BY <1>1, <1>4, <1>5, <1>6, Zenon DEF StringAt
<1>8. WriteString(s) = t
  BY <1>1, <1>2, Zenon DEF WriteString
<1> QED
  BY <1>1, <1>3, <1>7, <1>8

(* So it stands behind all that was written before, which is left alone.   *)
LEMMA StringBehind ==
  ASSUME NEW X \in Seq(Nat), NEW s \in Seq(Nat), NEW Y, Y = X \o WriteString(s)
  PROVE  /\ Y \in Seq(Nat) /\ Len(Y) = Len(X) + 4 + Len(s) /\ Inside(X, 0, Y)
         /\ StringAt(Y, Len(X) + 1, s)
<1>1. PICK w \in Seq(Nat) : w = WriteString(s) /\ Len(w) = 4 + Len(s) /\ StringAt(w, 1, s)
  BY WrittenString
<1>2. Y \in Seq(Nat) /\ Len(Y) = Len(X) + Len(w) /\ Inside(X, 0, Y) /\ Inside(w, Len(X), Y)
  BY <1>1, InsideJoined
<1>3. StringAt(Y, Len(X) + 1, s)
  BY <1>1, <1>2, StringMoves
<1> QED
  BY <1>1, <1>2, <1>3

(* ... and an int.                                                         *)
LEMMA IntBehind ==
  ASSUME NEW X \in Seq(Nat), NEW n \in Nat, NEW Y, Y = X \o WriteInt(n)
  PROVE  /\ Y \in Seq(Nat) /\ Len(Y) = Len(X) + 4 /\ Inside(X, 0, Y)
         /\ IntAt(Y, Len(X) + 1, n)
<1>1. PICK w \in Seq(Nat) : w = WriteInt(n) /\ Len(w) = 4 /\ IntAt(w, 1, n)
  BY WrittenInt
<1>2. Y \in Seq(Nat) /\ Len(Y) = Len(X) + Len(w) /\ Inside(X, 0, Y) /\ Inside(w, Len(X), Y)
  BY <1>1, InsideJoined
<1>3. IntAt(Y, Len(X) + 1, n)
  BY <1>1, <1>2, IntMoves
<1> QED
  BY <1>1, <1>2, <1>3

(* Behind a string the next place is where the text ends.                  *)
LEMMA NextPlace ==
  ASSUME NEW x \in Nat, NEW l \in Nat
  PROVE  (x + 4 + l) + 1 = (x + 1) + 4 + l
OBVIOUS

(* A field is written one part after the other.                            *)
LEMMA WrittenField ==
  ASSUME NEW f \in FieldShape, NEW w \in Seq(Nat),
         ContentAt(w, 1, Len(w) + 1, f.content, f.valueLength),
         NEW E, E = WriteString(f.attr) \o WriteString(f.value) \o WriteString(f.fileName)
                    \o WriteString(f.contentType) \o WriteInt(f.valueLength) \o w
  PROVE  E \in Seq(Nat) /\ Len(E) \in Nat /\ FieldAt(E, 1, Len(E) + 1, f)
<1>1. PICK e1, e2, e3, e4, e5 :
        /\ e1 = WriteString(f.attr) /\ e2 = e1 \o WriteString(f.value)
        /\ e3 = e2 \o WriteString(f.fileName) /\ e4 = e3 \o WriteString(f.contentType)
        /\ e5 = e4 \o WriteInt(f.valueLength) /\ E = e5 \o w
  OBVIOUS
<1>2. PICK a \in Seq(Nat), v \in Seq(Nat), n \in Seq(Nat), t \in Seq(Nat), k \in Nat :
        a = f.attr /\ v = f.value /\ n = f.fileName /\ t = f.contentType /\ k = f.valueLength
  BY DEF FieldShape
<1>3. PICK p2 \in Nat \ {0}, p3 \in Nat \ {0}, p4 \in Nat \ {0}, p5 \in Nat \ {0} :
        /\ p2 = ValuePos(1, f) /\ p3 = NamePos(1, f) /\ p4 = TypePos(1, f) /\ p5 = LengthPos(1, f)
        /\ p2 = 1 + 4 + Len(a) /\ p3 = p2 + 4 + Len(v) /\ p4 = p3 + 4 + Len(n)
        /\ p5 = p4 + 4 + Len(t)
  <2>1. 1 \in Nat \ {0}
    OBVIOUS
  <2>2. /\ ValuePos(1, f) \in Nat \ {0} /\ NamePos(1, f) \in Nat \ {0}
        /\ TypePos(1, f) \in Nat \ {0} /\ LengthPos(1, f) \in Nat \ {0}
    BY <2>1, Positions
  <2> QED
    BY <1>2, <2>2, Zenon DEF ValuePos, NamePos, TypePos, LengthPos
<1>4. e1 \in Seq(Nat) /\ Len(e1) + 1 = p2 /\ StringAt(e1, 1, a)
  <2>1. e1 = WriteString(a)
    BY <1>1, <1>2
  <2>2. e1 \in Seq(Nat) /\ Len(e1) = 4 + Len(a) /\ StringAt(e1, 1, a)
    BY <2>1, WrittenString
  <2>3. Len(a) \in Nat
    OBVIOUS
  <2> QED
    BY <1>3, <2>2, <2>3
<1>5. e2 \in Seq(Nat) /\ Len(e2) + 1 = p3 /\ Inside(e1, 0, e2) /\ StringAt(e2, p2, v)
  <2>1. e2 = e1 \o WriteString(v)
    BY <1>1, <1>2
  <2>2. /\ e2 \in Seq(Nat) /\ Len(e2) = Len(e1) + 4 + Len(v) /\ Inside(e1, 0, e2)
        /\ StringAt(e2, Len(e1) + 1, v)
    BY <1>4, <2>1, StringBehind
  <2>3. Len(v) \in Nat /\ Len(e1) \in Nat
    BY <1>4
  <2>4. Len(e2) + 1 = p3
    <3>1. (Len(e1) + 4 + Len(v)) + 1 = (Len(e1) + 1) + 4 + Len(v)
      BY <2>3, NextPlace, Zenon
    <3> QED
      BY <1>3, <1>4, <2>2, <3>1, Zenon
  <2> QED
    BY <1>4, <2>2, <2>4, Zenon
<1>6. e3 \in Seq(Nat) /\ Len(e3) + 1 = p4 /\ Inside(e2, 0, e3) /\ StringAt(e3, p3, n)
  <2>1. e3 = e2 \o WriteString(n)
    BY <1>1, <1>2
  <2>2. /\ e3 \in Seq(Nat) /\ Len(e3) = Len(e2) + 4 + Len(n) /\ Inside(e2, 0, e3)
        /\ StringAt(e3, Len(e2) + 1, n)
    BY <1>5, <2>1, StringBehind
  <2>3. Len(n) \in Nat /\ Len(e2) \in Nat
    BY <1>5
  <2>4. Len(e3) + 1 = p4
    <3>1. (Len(e2) + 4 + Len(n)) + 1 = (Len(e2) + 1) + 4 + Len(n)
      BY <2>3, NextPlace, Zenon
    <3> QED
      BY <1>3, <1>5, <2>2, <3>1, Zenon
  <2> QED
    BY <1>5, <2>2, <2>4, Zenon
<1>7. e4 \in Seq(Nat) /\ Len(e4) + 1 = p5 /\ Inside(e3, 0, e4) /\ StringAt(e4, p4, t)
  <2>1. e4 = e3 \o WriteString(t)
    BY <1>1, <1>2
  <2>2. /\ e4 \in Seq(Nat) /\ Len(e4) = Len(e3) + 4 + Len(t) /\ Inside(e3, 0, e4)
        /\ StringAt(e4, Len(e3) + 1, t)
    BY <1>6, <2>1, StringBehind
  <2>3. Len(t) \in Nat /\ Len(e3) \in Nat
    BY <1>6
  <2>4. Len(e4) + 1 = p5
    <3>1. (Len(e3) + 4 + Len(t)) + 1 = (Len(e3) + 1) + 4 + Len(t)
      BY <2>3, NextPlace, Zenon
    <3> QED
      BY <1>3, <1>6, <2>2, <3>1, Zenon
  <2> QED
    BY <1>6, <2>2, <2>4, Zenon
<1>8. e5 \in Seq(Nat) /\ Len(e5) + 1 = p5 + 4 /\ Inside(e4, 0, e5) /\ IntAt(e5, p5, k)
  <2>1. e5 = e4 \o WriteInt(k)
    BY <1>1, <1>2
  <2>2. /\ e5 \in Seq(Nat) /\ Len(e5) = Len(e4) + 4 /\ Inside(e4, 0, e5)
        /\ IntAt(e5, Len(e4) + 1, k)
    BY <1>7, <2>1, IntBehind
  <2>3. Len(e4) \in Nat
    BY <1>7
  <2> QED
    BY <1>3, <1>7, <2>2, <2>3
<1>9. E \in Seq(Nat) /\ Len(E) = Len(e5) + Len(w) /\ Inside(e5, 0, E) /\ Inside(w, Len(e5), E)
  <2>1. /\ e5 \o w \in Seq(Nat) /\ Len(e5 \o w) = Len(e5) + Len(w)
        /\ Inside(e5, 0, e5 \o w) /\ Inside(w, Len(e5), e5 \o w)
    BY <1>8, InsideJoined
  <2> QED
    BY <1>1, <2>1
<1>10. Inside(e4, 0, E) /\ Inside(e3, 0, E) /\ Inside(e2, 0, E) /\ Inside(e1, 0, E)
  <2>1. Inside(e4, 0, E)
    BY <1>8, <1>9, InsideTwice
  <2>2. Inside(e3, 0, E)
    BY <1>7, <2>1, InsideTwice
  <2>3. Inside(e2, 0, E)
    BY <1>6, <2>2, InsideTwice
  <2>4. Inside(e1, 0, E)
    BY <1>5, <2>3, InsideTwice
  <2> QED
    BY <2>1, <2>2, <2>3, <2>4
<1>11. /\ StringAt(E, 1, a) /\ StringAt(E, p2, v) /\ StringAt(E, p3, n) /\ StringAt(E, p4, t)
       /\ IntAt(E, p5, k)
  <2>0. 1 \in Nat \ {0} /\ \A p \in Nat \ {0} : 0 + p = p
    OBVIOUS
  <2>1. StringAt(E, 1, a)
    <3>1. StringAt(E, 0 + 1, a)
      BY <1>4, <1>10, <2>0, StringMoves
    <3> QED
      BY <3>1
  <2>2. StringAt(E, p2, v)
    <3>1. StringAt(E, 0 + p2, v)
      BY <1>5, <1>10, StringMoves
    <3> QED
      BY <3>1
  <2>3. StringAt(E, p3, n)
    <3>1. StringAt(E, 0 + p3, n)
      BY <1>6, <1>10, StringMoves
    <3> QED
      BY <3>1
  <2>4. StringAt(E, p4, t)
    <3>1. StringAt(E, 0 + p4, t)
      BY <1>7, <1>10, StringMoves
    <3> QED
      BY <3>1
  <2>5. IntAt(E, p5, k)
    <3>1. IntAt(E, 0 + p5, k)
      BY <1>8, <1>9, IntMoves
    <3> QED
      BY <3>1
  <2> QED
    BY <2>1, <2>2, <2>3, <2>4, <2>5
<1>12. ContentAt(E, p5 + 4, Len(E) + 1, f.content, k)
  <2>1. ContentAt(w, 1, Len(w) + 1, f.content, k)
    BY <1>2
  <2>2. Len(w) + 1 \in Nat /\ 1 \in Nat \ {0}
    OBVIOUS
  <2>3. ContentAt(E, Len(e5) + 1, Len(e5) + (Len(w) + 1), f.content, k)
    BY <1>9, <2>1, <2>2, ContentMoves
  <2>4. Len(e5) + (Len(w) + 1) = Len(E) + 1
    <3>1. Len(e5) \in Nat /\ Len(w) \in Nat
      BY <1>8
    <3> QED
      BY <1>9, <3>1
  <2> QED
    BY <1>8, <2>3, <2>4, Zenon
<1>13. FieldAt(E, 1, Len(E) + 1, f)
  BY <1>2, <1>3, <1>11, <1>12, Zenon DEF FieldAt
<1> QED
  BY <1>9, <1>13

(* The head: the version, three strings and an int, up to p.               *)
HeadAt(D, p) ==
  \E a, b, c \in Seq(Nat), n \in Nat, pb, pc4, pn \in Nat \ {0} :
    /\ pb = 9 + 4 + Len(a) /\ pc4 = pb + 4 + Len(b) /\ pn = pc4 + 4 + Len(c) /\ p = pn + 4
    /\ StringAt(D, 1, Version) /\ StringAt(D, 9, a) /\ StringAt(D, pb, b)
    /\ StringAt(D, pc4, c) /\ IntAt(D, pn, n)

(* More behind the head leaves the head as it is.                          *)
LEMMA HeadMoves ==
  ASSUME NEW Y, NEW Z, Inside(Y, 0, Z), NEW p, HeadAt(Y, p)
  PROVE  HeadAt(Z, p)
<1>1. PICK a \in Seq(Nat), b \in Seq(Nat), c \in Seq(Nat), n \in Nat,
           pb \in Nat \ {0}, pc4 \in Nat \ {0}, pn \in Nat \ {0} :
        /\ pb = 9 + 4 + Len(a) /\ pc4 = pb + 4 + Len(b) /\ pn = pc4 + 4 + Len(c) /\ p = pn + 4
        /\ StringAt(Y, 1, Version) /\ StringAt(Y, 9, a) /\ StringAt(Y, pb, b)
        /\ StringAt(Y, pc4, c) /\ IntAt(Y, pn, n)
  BY Zenon DEF HeadAt
<1>2. Version \in Seq(Nat) /\ 1 \in Nat \ {0} /\ 9 \in Nat \ {0}
  BY DEF Version
<1>3. \A q \in Nat \ {0}, s \in Seq(Nat) : StringAt(Y, q, s) => StringAt(Z, q, s)
  <2> TAKE q \in Nat \ {0}, s \in Seq(Nat)
  <2>1. HAVE StringAt(Y, q, s)
  <2>2. StringAt(Z, 0 + q, s)
    BY <2>1, StringMoves
  <2> QED
    BY <2>2
<1>4. IntAt(Z, pn, n)
  <2>1. IntAt(Z, 0 + pn, n)
    BY <1>1, IntMoves
  <2> QED
    BY <2>1
<1>5. /\ StringAt(Z, 1, Version) /\ StringAt(Z, 9, a) /\ StringAt(Z, pb, b)
      /\ StringAt(Z, pc4, c)
  BY <1>1, <1>2, <1>3
<1> QED
  BY <1>1, <1>4, <1>5, Zenon DEF HeadAt

(* Three texts one after the other.                                        *)
Chain(a, b, c) == (a \o b) \o c

(* Three texts in a row.                                                   *)
LEMMA FlattenThree ==
  ASSUME NEW a, NEW b, NEW c, NEW l, l = <<a, b, c>>
  PROVE  FlattenSeq(l) = Chain(a, b, c)
<1>1. PICK seqs : seqs = l /\ seqs[1] = a /\ seqs[2] = b /\ seqs[3] = c /\ Len(seqs) = 3
  <2>1. <<a, b, c>>[1] = a /\ <<a, b, c>>[2] = b /\ <<a, b, c>>[3] = c /\ Len(<<a, b, c>>) = 3
    OBVIOUS
  <2> QED
    BY <2>1, Zenon
<1> DEFINE f == [i \in 1..3 |-> IF i = 1 THEN a ELSE IF i = 2 THEN a \o b ELSE (a \o b) \o c]
           g == CHOOSE g : g = [i \in 1..Len(seqs) |->
                                  IF i = 1 THEN seqs[i] ELSE g[i - 1] \o seqs[i]]
<1>2. \A i \in 1..3 : i = 1 \/ (i = 2 /\ i - 1 = 1) \/ (i = 3 /\ i - 1 = 2)
  OBVIOUS
<1>3. /\ 1 \in 1..3 /\ 2 \in 1..3 /\ 3 \in 1..3 /\ 2 # 1 /\ 3 # 1 /\ 3 # 0 /\ 2 - 1 = 1 /\ 3 - 1 = 2
  OBVIOUS
<1>4. f = [i \in 1..3 |-> IF i = 1 THEN seqs[i] ELSE f[i - 1] \o seqs[i]]
  <2>1. f[1] = a /\ f[2] = a \o b /\ f[3] = (a \o b) \o c
    OBVIOUS
  <2>2. f = [i \in 1..3 |-> f[i]]
    OBVIOUS
  <2> HIDE DEF f
  <2>3. \A i \in 1..3 : f[i] = IF i = 1 THEN seqs[i] ELSE f[i - 1] \o seqs[i]
    <3> TAKE i \in 1..3
    <3>1. CASE i = 1
      BY <1>1, <2>1, <3>1, Zenon
    <3>2. CASE i = 2 /\ i - 1 = 1
      <4>1. f[i] = f[i - 1] \o seqs[i]
        BY <1>1, <2>1, <3>2, Zenon
      <4> QED
        BY <1>3, <3>2, <4>1, Zenon
    <3>3. CASE i = 3 /\ i - 1 = 2
      <4>1. f[i] = f[i - 1] \o seqs[i]
        BY <1>1, <2>1, <3>3, Zenon
      <4> QED
        BY <1>3, <3>3, <4>1, Zenon
    <3> QED
      BY <1>2, <3>1, <3>2, <3>3, Zenon
  <2> QED
    BY <2>2, <2>3
<1>5. g = [i \in 1..Len(seqs) |-> IF i = 1 THEN seqs[i] ELSE g[i - 1] \o seqs[i]]
  <2> HIDE DEF f
  <2>1. f = [i \in 1..Len(seqs) |-> IF i = 1 THEN seqs[i] ELSE f[i - 1] \o seqs[i]]
    BY <1>1, <1>4
  <2> QED
    BY <2>1, Zenon
<1>6. FlattenSeq(seqs) = IF Len(seqs) = 0 THEN seqs ELSE g[Len(seqs)]
  BY Zenon DEF FlattenSeq
<1> HIDE DEF g
<1>7. \A i \in 1..3 : g[i] = IF i = 1 THEN seqs[i] ELSE g[i - 1] \o seqs[i]
  BY <1>1, <1>5
<1>8. g[1] = a /\ g[2] = g[1] \o b /\ g[3] = g[2] \o c
  BY <1>1, <1>3, <1>7, Zenon
<1> QED
  BY <1>1, <1>3, <1>6, <1>8, Zenon DEF Chain

(* What SaveOpen writes is a head.                                         *)
LEMMA WrittenHead ==
  ASSUME NEW v \in [ToSet(SavedVars) -> Seq(Nat)], NEW n \in Nat,
         NEW D, D = WriteString(Version)
                    \o FlattenSeq([i \in DOMAIN SavedVars |-> WriteString(v[SavedVars[i]])])
                    \o WriteInt(n)
  PROVE  D \in Seq(Nat) /\ Len(D) \in Nat /\ HeadAt(D, Len(D) + 1)
<1>1. /\ DOMAIN SavedVars = 1..3 /\ SavedVars[1] = "query" /\ SavedVars[2] = "contentType"
      /\ SavedVars[3] = "cookie" /\ ToSet(SavedVars) = {"query", "contentType", "cookie"}
  BY DEF SavedVars, ToSet
<1>2. PICK a, b, c : Three(a, b, c) /\ a = v["query"] /\ b = v["contentType"] /\ c = v["cookie"]
  BY <1>1 DEF Three
<1>3. PICK x, y, z :
        Three(x, y, z) /\ x = WriteString(a) /\ y = WriteString(b) /\ z = WriteString(c)
  BY <1>2, WrittenString DEF Three
<1>4. [i \in DOMAIN SavedVars |-> WriteString(v[SavedVars[i]])] = <<x, y, z>>
  <2>1. \A i \in 1..3 : WriteString(v[SavedVars[i]]) = <<x, y, z>>[i]
    <3> TAKE i \in 1..3
    <3>1. i = 1 \/ i = 2 \/ i = 3
      OBVIOUS
    <3>2. <<x, y, z>>[1] = x /\ <<x, y, z>>[2] = y /\ <<x, y, z>>[3] = z
      OBVIOUS
    <3> QED
      BY <1>1, <1>2, <1>3, <3>1, <3>2, Zenon
  <2>2. <<x, y, z>> = [i \in 1..3 |-> <<x, y, z>>[i]]
    OBVIOUS
  <2>3. [i \in 1..3 |-> WriteString(v[SavedVars[i]])] = [i \in 1..3 |-> <<x, y, z>>[i]]
    BY <2>1
  <2> QED
    BY <1>1, <2>2, <2>3, Zenon
<1>5. PICK e1 : e1 \in Seq(Nat) /\ e1 = WriteString(Version)
  <2>1. Version \in Seq(Nat)
    BY DEF Version
  <2> QED
    BY <2>1, WrittenString
<1>6. D = (e1 \o ((x \o y) \o z)) \o WriteInt(n)
  <2>1. PICK l : l = <<x, y, z>>
    OBVIOUS
  <2>2. FlattenSeq(l) = Chain(x, y, z)
    BY <2>1, FlattenThree
  <2> QED
    BY <1>4, <1>5, <2>1, <2>2, Zenon DEF Chain
<1>7. e1 \o ((x \o y) \o z) = ((e1 \o x) \o y) \o z
  <2>1. x \o y \in Seq(Nat) /\ e1 \o x \in Seq(Nat)
    BY <1>3, <1>5 DEF Three
  <2>2. Three(e1, x \o y, z) /\ Three(e1, x, y)
    BY <1>3, <1>5, <2>1 DEF Three
  <2>3. (e1 \o (x \o y)) \o z = e1 \o ((x \o y) \o z)
    BY ONLY <2>2, Assoc
  <2>4. (e1 \o x) \o y = e1 \o (x \o y)
    BY ONLY <2>2, Assoc
  <2> QED
    BY <2>3, <2>4, Zenon
<1>8. PICK e2, e3, e4 : e2 = e1 \o WriteString(a) /\ e3 = e2 \o WriteString(b) /\ e4 = e3 \o WriteString(c)
  OBVIOUS
<1>9. D = e4 \o WriteInt(n)
  BY <1>3, <1>6, <1>7, <1>8, Zenon
<1>10. e1 \in Seq(Nat) /\ Len(e1) = 8 /\ StringAt(e1, 1, Version)
  <2>1. Version \in Seq(Nat) /\ Len(Version) = 4
    BY DEF Version
  <2>2. Len(e1) = 4 + Len(Version) /\ StringAt(e1, 1, Version)
    BY <1>5, <2>1, WrittenString
  <2> QED
    BY <1>5, <2>1, <2>2
<1>11. PICK pb, pc4, pn :
         /\ pb \in Nat \ {0} /\ pc4 \in Nat \ {0} /\ pn \in Nat \ {0}
         /\ pb = 9 + 4 + Len(a) /\ pc4 = pb + 4 + Len(b) /\ pn = pc4 + 4 + Len(c)
         /\ Len(a) \in Nat /\ Len(b) \in Nat /\ Len(c) \in Nat
  <2>1. Len(a) \in Nat /\ Len(b) \in Nat /\ Len(c) \in Nat
    BY <1>2 DEF Three
  <2>2. PICK pb : pb \in Nat \ {0} /\ pb = 9 + 4 + Len(a)
    BY <2>1
  <2>3. PICK pc4 : pc4 \in Nat \ {0} /\ pc4 = pb + 4 + Len(b)
    BY <2>1, <2>2
  <2>4. PICK pn : pn \in Nat \ {0} /\ pn = pc4 + 4 + Len(c)
    BY <2>1, <2>3
  <2> QED
    BY <2>1, <2>2, <2>3, <2>4, Zenon
<1>12. e2 \in Seq(Nat) /\ Len(e2) + 1 = pb /\ Inside(e1, 0, e2) /\ StringAt(e2, 9, a)
  <2>1. /\ e2 \in Seq(Nat) /\ Len(e2) = Len(e1) + 4 + Len(a) /\ Inside(e1, 0, e2)
        /\ StringAt(e2, Len(e1) + 1, a)
    <3>1. a \in Seq(Nat) /\ e1 \in Seq(Nat) /\ e2 = e1 \o WriteString(a)
      BY <1>2, <1>8, <1>10 DEF Three
    <3> QED
      BY ONLY <3>1, StringBehind
  <2>2. Len(a) \in Nat
    BY <1>11
  <2>3. Len(e2) + 1 = pb
    <3>1. Len(e2) = Len(e1) + 4 + Len(a) /\ Len(e1) = 8 /\ pb = 9 + 4 + Len(a)
      BY <1>10, <1>11, <2>1
    <3> QED
      BY ONLY <2>2, <3>1
  <2>4. StringAt(e2, 9, a)
    <3>1. Len(e1) + 1 = 9
      BY <1>10
    <3> QED
      BY <2>1, <3>1, Zenon
  <2> QED
    BY <2>1, <2>3, <2>4, Zenon
<1>13. e3 \in Seq(Nat) /\ Len(e3) + 1 = pc4 /\ Inside(e2, 0, e3) /\ StringAt(e3, pb, b)
  <2>1. /\ e3 \in Seq(Nat) /\ Len(e3) = Len(e2) + 4 + Len(b) /\ Inside(e2, 0, e3)
        /\ StringAt(e3, Len(e2) + 1, b)
    <3>1. b \in Seq(Nat) /\ e2 \in Seq(Nat) /\ e3 = e2 \o WriteString(b)
      BY <1>2, <1>8, <1>12 DEF Three
    <3> QED
      BY ONLY <3>1, StringBehind
  <2>2. Len(b) \in Nat /\ Len(e2) \in Nat /\ Len(e2) + 1 = pb /\ pc4 = pb + 4 + Len(b)
    BY <1>11, <1>12
  <2>3. Len(e3) + 1 = pc4
    BY ONLY <2>1, <2>2
  <2> QED
    BY <2>1, <2>2, <2>3, Zenon
<1>14. e4 \in Seq(Nat) /\ Len(e4) + 1 = pn /\ Inside(e3, 0, e4) /\ StringAt(e4, pc4, c)
  <2>1. /\ e4 \in Seq(Nat) /\ Len(e4) = Len(e3) + 4 + Len(c) /\ Inside(e3, 0, e4)
        /\ StringAt(e4, Len(e3) + 1, c)
    <3>1. c \in Seq(Nat) /\ e3 \in Seq(Nat) /\ e4 = e3 \o WriteString(c)
      BY <1>2, <1>8, <1>13 DEF Three
    <3> QED
      BY ONLY <3>1, StringBehind
  <2>2. Len(c) \in Nat /\ Len(e3) \in Nat /\ Len(e3) + 1 = pc4 /\ pn = pc4 + 4 + Len(c)
    BY <1>11, <1>13
  <2>3. Len(e4) + 1 = pn
    BY ONLY <2>1, <2>2
  <2> QED
    BY <2>1, <2>2, <2>3, Zenon
<1>15. D \in Seq(Nat) /\ Len(D) + 1 = pn + 4 /\ Inside(e4, 0, D) /\ IntAt(D, pn, n)
  <2>1. /\ D \in Seq(Nat) /\ Len(D) = Len(e4) + 4 /\ Inside(e4, 0, D)
        /\ IntAt(D, Len(e4) + 1, n)
    BY <1>9, <1>14, IntBehind
  <2>2. Len(e4) \in Nat /\ Len(e4) + 1 = pn
    BY <1>14
  <2>3. Len(D) + 1 = pn + 4
    BY ONLY <2>1, <2>2
  <2> QED
    BY <2>1, <2>2, <2>3, Zenon
<1>16. Inside(e3, 0, D) /\ Inside(e2, 0, D) /\ Inside(e1, 0, D)
  <2>1. Inside(e3, 0, D)
    BY <1>14, <1>15, InsideTwice
  <2>2. Inside(e2, 0, D)
    BY <1>13, <2>1, InsideTwice
  <2>3. Inside(e1, 0, D)
    BY <1>12, <2>2, InsideTwice
  <2> QED
    BY <2>1, <2>2, <2>3
<1>17. \A Y, q, s : /\ q \in Nat \ {0} /\ s \in Seq(Nat) /\ Inside(Y, 0, D)
                   /\ StringAt(Y, q, s)
                   => StringAt(D, q, s)
  <2> TAKE Y, q, s
  <2>1. HAVE /\ q \in Nat \ {0} /\ s \in Seq(Nat) /\ Inside(Y, 0, D)
             /\ StringAt(Y, q, s)
  <2>2. StringAt(D, 0 + q, s)
    BY <2>1, StringMoves
  <2> QED
    BY <2>1, <2>2
<1>18. StringAt(D, 1, Version) /\ StringAt(D, 9, a) /\ StringAt(D, pb, b) /\ StringAt(D, pc4, c)
  <2>1. Version \in Seq(Nat) /\ 1 \in Nat \ {0} /\ 9 \in Nat \ {0}
    BY DEF Version
  <2>2. StringAt(D, 1, Version)
    BY <1>10, <1>16, <1>17, <2>1, Zenon DEF Three
  <2>3. StringAt(D, 9, a)
    BY <1>2, <1>12, <1>16, <1>17, <2>1, Zenon DEF Three
  <2>4. StringAt(D, pb, b)
    BY <1>2, <1>11, <1>13, <1>16, <1>17, <2>1, Zenon DEF Three
  <2>5. StringAt(D, pc4, c)
    BY <1>2, <1>11, <1>14, <1>15, <1>17, <2>1, Zenon DEF Three
  <2> QED
    BY <2>2, <2>3, <2>4, <2>5, Zenon
<1>19. HeadAt(D, Len(D) + 1)
  BY <1>2, <1>11, <1>15, <1>18, Zenon DEF HeadAt, Three
<1> QED
  BY <1>15, <1>19

(* What is read, whatever the file holds: numbers, texts and positions.    *)
LEMMA IntTypes ==
  ASSUME saved.data \in Seq(Nat), NEW p \in Nat \ {0}
  PROVE  /\ ReadInt[p].value \in Nat /\ ReadInt[p].next = p + 4
         /\ ReadInt[p].next \in Nat \ {0}
         /\ ReadInt[p].ok => p + 3 <= Len(saved.data)
<1>1. PICK d : d \in Seq(Nat) /\ d = saved.data
  OBVIOUS
<1> DEFINE b == SubSeq(d, p, p + 3)
<1>2. ReadInt[p] = IF p + 3 > Len(d) THEN [ok |-> FALSE, value |-> 0, next |-> p + 4]
                   ELSE [ok |-> TRUE, next |-> p + 4,
                         value |-> IF b[3] = 0 /\ b[4] = 0 THEN b[1] + 256 * b[2] ELSE Huge]
  <2>1. p \in Nat
    OBVIOUS
  <2> QED
    BY <1>1, <2>1 DEF ReadInt
<1>3. CASE p + 3 > Len(d)
  BY <1>1, <1>2, <1>3
<1>4. CASE ~(p + 3 > Len(d))
  <2>1. b[1] \in Nat /\ b[2] \in Nat
    BY <1>1, <1>4
  <2>2. PICK v : v = IF b[3] = 0 /\ b[4] = 0 THEN b[1] + 256 * b[2] ELSE Huge
    OBVIOUS
  <2>3. b[1] + 256 * b[2] \in Nat /\ Huge \in Nat
    BY <2>1 DEF Huge
  <2>4. v \in Nat
    BY <2>2, <2>3, Zenon
  <2> HIDE DEF b
  <2>5. ReadInt[p] = [ok |-> TRUE, next |-> p + 4, value |-> v]
    BY <1>2, <1>4, <2>2, Zenon
  <2>6. Len(d) \in Nat
    BY <1>1
  <2> QED
    BY <1>1, <1>4, <2>4, <2>5, <2>6
<1> QED
  BY <1>3, <1>4

(* Whatever is in the file, a string read from it is text ...              *)
LEMMA StringTypes ==
  ASSUME saved.data \in Seq(Nat), NEW p \in Nat \ {0}
  PROVE  /\ ReadString[p].text \in Seq(Nat) /\ ReadString[p].next \in Nat \ {0}
         /\ Plain(ReadString[p].text)
         /\ ReadString[p].ok => p + 3 <= Len(saved.data)
<1>1. PICK d : d \in Seq(Nat) /\ d = saved.data
  OBVIOUS
<1>2. PICK n : n = ReadInt[p]
  OBVIOUS
<1>3. n.value \in Nat /\ n.next = p + 4 /\ (n.ok => p + 3 <= Len(d))
  BY <1>1, <1>2, IntTypes
<1>4. PICK ok : ok = (n.ok /\ n.next + n.value - 1 <= Len(d))
  OBVIOUS
<1>5. ReadString[p] = [ok |-> ok, next |-> n.next + n.value,
                       text |-> IF ok THEN CString(SubSeq(d, n.next, n.next + n.value - 1))
                                ELSE << >>]
  <2>1. p \in Nat
    OBVIOUS
  <2> QED
    BY <1>1, <1>2, <1>4, <2>1, Zenon DEF ReadString
<1>6. PICK q \in Nat, k \in Nat : q = n.next /\ k = n.value /\ q > 0
  BY <1>3
<1>7. PICK t : t = IF ok THEN CString(SubSeq(d, n.next, n.next + n.value - 1)) ELSE << >>
  OBVIOUS
<1>8. t \in Seq(Nat) /\ Plain(t)
  <2>1. CASE ok
    <3>1. q + k - 1 <= Len(d)
      BY <1>4, <1>6, <2>1
    <3>2. SubSeq(d, q, q + k - 1) \in Seq(Nat)
      BY <1>1, <1>6, <3>1, q \in Nat \ {0}, CutOut, Zenon
    <3>3. PICK u \in Seq(Nat) : u = SubSeq(d, q, q + k - 1)
      BY <3>2
    <3>4. t = CString(u)
      BY <1>6, <1>7, <2>1, <3>3, Zenon
    <3> QED
      BY <3>4, CStringText, CStringPlain
  <2>2. CASE ~ok
    BY <1>7, <2>2 DEF Plain
  <2> QED
    BY <2>1, <2>2
<1>9. n.next + n.value \in Nat \ {0}
  BY <1>6
<1>10. ok => p + 3 <= Len(saved.data)
  BY <1>1, <1>3, <1>4, Zenon
<1>11. ReadString[p] = [ok |-> ok, next |-> n.next + n.value, text |-> t]
  BY <1>5, <1>7, Zenon
<1> QED
  BY <1>8, <1>9, <1>10, <1>11

(* ... an entry has the types of an entry, and the length of its file.     *)
LEMMA EntryTypes ==
  ASSUME saved.data \in Seq(Nat), at \in Nat \ {0}
  PROVE  /\ EntryRead.entry \in EntryShape /\ PlainEntry(EntryRead.entry)
         /\ EntryRead.content \in Seq(Nat)
         /\ EntryRead.next \in Nat \ {0}
         /\ EntryRead.ok /\ EntryRead.isFile
              => Len(EntryRead.content) = EntryRead.entry.valueLength
<1>1. PICK d : d \in Seq(Nat) /\ d = saved.data
  OBVIOUS
<1>2. PICK attr, value, name, type, len, flag, end :
        /\ attr = ReadString[at] /\ value = ReadString[attr.next]
        /\ name = ReadString[value.next] /\ type = ReadString[name.next]
        /\ len = ReadInt[type.next] /\ flag = ReadInt[len.next]
        /\ end = IF flag.value = 0 THEN flag.next ELSE flag.next + len.value
  OBVIOUS
<1>3. EntryRead =
        [ok   |-> value.ok /\ name.ok /\ type.ok /\ len.ok /\ flag.ok
                  /\ end - 1 <= Len(saved.data),
         entry |-> [attr |-> attr.text, value |-> value.text, valueLength |-> len.value,
                    fileName |-> name.text, contentType |-> type.text, tfile |-> NoFile],
         isFile |-> flag.value # 0, next |-> end,
         content |-> SubSeq(saved.data, flag.next, Min({end - 1, Len(saved.data)}))]
  BY <1>2, Zenon DEF EntryRead
<1>4. attr.text \in Seq(Nat) /\ attr.next \in Nat \ {0} /\ Plain(attr.text)
  BY <1>2, StringTypes
<1>5. value.text \in Seq(Nat) /\ value.next \in Nat \ {0} /\ Plain(value.text)
  BY <1>2, <1>4, StringTypes
<1>6. name.text \in Seq(Nat) /\ name.next \in Nat \ {0} /\ Plain(name.text)
  BY <1>2, <1>5, StringTypes
<1>7. type.text \in Seq(Nat) /\ type.next \in Nat \ {0} /\ Plain(type.text)
  BY <1>2, <1>6, StringTypes
<1>8. len.value \in Nat /\ len.next \in Nat \ {0}
  BY <1>2, <1>7, IntTypes
<1>9. flag.value \in Nat /\ flag.next \in Nat \ {0}
  BY <1>2, <1>8, IntTypes
<1>10. PICK q \in Nat \ {0}, k \in Nat, v \in Nat, m \in Nat :
         q = flag.next /\ k = len.value /\ v = flag.value /\ m = Len(d)
  BY <1>1, <1>8, <1>9
<1>11. end \in Nat \ {0} /\ (v # 0 => end = q + k)
  <2>1. end = IF v = 0 THEN q ELSE q + k
    BY <1>2, <1>10, Zenon
  <2>2. q + k \in Nat \ {0}
    OBVIOUS
  <2> QED
    BY <2>1, <2>2
<1>12. PICK e : e \in Int /\ e = Min({end - 1, m}) /\ e <= m /\ (end - 1 <= m => e = end - 1)
  <2>1. end - 1 \in Int /\ m \in Int
    BY <1>10, <1>11
  <2>2. PICK x \in Int, y \in Int : x = end - 1 /\ y = m
    BY <2>1
  <2>3. Min({x, y}) = IF x <= y THEN x ELSE y
    BY MinTwo
  <2> QED
    BY <2>2, <2>3
<1>13. PICK c : c = SubSeq(d, q, e)
  OBVIOUS
<1>14. c \in Seq(Nat)
  <2>1. PICK z \in Int : z = e /\ z <= Len(d)
    BY <1>10, <1>12
  <2>2. SubSeq(d, q, z) \in Seq(Nat)
    BY ONLY <1>1, <2>1, q \in Nat \ {0}, z \in Int
  <2> QED
    BY <1>13, <2>1, <2>2, Zenon
<1>15. ASSUME end - 1 <= m, v # 0 PROVE Len(c) = k
  <2>1. e = q + k - 1
    <3>1. end = q + k /\ e = end - 1
      BY <1>11, <1>12, <1>15, Zenon
    <3> QED
      BY <3>1
  <2>2. q + k - 1 <= Len(d)
    BY <1>10, <1>12, <2>1
  <2>3. Len(SubSeq(d, q, q + k - 1)) = k
    BY <1>1, <2>2, CutOut
  <2> QED
    BY <1>13, <2>1, <2>3, Zenon
<1>16. /\ EntryRead.next = end /\ EntryRead.isFile = (flag.value # 0)
       /\ EntryRead.ok => end - 1 <= m
       /\ EntryRead.content = SubSeq(saved.data, flag.next, Min({end - 1, Len(saved.data)}))
       /\ EntryRead.entry = [attr |-> attr.text, value |-> value.text, valueLength |-> len.value,
                    fileName |-> name.text, contentType |-> type.text, tfile |-> NoFile]
  BY <1>1, <1>3, <1>10
<1>17. EntryRead.content = c
  BY <1>1, <1>10, <1>12, <1>13, <1>16, Zenon
<1>18. EntryRead.entry \in EntryShape /\ EntryRead.entry.valueLength = k
  BY <1>4, <1>5, <1>6, <1>7, <1>8, <1>10, <1>16 DEF EntryShape, NoFile
<1>19. PlainEntry(EntryRead.entry)
  <2>1. PICK r : /\ r = EntryRead.entry /\ r.attr = attr.text /\ r.value = value.text
                 /\ r.fileName = name.text /\ r.contentType = type.text
    BY <1>16
  <2> QED
    BY <1>4, <1>5, <1>6, <1>7, <2>1, Zenon DEF PlainEntry
<1> QED
  BY <1>10, <1>11, <1>14, <1>15, <1>16, <1>17, <1>18, <1>19, Zenon

(* The strings of the head are read one behind the other.                  *)
Behind(r, s) == [s EXCEPT !.ok = @ /\ r.ok]

(* How the strings of the head follow one another.                         *)
LEMMA HeadChain ==
  /\ ReadHead[0] = ReadString[1]
  /\ ReadHead[1] = Behind(ReadHead[0], ReadString[ReadHead[0].next])
  /\ ReadHead[2] = Behind(ReadHead[1], ReadString[ReadHead[1].next])
  /\ ReadHead[3] = Behind(ReadHead[2], ReadString[ReadHead[2].next])
<1>1. PICK R : R = ReadString
  OBVIOUS
<1>2. PICK a, b, c, d : /\ a = R[1] /\ b = Behind(a, R[a.next])
                        /\ c = Behind(b, R[b.next]) /\ d = Behind(c, R[c.next])
  OBVIOUS
<1> DEFINE f == [i \in 0..3 |-> IF i = 0 THEN a ELSE IF i = 1 THEN b ELSE IF i = 2 THEN c ELSE d]
           g == CHOOSE g : g = [i \in 0..Len(SavedVars) |->
                  IF i = 0 THEN R[1] ELSE Behind(g[i - 1], R[g[i - 1].next])]
<1>3. \A i \in 0..3 : i = 0 \/ (i = 1 /\ i - 1 = 0) \/ (i = 2 /\ i - 1 = 1) \/ (i = 3 /\ i - 1 = 2)
  OBVIOUS
<1>4. /\ 0 \in 0..3 /\ 1 \in 0..3 /\ 2 \in 0..3 /\ 3 \in 0..3 /\ 1 # 0 /\ 2 # 0 /\ 3 # 0
      /\ 1 - 1 = 0 /\ 2 - 1 = 1 /\ 3 - 1 = 2
  OBVIOUS
<1>5. Len(SavedVars) = 3
  BY DEF SavedVars
<1>6. f = [i \in 0..3 |-> IF i = 0 THEN R[1] ELSE Behind(f[i - 1], R[f[i - 1].next])]
  <2>1. f[0] = a /\ f[1] = b /\ f[2] = c /\ f[3] = d
    OBVIOUS
  <2>2. f = [i \in 0..3 |-> f[i]]
    OBVIOUS
  <2> HIDE DEF f
  <2>3. \A i \in 0..3 : f[i] = IF i = 0 THEN R[1] ELSE Behind(f[i - 1], R[f[i - 1].next])
    <3> TAKE i \in 0..3
    <3>1. CASE i = 0
      BY <1>2, <2>1, <3>1, Zenon
    <3>2. CASE i = 1 /\ i - 1 = 0
      BY <1>2, <1>4, <2>1, <3>2, Zenon
    <3>3. CASE i = 2 /\ i - 1 = 1
      BY <1>2, <1>4, <2>1, <3>3, Zenon
    <3>4. CASE i = 3 /\ i - 1 = 2
      BY <1>2, <1>4, <2>1, <3>4, Zenon
    <3> QED
      BY <1>3, <3>1, <3>2, <3>3, <3>4, Zenon
  <2> QED
    BY <2>2, <2>3
<1>7. g = [i \in 0..Len(SavedVars) |->
             IF i = 0 THEN R[1] ELSE Behind(g[i - 1], R[g[i - 1].next])]
  <2> HIDE DEF f
  <2>1. f = [i \in 0..Len(SavedVars) |->
               IF i = 0 THEN R[1] ELSE Behind(f[i - 1], R[f[i - 1].next])]
    BY <1>5, <1>6, Zenon
  <2> QED
    BY <2>1, Zenon
<1>8. ReadHead = g
  BY <1>1, Zenon DEF ReadHead, Behind
<1> HIDE DEF g
<1>9. \A i \in 0..3 : g[i] = IF i = 0 THEN R[1] ELSE Behind(g[i - 1], R[g[i - 1].next])
  BY <1>5, <1>7
<1>10. /\ g[0] = R[1] /\ g[1] = Behind(g[0], R[g[0].next])
       /\ g[2] = Behind(g[1], R[g[1].next]) /\ g[3] = Behind(g[2], R[g[2].next])
  BY <1>4, <1>9, Zenon
<1> QED
  BY <1>1, <1>8, <1>10, Zenon

(* What they are: texts and positions, all there or not.                   *)
LEMMA HeadTypes ==
  ASSUME saved.data \in Seq(Nat)
  PROVE  /\ \A i \in 0..3 : ReadHead[i].text \in Seq(Nat) /\ ReadHead[i].next \in Nat \ {0}
         /\ ReadHead[3].ok => /\ ReadString[1].ok
                              /\ \A i \in 0..2 : ReadString[ReadHead[i].next].ok
         /\ ReadHead[0] = ReadString[1]
         /\ \A i \in 0..2 : /\ ReadHead[i + 1].text = ReadString[ReadHead[i].next].text
                            /\ ReadHead[i + 1].next = ReadString[ReadHead[i].next].next
<1>1. \A p \in Nat \ {0} : /\ {"ok", "next", "text"} = DOMAIN ReadString[p]
                           /\ ReadString[p].text \in Seq(Nat) /\ ReadString[p].next \in Nat \ {0}
                           /\ ReadString[p].ok \in BOOLEAN
  <2> TAKE p \in Nat \ {0}
  <2>1. p \in Nat
    OBVIOUS
  <2>2. {"ok", "next", "text"} = DOMAIN ReadString[p] /\ ReadString[p].ok \in BOOLEAN
    BY <2>1 DEF ReadString
  <2> QED
    BY <2>2, StringTypes
<1>2. PICK a, b, c, d : a = ReadHead[0] /\ b = ReadHead[1] /\ c = ReadHead[2] /\ d = ReadHead[3]
  OBVIOUS
<1>4. 1 \in Nat \ {0}
  OBVIOUS
<1>5. a = ReadString[1] /\ a.text \in Seq(Nat) /\ a.next \in Nat \ {0}
  BY <1>1, <1>2, <1>4, HeadChain, Zenon
<1>6. /\ b.text = ReadString[a.next].text /\ b.next = ReadString[a.next].next
      /\ b.text \in Seq(Nat) /\ b.next \in Nat \ {0}
      /\ b.ok => a.ok /\ ReadString[a.next].ok
  <2>1. PICK p \in Nat \ {0} : p = a.next
    BY <1>5
  <2>2. PICK t : t = ReadString[p]
    OBVIOUS
  <2>3. b = Behind(a, t)
    BY <1>2, <2>1, <2>2, HeadChain, Zenon
  <2>4. b = [t EXCEPT !.ok = t.ok /\ a.ok]
    BY <2>3, Zenon DEF Behind
  <2>5. /\ {"ok", "next", "text"} = DOMAIN t /\ t.ok \in BOOLEAN
        /\ t.text \in Seq(Nat) /\ t.next \in Nat \ {0}
    BY <1>1, <2>2
  <2>6. b.text = t.text /\ b.next = t.next /\ b.ok = (t.ok /\ a.ok)
    BY <2>4, <2>5
  <2> QED
    BY <2>1, <2>2, <2>5, <2>6, Zenon
<1>7. /\ c.text = ReadString[b.next].text /\ c.next = ReadString[b.next].next
      /\ c.text \in Seq(Nat) /\ c.next \in Nat \ {0}
      /\ c.ok => b.ok /\ ReadString[b.next].ok
  <2>1. PICK p \in Nat \ {0} : p = b.next
    BY <1>6
  <2>2. PICK t : t = ReadString[p]
    OBVIOUS
  <2>3. c = Behind(b, t)
    BY <1>2, <2>1, <2>2, HeadChain, Zenon
  <2>4. c = [t EXCEPT !.ok = t.ok /\ b.ok]
    BY <2>3, Zenon DEF Behind
  <2>5. /\ {"ok", "next", "text"} = DOMAIN t /\ t.ok \in BOOLEAN
        /\ t.text \in Seq(Nat) /\ t.next \in Nat \ {0}
    BY <1>1, <2>2
  <2>6. c.text = t.text /\ c.next = t.next /\ c.ok = (t.ok /\ b.ok)
    BY <2>4, <2>5
  <2> QED
    BY <2>1, <2>2, <2>5, <2>6, Zenon
<1>8. /\ d.text = ReadString[c.next].text /\ d.next = ReadString[c.next].next
      /\ d.text \in Seq(Nat) /\ d.next \in Nat \ {0}
      /\ d.ok => c.ok /\ ReadString[c.next].ok
  <2>1. PICK p \in Nat \ {0} : p = c.next
    BY <1>7
  <2>2. PICK t : t = ReadString[p]
    OBVIOUS
  <2>3. d = Behind(c, t)
    BY <1>2, <2>1, <2>2, HeadChain, Zenon
  <2>4. d = [t EXCEPT !.ok = t.ok /\ c.ok]
    BY <2>3, Zenon DEF Behind
  <2>5. /\ {"ok", "next", "text"} = DOMAIN t /\ t.ok \in BOOLEAN
        /\ t.text \in Seq(Nat) /\ t.next \in Nat \ {0}
    BY <1>1, <2>2
  <2>6. d.text = t.text /\ d.next = t.next /\ d.ok = (t.ok /\ c.ok)
    BY <2>4, <2>5
  <2> QED
    BY <2>1, <2>2, <2>5, <2>6, Zenon
<1>9. /\ \A i \in 0..3 : i = 0 \/ i = 1 \/ i = 2 \/ i = 3
      /\ \A i \in 0..2 : (i = 0 /\ i + 1 = 1) \/ (i = 1 /\ i + 1 = 2) \/ (i = 2 /\ i + 1 = 3)
  OBVIOUS
<1>10. \A i \in 0..3 : ReadHead[i].text \in Seq(Nat) /\ ReadHead[i].next \in Nat \ {0}
  BY <1>2, <1>5, <1>6, <1>7, <1>8, <1>9, Zenon
<1>11. \A i \in 0..2 : /\ ReadHead[i + 1].text = ReadString[ReadHead[i].next].text
                       /\ ReadHead[i + 1].next = ReadString[ReadHead[i].next].next
  BY <1>2, <1>6, <1>7, <1>8, <1>9, Zenon
<1>12. d.ok => ReadString[1].ok /\ \A i \in 0..2 : ReadString[ReadHead[i].next].ok
  BY <1>2, <1>5, <1>6, <1>7, <1>8, <1>9, Zenon
<1> QED
  BY <1>2, <1>5, <1>10, <1>11, <1>12, Zenon

(* A head of which all is there is read up to its end.                     *)
LEMMA ReadsHead ==
  ASSUME NEW D \in Seq(Nat), NEW m \in 0..Len(D), saved.data = SubSeq(D, 1, m),
         NEW p, HeadAt(D, p), ReadHead[3].ok, ReadInt[ReadHead[3].next].ok
  PROVE  ReadInt[ReadHead[3].next].next = p
<1>0. HeadAt(D, p)
  OBVIOUS
<1>1. PICK a \in Seq(Nat), b \in Seq(Nat), c \in Seq(Nat), n \in Nat,
           pb \in Nat \ {0}, pc4 \in Nat \ {0}, pn \in Nat \ {0} :
        /\ pb = 9 + 4 + Len(a) /\ pc4 = pb + 4 + Len(b) /\ pn = pc4 + 4 + Len(c) /\ p = pn + 4
        /\ StringAt(D, 1, Version) /\ StringAt(D, 9, a) /\ StringAt(D, pb, b)
        /\ StringAt(D, pc4, c) /\ IntAt(D, pn, n)
  BY <1>0 DEF HeadAt
<1>2. saved.data \in Seq(Nat)
  <2>1. PICK d : d = saved.data /\ d = SubSeq(D, 1, m)
    OBVIOUS
  <2> QED
    BY <2>1, Beginning, Zenon
<1>3. /\ ReadString[1].ok /\ \A i \in 0..2 : ReadString[ReadHead[i].next].ok
      /\ ReadHead[0] = ReadString[1]
      /\ \A i \in 0..2 : ReadHead[i + 1].next = ReadString[ReadHead[i].next].next
  BY <1>2, HeadTypes
<1>s. \A x, s : /\ x \in Nat \ {0} /\ s \in Seq(Nat) /\ StringAt(D, x, s) /\ ReadString[x].ok
                => ReadString[x].next = x + 4 + Len(s)
  <2> SUFFICES ASSUME NEW x \in Nat \ {0}, NEW s \in Seq(Nat), StringAt(D, x, s),
                      ReadString[x].ok
               PROVE  ReadString[x].next = x + 4 + Len(s)
    OBVIOUS
  <2> QED
    BY ReadsString
<1>4. /\ 0 \in 0..2 /\ 1 \in 0..2 /\ 2 \in 0..2 /\ 0 + 1 = 1 /\ 1 + 1 = 2 /\ 2 + 1 = 3
      /\ 1 \in Nat \ {0} /\ 9 \in Nat \ {0} /\ 1 + 4 + 4 = 9
  OBVIOUS
<1>5. Version \in Seq(Nat) /\ Len(Version) = 4
  BY DEF Version
<1>6. ReadHead[0].next = 9
  <2>1. ReadString[1].next = 1 + 4 + Len(Version)
    <3>1. StringAt(D, 1, Version) /\ ReadString[1].ok
      BY <1>1, <1>3, Zenon
    <3>2. 1 \in Nat \ {0} /\ Version \in Seq(Nat)
      BY <1>5
    <3> QED
      BY <1>s, <3>1, <3>2, Zenon
  <2> QED
    BY <1>3, <1>5, <2>1
<1>7. ReadHead[1].next = pb
  <2>1. ReadString[9].ok /\ ReadHead[1].next = ReadString[9].next
    BY <1>3, <1>4, <1>6, Zenon
  <2> QED
    BY <1>1, <1>4, <1>s, <2>1, Zenon
<1>8. ReadHead[2].next = pc4
  <2>1. ReadString[pb].ok /\ ReadHead[2].next = ReadString[pb].next
    BY <1>3, <1>4, <1>7, Zenon
  <2> QED
    BY <1>1, <1>s, <2>1, Zenon
<1>9. ReadHead[3].next = pn
  <2>1. ReadString[pc4].ok /\ ReadHead[3].next = ReadString[pc4].next
    BY <1>3, <1>4, <1>8, Zenon
  <2> QED
    BY <1>1, <1>s, <2>1, Zenon
<1> QED
  BY <1>1, <1>2, <1>9, IntTypes

-----------------------------------------------------------------------------
(* What is read, held and written is text.                                 *)

PartText(p) ==
  /\ p.fname \in Seq(Nat) /\ p.fileName \in Seq(Nat) /\ p.contentType \in Seq(Nat)
  /\ p.out \in Seq(Nat)
LineText(l) == l.attr \in Seq(Nat) /\ l.value \in Seq(Nat)
HeldText == PartText(part) /\ LineText(line)

FormText == entries \in Seq(EntryShape) /\ \A f \in DOMAIN files : files[f] \in Seq(Nat)

ProcessText ==
  /\ env \in [ToSet(SavedVars) -> Seq(Nat)]
  /\ "length" \in DOMAIN req /\ req.length \in Nat /\ at \in Nat

DiskText ==
  /\ DOMAIN kept = {"form", "whole"} /\ kept.form \in Seq(FieldShape)
  /\ saved \in [exists : BOOLEAN, data : Seq(Nat)]

TextInv == HeldText /\ FormText /\ ProcessText /\ DiskText

(* One letter more.                                                        *)
LEMMA AppendText ==
  ASSUME NEW u \in Seq(Nat), NEW c \in Nat
  PROVE  Append(u, c) \in Seq(Nat)
OBVIOUS

(* At its beginning and at its end a process holds nothing.                *)
LEMMA NothingHeld == PartText(NewPart) /\ LineText(NoLine)
<1>1. << >> \in Seq(Nat)
  OBVIOUS
<1> QED
  BY <1>1 DEF PartText, LineText, NewPart, NoLine

(* The part collects letters of the input or of the boundary,              *)
LEMMA SearchText ==
  ASSUME ReaderInv, HeldText, SearchByte \/ SearchEnd \/ SearchFails \/ SearchNoMemory
  PROVE  HeldText'
<1>1. PartText(part) /\ LineText(line) /\ line' = line
  BY DEF HeldText, SearchByte, SearchEnd, SearchFails, SearchNoMemory
<1>2. CASE SearchByte
  <2>1. pc = "search" /\ pc \in Searching /\ pc \in Reading
    BY <1>2 DEF SearchByte, Searching, Reading
  <2>2. part.out \in Seq(Nat) /\ part.delim \in Seq(Nat) /\ part.matched \in Nat
        /\ part.matched <= Len(part.delim) /\ Fields \subseteq DOMAIN part
    BY <2>1, SearchFacts, Zenon
  <2>3. PICK r : r = Read(1)
    OBVIOUS
  <2>4. r.got \in Seq(Nat)
    BY <2>1, <2>3, ReadingFacts, 1 \in Nat, Zenon DEF IsRead
  <2>5. /\ r.got # << >>
        /\ \/ part' = [part EXCEPT !.matched = @ + 1]
           \/ part.matched > 0 /\ part' = [Emit(part.delim[1]) EXCEPT !.matched = 0]
           \/ part' = Emit(r.got[1])
    BY <1>2, <2>3, Zenon DEF SearchByte
  <2>6. r.got[1] \in Nat
    BY <2>4, <2>5
  <2>7. part.matched > 0 => part.delim[1] \in Nat
    BY <2>2
  <2>8. ASSUME NEW c \in Nat PROVE PartText(Emit(c)) /\ "matched" \in DOMAIN Emit(c)
    <3>1. PICK o : o \in Seq(Nat) /\ o = Append(part.out, c)
      <4>1. Append(part.out, c) \in Seq(Nat)
        BY <2>2, AppendText
      <4> QED
        BY <4>1, Zenon
    <3>2. Emit(c) = IF part.to = "nowhere" THEN part ELSE [part EXCEPT !.out = o]
      BY <3>1, Zenon DEF Emit
    <3>3. DOMAIN part = DOMAIN NewPart
      BY DEF ReaderInv, StreamInv
    <3> QED
      BY <1>1, <3>1, <3>2, <3>3 DEF PartText, NewPart
  <2>9. CASE part' = [part EXCEPT !.matched = @ + 1]
    BY <1>1, <2>9 DEF HeldText, PartText
  <2>10. CASE part.matched > 0 /\ part' = [Emit(part.delim[1]) EXCEPT !.matched = 0]
    <3>1. PICK e : e = Emit(part.delim[1]) /\ PartText(e)
      BY <2>7, <2>8, <2>10
    <3>2. part' = [e EXCEPT !.matched = 0]
      BY <2>10, <3>1
    <3> QED
      BY <1>1, <3>1, <3>2 DEF HeldText, PartText
  <2>11. CASE part' = Emit(r.got[1])
    BY <1>1, <2>6, <2>8, <2>11 DEF HeldText
  <2> QED
    BY <2>5, <2>9, <2>10, <2>11
<1>3. CASE SearchEnd
  BY <1>1, <1>3 DEF SearchEnd, HeldText
<1>4. CASE SearchFails \/ SearchNoMemory
  BY <1>1, <1>4, NothingHeld DEF SearchFails, SearchNoMemory, HeldText
<1> QED
  BY <1>2, <1>3, <1>4

(* a header line its name and its value,                                   *)
LEMMA HeaderText ==
  ASSUME HeldText, DOMAIN part = DOMAIN NewPart, HeaderLine
  PROVE  HeldText'
<1>1. PartText(part) /\ line.value \in Seq(Nat)
  BY DEF HeldText, LineText
<1>2. PICK d : d = DecomposeValue(line.value)
  OBVIOUS
<1>3. d.value \in Seq(Nat) /\ \A name : Argument(d, name) \in Seq(Nat)
  BY <1>1, <1>2, DecomposedText
<1>4. PartText(Headed(d))
  <2>1. PICK n, f : n = Argument(d, <<NameWord>>) /\ f = Argument(d, <<FileNameWord>>)
    OBVIOUS
  <2>2. n \in Seq(Nat) /\ f \in Seq(Nat)
    BY <1>3, <2>1
  <2>3. \/ Headed(d) = [part EXCEPT !.fvalue = d.value, !.fname = n, !.fileName = f]
        \/ Headed(d) = [part EXCEPT !.contentType = d.value]
        \/ Headed(d) = part
    BY <2>1 DEF Headed
  <2> QED
    BY <1>1, <1>3, <2>2, <2>3 DEF PartText, NewPart
<1>5. line' = NoLine /\ (part' = part \/ part' = Headed(d))
  BY <1>2 DEF HeaderLine
<1> QED
  BY <1>1, <1>4, <1>5, NothingHeld, Zenon DEF HeldText

(* A letter of a header line, or its end.                                  *)
LEMMA HeaderByteText ==
  ASSUME ReaderInv, HeldText, HeaderByte
  PROVE  HeldText'
<1>1. pc \in Reading
  BY DEF HeaderByte, Reading
<1>2. PICK r, c : r = Read(1) /\ c = r.got[1]
  OBVIOUS
<1>3. r.got # << >>
  BY <1>2 DEF HeaderByte
<1>4. r.got \in Seq(Nat)
  BY <1>1, <1>2, ReadingFacts, 1 \in Nat, Zenon DEF IsRead
<1>5. c \in Nat
  BY <1>2, <1>3, <1>4
<1>6. DOMAIN part = DOMAIN NewPart /\ DOMAIN line = DOMAIN NoLine
  BY DEF ReaderInv, StreamInv
<1>7. /\ PartText(part) /\ LineText(line) /\ line.attr \in Seq(Nat) /\ line.value \in Seq(Nat)
  <2>1. PartText(part) /\ LineText(line)
    BY DEF HeldText
  <2> QED
    BY <2>1 DEF LineText
<1>8. PICK v \in Seq(Nat), a \in Seq(Nat) : v = Append(line.value, c) /\ a = Append(line.attr, c)
  <2>1. Append(line.value, c) \in Seq(Nat) /\ Append(line.attr, c) \in Seq(Nat)
    BY <1>5, <1>7, AppendText
  <2> QED
    BY <2>1, Zenon
<1>9. \/ HeaderLine
      \/ /\ part' = part
         /\ \/ line' = [line EXCEPT !.skip = c \in Whitespace]
            \/ line' = line
            \/ line' = [line EXCEPT !.found = TRUE, !.skip = TRUE]
            \/ line' = [line EXCEPT !.value = v]
            \/ line' = [line EXCEPT !.attr = a]
  BY <1>2, <1>8 DEF HeaderByte
<1>10. CASE HeaderLine
  BY <1>6, <1>10, HeaderText
<1>11. CASE /\ part' = part
            /\ \/ line' = [line EXCEPT !.skip = c \in Whitespace]
               \/ line' = line
               \/ line' = [line EXCEPT !.found = TRUE, !.skip = TRUE]
               \/ line' = [line EXCEPT !.value = v]
               \/ line' = [line EXCEPT !.attr = a]
  <2>1. LineText(line')
    BY <1>6, <1>7, <1>8, <1>11 DEF LineText, NoLine
  <2> QED
    BY <1>7, <1>11, <2>1, Zenon DEF HeldText
<1> QED
  BY <1>9, <1>10, <1>11

(* and a new body is empty.                                                *)
LEMMA BodyText ==
  ASSUME ReaderInv, HeldText, OpenBody \/ OpenBodyFails
  PROVE  HeldText'
<1>1. /\ line' = line
      /\ part' = part \/ \E to, file : Collect(to, file)
  BY DEF OpenBody, OpenBodyFails
<1>2. PartText(part) /\ LineText(line) /\ DOMAIN part = DOMAIN NewPart /\ << >> \in Seq(Nat)
  BY DEF HeldText, ReaderInv, StreamInv
<1>3. ASSUME NEW to, NEW file, Collect(to, file) PROVE PartText(part')
  BY <1>2, <1>3 DEF Collect, PartText, NewPart
<1> QED
  BY <1>1, <1>2, <1>3 DEF HeldText

(* A form grows by an entry, a disk by a file.                             *)
LEMMA FormGrows ==
  ASSUME entries \in Seq(EntryShape), NEW e, e \in EntryShape, entries' = Append(entries, e)
  PROVE  /\ entries' \in Seq(EntryShape) /\ DOMAIN entries' = 1..Len(entries) + 1
         /\ DOMAIN entries = 1..Len(entries) /\ Len(entries) \in Nat
         /\ Len(entries') = Len(entries) + 1
         /\ \A i \in DOMAIN entries : entries'[i] = entries[i]
         /\ entries'[Len(entries) + 1] = e
<1>1. PICK es, S : S = EntryShape /\ es \in Seq(S) /\ es = entries
  OBVIOUS
<1>2. e \in S
  BY <1>1
<1>3. /\ Append(es, e) \in Seq(S) /\ DOMAIN Append(es, e) = 1..Len(es) + 1
      /\ DOMAIN es = 1..Len(es) /\ Len(es) \in Nat /\ Len(Append(es, e)) = Len(es) + 1
      /\ \A i \in DOMAIN es : Append(es, e)[i] = es[i]
      /\ Append(es, e)[Len(es) + 1] = e
  BY ONLY <1>1, <1>2
<1> QED
  BY <1>1, <1>3, Zenon

(* One file more on the disk.                                              *)
LEMMA DiskGrows ==
  ASSUME \A f \in DOMAIN files : files[f] \in Seq(Nat), NEW content \in Seq(Nat),
         NEW file, NEW disk, disk = With(file, content)
  PROVE  /\ \A f \in DOMAIN disk : disk[f] \in Seq(Nat)
         /\ DOMAIN disk = DOMAIN files \cup {file} /\ disk[file] = content
         /\ \A f \in DOMAIN files : f # file => disk[f] = files[f]
BY DEF With

(* What the reader stores is text.                                         *)
LEMMA StoreText ==
  ASSUME ReaderInv, EntryInv, HeldText, FormText, Store \/ StoreShort
  PROVE  /\ FormText' /\ PartEntry \in EntryShape
         /\ entries' = Append(entries, PartEntry) /\ DOMAIN files' = DOMAIN files
         /\ part.file \in DOMAIN files \cup {NoFile}
         /\ \A f \in DOMAIN files : f # part.file => files'[f] = files[f]
<1>1. /\ pc \in WithFile /\ entries' = Append(entries, PartEntry)
      /\ \/ files' = files
         \/ files' = [files EXCEPT ![part.file] = part.out]
         \/ \E n \in 0..Len(part.out) - 1 :
              files' = [files EXCEPT ![part.file] = SubSeq(part.out, 1, n)]
  BY DEF Store, StoreShort, WithFile
<1>2. part.file \in DOMAIN files \cup {NoFile} /\ DOMAIN files \subseteq TempFiles
  BY <1>1 DEF EntryInv, Owned
<1>3. part.file \in Int
  <2>1. part.file \in TempFiles \cup {NoFile}
    BY <1>2, Zenon
  <2>2. \A f \in TempFiles : f \in Int
    BY TempNames, Zenon
  <2> QED
    BY <2>1, <2>2 DEF NoFile
<1>4. PartText(part) /\ part.out \in Seq(Nat) /\ Len(part.out) \in Nat
  BY DEF HeldText, PartText
<1>5. PartEntry \in EntryShape
  <2>1. PICK a, n, t : /\ a = CString(part.fname) /\ n = CString(part.fileName)
                       /\ t = CString(part.contentType)
    OBVIOUS
  <2>2. a \in Seq(Nat) /\ n \in Seq(Nat) /\ t \in Seq(Nat)
    BY <1>4, <2>1, CStringText DEF PartText
  <2>3. PICK v : v = (IF part.to = "file" THEN << >> ELSE CString(part.out))
    OBVIOUS
  <2>4. v \in Seq(Nat)
    BY <1>4, <2>3, CStringText
  <2>5. PartEntry = [attr |-> a, value |-> v, valueLength |-> Len(part.out), fileName |-> n,
                     contentType |-> t, tfile |-> part.file]
    BY <2>1, <2>3, Zenon DEF PartEntry
  <2> QED
    BY <1>3, <1>4, <2>2, <2>4, <2>5 DEF EntryShape
<1>6. \A f \in DOMAIN files : files[f] \in Seq(Nat)
  BY DEF FormText
<1>7. /\ DOMAIN files' = DOMAIN files
      /\ \A f \in DOMAIN files : files'[f] \in Seq(Nat)
      /\ \A f \in DOMAIN files : f # part.file => files'[f] = files[f]
  <2>1. ASSUME NEW c \in Seq(Nat), files' = [files EXCEPT ![part.file] = c]
        PROVE  /\ DOMAIN files' = DOMAIN files
               /\ \A f \in DOMAIN files : files'[f] \in Seq(Nat)
               /\ \A f \in DOMAIN files : f # part.file => files'[f] = files[f]
    BY <1>6, <2>1
  <2>2. \A n \in 0..Len(part.out) - 1 : SubSeq(part.out, 1, n) \in Seq(Nat)
    BY <1>4
  <2> QED
    BY <1>1, <1>4, <1>6, <2>1, <2>2, Zenon
<1>8. entries' \in Seq(EntryShape)
  <2>1. PICK e : e = PartEntry
    OBVIOUS
  <2> QED
    BY <1>1, <1>5, <2>1, FormGrows DEF FormText
<1> QED
  BY <1>1, <1>2, <1>5, <1>7, <1>8 DEF FormText

(* Every step of the reader keeps text text.                               *)
LEMMA ReaderText ==
  ASSUME ReaderInv, EntryInv, HeldText, FormText, MultipartStep
  PROVE  HeldText' /\ FormText'
<1>1. PartText(part) /\ LineText(line) /\ PartText(NewPart) /\ LineText(NoLine)
  BY NothingHeld DEF HeldText
<1>2. entries \in Seq(EntryShape) /\ \A f \in DOMAIN files : files[f] \in Seq(Nat)
  BY DEF FormText
<1>3. DOMAIN part = DOMAIN NewPart
  BY DEF ReaderInv, StreamInv
<1>4. \A file : \A f \in DOMAIN Without(file) : Without(file)[f] \in Seq(Nat)
  BY <1>2 DEF Without
<1>5. CASE SearchByte \/ SearchEnd \/ SearchFails \/ SearchNoMemory
  <2>1. entries' = entries /\ (files' = files \/ files' = Without(part.file))
    BY <1>5 DEF SearchByte, SearchEnd, SearchFails, SearchNoMemory
  <2> QED
    BY <1>2, <1>4, <1>5, <2>1, SearchText DEF FormText
<1>6. CASE NextPart \/ HeaderByte \/ HeaderCR \/ HeaderEnds \/ NotAField
  <2>1. UNCHANGED <<entries, files>>
    BY <1>6 DEF NextPart, HeaderByte, HeaderCR, HeaderEnds, NotAField, multipartVars
  <2>2. HeldText'
    <3>1. CASE HeaderByte
      BY <3>1, HeaderByteText
    <3>2. CASE HeaderCR
      BY <1>3, <3>2, HeaderText DEF HeaderCR
    <3>3. CASE NextPart
      BY <1>1, <3>3 DEF NextPart, HeldText
    <3>4. CASE HeaderEnds
      BY <1>1, <3>4 DEF HeaderEnds, HeldText
    <3>5. CASE NotAField
      BY <1>1, <3>5 DEF NotAField, multipartVars, HeldText
    <3> QED
      BY <1>6, <3>1, <3>2, <3>3, <3>4, <3>5
  <2> QED
    BY <1>2, <2>1, <2>2 DEF FormText
<1>7. CASE OpenBody \/ OpenBodyFails
  <2>1. entries' = entries /\ (files' = files \/ files' = With(FreshFile, << >>))
    BY <1>7 DEF OpenBody, OpenBodyFails
  <2>2. << >> \in Seq(Nat)
    OBVIOUS
  <2>3. \A f \in DOMAIN files' : files'[f] \in Seq(Nat)
    BY <1>2, <2>1, <2>2, DiskGrows
  <2> QED
    BY <1>2, <1>7, <2>1, <2>3, BodyText DEF FormText
<1>8. CASE Store \/ StoreShort
  <2>1. part' = part /\ line' = line
    BY <1>8 DEF Store, StoreShort
  <2> QED
    BY <1>1, <1>8, <2>1, StoreText DEF HeldText
<1>9. CASE StoreNoMemory
  <2>1. /\ entries' = entries /\ (files' = files \/ files' = Without(part.file))
        /\ part' = NewPart /\ line' = line
    BY <1>9 DEF StoreNoMemory
  <2> QED
    BY <1>1, <1>2, <1>4, <2>1 DEF HeldText, FormText
<1> QED
  BY <1>5, <1>6, <1>7, <1>8, <1>9 DEF MultipartStep

-----------------------------------------------------------------------------
(* The files of the entries stay as they are, or go.                       *)
Unharmed ==
  \A i \in DOMAIN entries : entries[i].tfile \in DOMAIN files' =>
    entries[i].tfile \in DOMAIN files /\ files'[entries[i].tfile] = files[entries[i].tfile]

(* A file no entry has may come, change or go.                             *)
LEMMA OthersUnharmed ==
  ASSUME NEW file, Unowned(file, entries), DOMAIN files' \subseteq TempFiles,
         DOMAIN files' \subseteq DOMAIN files \cup {file},
         \A f \in DOMAIN files' : f # file => files'[f] = files[f]
  PROVE  Unharmed
BY Zenon DEF Unowned, Unharmed

(* The files stay.                                                         *)
LEMMA SameUnharmed ==
  ASSUME files' = files
  PROVE  Unharmed
BY DEF Unharmed

-----------------------------------------------------------------------------
(* The other steps keep text text.                                         *)

(* A request arrives.                                                      *)
LEMMA ArriveText ==
  ASSUME Arrive, TextInv
  PROVE  TextInv'
<1>1. UNCHANGED <<line, part, entries, files, saved, at, kept>>
  BY DEF Arrive
<1>2. PICK r \in FirstRequests \cup LaterRequests :
        /\ req' = IF r.method = "GET" THEN [r EXCEPT !.length = Len(r.env.query)] ELSE r
        /\ env' = [r.env EXCEPT !.contentType = TypeOf(@)]
  BY DEF Arrive
<1>3. r \in Requests
  BY RequestAssumption
<1>4. /\ r.env \in [query : Text, contentType : Text, cookie : Text]
      /\ r.env.query \in Seq(Nat) /\ r.length \in Nat /\ "length" \in DOMAIN r
  BY <1>3 DEF Requests, Text
<1>5. PICK s \in Seq(Nat) : s = r.env.contentType
  BY <1>4 DEF Text
<1>6. PICK t : t \in Seq(Nat) /\ t = TypeOf(s)
  <2>1. 1 \in Nat /\ Len(s) \in Nat
    OBVIOUS
  <2>2. PICK e : e = Seek(s, 1, {SEMI})
    OBVIOUS
  <2>3. e \in Nat /\ e <= Max({1, Len(s) + 1})
    BY <2>1, <2>2, SeekFacts
  <2>4. SubSeq(s, 1, e - 1) \in Seq(Nat)
    BY <2>1, <2>3, PieceText
  <2> QED
    BY <2>2, <2>4, Zenon DEF TypeOf
<1>7. env' \in [ToSet(SavedVars) -> Seq(Nat)]
  <2>1. ToSet(SavedVars) = {"query", "contentType", "cookie"}
    BY DEF SavedVars, ToSet
  <2>2. env' = [r.env EXCEPT !.contentType = t]
    BY <1>2, <1>5, <1>6, Zenon
  <2>3. env' \in [query : Seq(Nat), contentType : Seq(Nat), cookie : Seq(Nat)]
    BY <1>4, <1>6, <2>2 DEF Text
  <2> QED
    BY <2>1, <2>3
<1>8. req'.length \in Nat /\ "length" \in DOMAIN req'
  BY <1>2, <1>4
<1> QED
  BY <1>1, <1>7, <1>8 DEF TextInv, HeldText, FormText, ProcessText, DiskText

(* What is parsed in one go is the query or the body.                      *)
LEMMA ParsedFrom ==
  ASSUME ReaderInv, ParseGet \/ ParsePost \/ ParseNothing \/ ParseNoMemory
  PROVE  UNCHANGED entries \/ \E data \in Seq(Nat) : entries' = ParseFormInput(data)
<1>1. pc = "start"
  BY DEF ParseGet, ParsePost, ParseNothing, ParseNoMemory
<1>2. env.query \in Seq(Nat)
  BY <1>1 DEF ReaderInv, StreamInv, Text
<1>3. ASSUME ~(Len(stdin) < req.length)
      PROVE  SubSeq(stdin, 1, req.length) \in Seq(Nat)
  <2>1. stdin \in Seq(Nat) /\ req.length \in Nat
    BY <1>1, Zenon DEF ReaderInv, StreamInv, Text
  <2>2. PICK n \in Nat : n = req.length /\ n <= Len(stdin)
    BY <1>3, <2>1
  <2>3. SubSeq(stdin, 1, n) \in Seq(Nat)
    BY ONLY <2>1, <2>2
  <2> QED
    BY <2>2, <2>3, Zenon
<1>4. CASE ParsePost
  BY <1>3, <1>4, Zenon DEF ParsePost
<1>5. CASE ParseGet \/ ParseNothing \/ ParseNoMemory
  BY <1>2, <1>5, Zenon DEF ParseGet, ParseNothing, ParseNoMemory, formVars
<1> QED
  BY <1>4, <1>5

(* A form that is no multipart form.                                       *)
LEMMA ParseText ==
  ASSUME ReaderInv, EntryInv, TextInv, Parse
  PROVE  TextInv'
<1>1. UNCHANGED <<req, env, at, kept, saved>>
  BY DEF Parse
<1>2. ProcessText' /\ DiskText'
  BY <1>1 DEF TextInv, ProcessText, DiskText
<1>3. HeldText /\ FormText
  BY DEF TextInv
<1>4. CASE MultipartStep
  BY <1>2, <1>3, <1>4, ReaderText DEF TextInv
<1>5. CASE ParseMultipart
  <2>1. /\ UNCHANGED <<line, entries, files>>
        /\ part' = [NewPart EXCEPT !.first = TRUE, !.delim = Delimiter(TRUE)]
    BY <1>5 DEF ParseMultipart
  <2>2. PartText(part')
    BY <2>1, NothingHeld DEF PartText, NewPart
  <2> QED
    BY <1>2, <1>3, <2>1, <2>2 DEF TextInv, HeldText, FormText
<1>6. CASE ParseGet \/ ParsePost \/ ParseNothing \/ ParseNoMemory
  <2>1. pc = "start" /\ UNCHANGED <<line, part, files>>
    BY <1>6 DEF ParseGet, ParsePost, ParseNothing, ParseNoMemory, formVars
  <2>2. UNCHANGED entries \/ \E data \in Seq(Nat) : entries' = ParseFormInput(data)
    BY <1>6, ParsedFrom
  <2>3. entries' \in Seq(EntryShape)
    BY <1>3, <2>2, ParsedFacts, Zenon DEF FormText
  <2> QED
    BY <1>2, <1>3, <2>1, <2>3 DEF TextInv, HeldText, FormText
<1> QED
  BY <1>4, <1>5, <1>6 DEF Parse

(* The form as a program sees it is text, and so is what is saved of it.   *)
LEMMA FormIsText ==
  ASSUME FormText
  PROVE  /\ Form \in Seq(FieldShape) /\ DOMAIN Form = DOMAIN entries
         /\ Len(Form) = Len(entries)
         /\ \A i \in DOMAIN entries :
              Form[i] = [attr |-> entries[i].attr, value |-> entries[i].value,
                         valueLength |-> entries[i].valueLength,
                         fileName |-> entries[i].fileName,
                         contentType |-> entries[i].contentType,
                         content |-> Content(entries[i])]
<1>1. PICK n \in Nat : n = Len(entries) /\ DOMAIN entries = 1..n
  BY DEF FormText
<1>2. \A i \in DOMAIN entries : entries[i] \in EntryShape
  BY DEF FormText
<1>3. \A e : Content(e) \in Seq(Nat)
  BY DEF FormText, Content
<1>4. \A i \in DOMAIN entries :
              Form[i] = [attr |-> entries[i].attr, value |-> entries[i].value,
                         valueLength |-> entries[i].valueLength,
                         fileName |-> entries[i].fileName,
                         contentType |-> entries[i].contentType,
                         content |-> Content(entries[i])]
  BY DEF Form
<1>5. \A i \in DOMAIN entries : Form[i] \in FieldShape
  <2> TAKE i \in DOMAIN entries
  <2>1. PICK e, c : e = entries[i] /\ c = Content(e) /\ e \in EntryShape /\ c \in Seq(Nat)
    BY <1>2, <1>3
  <2>2. Form[i] = [attr |-> e.attr, value |-> e.value, valueLength |-> e.valueLength,
                   fileName |-> e.fileName, contentType |-> e.contentType, content |-> c]
    BY <1>4, <2>1, Zenon
  <2> QED
    BY <2>1, <2>2 DEF FieldShape, EntryShape
<1>6. DOMAIN Form = DOMAIN entries /\ Form = [i \in 1..n |-> Form[i]]
  BY <1>1 DEF Form
<1>7. Form \in Seq(FieldShape) /\ Len(Form) = n
  <2>1. PICK F, S : F = Form /\ S = FieldShape
    OBVIOUS
  <2>2. F = [i \in 1..n |-> F[i]] /\ \A i \in 1..n : F[i] \in S
    BY <1>1, <1>5, <1>6, <2>1, Zenon
  <2>3. F \in Seq(S) /\ Len(F) = n
    BY ONLY <2>2, n \in Nat
  <2> QED
    BY <2>1, <2>3, Zenon
<1> QED
  BY <1>1, <1>4, <1>6, <1>7

(* An entry is saved as text.                                              *)
LEMMA SavedText ==
  ASSUME NEW disk, \A f \in DOMAIN disk : disk[f] \in Seq(Nat), NEW e \in EntryShape
  PROVE  SavedEntry(e, disk) \in Seq(Nat)
<1>1. PICK a, v, n, t, k :
        /\ a \in Seq(Nat) /\ v \in Seq(Nat) /\ n \in Seq(Nat) /\ t \in Seq(Nat) /\ k \in Seq(Nat)
        /\ a = WriteString(e.attr) /\ v = WriteString(e.value)
        /\ n = WriteString(e.fileName) /\ t = WriteString(e.contentType)
        /\ k = WriteInt(e.valueLength)
  BY WrittenString, WrittenInt DEF EntryShape
<1>2. PICK w : w = IF FormFileOpen(entries, e.attr, disk) = "Success"
                   THEN WriteInt(1) \o FormFileRead(entries, e.attr, disk)
                   ELSE WriteInt(0)
  OBVIOUS
<1>3. WriteInt(1) \in Seq(Nat) /\ WriteInt(0) \in Seq(Nat)
  BY WrittenInt
<1>4. FormFileOpen(entries, e.attr, disk) = "Success"
        => FormFileRead(entries, e.attr, disk) \in Seq(Nat)
  BY DEF FormFileOpen, FormFileRead
<1>5. w \in Seq(Nat)
  BY <1>2, <1>3, <1>4
<1>6. ((((a \o v) \o n) \o t) \o k) \o w \in Seq(Nat)
  BY ONLY <1>1, <1>5
<1> QED
  BY <1>1, <1>2, <1>6, Zenon DEF SavedEntry

(* A file that was cut.                                                    *)
LEMMA CutsText ==
  ASSUME saved \in [exists : BOOLEAN, data : Seq(Nat)], NEW s \in Cuts
  PROVE  /\ s \in [exists : BOOLEAN, data : Seq(Nat)] /\ s.exists = saved.exists
         /\ \E n \in 0..Len(saved.data) : s.data = SubSeq(saved.data, 1, n)
<1>1. PICK n \in 0..Len(saved.data) : s = [saved EXCEPT !.data = SubSeq(@, 1, n)]
  BY DEF Cuts
<1>2. PICK d \in Seq(Nat) : d = saved.data
  OBVIOUS
<1>3. SubSeq(d, 1, n) \in Seq(Nat)
  BY <1>2
<1>4. s = [saved EXCEPT !.data = SubSeq(d, 1, n)]
  BY <1>1, <1>2, Zenon
<1> QED
  BY <1>2, <1>3, <1>4

(* Saving ...                                                              *)
LEMMA SaveText ==
  ASSUME TextInv, Save
  PROVE  TextInv'
<1>1. UNCHANGED <<line, part, entries, files, env, req>>
  BY DEF Save, SaveOpen, SaveEntry, SaveLost, SavePart, SaveClose, SaveFails, SaveCut, formVars
<1>2. HeldText' /\ FormText' /\ FormText
  BY <1>1 DEF TextInv, HeldText, FormText
<1>3. /\ env \in [ToSet(SavedVars) -> Seq(Nat)] /\ "length" \in DOMAIN req
      /\ req.length \in Nat /\ at \in Nat
  BY DEF TextInv, ProcessText
<1>4. /\ DOMAIN kept = {"form", "whole"} /\ kept.form \in Seq(FieldShape)
      /\ saved \in [exists : BOOLEAN, data : Seq(Nat)] /\ saved.data \in Seq(Nat)
  BY DEF TextInv, DiskText
<1>5. SUFFICES /\ at' \in Nat /\ DOMAIN kept' = {"form", "whole"} /\ kept'.form \in Seq(FieldShape)
               /\ saved' \in [exists : BOOLEAN, data : Seq(Nat)]
  BY <1>1, <1>2, <1>3 DEF TextInv, ProcessText, DiskText
<1>6. CASE SaveOpen
  <2>1. PICK D : /\ D = WriteString(Version)
                    \o FlattenSeq([i \in DOMAIN SavedVars |-> WriteString(env[SavedVars[i]])])
                    \o WriteInt(req.length)
                 /\ saved' = [exists |-> TRUE, data |-> D]
    BY <1>6 DEF SaveOpen
  <2>2. PICK v \in [ToSet(SavedVars) -> Seq(Nat)], n \in Nat : v = env /\ n = req.length
    BY <1>3
  <2>3. D = WriteString(Version)
            \o FlattenSeq([i \in DOMAIN SavedVars |-> WriteString(v[SavedVars[i]])])
            \o WriteInt(n)
    BY <2>1, <2>2, Zenon
  <2>4. D \in Seq(Nat)
    BY <2>3, WrittenHead
  <2>5. at' = 1 /\ DOMAIN kept' = {"form", "whole"} /\ kept'.form = Form
    BY <1>6 DEF SaveOpen
  <2>6. Form \in Seq(FieldShape)
    BY <1>2, FormIsText
  <2> QED
    BY <2>1, <2>4, <2>5, <2>6
<1>7. CASE SaveEntry \/ SaveLost \/ SavePart
  <2>1. PICK e : e = entries[at] /\ e \in EntryShape
    <3>1. at \in DOMAIN entries
      BY <1>7, Zenon DEF SaveEntry, SaveLost, SavePart
    <3>2. entries[at] \in EntryShape
      BY <1>2, <3>1 DEF FormText
    <3> QED
      BY <3>2
  <2>2. /\ at' = at + 1 /\ (kept' = kept \/ kept' = [kept EXCEPT !.whole = FALSE])
        /\ \E disk : /\ \A f \in DOMAIN disk : disk[f] \in Seq(Nat)
                     /\ saved' = [saved EXCEPT !.data = saved.data \o SavedEntry(e, disk)]
    <3>1. \A f \in DOMAIN files : files[f] \in Seq(Nat)
      BY <1>2 DEF FormText
    <3>2. CASE SaveEntry
      BY <2>1, <3>1, <3>2, Zenon DEF SaveEntry
    <3>3. CASE SaveLost
      <4>1. PICK none : none = [f \in {} |-> << >>] /\ \A f \in DOMAIN none : none[f] \in Seq(Nat)
        OBVIOUS
      <4>2. /\ saved' = [saved EXCEPT !.data = saved.data \o SavedEntry(e, none)]
            /\ at' = at + 1 /\ kept' = kept
        BY <2>1, <3>3, <4>1, Zenon DEF SaveLost
      <4> QED
        BY <4>1, <4>2, Zenon
    <3>4. CASE SavePart
      <4>1. PICK file : file = First(entries, entries[at].attr).tfile
        OBVIOUS
      <4>2. file \in DOMAIN files
        BY <3>4, <4>1 DEF SavePart, FormFileOpen
      <4>3. PICK c \in Seq(Nat) : c = files[file]
        BY <3>1, <4>2
      <4>4. PICK n \in 0..Len(c) - 1 :
              saved' = [saved EXCEPT !.data = saved.data
                          \o SavedEntry(e, [files EXCEPT ![file] = SubSeq(c, 1, n)])]
        BY <2>1, <3>4, <4>1, <4>3, Zenon DEF SavePart
      <4>5. PICK disk : /\ disk = [files EXCEPT ![file] = SubSeq(c, 1, n)]
                        /\ \A f \in DOMAIN disk : disk[f] \in Seq(Nat)
        <5>1. c \in Seq(Nat) /\ n \in 0..Len(c) - 1
          BY <4>3, <4>4, Zenon
        <5>2. SubSeq(c, 1, n) \in Seq(Nat)
          BY ONLY <5>1
        <5>3. PICK d \in Seq(Nat) : d = SubSeq(c, 1, n)
          BY <5>2, Zenon
        <5>4. \A f \in DOMAIN [files EXCEPT ![file] = d] :
                [files EXCEPT ![file] = d][f] \in Seq(Nat)
          BY <3>1
        <5> QED
          BY <5>3, <5>4, Zenon
      <4>6. at' = at + 1 /\ kept' = [kept EXCEPT !.whole = FALSE]
        BY <3>4, Zenon DEF SavePart
      <4> QED
        BY <4>4, <4>5, <4>6, Zenon
    <3> QED
      BY <1>7, <3>2, <3>3, <3>4
  <2>3. PICK disk : /\ \A f \in DOMAIN disk : disk[f] \in Seq(Nat)
                    /\ saved' = [saved EXCEPT !.data = saved.data \o SavedEntry(e, disk)]
    BY <2>2, Zenon
  <2>4. PICK w : w = SavedEntry(e, disk) /\ w \in Seq(Nat)
    BY <2>1, <2>3, SavedText
  <2>5. PICK d : d = saved.data \o w /\ d \in Seq(Nat)
    BY <1>4, <2>4, SeqJoined
  <2>6. saved' = [saved EXCEPT !.data = d]
    BY <2>3, <2>4, <2>5, Zenon
  <2> QED
    <3>1. saved' \in [exists : BOOLEAN, data : Seq(Nat)]
      BY <1>4, <2>5, <2>6
    <3>2. at' \in Nat
      BY <1>3, <2>2
    <3>3. DOMAIN kept' = {"form", "whole"} /\ kept'.form = kept.form
      BY <1>4, <2>2
    <3> QED
      BY <1>4, <3>1, <3>2, <3>3, Zenon
<1>8. CASE SaveClose
  BY <1>3, <1>4, <1>8 DEF SaveClose
<1>9. CASE SaveFails
  <2>1. NoSave \in [exists : BOOLEAN, data : Seq(Nat)]
    BY DEF NoSave
  <2> QED
    BY <1>3, <1>4, <1>9, <2>1 DEF SaveFails
<1>10. CASE SaveCut
  <2>1. \A s \in Cuts : s \in [exists : BOOLEAN, data : Seq(Nat)]
    BY <1>4, CutsText
  <2> QED
    BY <1>3, <1>4, <1>10, <2>1 DEF SaveCut
<1> QED
  BY <1>6, <1>7, <1>8, <1>9, <1>10 DEF Save

(* ... and restoring keep text text.                                       *)
LEMMA LoadText ==
  ASSUME EntryInv, TextInv, Load
  PROVE  TextInv'
<1>1. UNCHANGED <<line, part, kept, saved>>
  BY DEF Load, LoadOpen, LoadEntry, LoadCut, LoadClose, LoadStops, LoadFails, LoadUnopened,
         formVars
<1>2. HeldText' /\ DiskText' /\ FormText
  BY <1>1 DEF TextInv, HeldText, DiskText
<1>3. /\ env \in [ToSet(SavedVars) -> Seq(Nat)] /\ "length" \in DOMAIN req
      /\ req.length \in Nat /\ at \in Nat
  BY DEF TextInv, ProcessText
<1>4. saved.data \in Seq(Nat)
  BY DEF TextInv, DiskText
<1>5. ASSUME entries' = << >>, files' = Unlinked(entries) PROVE FormText'
  <2>1. \A f \in DOMAIN files' : f \in DOMAIN files /\ files'[f] = files[f]
    BY <1>5 DEF Unlinked
  <2> QED
    BY <1>2, <1>5, <2>1 DEF FormText
<1>6. CASE LoadOpen
  <2>1. PICK head, l : head = ReadHead /\ l = ReadInt[head[3].next]
    OBVIOUS
  <2>2. /\ \A i \in 0..3 : head[i].text \in Seq(Nat) /\ head[i].next \in Nat \ {0}
        /\ l.value \in Nat /\ l.next \in Nat \ {0}
    <3>1. \A i \in 0..3 : head[i].text \in Seq(Nat) /\ head[i].next \in Nat \ {0}
      BY <1>4, <2>1, HeadTypes, Zenon
    <3>2. 3 \in 0..3
      OBVIOUS
    <3>3. PICK p : p = head[3].next /\ p \in Nat \ {0}
      BY <3>1, <3>2
    <3>4. l = ReadInt[p]
      BY <2>1, <3>3, Zenon
    <3>5. l.value \in Nat /\ l.next \in Nat \ {0}
      BY <1>4, <3>3, <3>4, IntTypes
    <3> QED
      BY <3>1, <3>5
  <2>3. Len(SavedVars) = 3 /\ DOMAIN SavedVars = 1..3 /\ \A v \in ToSet(SavedVars) :
          \E i \in DOMAIN SavedVars : SavedVars[i] = v
    BY DEF SavedVars, ToSet
  <2>4. /\ entries' = << >> /\ files' = Unlinked(entries)
        /\ \/ UNCHANGED <<req, env, at>>
           \/ /\ env' = [v \in ToSet(SavedVars) |->
                           head[CHOOSE i \in DOMAIN SavedVars : SavedVars[i] = v].text]
              /\ req' = [req EXCEPT !.length = l.value]
              /\ at' = l.next
    <3>1. \/ /\ env' = [v \in ToSet(SavedVars) |->
                     ReadHead[CHOOSE i \in DOMAIN SavedVars : SavedVars[i] = v].text]
             /\ req' = [req EXCEPT !.length = ReadInt[ReadHead[Len(SavedVars)].next].value]
             /\ at' = ReadInt[ReadHead[Len(SavedVars)].next].next
          \/ UNCHANGED <<req, env, at>>
      BY <1>6, Zenon DEF LoadOpen
    <3>2. entries' = << >> /\ files' = Unlinked(entries)
      BY <1>6, Zenon DEF LoadOpen
    <3>3. l = ReadInt[ReadHead[Len(SavedVars)].next]
      BY <2>1, <2>3, Zenon
    <3> QED
      BY <2>1, <3>1, <3>2, <3>3, Zenon
  <2>5. \A v \in ToSet(SavedVars) :
          head[CHOOSE i \in DOMAIN SavedVars : SavedVars[i] = v].text \in Seq(Nat)
    <3> TAKE v \in ToSet(SavedVars)
    <3>1. PICK i : i = CHOOSE j \in DOMAIN SavedVars : SavedVars[j] = v
      OBVIOUS
    <3>2. i \in DOMAIN SavedVars
      BY <2>3, <3>1, Zenon
    <3>3. i \in 0..3
      BY <2>3, <3>2
    <3> QED
      BY <2>2, <3>1, <3>3, Zenon
  <2>6. ProcessText'
    <3>1. CASE UNCHANGED <<req, env, at>>
      BY <1>3, <3>1 DEF ProcessText
    <3>2. CASE /\ env' = [v \in ToSet(SavedVars) |->
                           head[CHOOSE i \in DOMAIN SavedVars : SavedVars[i] = v].text]
               /\ req' = [req EXCEPT !.length = l.value]
               /\ at' = l.next
      <4>1. env' \in [ToSet(SavedVars) -> Seq(Nat)]
        BY <2>5, <3>2, Zenon
      <4>2. "length" \in DOMAIN req' /\ req'.length \in Nat /\ at' \in Nat
        BY <1>3, <2>2, <3>2
      <4> QED
        BY <4>1, <4>2 DEF ProcessText
    <3> QED
      BY <2>4, <3>1, <3>2
  <2> QED
    BY <1>2, <1>5, <2>4, <2>6 DEF TextInv
<1>7. CASE LoadEntry \/ LoadCut
  <2>1. UNCHANGED <<env, req>> /\ at > 0
    BY <1>7 DEF LoadEntry, LoadCut
  <2>2. at \in Nat \ {0}
    BY <1>3, <2>1
  <2>3. PICK r : r = EntryRead
    OBVIOUS
  <2>4. r.entry \in EntryShape /\ r.content \in Seq(Nat) /\ r.next \in Nat \ {0}
    BY <1>4, <2>2, <2>3, EntryTypes
  <2>5. /\ at' = r.next
        /\ \/ /\ NamesLeft
              /\ \E c \in Seq(Nat) : files' = With(FreshFile, c)
              /\ entries' = Append(entries, [r.entry EXCEPT !.tfile = FreshFile])
           \/ /\ \E t \in {NoFile, Junk} :
                    entries' = Append(entries, [r.entry EXCEPT !.tfile = t])
              /\ files' = files
    <3>1. CASE LoadEntry
      BY <2>3, <2>4, <3>1, Zenon DEF LoadEntry
    <3>2. CASE LoadCut
      <4>1. PICK n \in 0..Len(r.content) - 1 : files' = With(FreshFile, SubSeq(r.content, 1, n))
        BY <2>3, <3>2, Zenon DEF LoadCut
      <4>2. SubSeq(r.content, 1, n) \in Seq(Nat)
        BY <2>4, <4>1
      <4> QED
        BY <2>3, <3>2, <4>1, <4>2, Zenon DEF LoadCut
    <3> QED
      BY <1>7, <3>1, <3>2
  <2>6. ProcessText'
    BY <1>3, <2>1, <2>4, <2>5 DEF ProcessText
  <2>7. \A f \in DOMAIN files' : files'[f] \in Seq(Nat)
    BY <1>2, <2>5 DEF FormText, With
  <2>8. PICK t : t \in Int /\ entries' = Append(entries, [r.entry EXCEPT !.tfile = t])
    <3>1. NamesLeft => FreshFile \in TempFiles
      BY DEF NamesLeft, FreshFile
    <3>2. \A f \in TempFiles : f \in Int
      BY TempNames, Zenon
    <3>3. NoFile \in Int /\ Junk \in Int
      BY DEF NoFile, Junk
    <3> QED
      BY <2>5, <3>1, <3>2, <3>3, Zenon
  <2>9. PICK e : e = [r.entry EXCEPT !.tfile = t] /\ e \in EntryShape
    <3>1. PICK e0 : e0 = r.entry /\ e0 \in EntryShape
      BY <2>4
    <3>2. [e0 EXCEPT !.tfile = t] \in EntryShape
      BY <2>8, <3>1 DEF EntryShape
    <3> QED
      BY <3>1, <3>2, Zenon
  <2>10. entries' \in Seq(EntryShape)
    BY <1>2, <2>8, <2>9, FormGrows DEF FormText
  <2> QED
    BY <1>2, <2>6, <2>7, <2>10 DEF TextInv, FormText
<1>8. CASE LoadClose \/ LoadStops
  <2>1. at' = 0 /\ UNCHANGED <<env, req, entries, files>>
    BY <1>8 DEF LoadClose, LoadStops, formVars
  <2> QED
    BY <1>2, <1>3, <2>1 DEF TextInv, ProcessText, FormText
<1>9. CASE LoadFails
  <2>1. /\ entries' = << >> /\ files' = Unlinked(entries) /\ UNCHANGED <<env, req, at>>
    BY <1>9, Zenon DEF LoadFails
  <2> QED
    BY <1>2, <1>3, <1>5, <2>1 DEF TextInv, ProcessText
<1>10. CASE LoadUnopened
  <2>1. entries' = << >> /\ UNCHANGED <<env, req, at>>
    BY <1>10, Zenon DEF LoadUnopened
  <2>2. PICK left : left = Unlinked(entries)
    OBVIOUS
  <2>3. files' = [f \in DOMAIN left \cup {FreshFile} |->
                    IF f = FreshFile THEN << >> ELSE left[f]]
    BY <1>10, <2>2, Zenon DEF LoadUnopened
  <2>4. \A f \in DOMAIN left : left[f] \in Seq(Nat)
    BY <1>2, <2>2 DEF FormText, Unlinked
  <2>5. << >> \in Seq(Nat)
    OBVIOUS
  <2>6. \A f \in DOMAIN files' : files'[f] \in Seq(Nat)
    BY <2>3, <2>4, <2>5
  <2> QED
    BY <1>2, <1>3, <2>1, <2>6 DEF TextInv, ProcessText, FormText
<1> QED
  BY <1>6, <1>7, <1>8, <1>9, <1>10 DEF Load

(* At the end the process forgets, and the file stays.                     *)
LEMMA EndText ==
  ASSUME TextInv, FreeResources \/ Dies
  PROVE  TextInv'
<1>1. /\ part' = NewPart /\ line' = NoLine /\ entries' = << >> /\ kept' = kept /\ at' = 0
      /\ req' = NoRequest /\ env' = NoRequest.env
  BY DEF FreeResources, Dies, Exit
<1>2. HeldText'
  BY <1>1, NothingHeld DEF HeldText
<1>3. FormText'
  <2>1. \A f \in DOMAIN files' : f \in DOMAIN files /\ files'[f] = files[f]
    BY DEF FreeResources, Dies, Unlinked
  <2> QED
    BY <1>1, <2>1 DEF TextInv, FormText
<1>4. ProcessText'
  <2>1. "length" \in DOMAIN NoRequest /\ NoRequest.length = 0
        /\ NoRequest.env = [v \in ToSet(SavedVars) |-> << >>]
    BY DEF NoRequest
  <2> QED
    BY <1>1, <2>1 DEF ProcessText
<1>5. DiskText'
  <2>1. /\ DOMAIN kept = {"form", "whole"} /\ kept.form \in Seq(FieldShape)
        /\ saved \in [exists : BOOLEAN, data : Seq(Nat)]
    BY DEF TextInv, DiskText
  <2>2. saved' = saved \/ saved' \in Cuts
    BY DEF FreeResources, Dies
  <2> QED
    BY <1>1, <2>1, <2>2, CutsText DEF DiskText
<1> QED
  BY <1>2, <1>3, <1>4, <1>5 DEF TextInv

(* Together: what is text stays text.                                      *)
LEMMA TextStep ==
  ASSUME ReaderInv, EntryInv, TextInv, Next
  PROVE  TextInv'
<1>1. CASE Main \/ HandleSubmit
  <2>1. UNCHANGED <<line, part, entries, files, env, req, at, kept, saved>>
    BY <1>1 DEF Main, HandleSubmit, formVars
  <2> QED
    BY <2>1 DEF TextInv, HeldText, FormText, ProcessText, DiskText
<1> QED
  BY <1>1, ArriveText, ParseText, SaveText, LoadText, EndText, Zenon DEF Next

(* At first there is no text at all.                                       *)
LEMMA TextInit ==
  ASSUME Init
  PROVE  TextInv
<1>1. HeldText
  BY NothingHeld DEF Init, HeldText
<1>2. FormText
  BY DEF Init, FormText
<1>3. ProcessText
  BY DEF Init, ProcessText, NoRequest
<1>4. DiskText
  BY DEF Init, DiskText, NoSave
<1> QED
  BY <1>1, <1>2, <1>3, <1>4 DEF TextInv

-----------------------------------------------------------------------------
(* No text of a form holds a NUL.                                          *)

PlainForm(form) == \A i \in DOMAIN form : PlainEntry(form[i])
PlainInv == PlainForm(entries) /\ PlainForm(kept.form)

(* Neither does what a part becomes ...                                    *)
LEMMA PartPlain ==
  ASSUME HeldText
  PROVE  PlainEntry(PartEntry)
<1>1. Plain(<< >>)
  BY DEF Plain
<1>2. /\ Plain(CString(part.fname)) /\ Plain(CString(part.fileName))
      /\ Plain(CString(part.contentType)) /\ Plain(CString(part.out))
  BY CStringPlain DEF HeldText, PartText
<1>3. PICK v : v = (IF part.to = "file" THEN << >> ELSE CString(part.out)) /\ Plain(v)
  BY <1>1, <1>2, Zenon
<1> QED
  BY <1>2, <1>3, Zenon DEF PartEntry, PlainEntry

(* ... nor what is restored.                                               *)
LEMMA LoadedPlain ==
  ASSUME TextInv, LoadEntry \/ LoadCut
  PROVE  \E e : e \in EntryShape /\ PlainEntry(e) /\ entries' = Append(entries, e)
<1>1. saved.data \in Seq(Nat) /\ at \in Nat \ {0}
  BY DEF TextInv, DiskText, ProcessText, LoadEntry, LoadCut
<1>2. PICK r : r = EntryRead.entry /\ r \in EntryShape /\ PlainEntry(r)
  BY <1>1, EntryTypes
<1>3. PICK t : entries' = Append(entries, [r EXCEPT !.tfile = t]) /\ t \in Int
  <2>1. \A f \in TempFiles : f \in Int
    BY TempNames, Zenon
  <2>2. NamesLeft => FreshFile \in TempFiles
    BY DEF NamesLeft, FreshFile
  <2>3. NoFile \in Int /\ Junk \in Int
    BY DEF NoFile, Junk
  <2>4. \/ NamesLeft /\ entries' = Append(entries, [r EXCEPT !.tfile = FreshFile])
        \/ \E t \in {NoFile, Junk} : entries' = Append(entries, [r EXCEPT !.tfile = t])
    BY <1>2, Zenon DEF LoadEntry, LoadCut
  <2> QED
    BY <2>1, <2>2, <2>3, <2>4, Zenon
<1>4. [r EXCEPT !.tfile = t] \in EntryShape
  BY <1>2, <1>3 DEF EntryShape
<1>5. PlainEntry([r EXCEPT !.tfile = t])
  <2>1. PICK g : g = [r EXCEPT !.tfile = t]
    OBVIOUS
  <2>3. /\ g.attr = r.attr /\ g.value = r.value
        /\ g.fileName = r.fileName /\ g.contentType = r.contentType
    BY <1>2, <2>1 DEF EntryShape
  <2>2. PlainEntry(g)
    BY <1>2, <2>3, Zenon DEF PlainEntry
  <2> QED
    BY <2>1, <2>2, Zenon
<1> QED
  BY <1>3, <1>4, <1>5, Zenon

(* A form changes in these ways only.                                      *)
Changes ==
  \/ UNCHANGED entries
  \/ entries' = << >>
  \/ \E data \in Seq(Nat) : entries' = ParseFormInput(data)
  \/ \E e : e \in EntryShape /\ PlainEntry(e) /\ entries' = Append(entries, e)

(* Each step changes it in one of them.                                    *)
LEMMA FormChanges ==
  ASSUME ReaderInv, EntryInv, TextInv, Next
  PROVE  Changes
<1>1. CASE Parse
  <2>1. CASE Store \/ StoreShort
    <3>1. HeldText /\ FormText
      BY DEF TextInv
    <3>2. PartEntry \in EntryShape /\ entries' = Append(entries, PartEntry)
      BY <2>1, <3>1, StoreText
    <3> QED
      BY <3>1, <3>2, PartPlain, Zenon DEF Changes
  <2>2. CASE ParseGet \/ ParsePost \/ ParseNothing \/ ParseNoMemory
    BY <2>2, ParsedFrom DEF Changes
  <2>3. CASE ParseMultipart
    BY <2>3 DEF ParseMultipart, Changes
  <2>4. CASE /\ MultipartStep /\ ~Store /\ ~StoreShort
    <3>1. UNCHANGED entries
      BY <2>4 DEF MultipartStep, SearchByte, SearchEnd, SearchFails, SearchNoMemory, NextPart,
                  HeaderByte, HeaderCR, HeaderEnds, NotAField, OpenBody, OpenBodyFails,
                  StoreNoMemory, multipartVars
    <3> QED
      BY <3>1 DEF Changes
  <2> QED
    BY <1>1, <2>1, <2>2, <2>3, <2>4 DEF Parse
<1>2. CASE Load
  <2>1. CASE LoadEntry \/ LoadCut
    BY <2>1, LoadedPlain DEF Changes
  <2>2. CASE LoadOpen \/ LoadClose \/ LoadStops \/ LoadFails \/ LoadUnopened
    BY <2>2 DEF LoadOpen, LoadClose, LoadStops, LoadFails, LoadUnopened, formVars, Changes
  <2> QED
    BY <1>2, <2>1, <2>2 DEF Load
<1>3. CASE Save
  BY <1>3 DEF Save, SaveOpen, SaveEntry, SaveLost, SavePart, SaveClose, SaveFails, SaveCut,
              formVars, Changes
<1>4. CASE Arrive \/ Main \/ HandleSubmit
  BY <1>4 DEF Arrive, Main, HandleSubmit, formVars, Changes
<1>5. CASE FreeResources \/ Dies
  BY <1>5 DEF FreeResources, Dies, Exit, Changes
<1> QED
  BY <1>1, <1>2, <1>3, <1>4, <1>5 DEF Next

(* What is saved is kept.                                                  *)
LEMMA KeptChanges ==
  ASSUME TextInv, Next
  PROVE  kept'.form \in {kept.form, Form}
<1>1. CASE Save
  <2>1. CASE SaveOpen
    BY <2>1 DEF SaveOpen
  <2>2. CASE SavePart
    <3>1. kept' = [kept EXCEPT !.whole = FALSE]
      BY <2>2 DEF SavePart
    <3> QED
      BY <3>1 DEF TextInv, DiskText
  <2>3. CASE SaveEntry \/ SaveLost \/ SaveClose \/ SaveFails \/ SaveCut
    BY <2>3 DEF SaveEntry, SaveLost, SaveClose, SaveFails, SaveCut
  <2> QED
    BY <1>1, <2>1, <2>2, <2>3 DEF Save
<1>2. CASE Load
  BY <1>2 DEF Load, LoadOpen, LoadEntry, LoadCut, LoadClose, LoadStops, LoadFails, LoadUnopened
<1>3. CASE Parse \/ Arrive \/ Main \/ HandleSubmit \/ FreeResources \/ Dies
  BY <1>3 DEF Parse, Arrive, Main, HandleSubmit, FreeResources, Dies, Exit
<1> QED
  BY <1>1, <1>2, <1>3 DEF Next

(* So no text ever holds a NUL.                                            *)
LEMMA PlainStep ==
  ASSUME ReaderInv, EntryInv, TextInv, PlainInv, Next
  PROVE  PlainInv'
<1>1. PlainForm(entries')
  <2>1. CASE UNCHANGED entries
    BY <2>1, Zenon DEF PlainInv
  <2>2. CASE entries' = << >>
    BY <2>2 DEF PlainForm
  <2>3. CASE \E data \in Seq(Nat) : entries' = ParseFormInput(data)
    BY <2>3, ParsedFacts, Zenon DEF PlainForm
  <2>4. ASSUME NEW e, e \in EntryShape, PlainEntry(e), entries' = Append(entries, e)
        PROVE  PlainForm(entries')
    <3>1. entries \in Seq(EntryShape)
      BY DEF TextInv, FormText
    <3>2. /\ DOMAIN entries' = 1..Len(entries) + 1 /\ DOMAIN entries = 1..Len(entries)
          /\ Len(entries) \in Nat
          /\ \A i \in DOMAIN entries : entries'[i] = entries[i]
          /\ entries'[Len(entries) + 1] = e
      BY <2>4, <3>1, FormGrows
    <3>3. \A i \in DOMAIN entries' : i \in DOMAIN entries \/ i = Len(entries) + 1
      BY <3>2
    <3> QED
      BY <2>4, <3>2, <3>3, Zenon DEF PlainInv, PlainForm
  <2> QED
    BY <2>1, <2>2, <2>3, <2>4, FormChanges, Zenon DEF Changes
<1>2. PlainForm(kept'.form)
  <2>1. CASE kept'.form = kept.form
    BY <2>1, Zenon DEF PlainInv
  <2>2. CASE kept'.form = Form
    <3>1. FormText
      BY DEF TextInv
    <3>2. ASSUME NEW i \in DOMAIN Form
          PROVE  PlainEntry(Form[i])
      <4>1. PICK e, f : /\ e = entries[i] /\ f = Form[i] /\ i \in DOMAIN entries
                        /\ f = [attr |-> e.attr, value |-> e.value,
                                valueLength |-> e.valueLength, fileName |-> e.fileName,
                                contentType |-> e.contentType, content |-> Content(e)]
        BY <3>1, <3>2, FormIsText
      <4>2. /\ f.attr = e.attr /\ f.value = e.value /\ f.fileName = e.fileName
            /\ f.contentType = e.contentType
        BY <4>1
      <4>3. PlainEntry(e)
        BY <4>1 DEF PlainInv, PlainForm
      <4> QED
        BY <4>1, <4>2, <4>3, Zenon DEF PlainEntry
    <3> QED
      BY <2>2, <3>2, Zenon DEF PlainForm
  <2> QED
    BY <2>1, <2>2, KeptChanges
<1> QED
  BY <1>1, <1>2, Zenon DEF PlainInv, PlainForm

-----------------------------------------------------------------------------
(* The saved file and the program.                                         *)

Saving == pc = "save" /\ at > 0
Loading == pc = "load" /\ at > 0
ProgramInv ==
  /\ pc \in {"idle", "start", "main", "submit"} \cup Reading => at = 0
  /\ loaded => pc \in {"submit", "save", "done"}
  /\ Saving \/ Loading => saved.exists
  /\ Saving => /\ kept.form = Form /\ at <= Len(entries) + 1
               /\ kept.whole => FilesWhole

(* main reads the form before the program begins.                          *)
LEMMA ParseGoes ==
  ASSUME Parse
  PROVE  pc \in {"start"} \cup Reading /\ pc' \notin {"save", "load", "submit"}
<1>1. CASE ParseGet \/ ParsePost \/ ParseMultipart \/ ParseNothing \/ ParseNoMemory
  BY <1>1 DEF ParseGet, ParsePost, ParseMultipart, ParseNothing, ParseNoMemory, Goto
<1>2. CASE SearchByte \/ SearchEnd \/ SearchFails \/ SearchNoMemory
  BY <1>2 DEF SearchByte, SearchEnd, SearchFails, SearchNoMemory, Goto, Reading
<1>3. CASE NextPart \/ HeaderByte \/ HeaderCR \/ HeaderEnds \/ NotAField
  BY <1>3 DEF NextPart, HeaderByte, HeaderCR, HeaderEnds, NotAField, HeaderLine, Goto, Reading
<1>4. CASE OpenBody \/ OpenBodyFails \/ Store \/ StoreShort \/ StoreNoMemory
  BY <1>4 DEF OpenBody, OpenBodyFails, Store, StoreShort, StoreNoMemory, Goto, Reading
<1> QED
  BY <1>1, <1>2, <1>3, <1>4 DEF Parse, MultipartStep

(* Where the program is, and what it has done to the file.                 *)
LEMMA ProgramStep ==
  ASSUME TextInv, ProgramInv, Next
  PROVE  ProgramInv'
<1>1. at \in Nat /\ entries \in Seq(EntryShape) /\ DOMAIN entries = 1..Len(entries)
      /\ DOMAIN saved = {"exists", "data"} /\ DOMAIN kept = {"form", "whole"}
  BY DEF TextInv, ProcessText, FormText, DiskText
<1>2. CASE Parse
  <2>1. UNCHANGED <<at, loaded>>
    BY <1>2 DEF Parse
  <2>2. at = 0 /\ ~loaded
    BY <1>2, ParseGoes DEF ProgramInv, Reading
  <2> QED
    BY <1>2, <2>1, <2>2, ParseGoes DEF ProgramInv, Saving, Loading
<1>3. CASE Arrive
  <2>1. pc = "idle" /\ pc' = "start" /\ UNCHANGED <<at, loaded>>
    BY <1>3 DEF Arrive, Goto
  <2> QED
    BY <2>1 DEF ProgramInv, Saving, Loading
<1>4. CASE Main \/ HandleSubmit
  <2>1. pc \in {"main", "submit"} /\ pc' \in {"save", "load", "submit", "done"}
        /\ UNCHANGED <<at, loaded>> /\ (pc = "main" => ~loaded) /\ (pc = "submit" => pc' # "load")
    BY <1>4 DEF Main, HandleSubmit, Goto, ProgramInv
  <2> QED
    BY <2>1 DEF ProgramInv, Saving, Loading
<1>5. CASE Save
  <2>1. UNCHANGED <<entries, files>> /\ pc = "save"
    BY <1>5 DEF Save, SaveOpen, SaveEntry, SaveLost, SavePart, SaveClose, SaveFails, SaveCut,
                formVars
  <2>2. Form' = Form /\ (FilesWhole' <=> FilesWhole)
    BY <2>1 DEF Form, Content, FilesWhole
  <2>3. CASE SaveOpen
    <3>1. /\ pc' = pc /\ at' = 1 /\ loaded' = loaded /\ kept'.form = Form /\ saved'.exists
      BY <2>3 DEF SaveOpen
    <3>2. kept'.whole => FilesWhole
      BY <2>3 DEF SaveOpen
    <3>3. 1 <= Len(entries) + 1
      BY <1>1
    <3> QED
      BY <2>1, <2>2, <3>1, <3>2, <3>3 DEF ProgramInv, Saving, Loading, Reading
  <2>4. CASE SaveEntry \/ SaveLost \/ SavePart
    <3>1. /\ pc' = pc /\ at \in DOMAIN entries /\ at' = at + 1 /\ loaded' = loaded
          /\ kept' = kept \/ kept' = [kept EXCEPT !.whole = FALSE]
      BY <2>4, Zenon DEF SaveEntry, SaveLost, SavePart
    <3>2. kept'.form = kept.form /\ (kept'.whole => kept.whole)
      BY <1>1, <3>1
    <3>3. Saving /\ at' <= Len(entries) + 1
      BY <1>1, <2>1, <3>1 DEF Saving
    <3>4. saved'.exists = saved.exists
      BY <1>1, <2>4 DEF SaveEntry, SaveLost, SavePart
    <3> QED
      BY <2>1, <2>2, <3>1, <3>2, <3>3, <3>4 DEF ProgramInv, Saving, Loading, Reading
  <2>5. CASE SaveClose \/ SaveFails \/ SaveCut
    <3>1. pc' = "done"
      BY <2>5 DEF SaveClose, SaveFails, SaveCut, Goto
    <3> QED
      BY <3>1 DEF ProgramInv, Saving, Loading, Reading
  <2> QED
    BY <1>5, <2>3, <2>4, <2>5 DEF Save
<1>6. CASE Load
  <2>1. CASE LoadOpen
    <3>1. /\ pc = "load" /\ pc' \in {"load", "done"} /\ loaded' = loaded /\ saved' = saved
          /\ pc' = "load" => saved.exists
      BY <2>1, Zenon DEF LoadOpen, Goto
    <3> QED
      BY <3>1 DEF ProgramInv, Saving, Loading, Reading
  <2>2. CASE LoadEntry \/ LoadCut
    <3>1. /\ pc = "load" /\ at > 0 /\ pc' = pc /\ loaded' = loaded /\ saved' = saved
      BY <2>2, Zenon DEF LoadEntry, LoadCut
    <3> QED
      BY <3>1 DEF ProgramInv, Saving, Loading, Reading
  <2>3. CASE LoadClose \/ LoadStops
    <3>1. at' = 0 /\ pc' = "submit"
      BY <2>3 DEF LoadClose, LoadStops, Goto
    <3> QED
      BY <3>1 DEF ProgramInv, Saving, Loading, Reading
  <2>4. CASE LoadFails \/ LoadUnopened
    <3>1. pc' = "done"
      BY <2>4, Zenon DEF LoadFails, LoadUnopened, Goto
    <3> QED
      BY <3>1 DEF ProgramInv, Saving, Loading, Reading
  <2> QED
    BY <1>6, <2>1, <2>2, <2>3, <2>4 DEF Load
<1>7. CASE FreeResources \/ Dies
  <2>1. pc' = "idle" /\ at' = 0 /\ ~loaded'
    BY <1>7 DEF FreeResources, Dies, Exit, Goto
  <2> QED
    BY <2>1 DEF ProgramInv, Saving, Loading
<1> QED
  BY <1>2, <1>3, <1>4, <1>5, <1>6, <1>7 DEF Next

-----------------------------------------------------------------------------
(* A saved file, whole or cut.                                             *)

(* D is what saving the first k fields of a form writes; pos[i] is where   *)
(* field i begins, and field i - 1 ends.                                   *)
Layout(D, form, pos, k) ==
  /\ D \in Seq(Nat) /\ k \in 0..Len(form) /\ pos \in [1..k + 1 -> Nat \ {0}]
  /\ HeadAt(D, pos[1]) /\ pos[k + 1] = Len(D) + 1
  /\ \A i \in 1..k : FieldAt(D, pos[i], pos[i + 1], form[i])

(* One field more.                                                         *)
LEMMA LayoutGrows ==
  ASSUME NEW form \in Seq(FieldShape), NEW D, NEW pos, NEW k, Layout(D, form, pos, k),
         k < Len(form), NEW E \in Seq(Nat), FieldAt(E, 1, Len(E) + 1, form[k + 1]),
         NEW Z, Z = D \o E
  PROVE  \E more : Layout(Z, form, more, k + 1)
<1>1. /\ D \in Seq(Nat) /\ k \in Nat /\ k <= Len(form) /\ pos \in [1..k + 1 -> Nat \ {0}]
      /\ HeadAt(D, pos[1]) /\ pos[k + 1] = Len(D) + 1
      /\ \A i \in 1..k : FieldAt(D, pos[i], pos[i + 1], form[i])
      /\ Len(form) \in Nat
  BY DEF Layout
<1>2. /\ Z \in Seq(Nat) /\ Len(Z) = Len(D) + Len(E) /\ Inside(D, 0, Z) /\ Inside(E, Len(D), Z)
  BY <1>1, InsideJoined
<1>3. PICK d, e : d = Len(D) /\ d \in Nat /\ e = Len(E) /\ e \in Nat
  <2>1. Len(D) \in Nat /\ Len(E) \in Nat
    BY <1>1
  <2> QED
    BY <2>1, Zenon
<1> DEFINE all == [i \in 1..(k + 1) + 1 |-> IF i = k + 2 THEN (d + e) + 1 ELSE pos[i]]
<1> HIDE DEF all
<1>4. PICK more : more = all
  OBVIOUS
<1>5. /\ more \in [1..(k + 1) + 1 -> Nat \ {0}] /\ more[1] = pos[1] /\ more[k + 1] = d + 1
      /\ more[(k + 1) + 1] = Len(Z) + 1 /\ \A i \in 1..k + 1 : more[i] = pos[i]
  BY <1>1, <1>2, <1>3, <1>4 DEF all
<1>6. HeadAt(Z, more[1])
  BY <1>1, <1>2, <1>5, HeadMoves
<1>7. ASSUME NEW i \in 1..k
      PROVE  FieldAt(Z, more[i], more[i + 1], form[i])
  <2>1. PICK p, q, f : /\ p = pos[i] /\ p \in Nat \ {0} /\ q = pos[i + 1] /\ q \in Nat
                       /\ f = form[i] /\ f \in FieldShape /\ more[i] = p /\ more[i + 1] = q
    <3>1. i \in 1..k + 1 /\ i + 1 \in 1..k + 1 /\ i \in 1..Len(form)
      BY <1>1
    <3>2. form[i] \in FieldShape
      BY <3>1
    <3> QED
      BY <1>1, <1>5, <3>1, <3>2
  <2>2. FieldAt(D, p, q, f)
    BY <1>1, <2>1
  <2>3. FieldAt(Z, 0 + p, 0 + q, f)
    BY <1>2, <2>1, <2>2, FieldMoves
  <2>4. 0 + p = p /\ 0 + q = q
    BY <2>1
  <2> QED
    BY <2>1, <2>3, <2>4, Zenon
<1>8. FieldAt(Z, more[k + 1], more[(k + 1) + 1], form[k + 1])
  <2>1. PICK f : f = form[k + 1] /\ f \in FieldShape
    <3>1. k + 1 \in 1..Len(form)
      BY <1>1
    <3> QED
      BY <3>1
  <2>2. 1 \in Nat \ {0} /\ e + 1 \in Nat /\ FieldAt(E, 1, e + 1, f)
    BY <1>3, <2>1
  <2>3. FieldAt(Z, d + 1, d + (e + 1), f)
    BY <1>2, <1>3, <2>1, <2>2, FieldMoves
  <2>4. more[k + 1] = d + 1 /\ more[(k + 1) + 1] = d + (e + 1)
    BY <1>2, <1>3, <1>5
  <2> QED
    BY <2>1, <2>3, <2>4, Zenon
<1>9. \A i \in 1..k + 1 : i \in 1..k \/ i = k + 1
  BY <1>1
<1>10. \A i \in 1..k + 1 : FieldAt(Z, more[i], more[i + 1], form[i])
  BY <1>7, <1>8, <1>9, Zenon
<1>11. k + 1 \in 0..Len(form)
  BY <1>1
<1> QED
  BY <1>2, <1>5, <1>6, <1>10, <1>11, Zenon DEF Layout

(* Nothing but the head.                                                   *)
LEMMA LayoutHead ==
  ASSUME NEW form \in Seq(FieldShape), NEW D \in Seq(Nat), HeadAt(D, Len(D) + 1)
  PROVE  \E pos : Layout(D, form, pos, 0)
<1>1. PICK pos : pos = [i \in 1..1 |-> Len(D) + 1]
  OBVIOUS
<1>2. pos \in [1..0 + 1 -> Nat \ {0}] /\ pos[1] = Len(D) + 1 /\ pos[0 + 1] = Len(D) + 1
  BY <1>1
<1>3. 0 \in 0..Len(form) /\ \A i \in 1..0 : FALSE
  OBVIOUS
<1>4. HeadAt(D, pos[1])
  BY <1>2, Zenon
<1>5. \A i \in 1..0 : FieldAt(D, pos[i], pos[i + 1], form[i])
  BY <1>3, Zenon
<1> QED
  BY <1>2, <1>3, <1>4, <1>5, Zenon DEF Layout

(* The fields that are not written yet do not matter.                      *)
LEMMA LayoutOther ==
  ASSUME NEW form \in Seq(FieldShape), NEW other \in Seq(FieldShape), Len(other) = Len(form),
         NEW D, NEW pos, NEW k, Layout(D, form, pos, k), \A i \in 1..k : other[i] = form[i]
  PROVE  Layout(D, other, pos, k)
BY Zenon DEF Layout

-----------------------------------------------------------------------------
(* What the saved file holds.                                              *)

(* A field as it is written: an upload that cannot be opened is lost.      *)
AsWritten(g, f) == g = f \/ (Happened({"open"}) /\ g = [f EXCEPT !.content = << >>])
Written(W) ==
  /\ W \in Seq(FieldShape) /\ Len(W) = Len(kept.form)
  /\ \A i \in DOMAIN W : AsWritten(W[i], kept.form[i])

(* The file is the first m letters of D, and D is the head and the first k *)
(* fields of the form as it is written, W.                                 *)
Faithful == DistinctNames(kept.form) /\ kept.whole
OnDisk(D, W, pos, k, m) ==
  Written(W) /\ Layout(D, W, pos, k) /\ m \in 0..Len(D) /\ saved.data = SubSeq(D, 1, m)
Progress(D, pos, k, m) ==
  /\ Saving => k = at - 1 /\ m = Len(D)
  /\ faults = << >> /\ ~Saving => k = Len(kept.form) /\ m = Len(D)
  /\ Loading => /\ Len(entries) <= k /\ at = pos[Len(entries) + 1]
                /\ \A i \in DOMAIN entries : AsSaved(Form[i], kept.form[i])
SavedInv ==
  Faithful /\ saved.exists =>
    \E D, W, pos, k, m : OnDisk(D, W, pos, k, m) /\ Progress(D, pos, k, m)

(* What happened has happened.                                             *)
Remains == \A kinds : Happened(kinds) => Happened(kinds)'

(* So what is written stays as written, and what was saved as saved.       *)
LEMMA WrittenStays ==
  ASSUME Remains, kept'.form = kept.form
  PROVE  /\ \A W : Written(W) => Written(W)'
         /\ \A g, f : AsSaved(g, f) => AsSaved(g, f)'
<1>1. \A g, f : AsWritten(g, f) => AsWritten(g, f)'
  BY Zenon DEF AsWritten, Remains
<1>2. \A g, f : AsSaved(g, f) => AsSaved(g, f)'
  BY Zenon DEF AsSaved, Remains
<1>3. \A W : Written(W) => Written(W)'
  BY <1>1, Zenon DEF Written
<1> QED
  BY <1>2, <1>3, Zenon

(* A process that is neither saving nor restoring leaves the file to the   *)
(* next, if it cannot be killed over it.                                   *)
LEMMA FileStays ==
  ASSUME SavedInv, Remains, faults' = << >> => faults = << >> /\ ~Saving,
         UNCHANGED <<saved, kept>>, ~Saving', ~Loading'
  PROVE  SavedInv'
<1>1. SUFFICES ASSUME Faithful', saved'.exists
               PROVE  \E D, W, pos, k, m : OnDisk(D, W, pos, k, m)' /\ Progress(D, pos, k, m)'
  BY Zenon DEF SavedInv
<1>2. Faithful
  BY <1>1, Zenon DEF Faithful, DistinctNames
<1>3. PICK D, W, pos, k, m : OnDisk(D, W, pos, k, m) /\ Progress(D, pos, k, m)
  BY <1>1, <1>2 DEF SavedInv
<1>4. OnDisk(D, W, pos, k, m)'
  BY <1>3, WrittenStays, Zenon DEF OnDisk
<1>5. Progress(D, pos, k, m)'
  BY <1>3, Zenon DEF Progress
<1> QED
  BY <1>4, <1>5, Zenon

(* What is cut is still a beginning.                                       *)
LEMMA FileCut ==
  ASSUME TextInv, SavedInv, Remains, faults' # << >>, saved' \in Cuts,
         kept' = kept, ~Saving', ~Loading'
  PROVE  SavedInv'
<1>1. SUFFICES ASSUME Faithful', saved'.exists
               PROVE  \E D, W, pos, k, m : OnDisk(D, W, pos, k, m)' /\ Progress(D, pos, k, m)'
  BY Zenon DEF SavedInv
<1>2. saved \in [exists : BOOLEAN, data : Seq(Nat)] /\ Faithful
  BY <1>1 DEF TextInv, DiskText, Faithful, DistinctNames
<1>3. PICK n \in 0..Len(saved.data) : /\ saved'.exists = saved.exists
                                      /\ saved'.data = SubSeq(saved.data, 1, n)
  BY <1>2, CutsText
<1>4. PICK D, W, pos, k, m : OnDisk(D, W, pos, k, m) /\ Progress(D, pos, k, m)
  BY <1>1, <1>2, <1>3 DEF SavedInv
<1>5. /\ D \in Seq(Nat) /\ m \in 0..Len(D) /\ saved.data = SubSeq(D, 1, m)
      /\ Layout(D, W, pos, k) /\ Written(W)
  BY <1>4, Zenon DEF OnDisk, Layout
<1>6. n \in 0..Len(D) /\ saved'.data = SubSeq(D, 1, n)
  <2>1. PICK d : d = SubSeq(D, 1, m) /\ d = saved.data
    BY <1>5
  <2>2. d \in Seq(Nat) /\ Len(d) = m /\ n \in 0..m /\ n \in 0..Len(D)
    BY <1>5, <2>1
  <2>3. SubSeq(d, 1, n) = SubSeq(D, 1, n)
    BY <1>5, <2>1, <2>2
  <2> QED
    BY <1>3, <2>1, <2>2, <2>3
<1>7. OnDisk(D, W, pos, k, n)'
  BY <1>5, <1>6, WrittenStays, Zenon DEF OnDisk
<1>8. Progress(D, pos, k, n)'
  BY Zenon DEF Progress
<1> QED
  BY <1>7, <1>8, Zenon

(* All of a text.                                                          *)
LEMMA WholeData ==
  ASSUME NEW D \in Seq(Nat)
  PROVE  Len(D) \in 0..Len(D) /\ SubSeq(D, 1, Len(D)) = D
OBVIOUS

(* Where no name comes twice, the first entry of a name is the only one.   *)
LEMMA OnlyOne ==
  ASSUME FormText, DistinctNames(Form), NEW i \in DOMAIN entries
  PROVE  Found(entries, entries[i].attr) /\ First(entries, entries[i].attr) = entries[i]
<1>1. /\ DOMAIN Form = DOMAIN entries /\ DOMAIN entries = 1..Len(entries)
      /\ \A j \in DOMAIN entries : Form[j].attr = entries[j].attr
  <2>1. DOMAIN entries = 1..Len(entries)
    BY DEF FormText
  <2> QED
    BY <2>1 DEF Form
<1>2. i \in Int /\ i \in 1..Len(entries)
  BY <1>1
<1>3. \A j \in DOMAIN entries : entries[j].attr = entries[i].attr => j = i
  BY <1>1, Zenon DEF DistinctNames
<1>4. {j \in 1..Len(entries) : entries[j].attr = entries[i].attr} = {i, i}
  BY <1>1, <1>2, <1>3, Zenon
<1>5. Min({i, i}) = i /\ {i, i} # {}
  BY <1>2, MinTwo
<1>6. SelectInSeq(entries, LAMBDA e : e.attr = entries[i].attr) = i
  BY <1>4, <1>5, Zenon DEF SelectInSeq
<1> QED
  BY <1>6, Zenon DEF Found, First

(* What is saved of such an entry is the entry as a program sees it.       *)
LEMMA SavedIsField ==
  ASSUME EntryInv, TextInv, FilesWhole, DistinctNames(Form), NEW i \in DOMAIN entries,
         NEW E, E = SavedEntry(entries[i], files)
  PROVE  E \in Seq(Nat) /\ FieldAt(E, 1, Len(E) + 1, Form[i])
<1>1. FormText /\ DOMAIN files \subseteq TempFiles /\ NoFile \notin TempFiles
  BY TempNames DEF TextInv, EntryInv, Owned
<1>2. PICK e, c, f :
        /\ e = entries[i] /\ e \in EntryShape /\ c = Content(e) /\ f = Form[i] /\ f \in FieldShape
        /\ f.attr = e.attr /\ f.value = e.value /\ f.valueLength = e.valueLength
        /\ f.fileName = e.fileName /\ f.contentType = e.contentType /\ f.content = c
  <2>1. entries[i] \in EntryShape /\ Form[i] \in FieldShape
    BY <1>1, FormIsText DEF FormText
  <2> QED
    BY <1>1, <2>1, FormIsText
<1>3. Found(entries, e.attr) /\ First(entries, e.attr) = e
  BY <1>1, <1>2, OnlyOne, Zenon
<1>4. PICK w : w = IF FormFileOpen(entries, e.attr, files) = "Success"
                   THEN WriteInt(1) \o FormFileRead(entries, e.attr, files)
                   ELSE WriteInt(0)
  OBVIOUS
<1>5. f.valueLength \in Nat
  BY <1>2 DEF FieldShape
<1>6. w \in Seq(Nat) /\ ContentAt(w, 1, Len(w) + 1, f.content, f.valueLength)
  <2>1. CASE e.tfile \in DOMAIN files
    <3>1. FormFileOpen(entries, e.attr, files) = "Success"
      <4>1. e.tfile # NoFile
        BY <1>1, <2>1
      <4> QED
        BY <1>3, <2>1, <4>1, Zenon DEF FormFileOpen
    <3>2. FormFileRead(entries, e.attr, files) = c
      BY <1>2, <1>3, <2>1, Zenon DEF FormFileRead, Content
    <3>3. c \in Seq(Nat) /\ Len(c) = f.valueLength
      <4>1. c = files[e.tfile] /\ c \in Seq(Nat)
        BY <1>1, <1>2, <2>1 DEF FormText, Content
      <4>2. e \in ToSet(entries)
        BY <1>2 DEF ToSet
      <4> QED
        BY <1>2, <2>1, <4>1, <4>2 DEF FilesWhole
    <3>4. PICK h : h = WriteInt(1) /\ h \in Seq(Nat) /\ Len(h) = 4 /\ IntAt(h, 1, 1)
      BY WrittenInt
    <3>5. w = h \o c
      BY <1>4, <3>1, <3>2, <3>4, Zenon
    <3>6. /\ w \in Seq(Nat) /\ Len(w) = Len(h) + Len(c)
          /\ Inside(h, 0, w) /\ Inside(c, Len(h), w)
      BY <3>3, <3>4, <3>5, InsideJoined
    <3>7. IntAt(w, 1, 1)
      <4>1. 1 \in Nat \ {0} /\ 1 \in Nat /\ 0 + 1 = 1
        OBVIOUS
      <4>2. IntAt(w, 0 + 1, 1)
        BY <3>4, <3>6, <4>1, IntMoves
      <4> QED
        BY <4>1, <4>2
    <3>8. Len(w) = 4 + f.valueLength /\ \A j \in 1..f.valueLength : w[1 + 3 + j] = c[j]
      <4>1. Inside(c, 4, w) /\ Len(w) = 4 + Len(c)
        BY <3>4, <3>6
      <4>2. PICK n \in Nat : n = f.valueLength
        BY <1>5
      <4>3. \A j \in 1..n : 1 + 3 + j = 4 + j
        OBVIOUS
      <4>4. \A j \in 1..n : w[4 + j] = c[j]
        BY <3>3, <4>1, <4>2, Zenon DEF Inside
      <4> QED
        BY <3>3, <4>1, <4>2, <4>3, <4>4
    <3> QED
      BY <1>2, <1>5, <3>3, <3>6, <3>7, <3>8 DEF ContentAt
  <2>2. CASE e.tfile \notin DOMAIN files
    <3>1. FormFileOpen(entries, e.attr, files) # "Success"
      BY <1>3, <2>2, Zenon DEF FormFileOpen
    <3>2. c = << >>
      BY <1>2, <2>2 DEF Content
    <3>3. w = WriteInt(0)
      BY <1>4, <3>1, Zenon
    <3>4. w \in Seq(Nat) /\ Len(w) = 4 /\ IntAt(w, 1, 0)
      BY <3>3, WrittenInt
    <3> QED
      BY <1>2, <3>2, <3>4 DEF ContentAt
  <2> QED
    BY <2>1, <2>2
<1>7. E = WriteString(f.attr) \o WriteString(f.value) \o WriteString(f.fileName)
          \o WriteString(f.contentType) \o WriteInt(f.valueLength) \o w
  BY <1>2, <1>4, Zenon DEF SavedEntry
<1> QED
  BY <1>2, <1>6, <1>7, WrittenField

(* If the file cannot be opened it is the entry without it.                *)
LEMMA SavedWithout ==
  ASSUME TextInv, NEW i \in DOMAIN entries,
         NEW E, E = SavedEntry(entries[i], [f \in {} |-> << >>])
  PROVE  E \in Seq(Nat) /\ FieldAt(E, 1, Len(E) + 1, [Form[i] EXCEPT !.content = << >>])
<1>1. FormText
  BY DEF TextInv
<1>2. PICK z : z = << >> /\ z \in Seq(Nat)
  <2>1. << >> \in Seq(Nat)
    OBVIOUS
  <2> QED
    BY <2>1, Zenon
<1>3. PICK e, c : e = entries[i] /\ c = Content(e)
  OBVIOUS
<1>4. PICK h : h = Form[i] /\ h \in FieldShape
  BY <1>1, FormIsText
<1>5. h = [attr |-> e.attr, value |-> e.value, valueLength |-> e.valueLength,
           fileName |-> e.fileName, contentType |-> e.contentType, content |-> c]
  BY <1>1, <1>3, <1>4, FormIsText, Zenon
<1>6. PICK f : f = [h EXCEPT !.content = z]
  OBVIOUS
<1>7. /\ f.attr = e.attr /\ f.value = e.value /\ f.valueLength = e.valueLength
      /\ f.fileName = e.fileName /\ f.contentType = e.contentType /\ f.content = z
  BY ONLY <1>5, <1>6
<1>8. f \in FieldShape
  BY ONLY <1>2, <1>4, <1>6 DEF FieldShape
<1>9. PICK w : w = WriteInt(0) /\ w \in Seq(Nat) /\ Len(w) = 4 /\ IntAt(w, 1, 0)
  BY WrittenInt
<1>10. ContentAt(w, 1, Len(w) + 1, f.content, f.valueLength)
  <2>1. IntAt(w, 1, 0) /\ Len(w) = 4
    BY <1>9, Zenon
  <2>3. Len(w) + 1 = 1 + 4
    BY ONLY <2>1
  <2>2. f.content = << >>
    BY <1>2, <1>7, Zenon
  <2> QED
    BY <2>1, <2>2, <2>3, Zenon DEF ContentAt
<1>11. PICK none : none = [x \in {} |-> << >>] /\ DOMAIN none = {}
                   /\ E = SavedEntry(entries[i], none)
  OBVIOUS
<1>12. FormFileOpen(entries, e.attr, none) # "Success"
  <2>1. FormFileOpen(entries, e.attr, none) \in {"NotFound", "NotAFile", "IO"}
    BY <1>11 DEF FormFileOpen
  <2> QED
    BY <2>1
<1>13. E = WriteString(f.attr) \o WriteString(f.value) \o WriteString(f.fileName)
           \o WriteString(f.contentType) \o WriteInt(f.valueLength) \o w
  BY <1>3, <1>7, <1>9, <1>11, <1>12, Zenon DEF SavedEntry
<1>14. E \in Seq(Nat) /\ FieldAt(E, 1, Len(E) + 1, f)
  BY <1>8, <1>9, <1>10, <1>13, WrittenField
<1> QED
  BY <1>2, <1>4, <1>6, <1>14, Zenon

-----------------------------------------------------------------------------
(* Saving keeps the file as it should be.                                  *)

(* The head is written: a layout without fields.                           *)
LEMMA SaveOpens ==
  ASSUME TextInv, SaveOpen
  PROVE  SavedInv'
<1>1. /\ env \in [ToSet(SavedVars) -> Seq(Nat)] /\ req.length \in Nat /\ FormText
  BY DEF TextInv, ProcessText
<1>2. PICK D : /\ D = WriteString(Version)
                  \o FlattenSeq([i \in DOMAIN SavedVars |-> WriteString(env[SavedVars[i]])])
                  \o WriteInt(req.length)
               /\ saved' = [exists |-> TRUE, data |-> D]
  BY DEF SaveOpen
<1>3. PICK v \in [ToSet(SavedVars) -> Seq(Nat)], n \in Nat : v = env /\ n = req.length
  BY <1>1
<1>4. D = WriteString(Version)
            \o FlattenSeq([i \in DOMAIN SavedVars |-> WriteString(v[SavedVars[i]])])
            \o WriteInt(n)
  BY <1>2, <1>3, Zenon
<1>5. D \in Seq(Nat) /\ HeadAt(D, Len(D) + 1)
  BY <1>4, WrittenHead
<1>6. PICK W : W = Form /\ kept'.form = W /\ W \in Seq(FieldShape)
  BY <1>1, FormIsText DEF SaveOpen
<1>7. PICK pos : Layout(D, W, pos, 0)
  BY <1>5, <1>6, LayoutHead
<1>8. OnDisk(D, W, pos, 0, Len(D))'
  <2>1. saved'.data = D
    BY <1>2
  <2>2. Written(W)'
    BY <1>6, Zenon DEF Written, AsWritten
  <2> QED
    BY <1>5, <1>7, <2>1, <2>2, WholeData DEF OnDisk
<1>9. Progress(D, pos, 0, Len(D))'
  <2>1. at' = 1 /\ pc' = "save"
    BY DEF SaveOpen
  <2> QED
    BY <2>1 DEF Progress, Saving, Loading
<1> QED
  BY <1>8, <1>9, Zenon DEF SavedInv

(* One more field is written, or the field without its upload.             *)
LEMMA SaveGoesOn ==
  ASSUME EntryInv, TextInv, ProgramInv, SavedInv, Remains,
         \A kind : Fault(kind) => Happened({kind})', SaveEntry \/ SaveLost
  PROVE  SavedInv'
<1>1. SUFFICES ASSUME Faithful', saved'.exists
               PROVE  \E D, W, pos, k, m : OnDisk(D, W, pos, k, m)' /\ Progress(D, pos, k, m)'
  BY Zenon DEF SavedInv
<1>2. /\ FormText /\ saved \in [exists : BOOLEAN, data : Seq(Nat)] /\ at \in Nat
      /\ DOMAIN entries = 1..Len(entries)
  BY DEF TextInv, DiskText, ProcessText, FormText
<1>3. /\ pc = "save" /\ pc' = "save" /\ at \in DOMAIN entries /\ at' = at + 1
      /\ kept' = kept
  BY Zenon DEF SaveEntry, SaveLost
<1>4. Saving /\ kept.form = Form /\ saved.exists /\ FilesWhole /\ DistinctNames(Form)
      /\ Faithful
  BY <1>1, <1>2, <1>3 DEF Saving, ProgramInv, Faithful, DistinctNames
<1>5. PICK j : j = at /\ j \in 1..Len(entries) /\ j \in Nat \ {0} /\ at' = j + 1
  BY <1>2, <1>3
<1>6. PICK f : f = Form[j] /\ f = kept'.form[j] /\ f \in FieldShape
  BY <1>2, <1>3, <1>4, <1>5, FormIsText
<1>7. PICK E, g : /\ E \in Seq(Nat) /\ FieldAt(E, 1, Len(E) + 1, g) /\ g \in FieldShape
                  /\ saved' = [saved EXCEPT !.data = saved.data \o E]
                  /\ AsWritten(g, f)'
  <2>1. CASE SaveEntry
    <3>1. PICK E : E = SavedEntry(entries[at], files)
      OBVIOUS
    <3>2. E \in Seq(Nat) /\ FieldAt(E, 1, Len(E) + 1, f)
      BY <1>3, <1>4, <1>5, <1>6, <3>1, SavedIsField
    <3>3. saved' = [saved EXCEPT !.data = saved.data \o E]
      BY <2>1, <3>1, Zenon DEF SaveEntry
    <3>4. AsWritten(f, f)'
      BY Zenon DEF AsWritten
    <3> QED
      BY <1>6, <3>2, <3>3, <3>4, Zenon
  <2>2. CASE SaveLost
    <3>1. PICK E : E = SavedEntry(entries[at], [x \in {} |-> << >>])
      OBVIOUS
    <3>2. PICK g : g = [f EXCEPT !.content = << >>]
      OBVIOUS
    <3>3. E \in Seq(Nat) /\ FieldAt(E, 1, Len(E) + 1, g)
      BY <1>3, <1>5, <1>6, <3>1, <3>2, SavedWithout
    <3>4. saved' = [saved EXCEPT !.data = saved.data \o E]
      BY <2>2, <3>1, Zenon DEF SaveLost
    <3>5. g \in FieldShape
      <4>1. << >> \in Seq(Nat)
        OBVIOUS
      <4> QED
        BY <1>6, <3>2, <4>1 DEF FieldShape
    <3>6. Happened({"open"})'
      BY <2>2, Zenon DEF SaveLost
    <3>7. AsWritten(g, f)'
      BY <3>2, <3>6, Zenon DEF AsWritten
    <3> QED
      BY <3>3, <3>4, <3>5, <3>7, Zenon
  <2> QED
    BY <2>1, <2>2
<1>8. PICK D, W, pos, k, m : OnDisk(D, W, pos, k, m) /\ Progress(D, pos, k, m)
  BY <1>4 DEF SavedInv
<1>9. /\ Layout(D, W, pos, k) /\ k = at - 1 /\ saved.data = D /\ D \in Seq(Nat) /\ Written(W)
  BY <1>4, <1>8, WholeData DEF OnDisk, Progress, Layout
<1>10. /\ W \in Seq(FieldShape) /\ Len(W) = Len(entries) /\ k \in Nat
       /\ k + 1 = j /\ k < Len(W) /\ DOMAIN W = 1..Len(entries)
  <2>1. W \in Seq(FieldShape) /\ Len(W) = Len(entries)
    BY <1>2, <1>4, <1>9, FormIsText DEF Written
  <2>2. k = j - 1
    BY <1>5, <1>9
  <2>3. DOMAIN W = 1..Len(entries)
    BY <2>1
  <2> QED
    BY <1>5, <2>1, <2>2, <2>3
<1>11. PICK V : V = [W EXCEPT ![j] = g]
  OBVIOUS
<1>12. /\ V \in Seq(FieldShape) /\ Len(V) = Len(W) /\ V[j] = g /\ DOMAIN V = DOMAIN W
       /\ \A i \in DOMAIN W : i # j => V[i] = W[i]
  <2>1. PICK S : S = FieldShape
    OBVIOUS
  <2>2. W \in Seq(S) /\ g \in S /\ j \in 1..Len(W)
    BY <1>5, <1>7, <1>10, <2>1
  <2>3. /\ V \in Seq(S) /\ Len(V) = Len(W) /\ V[j] = g /\ DOMAIN V = DOMAIN W
        /\ \A i \in DOMAIN W : i # j => V[i] = W[i]
    BY ONLY <1>11, <2>2
  <2> QED
    BY <2>1, <2>3
<1>13. Written(V)'
  <2>1. Written(W)'
    BY <1>3, <1>9, WrittenStays
  <2>2. ASSUME NEW i \in DOMAIN V PROVE AsWritten(V[i], kept.form[i])'
    <3>1. CASE i = j
      <4>1. V[i] = g /\ kept'.form[i] = f
        BY <1>6, <1>12, <3>1
      <4> QED
        BY <1>7, <4>1, Zenon DEF AsWritten
    <3>2. CASE i # j
      <4>1. V[i] = W[i] /\ i \in DOMAIN W
        BY <1>12, <2>2, <3>2
      <4> QED
        BY <2>1, <4>1, Zenon DEF Written
    <3> QED
      BY <3>1, <3>2
  <2>3. V \in Seq(FieldShape) /\ Len(V) = Len(kept'.form)
    BY <1>12, <2>1 DEF Written
  <2> QED
    BY <2>2, <2>3, Zenon DEF Written
<1>14. PICK Z : Z = D \o E /\ Z \in Seq(Nat)
  <2>1. D \o E \in Seq(Nat)
    BY <1>7, <1>9, SeqJoined
  <2> QED
    BY <2>1
<1>15. PICK more : Layout(Z, V, more, k + 1)
  <2>1. \A i \in 1..k : V[i] = W[i]
    BY <1>5, <1>10, <1>12
  <2>2. Layout(D, V, pos, k)
    BY <1>9, <1>10, <1>12, <2>1, LayoutOther
  <2>3. FieldAt(E, 1, Len(E) + 1, V[k + 1]) /\ k < Len(V)
    BY <1>7, <1>10, <1>12, Zenon
  <2> QED
    BY <1>7, <1>12, <1>14, <2>2, <2>3, LayoutGrows
<1>16. saved'.data = Z
  BY <1>2, <1>7, <1>9, <1>14
<1>17. OnDisk(Z, V, more, k + 1, Len(Z))'
  BY <1>13, <1>14, <1>15, <1>16, WholeData DEF OnDisk
<1>18. Progress(Z, more, k + 1, Len(Z))'
  <2>1. Saving' /\ ~Loading'
    BY <1>3, <1>5 DEF Saving, Loading
  <2>2. k + 1 = at' - 1
    BY <1>5, <1>10
  <2> QED
    BY <2>1, <2>2, Zenon DEF Progress
<1> QED
  BY <1>17, <1>18, Zenon

(* Of an upload only a part is written: its form is not whole any more.    *)
LEMMA SaveBreaks ==
  ASSUME TextInv, SavePart
  PROVE  SavedInv'
<1>1. kept' = [kept EXCEPT !.whole = FALSE]
  BY DEF SavePart
<1>2. ~kept'.whole
  BY <1>1 DEF TextInv, DiskText
<1> QED
  BY <1>2 DEF SavedInv, Faithful

(* All fields are written.                                                 *)
LEMMA SaveCloses ==
  ASSUME TextInv, ProgramInv, SavedInv, Remains, SaveClose
  PROVE  SavedInv'
<1>1. SUFFICES ASSUME Faithful', saved'.exists
               PROVE  \E D, W, pos, k, m : OnDisk(D, W, pos, k, m)' /\ Progress(D, pos, k, m)'
  BY Zenon DEF SavedInv
<1>2. FormText /\ Len(entries) \in Nat
  BY DEF TextInv, FormText
<1>3. /\ pc = "save" /\ pc' = "done" /\ at = Len(entries) + 1 /\ UNCHANGED <<faults, kept, saved>>
  BY DEF SaveClose, formVars, Goto
<1>4. Saving /\ kept.form = Form /\ saved.exists
  BY <1>2, <1>3 DEF Saving, ProgramInv
<1>5. Faithful
  BY <1>1, <1>3, Zenon DEF Faithful, DistinctNames
<1>6. PICK D, W, pos, k, m : OnDisk(D, W, pos, k, m) /\ Progress(D, pos, k, m)
  BY <1>4, <1>5 DEF SavedInv
<1>7. k = Len(kept.form) /\ m = Len(D)
  BY <1>2, <1>3, <1>4, <1>6, FormIsText DEF Progress
<1>8. OnDisk(D, W, pos, k, m)'
  BY <1>3, <1>6, WrittenStays, Zenon DEF OnDisk
<1>9. Progress(D, pos, k, m)'
  BY <1>3, <1>7 DEF Progress, Saving, Loading
<1> QED
  BY <1>8, <1>9, Zenon

-----------------------------------------------------------------------------
(* Restoring.                                                              *)

(* The head was read: the next field to read is the first one.             *)
LEMMA LoadOpens ==
  ASSUME TextInv, SavedInv, Remains, LoadOpen
  PROVE  SavedInv'
<1>1. /\ pc = "load" /\ at = 0 /\ entries' = << >> /\ UNCHANGED <<faults, kept, saved>>
      /\ Len(SavedVars) = 3 /\ saved.data \in Seq(Nat)
  <2>1. pc = "load" /\ at = 0 /\ entries' = << >> /\ UNCHANGED <<faults, kept, saved>>
    BY Zenon DEF LoadOpen
  <2> QED
    BY <2>1 DEF SavedVars, TextInv, DiskText
<1>2. Faithful' => Faithful
  BY <1>1, Zenon DEF Faithful, DistinctNames
<1>3. \/ /\ saved.exists /\ ReadHead[3].ok /\ ReadInt[ReadHead[3].next].ok
         /\ at' = ReadInt[ReadHead[3].next].next /\ pc' = pc
      \/ pc' = "done"
  BY <1>1, Zenon DEF LoadOpen, Goto
<1>4. CASE pc' = "done"
  BY <1>1, <1>4, FileStays DEF Saving, Loading
<1>5. CASE /\ saved.exists /\ ReadHead[3].ok /\ ReadInt[ReadHead[3].next].ok
           /\ at' = ReadInt[ReadHead[3].next].next /\ pc' = pc
  <2>1. SUFFICES ASSUME Faithful'
                 PROVE  \E D, W, pos, k, m : OnDisk(D, W, pos, k, m)' /\ Progress(D, pos, k, m)'
    BY Zenon DEF SavedInv
  <2>2. PICK D, W, pos, k, m : OnDisk(D, W, pos, k, m) /\ Progress(D, pos, k, m)
    BY <1>2, <1>5, <2>1 DEF SavedInv
  <2>3. /\ D \in Seq(Nat) /\ m \in 0..Len(D) /\ saved.data = SubSeq(D, 1, m)
        /\ HeadAt(D, pos[1]) /\ k \in 0..Len(W)
    BY <2>2, Zenon DEF OnDisk, Layout
  <2>4. at' = pos[1]
    <3>1. ReadInt[ReadHead[3].next].next = pos[1]
      BY <1>5, <2>3, ReadsHead
    <3> QED
      BY <1>5, <3>1, Zenon
  <2>5. ~Saving /\ ~Saving'
    BY <1>1, <1>5 DEF Saving
  <2>6. OnDisk(D, W, pos, k, m)'
    BY <1>1, <2>2, WrittenStays, Zenon DEF OnDisk
  <2>7. /\ Len(entries') <= k /\ at' = pos[Len(entries') + 1]
        /\ \A i \in DOMAIN entries' : FALSE
    <3>1. Len(W) \in Nat
      BY <2>2 DEF OnDisk, Written
    <3> QED
      BY <1>1, <2>3, <2>4, <3>1
  <2>8. Progress(D, pos, k, m)'
    BY <1>1, <2>2, <2>5, <2>7, Zenon DEF Progress
  <2> QED
    BY <2>6, <2>8, Zenon
<1> QED
  BY <1>3, <1>4, <1>5

(* An entry that is restored: the old ones stay as they are ...            *)
LEMMA OldFields ==
  ASSUME FormText, FormText', NEW g \in EntryShape, entries' = Append(entries, g), Unharmed,
         DOMAIN files \subseteq DOMAIN files', NEW i \in DOMAIN entries
  PROVE  Form'[i] = Form[i]
<1>1. PICK e : e = entries[i] /\ e = entries'[i] /\ i \in DOMAIN entries'
  <2>1. entries'[i] = entries[i] /\ i \in DOMAIN entries'
    BY FormGrows DEF FormText
  <2> QED
    BY <2>1
<1>2. Content(e)' = Content(e)
  BY <1>1 DEF Unharmed, Content
<1>3. /\ Form[i] = [attr |-> e.attr, value |-> e.value, valueLength |-> e.valueLength,
                    fileName |-> e.fileName, contentType |-> e.contentType,
                    content |-> Content(e)]
      /\ Form'[i] = [attr |-> e.attr, value |-> e.value, valueLength |-> e.valueLength,
                     fileName |-> e.fileName, contentType |-> e.contentType,
                     content |-> Content(e)']
  BY <1>1 DEF Form
<1> QED
  BY <1>2, <1>3, Zenon

(* One more field was read, and it is the next one of the saved form, or   *)
(* what was written of it, or what the disk had room for.                  *)
LEMMA LoadGoesOn ==
  ASSUME EntryInv, TextInv, TextInv', PlainInv, SavedInv, ProgramInv, Remains,
         \A kind : Fault(kind) => faults' # << >> /\ Happened({kind})',
         faults' = << >> => faults = << >>, LoadEntry \/ LoadCut
  PROVE  SavedInv'
<1>1. SUFFICES ASSUME Faithful'
               PROVE  \E D, W, pos, k, m : OnDisk(D, W, pos, k, m)' /\ Progress(D, pos, k, m)'
  BY Zenon DEF SavedInv
<1>2. /\ pc = "load" /\ at > 0 /\ pc' = pc /\ UNCHANGED <<kept, saved>>
      /\ ReadString[at].ok /\ EntryRead.ok /\ at' = EntryRead.next
  BY Zenon DEF LoadEntry, LoadCut
<1>3. /\ saved.data \in Seq(Nat) /\ at \in Nat \ {0} /\ entries \in Seq(EntryShape)
      /\ FormText /\ FormText' /\ DOMAIN files \subseteq TempFiles
      /\ Len(entries) \in Nat /\ DOMAIN entries = 1..Len(entries)
      /\ kept.form \in Seq(FieldShape)
  BY <1>2 DEF TextInv, DiskText, ProcessText, FormText, EntryInv, Owned
<1>4. Faithful /\ Loading /\ saved.exists /\ ~Saving /\ ~Saving'
  BY <1>1, <1>2 DEF Faithful, DistinctNames, Saving, Loading, ProgramInv
<1>5. PICK D, W, pos, k, m : OnDisk(D, W, pos, k, m) /\ Progress(D, pos, k, m)
  BY <1>4 DEF SavedInv
<1>6. /\ D \in Seq(Nat) /\ m \in 0..Len(D) /\ saved.data = SubSeq(D, 1, m)
      /\ k \in 0..Len(W) /\ pos \in [1..k + 1 -> Nat \ {0}] /\ pos[k + 1] = Len(D) + 1
      /\ \A i \in 1..k : FieldAt(D, pos[i], pos[i + 1], W[i])
      /\ Written(W) /\ W \in Seq(FieldShape) /\ Len(W) = Len(kept.form)
  BY <1>5 DEF OnDisk, Layout, Written
<1>7. PICK n \in Nat : n = Len(entries) /\ n <= k /\ at = pos[n + 1]
                       /\ \A i \in DOMAIN entries : AsSaved(Form[i], kept.form[i])
  BY <1>3, <1>4, <1>5 DEF Progress
<1>8. n < k
  <2>1. SUFFICES ASSUME n = k PROVE FALSE
    BY <1>6, <1>7
  <2>2. at = Len(D) + 1
    BY <1>6, <1>7, <2>1
  <2>3. at + 3 <= Len(saved.data)
    BY <1>2, <1>3, StringTypes
  <2>4. Len(saved.data) <= Len(D)
    BY <1>6, Beginning
  <2> QED
    BY <1>3, <1>6, <2>2, <2>3, <2>4
<1>9. PICK f, q : /\ f = W[n + 1] /\ f \in FieldShape /\ q = pos[n + 2] /\ q \in Nat
                  /\ FieldAt(D, at, q, f) /\ n + 1 \in 1..Len(W) /\ n + 2 \in 1..k + 1
  <2>1. n + 1 \in 1..Len(W) /\ n + 1 \in 1..k /\ n + 2 \in 1..k + 1 /\ (n + 1) + 1 = n + 2
    <3>1. Len(W) \in Nat
      BY <1>6
    <3>2. k \in 0..Len(W) /\ n < k
      BY <1>6, <1>8, Zenon
    <3> QED
      BY ONLY <3>1, <3>2, n \in Nat
  <2>2. W[n + 1] \in FieldShape /\ pos[n + 2] \in Nat
    BY <1>6, <2>1
  <2>3. FieldAt(D, pos[n + 1], pos[n + 2], W[n + 1])
    BY <1>6, <2>1
  <2> QED
    BY <1>7, <2>1, <2>2, <2>3, Zenon
<1>10. PICK v : /\ v = kept.form[n + 1] /\ v \in FieldShape /\ AsWritten(f, v)
                /\ PlainEntry(v)
  <2>1. n + 1 \in DOMAIN W /\ n + 1 \in DOMAIN kept.form
    BY <1>3, <1>6, <1>9
  <2>2. AsWritten(f, kept.form[n + 1])
    BY <1>6, <1>9, <2>1, Zenon DEF Written
  <2>3. kept.form[n + 1] \in FieldShape
    BY <1>3, <2>1
  <2>4. PlainEntry(kept.form[n + 1])
    BY <2>1, Zenon DEF PlainInv, PlainForm
  <2> QED
    BY <2>2, <2>3, <2>4
<1>11. PlainEntry(f)
  <2>1. f.attr = v.attr /\ f.value = v.value /\ f.fileName = v.fileName
        /\ f.contentType = v.contentType
    BY <1>10 DEF AsWritten, FieldShape
  <2> QED
    BY <1>10, <2>1, Zenon DEF PlainEntry
<1>12. /\ EntryRead.next = q /\ EntryRead.entry = AsEntry(f)
       /\ EntryRead.isFile => EntryRead.content = f.content /\ Len(f.content) = f.valueLength
       /\ ~EntryRead.isFile => f.content = << >>
  <2>1. D \in Seq(Nat) /\ m \in 0..Len(D) /\ saved.data = SubSeq(D, 1, m)
    BY <1>6
  <2>2. at \in Nat \ {0} /\ ReadString[at].ok /\ EntryRead.ok
    BY <1>2, <1>3
  <2> QED
    BY ONLY <1>9, <1>11, <2>1, <2>2, ReadsEntry
<1>13. PICK g, c : /\ g \in EntryShape /\ entries' = Append(entries, g)
                   /\ g.attr = f.attr /\ g.value = f.value /\ g.valueLength = f.valueLength
                   /\ g.fileName = f.fileName /\ g.contentType = f.contentType
                   /\ Content(g)' = c /\ Unharmed /\ DOMAIN files \subseteq DOMAIN files'
                   /\ \/ c = f.content
                      \/ /\ Happened({"cut"})'
                         /\ \E l \in 0..Len(f.content) - 1 : c = SubSeq(f.content, 1, l)
  <2>1. \A t \in Int : LET g == [AsEntry(f) EXCEPT !.tfile = t]
                       IN  /\ g \in EntryShape /\ g.tfile = t
                           /\ g.attr = f.attr /\ g.value = f.value
                           /\ g.valueLength = f.valueLength
                           /\ g.fileName = f.fileName /\ g.contentType = f.contentType
    BY <1>9 DEF AsEntry, FieldShape, EntryShape
  <2>2. \A x \in TempFiles : x \in Int /\ x # NoFile /\ x # Junk
    BY TempNames, Zenon
  <2>3. \/ /\ EntryRead.isFile /\ NamesLeft
           /\ \E c : /\ files' = With(FreshFile, c)
                    /\ \/ c = f.content
                       \/ /\ Happened({"cut"})'
                          /\ \E l \in 0..Len(f.content) - 1 : c = SubSeq(f.content, 1, l)
           /\ entries' = Append(entries, [EntryRead.entry EXCEPT !.tfile = FreshFile])
        \/ /\ ~EntryRead.isFile /\ files' = files
           /\ \E t \in {NoFile, Junk} :
                entries' = Append(entries, [EntryRead.entry EXCEPT !.tfile = t])
    <3>1. CASE LoadEntry
      BY <1>12, <3>1, Zenon DEF LoadEntry
    <3>2. CASE LoadCut
      <4>1. /\ EntryRead.isFile /\ NamesLeft /\ Fault("cut")
            /\ \E l \in 0..Len(EntryRead.content) - 1 :
                 files' = With(FreshFile, SubSeq(EntryRead.content, 1, l))
            /\ entries' = Append(entries, [EntryRead.entry EXCEPT !.tfile = FreshFile])
        BY <3>2, Zenon DEF LoadCut
      <4>2. EntryRead.content = f.content /\ Happened({"cut"})'
        BY <1>12, <4>1, Zenon
      <4> QED
        BY <4>1, <4>2, Zenon
    <3> QED
      BY <3>1, <3>2
  <2>4. CASE /\ EntryRead.isFile /\ NamesLeft
             /\ \E c : /\ files' = With(FreshFile, c)
                      /\ \/ c = f.content
                         \/ /\ Happened({"cut"})'
                            /\ \E l \in 0..Len(f.content) - 1 : c = SubSeq(f.content, 1, l)
             /\ entries' = Append(entries, [EntryRead.entry EXCEPT !.tfile = FreshFile])
    <3>1. /\ FreshFile \in TempFiles /\ FreshFile \notin DOMAIN files
          /\ Unowned(FreshFile, entries)
      BY <2>4, FreshFacts, Zenon
    <3>2. PICK c : /\ files' = With(FreshFile, c)
                   /\ \/ c = f.content
                      \/ /\ Happened({"cut"})'
                         /\ \E l \in 0..Len(f.content) - 1 : c = SubSeq(f.content, 1, l)
      BY <2>4
    <3>3. /\ files'[FreshFile] = c /\ DOMAIN files' = DOMAIN files \cup {FreshFile}
          /\ \A x \in DOMAIN files : x # FreshFile => files'[x] = files[x]
      BY <3>2 DEF With
    <3>4. Unharmed /\ DOMAIN files \subseteq DOMAIN files'
      <4>1. DOMAIN files' \subseteq TempFiles
        BY <1>3, <3>1, <3>3
      <4> QED
        BY <3>1, <3>3, <4>1, OthersUnharmed
    <3>5. FreshFile \in Int
      BY <2>2, <3>1
    <3>6. PICK g : g = [AsEntry(f) EXCEPT !.tfile = FreshFile]
      OBVIOUS
    <3>7. /\ g \in EntryShape /\ g.tfile = FreshFile
          /\ g.attr = f.attr /\ g.value = f.value /\ g.valueLength = f.valueLength
          /\ g.fileName = f.fileName /\ g.contentType = f.contentType
      BY <2>1, <3>5, <3>6, Zenon
    <3>8. Content(g)' = c
      BY <3>3, <3>7 DEF Content
    <3>9. entries' = Append(entries, g)
      BY <1>12, <2>4, <3>6, Zenon
    <3> QED
      BY <3>2, <3>4, <3>7, <3>8, <3>9, Zenon
  <2>5. CASE /\ ~EntryRead.isFile /\ files' = files
             /\ \E t \in {NoFile, Junk} :
                  entries' = Append(entries, [EntryRead.entry EXCEPT !.tfile = t])
    <3>1. PICK t \in {NoFile, Junk} :
            entries' = Append(entries, [EntryRead.entry EXCEPT !.tfile = t])
      BY <2>5, Zenon
    <3>2. t \in Int /\ t \notin DOMAIN files'
      BY <1>3, <2>2, <2>5 DEF NoFile, Junk
    <3>3. PICK g : g = [AsEntry(f) EXCEPT !.tfile = t]
      OBVIOUS
    <3>4. /\ g \in EntryShape /\ g.tfile = t
          /\ g.attr = f.attr /\ g.value = f.value /\ g.valueLength = f.valueLength
          /\ g.fileName = f.fileName /\ g.contentType = f.contentType
      BY <2>1, <3>2, <3>3, Zenon
    <3>5. Content(g)' = f.content
      BY <1>12, <2>5, <3>2, <3>4 DEF Content
    <3>6. entries' = Append(entries, g)
      BY <1>12, <3>1, <3>3, Zenon
    <3>7. Unharmed /\ DOMAIN files \subseteq DOMAIN files'
      BY <2>5, SameUnharmed
    <3> QED
      BY <3>4, <3>5, <3>6, <3>7, Zenon
  <2> QED
    BY <2>3, <2>4, <2>5
<1>14. /\ DOMAIN entries' = 1..n + 1 /\ Len(entries') = n + 1
       /\ entries'[n + 1] = g
  BY <1>3, <1>7, <1>13, FormGrows
<1>15. AsSaved(Form[n + 1], kept.form[n + 1])'
  <2>1. n + 1 \in DOMAIN entries'
    BY <1>7, <1>14
  <2>2. PICK h : h = Form'[n + 1]
    OBVIOUS
  <2>3. h = [attr |-> f.attr, value |-> f.value, valueLength |-> f.valueLength,
             fileName |-> f.fileName, contentType |-> f.contentType, content |-> c]
    BY <1>13, <1>14, <2>1, <2>2 DEF Form
  <2>4. AsSaved(h, v)'
    <3>1. h.content = c /\ h = [f EXCEPT !.content = c] /\ (c = f.content => h = f)
      <4>1. f = [attr |-> f.attr, value |-> f.value, valueLength |-> f.valueLength,
                 fileName |-> f.fileName, contentType |-> f.contentType,
                 content |-> f.content]
        BY <1>9 DEF FieldShape
      <4>2. h.content = c
        BY ONLY <2>3
      <4>3. h = [f EXCEPT !.content = c]
        BY ONLY <2>3, <4>1
      <4>4. c = f.content => h = f
        BY <2>3, <4>1, Zenon
      <4> QED
        BY <4>2, <4>3, <4>4
    <3>2. (c = f.content \/ Happened({"cut"})') /\ IsPrefix(c, f.content)
      <4>1. f.content \in Seq(Nat)
        BY <1>9 DEF FieldShape
      <4>2. IsPrefix(f.content, f.content)
        BY <4>1 DEF IsPrefix
      <4>3. ASSUME NEW l \in 0..Len(f.content) - 1, c = SubSeq(f.content, 1, l)
            PROVE  IsPrefix(c, f.content)
        <5>1. PICK z \in Seq(Nat) : z = f.content
          BY <4>1
        <5>2. Len(SubSeq(z, 1, l)) = l /\ l <= Len(z)
          BY <4>3, <5>1
        <5> QED
          BY <4>3, <5>1, <5>2 DEF IsPrefix
      <4> QED
        BY <1>13, <4>2, <4>3, Zenon
    <3>3. CASE f = v
      BY <3>1, <3>2, <3>3 DEF AsSaved, Happened
    <3>4. CASE Happened({"open"}) /\ f = [v EXCEPT !.content = << >>]
      <4>1. Happened({"open"})'
        BY <3>4, Zenon DEF Remains
      <4>2. f.content = << >>
        BY <1>10, <3>4 DEF FieldShape
      <4>3. c = << >>
        BY <1>13, <4>2
      <4>4. h = [v EXCEPT !.content = h.content] /\ h.content = << >>
        BY <1>10, <3>1, <3>4, <4>3 DEF FieldShape
      <4>5. IsPrefix(h.content, v.content)
        BY <1>10, <4>4 DEF IsPrefix, FieldShape
      <4> QED
        BY <4>1, <4>4, <4>5 DEF AsSaved, Happened
    <3> QED
      BY <1>10, <3>3, <3>4 DEF AsWritten
  <2>5. v = kept'.form[n + 1]
    BY <1>2, <1>10
  <2> QED
    BY <2>2, <2>4, <2>5, Zenon DEF AsSaved
<1>16. \A i \in DOMAIN entries' : AsSaved(Form[i], kept.form[i])'
  <2>1. \A i \in DOMAIN entries' : i \in DOMAIN entries \/ i = n + 1
    BY <1>3, <1>7, <1>14
  <2>2. ASSUME NEW i \in DOMAIN entries PROVE AsSaved(Form[i], kept.form[i])'
    <3>1. PICK g1, g2 : g1 = Form[i] /\ g1 = Form'[i] /\ g2 = kept.form[i] /\ g2 = kept'.form[i]
      BY <1>2, <1>3, <1>13, <2>2, OldFields
    <3>2. AsSaved(g1, g2)'
      BY <1>2, <1>7, <2>2, <3>1, WrittenStays
    <3> QED
      BY <3>1, <3>2, Zenon DEF AsSaved
  <2> QED
    BY <1>15, <2>1, <2>2
<1>17. Len(entries') <= k /\ at' = pos[Len(entries') + 1]
  <2>1. Len(entries') = n + 1 /\ (n + 1) + 1 = n + 2 /\ n + 1 <= k
    BY <1>6, <1>7, <1>8, <1>14
  <2> QED
    BY <1>2, <1>9, <1>12, <2>1
<1>18. OnDisk(D, W, pos, k, m)'
  BY <1>2, <1>5, WrittenStays, Zenon DEF OnDisk
<1>19. Progress(D, pos, k, m)'
  <2>1. faults' = << >> => k = Len(kept'.form) /\ m = Len(D)
    BY <1>2, <1>4, <1>5, Zenon DEF Progress
  <2> QED
    BY <1>4, <1>16, <1>17, <2>1, Zenon DEF Progress
<1> QED
  BY <1>18, <1>19, Zenon

-----------------------------------------------------------------------------
(* Together.                                                               *)

(* A run without a fault so far had none before.                           *)
LEMMA NoFaultBefore ==
  ASSUME ReaderInv, Next
  PROVE  /\ faults' = << >> => faults = << >>
         /\ \A kind : Fault(kind) => faults' # << >> /\ Happened({kind})'
<1>1. \A kind : Fault(kind) => faults' # << >> /\ Happened({kind})'
  <2> TAKE kind
  <2>1. HAVE Fault(kind)
  <2>2. kind \in ToSet(faults')
    BY <2>1, OneFault
  <2> QED
    BY <2>2 DEF ToSet, Happened
<1> QED
  BY <1>1, OneStep

(* Every step keeps the saved file a layout, or a beginning of one.        *)
LEMMA SavedStep ==
  ASSUME ReaderInv, EntryInv, TextInv, TextInv', PlainInv, ProgramInv, SavedInv, Next
  PROVE  SavedInv'
<1>1. Remains
  BY FaultsStay, Zenon DEF Remains
<1>2. /\ faults' = << >> => faults = << >>
      /\ \A kind : Fault(kind) => faults' # << >> /\ Happened({kind})'
  BY NoFaultBefore
<1>3. ASSUME UNCHANGED <<saved, kept>>, faults' = << >> => ~Saving, ~Saving', ~Loading'
      PROVE  SavedInv'
  BY <1>1, <1>2, <1>3, FileStays
<1>4. CASE Parse
  <2>1. UNCHANGED <<saved, kept>> /\ ~Saving
    BY <1>4, ParseGoes DEF Parse, Reading, Saving
  <2>2. ~Saving' /\ ~Loading'
    BY <1>4, ParseGoes DEF Saving, Loading
  <2> QED
    BY <1>3, <2>1, <2>2
<1>5. CASE Arrive
  <2>1. UNCHANGED <<saved, kept>> /\ ~Saving /\ ~Saving' /\ ~Loading'
    BY <1>5 DEF Arrive, Goto, Saving, Loading
  <2> QED
    BY <1>3, <2>1
<1>6. CASE Main \/ HandleSubmit
  <2>1. UNCHANGED <<saved, kept, at>> /\ pc \in {"main", "submit"}
    BY <1>6 DEF Main, HandleSubmit
  <2>2. ~Saving /\ ~Saving' /\ ~Loading'
    BY <2>1 DEF ProgramInv, Saving, Loading
  <2> QED
    BY <1>3, <2>1, <2>2
<1>7. CASE SaveFails
  <2>1. /\ pc = "save" /\ pc' = "done" /\ kept' = kept /\ faults' # << >>
        /\ saved' = IF at = 0 THEN saved ELSE NoSave
    BY <1>2, <1>7 DEF SaveFails, Goto
  <2>2. CASE at = 0
    BY <1>3, <2>1, <2>2 DEF Saving, Loading
  <2>3. CASE at # 0
    BY <2>1, <2>3 DEF NoSave, SavedInv
  <2> QED
    BY <2>2, <2>3
<1>8. CASE SaveCut
  <2>1. faults' # << >> /\ saved' \in Cuts /\ kept' = kept /\ pc' = "done"
    BY <1>2, <1>8 DEF SaveCut, Goto
  <2>2. ~Saving' /\ ~Loading'
    BY <2>1 DEF Saving, Loading
  <2> QED
    BY <1>1, <2>1, <2>2, FileCut
<1>9. CASE LoadClose \/ LoadStops \/ LoadFails \/ LoadUnopened
  <2>1. UNCHANGED <<saved, kept>> /\ pc = "load" /\ pc' \in {"submit", "done"}
    BY <1>9, Zenon DEF LoadClose, LoadStops, LoadFails, LoadUnopened, Goto
  <2>2. ~Saving /\ ~Saving' /\ ~Loading'
    BY <2>1 DEF Saving, Loading
  <2> QED
    BY <1>3, <2>1, <2>2
<1>10. CASE FreeResources
  <2>1. UNCHANGED <<saved, kept>> /\ ~Saving /\ ~Saving' /\ ~Loading'
    BY <1>10 DEF FreeResources, Exit, Goto, Saving, Loading
  <2> QED
    BY <1>3, <2>1
<1>11. CASE Dies
  <2>1. kept' = kept /\ ~Saving' /\ ~Loading'
    BY <1>11 DEF Dies, Exit, Goto, Saving, Loading
  <2>2. pc = "save" => faults' # << >>
    BY <1>2, <1>11 DEF Dies
  <2>3. IF Saving THEN saved' \in Cuts ELSE saved' = saved
    BY <1>11 DEF Dies, Saving
  <2>4. CASE Saving
    BY <1>1, <2>1, <2>2, <2>3, <2>4, FileCut DEF Saving
  <2>5. CASE ~Saving
    BY <1>3, <2>1, <2>3, <2>5
  <2> QED
    BY <2>4, <2>5
<1>12. CASE SaveEntry \/ SaveLost \/ LoadEntry \/ LoadCut
  BY <1>1, <1>2, <1>12, SaveGoesOn, LoadGoesOn
<1>13. CASE SaveOpen \/ SavePart \/ SaveClose \/ LoadOpen
  BY <1>1, <1>13, SaveOpens, SaveBreaks, SaveCloses, LoadOpens
<1> QED
  BY <1>4, <1>5, <1>6, <1>7, <1>8, <1>9, <1>10, <1>11, <1>12, <1>13 DEF Next, Save, Load

(* What a program that restored a form sees.                               *)
RestoredInv ==
  Faithful /\ pc = "submit" /\ loaded =>
    /\ Len(entries) <= Len(kept.form)
    /\ \A i \in DOMAIN entries : AsSaved(Form[i], kept.form[i])
    /\ faults = << >> => Len(entries) = Len(kept.form)

(* Nothing more can be read: without a fault every field was.              *)
LEMMA LoadCloses ==
  ASSUME TextInv, ProgramInv, SavedInv, Remains, faults' = << >> => faults = << >>,
         \A kind : Fault(kind) => faults' # << >> /\ Happened({kind})',
         LoadClose \/ LoadStops
  PROVE  RestoredInv'
<1>1. SUFFICES ASSUME Faithful'
               PROVE  /\ Len(entries') <= Len(kept'.form)
                      /\ \A i \in DOMAIN entries' : AsSaved(Form[i], kept.form[i])'
                      /\ faults' = << >> => Len(entries') = Len(kept'.form)
  BY Zenon DEF RestoredInv
<1>2. /\ pc = "load" /\ at > 0 /\ UNCHANGED <<entries, files, kept>>
      /\ faults' = << >> => ~ReadString[at].ok
  BY DEF LoadClose, LoadStops, formVars
<1>3. Form' = Form
  BY <1>2 DEF Form, Content
<1>4. /\ kept.form \in Seq(FieldShape) /\ Len(entries) \in Nat /\ Len(kept.form) \in Nat
      /\ DOMAIN entries = 1..Len(entries)
  BY DEF TextInv, DiskText, FormText
<1>5. Faithful /\ Loading /\ saved.exists /\ ~Saving
  BY <1>1, <1>2 DEF Faithful, DistinctNames, Saving, Loading, ProgramInv
<1>6. PICK D, W, pos, k, m : OnDisk(D, W, pos, k, m) /\ Progress(D, pos, k, m)
  BY <1>5 DEF SavedInv
<1>7. /\ D \in Seq(Nat) /\ m \in 0..Len(D) /\ saved.data = SubSeq(D, 1, m)
      /\ k \in 0..Len(W) /\ pos \in [1..k + 1 -> Nat \ {0}]
      /\ \A i \in 1..k : FieldAt(D, pos[i], pos[i + 1], W[i])
      /\ W \in Seq(FieldShape) /\ Len(W) = Len(kept.form)
  BY <1>6 DEF OnDisk, Layout, Written
<1>8. /\ Len(entries) <= k /\ at = pos[Len(entries) + 1]
      /\ \A i \in DOMAIN entries : AsSaved(Form[i], kept.form[i])
      /\ faults = << >> => k = Len(kept.form) /\ m = Len(D)
  BY <1>5, <1>6, Zenon DEF Progress
<1>9. ASSUME faults' = << >>, Len(entries) # Len(kept.form) PROVE FALSE
  <2>1. PICK n \in Nat : n = Len(entries) /\ n + 1 \in 1..k /\ n + 1 \in 1..Len(W)
                         /\ n + 1 \in 1..k + 1
    <3>1. k = Len(W) /\ Len(entries) < k
      <4>1. k = Len(W) /\ Len(entries) <= k /\ Len(entries) # Len(W)
        BY <1>7, <1>8, <1>9, Zenon
      <4>2. Len(entries) \in Nat /\ Len(W) \in Nat
        BY <1>4, <1>7, Zenon
      <4> QED
        BY ONLY <4>1, <4>2
    <3>2. PICK n : n = Len(entries)
      OBVIOUS
    <3>3. n \in Nat /\ n + 1 \in 1..k /\ n + 1 \in 1..Len(W) /\ n + 1 \in 1..k + 1
      BY <1>4, <1>7, <3>1, <3>2
    <3> QED
      BY <3>2, <3>3
  <2>2. PICK f : f = W[n + 1] /\ f \in FieldShape
    BY <1>7, <2>1
  <2>3. FieldAt(D, at, pos[n + 1 + 1], f) /\ at \in Nat \ {0} /\ f.attr \in Seq(Nat)
    BY <1>7, <1>8, <2>1, <2>2 DEF FieldShape
  <2>4. StringAt(D, at, f.attr)
    BY <2>3, Zenon DEF FieldAt
  <2>5. ~(at + 3 + Len(f.attr) <= m)
    BY <1>2, <1>7, <1>9, <2>3, <2>4, ReadsString
  <2>6. at + 3 + Len(f.attr) <= Len(D)
    BY <2>4, Zenon DEF StringAt
  <2> QED
    BY <1>8, <1>9, <2>5, <2>6
<1>10. \A i \in DOMAIN entries' : AsSaved(Form[i], kept.form[i])'
  <2> TAKE i \in DOMAIN entries'
  <2>1. PICK g1, g2 : g1 = Form[i] /\ g1 = Form'[i] /\ g2 = kept.form[i] /\ g2 = kept'.form[i]
    BY <1>2, <1>3
  <2>2. AsSaved(g1, g2)'
    BY <1>2, <1>8, <2>1, WrittenStays
  <2> QED
    BY <2>1, <2>2, Zenon DEF AsSaved
<1>11. Len(entries') <= Len(kept'.form)
  BY <1>2, <1>4, <1>7, <1>8
<1> QED
  BY <1>2, <1>9, <1>10, <1>11

(* Only restoring leads to a program that restored.                        *)
LEMMA RestoredStep ==
  ASSUME ReaderInv, TextInv, ProgramInv, SavedInv, Next
  PROVE  RestoredInv'
<1>1. CASE LoadClose \/ LoadStops
  <2>1. Remains
    BY FaultsStay, Zenon DEF Remains
  <2> QED
    BY <1>1, <2>1, NoFaultBefore, LoadCloses
<1>2. CASE ~LoadClose /\ ~LoadStops
  <2>1. ~(pc' = "submit" /\ loaded')
    <3>1. CASE Parse
      BY <3>1, ParseGoes
    <3>2. CASE Main
      BY <3>2 DEF Main, ProgramInv
    <3>3. CASE Arrive \/ HandleSubmit \/ Save \/ FreeResources \/ Dies
      BY <3>3 DEF Arrive, HandleSubmit, Save, SaveOpen, SaveEntry, SaveLost, SavePart,
                  SaveClose, SaveFails, SaveCut, FreeResources, Dies, Exit, Goto
    <3>4. CASE Load
      <4>1. pc = "load" /\ pc' \in {pc, "done"}
        BY <1>2, <3>4, Zenon DEF Load, LoadOpen, LoadEntry, LoadCut, LoadFails, LoadUnopened,
           Goto
      <4> QED
        BY <4>1
    <3> QED
      BY <3>1, <3>2, <3>3, <3>4 DEF Next
  <2> QED
    BY <2>1 DEF RestoredInv
<1> QED
  BY <1>1, <1>2

RestoreInv == TextInv /\ PlainInv /\ ProgramInv /\ SavedInv /\ RestoredInv

(* At first nothing is saved ...                                           *)
LEMMA RestoreInit ==
  ASSUME Init
  PROVE  RestoreInv
<1>1. ProgramInv
  BY DEF Init, ProgramInv, Saving, Loading, Reading
<1>2. SavedInv
  BY DEF Init, SavedInv, NoSave
<1>3. RestoredInv
  BY DEF Init, RestoredInv
<1>4. PlainInv
  BY DEF Init, PlainInv, PlainForm
<1> QED
  BY <1>1, <1>2, <1>3, <1>4, TextInit DEF RestoreInv

(* ... and every step keeps what is known of the saved file.               *)
LEMMA RestoreStep ==
  ASSUME IInv, RestoreInv, [Next]_vars
  PROVE  RestoreInv'
<1>1. CASE Next
  <2>1. TextInv'
    BY <1>1, TextStep, Zenon DEF IInv, RestoreInv
  <2>2. ProgramInv'
    BY <1>1, ProgramStep, Zenon DEF RestoreInv
  <2>3. SavedInv'
    BY <1>1, <2>1, SavedStep, Zenon DEF IInv, RestoreInv
  <2>4. RestoredInv'
    BY <1>1, RestoredStep, Zenon DEF IInv, RestoreInv
  <2>5. PlainInv'
    BY <1>1, PlainStep, Zenon DEF IInv, RestoreInv
  <2> QED
    BY <2>1, <2>2, <2>3, <2>4, <2>5, Zenon DEF RestoreInv
<1>2. CASE UNCHANGED vars
  <2>1. UNCHANGED <<req, pc, line, part, entries, files, faults, env, saved, at, kept, loaded>>
    BY <1>2 DEF vars, multipartVars
  <2>2. /\ Form' = Form /\ (FilesWhole' <=> FilesWhole)
        /\ (Saving' <=> Saving) /\ (Loading' <=> Loading)
    BY <2>1 DEF Form, Content, FilesWhole, Saving, Loading
  <2>3. (Faithful' <=> Faithful) /\ \A kinds : Happened(kinds)' <=> Happened(kinds)
    BY <2>1 DEF Faithful, DistinctNames, Happened
  <2>4. TextInv'
    BY <2>1 DEF RestoreInv, TextInv, HeldText, FormText, ProcessText, DiskText
  <2>5. ProgramInv'
    BY <2>1, <2>2 DEF RestoreInv, ProgramInv
  <2>6. /\ \A W : Written(W) => Written(W)'
        /\ \A g, f : AsSaved(g, f) => AsSaved(g, f)'
    <3>1. Remains
      BY <2>3, Zenon DEF Remains
    <3> QED
      BY <2>1, <3>1, WrittenStays
  <2>7. \A i : AsSaved(Form[i], kept.form[i]) => AsSaved(Form[i], kept.form[i])'
    <3> TAKE i
    <3>1. PICK g1, g2 : g1 = Form[i] /\ g1 = Form'[i] /\ g2 = kept.form[i] /\ g2 = kept'.form[i]
      BY <2>1, <2>2
    <3>2. AsSaved(g1, g2) => AsSaved(g1, g2)'
      BY <2>6, Zenon
    <3> QED
      BY <3>1, <3>2, Zenon DEF AsSaved
  <2>8. SavedInv'
    <3>1. SavedInv
      BY DEF RestoreInv
    <3>2. \A D, W, pos, k, m : OnDisk(D, W, pos, k, m) => OnDisk(D, W, pos, k, m)'
      BY <2>1, <2>6, Zenon DEF OnDisk
    <3>3. \A D, pos, k, m : Progress(D, pos, k, m) => Progress(D, pos, k, m)'
      <4> TAKE D, pos, k, m
      <4>1. /\ (Saving' <=> Saving) /\ (Loading' <=> Loading)
            /\ at' = at /\ faults' = faults /\ kept' = kept /\ entries' = entries
        BY <2>1, <2>2
      <4> QED
        BY <2>7, <4>1, Zenon DEF Progress
    <3> QED
      BY ONLY <2>1, <2>3, <3>1, <3>2, <3>3, Zenon DEF SavedInv
  <2>9. RestoredInv'
    BY <2>1, <2>3, <2>7, Zenon DEF RestoreInv, RestoredInv
  <2>10. PlainInv'
    BY <2>1 DEF RestoreInv, PlainInv
  <2> QED
    BY <2>4, <2>5, <2>8, <2>9, <2>10, Zenon DEF RestoreInv
<1> QED
  BY <1>1, <1>2

(* What was saved comes back: as it was if nothing failed, a beginning of  *)
(* it otherwise.                                                           *)
LEMMA RestoredFact ==
  ASSUME TextInv, RestoredInv
  PROVE  RestoredIsSaved
<1>1. SUFFICES ASSUME pc = "submit", loaded, DistinctNames(kept.form), kept.whole
               PROVE  /\ Len(Form) <= Len(kept.form)
                      /\ \A i \in DOMAIN Form : AsSaved(Form[i], kept.form[i])
                      /\ faults = << >> => Form = kept.form
  BY DEF RestoredIsSaved
<1>2. /\ Len(entries) <= Len(kept.form)
      /\ \A i \in DOMAIN entries : AsSaved(Form[i], kept.form[i])
      /\ faults = << >> => Len(entries) = Len(kept.form)
  BY <1>1 DEF RestoredInv, Faithful
<1>3. /\ Form \in Seq(FieldShape) /\ kept.form \in Seq(FieldShape)
      /\ Len(Form) = Len(entries) /\ DOMAIN Form = DOMAIN entries
  BY FormIsText DEF TextInv, DiskText
<1>4. ASSUME faults = << >> PROVE Form = kept.form
  <2>1. ~Happened({"open", "cut"})
    BY <1>4 DEF Happened, ToSet
  <2>2. \A i \in DOMAIN Form : Form[i] = kept.form[i]
    BY <1>2, <1>3, <2>1, Zenon DEF AsSaved
  <2>3. PICK F, K, S : F = Form /\ K = kept.form /\ F \in Seq(S) /\ K \in Seq(S)
                       /\ Len(F) = Len(K) /\ \A i \in DOMAIN F : F[i] = K[i]
    BY <1>2, <1>3, <1>4, <2>2, Zenon
  <2>4. F = K
    BY ONLY <2>3
  <2> QED
    BY <2>3, <2>4, Zenon
<1> QED
  BY <1>2, <1>3, <1>4

(* A form whose fields have different names and whose files were whole     *)
(* when it was saved comes back from the saved file exactly as it was if   *)
(* nothing failed.  Otherwise a program that goes on with it sees its      *)
(* first fields, each as it was saved, or an upload with less of it: with  *)
(* nothing if its file could not be opened when it was saved, with a       *)
(* beginning if the disk was full when it was restored.                    *)
THEOREM RestoredCorrect == Spec => []RestoredIsSaved
<1>1. Init /\ IInv => RestoreInv
  BY RestoreInit
<1>2. IInv /\ RestoreInv /\ [Next]_vars => RestoreInv'
  BY RestoreStep
<1>3. RestoreInv => RestoredIsSaved
  BY RestoredFact DEF RestoreInv
<1> QED
  BY <1>1, <1>2, <1>3, Inductive, PTL DEF Spec

(* Neither it nor what it relies on depends on the rest of the request.    *)
LEMMA SpaceFact ==
  ASSUME TextInv, PlainInv
  PROVE  SpaceSuffices
<1>1. entries \in Seq(EntryShape)
  BY DEF TextInv, FormText
<1>2. DOMAIN entries = 1..Len(entries)
  BY <1>1
<1>3. \A i \in 1..Len(entries) : PlainEntry(entries[i])
  BY <1>2, Zenon DEF PlainInv, PlainForm
<1>4. \A name \in {e.attr : e \in ToSet(entries)} : Found(entries, name)
  BY Zenon DEF ToSet, Found
<1> QED
  BY <1>1, <1>3, <1>4, SpaceEnough, Zenon DEF SpaceSuffices

(* A program that asks for the space a field needs gets the whole of it,   *)
(* the same text that it gets when it asks for all fields of that name; a  *)
(* smaller buffer holds a beginning of it and is reported as truncated.    *)
THEOREM SpaceCorrect == Spec => []SpaceSuffices
<1>1. Init /\ IInv => RestoreInv
  BY RestoreInit
<1>2. IInv /\ RestoreInv /\ [Next]_vars => RestoreInv'
  BY RestoreStep
<1>3. RestoreInv => SpaceSuffices
  BY SpaceFact DEF RestoreInv
<1> QED
  BY <1>1, <1>2, <1>3, Inductive, PTL DEF Spec

(* The choices of the test program are different words without line ends.  *)
LEMMA VotesFit == ChoicesFit(VoteChoices)
<1>1. PICK a, b, c, d : a = <<65>> /\ b = <<66>> /\ c = <<67>> /\ d = <<68>>
  OBVIOUS
<1>2. /\ a \in Seq(Nat) /\ b \in Seq(Nat) /\ c \in Seq(Nat) /\ d \in Seq(Nat)
      /\ Len(a) = 1 /\ Len(b) = 1 /\ Len(c) = 1 /\ Len(d) = 1
      /\ a[1] = 65 /\ b[1] = 66 /\ c[1] = 67 /\ d[1] = 68
  BY <1>1
<1>3. PICK V : V = <<a, b, c, d>>
  OBVIOUS
<1>4. V = VoteChoices
  BY <1>1, <1>3 DEF VoteChoices
<1>5. /\ V \in Seq(Seq(Nat)) /\ Len(V) = 4
      /\ V[1] = a /\ V[2] = b /\ V[3] = c /\ V[4] = d
  BY <1>2, <1>3
<1>6. \A i : i \in 1..Len(V) <=> i \in {1, 2, 3, 4}
  BY <1>5
<1>7. \A i \in 1..Len(V) : Len(V[i]) = 1 /\ V[i][1] = 64 + i
  BY <1>2, <1>5, <1>6
<1>8. \A i, j \in 1..Len(V) : V[i] = V[j] => i = j
  <2> SUFFICES ASSUME NEW i \in 1..Len(V), NEW j \in 1..Len(V), V[i] = V[j] PROVE i = j
    OBVIOUS
  <2>1. 64 + i = 64 + j
    BY <1>7, Zenon
  <2> QED
    BY <1>5, <2>1
<1>9. \A i \in 1..Len(V) : \A j \in 1..Len(V[i]) : V[i][j] \notin {CR, LF}
  <2> TAKE i \in 1..Len(V)
  <2> TAKE j \in 1..Len(V[i])
  <2>1. j = 1
    <3>1. Len(V[i]) = 1
      BY <1>7, Zenon
    <3>2. j \in 1..1
      BY <3>1, Zenon
    <3> QED
      BY <3>2
  <2>2. V[i][j] = 64 + i
    BY <1>7, <2>1, Zenon
  <2>3. 64 + i # 13 /\ 64 + i # 10
    BY <1>5
  <2> QED
    BY <2>2, <2>3, Zenon DEF CR, LF
<1>10. ChoicesFit(V)
  BY <1>5, <1>8, <1>9, Zenon DEF ChoicesFit
<1> QED
  BY <1>4, <1>10, Zenon

(* Whatever the entries are, the answers about them agree.                 *)
LEMMA AnswersFact ==
  ASSUME TextInv, PlainInv
  PROVE  AnswersAgree
<1>1. PICK v : v = entries
  OBVIOUS
<1>2. v \in Seq(EntryShape)
  BY <1>1 DEF TextInv, FormText
<1>3. AllPlain(v)
  <2>1. DOMAIN v = 1..Len(v)
    BY <1>2
  <2> QED
    BY <1>1, <2>1, Zenon DEF PlainInv, PlainForm, AllPlain
<1>4. /\ Shown.names = FormEntries(v)
      /\ Shown.votes.counted = FormSelectMultiple(v, Vote, VoteChoices).chosen
      /\ Shown.votes.named = FormStringMultiple(v, Vote)
  BY <1>1 DEF Shown, Page, EntriesShown, VotesShown, FormCheckboxMultiple
<1>5. PICK A, h : h = FormEntries(v) /\ EachOnce(h, A, v)
  BY <1>2, EachNameOnce, Zenon
<1>6. AllFound(h, v)
  BY <1>2, <1>5, NothingLeft, Zenon
<1>7. FormSelectMultiple(v, Vote, VoteChoices).chosen
        = {i \in DOMAIN VoteChoices : VoteChoices[i] \in ToSet(FormStringMultiple(v, Vote))}
  BY <1>2, <1>3, VotesFit, ChosenAgree, Zenon
<1>8. /\ ToSet(Shown.names) = {e.attr : e \in ToSet(entries)}
      /\ Len(Shown.names) = Cardinality(ToSet(Shown.names))
  BY <1>1, <1>4, <1>5, Zenon DEF EachOnce
<1>9. Len(entries) = Len(FlattenSeq([i \in DOMAIN Shown.names |->
                                       FormStringMultiple(entries, Shown.names[i])]))
  BY <1>1, <1>4, <1>5, <1>6, Zenon DEF AllFound
<1>10. Shown.votes.counted = {i \in DOMAIN VoteChoices : VoteChoices[i] \in ToSet(Shown.votes.named)}
  BY <1>4, <1>7, Zenon
<1> QED
  BY <1>8, <1>9, <1>10, Zenon DEF AnswersAgree

(* What the page says about the form agrees: cgiFormEntries names every    *)
(* name of an entry once, asking for all texts of each of these names      *)
(* finds every entry, and the votes that are counted are those that are    *)
(* listed.                                                                 *)
THEOREM AnswersCorrect == Spec => []AnswersAgree
<1>1. Init /\ IInv => RestoreInv
  BY RestoreInit
<1>2. IInv /\ RestoreInv /\ [Next]_vars => RestoreInv'
  BY RestoreStep
<1>3. RestoreInv => AnswersAgree
  BY AnswersFact DEF RestoreInv
<1> QED
  BY <1>1, <1>2, <1>3, Inductive, PTL DEF Spec

(* The name and the address that the page shows hold no < and no >.        *)
NoMarkup == shown => {LT, GT} \cap (ToSet(Shown.address) \cup ToSet(Shown.name)) = {}

(* They are escaped texts.                                                 *)
LEMMA MarkupFact ==
  ASSUME TextInv
  PROVE  NoMarkup
<1>1. PICK v : v = entries
  OBVIOUS
<1>2. v \in Seq(EntryShape)
  BY <1>1 DEF TextInv, FormText
<1>3. Shown.address = AddressShown(v) /\ Shown.name = NameShown(v)
  BY <1>1 DEF Shown, Page
<1>4. AddressSpace \in Nat \ {0} /\ NameSpace \in Nat \ {0}
  BY PageAssumption
<1>5. PICK s \in Seq(Nat), t \in Seq(Nat) :
         /\ s = FormString(v, AddressField, AddressSpace).text
         /\ t = FormStringNoNewlines(v, NameField, NameSpace).text
  BY <1>2, <1>4, FormStringTyped, Zenon
<1>6. PICK a, n : /\ a \in Seq(Nat \ {LT, GT}) /\ n \in Seq(Nat \ {LT, GT})
                  /\ a = Shown.address /\ n = Shown.name
  <2>1. HtmlEscape(s) \in Seq(Nat \ {LT, GT}) /\ HtmlEscape(t) \in Seq(Nat \ {LT, GT})
    BY Escaped
  <2> QED
    BY <1>3, <1>5, <2>1, Zenon DEF AddressShown, NameShown
<1>7. ToSet(a) \subseteq Nat \ {LT, GT} /\ ToSet(n) \subseteq Nat \ {LT, GT}
  BY <1>6 DEF ToSet
<1>8. {LT, GT} \cap (ToSet(a) \cup ToSet(n)) = {}
  BY <1>7
<1> QED
  BY <1>6, <1>8, Zenon DEF NoMarkup

(* Whatever is typed into the name and the address, however it is cut and  *)
(* whether the form comes from the browser or from a saved file, the page  *)
(* holds no tag made of it: part of TypedIsShown, for every text.          *)
THEOREM MarkupCorrect == Spec => []NoMarkup
<1>1. Init /\ IInv => RestoreInv
  BY RestoreInit
<1>2. IInv /\ RestoreInv /\ [Next]_vars => RestoreInv'
  BY RestoreStep
<1>3. RestoreInv => NoMarkup
  BY MarkupFact DEF RestoreInv
<1> QED
  BY <1>1, <1>2, <1>3, Inductive, PTL DEF Spec
=============================================================================
