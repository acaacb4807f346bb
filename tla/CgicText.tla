------------------------------- MODULE CgicText -------------------------------
(***************************************************************************)
(* The text handling of cgic, the library every CGI program of the page is *)
(* linked with: decoding of forms, cookies and header values, access to    *)
(* form entries, escaping.  All of it is pure: operators on texts.         *)
(*                                                                         *)
(* A text is a sequence of letters, numbered as in ASCII.  A letter from   *)
(* Word up stands for a whole word (the name of a field, "form-data").     *)
(* Buffers whose size is fixed in the library (1024) are taken as large    *)
(* enough; sizes a program chooses are parameters.                         *)
(***************************************************************************)
EXTENDS Integers, Sequences, SequencesExt, FiniteSetsExt

NUL == 0
TAB == 9
LF == 10
CR == 13
SP == 32
QUOTE == 34
PERCENT == 37
AMP == 38
PLUS == 43
DASH == 45
DOT == 46
COLON == 58
SEMI == 59
LT == 60
EQ == 61
GT == 62
HASH == 35
Word == 256

Whitespace == {TAB, LF, 11, 12, CR, SP}
Digit == 48..57
Alpha == 65..90 \cup 97..122
Alnum == Digit \cup Alpha \cup Word..2 * Word

-----------------------------------------------------------------------------
(* C strings.                                                              *)

(* The first position of s from p on whose letter is in S, or not in S;    *)
(* a position behind s if there is none.                                   *)
Seek(s, p, S) ==
  LET seek[from \in Nat] ==
        CHOOSE i \in from..Max({from, Len(s) + 1}) :
          /\ i <= Len(s) => s[i] \in S
          /\ \A j \in from..i - 1 : s[j] \notin S
  IN  seek[p]
Skip(s, p, S) ==
  LET skip[from \in Nat] ==
        CHOOSE i \in from..Max({from, Len(s) + 1}) :
          /\ i <= Len(s) => s[i] \notin S
          /\ \A j \in from..i - 1 : s[j] \in S
  IN  skip[p]

(* What a C program sees of a text: the part before the first NUL.         *)
CString(s) == SubSeq(s, 1, Seek(s, 1, {NUL}) - 1)

(* What fits in a buffer with its terminating NUL.                         *)
Fit(s, space) == SubSeq(s, 1, Min({Len(s), space - 1}))

ToLower(c) == IF c \in 65..90 THEN c + 32 ELSE c
StrEqNc(s, t) ==
  Len(s) = Len(t) /\ \A i \in DOMAIN s : ToLower(s[i]) = ToLower(t[i])
StrBeginsNc(s, t) == Len(s) >= Len(t) /\ StrEqNc(SubSeq(s, 1, Len(t)), t)

(* atoi.                                                                   *)
Atoi(s) ==
  LET p == Skip(s, 1, Whitespace)
      d == IF p <= Len(s) /\ s[p] \in {PLUS, DASH} THEN p + 1 ELSE p
      value == FoldLeft(LAMBDA n, c : 10 * n + c - 48, 0,
                        SubSeq(s, d, Skip(s, d, Digit) - 1))
  IN  IF p <= Len(s) /\ s[p] = DASH THEN -value ELSE value

-----------------------------------------------------------------------------
(* Decoding of a form submitted by GET, or by POST in the default encoding. *)

HexValue(c) == CASE c \in 48..57  -> c - 48
                 [] c \in 65..70  -> c - 55
                 [] c \in 97..102 -> c - 87
                 [] OTHER         -> 0

(* Mutant: the second letter behind a % is taken for the first.            *)
Unescaped_Swapped(s, p) == HexValue(s[p + 1]) + 16 * HexValue(s[p + 2])

(* The letter that a % at p and the two letters behind it stand for.       *)
Unescaped(s, p) == 16 * HexValue(s[p + 1]) + HexValue(s[p + 2])

(* cgiUnescapeChars; a % without two letters behind it ends the text.      *)
UnescapeChars(s) ==
  LET rest[p \in 1..Len(s) + 1] ==
        CASE p > Len(s) -> << >>
          [] p <= Len(s) /\ s[p] # PERCENT ->
               <<IF s[p] = PLUS THEN SP ELSE s[p]>> \o rest[p + 1]
          [] OTHER -> IF p + 2 > Len(s) THEN << >> ELSE <<Unescaped(s, p)>> \o rest[p + 3]
  IN  CString(rest[1])

(* No temporary file, and the name that uninitialised memory happens to    *)
(* hold.                                                                   *)
NoFile == 0
Junk == -1

FormEntry(attr, value) ==
  [attr |-> attr, value |-> value, valueLength |-> Len(value),
   fileName |-> << >>, contentType |-> << >>, tfile |-> NoFile]

(* The pairs of data, from position p on: a name ends at the first =, even *)
(* behind an &, and text without an = behind it is dropped.                *)
ParseFormInput(data) ==
  LET pairs[p \in 1..Len(data) + 1] ==
        LET eq  == Seek(data, p, {EQ})
            end == Seek(data, eq + 1, {AMP})
        IN  IF eq > Len(data) THEN << >>
            ELSE <<FormEntry(UnescapeChars(SubSeq(data, p, eq - 1)),
                             UnescapeChars(SubSeq(data, eq + 1, end - 1)))>>
                 \o (IF end > Len(data) THEN << >> ELSE pairs[end + 1])
  IN  pairs[1]

-----------------------------------------------------------------------------
(* Access to the entries of a form, a sequence in the order of the list.   *)

(* What FindFirst returns, and with it all that FindNext does.             *)
Found(entries, name) == \E i \in DOMAIN entries : entries[i].attr = name
First(entries, name) == entries[SelectInSeq(entries, LAMBDA e : e.attr = name)]
Find(entries, name) ==
  FlattenSeq([i \in DOMAIN entries |->
                IF entries[i].attr = name THEN <<entries[i]>> ELSE << >>])

(* Mutant: every CR and every LF counts.                                   *)
Newlines_Sum(burst) == burst.cr + burst.lf

(* A burst of CRs and LFs stands for the larger number of LFs.             *)
Newlines(burst) == Max({burst.cr, burst.lf})

(* cgiFormEntryString: the text that fits into max letters, its line ends  *)
(* made LFs or removed, and the result.                                    *)
CopyChar(b, c, avail, newlines) ==
  LET want  == IF newlines THEN Newlines(b) ELSE 0
      lfs   == Min({want, avail - Len(b.text)})
      text  == b.text \o [i \in 1..lfs |-> LF]
      flush == [b EXCEPT !.text = text, !.cr = 0, !.lf = 0, !.truncated = lfs < want]
  IN  IF b.truncated THEN b
      ELSE CASE c = CR  -> [b EXCEPT !.cr = @ + 1]
             [] c = LF  -> [b EXCEPT !.lf = @ + 1]
             [] c = NUL -> flush
             [] OTHER   -> IF Len(text) = avail THEN [flush EXCEPT !.truncated = TRUE]
                           ELSE [flush EXCEPT !.text = Append(@, c)]

EntryString(e, max, newlines) ==
  LET letters == Append(e.value, NUL)
      copy[i \in 0..Len(letters)] ==
        IF i = 0 THEN [text |-> << >>, cr |-> 0, lf |-> 0, truncated |-> FALSE]
        ELSE CopyChar(copy[i - 1], letters[i], max - 1, newlines)
      b == copy[Len(letters)]
  IN  [text |-> b.text,
       result |-> IF b.truncated THEN "Truncated"
                  ELSE IF b.text = << >> THEN "Empty" ELSE "Success"]

NotFound == [text |-> << >>, result |-> "NotFound"]

FormString(entries, name, max) ==
  IF Found(entries, name) THEN EntryString(First(entries, name), max, TRUE)
  ELSE NotFound

FormStringNoNewlines(entries, name, max) ==
  IF Found(entries, name) THEN EntryString(First(entries, name), max, FALSE)
  ELSE NotFound

(* Mutant: no room for the terminating NUL.                                *)
FormStringSpaceNeeded_NoNul(entries, name) ==
  IF Found(entries, name) THEN Len(First(entries, name).value) ELSE 1

FormStringSpaceNeeded(entries, name) ==
  IF Found(entries, name) THEN Len(First(entries, name).value) + 1 ELSE 1

FormStringMultiple(entries, name) ==
  LET hits == Find(entries, name)
  IN  [i \in DOMAIN hits |-> EntryString(hits[i], Len(hits[i].value) + 1, TRUE).text]

(* A file name or content type, cut to the space given; `none` says that   *)
(* the entry has none.                                                     *)
Label(s, space, none) ==
  [text |-> Fit(s, space),
   result |-> IF s = << >> THEN none
              ELSE IF Len(s) >= space THEN "Truncated" ELSE "Success"]

FormFileName(entries, name, space) ==
  IF Found(entries, name) THEN Label(First(entries, name).fileName, space, "NoFileName")
  ELSE NotFound

FormFileContentType(entries, name, space) ==
  IF Found(entries, name) THEN Label(First(entries, name).contentType, space, "NoContentType")
  ELSE NotFound

FormFileSize(entries, name) ==
  IF ~Found(entries, name) THEN [result |-> "NotFound", size |-> 0]
  ELSE IF First(entries, name).tfile = NoFile THEN [result |-> "NotAFile", size |-> 0]
  ELSE [result |-> "Success", size |-> First(entries, name).valueLength]

(* cgiFormFileOpen opens the file of the FIRST entry of that name; `files` *)
(* are those that can be opened now.  Where no memory is left its callers  *)
(* do what they do for a file that cannot be opened.                       *)
FormFileOpen(entries, name, files) ==
  IF ~Found(entries, name) THEN "NotFound"
  ELSE IF First(entries, name).tfile = NoFile THEN "NotAFile"
  ELSE IF First(entries, name).tfile \notin DOMAIN files THEN "IO"
  ELSE "Success"

(* What reading that file to its end yields.                               *)
FormFileRead(entries, name, files) == files[First(entries, name).tfile]

(* Numbers: `start` holds the letters a number may begin with.             *)
Number(entries, name, start, default) ==
  LET value == First(entries, name).value
      p == Skip(value, 1, {SP, LF, CR, TAB})
  IN  IF ~Found(entries, name) THEN [result |-> "NotFound", value |-> default]
      ELSE IF value = << >> THEN [result |-> "Empty", value |-> default]
      ELSE IF p > Len(value) \/ (p <= Len(value) /\ value[p] \notin start)
           THEN [result |-> "BadType", value |-> default]
      ELSE [result |-> "Success", value |-> Atoi(value)]

FormInteger(entries, name, default) ==
  Number(entries, name, Digit \cup {DASH, PLUS}, default)

(* Only the whole part of a double is modelled.                            *)
FormDouble(entries, name, default) ==
  Number(entries, name, Digit \cup {DASH, PLUS, DOT}, default)

Bounded(n, min, max) ==
  IF n.result # "Success" THEN n
  ELSE IF n.value < min THEN [n EXCEPT !.result = "Constrained", !.value = min]
  ELSE IF n.value > max THEN [n EXCEPT !.result = "Constrained", !.value = max]
  ELSE n

FormIntegerBounded(entries, name, min, max, default) ==
  Bounded(FormInteger(entries, name, default), min, max)

FormDoubleBounded(entries, name, min, max, default) ==
  Bounded(FormDouble(entries, name, default), min, max)

(* Choices: positions in the sequence `choices`, the first one that equals *)
(* the value counts.                                                       *)
ChoiceOf(value, choices) == SelectInSeq(choices, LAMBDA t : t = value)

FormSelectSingle(entries, name, choices, default) ==
  LET i == ChoiceOf(First(entries, name).value, choices)
  IN  CASE ~Found(entries, name) -> [result |-> "NotFound", choice |-> default]
        [] Found(entries, name) /\ i = 0 -> [result |-> "NoSuchChoice", choice |-> default]
        [] OTHER -> [result |-> "Success", choice |-> i]

FormSelectMultiple(entries, name, choices) ==
  LET hits == {ChoiceOf(e.value, choices) : e \in ToSet(Find(entries, name))}
  IN  [result  |-> IF hits \subseteq {0} THEN "NotFound" ELSE "Success",
       chosen  |-> hits \ {0},
       invalid |-> Len(SelectSeq(Find(entries, name),
                                 LAMBDA e : ChoiceOf(e.value, choices) = 0))]

FormCheckboxSingle(entries, name) ==
  IF Found(entries, name) THEN "Success" ELSE "NotFound"
FormCheckboxMultiple(entries, name, values) == FormSelectMultiple(entries, name, values)
FormRadio(entries, name, values, default) == FormSelectSingle(entries, name, values, default)

(* Mutant: a name that comes again at once is left out, one that comes     *)
(* again later is not.                                                     *)
FormEntries_Adjacent(entries) ==
  LET names == [i \in DOMAIN entries |-> entries[i].attr]
  IN  [k \in 1..Cardinality({i \in DOMAIN names : i = 1 \/ names[i] # names[i - 1]}) |->
         names[CHOOSE i \in DOMAIN names :
                 Cardinality({j \in 1..i : j = 1 \/ names[j] # names[j - 1]}) = k]]

(* cgiFormEntries: every name that no entry before has.                    *)
FormEntries(entries) ==
  FlattenSeq([i \in DOMAIN entries |->
                IF \E j \in 1..i - 1 : entries[j].attr = entries[i].attr THEN << >>
                ELSE <<entries[i].attr>>])

-----------------------------------------------------------------------------
(* Cookies: the Cookie header is a list of name=value, with a ; between.   *)

(* The cookie at p has exactly this name.  A cookie without an = that      *)
(* equals the name makes the library read past both strings (it compares   *)
(* the pointers with NUL); no browser sends one.                           *)
CookieHere(cookie, p, name) ==
  SubSeq(cookie, p, Min({Len(cookie), p + Len(name)})) = name \o <<EQ>>

CookieString(cookie, name, space) ==
  LET find[p \in 1..Len(cookie) + 1] ==
        LET v   == p + Len(name) + 1
            end == Seek(cookie, p, {SEMI})
            value == SubSeq(cookie, v, end - 1)
        IN  IF p > Len(cookie) THEN NotFound
            ELSE IF CookieHere(cookie, p, name)
            THEN [text |-> Fit(value, space),
                  result |-> IF Len(value) >= space THEN "Truncated" ELSE "Success"]
            ELSE IF end > Len(cookie) THEN NotFound
            ELSE find[Skip(cookie, end + 1, Whitespace)]
  IN  find[1]

CookieInteger(cookie, name, default) ==
  LET c == CookieString(cookie, name, 256)
  IN  [result |-> c.result, value |-> IF c.result = "Success" THEN Atoi(c.text) ELSE default]

(* The names of all cookies.                                               *)
CookieNames(cookie) ==
  LET names[p \in 1..Len(cookie) + 2] ==
        LET n   == Skip(cookie, p, Whitespace)
            eq  == Seek(cookie, n, {EQ})
            end == Seek(cookie, eq, {SEMI})
        IN  IF p > Len(cookie) THEN << >>
            ELSE (IF eq = n THEN << >> ELSE <<SubSeq(cookie, n, eq - 1)>>)
                 \o names[end + 1]
  IN  names[1]

(* Set-Cookie, as far as the next request gives it back.                   *)
HeaderCookieSet(name, value) == name \o <<EQ>> \o value

-----------------------------------------------------------------------------
(* Escaping on output.                                                     *)

HtmlEscapeChar(c) ==
  CASE c = LT  -> <<AMP, 108, 116, SEMI>>
    [] c = AMP -> <<AMP, 97, 109, 112, SEMI>>
    [] c = GT  -> <<AMP, 103, 116, SEMI>>
    [] OTHER   -> <<c>>
HtmlEscape(s) == FlattenSeq([i \in DOMAIN s |-> HtmlEscapeChar(s[i])])

ValueEscapeChar(c) == IF c = QUOTE THEN <<AMP, HASH, 51, 52, SEMI>> ELSE <<c>>
ValueEscape(s) == FlattenSeq([i \in DOMAIN s |-> ValueEscapeChar(s[i])])

-----------------------------------------------------------------------------
(* Header values:  value; name=value; name="value" ...                     *)

(* The value at p, in quotes or not, and the position of the ; behind it.  *)
ValueAt(s, p) ==
  IF p <= Len(s) /\ s[p] = QUOTE
  THEN LET q == Seek(s, p + 1, {QUOTE})
       IN  [text |-> SubSeq(s, p + 1, q - 1), next |-> Seek(s, q, {SEMI})]
  ELSE LET q == Seek(s, p, {SEMI})
       IN  [text |-> SubSeq(s, p, q - 1), next |-> q]

(* The parameters from the ; at p on, up to a malformed one.               *)
Arguments(s, start) ==
  LET args[p \in 1..Len(s) + 1] ==
        LET n   == Skip(s, p + 1, Whitespace)
            end == Skip(s, n, Alnum)
            eq  == Skip(s, end, Whitespace)
            v   == ValueAt(s, Skip(s, eq + 1, Whitespace))
        IN  IF p > Len(s) \/ eq > Len(s) THEN << >>
            ELSE IF s[eq] # EQ THEN << >>
            ELSE <<[name |-> SubSeq(s, n, end - 1), text |-> v.text]>> \o args[v.next]
  IN  args[start]

(* decomposeValue: the value and its parameters.                           *)
DecomposeValue(s) ==
  LET v == ValueAt(s, Skip(s, 1, Whitespace))
  IN  [value |-> v.text, args |-> Arguments(s, v.next)]

(* What the library keeps of a parameter: of several the last, of none an  *)
(* empty text.                                                             *)
Argument(d, name) ==
  LET i == SelectLastInSeq(d.args, LAMBDA a : StrEqNc(a.name, name))
  IN  IF i = 0 THEN << >> ELSE d.args[i].text

(* main's own search for the boundary parameter of the content type, which *)
(* ends at whitespace only.                                                *)
BoundaryOf(contentType, boundaryWord) ==
  LET key == <<boundaryWord, EQ>>
      semis == {i \in 1..Len(contentType) :
                  /\ contentType[i] = SEMI
                  /\ StrBeginsNc(SubSeq(contentType, Skip(contentType, i + 1, Whitespace),
                                        Len(contentType)), key)}
      from == Skip(contentType, Min(semis) + 1, Whitespace) + Len(key)
  IN  IF semis = {} THEN << >>
      ELSE SubSeq(contentType, from, Seek(contentType, from, Whitespace) - 1)
TypeOf(contentType) == SubSeq(contentType, 1, Seek(contentType, 1, {SEMI}) - 1)
=============================================================================
