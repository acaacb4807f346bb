----------------------------- MODULE CgicMultipart -----------------------------
(***************************************************************************)
(* The reader of multipart forms of cgic: one letter at a time it looks    *)
(* for the boundary, puts back what only looked like one, splits header    *)
(* lines, and keeps bodies in memory or in temporary files.                *)
(***************************************************************************)
EXTENDS CgicText

CONSTANTS
  TempFiles,     \* the names mkstemp chooses from
  MaxFaults,     \* faults that may happen
  FormData,      \* the words of header lines
  Disposition, TypeHeader, NameWord, FileNameWord, BoundaryWord

ASSUME MultipartAssumption ==
  /\ TempFiles \subseteq Nat \ {0}
  /\ MaxFaults \in Nat
  /\ \A w \in {FormData, Disposition, TypeHeader, NameWord, FileNameWord,
              BoundaryWord} : w >= Word

VARIABLES
  req,       \* the request the process was started for
  pc,        \* where the process is
  stdin,     \* what can still be read
  mp,        \* mpStream: the putback ring and the offset
  line,      \* the header line being read
  part,      \* the part being read
  entries,   \* the list of form entries
  files,     \* temporary files on the disk: a function from names to contents
  faults     \* the kinds of faults that happened so far

multipartVars == <<stdin, mp, line, part, entries, files, faults>>

NoLine == [attr |-> << >>, value |-> << >>, found |-> FALSE, skip |-> FALSE]
NewPart == [fvalue |-> << >>, fname |-> << >>, fileName |-> << >>, contentType |-> << >>,
            first |-> FALSE, delim |-> << >>, matched |-> 0, to |-> "nowhere", out |-> << >>, file |-> NoFile]
NewStream == [putback |-> << >>, offset |-> 0]

Goto(step) == pc' = step
Fault(kind) == /\ Len(faults) < MaxFaults
               /\ faults' = Append(faults, kind)
Happened(kinds) == ToSet(faults) \cap kinds # {}

-----------------------------------------------------------------------------
(* The stream.                                                             *)

(* How much of what is still wanted mpRead asks stdin for.                 *)
Allowed(wanted) == Min({wanted, req.length - mp.offset})

(* mpRead: first from the ring, the rest from stdin.  What comes from the  *)
(* ring alone does not move the offset forward, although PutBack moved it  *)
(* backward: it falls behind the true position.                            *)
Read(n) ==
  LET back  == Fit(mp.putback, n + 1)
      asked == Allowed(n - Len(back))
      fresh == SubSeq(stdin, 1, Min({asked, Len(stdin)}))
  IN  [got    |-> back \o fresh,
       stream |-> [putback |-> SubSeq(mp.putback, Len(back) + 1, Len(mp.putback)),
                   offset  |-> IF asked = 0 THEN mp.offset
                               ELSE mp.offset + Len(back) + Len(fresh)],
       rest   |-> SubSeq(stdin, Len(fresh) + 1, Len(stdin))]

(* mpPutBack: at the end of the ring, whatever is still in it.             *)
PutBack(stream, data) ==
  [putback |-> stream.putback \o data, offset |-> stream.offset - Len(data)]

-----------------------------------------------------------------------------
(* afterNextBoundary.                                                      *)

(* workingBoundary; before the first part no line end is expected.         *)
Delimiter(first) ==
  (IF first THEN << >> ELSE <<CR, LF>>) \o <<DASH, DASH>>
  \o BoundaryOf(req.env.contentType, BoundaryWord)

(* BAPPEND.                                                                *)
Emit(c) == IF part.to = "nowhere" THEN part ELSE [part EXCEPT !.out = Append(@, c)]

(* Mutant: forgets what it had taken for the beginning of a boundary.      *)
FalseMatch_Forgets(r) == PutBack(r.stream, r.got)

(* All but the first letter that matched, and the one that did not, are    *)
(* looked at again.                                                        *)
FalseMatch(r) == PutBack(r.stream, SubSeq(part.delim, 2, part.matched) \o r.got)

SearchByte ==
  /\ pc = "search"
  /\ LET r == Read(1) IN
     /\ r.got # << >>
     /\ stdin' = r.rest
     /\ \/ /\ r.got[1] = part.delim[part.matched + 1]
           /\ mp' = r.stream
           /\ part' = [part EXCEPT !.matched = @ + 1]
           /\ Goto(IF part.matched + 1 = Len(part.delim) THEN "eol" ELSE "search")
        \/ /\ r.got[1] # part.delim[part.matched + 1]
           /\ part.matched > 0
           /\ mp' = FalseMatch(r)
           /\ part' = [Emit(part.delim[1]) EXCEPT !.matched = 0]
           /\ UNCHANGED pc
        \/ /\ r.got[1] # part.delim[part.matched + 1]
           /\ part.matched = 0
           /\ mp' = r.stream
           /\ part' = Emit(r.got[1])
           /\ UNCHANGED pc
  /\ UNCHANGED <<line, entries, files, faults>>

(* Behind the boundary: a line end, or -- that is put back; anything else  *)
(* is swallowed.                                                           *)
SearchEnd ==
  /\ pc = "eol"
  /\ LET r == Read(2) IN
     /\ Len(r.got) = 2
     /\ stdin' = r.rest
     /\ mp' = IF r.got[1] = DASH THEN PutBack(r.stream, r.got) ELSE r.stream
  /\ Goto(IF part.first THEN "part" ELSE "store")
  /\ UNCHANGED <<line, part, entries, files, faults>>

Without(file) == [f \in DOMAIN files \ {file} |-> files[f]]
With(file, content) ==
  [f \in DOMAIN files \cup {file} |-> IF f = file THEN content ELSE files[f]]

(* No boundary before the end of the input: before the first part that is  *)
(* an empty form, later an error, for which an open file is removed.       *)
SearchFails ==
  /\ \/ pc = "search" /\ Read(1).got = << >>
     \/ pc = "eol" /\ Len(Read(2).got) < 2
  /\ IF part.first THEN Goto("main") /\ UNCHANGED files
     ELSE /\ Goto("failed")
          /\ files' = IF part.to = "file" THEN Without(part.file) ELSE files
  /\ part' = NewPart
  /\ UNCHANGED <<stdin, mp, line, entries, faults>>

(* Memory runs out while the body is collected; it is then freed twice,    *)
(* which a C library may or may not survive.                               *)
SearchNoMemory ==
  /\ pc = "search" /\ part.to = "memory"
  /\ Fault("body")
  /\ Goto("failed") \/ Goto("crashed")
  /\ part' = NewPart
  /\ UNCHANGED <<stdin, mp, line, entries, files>>

-----------------------------------------------------------------------------
(* cgiParsePostMultipartInput.                                             *)

(* Mutant: does not know the -- behind the last part.                      *)
NextPart_NoDashes ==
  /\ pc = "part"
  /\ LET r == Read(2) IN
     /\ stdin' = r.rest
     /\ IF Len(r.got) < 2
        THEN mp' = r.stream /\ Goto("main")
        ELSE mp' = PutBack(r.stream, r.got) /\ Goto("header")
  /\ part' = NewPart
  /\ line' = NoLine
  /\ UNCHANGED <<entries, files, faults>>

(* Two letters tell whether another part follows.                          *)
NextPart ==
  /\ pc = "part"
  /\ LET r == Read(2) IN
     /\ stdin' = r.rest
     /\ IF Len(r.got) < 2 \/ r.got = <<DASH, DASH>>
        THEN mp' = r.stream /\ Goto("main")
        ELSE mp' = PutBack(r.stream, r.got) /\ Goto("header")
  /\ part' = NewPart
  /\ line' = NoLine
  /\ UNCHANGED <<entries, files, faults>>

(* What a complete header line does to the part.                           *)
Headed(d) ==
  CASE StrEqNc(line.attr, <<Disposition>>) ->
         [part EXCEPT !.fvalue = d.value, !.fname = Argument(d, <<NameWord>>),
                      !.fileName = Argument(d, <<FileNameWord>>)]
    [] StrEqNc(line.attr, <<TypeHeader>>) -> [part EXCEPT !.contentType = d.value]
    [] OTHER -> part

(* A parameter of the disposition that is neither name nor filename makes  *)
(* decomposeValue write through a null pointer.                            *)
Crashes(d) ==
  /\ StrEqNc(line.attr, <<Disposition>>)
  /\ \E i \in DOMAIN d.args : /\ ~StrEqNc(d.args[i].name, <<NameWord>>)
                              /\ ~StrEqNc(d.args[i].name, <<FileNameWord>>)

(* The end of a line: one without a name or a value ends the header.       *)
HeaderLine ==
  LET d == DecomposeValue(line.value) IN
  /\ line' = NoLine
  /\ IF line.attr # << >> /\ line.value # << >>
     THEN IF Crashes(d) THEN Goto("crashed") /\ UNCHANGED part
          ELSE part' = Headed(d) /\ Goto("header")
     ELSE Goto("body") /\ UNCHANGED part

(* One letter of a header line, in readHeaderLine: the name without        *)
(* spaces up to a colon, the spaces behind it, the value.  Every further   *)
(* colon is dropped with the spaces behind it.                             *)
HeaderByte ==
  /\ pc = "header"
  /\ LET r == Read(1)
         c == r.got[1]
     IN  /\ r.got # << >>
         /\ stdin' = r.rest
         /\ mp' = IF line.skip /\ c \notin Whitespace THEN PutBack(r.stream, r.got)
                  ELSE r.stream
         /\ \/ /\ line.skip
               /\ line' = [line EXCEPT !.skip = c \in Whitespace]
               /\ UNCHANGED <<part, pc>>
            \/ /\ ~line.skip /\ c = CR
               /\ Goto("cr")
               /\ UNCHANGED <<part, line>>
            \/ ~line.skip /\ c = LF /\ HeaderLine
            \/ /\ ~line.skip /\ c \notin {CR, LF}
               /\ line' = IF c = COLON /\ line.attr # << >>
                          THEN [line EXCEPT !.found = TRUE, !.skip = TRUE]
                          ELSE IF line.found THEN [line EXCEPT !.value = Append(@, c)]
                          ELSE IF c \in Whitespace THEN line
                          ELSE [line EXCEPT !.attr = Append(@, c)]
               /\ UNCHANGED <<part, pc>>
  /\ UNCHANGED <<entries, files, faults>>

(* Behind a CR an LF belongs to the line end.                              *)
HeaderCR ==
  /\ pc = "cr"
  /\ LET r == Read(1) IN
     /\ stdin' = r.rest
     /\ mp' = IF r.got \in {<< >>, <<LF>>} THEN r.stream ELSE PutBack(r.stream, r.got)
  /\ HeaderLine
  /\ UNCHANGED <<entries, files, faults>>

HeaderEnds ==
  /\ pc = "header" /\ Read(1).got = << >>
  /\ Goto("body")
  /\ line' = NoLine
  /\ UNCHANGED <<stdin, mp, part, entries, files, faults>>

(* A part that is no form field is not skipped: the search for the next    *)
(* header goes on in its body.                                             *)
NotAField ==
  /\ pc = "body" /\ ~(part.fvalue = <<FormData>>)
  /\ Goto("part")
  /\ UNCHANGED multipartVars

Collect(to, file) ==
  part' = [part EXCEPT !.first = FALSE, !.delim = Delimiter(FALSE), !.matched = 0,
                       !.to = to, !.file = file, !.out = << >>]

(* Mutant: always the same name.                                           *)
FreshFile_Fixed == CHOOSE f \in TempFiles : TRUE

(* mkstemp: a name no file on the disk has, as long as there is one.       *)
NamesLeft == ~(TempFiles \subseteq DOMAIN files)
FreshFile == CHOOSE f \in TempFiles : f \notin DOMAIN files

(* A field goes to memory, an upload to a temporary file.                  *)
OpenBody ==
  /\ pc = "body" /\ part.fvalue = <<FormData>>
  /\ IF part.fileName = << >>
     THEN Collect("memory", NoFile) /\ UNCHANGED files
     ELSE /\ NamesLeft
          /\ Collect("file", FreshFile)
          /\ files' = With(FreshFile, << >>)
  /\ Goto("search")
  /\ UNCHANGED <<stdin, mp, line, entries, faults>>

(* mkstemp (at the latest when no name is left) or chmod fails, or only    *)
(* the fopen behind them, whose result is not tested: the upload then      *)
(* stays in memory beside its empty file.                                  *)
OpenBodyFails ==
  /\ pc = "body" /\ part.fvalue = <<FormData>> /\ part.fileName # << >>
  /\ \/ /\ IF NamesLeft THEN Fault("mkstemp") ELSE UNCHANGED faults
        /\ Goto("failed")
        /\ UNCHANGED <<part, files>>
     \/ /\ NamesLeft /\ Fault("fopen")
        /\ Collect("memory", FreshFile)
        /\ files' = With(FreshFile, << >>)
        /\ Goto("search")
  /\ UNCHANGED <<stdin, mp, line, entries>>

(* The entry the part becomes.  An upload has an empty value.              *)
PartEntry ==
  [attr |-> CString(part.fname),
   value |-> IF part.to = "file" THEN << >> ELSE CString(part.out),
   valueLength |-> Len(part.out), fileName |-> CString(part.fileName),
   contentType |-> CString(part.contentType), tfile |-> part.file]

Store ==
  /\ pc = "store"
  /\ entries' = Append(entries, PartEntry)
  /\ files' = IF part.to = "file" THEN [files EXCEPT ![part.file] = part.out] ELSE files
  /\ Goto("part")
  /\ UNCHANGED <<stdin, mp, line, part, faults>>

(* The disk is full: putc and fclose fail unnoticed, the file is short.    *)
StoreShort ==
  /\ pc = "store" /\ part.to = "file" /\ part.out # << >>
  /\ Fault("short")
  /\ entries' = Append(entries, PartEntry)
  /\ \E n \in 0..Len(part.out) - 1 :
       files' = [files EXCEPT ![part.file] = SubSeq(part.out, 1, n)]
  /\ Goto("part")
  /\ UNCHANGED <<stdin, mp, line, part>>

(* Memory runs out.  Before the entry is in the list everything is undone; *)
(* afterwards it is freed and stays in the list, and its file, closed      *)
(* already, is closed again: a crash, or by luck not.                      *)
StoreNoMemory ==
  /\ pc = "store"
  /\ files' = IF part.to = "file" THEN Without(part.file) ELSE files
  /\ \/ Fault("unlinked") /\ Goto("failed")
     \/ Fault("linked") /\ (Goto("failed") \/ Goto("crashed"))
  /\ part' = NewPart
  /\ UNCHANGED <<stdin, mp, line, entries>>

MultipartStep ==
  /\ \/ SearchByte \/ SearchEnd \/ SearchFails \/ SearchNoMemory
     \/ NextPart \/ HeaderByte \/ HeaderCR \/ HeaderEnds \/ NotAField
     \/ OpenBody \/ OpenBodyFails
     \/ Store \/ StoreShort \/ StoreNoMemory
  /\ UNCHANGED req
=============================================================================
