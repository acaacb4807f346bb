------------------------------ MODULE CgicRequest ------------------------------
(***************************************************************************)
(* The life of a CGI program built on cgic: main reads the form, the       *)
(* program (cgictest.c or capture.c) shows it, saves the request in a file *)
(* or restores one it saved, and the library frees what it holds.          *)
(* Requests follow one another; the saved file and temporary files that    *)
(* were left behind stay on the disk.                                      *)
(***************************************************************************)
EXTENDS CgicMultipart, CgicPage

CONSTANTS
  FirstRequests,    \* what a browser may send first
  LaterRequests,    \* and afterwards
  MaxRequests,
  UrlEncoded, MultipartForm    \* the words of content types

(* A request as the server hands it over.  The form that was filled in, the *)
(* browser's cookies, and whether the body is whole are known to the        *)
(* properties only.                                                         *)
Text == Seq(Nat)
FormField == [name : Text, text : Text, fileName : Text, contentType : Text]
Requests ==
  [method : {"GET", "POST", "HEAD"}, length : Nat, body : Text,
   program : {"test", "capture"},
   env : [query : Text, contentType : Text, cookie : Text],
   form : Seq(FormField), jar : Seq([name : Text, value : Text]), whole : BOOLEAN]

(* The server passes on no more of a body than was declared.               *)
ASSUME RequestAssumption ==
  /\ MaxRequests \in Nat
  /\ \A r \in FirstRequests \cup LaterRequests :
       r \in Requests /\ Len(r.body) <= r.length

VARIABLES
  env,      \* the variables of the process that a saved request keeps
  shown,    \* whether it has shown the form
  saved,    \* the saved request: the file as it is on the disk
  at,       \* the entry to save next, or the position to load from
  kept,     \* the form as it was when it was saved, and whether its files
            \* were as long as the form says
  loaded,   \* whether this process restored a request
  served,   \* requests so far
  orphans   \* temporary files of processes that were killed or crashed

vars == <<req, pc, multipartVars, env, shown, saved, at, kept, loaded, served, orphans>>
formVars == <<stdin, mp, line, part, entries, files, faults>>

NoSave == [exists |-> FALSE, data |-> << >>]

(* Three strings stand for the twenty-one the library saves.               *)
SavedVars == <<"query", "contentType", "cookie">>
Version == <<67, 50, 46, 48>>

(* The form as a program sees it.                                          *)
Content(e) == IF e.tfile \in DOMAIN files THEN files[e.tfile] ELSE << >>
Form == [i \in DOMAIN entries |->
           [attr |-> entries[i].attr, value |-> entries[i].value,
            valueLength |-> entries[i].valueLength, fileName |-> entries[i].fileName,
            contentType |-> entries[i].contentType, content |-> Content(entries[i])]]
FilesWhole == \A e \in ToSet(entries) :
                e.tfile \in DOMAIN files => e.valueLength = Len(files[e.tfile])

NoRequest == [method |-> "HEAD", length |-> 0, body |-> << >>, program |-> "test",
              env |-> [v \in ToSet(SavedVars) |-> << >>], form |-> << >>,
              jar |-> << >>, whole |-> TRUE]

Init ==
  /\ req = NoRequest /\ pc = "idle" /\ stdin = << >> /\ mp = NewStream
  /\ line = NoLine /\ part = NewPart /\ entries = << >>
  /\ files = [f \in {} |-> << >>] /\ faults = << >>
  /\ env = NoRequest.env /\ shown = FALSE /\ saved = NoSave /\ at = 0
  /\ kept = [form |-> << >>, whole |-> TRUE] /\ loaded = FALSE /\ served = 0 /\ orphans = {}

(* The server starts a process, with the body on its standard input.  main *)
(* cuts the parameters off the content type, and takes the length of a     *)
(* query for that of the body.                                             *)
Arrive ==
  /\ pc = "idle" /\ served < MaxRequests
  /\ \E r \in IF served = 0 THEN FirstRequests ELSE LaterRequests :
       /\ req' = IF r.method = "GET" THEN [r EXCEPT !.length = Len(r.env.query)] ELSE r
       /\ stdin' = r.body
       /\ env' = [r.env EXCEPT !.contentType = TypeOf(@)]
  /\ served' = served + 1
  /\ Goto("start")
  /\ UNCHANGED <<mp, line, part, entries, files, faults, shown, saved, at, kept, loaded,
                 orphans>>

(* The process ends, and its memory with it.                               *)
Exit ==
  /\ Goto("idle")
  /\ req' = NoRequest /\ stdin' = << >> /\ env' = NoRequest.env
  /\ mp' = NewStream /\ line' = NoLine /\ part' = NewPart
  /\ entries' = << >> /\ shown' = FALSE /\ at' = 0 /\ loaded' = FALSE
  /\ UNCHANGED <<kept, served>>

-----------------------------------------------------------------------------
(* main: the form is read before cgiMain is called.                        *)

IsPost(word) == req.method = "POST" /\ StrEqNc(env.contentType, <<word>>)

ParseGet ==
  /\ pc = "start" /\ req.method = "GET"
  /\ entries' = ParseFormInput(env.query)
  /\ Goto("main")
  /\ UNCHANGED <<stdin, mp, line, part, files, faults>>

(* A body shorter than declared is an error.                               *)
ParsePost ==
  /\ pc = "start" /\ IsPost(UrlEncoded)
  /\ stdin' = SubSeq(stdin, req.length + 1, Len(stdin))
  /\ IF Len(stdin) < req.length THEN Goto("failed") /\ UNCHANGED entries
     ELSE Goto("main") /\ entries' = ParseFormInput(SubSeq(stdin, 1, req.length))
  /\ UNCHANGED <<mp, line, part, files, faults>>

ParseMultipart ==
  /\ pc = "start" /\ IsPost(MultipartForm)
  /\ part' = [NewPart EXCEPT !.first = TRUE, !.delim = Delimiter(TRUE)]
  /\ Goto(IF req.length = 0 THEN "main" ELSE "search")
  /\ UNCHANGED <<stdin, mp, line, entries, files, faults>>

ParseNothing ==
  /\ pc = "start" /\ req.method # "GET"
  /\ ~IsPost(UrlEncoded) /\ ~IsPost(MultipartForm)
  /\ Goto("main")
  /\ UNCHANGED formVars

ParseNoMemory ==
  /\ pc = "start" /\ (req.method = "GET" \/ IsPost(UrlEncoded))
  /\ Fault("parse")
  /\ Goto("failed")
  /\ UNCHANGED <<stdin, mp, line, part, entries, files>>

Parse ==
  /\ \/ ParseGet \/ ParsePost \/ ParseMultipart \/ ParseNothing \/ ParseNoMemory
     \/ MultipartStep
  /\ UNCHANGED <<req, env, shown, saved, at, kept, loaded, served, orphans>>

-----------------------------------------------------------------------------
(* cgiMain of cgictest.c and capture.c.                                    *)

Clicked(button) == FormCheckboxSingle(entries, button) = "Success"

(* The test restores a request first if that button was pressed, and then  *)
(* treats the restored form as if it had just been submitted.  Each names  *)
(* its own file, capture.c a path to be filled in; here both name one, as  *)
(* where what capture takes down is to be played back.                     *)
Main ==
  /\ pc = "main"
  /\ Goto(CASE req.program = "capture" -> "save"
            [] req.program = "test" /\ Clicked(LoadButton) -> "load"
            [] OTHER -> "submit")
  /\ UNCHANGED <<req, formVars, env, shown, saved, at, kept, loaded, served, orphans>>

HandleSubmit ==
  /\ pc = "submit"
  /\ IF Clicked(TestButton) \/ Clicked(SaveButton)
     THEN shown' = TRUE
     ELSE UNCHANGED shown
  /\ Goto(IF Clicked(SaveButton) THEN "save" ELSE "done")
  /\ UNCHANGED <<req, formVars, env, saved, at, kept, loaded, served, orphans>>

-----------------------------------------------------------------------------
(* cgiWriteEnvironment.  An int is four bytes, low byte first.             *)

WriteInt(n) == <<n % 256, n \div 256, 0, 0>>
WriteString(s) == WriteInt(Len(s)) \o s

SaveOpen ==
  /\ pc = "save" /\ at = 0
  /\ saved' = [exists |-> TRUE,
               data |-> WriteString(Version)
                        \o FlattenSeq([i \in DOMAIN SavedVars |->
                                         WriteString(env[SavedVars[i]])])
                        \o WriteInt(req.length)]
  /\ at' = 1
  /\ kept' = [form |-> Form, whole |-> FilesWhole]
  /\ UNCHANGED <<req, pc, formVars, env, shown, loaded, served, orphans>>

(* Mutant: saves the length of the value for that of the file.             *)
SavedEntry_ShortLength(e, disk) ==
  WriteString(e.attr) \o WriteString(e.value) \o WriteString(e.fileName)
  \o WriteString(e.contentType) \o WriteInt(Len(e.value))
  \o (IF FormFileOpen(entries, e.attr, disk) = "Success"
      THEN WriteInt(1) \o FormFileRead(entries, e.attr, disk)
      ELSE WriteInt(0))

(* The file is looked up by the name of the entry, and so is the first     *)
(* entry's of that name.                                                   *)
SavedEntry(e, disk) ==
  WriteString(e.attr) \o WriteString(e.value) \o WriteString(e.fileName)
  \o WriteString(e.contentType) \o WriteInt(e.valueLength)
  \o (IF FormFileOpen(entries, e.attr, disk) = "Success"
      THEN WriteInt(1) \o FormFileRead(entries, e.attr, disk)
      ELSE WriteInt(0))

SaveEntry ==
  /\ pc = "save" /\ at \in DOMAIN entries
  /\ saved' = [saved EXCEPT !.data = @ \o SavedEntry(entries[at], files)]
  /\ at' = at + 1
  /\ UNCHANGED <<req, pc, formVars, env, shown, kept, loaded, served, orphans>>

(* The file of an entry cannot be opened: it is saved as an entry that has *)
(* none, and no error is reported.                                         *)
SaveLost ==
  /\ pc = "save" /\ at \in DOMAIN entries
  /\ FormFileOpen(entries, entries[at].attr, files) = "Success"
  /\ Fault("open")
  /\ saved' = [saved EXCEPT !.data = @ \o SavedEntry(entries[at], [f \in {} |-> << >>])]
  /\ at' = at + 1
  /\ UNCHANGED <<req, pc, stdin, mp, line, part, entries, files, env, shown, kept,
                 loaded, served, orphans>>

(* Reading it stops early, which is taken for its end: fewer letters than  *)
(* its length are saved, and no error is reported.                         *)
SavePart ==
  /\ pc = "save" /\ at \in DOMAIN entries
  /\ FormFileOpen(entries, entries[at].attr, files) = "Success"
  /\ Fault("read")
  /\ LET file == First(entries, entries[at].attr).tfile IN
     \E n \in 0..Len(files[file]) - 1 :
       saved' = [saved EXCEPT !.data =
                   @ \o SavedEntry(entries[at], [files EXCEPT ![file] = SubSeq(@, 1, n)])]
  /\ kept' = [kept EXCEPT !.whole = FALSE]
  /\ at' = at + 1
  /\ UNCHANGED <<req, pc, stdin, mp, line, part, entries, files, env, shown,
                 loaded, served, orphans>>

SaveClose ==
  /\ pc = "save" /\ at = Len(entries) + 1
  /\ Goto("done")
  /\ UNCHANGED <<req, formVars, env, shown, saved, at, kept, loaded, served, orphans>>

(* The file cannot be created, or a write fails and it is removed.         *)
SaveFails ==
  /\ pc = "save"
  /\ Fault("write")
  /\ saved' = IF at = 0 THEN saved ELSE NoSave
  /\ Goto("done")
  /\ UNCHANGED <<req, stdin, mp, line, part, entries, files, env, shown, at, kept,
                 loaded, served, orphans>>

(* Part of a file.                                                         *)
Cuts == {[saved EXCEPT !.data = SubSeq(@, 1, n)] : n \in 0..Len(saved.data)}

(* The disk is full when the buffer is written out by fclose, whose result *)
(* is not looked at.                                                       *)
SaveCut ==
  /\ pc = "save" /\ at = Len(entries) + 1
  /\ Fault("flush")
  /\ saved' \in Cuts
  /\ Goto("done")
  /\ UNCHANGED <<req, stdin, mp, line, part, entries, files, env, shown, at, kept,
                 loaded, served, orphans>>

Save == \/ SaveOpen \/ SaveEntry \/ SaveLost \/ SavePart
        \/ SaveClose \/ SaveFails \/ SaveCut

-----------------------------------------------------------------------------
(* cgiReadEnvironment.                                                     *)

Huge == 65536

(* The int at p: its value and the position behind it; letters read as an  *)
(* int make a number larger than any file.                                 *)
ReadInt[p \in Nat] ==
  LET b == SubSeq(saved.data, p, p + 3)
  IN  IF p + 3 > Len(saved.data) THEN [ok |-> FALSE, value |-> 0, next |-> p + 4]
      ELSE [ok |-> TRUE, next |-> p + 4,
            value |-> IF b[3] = 0 /\ b[4] = 0 THEN b[1] + 256 * b[2] ELSE Huge]

(* The string at p, as a C program sees it.                                *)
ReadString[p \in Nat] ==
  LET n == ReadInt[p]
      ok == n.ok /\ n.next + n.value - 1 <= Len(saved.data)
  IN  [ok |-> ok, next |-> n.next + n.value,
       text |-> IF ok THEN CString(SubSeq(saved.data, n.next, n.next + n.value - 1))
                ELSE << >>]

(* The strings of the head one after the other, the version first.         *)
ReadHead ==
  LET head[i \in 0..Len(SavedVars)] ==
        IF i = 0 THEN ReadString[1]
        ELSE LET s == ReadString[head[i - 1].next]
             IN  [s EXCEPT !.ok = @ /\ head[i - 1].ok]
  IN  head

Unlinked(es) ==
  LET gone == {e.tfile : e \in ToSet(es)}
  IN  [f \in DOMAIN files \ gone |-> files[f]]

(* What the process holds is freed first.                                  *)
LoadOpen ==
  /\ pc = "load" /\ at = 0
  /\ entries' = << >>
  /\ files' = Unlinked(entries)
  /\ LET head == ReadHead
         length == ReadInt[head[Len(SavedVars)].next]
     IN  IF saved.exists /\ head[Len(SavedVars)].ok /\ length.ok /\ head[0].text = Version
         THEN /\ env' = [v \in ToSet(SavedVars) |->
                           head[CHOOSE i \in DOMAIN SavedVars : SavedVars[i] = v].text]
              /\ req' = [req EXCEPT !.length = length.value]
              /\ at' = length.next
              /\ UNCHANGED pc
         ELSE Goto("done") /\ UNCHANGED <<req, env, at>>
  /\ UNCHANGED <<stdin, mp, line, part, faults, shown, saved, kept, loaded, served, orphans>>

(* The fields of the entry at `at`.                                        *)
EntryRead ==
  LET attr  == ReadString[at]
      value == ReadString[attr.next]
      name  == ReadString[value.next]
      type  == ReadString[name.next]
      len   == ReadInt[type.next]
      flag  == ReadInt[len.next]
      end   == IF flag.value = 0 THEN flag.next ELSE flag.next + len.value
  IN  [ok   |-> value.ok /\ name.ok /\ type.ok /\ len.ok /\ flag.ok
                /\ end - 1 <= Len(saved.data),
       entry |-> [attr |-> attr.text, value |-> value.text, valueLength |-> len.value,
                  fileName |-> name.text, contentType |-> type.text, tfile |-> NoFile],
       isFile |-> flag.value # 0, next |-> end,
       content |-> SubSeq(saved.data, flag.next, Min({end - 1, Len(saved.data)}))]

(* One entry.  Without a file its tfileName is one byte nobody sets.       *)
LoadEntry ==
  /\ pc = "load" /\ at > 0 /\ ReadString[at].ok
  /\ LET r == EntryRead IN
     /\ r.ok
     /\ IF r.isFile
        THEN /\ NamesLeft
             /\ files' = With(FreshFile, r.content)
             /\ entries' = Append(entries, [r.entry EXCEPT !.tfile = FreshFile])
        ELSE /\ \E t \in {NoFile, Junk} :
                  entries' = Append(entries, [r.entry EXCEPT !.tfile = t])
             /\ UNCHANGED files
     /\ at' = r.next
  /\ UNCHANGED <<req, pc, stdin, mp, line, part, faults, env, shown, saved, kept,
                 loaded, served, orphans>>

(* The disk is full when the restored file is closed, which is not looked  *)
(* at: the file is short, and its entry says nothing of it.                *)
LoadCut ==
  /\ pc = "load" /\ at > 0 /\ ReadString[at].ok
  /\ Fault("cut")
  /\ LET r == EntryRead IN
     /\ r.ok /\ r.isFile /\ NamesLeft
     /\ \E n \in 0..Len(r.content) - 1 :
          files' = With(FreshFile, SubSeq(r.content, 1, n))
     /\ entries' = Append(entries, [r.entry EXCEPT !.tfile = FreshFile])
     /\ at' = r.next
  /\ UNCHANGED <<req, pc, stdin, mp, line, part, env, shown, saved, kept, loaded, served,
                 orphans>>

(* Mutant: a name that cannot be read is waited for.                       *)
LoadClose_Strict ==
  /\ pc = "load" /\ at > 0 /\ at = Len(saved.data) + 1
  /\ loaded' = TRUE
  /\ at' = 0
  /\ Goto("submit")
  /\ UNCHANGED <<req, formVars, env, shown, saved, kept, served, orphans>>

(* Where no further name can be read the list is complete.                 *)
LoadClose ==
  /\ pc = "load" /\ at > 0 /\ ~ReadString[at].ok
  /\ loaded' = TRUE
  /\ at' = 0
  /\ Goto("submit")
  /\ UNCHANGED <<req, formVars, env, shown, saved, kept, served, orphans>>

(* So it is for the library where there is one, but no memory for it or an *)
(* error in reading it: what was read until then is the form.              *)
LoadStops ==
  /\ pc = "load" /\ at > 0 /\ ReadString[at].ok
  /\ Fault("load")
  /\ loaded' = TRUE
  /\ at' = 0
  /\ Goto("submit")
  /\ UNCHANGED <<req, stdin, mp, line, part, entries, files, env, shown, saved, kept,
                 served, orphans>>

(* Anything else that cannot be read, no name for a file, or no memory: all *)
(* is freed, and the test exits.                                           *)
LoadFails ==
  /\ pc = "load"
  /\ \/ /\ at > 0 /\ ReadString[at].ok
        /\ EntryRead.ok => EntryRead.isFile /\ ~NamesLeft
        /\ UNCHANGED faults
     \/ Fault("load")
  /\ Goto("done")
  /\ entries' = << >>
  /\ files' = Unlinked(entries)
  /\ UNCHANGED <<req, stdin, mp, line, part, env, shown, saved, at, kept, loaded, served, orphans>>

(* The same if the new file has a name but cannot be opened; but that file *)
(* belongs to no entry yet, and stays.                                     *)
LoadUnopened ==
  /\ pc = "load" /\ at > 0 /\ ReadString[at].ok
  /\ EntryRead.isFile /\ NamesLeft
  /\ Fault("fopen")
  /\ Goto("done")
  /\ entries' = << >>
  /\ files' = LET left == Unlinked(entries)
              IN  [f \in DOMAIN left \cup {FreshFile} |->
                     IF f = FreshFile THEN << >> ELSE left[f]]
  /\ UNCHANGED <<req, stdin, mp, line, part, env, shown, saved, at, kept, loaded, served, orphans>>

Load == \/ LoadOpen \/ LoadEntry \/ LoadCut \/ LoadClose \/ LoadStops
        \/ LoadFails \/ LoadUnopened

-----------------------------------------------------------------------------
(* The end.                                                                *)

(* Mutant: frees the list but leaves the files.                            *)
FreeResources_KeepsFiles ==
  /\ pc \in {"done", "failed"}
  /\ Exit
  /\ UNCHANGED <<files, faults, saved, orphans>>

(* cgiFreeResources, and the process returns from main.                    *)
FreeResources ==
  /\ pc \in {"done", "failed"}
  /\ files' = Unlinked(entries)
  /\ Exit
  /\ UNCHANGED <<faults, saved, orphans>>

(* A crash, or the server kills the process: what it was saving may be on  *)
(* the disk in part.                                                       *)
Dies ==
  /\ \/ pc = "crashed" /\ UNCHANGED faults
     \/ pc \notin {"idle", "crashed"} /\ Fault("kill")
  /\ saved' \in IF pc = "save" /\ at > 0 THEN Cuts ELSE {saved}
  /\ Exit
  /\ orphans' = orphans \cup DOMAIN files
  /\ UNCHANGED files

Next == \/ Arrive \/ Parse \/ Main \/ HandleSubmit \/ Save \/ Load
        \/ FreeResources \/ Dies

Spec == Init /\ [][Next]_vars

(* A process that is not killed runs on.                                   *)
FairSpec == Spec /\ WF_vars(Parse \/ Main \/ HandleSubmit \/ Save \/ Load
                            \/ FreeResources \/ (pc = "crashed" /\ Dies))

-----------------------------------------------------------------------------
(* Properties.                                                             *)

Steps == {"idle", "start", "search", "eol", "part", "header", "cr", "body", "store",
          "main", "submit", "save", "load", "done", "failed", "crashed"}

Reading == {"search", "eol", "part", "header", "cr", "body", "store"}

(* Types; while a body is read the offset never passes the declared        *)
(* length, and no two entries share a temporary file.                      *)
TypeOK ==
  /\ pc \in Steps
  /\ DOMAIN files \subseteq TempFiles
  /\ mp.offset \in Int /\ (pc \in Reading => mp.offset <= req.length)
  /\ \A e \in ToSet(entries) : e.tfile \in TempFiles \cup {NoFile, Junk}
  /\ \A i, j \in DOMAIN entries :
       i # j /\ entries[i].tfile \in TempFiles => entries[i].tfile # entries[j].tfile
  /\ served \in 0..MaxRequests
  /\ Len(faults) <= MaxFaults

(* What the form holds when cgiMain is called, as the browser filled it    *)
(* in: line ends are sent as CR LF.                                        *)
Sent(s) == FlattenSeq([i \in DOMAIN s |-> IF s[i] = LF THEN <<CR, LF>> ELSE <<s[i]>>])
Submitted ==
  [i \in DOMAIN req.form |->
     LET f == req.form[i]
         isFile == f.fileName # << >>
     IN  [attr |-> f.name, value |-> IF isFile THEN << >> ELSE Sent(f.text),
          valueLength |-> IF isFile THEN Len(f.text) ELSE Len(Sent(f.text)),
          fileName |-> f.fileName, contentType |-> f.contentType,
          content |-> IF isFile THEN f.text ELSE << >>]]

(* A field as it was submitted.  An upload comes through with less if its  *)
(* file was written on a full disk: the length is that of the whole, the   *)
(* content a beginning.  If its file could not be opened, its content is   *)
(* the value, and the file is empty.                                       *)
AsSubmitted(field, sent) ==
  \/ field = sent
  \/ /\ Happened({"short"}) /\ sent.fileName # << >>
     /\ IsPrefix(field.content, sent.content)
     /\ field = [sent EXCEPT !.content = field.content]
  \/ /\ Happened({"fopen"}) /\ sent.fileName # << >>
     /\ field = [sent EXCEPT !.value = sent.content, !.content = << >>]

(* cgiMain sees the form that was filled in, whatever its fields hold and  *)
(* in either encoding; of one whose transfer broke off it sees the first   *)
(* fields, never one the transfer cut.  Every field is as it was submitted *)
(* but for an upload the disk had no room for, which cgiMain is given cut, *)
(* as if it were whole, and one whose file could not be opened.            *)
FormRead ==
  pc = "main" =>
    /\ Len(Form) <= Len(Submitted)
    /\ req.whole => Len(Form) = Len(Submitted)
    /\ \A i \in DOMAIN Form : AsSubmitted(Form[i], Submitted[i])

(* While a body is read no letter is lost or comes out of order: what was  *)
(* kept, what is taken for a boundary, what was put back and what is still *)
(* to be read are together the end of the message.                         *)
NothingLost ==
  pc = "search" /\ part.to # "nowhere"
    => IsSuffix(part.out \o SubSeq(part.delim, 1, part.matched) \o mp.putback \o stdin,
                req.body)

(* While a complete form is read mpRead never asks for more than the       *)
(* server has sent, although its offset runs behind: on a connection that  *)
(* is kept open it would wait forever.                                     *)
Wanted == CASE pc \in {"search", "header", "cr"} -> 1
            [] pc \in {"eol", "part"}            -> 2
            [] OTHER                             -> 0
WithinDeclared ==
  req.whole => Allowed(Wanted - Len(Fit(mp.putback, Wanted + 1))) <= Len(stdin)

(* Every field can be had whole with the space the library names, its      *)
(* strings are the first of those StringMultiple returns, and with less    *)
(* space it is a beginning of that, marked as truncated.                   *)
SpaceSuffices ==
  pc = "submit" =>
    \A name \in {e.attr : e \in ToSet(entries)} :
      LET space == FormStringSpaceNeeded(entries, name)
          whole == FormString(entries, name, space)
      IN  /\ whole.result # "Truncated"
          /\ whole.text = FormStringMultiple(entries, name)[1]
          /\ CR \notin ToSet(whole.text)
          /\ \A max \in 1..space :
               LET cut == FormString(entries, name, max)
               IN  /\ cut.text = Fit(whole.text, max)
                   /\ (cut.result = "Truncated") = (cut.text # whole.text)

(* The first text typed into a field of the form.                          *)
Typed(name) ==
  LET i == SelectInSeq(req.form, LAMBDA f : f.name = name)
  IN  IF i = 0 THEN << >> ELSE req.form[i].text

(* How a browser shows escaped text.                                       *)
Entities == << <<LT>>, <<GT>>, <<AMP>> >>
Rendered(s) ==
  LET show[p \in 1..Len(s) + 1] ==
        LET hit == SelectInSeq(Entities, LAMBDA t :
                     IsPrefix(HtmlEscapeChar(t[1]), SubSeq(s, p, Len(s)))
                     /\ Len(HtmlEscapeChar(t[1])) > 1)
        IN  IF p > Len(s) THEN << >>
            ELSE IF hit = 0 THEN <<s[p]>> \o show[p + 1]
            ELSE Entities[hit] \o show[p + Len(HtmlEscapeChar(Entities[hit][1]))]
  IN  show[1]

(* What the page shows of the form.                                        *)
Shown == Page(entries, files, env.cookie)

(* The name and the address that were typed are what the page shows: line  *)
(* ends come back as they were typed, or are gone where the program asked  *)
(* for that, the rest is cut at the end only, and no letter of these two   *)
(* acts as markup (the age and the votes are printed as they come).  Every *)
(* cookie is listed, with the value of the first one of its name.          *)
TypedIsShown ==
  shown /\ ~loaded =>
    /\ Rendered(Shown.address) = Fit(Typed(AddressField), AddressSpace)
    /\ Rendered(Shown.name) =
         Fit(SelectSeq(Typed(NameField), LAMBDA c : c # LF), NameSpace)
    /\ {LT, GT} \cap (ToSet(Shown.address) \cup ToSet(Shown.name)) = {}
    /\ Shown.cookies =
         [i \in DOMAIN req.jar |->
            <<req.jar[i].name,
              Fit(req.jar[SelectInSeq(req.jar, LAMBDA c : c.name = req.jar[i].name)].value,
                  TextSpace)>>]

(* The answers about one form agree: every name is listed once, the values *)
(* of all names are all entries, and a vote counts iff it is a candidate.  *)
AnswersAgree ==
  shown =>
    /\ ToSet(Shown.names) = {e.attr : e \in ToSet(entries)}
    /\ Len(Shown.names) = Cardinality(ToSet(Shown.names))
    /\ Len(entries) = Len(FlattenSeq([i \in DOMAIN Shown.names |->
                                        FormStringMultiple(entries, Shown.names[i])]))
    /\ Shown.votes.counted = {i \in DOMAIN VoteChoices :
                               VoteChoices[i] \in ToSet(Shown.votes.named)}

(* When no process runs no temporary file with anything in it is left,     *)
(* whatever ended the last one, but for those of a process that was killed *)
(* or crashed; an empty one is left only where a file was made and could   *)
(* then not be opened.                                                     *)
TempFilesGone ==
  pc = "idle" =>
    \A f \in DOMAIN files : f \in orphans \/ (Happened({"fopen"}) /\ files[f] = << >>)

(* A field as it was saved, or with less of its upload: with nothing if    *)
(* the file could not be opened when it was saved, with a beginning if the *)
(* disk was full when it was restored.                                     *)
AsSaved(field, was) ==
  \/ field = was
  \/ /\ Happened({"open", "cut"})
     /\ IsPrefix(field.content, was.content)
     /\ field = [was EXCEPT !.content = field.content]

(* A form comes back from the saved file as it was saved, or its first     *)
(* fields, even if the file was cut: never a field with the value of       *)
(* another, never text with less than was saved.  Only an upload may come  *)
(* back with less, and only where opening it failed when it was saved or   *)
(* the disk was full when it was restored; neither is reported.  Two kinds *)
(* of forms are excepted.  If two fields have one name both are saved with *)
(* the file of the first.  If a file is not as long as the form says (it   *)
(* came cut, it could not be opened, or reading it stopped early) what     *)
(* follows it is read as its rest.                                         *)
DistinctNames(form) ==
  \A i, j \in DOMAIN form : form[i].attr = form[j].attr => i = j
RestoredIsSaved ==
  pc = "submit" /\ loaded /\ DistinctNames(kept.form) /\ kept.whole
    => /\ Len(Form) <= Len(kept.form)
       /\ \A i \in DOMAIN Form : AsSaved(Form[i], kept.form[i])
       /\ faults = << >> => Form = kept.form

(* Every request ends.                                                     *)
RequestEnds == pc = "start" ~> pc = "idle"
=============================================================================
