-------------------------------- MODULE MCCgic --------------------------------
(* Small instances of CgicRequest: the forms people fill in, as a browser    *)
(* sends them.                                                               *)
EXTENDS CgicRequest

X == 120
B == 66
URLENC == 400
MPFORM == 401
FDATA == 402
DISP == 403
CTYPE == 404
NAMEW == 405
FILEW == 406
BOUND == 407

(* What a browser makes of a form.                                           *)
Hex(n) == IF n < 10 THEN 48 + n ELSE 55 + n
Escaped(c) == CASE c = SP -> <<PLUS>>
                [] c >= Word \/ c \in Alpha \cup Digit -> <<c>>
                [] OTHER -> <<PERCENT, Hex(c \div 16), Hex(c % 16)>>
UrlText(s) == FlattenSeq([i \in DOMAIN Sent(s) |-> Escaped(Sent(s)[i])])
UrlField(f) == UrlText(f.name) \o <<EQ>> \o UrlText(f.text)
UrlForm(form) ==
  FlattenSeq([i \in DOMAIN form |-> UrlField(form[i])
                                    \o IF i < Len(form) THEN <<AMP>> ELSE << >>])

Quoted(s) == <<QUOTE>> \o s \o <<QUOTE>>
PartOf(f, eol) ==
  <<DASH, DASH, B, CR, LF, DISP, COLON, SP, FDATA, SEMI, SP, NAMEW, EQ>> \o Quoted(f.name)
  \o (IF f.fileName = << >> THEN eol
      ELSE <<SEMI, SP, FILEW, EQ>> \o Quoted(f.fileName) \o eol
           \o <<CTYPE, COLON, SP>> \o f.contentType \o eol)
  \o eol \o (IF f.fileName = << >> THEN Sent(f.text) ELSE f.text) \o <<CR, LF>>
MultipartBody(form, eol) ==
  FlattenSeq([i \in DOMAIN form |-> PartOf(form[i], eol)]) \o <<DASH, DASH, B, DASH, DASH, CR, LF>>

Jar == << [name |-> <<X, X>>, value |-> <<50, 50>>], [name |-> <<X>>, value |-> <<49>>],
          [name |-> <<X>>, value |-> <<51>>] >>
CookieOf(jar) ==
  FlattenSeq([i \in DOMAIN jar |-> jar[i].name \o <<EQ>> \o jar[i].value
                                   \o IF i < Len(jar) THEN <<SEMI, SP>> ELSE << >>])

Request(method, type, query, body, program, form, jar) ==
  [method |-> method, length |-> Len(body), body |-> body, program |-> program,
   env |-> [query |-> query, contentType |-> type, cookie |-> CookieOf(jar)],
   form |-> form, jar |-> jar, whole |-> TRUE]
Get(form, jar) == Request("GET", << >>, UrlForm(form), << >>, "test", form, jar)
Post(form) == Request("POST", <<URLENC>>, << >>, UrlForm(form), "test", form, << >>)
Upload(form, program) ==
  Request("POST", <<MPFORM, SEMI, SP, BOUND, EQ, B>>, << >>, MultipartBody(form, <<CR, LF>>),
          program, form, << >>)
UploadLF(form) ==    \* header lines of one LF, which the library takes too
  Request("POST", <<MPFORM, SEMI, BOUND, EQ, B>>, << >>, MultipartBody(form, <<LF>>),
          "test", form, << >>)
Broken(r, n) == [r EXCEPT !.body = SubSeq(@, 1, n), !.whole = FALSE]

Field(name, text) == [name |-> name, text |-> text, fileName |-> << >>, contentType |-> << >>]
FileOf(name, text) == [name |-> name, text |-> text, fileName |-> <<X>>, contentType |-> <<X>>]
Button(b) == Field(b, <<X>>)

(* Every text of up to two typed letters, in both fields that show text.     *)
Texts == SeqOf({X, LF, SP, AMP, EQ, PERCENT, PLUS, LT}, 2) \cup {<<X, LF, LF, X>>}
TextForms == {<<Field(AddressField, t), Field(NameField, t), Button(TestButton)>> : t \in Texts}

(* Votes: none, one, one twice with another between, and one for nobody.     *)
VoteForms == {<<Field(Vote, <<65>>), Field(Vote, <<88>>), Field(Hungry, <<X>>),
                Field(Vote, <<65>>), Button(TestButton)>>,
              <<Field(Frogs, <<DASH, 49>>), Field(Temperature, <<SP, 57>>),
                Field(Flavors, <<324>>), Field(Flavors, <<88>>), Field(Colors, <<322>>),
                Field(Age, <<88>>), Field(CookieName, <<X>>), Field(CookieValue, <<49>>),
                Button(TestButton)>>}

(* Files of up to three letters of a boundary, and longer ones that tease it. *)
Contents == SeqOf({CR, LF, DASH, B}, 3)
            \cup {<<CR, LF, DASH, DASH>>, <<CR, LF, DASH, DASH, CR>>, <<CR, CR, LF, DASH, B>>,
                  <<CR, LF, DASH, CR, LF, DASH, DASH, X>>}
FileForms == {<<FileOf(FileField, c)>> : c \in Contents}

SaveForm == <<FileOf(FileField, <<CR, DASH>>), Field(AddressField, <<X, LF>>),
              Button(SaveButton)>>
TwoFiles == <<FileOf(FileField, <<X, B>>), FileOf(FileField, <<CR, DASH>>)>>

(* Behind a form, a part that is no form field, and one whose disposition  *)
(* has a parameter the library does not know.                              *)
OddPart(form, value) ==
  LET parts == FlattenSeq([i \in DOMAIN form |-> PartOf(form[i], <<CR, LF>>)])
      body == parts \o <<DASH, DASH, B, CR, LF, DISP, COLON, SP>> \o value
              \o <<CR, LF, CR, LF, X>> \o <<CR, LF, DASH, DASH, B, DASH, DASH, CR, LF>>
  IN  [Upload(<< >>, "test") EXCEPT
         !.body = body, !.length = Len(body), !.whole = FALSE]
Unknown == <<FDATA, SEMI, SP, X, EQ, B, SEMI, NAMEW, EQ, X>>

MCFirst ==
  {Get(f, Jar) : f \in TextForms \cup VoteForms} \cup {Post(f) : f \in VoteForms}
  \cup {Upload(f, "test") : f \in FileForms}
  \cup {Upload(SaveForm, "test"), Upload(TwoFiles, "capture"),
          UploadLF(SaveForm),
        [Post(<< >>) EXCEPT !.method = "HEAD"]}
  \cup {Broken(Upload(SaveForm, "test"), n) :
            n \in 1..Upload(SaveForm, "test").length - 1}
  \cup {Broken(Post(<<Button(TestButton)>>), 1)}
  \cup {OddPart(<< >>, <<X>>), OddPart(<< >>, Unknown), OddPart(TwoFiles, Unknown)}
MCLater == {Get(<<Button(LoadButton)>>, << >>), Upload(<<Button(LoadButton)>>, "test")}
=============================================================================
