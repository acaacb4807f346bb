------------------------------- MODULE CgicPage -------------------------------
(***************************************************************************)
(* The page cgictest.c makes of a form: one operator per handler, with the *)
(* answers the library gives it.                                           *)
(***************************************************************************)
EXTENDS CgicText

CONSTANTS
  NameSpace,     \* sizes of the buffers of the handlers
  AddressSpace,
  TextSpace

ASSUME PageAssumption ==
  {NameSpace, AddressSpace, TextSpace} \subseteq Nat \ {0}

(* Names of fields and buttons.                                            *)
NameField == <<300>>
AddressField == <<301>>
Hungry == <<302>>
Frogs == <<303>>
Temperature == <<304>>
Colors == <<305>>
Flavors == <<306>>
Vote == <<307>>
Age == <<308>>
FileField == <<309>>
CookieName == <<310>>
CookieValue == <<311>>
TestButton == <<312>>
SaveButton == <<313>>
LoadButton == <<314>>

ColorChoices == << <<320>>, <<321>>, <<322>> >>
FlavorChoices == << <<323>>, <<324>>, <<325>> >>
VoteChoices == << <<65>>, <<66>>, <<67>>, <<68>> >>
AgeChoices == << <<49>>, <<50>>, <<51>>, <<52>> >>

NameShown(entries) == HtmlEscape(FormStringNoNewlines(entries, NameField, NameSpace).text)
AddressShown(entries) == HtmlEscape(FormString(entries, AddressField, AddressSpace).text)
HungryShown(entries) == FormCheckboxSingle(entries, Hungry)
TemperatureShown(entries) == FormDoubleBounded(entries, Temperature, 80, 120, 98).value
FrogsShown(entries) == FormInteger(entries, Frogs, 0).value
ColorShown(entries) == FormSelectSingle(entries, Colors, ColorChoices, 1).choice
FlavorsShown(entries) == FormSelectMultiple(entries, Flavors, FlavorChoices).chosen
VotesShown(entries) == [counted |-> FormCheckboxMultiple(entries, Vote, VoteChoices).chosen,
                        named   |-> FormStringMultiple(entries, Vote)]
AgeShown(entries) == [radio |-> FormRadio(entries, Age, AgeChoices, 1).choice,
                      text  |-> FormString(entries, Age, TextSpace).text]

(* Name, size, type and content of an uploaded file; no more than the name *)
(* when it has none, no content when it cannot be opened.                  *)
FileShown(entries, files) ==
  LET name == FormFileName(entries, FileField, TextSpace)
      open == FormFileOpen(entries, FileField, files) = "Success"
  IN  IF name.result # "Success" THEN [name |-> << >>]
      ELSE [name |-> name.text, size |-> FormFileSize(entries, FileField).size,
            type |-> FormFileContentType(entries, FileField, TextSpace).text,
            content |-> IF open THEN FormFileRead(entries, FileField, files) ELSE << >>]

EntriesShown(entries) == FormEntries(entries)
CookiesShown(cookie) ==
  LET names == CookieNames(cookie)
  IN  [i \in DOMAIN names |-> <<names[i], CookieString(cookie, names[i], TextSpace).text>>]

(* The cookie a form asks to set.                                          *)
CookieSet(entries) ==
  LET name == FormString(entries, CookieName, TextSpace).text
  IN  IF name = << >> THEN << >>
      ELSE HeaderCookieSet(name, FormString(entries, CookieValue, TextSpace).text)

(* HandleSubmit, without the saving.                                       *)
Page(entries, files, cookie) ==
  [name |-> NameShown(entries), address |-> AddressShown(entries),
   hungry |-> HungryShown(entries), temperature |-> TemperatureShown(entries),
   frogs |-> FrogsShown(entries), color |-> ColorShown(entries),
   flavors |-> FlavorsShown(entries), votes |-> VotesShown(entries),
   age |-> AgeShown(entries), file |-> FileShown(entries, files),
   names |-> EntriesShown(entries), cookies |-> CookiesShown(cookie),
   setCookie |-> CookieSet(entries)]
=============================================================================
