----------------------------- MODULE EmailParser -----------------------------
(***************************************************************************)
(* parsing/email_parser.py: the applicant's fields from the body of an      *)
(* email.  A text is what was written (as) and its lower-case words (norm). *)
(* A body is a sequence of lines; a line is a function from the patterns    *)
(* that match in it to the texts they capture:                              *)
(*   "name:", "phone:", "email:", "address:"    a label and its value       *)
(*   "id"                                       a threading header          *)
(*   "from"                                     the From header's name      *)
(*   "sender"                                   the From header's address   *)
(*   "email"                                    EMAIL_RE                    *)
(*   "valid"               the national number of one libphonenumber finds  *)
(*   "plain", "spaced"     PHONE_RE; PHONE_CANDIDATE_RE, cut to ten digits  *)
(*   "person", "place"                          spaCy entities              *)
(*   "intro", "lives"                           NAME_ and ADDRESS_PHRASE_RE *)
(***************************************************************************)
EXTENDS Naturals, Sequences

CONSTANTS
    National, \* National[s]: the national number of a string libphonenumber
              \* finds valid in region IN
    LastTen   \* LastTen[s]: the last digits of a string with ten or more

ASSUME PhoneAssumption ==
    \A numbers \in {National, LastTen} : \A s \in DOMAIN numbers :
        s # "" /\ numbers[s] \in STRING \ {""}

Blank == [as |-> "", norm |-> <<>>]

Text == [as : STRING, norm : Seq(STRING)] \cup {Blank}

Given(text) == text.as # ""

(* An empty text has no words. *)
IsText(text) == text \in Text /\ (~Given(text) => text = Blank)

(* Every capture is a text. *)
IsBody(body) ==
    /\ Len(body) \in Nat /\ DOMAIN body = 1..Len(body)
    /\ \A i \in DOMAIN body : \A p \in DOMAIN body[i] : IsText(body[i][p])

(* Python's "or". *)
Or(text, other) == IF Given(text) THEN text ELSE other

First(body, pattern) ==
    LET found == {i \in DOMAIN body : pattern \in DOMAIN body[i]}
    IN  IF found = {} THEN Blank
        ELSE body[CHOOSE i \in found : \A k \in found : i <= k][pattern]

Labelled(body, label) == First(body, label)

FromHeader(body) == [name |-> First(body, "from"), email |-> First(body, "sender")]

IsIdHeader(line) == "id" \in DOMAIN line

(* Mutant: the threading headers are searched too. *)
ExtractEmailUnscrubbed(body, from_addr) == Or(First(body, "email"), from_addr)

(* The body with nothing left to match in its threading headers. *)
Scrubbed(body) == [i \in DOMAIN body |-> IF IsIdHeader(body[i]) THEN <<>> ELSE body[i]]

ExtractEmail(body, from_addr) == Or(First(Scrubbed(body), "email"), from_addr)

(* Mutant: what looks like a number comes first. *)
ExtractPhoneLookalike(body) ==
    Or(First(body, "plain"), Or(First(body, "spaced"), First(body, "valid")))

(* What libphonenumber validates, wherever it is; else what looks like it.  *)
ExtractPhone(body) ==
    Or(First(body, "valid"), Or(First(body, "plain"), First(body, "spaced")))

Number(digits) == [as |-> digits, norm |-> <<digits>>]

(* To the national number in region IN, else to the last ten digits; a      *)
(* string with fewer stays.                                                 *)
NormalisePhone(phone) ==
    CASE phone.as \in DOMAIN National -> Number(National[phone.as])
      [] phone.as \in DOMAIN LastTen \ DOMAIN National -> Number(LastTen[phone.as])
      [] OTHER -> phone

(* spaCy may fail to load or to parse: then ner is FALSE and there are no   *)
(* entities.                                                                *)
Ner(body, entity, ner) == IF ner THEN First(body, entity) ELSE Blank

NerName(body, ner) == Or(Ner(body, "person", ner), First(body, "intro"))

NerAddress(body, ner) == Or(First(body, "lives"), Ner(body, "place", ner))

ParseEmailBody(body, from_addr, ner) ==
    LET sender == FromHeader(body)
    IN  [name    |-> Or(Or(Labelled(body, "name:"), NerName(body, ner)), sender.name),
         phone   |-> NormalisePhone(Or(Labelled(body, "phone:"), ExtractPhone(body))),
         email   |-> Or(Labelled(body, "email:"), ExtractEmail(body, Or(from_addr, sender.email))),
         address |-> Or(Labelled(body, "address:"), NerAddress(body, ner))]

-----------------------------------------------------------------------------
(* What a body states, for the properties.                                  *)

(* What a body states of the applicant's contact, by a label or in passing; *)
(* threading headers state no address.                                      *)
EmailsIn(body) ==
    {body[i]["email:"] : i \in {i \in DOMAIN body : "email:" \in DOMAIN body[i]}} \cup
    {body[i]["email"] : i \in {i \in DOMAIN body : "email" \in DOMAIN body[i] /\ ~IsIdHeader(body[i])}}

(* The numbers by a label; without one, those libphonenumber validates, and *)
(* not others that look like one; without these, what looks like one.       *)
NumbersIn(body) ==
    LET by(p) == {body[i][p] : i \in {i \in DOMAIN body : p \in DOMAIN body[i]}}
    IN  CASE by("phone:") # {} -> {NormalisePhone(n) : n \in by("phone:")}
          [] by("phone:") = {} /\ by("valid") # {} -> by("valid")
          [] OTHER -> by("plain") \cup by("spaced")

(* A number that reads as itself in region IN: not a foreign one of more    *)
(* than ten digits.                                                         *)
ReadsAsItself(number) == NormalisePhone(number) = number
=============================================================================
