------------------------------ MODULE Documents ------------------------------
(***************************************************************************)
(* What a ticket's documents contribute to its decision: stages 2 to 5 of   *)
(* the chain with the data they carry, which Pipeline abstracts.  Several   *)
(* runs may work on one ticket (a reprocess, a redelivered message), and a  *)
(* run on another ticket may store the same file.  A run takes one step     *)
(* per query, file operation or save.  Errors, retries and dead letters are *)
(* Pipeline's; here any stage may be started over.                          *)
(*                                                                         *)
(* Two ghosts: row.seen, the documents whose fields are in parsed_source,   *)
(* and a run's stale and early, which say what it could not know.           *)
(***************************************************************************)
EXTENDS Storage, Extraction, FiniteSets

CONSTANTS
    Tickets,    \* ticket ids: an id orders its ticket against the others
    Runs,       \* executions of the chain
    None,
    Scenarios,  \* [mail: an email for each ticket, works: each run's ticket]
    Sniffed,    \* Sniffed[d]: the type the magic bytes of d show, or ""
    Printed,    \* Printed[d]: the text OCR reads in d
    Calendar,   \* the dates the processing may span, in order
    Limit       \* how often each disturbance may happen (a bound)

Types == {"pdf", "jpg", "png"}

Disturbances == {"restarts", "misreads", "ner_failures"}

ASSUME DocumentsAssumption ==
    /\ Writers = Runs
    /\ Paths = (DOMAIN Sniffed) \X Types
    /\ Tickets \subseteq Nat /\ None \notin Int
    /\ Limit \in [Disturbances -> Nat]

Dates == Nat \X Nat \X Nat

(* What the emails and the documents may hold. *)
ASSUME InputsAssumption ==
    /\ \A s \in Scenarios :
          /\ s.works \in [Runs -> Tickets]
          /\ \A t \in Tickets :
                /\ s.mail[t].attachments \in Seq([digest : DOMAIN Sniffed, content_type : STRING])
                /\ IsBody(s.mail[t].body)
    /\ \A d \in DOMAIN Sniffed :
          /\ Sniffed[d] \in Types \cup {""}
          /\ IsBody(Printed[d].lines)
          /\ \A i \in DOMAIN Printed[d].lines :     \* a line like a name is not blank
                "like" \in DOMAIN Printed[d].lines[i] => Given(Printed[d].lines[i]["like"])
          /\ Printed[d].runs \in Seq(Seq(0..9))
          /\ IsText(Printed[d].address)
          /\ Printed[d].dob \in Dates \cup {<<>>}
    /\ Calendar \in Seq(Dates) /\ Calendar # <<>>

VARIABLES
    mail,     \* mail[t]: the attachments (digest and content_type) and body of t's email
    works,    \* works[r]: the ticket run r is about
    row,      \* the tickets table
    docs,     \* docs[t]: t's Document rows by created_at
    run,      \* run[r]: the statement r is at, and its local variables
    today,    \* the day, as an index of Calendar
    used      \* the disturbances spent so far

rows == <<row, docs>>
given == <<mail, works>>
vars == <<fileVars, given, rows, run, today, used>>

(* email and document: the two entries of parsed_source, <<>> when missing. *)
NewRow == [outcome |-> "open", email |-> <<>>, document |-> <<>>,
           contact |-> [email |-> Blank, phone |-> Blank],
           address |-> Blank, dob |-> <<>>, age |-> None, seen |-> {}]

(* What a stage starts from: no row, documents, fields or candidates read.  *)
Start(pc) == [pc |-> pc, at |-> 1, row |-> NewRow, list |-> <<>>, merged |-> <<>>,
              seen |-> {}, hashes |-> {}, candidates |-> <<>>, early |-> {},
              stale |-> FALSE]

Init ==
    /\ StorageInit
    /\ \E s \in Scenarios : mail = s.mail /\ works = s.works
    /\ row = [t \in Tickets |-> NewRow]
    /\ docs = [t \in Tickets |-> <<>>]
    /\ run = [r \in Runs |-> Start("check")]
    /\ today = 1
    /\ used = [d \in Disturbances |-> 0]

Spend(d) == used[d] < Limit[d] /\ used' = [used EXCEPT ![d] = @ + 1]

Continue(r, local) == run' = [run EXCEPT ![r] = local]

Enter(r, stage) == Continue(r, Start(stage))

Digests(list) == {list[i].digest : i \in DOMAIN list}

-----------------------------------------------------------------------------
(* Stage 2: the attachments.                                                *)

Attachment(r) == mail[works[r]].attachments[run[r].at]

Declared(content_type) ==
    CASE content_type \in {"jpg", "jpeg"} -> "jpg"
      [] content_type \in {"png", "pdf"} -> content_type
      [] OTHER -> ""

Document(att) ==
    LET declared == Declared(att.content_type)
        sniffed  == Sniffed[att.digest]
    IN  [digest |-> att.digest,
         ext |-> CASE declared # "" -> declared
                   [] sniffed # "" -> sniffed
                   [] OTHER -> "pdf",
         format_valid |-> sniffed # "" /\ declared \in {"", sniffed}]

PathFor(doc) == <<doc.digest, doc.ext>>

CheckAttachment(r) ==
    /\ run[r].pc = "check"
    /\ IF run[r].at > Len(mail[works[r]].attachments)
       THEN Enter(r, "parse")
       ELSE IF Attachment(r).digest \in Digests(docs[works[r]])
            THEN Continue(r, [run[r] EXCEPT !.at = @ + 1])
            ELSE Continue(r, [run[r] EXCEPT !.pc = "stat"])
    /\ UNCHANGED <<fileVars, given, rows, today, used>>

StatFile(r) ==
    /\ run[r].pc = "stat"
    /\ Continue(r, [run[r] EXCEPT
          !.pc = IF Exists(PathFor(Document(Attachment(r)))) THEN "create" ELSE "open"])
    /\ UNCHANGED <<fileVars, given, rows, today, used>>

OpenFile(r) ==
    /\ run[r].pc = "open"
    /\ Open(r, PathFor(Document(Attachment(r))))
    /\ Continue(r, [run[r] EXCEPT !.pc = "write"])
    /\ UNCHANGED <<given, rows, today, used>>

WriteFile(r) ==
    /\ run[r].pc = "write"
    /\ Continue(r, [run[r] EXCEPT !.pc = IF WritesLast(r) THEN "create" ELSE "write"])
    /\ Write(r)
    /\ UNCHANGED <<given, rows, today, used>>

(* Mutant: no unique key, the INSERT always succeeds. *)
CreateDocumentTwice(r) ==
    /\ run[r].pc = "create"
    /\ docs' = [docs EXCEPT ![works[r]] = Append(@, Document(Attachment(r)))]
    /\ Continue(r, [run[r] EXCEPT !.pc = "check", !.at = @ + 1])
    /\ UNCHANGED <<fileVars, given, row, today, used>>

(* uniq_ticket_sha256: a row another run created since the check makes the  *)
(* INSERT fail, and the stage is retried.                                   *)
CreateDocument(r) ==
    LET t == works[r]
        doc == Document(Attachment(r))
    IN  /\ run[r].pc = "create"
        /\ IF doc.digest \in Digests(docs[t])
           THEN Enter(r, "check") /\ UNCHANGED docs
           ELSE /\ docs' = [docs EXCEPT ![t] = Append(@, doc)]
                /\ Continue(r, [run[r] EXCEPT !.pc = "check", !.at = @ + 1])
        /\ UNCHANGED <<fileVars, given, row, today, used>>

-----------------------------------------------------------------------------
(* Full-row saves.                                                          *)

(* Run r writes its copy of the row and enters the next stage; the copies   *)
(* other runs hold of this row are stale from now on.                       *)
Save(r, saved, next) ==
    /\ row' = [row EXCEPT ![works[r]] = saved]
    /\ run' = [s \in Runs |->
                  CASE s = r -> Start(next)
                    [] s # r /\ works[s] = works[r] -> [run[s] EXCEPT !.stale = TRUE]
                    [] OTHER -> run[s]]
    /\ UNCHANGED docs

Read(r, pc) == Continue(r, [run[r] EXCEPT !.pc = pc, !.row = row[works[r]], !.stale = FALSE])

(* Stage 3: the body. *)
ParseRead(r) ==
    /\ run[r].pc = "parse"
    /\ Read(r, "save_contact")
    /\ UNCHANGED <<fileVars, given, rows, today, used>>

(* Mutant: parsed_source is replaced, not updated. *)
WithContactAlone(old, parsed) ==
    [old EXCEPT !.email = parsed, !.document = <<>>, !.seen = {},
                !.contact = [email |-> Or(parsed.email, @.email),
                             phone |-> Or(parsed.phone, @.phone)],
                !.address = Or(parsed.address, @), !.outcome = "open"]

WithContact(old, parsed) ==
    [old EXCEPT !.email = parsed,
                !.contact = [email |-> Or(parsed.email, @.email),
                             phone |-> Or(parsed.phone, @.phone)],
                !.address = Or(parsed.address, @), !.outcome = "open"]

ParseSave(r) ==
    /\ run[r].pc = "save_contact"
    /\ \E ner \in BOOLEAN :
          /\ IF ner THEN UNCHANGED used ELSE Spend("ner_failures")
          /\ Save(r, WithContact(run[r].row,
                                 ParseEmailBody(mail[works[r]].body, Blank, ner)), "ocr")
    /\ UNCHANGED <<fileVars, given, today>>

-----------------------------------------------------------------------------
(* Stage 4: the documents.                                                  *)

OcrRead(r) ==
    /\ run[r].pc = "ocr"
    /\ Read(r, "list")
    /\ UNCHANGED <<fileVars, given, rows, today, used>>

ListDocuments(r) ==
    /\ run[r].pc = "list"
    /\ Continue(r, [run[r] EXCEPT !.pc = "read", !.list = docs[works[r]]])
    /\ UNCHANGED <<fileVars, given, rows, today, used>>

(* pdf2image reads nothing but PDF, Pillow nothing of it. *)
Readable(doc) == Whole(PathFor(doc)) /\ ((doc.ext = "pdf") <=> (Sniffed[doc.digest] = "pdf"))

(* Both, and the first where they meet. *)
Overlay(f, g) ==
    [x \in DOMAIN f \cup DOMAIN g |-> IF x \in DOMAIN f THEN f[x] ELSE g[x]]

(* Mutant: the last document with a field wins. *)
MergedLast(merged, fields) == Overlay(fields, merged)

(* The first document with a field wins. *)
Merged(merged, fields) == Overlay(merged, fields)

ReadDocument(r) ==
    LET doc == Head(run[r].list)
        fields == ExtractIdentityFields(Printed[doc.digest], Calendar[today])
        rest == [run[r] EXCEPT !.list = Tail(@)]
    IN  /\ run[r].pc = "read" /\ run[r].list # <<>>
        /\ \/ /\ Readable(doc)
              /\ Continue(r, [rest EXCEPT !.merged = Merged(@, fields),
                                         !.seen = @ \cup {doc.digest}])
              /\ UNCHANGED used
           \/ /\ ~Readable(doc)
              /\ Continue(r, rest)
              /\ UNCHANGED used
           \/ /\ Readable(doc)      \* Tesseract fails
              /\ Spend("misreads")
              /\ Continue(r, rest)
        /\ UNCHANGED <<fileVars, given, rows, today>>

(* Mutant: an age the row already has is kept. *)
WithFieldsAgeKept(old, merged, seen) ==
    LET has(field) == field \in DOMAIN merged
    IN  [old EXCEPT !.document = merged, !.seen = seen,
                    !.dob = IF has("dob") THEN merged.dob ELSE @,
                    !.age = IF has("age") /\ @ = None THEN merged.age ELSE @,
                    !.address = IF has("address") THEN Or(@, merged.address) ELSE @]

(* Mutant: the document's address replaces the body's. *)
WithFieldsAddress(old, merged, seen) ==
    LET has(field) == field \in DOMAIN merged
    IN  [old EXCEPT !.document = merged, !.seen = seen,
                    !.dob = IF has("dob") THEN merged.dob ELSE @,
                    !.age = IF has("age") THEN merged.age ELSE @,
                    !.address = IF has("address") THEN merged.address ELSE @]

WithFields(old, merged, seen) ==
    LET has(field) == field \in DOMAIN merged
    IN  [old EXCEPT !.document = merged, !.seen = seen,
                    !.dob = IF has("dob") THEN merged.dob ELSE @,
                    !.age = IF has("age") THEN merged.age ELSE @,
                    !.address = IF has("address") THEN Or(@, merged.address) ELSE @]

(* applicant_age is a PositiveIntegerField: the database refuses a negative *)
(* one, in every retry of the stage.                                        *)
NegativeAge(merged) == "age" \in DOMAIN merged /\ merged.age < 0

SaveFields(r) ==
    LET merged == run[r].merged
    IN  /\ run[r].pc = "read" /\ run[r].list = <<>>
        /\ \/ /\ merged = <<>>
              /\ Enter(r, "validate")
              /\ UNCHANGED rows
           \/ /\ merged # <<>> /\ ~NegativeAge(merged)
              /\ Save(r, WithFields(run[r].row, merged, run[r].seen), "validate")
           \/ /\ merged # <<>> /\ NegativeAge(merged)
              /\ Enter(r, "failed")
              /\ UNCHANGED rows
        /\ UNCHANGED <<fileVars, given, today, used>>

-----------------------------------------------------------------------------
(* Stage 5: the decision.                                                   *)

(* Read, and set to awaiting_validation by a save of the status alone. *)
ValidateRead(r) ==
    LET t == works[r]
        awaiting == [row[t] EXCEPT !.outcome = "open"]
    IN  /\ run[r].pc = "validate"
        /\ row' = [row EXCEPT ![t] = awaiting]
        /\ Continue(r, [run[r] EXCEPT !.pc = "documents", !.row = awaiting, !.stale = FALSE])
        /\ UNCHANGED <<fileVars, given, docs, today, used>>

ListForChecks(r) ==
    /\ run[r].pc = "documents"
    /\ Continue(r, [run[r] EXCEPT !.pc = "hashes", !.list = docs[works[r]]])
    /\ UNCHANGED <<fileVars, given, rows, today, used>>

Field(document, name) == IF name \in DOMAIN document THEN document[name] ELSE <<>>

SameApplicant(contact, other) ==
    /\ Given(contact.email) /\ Given(contact.phone)
    /\ other.email.norm = contact.email.norm       \* iexact
    /\ other.phone.as = contact.phone.as

(* The hashes of the ticket's own documents; none are read for a ticket     *)
(* without contact.                                                         *)
OwnHashes(r) ==
    /\ run[r].pc = "hashes"
    /\ Continue(r, [run[r] EXCEPT !.pc = "find", !.hashes = Digests(docs[works[r]])])
    /\ UNCHANGED <<fileVars, given, rows, today, used>>

(* The earlier tickets of the applicant, by id, as their rows are now. *)
FindCandidates(r) ==
    LET t == works[r]
        found == {u \in Tickets : u < t /\ SameApplicant(run[r].row.contact, row[u].contact)}
        Nth(n) == CHOOSE u \in found : Cardinality({v \in found : v <= u}) = n
    IN  /\ run[r].pc = "find"
        /\ Continue(r, [run[r] EXCEPT
               !.pc = "compare",
               !.early = {u \in Tickets : u < t /\ row[u].email = <<>>},
               !.candidates = [n \in 1..Cardinality(found) |->
                   [ticket |-> Nth(n),
                    number |-> Field(row[Nth(n)].document, "document_number")]]])
        /\ UNCHANGED <<fileVars, given, rows, today, used>>

NumbersAgree(number, other) == number = <<>> \/ other = <<>> \/ number = other

(* Mutant: the same documents, not a shared one. *)
HashesEqual(hashes, other) == hashes = {} \/ other = {} \/ hashes = other

HashesAgree(hashes, other) == hashes = {} \/ other = {} \/ hashes \cap other # {}

Tokens(address) == {w \in {address.norm[i] : i \in DOMAIN address.norm} : Len(w) >= 2}

AddressConsistent(address, other) ==
    \/ Tokens(address) = {} \/ Tokens(other) = {}
    \/ 2 * Cardinality(Tokens(address) \cap Tokens(other)) >= Cardinality(Tokens(address))

NameMatch(old) ==
    Given(old.email.name) /\ "name" \in DOMAIN old.document
        => old.email.name.norm = old.document.name.norm

AgeMatch(old) ==
    old.dob # <<>> /\ "age" \in DOMAIN old.document /\ old.age \notin {None, 0}
        => old.age = old.document.age

AddressMatch(old) ==
    LET address == Or(old.email.address, old.address)
    IN  Given(address) /\ "address" \in DOMAIN old.document
            => AddressConsistent(address, old.document.address)

Outcome(old, list, duplicate) ==
    CASE list = <<>> -> "rejected"
      [] /\ list # <<>>
         /\ \A i \in DOMAIN list : list[i].format_valid
         /\ NameMatch(old) /\ AgeMatch(old) /\ AddressMatch(old)
         /\ duplicate = None -> "approved"
      [] OTHER -> "requires_manual_review"

Decide(r, duplicate) ==
    Continue(r, [run[r] EXCEPT
        !.pc = "save_outcome",
        !.row.outcome = Outcome(run[r].row, run[r].list, duplicate)])

(* One candidate, with a query of its documents if the numbers agree. *)
CompareCandidate(r) ==
    LET first == Head(run[r].candidates)
        rest  == Continue(r, [run[r] EXCEPT !.candidates = Tail(@)])
        numbers == NumbersAgree(Field(run[r].row.document, "document_number"), first.number)
        hashes  == HashesAgree(run[r].hashes, Digests(docs[first.ticket]))
    IN  /\ run[r].pc = "compare"
        /\ \/ run[r].candidates = <<>> /\ Decide(r, None)
           \/ run[r].candidates # <<>> /\ numbers /\ hashes /\ Decide(r, first.ticket)
           \/ run[r].candidates # <<>> /\ ~(numbers /\ hashes) /\ rest
        /\ UNCHANGED <<fileVars, given, rows, today, used>>

SaveOutcome(r) ==
    /\ run[r].pc = "save_outcome"
    /\ Save(r, run[r].row, "done")
    /\ UNCHANGED <<fileVars, given, today, used>>

-----------------------------------------------------------------------------
StageOf(pc) ==
    CASE pc \in {"check", "stat", "open", "write", "create"} -> "check"
      [] pc \in {"parse", "save_contact"} -> "parse"
      [] pc \in {"ocr", "list", "read"} -> "ocr"
      [] pc \in {"validate", "documents", "hashes", "find", "compare", "save_outcome"} -> "validate"

(* An exception and a retry, or the worker dies and the message is          *)
(* delivered again: the stage starts over, and what it was writing stays    *)
(* as it is.                                                                *)
Restart(r) ==
    /\ run[r].pc \notin {"done", "failed"}
    /\ Spend("restarts")
    /\ Abort(r)
    /\ Enter(r, StageOf(run[r].pc))
    /\ UNCHANGED <<given, rows, today>>

NextDay ==
    /\ today < Len(Calendar)
    /\ today' = today + 1
    /\ UNCHANGED <<fileVars, given, rows, run, used>>

Step(r) ==
    \/ CheckAttachment(r) \/ StatFile(r) \/ OpenFile(r) \/ WriteFile(r) \/ CreateDocument(r)
    \/ ParseRead(r) \/ ParseSave(r)
    \/ OcrRead(r) \/ ListDocuments(r) \/ ReadDocument(r) \/ SaveFields(r)
    \/ ValidateRead(r) \/ ListForChecks(r) \/ OwnHashes(r) \/ FindCandidates(r)
    \/ CompareCandidate(r) \/ SaveOutcome(r)

Next == NextDay \/ \E r \in Runs : Step(r) \/ Restart(r)

Spec == Init /\ [][Next]_vars

-----------------------------------------------------------------------------
Fields == {"document_number", "name", "address", "dob", "age"}

RowOK(r) ==
    /\ r.outcome \in {"open", "approved", "rejected", "requires_manual_review"}
    /\ r.email # <<>> => r.email \in [name : Text, phone : Text, email : Text, address : Text]
    /\ DOMAIN r.document \subseteq Fields
    /\ r.contact \in [email : Text, phone : Text]
    /\ r.address \in Text
    /\ r.age \in Nat \cup {None}

(* Types; and no ticket has two Document rows of one hash.                  *)
TypeOK ==
    /\ StorageTypeOK
    /\ \A t \in Tickets : RowOK(row[t])
    /\ \A t \in Tickets : \A i, k \in DOMAIN docs[t] :
          docs[t][i].digest = docs[t][k].digest => i = k
    /\ \A r \in Runs : RowOK(run[r].row) /\ works[r] \in Tickets
    /\ today \in DOMAIN Calendar
    /\ \A d \in Disturbances : used[d] \in 0..Limit[d]

(* A Document row points to a whole file, unless a run has the file open or *)
(* the last write to it was interrupted: the test for an existing path and  *)
(* the write after it are not atomic, and another run on the ticket or one  *)
(* on another ticket may store the same bytes (services/storage.py).        *)
FilesWhole ==
    \A t \in Tickets : \A i \in DOMAIN docs[t] :
        LET p == PathFor(docs[t][i])
        IN  Whole(p) \/ BeingWritten(p) \/ p \in cutShort

(* What the documents of a ticket say of a field: the first that has it.    *)
Says(t, name) ==
    LET has(i) == name \in DOMAIN ExtractIdentityFields(Printed[docs[t][i].digest], Calendar[1])
        at == {i \in DOMAIN docs[t] : has(i)}
    IN  IF at = {} THEN Blank
        ELSE ExtractIdentityFields(
                 Printed[docs[t][CHOOSE i \in at : \A k \in at : i <= k].digest],
                 Calendar[1])[name]

(* A run about to approve has all documents of the ticket in a valid        *)
(* format, and if all of them were read and the body was parsed with NER,   *)
(* the name in the body is the first name on a document, and half of the    *)
(* words of the address in the body are in the first address on a document, *)
(* if that has words (validation.py: "any mismatch ... ->                   *)
(* requires_manual_review").                                                *)
MismatchReviewed ==
    \A r \in Runs :
        LET t == works[r]
            old == run[r].row
            body == ParseEmailBody(mail[t].body, Blank, TRUE)
            Agrees(words, other) == 2 * Cardinality(words \cap other) >= Cardinality(words)
        IN  run[r].pc = "save_outcome" /\ old.outcome = "approved" =>
                /\ \A i \in DOMAIN run[r].list : run[r].list[i].format_valid
                /\ old.email = body /\ old.seen = Digests(docs[t]) =>
                       /\ Given(body.name) /\ Given(Says(t, "name"))
                              => body.name.norm = Says(t, "name").norm
                       /\ Given(body.address) /\ Tokens(Says(t, "address")) # {}
                              => Agrees(Tokens(body.address), Tokens(Says(t, "address")))

(* Of two tickets of one applicant whose documents share a hash and do not  *)
(* print two numbers, the later is not approved by a run that asked for the *)
(* earlier ones after the earlier one's contact was stored (dedupe.py).     *)
LateDuplicateReviewed ==
    \A r \in Runs : \A t \in Tickets :
        LET u == works[r]
            numbers == {ExtractIdentityFields(Printed[d], Calendar[1]).document_number :
                           d \in {e \in Digests(docs[t]) \cup Digests(docs[u]) :
                                     "document_number" \in
                                         DOMAIN ExtractIdentityFields(Printed[e], Calendar[1])}}
            contact(v) == ParseEmailBody(mail[v].body, Blank, TRUE)
        IN  /\ t < u
            /\ run[r].pc = "save_outcome" /\ run[r].row.outcome = "approved"
            /\ SameApplicant(contact(u), contact(t))
            /\ Digests(docs[t]) \cap Digests(docs[u]) # {}
            /\ \A n, m \in numbers : n = m
            => t \in run[r].early

(* The applicant's address is the one in the body once the body gave one,   *)
(* whatever was filled in from a document before (SPECS.md: the email's     *)
(* address, verified against the document).                                 *)
BodyAddressWins ==
    \A t \in Tickets :
        row[t].email # <<>> /\ Given(row[t].email.address)
            => row[t].address = row[t].email.address

(* The ticket's age is the age in parsed_source.document, also after a      *)
(* birthday between two runs: age_consistency compares the two and never    *)
(* fails.                                                                   *)
AgesTogether ==
    \A t \in Tickets :
        "age" \in DOMAIN row[t].document => row[t].age = row[t].document.age

(* The fields of a row are what documents of the ticket show, whatever runs *)
(* read and saved meanwhile: a PAN or a number with a correct checksum,     *)
(* if no card has digits that all fail it; the holder's name and not the    *)
(* one printed below it of a parent; and the age the holder had turned by   *)
(* some day up to this one (parsing/extractors.py).                         *)
CardReadTrue ==
    \A t \in Tickets :
        LET read == row[t].document
            seen == row[t].seen
        IN  /\ seen \subseteq Digests(docs[t])
            /\ "document_number" \in DOMAIN read /\ (\A d \in seen : ~Misprinted(Printed[d])) =>
                   \E d \in seen : read.document_number \in NumbersOn(Printed[d])
            /\ "name" \in DOMAIN read => \E d \in seen : read.name \in NamesOn(Printed[d].lines)
            /\ "age" \in DOMAIN read =>
                   \E d \in seen, i \in 1..today :
                       /\ read.dob = Printed[d].dob
                       /\ read.age = Cardinality(Birthdays(read.dob, Calendar[i]))

(* No ticket fails for its age unless one of its documents shows a birth    *)
(* after the day it was read on: a newborn, or a birthday between two reads,*)
(* is no reason (models.py: applicant_age is a PositiveIntegerField).       *)
OnlyFutureBirthsFail ==
    \A r \in Runs :
        run[r].pc = "failed" =>
            \E d \in Digests(docs[works[r]]), i \in 1..today :
                Printed[d].dob # <<>> /\ Before(Calendar[i], Printed[d].dob)

(* The contact in a row is the one the body states, if it states one,       *)
(* however and in whatever order, with or without spaCy and after any saves *)
(* of other runs; look-alikes and threading headers state none.  So the     *)
(* same applicant has the same contact on every ticket, but for a foreign   *)
(* number of more than ten digits (parsing/email_parser.py, dedupe.py).     *)
ContactAsStated ==
    \A t \in Tickets :
        LET body == mail[t].body
        IN  row[t].email # <<>> =>
                /\ \A e \in EmailsIn(body) :
                      EmailsIn(body) = {e} /\ Given(e) => row[t].contact.email = e
                /\ \A n \in NumbersIn(body) :
                      NumbersIn(body) = {n} /\ Given(n) /\ ReadsAsItself(n) => row[t].contact.phone = n

(* A save takes from parsed_source what another run stored there only if    *)
(* the saved row was read before that; reading the documents again may      *)
(* replace their own fields (pipeline.py saves the row and parsed_source    *)
(* whole).                                                                  *)
LostOnlyWhenStale ==
    [][\A r \in Runs :
          LET t == works[r]
          IN  row'[t] # row[t] /\ run'[r].pc # run[r].pc /\ ~run[r].stale =>
                  /\ row[t].email # <<>> => row'[t].email # <<>>
                  /\ row[t].seen \subseteq row'[t].seen \/ run[r].pc = "read"]_vars
=============================================================================
