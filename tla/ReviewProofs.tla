---------------------------- MODULE ReviewProofs ----------------------------
(***************************************************************************)
(* What Documents promises of approvals, for any emails, documents and      *)
(* runs: a run that read everything approves no mismatch, and no duplicate  *)
(* of a ticket whose contact it could see.  And of the rows: their fields   *)
(* are what documents of the ticket show, their contact what its email says.*)
(***************************************************************************)
EXTENDS DocumentsProofs

(* What is read in a document, but for the age the same on every day. *)
Printing(d) == ExtractIdentityFields(Printed[d], Calendar[1])

Compared == {"document_number", "name", "address"}

(* The documents of list, of those seen, that have a field. *)
Sources(list, seen, field) ==
    {i \in DOMAIN list : list[i].digest \in seen /\ field \in DOMAIN Printing(list[i].digest)}

(* The fields are those of the first documents to have them. *)
FirstOf(list, seen, fields) ==
    /\ seen \subseteq Digests(list)
    /\ \A f \in Compared :
          /\ f \in DOMAIN fields <=> Sources(list, seen, f) # {}
          /\ \A i \in Sources(list, seen, f) :
                (\A k \in Sources(list, seen, f) : i <= k)
                    => fields[f] = Printing(list[i].digest)[f]

(* A run that reads documents has those before the rest of its list behind. *)
InOrder(list, x) ==
    IF x.pc = "read"
    THEN \E n \in 0..Len(list) :
            /\ n + Len(x.list) <= Len(list)
            /\ \A i \in DOMAIN x.list : x.list[i] = list[n + i]
            /\ \A i \in DOMAIN list : list[i].digest \in x.seen => i <= n
    ELSE x.seen = {} /\ x.merged = <<>>

RunFields(list, x) ==
    /\ FirstOf(list, x.row.seen, x.row.document)
    /\ FirstOf(list, x.seen, x.merged)
    /\ InOrder(list, x)

FieldsKnown ==
    /\ \A t \in Tickets : FirstOf(docs[t], row[t].seen, row[t].document)
    /\ \A r \in Runs : RunFields(docs[works[r]], run[r])

Approving(x) == x.pc = "save_outcome" /\ x.row.outcome = "approved"

(* What an approval was checked for. *)
Checked(x) ==
    Approving(x) =>
        /\ \A i \in DOMAIN x.list : x.list[i].format_valid
        /\ NameMatch(x.row)
        /\ AddressMatch(x.row)

ApprovalChecked == \A r \in Runs : Checked(run[r])

(* Of an email m: the hashes attached to it, and what its body states. *)
Attached(m) == Digests(m.attachments)

Stated(m) == ParseEmailBody(m.body, Blank, TRUE)

PastStage2 == Pcs \ Stage2

PastStage3 == PastStage2 \ {"parse", "save_contact"}

ContactOf(stated, x) ==
    x.contact = IF x.email = <<>> THEN [email |-> Blank, phone |-> Blank]
                ELSE [email |-> stated.email, phone |-> stated.phone]

(* A ticket with a parsed body has its documents. *)
RowGathered(m, list, x) ==
    /\ Digests(list) \subseteq Attached(m)
    /\ x.email # <<>> => Digests(list) = Attached(m)
    /\ ContactOf(Stated(m), x)

(* So has one that a run has brought past stage 2; old is its row. *)
RunGathered(m, list, old, x) ==
    /\ \A i \in DOMAIN m.attachments :
          i < x.at /\ x.pc \in Stage2 => m.attachments[i].digest \in Digests(list)
    /\ x.pc \in PastStage2 => Digests(list) = Attached(m)
    /\ x.pc \in PastStage3 => old.email # <<>>
    /\ x.pc \in PastStage3 \cap Holding => x.row.email # <<>>
    /\ ContactOf(Stated(m), x.row)

Gathered ==
    /\ \A t \in Tickets : RowGathered(mail[t], docs[t], row[t])
    /\ \A r \in Runs :
          RunGathered(mail[works[r]], docs[works[r]], row[works[r]], run[r])

NumberIn(d) == Field(Printing(d), "document_number")

(* Ticket t is what find_duplicate looks for, for u: the same applicant, a  *)
(* shared hash and no second number; m and n are their emails.              *)
Duplicate(t, m, u, n) ==
    /\ t < u
    /\ SameApplicant(Stated(n), Stated(m))
    /\ Attached(m) \cap Attached(n) # {}
    /\ \A c, d \in Attached(m) \cup Attached(n) : NumbersAgree(NumberIn(c), NumberIn(d))

NumberOf(x) == Field(x.document, "document_number")

(* The duplicates that run x, on ticket u, could see. *)
Late(mails, u, x) == {t \in Tickets : Duplicate(t, mails[t], u, mails[u]) /\ t \notin x.early}

(* A run loses none of them before it decides. *)
Kept(mails, table, u, x) ==
    /\ x.pc \in {"find", "compare"} => x.hashes = Attached(mails[u])
    /\ x.pc \in {"compare", "save_outcome"} =>
          \A t \in Tickets : t < u /\ t \notin x.early => table[t].email # <<>>
    /\ x.pc = "compare" =>
          /\ \A i \in DOMAIN x.candidates : x.candidates[i].ticket \in Tickets
          /\ \A t \in Late(mails, u, x) :
                \E i \in DOMAIN x.candidates :
                    /\ x.candidates[i].ticket = t
                    /\ NumbersAgree(NumberOf(x.row), x.candidates[i].number)
    /\ Approving(x) => Late(mails, u, x) = {}

DuplicatesKept == \A r \in Runs : Kept(mail, row, works[r], run[r])

ReviewInv == FieldsKnown /\ ApprovalChecked /\ Gathered /\ DuplicatesKept

-----------------------------------------------------------------------------
(* Documents and fields.                                                    *)

(* Before any document is read there are no fields.                         *)
LEMMA NothingRead ==
    ASSUME NEW list
    PROVE  FirstOf(list, {}, <<>>)
<1>1. \A f : f \notin DOMAIN <<>>
  OBVIOUS
<1> QED  BY <1>1 DEF FirstOf, Sources

(* more is list and a document of another hash. *)
IsAppended(list, doc, more) ==
    /\ list \in Seq(DocumentRow) /\ more \in Seq(DocumentRow)
    /\ Len(list) \in Nat /\ Len(more) = Len(list) + 1
    /\ DOMAIN list = 1..Len(list) /\ DOMAIN more = DOMAIN list \cup {Len(list) + 1}
    /\ \A i \in DOMAIN list : more[i] = list[i]
    /\ more[Len(list) + 1] = doc
    /\ doc.digest \notin Digests(list)

(* What Append gives.                                                       *)
LEMMA Appended ==
    ASSUME NEW list \in Seq(DocumentRow), NEW doc \in DocumentRow, doc.digest \notin Digests(list)
    PROVE  IsAppended(list, doc, Append(list, doc))
<1> DEFINE more == Append(list, doc)
<1>1. /\ Len(list) \in Nat /\ Len(more) = Len(list) + 1
      /\ DOMAIN list = 1..Len(list) /\ DOMAIN more = 1..(Len(list) + 1)
      /\ \A i \in DOMAIN list : more[i] = list[i]
      /\ more[Len(list) + 1] = doc
      /\ more \in Seq(DocumentRow)
  BY AppendProperties, LenProperties
<1>2. DOMAIN more = DOMAIN list \cup {Len(list) + 1}
  BY <1>1
<1> QED  BY <1>1, <1>2 DEF IsAppended

(* One hash more.                                                           *)
LEMMA DigestsAppended ==
    ASSUME NEW list, NEW doc, NEW more, IsAppended(list, doc, more)
    PROVE  Digests(more) = Digests(list) \cup {doc.digest}
BY DEF Digests, IsAppended

(* A document stored last changes nothing about the fields read so far.     *)
LEMMA FirstOfAppended ==
    ASSUME NEW list, NEW doc, NEW more, IsAppended(list, doc, more),
           NEW seen, NEW fields, FirstOf(list, seen, fields)
    PROVE  FirstOf(more, seen, fields)
<1>1. seen \subseteq Digests(list) /\ doc.digest \notin seen
  BY DEF FirstOf, IsAppended
<1>2. ASSUME NEW f  PROVE Sources(more, seen, f) = Sources(list, seen, f)
  BY <1>1 DEF Sources, IsAppended
<1>3. ASSUME NEW f, NEW i \in Sources(list, seen, f)  PROVE more[i] = list[i]
  BY DEF Sources, IsAppended
<1>4. seen \subseteq Digests(more)
  BY <1>1, DigestsAppended
<1> QED  BY <1>2, <1>3, <1>4 DEF FirstOf

(* Nor does it for a run that reads an older list.                          *)
LEMMA RunFieldsAppended ==
    ASSUME NEW list, NEW doc, NEW more, IsAppended(list, doc, more),
           NEW x, IsRun(x), RunFields(list, x)
    PROVE  RunFields(more, x)
<1>1. FirstOf(more, x.row.seen, x.row.document) /\ FirstOf(more, x.seen, x.merged)
  BY FirstOfAppended DEF RunFields
<1>2. InOrder(more, x)
  <2>1. CASE x.pc = "read"
    <3>1. PICK n \in 0..Len(list) :
              /\ n + Len(x.list) <= Len(list)
              /\ \A i \in DOMAIN x.list : x.list[i] = list[n + i]
              /\ \A i \in DOMAIN list : list[i].digest \in x.seen => i <= n
      BY <2>1 DEF RunFields, InOrder
    <3>2. Len(x.list) \in Nat /\ DOMAIN x.list = 1..Len(x.list)
      BY LenProperties DEF IsRun
    <3>3. n \in 0..Len(more) /\ n + Len(x.list) <= Len(more)
      BY <3>1, <3>2 DEF IsAppended
    <3>4. \A i \in DOMAIN x.list : x.list[i] = more[n + i]
      <4>1. \A i \in DOMAIN x.list : n + i \in DOMAIN list
        BY <3>1, <3>2 DEF IsAppended
      <4> QED  BY <3>1, <4>1 DEF IsAppended
    <3>5. \A i \in DOMAIN more : more[i].digest \in x.seen => i <= n
      <4>1. doc.digest \notin x.seen
        BY DEF RunFields, FirstOf, IsAppended
      <4> QED  BY <3>1, <4>1 DEF IsAppended
    <3> QED  BY <2>1, <3>3, <3>4, <3>5 DEF InOrder
  <2>2. CASE x.pc # "read"
    BY <2>2 DEF RunFields, InOrder
  <2> QED  BY <2>1, <2>2
<1> QED  BY <1>1, <1>2 DEF RunFields

(* A document is read after those before it: its fields count where these   *)
(* have none.                                                               *)
LEMMA FieldsTaken ==
    ASSUME NEW list \in Seq(DocumentRow),
           \A i, k \in DOMAIN list : list[i].digest = list[k].digest => i = k,
           NEW n \in DOMAIN list,
           NEW seen, \A i \in DOMAIN list : list[i].digest \in seen => i < n,
           NEW merged, FirstOf(list, seen, merged),
           NEW fields, DOMAIN fields = DOMAIN Printing(list[n].digest),
           \A f \in DOMAIN fields \ {"age"} : fields[f] = Printing(list[n].digest)[f]
    PROVE  FirstOf(list, seen \cup {list[n].digest}, Merged(merged, fields))
<1> DEFINE more == seen \cup {list[n].digest}
           both == Merged(merged, fields)
<1>0. DOMAIN list \subseteq Nat
  <2>1. DOMAIN list = 1..Len(list) /\ Len(list) \in Nat
    BY LenProperties
  <2> QED  BY <2>1
<1>1. /\ DOMAIN both = DOMAIN merged \cup DOMAIN fields
      /\ \A f \in DOMAIN merged : both[f] = merged[f]
      /\ \A f \in DOMAIN fields \ DOMAIN merged : both[f] = fields[f]
  BY DEF Merged, Overlay
<1>2. more \subseteq Digests(list)
  BY DEF FirstOf, Digests
<1> SUFFICES ASSUME NEW f \in Compared
             PROVE  /\ f \in DOMAIN both <=> Sources(list, more, f) # {}
                    /\ \A i \in Sources(list, more, f) :
                          (\A k \in Sources(list, more, f) : i <= k)
                              => both[f] = Printing(list[i].digest)[f]
  BY <1>2 DEF FirstOf
<1>3. Sources(list, more, f) = Sources(list, seen, f)
                                  \cup (IF f \in DOMAIN fields THEN {n} ELSE {})
  BY DEF Sources
<1>4. /\ f \in DOMAIN merged <=> Sources(list, seen, f) # {}
      /\ \A i \in Sources(list, seen, f) :
            (\A k \in Sources(list, seen, f) : i <= k) => merged[f] = Printing(list[i].digest)[f]
  BY DEF FirstOf
<1>5. \A i \in Sources(list, seen, f) : i \in Nat /\ i < n
  BY <1>0 DEF Sources
<1>6. n \in Nat /\ f # "age"
  BY <1>0 DEF Compared
<1> HIDE DEF both, more
<1>7. ASSUME NEW i \in Sources(list, more, f), \A k \in Sources(list, more, f) : i <= k
      PROVE  both[f] = Printing(list[i].digest)[f]
  <2>1. CASE Sources(list, seen, f) = {}
    BY <1>1, <1>3, <1>4, <1>6, <1>7, <2>1
  <2>2. CASE Sources(list, seen, f) # {}
    <3>1. i \in Sources(list, seen, f)
      BY <1>3, <1>5, <1>6, <1>7, <2>2
    <3> QED  BY <1>1, <1>3, <1>4, <1>7, <2>2, <3>1
  <2> QED  BY <2>1, <2>2
<1> QED  BY <1>1, <1>3, <1>4, <1>7

-----------------------------------------------------------------------------
(* What a step does to documents and rows.                                  *)

Grows(t) ==
    \/ docs'[t] = docs[t]
    \/ \E doc : IsAppended(docs[t], doc, docs'[t]) /\ doc.digest \in Attached(mail[t])

(* A step adds at most one document, which the ticket's email attached.     *)
LEMMA DocsGrow ==
    ASSUME DocumentsInv, NEW r \in Runs, Step(r) \/ Restart(r)
    PROVE  UNCHANGED given /\ \A t \in Tickets : Grows(t)
<1>1. UNCHANGED given
  BY Zenon DEF Step, CheckAttachment, StatFile, OpenFile, WriteFile, CreateDocument, ParseRead,
         ParseSave, OcrRead, ListDocuments, ReadDocument, SaveFields, ValidateRead, ListForChecks,
         OwnHashes, FindCandidates, CompareCandidate, SaveOutcome, Restart
<1>2. CASE UNCHANGED docs
  BY <1>1, <1>2 DEF Grows
<1>3. CASE CreateDocument(r) /\ ~UNCHANGED docs
  <2> DEFINE u == works[r]
             doc == Document(Attachment(r))
  <2>1. docs' = [docs EXCEPT ![u] = Append(@, doc)] /\ doc.digest \notin Digests(docs[u])
    BY <1>3 DEF CreateDocument
  <2>2. AtAttachment(r) /\ run[r].pc \in Stage2 \ {"check"}
    BY <1>3 DEF DocumentsInv, FilesFit, CreateDocument, Stage2
  <2>3. Attachment(r) \in AttachmentType /\ doc \in DocumentRow
    BY <2>2, PathFits DEF DocumentsInv
  <2>4. doc.digest \in Attached(mail[u])
    <3>1. doc.digest = Attachment(r).digest
      BY <2>3, DocumentFits
    <3>2. run[r].at \in DOMAIN mail[u].attachments
      BY <2>2 DEF AtAttachment
    <3> QED  BY <3>1, <3>2 DEF Attached, Digests, Attachment
  <2>5. docs \in [Tickets -> Seq(DocumentRow)] /\ u \in Tickets
    BY Inputs DEF DocumentsInv, Typed, RowsTyped
  <2> HIDE DEF doc, u
  <2>6. IsAppended(docs[u], doc, docs'[u])
    BY <2>1, <2>3, <2>5, Appended
  <2>7. \A t \in Tickets \ {u} : docs'[t] = docs[t]
    BY <2>1, <2>5
  <2> QED  BY <1>1, <2>4, <2>6, <2>7 DEF Grows
<1>4. UNCHANGED docs \/ CreateDocument(r)
  BY Zenon DEF Step, CheckAttachment, StatFile, OpenFile, WriteFile, ParseRead,
         ParseSave, OcrRead, ListDocuments, ReadDocument, SaveFields, ValidateRead, ListForChecks,
         OwnHashes, FindCandidates, CompareCandidate, SaveOutcome, Restart, Save, rows
<1> QED  BY <1>2, <1>3, <1>4

(* What a saved row x says, of documents that a body's row is not without. *)
RowFine(t) ==
    /\ row[t].email # <<>> => row'[t].email # <<>>
    /\ row'[t].email # <<>> /\ row[t].email = <<>> => Digests(docs[t]) = Attached(mail[t])
    /\ ContactOf(Stated(mail[t]), row'[t])
    /\ FirstOf(docs[t], row'[t].seen, row'[t].document)

(* A full-row save after stage 2 leaves all rows fine if the row saved is.  *)
LEMMA SaveFine ==
    ASSUME DocumentsInv, ReviewInv, NEW r \in Runs, NEW x, NEW pc, Save(r, x, pc),
           run[r].pc \in PastStage2, x.email # <<>>,
           ContactOf(Stated(mail[works[r]]), x), FirstOf(docs[works[r]], x.seen, x.document)
    PROVE  \A t \in Tickets : RowFine(t)
<1> SUFFICES ASSUME NEW t \in Tickets  PROVE RowFine(t)
  OBVIOUS
<1>1. CASE t = works[r]
  <2>1. row'[t] = x
    BY <1>1, Saved DEF DocumentsInv, Typed
  <2>2. Digests(docs[t]) = Attached(mail[t])
    BY <1>1 DEF ReviewInv, Gathered, RunGathered
  <2> QED  BY <1>1, <2>1, <2>2 DEF RowFine
<1>2. CASE t # works[r]
  <2>1. row'[t] = row[t]
    BY <1>2, Saved DEF DocumentsInv, Typed
  <2> QED  BY <2>1 DEF RowFine, ReviewInv, Gathered, RowGathered, FieldsKnown
<1> QED  BY <1>1, <1>2

(* The save of stage 3 does, and the row has the body's fields after it.    *)
LEMMA ParseSaveFine ==
    ASSUME DocumentsInv, ReviewInv, NEW r \in Runs, ParseSave(r)
    PROVE  (\A t \in Tickets : RowFine(t)) /\ row'[works[r]].email # <<>>
<1> DEFINE m == mail[works[r]]
           old == run[r].row
<1>1. PICK ner \in BOOLEAN : Save(r, WithContact(old, ParseEmailBody(m.body, Blank, ner)), "ocr")
  BY DEF ParseSave
<1> DEFINE parsed == ParseEmailBody(m.body, Blank, ner)
           new == WithContact(old, parsed)
<1>2. IsRow(old) /\ IsBody(m.body)
  BY Inputs DEF DocumentsInv, Typed, RowsTyped, RunsTyped, IsRun
<1>3. new.email # <<>>
  <2>1. parsed \in ParsedBody
    BY <1>2, BodyText DEF ParsedBody, IsText
  <2>2. DOMAIN <<>> = {}
    OBVIOUS
  <2>3. new.email = parsed
    BY <1>2 DEF WithContact, IsRow, Columns
  <2> QED  BY <2>1, <2>2, <2>3 DEF ParsedBody
<1>4. new.seen = old.seen /\ new.document = old.document
      /\ new.contact = [email |-> Or(parsed.email, old.contact.email),
                        phone |-> Or(parsed.phone, old.contact.phone)]
  BY <1>2 DEF WithContact, IsRow, Columns
<1>5. new.contact = [email |-> Stated(m).email, phone |-> Stated(m).phone]
  <2>1. parsed.email = Stated(m).email /\ parsed.phone = Stated(m).phone
    BY ContactWithoutNer DEF Stated
  <2>2. IsText(parsed.email) /\ IsText(parsed.phone)
    BY <1>2, BodyText
  <2> HIDE DEF parsed
  <2>3. old.contact.email \in {Blank, parsed.email} /\ old.contact.phone \in {Blank, parsed.phone}
    <3>1. ContactOf(Stated(m), old)
      BY DEF ReviewInv, Gathered, RunGathered
    <3>2. \/ old.contact = [email |-> Blank, phone |-> Blank]
          \/ old.contact = [email |-> parsed.email, phone |-> parsed.phone]
      BY <2>1, <3>1 DEF ContactOf
    <3> HIDE DEF old
    <3> QED  BY <3>2
  <2>4. Or(parsed.email, old.contact.email) = parsed.email
        /\ Or(parsed.phone, old.contact.phone) = parsed.phone
    BY <2>2, <2>3 DEF Or, IsText
  <2> HIDE DEF new
  <2> QED  BY <1>4, <2>1, <2>4
<1>6. FirstOf(docs[works[r]], old.seen, old.document)
  BY DEF ReviewInv, FieldsKnown, RunFields
<1>7. run[r].pc \in PastStage2
  BY DEF ParseSave, PastStage2, Pcs, Holding, Stage2
<1> HIDE DEF new
<1>8. ContactOf(Stated(m), new) /\ FirstOf(docs[works[r]], new.seen, new.document)
  BY <1>3, <1>4, <1>5, <1>6 DEF ContactOf
<1>9. row'[works[r]] = new
  BY <1>1, Saved DEF DocumentsInv, Typed, new
<1> QED  BY <1>1, <1>3, <1>7, <1>8, <1>9, SaveFine DEF new

(* Every step leaves the rows fine.                                         *)
LEMMA RowsFine ==
    ASSUME DocumentsInv, ReviewInv, NEW r \in Runs, Step(r) \/ Restart(r)
    PROVE  \A t \in Tickets : RowFine(t)
<1> DEFINE u == works[r]
           old == run[r].row
<1>1. IsRow(old) /\ u \in Tickets
  BY Inputs DEF DocumentsInv, Typed, RowsTyped, RunsTyped, IsRun
<1>2. ContactOf(Stated(mail[u]), old) /\ FirstOf(docs[u], old.seen, old.document)
  BY DEF ReviewInv, FieldsKnown, RunFields, Gathered, RunGathered
<1>3. CASE UNCHANGED row
  BY <1>3 DEF RowFine, ReviewInv, Gathered, RowGathered, FieldsKnown
<1>4. CASE SaveFields(r) /\ ~UNCHANGED row
  <2> DEFINE new == WithFields(old, run[r].merged, run[r].seen)
  <2>1. Save(r, new, "validate") /\ run[r].pc = "read"
    BY <1>4 DEF SaveFields, rows
  <2>2. run[r].pc \in PastStage3 \cap Holding
    BY <2>1 DEF PastStage3, PastStage2, Pcs, Holding, Stage2
  <2>3. new.email = old.email /\ new.contact = old.contact
        /\ new.document = run[r].merged /\ new.seen = run[r].seen
    BY <1>1 DEF WithFields, IsRow, Columns
  <2>4. old.email # <<>> /\ FirstOf(docs[u], run[r].seen, run[r].merged)
    BY <2>2 DEF ReviewInv, FieldsKnown, RunFields, Gathered, RunGathered
  <2> HIDE DEF new
  <2>5. ContactOf(Stated(mail[u]), new) /\ FirstOf(docs[u], new.seen, new.document)
    BY <1>2, <2>3, <2>4 DEF ContactOf
  <2> QED  BY <2>1, <2>2, <2>3, <2>4, <2>5, SaveFine DEF PastStage3
<1>5. CASE SaveOutcome(r)
  <2>1. Save(r, old, "done") /\ run[r].pc = "save_outcome"
    BY <1>5 DEF SaveOutcome
  <2>2. run[r].pc \in PastStage3 \cap Holding
    BY <2>1 DEF PastStage3, PastStage2, Pcs, Holding, Stage2
  <2>3. old.email # <<>>
    BY <2>2 DEF ReviewInv, Gathered, RunGathered
  <2> QED  BY <1>2, <2>1, <2>2, <2>3, SaveFine DEF PastStage3
<1>6. CASE ValidateRead(r)
  <2> DEFINE awaiting == [row[u] EXCEPT !.outcome = "open"]
  <2>1. row' = [row EXCEPT ![u] = awaiting]
    BY <1>6 DEF ValidateRead
  <2>2. IsRow(row[u]) /\ row = [t \in Tickets |-> row[t]]
    BY <1>1 DEF DocumentsInv, Typed, RowsTyped
  <2>3. awaiting.email = row[u].email /\ awaiting.contact = row[u].contact
        /\ awaiting.seen = row[u].seen /\ awaiting.document = row[u].document
    BY <2>2 DEF IsRow, Columns
  <2> HIDE DEF awaiting
  <2>4. \A t \in Tickets : row'[t] = IF t = u THEN awaiting ELSE row[t]
    BY <1>1, <2>1, <2>2
  <2> QED  BY <2>3, <2>4
           DEF RowFine, ReviewInv, Gathered, RowGathered, FieldsKnown, ContactOf
<1>7. UNCHANGED row \/ ParseSave(r) \/ SaveFields(r) \/ SaveOutcome(r) \/ ValidateRead(r)
  BY Zenon DEF Step, CheckAttachment, StatFile, OpenFile, WriteFile, CreateDocument, ParseRead,
         OcrRead, ListDocuments, ReadDocument, ListForChecks, OwnHashes, FindCandidates,
         CompareCandidate, Restart, rows
<1> QED  BY <1>3, <1>4, <1>5, <1>6, <1>7, ParseSaveFine

TicketReviewed(t) ==
    /\ FirstOf(docs[t], row[t].seen, row[t].document)
    /\ RowGathered(mail[t], docs[t], row[t])

RunReviewed(r) ==
    /\ RunFields(docs[works[r]], run[r])
    /\ Checked(run[r])
    /\ RunGathered(mail[works[r]], docs[works[r]], row[works[r]], run[r])
    /\ Kept(mail, row, works[r], run[r])

(* The invariant, ticket by ticket and run by run.                          *)
LEMMA Reviewed == ReviewInv <=> (\A t \in Tickets : TicketReviewed(t)) /\ \A r \in Runs : RunReviewed(r)
BY DEF ReviewInv, FieldsKnown, ApprovalChecked, Gathered, DuplicatesKept, TicketReviewed, RunReviewed

(* Documents stay, and among those of the email. *)
LEMMA DigestsGrow ==
    ASSUME NEW t \in Tickets, Grows(t), TicketReviewed(t)
    PROVE  /\ Digests(docs[t]) \subseteq Digests(docs'[t])
           /\ Digests(docs'[t]) \subseteq Attached(mail[t])
           /\ Digests(docs[t]) = Attached(mail[t]) => Digests(docs'[t]) = Attached(mail[t])
<1>1. Digests(docs[t]) \subseteq Attached(mail[t])
  BY DEF TicketReviewed, RowGathered
<1>2. CASE docs'[t] = docs[t]
  BY <1>1, <1>2
<1>3. ASSUME NEW doc, IsAppended(docs[t], doc, docs'[t]), doc.digest \in Attached(mail[t])
      PROVE  Digests(docs'[t]) = Digests(docs[t]) \cup {doc.digest}
  BY <1>3, DigestsAppended
<1> QED  BY <1>1, <1>2, <1>3 DEF Grows

(* A ticket's part survives new documents and a fine row.                   *)
LEMMA TicketKept ==
    ASSUME NEW t \in Tickets, Grows(t), RowFine(t), TicketReviewed(t), UNCHANGED given
    PROVE  TicketReviewed(t)'
<1>1. FirstOf(docs'[t], row'[t].seen, row'[t].document)
  <2>1. FirstOf(docs[t], row'[t].seen, row'[t].document)
    BY DEF RowFine
  <2> QED  BY <2>1, FirstOfAppended DEF Grows
<1>2. RowGathered(mail[t], docs'[t], row'[t])
  BY DigestsGrow DEF RowFine, RowGathered, TicketReviewed
<1> QED  BY <1>1, <1>2 DEF TicketReviewed, given

(* Runs that are where they were. *)
SameRun(x, y) ==
    /\ y.pc = x.pc /\ y.at = x.at /\ y.row = x.row /\ y.list = x.list /\ y.merged = x.merged
    /\ y.seen = x.seen /\ y.hashes = x.hashes /\ y.candidates = x.candidates /\ y.early = x.early

(* A run's part survives the steps of other runs.                           *)
LEMMA OtherKept ==
    ASSUME DocumentsInv, ReviewInv, NEW r \in Runs, Step(r) \/ Restart(r), NEW s \in Runs, s # r
    PROVE  RunReviewed(s)'
<1> DEFINE t == works[s]
           x == run[s]
           y == run'[s]
<1>1. /\ t \in Tickets /\ IsRun(x) /\ works' = works /\ mail' = mail
      /\ TicketReviewed(t) /\ RunReviewed(s) /\ Grows(t) /\ \A u \in Tickets : RowFine(u)
  BY Inputs, Reviewed, DocsGrow, RowsFine DEF DocumentsInv, Typed, RowsTyped, RunsTyped, given
<1>2. SameRun(x, y)
  BY OthersStay DEF DocumentsInv, SameRun
<1> HIDE DEF x, y, t
<1>3. RunFields(docs'[t], y)
  <2>1. RunFields(docs[t], x)
    BY <1>1 DEF RunReviewed, x, t
  <2>2. RunFields(docs'[t], x)
    BY <1>1, <2>1, RunFieldsAppended DEF Grows
  <2> QED  BY <1>2, <2>2 DEF RunFields, InOrder, SameRun
<1>4. Checked(y)
  <2>1. Checked(x)
    BY <1>1 DEF RunReviewed, x
  <2> QED  BY <1>2, <2>1 DEF Checked, Approving, SameRun
<1>5. RunGathered(mail[t], docs'[t], row'[t], y)
  <2>1. RunGathered(mail[t], docs[t], row[t], x)
    BY <1>1 DEF RunReviewed, x, t
  <2>2. row[t].email # <<>> => row'[t].email # <<>>
    BY <1>1 DEF RowFine
  <2>3. Digests(docs[t]) \subseteq Digests(docs'[t])
        /\ (Digests(docs[t]) = Attached(mail[t]) => Digests(docs'[t]) = Attached(mail[t]))
    BY <1>1, DigestsGrow
  <2> QED  BY <1>2, <2>1, <2>2, <2>3 DEF RunGathered, SameRun
<1>6. Kept(mail, row', t, y)
  <2>1. Kept(mail, row, t, x)
    BY <1>1 DEF RunReviewed, x, t
  <2>2. \A u \in Tickets : row[u].email # <<>> => row'[u].email # <<>>
    BY <1>1 DEF RowFine
  <2>3. Late(mail, t, y) = Late(mail, t, x)
    BY <1>2 DEF Late, SameRun
  <2> QED  BY <1>2, <2>1, <2>2, <2>3 DEF Kept, SameRun, Approving
<1> QED  BY <1>1, <1>3, <1>4, <1>5, <1>6 DEF RunReviewed, t, y

-----------------------------------------------------------------------------
(* What a step does to its run.                                             *)

(* What the invariant gives a step of run r.                                *)
LEMMA Own ==
    ASSUME DocumentsInv, ReviewInv, NEW r \in Runs, Step(r) \/ Restart(r)
    PROVE  /\ works[r] \in Tickets /\ IsRun(run[r]) /\ RunsTyped /\ RowsTyped
           /\ works' = works /\ mail' = mail
           /\ TicketReviewed(works[r]) /\ RunReviewed(r) /\ Grows(works[r])
           /\ \A u \in Tickets : RowFine(u)
           /\ Len(mail[works[r]].attachments) \in Nat
           /\ DOMAIN mail[works[r]].attachments = 1..Len(mail[works[r]].attachments)
<1>1. /\ works[r] \in Tickets /\ IsRun(run[r]) /\ RunsTyped /\ RowsTyped
      /\ mail[works[r]].attachments \in Seq(AttachmentType)
  BY Inputs DEF DocumentsInv, Typed, RowsTyped, RunsTyped
<1>2. /\ works' = works /\ mail' = mail /\ Grows(works[r])
  BY <1>1, DocsGrow DEF given
<1>3. TicketReviewed(works[r]) /\ RunReviewed(r) /\ \A u \in Tickets : RowFine(u)
  BY <1>1, Reviewed, RowsFine
<1> QED  BY <1>1, <1>2, <1>3, LenProperties

(* A stage that starts knows nothing yet.                                   *)
LEMMA StartedKept ==
    ASSUME DocumentsInv, ReviewInv, NEW r \in Runs, Step(r) \/ Restart(r),
           NEW pc \in Pcs \ Holding, run'[r] = Start(pc),
           pc \in PastStage2 => Digests(docs'[works[r]]) = Attached(mail[works[r]]),
           pc \in PastStage3 => row'[works[r]].email # <<>>
    PROVE  RunReviewed(r)'
<1> DEFINE t == works[r]
           y == run'[r]
<1>1. /\ t \in Tickets /\ works' = works /\ mail' = mail
      /\ Len(mail[t].attachments) \in Nat
      /\ DOMAIN mail[t].attachments = 1..Len(mail[t].attachments)
  BY Own
<1>2. /\ y.pc = pc /\ y.at = 1 /\ y.row = NewRow /\ y.merged = <<>> /\ y.seen = {}
      /\ pc \notin {"read", "save_outcome", "find", "compare"}
  <2>1. /\ y.pc = pc /\ y.at = 1 /\ y.row = NewRow /\ y.merged = <<>> /\ y.seen = {}
    <3>1. /\ Start(pc).pc = pc /\ Start(pc).at = 1 /\ Start(pc).row = NewRow
          /\ Start(pc).merged = <<>> /\ Start(pc).seen = {}
      BY StartedAt, Zenon
    <3>2. y = Start(pc)
      OBVIOUS
    <3> QED  BY <3>1, <3>2, Zenon
  <2> QED  BY <2>1 DEF Holding
<1>3. /\ NewRow.email = <<>> /\ NewRow.document = <<>> /\ NewRow.seen = {}
      /\ NewRow.contact = [email |-> Blank, phone |-> Blank]
  BY DEF NewRow
<1> HIDE DEF y, t
<1>4. RunFields(docs'[t], y)
  BY <1>2, <1>3, NothingRead DEF RunFields, InOrder
<1>5. Checked(y) /\ Kept(mail, row', t, y)
  BY <1>2 DEF Checked, Kept, Approving
<1>6. RunGathered(mail[t], docs'[t], row'[t], y)
  BY <1>1, <1>2, <1>3 DEF RunGathered, ContactOf, t, PastStage3
<1> QED  BY <1>1, <1>4, <1>5, <1>6 DEF RunReviewed, t, y

(* In stage 2 a run reads nothing; what it has stored is there. *)
LEMMA StageTwoKept ==
    ASSUME DocumentsInv, ReviewInv, NEW r \in Runs, Step(r),
           run[r].pc \in Stage2, run'[r].pc \in Stage2,
           run'[r].row = run[r].row, run'[r].seen = run[r].seen, run'[r].merged = run[r].merged,
           \A i \in DOMAIN mail[works[r]].attachments :
               i < run'[r].at => mail[works[r]].attachments[i].digest \in Digests(docs'[works[r]])
    PROVE  RunReviewed(r)'
<1> DEFINE t == works[r]
           x == run[r]
           y == run'[r]
<1>1. /\ t \in Tickets /\ IsRun(x) /\ works' = works /\ mail' = mail
      /\ RunReviewed(r) /\ Grows(t)
  BY Own
<1>2. /\ x.pc \notin {"read", "save_outcome", "find", "compare"}
      /\ y.pc \notin {"read", "save_outcome", "find", "compare"}
      /\ y.pc \notin PastStage2 \cup PastStage3
  BY DEF Stage2, PastStage2, PastStage3
<1>3. RunFields(docs[t], x) /\ RunGathered(mail[t], docs[t], row[t], x)
  BY <1>1 DEF RunReviewed
<1>4. \A i \in DOMAIN mail[t].attachments :
          i < y.at => mail[t].attachments[i].digest \in Digests(docs'[t])
  OBVIOUS
<1>5. y.row = x.row /\ y.seen = x.seen /\ y.merged = x.merged
  OBVIOUS
<1> HIDE DEF x, y, t
<1>6. RunFields(docs'[t], y)
  <2>1. RunFields(docs'[t], x)
    BY <1>1, <1>3, RunFieldsAppended DEF Grows
  <2> QED  BY <1>2, <1>5, <2>1 DEF RunFields, InOrder
<1>7. Checked(y) /\ Kept(mail, row', t, y)
  BY <1>2 DEF Checked, Kept, Approving
<1>8. RunGathered(mail[t], docs'[t], row'[t], y)
  BY <1>2, <1>3, <1>4, <1>5 DEF RunGathered
<1> QED  BY <1>1, <1>6, <1>7, <1>8 DEF RunReviewed, t, y

(* The loop of stage 2: attachments before at have their rows.              *)
LEMMA CheckAttachmentKept ==
    ASSUME DocumentsInv, ReviewInv, NEW r \in Runs, CheckAttachment(r)
    PROVE  RunReviewed(r)'
<1> DEFINE t == works[r]
           x == run[r]
           atts == mail[t].attachments
<1>1. /\ Step(r) /\ IsRun(x) /\ RunsTyped /\ RunGathered(mail[t], docs[t], row[t], x)
      /\ Digests(docs[t]) \subseteq Attached(mail[t])
      /\ Len(atts) \in Nat /\ DOMAIN atts = 1..Len(atts)
  BY Own DEF Step, RunReviewed, TicketReviewed, RowGathered
<1>2. UNCHANGED <<docs, row>> /\ x.pc = "check" /\ x.at \in Nat \ {0}
  BY <1>1 DEF CheckAttachment, rows, IsRun
<1>3. \A i \in DOMAIN atts : i < x.at => atts[i].digest \in Digests(docs[t])
  BY <1>1, <1>2 DEF RunGathered, Stage2
<1>4. CASE x.at > Len(atts)
  <2>1. run'[r] = Start("parse")
    BY <1>1, <1>4, Continued DEF CheckAttachment, Enter
  <2>2. Digests(docs[t]) = Attached(mail[t])
    <3>1. \A i \in DOMAIN atts : i < x.at
      BY <1>1, <1>2, <1>4
    <3>2. \A i \in DOMAIN atts : atts[i].digest \in Digests(docs[t])
      BY <1>3, <3>1
    <3>3. Attached(mail[t]) \subseteq Digests(docs[t])
      BY <3>2 DEF Attached, Digests
    <3> QED  BY <1>1, <3>3
  <2>3. "parse" \in Pcs \ Holding /\ "parse" \notin PastStage3
    BY DEF Pcs, Holding, PastStage3
  <2> QED  BY <1>1, <1>2, <2>1, <2>2, <2>3, StartedKept
<1>5. CASE ~(x.at > Len(atts)) /\ Attachment(r).digest \in Digests(docs[t])
  <2>1. Continue(r, [x EXCEPT !.at = @ + 1])
    BY <1>5 DEF CheckAttachment
  <2>2. /\ run'[r].pc = "check" /\ run'[r].at = x.at + 1 /\ run'[r].row = x.row
        /\ run'[r].seen = x.seen /\ run'[r].merged = x.merged
    BY <1>1, <1>2, <2>1, Continued DEF IsRun, Locals
  <2>3. \A i \in DOMAIN atts : i < run'[r].at => atts[i].digest \in Digests(docs[t])
    BY <1>1, <1>2, <1>3, <1>5, <2>2 DEF Attachment
  <2> QED  BY <1>1, <1>2, <2>2, <2>3, StageTwoKept DEF Stage2
<1>6. CASE ~(x.at > Len(atts)) /\ Attachment(r).digest \notin Digests(docs[t])
  <2>1. Continue(r, [x EXCEPT !.pc = "stat"])
    BY <1>6 DEF CheckAttachment
  <2>2. /\ run'[r].pc = "stat" /\ run'[r].at = x.at /\ run'[r].row = x.row
        /\ run'[r].seen = x.seen /\ run'[r].merged = x.merged
    BY <1>1, <2>1, Continued DEF IsRun, Locals
  <2> QED  BY <1>1, <1>2, <1>3, <2>2, StageTwoKept DEF Stage2
<1> QED  BY <1>4, <1>5, <1>6

(* The file operations of stage 2 change no row.                            *)
LEMMA FileStepsKept ==
    ASSUME DocumentsInv, ReviewInv, NEW r \in Runs, StatFile(r) \/ OpenFile(r) \/ WriteFile(r)
    PROVE  RunReviewed(r)'
<1> DEFINE t == works[r]
           x == run[r]
           atts == mail[t].attachments
<1>1. /\ Step(r) /\ IsRun(x) /\ RunsTyped /\ RunGathered(mail[t], docs[t], row[t], x)
  BY Own DEF Step, RunReviewed
<1>2. UNCHANGED docs /\ x.pc \in Stage2
  BY DEF StatFile, OpenFile, WriteFile, rows, Stage2
<1>3. \E pc \in Stage2 : Continue(r, [x EXCEPT !.pc = pc])
  BY DEF StatFile, OpenFile, WriteFile, Stage2
<1>4. /\ run'[r].pc \in Stage2 /\ run'[r].at = x.at /\ run'[r].row = x.row
      /\ run'[r].seen = x.seen /\ run'[r].merged = x.merged
  BY <1>1, <1>3, Continued DEF IsRun, Locals
<1>5. \A i \in DOMAIN atts : i < x.at => atts[i].digest \in Digests(docs[t])
  BY <1>1, <1>2 DEF RunGathered
<1> QED  BY <1>1, <1>2, <1>4, <1>5, StageTwoKept

(* The INSERT of stage 2 gives the attachment its row.                      *)
LEMMA CreateDocumentKept ==
    ASSUME DocumentsInv, ReviewInv, NEW r \in Runs, CreateDocument(r)
    PROVE  RunReviewed(r)'
<1> DEFINE t == works[r]
           x == run[r]
           atts == mail[t].attachments
           doc == Document(Attachment(r))
<1>1. /\ Step(r) /\ IsRun(x) /\ RunsTyped /\ RunGathered(mail[t], docs[t], row[t], x)
      /\ TicketReviewed(t) /\ Grows(t) /\ t \in Tickets /\ RowsTyped
      /\ Len(atts) \in Nat /\ DOMAIN atts = 1..Len(atts)
  BY Own DEF Step, RunReviewed
<1>2. x.pc = "create" /\ x.at \in Nat \ {0}
  BY <1>1 DEF CreateDocument, IsRun
<1>3. CASE doc.digest \in Digests(docs[t])
  <2>1. run'[r] = Start("check")
    BY <1>1, <1>3, Continued DEF CreateDocument, Enter
  <2>2. "check" \in Pcs \ Holding /\ "check" \notin PastStage2 \cup PastStage3
    BY DEF Pcs, Holding, PastStage3, PastStage2, Stage2
  <2> QED  BY <1>1, <2>1, <2>2, StartedKept
<1>4. CASE doc.digest \notin Digests(docs[t])
  <2>1. /\ docs' = [docs EXCEPT ![t] = Append(@, doc)]
        /\ Continue(r, [x EXCEPT !.pc = "check", !.at = @ + 1])
    BY <1>4 DEF CreateDocument
  <2>2. /\ run'[r].pc = "check" /\ run'[r].at = x.at + 1 /\ run'[r].row = x.row
        /\ run'[r].seen = x.seen /\ run'[r].merged = x.merged
    BY <1>1, <2>1, Continued DEF IsRun, Locals
  <2>3. Attachment(r) \in AttachmentType /\ doc \in DocumentRow
    BY <1>2, PathFits DEF DocumentsInv, FilesFit, Stage2
  <2>4. doc.digest = Attachment(r).digest
    BY <2>3, DocumentFits
  <2>5. Digests(docs'[t]) = Digests(docs[t]) \cup {doc.digest}
    <3>1. docs \in [Tickets -> Seq(DocumentRow)]
      BY <1>1 DEF RowsTyped
    <3> HIDE DEF doc, t
    <3>2. IsAppended(docs[t], doc, docs'[t])
      BY <1>1, <1>4, <2>1, <2>3, <3>1, Appended
    <3> QED  BY <3>2, DigestsAppended
  <2>6. \A i \in DOMAIN atts : i < run'[r].at => atts[i].digest \in Digests(docs'[t])
    <3>1. \A i \in DOMAIN atts : i < x.at => atts[i].digest \in Digests(docs[t])
      BY <1>1, <1>2 DEF RunGathered, Stage2
    <3>2. \A i \in DOMAIN atts : i < x.at + 1 => i < x.at \/ i = x.at
      BY <1>1, <1>2
    <3> HIDE DEF doc
    <3> QED  BY <2>2, <2>4, <2>5, <3>1, <3>2 DEF Attachment
  <2> QED  BY <1>1, <1>2, <2>2, <2>6, StageTwoKept DEF Stage2
<1> QED  BY <1>3, <1>4

(* A save, or a restart, ends what the run had in hand.                     *)
LEMMA SavesKept ==
    ASSUME DocumentsInv, ReviewInv, NEW r \in Runs,
           ParseSave(r) \/ SaveFields(r) \/ SaveOutcome(r) \/ Restart(r)
    PROVE  RunReviewed(r)'
<1> DEFINE t == works[r]
           x == run[r]
<1>1. /\ Step(r) \/ Restart(r)
      /\ t \in Tickets /\ IsRun(x) /\ RunsTyped /\ RowsTyped
      /\ RunGathered(mail[t], docs[t], row[t], x) /\ RowFine(t)
  BY Own DEF Step, RunReviewed
<1>2. UNCHANGED docs
  BY DEF ParseSave, SaveFields, SaveOutcome, Restart, Save, rows
<1>3. /\ x.pc \in PastStage2 => Digests(docs[t]) = Attached(mail[t])
      /\ x.pc \in PastStage3 => row'[t].email # <<>>
  BY <1>1 DEF RunGathered, RowFine
<1>4. CASE ParseSave(r)
  <2>1. run'[r] = Start("ocr")
    BY <1>1, <1>4, Saved DEF ParseSave
  <2>2. "ocr" \in Pcs \ Holding /\ x.pc \in PastStage2
    BY <1>4 DEF Pcs, Holding, PastStage2, Stage2, ParseSave
  <2>3. row'[t].email # <<>>
    BY <1>4, ParseSaveFine
  <2> QED  BY <1>1, <1>2, <1>3, <2>1, <2>2, <2>3, StartedKept
<1>5. CASE SaveFields(r)
  <2>1. run'[r] = Start("validate") \/ run'[r] = Start("failed")
    BY <1>1, <1>5, Saved, Continued DEF SaveFields, Enter
  <2>2. {"validate", "failed"} \subseteq Pcs \ Holding /\ x.pc \in PastStage3
        /\ x.pc \in PastStage2
    BY <1>5 DEF Pcs, Holding, PastStage3, PastStage2, Stage2, SaveFields
  <2> QED  BY <1>1, <1>2, <1>3, <2>1, <2>2, StartedKept
<1>6. CASE SaveOutcome(r)
  <2>1. run'[r] = Start("done")
    BY <1>1, <1>6, Saved DEF SaveOutcome
  <2>2. "done" \in Pcs \ Holding /\ x.pc \in PastStage3 /\ x.pc \in PastStage2
    BY <1>6 DEF Pcs, Holding, PastStage3, PastStage2, Stage2, SaveOutcome
  <2> QED  BY <1>1, <1>2, <1>3, <2>1, <2>2, StartedKept
<1>7. CASE Restart(r)
  <2> DEFINE pc == StageOf(x.pc)
  <2>1. run'[r] = Start(pc)
    BY <1>1, <1>7, Continued DEF Restart, Enter
  <2>2. /\ pc \in Pcs \ Holding
        /\ pc \in PastStage2 => x.pc \in PastStage2
        /\ pc \in PastStage3 => x.pc \in PastStage3
    BY <1>1, <1>7
       DEF StageOf, IsRun, Pcs, Holding, PastStage3, PastStage2, Stage2, Restart
  <2> HIDE DEF pc
  <2> QED  BY <1>1, <1>2, <1>3, <2>1, <2>2, StartedKept
<1> QED  BY <1>4, <1>5, <1>6, <1>7

(* From stage 3 on no step creates a document. *)
LEMMA LateOwn ==
    ASSUME DocumentsInv, ReviewInv, NEW r \in Runs, LateStep(r)
    PROVE  /\ Step(r) /\ UNCHANGED docs /\ run[r].pc \in PastStage2
           /\ run'[r].pc \in PastStage2 /\ run'[r].pc \notin Stage2
           /\ Digests(docs[works[r]]) = Attached(mail[works[r]])
           /\ run[r].pc \in PastStage3 =>
                  row[works[r]].email # <<>> /\ row'[works[r]].email # <<>>
<1>1. Step(r)
  BY DEF LateStep, Step
<1>2. UNCHANGED docs
  BY Zenon DEF LateStep, ParseRead, ParseSave, OcrRead, ListDocuments, ReadDocument, SaveFields,
         ValidateRead, ListForChecks, OwnHashes, FindCandidates, CompareCandidate, SaveOutcome,
         Save, rows
<1>3. run'[r].pc \in Pcs \ Stage2 /\ run[r].pc \in Pcs \ Stage2
  BY LatePc DEF DocumentsInv
<1>4. works[r] \in Tickets /\ RunGathered(mail[works[r]], docs[works[r]], row[works[r]], run[r])
      /\ RowFine(works[r])
  BY <1>1, Own DEF RunReviewed
<1> QED  BY <1>1, <1>2, <1>3, <1>4 DEF PastStage2, RunGathered, RowFine

(* What is left to show of a run that goes on with the row it has in hand. *)
LEMMA LateKept ==
    ASSUME DocumentsInv, ReviewInv, NEW r \in Runs, LateStep(r),
           run'[r].pc \in PastStage3 =>
               run[r].pc \in PastStage3 /\ run'[r].row.email # <<>>,
           ContactOf(Stated(mail[works[r]]), run'[r].row),
           RunFields(docs[works[r]], run'[r]), Checked(run'[r]),
           Kept(mail, row', works[r], run'[r])
    PROVE  RunReviewed(r)'
<1> DEFINE t == works[r]
           y == run'[r]
<1>1. /\ Step(r) /\ UNCHANGED docs /\ y.pc \notin Stage2
      /\ Digests(docs[t]) = Attached(mail[t])
      /\ run[r].pc \in PastStage3 => row'[t].email # <<>>
  BY LateOwn
<1>2. works' = works /\ mail' = mail
  BY <1>1, Own
<1>3. /\ y.pc \in PastStage3 => run[r].pc \in PastStage3 /\ y.row.email # <<>>
      /\ ContactOf(Stated(mail[t]), y.row) /\ RunFields(docs[t], y) /\ Checked(y)
      /\ Kept(mail, row', t, y)
  OBVIOUS
<1> HIDE DEF t, y
<1>4. RunGathered(mail[t], docs[t], row'[t], y)
  BY <1>1, <1>3 DEF RunGathered
<1> QED  BY <1>1, <1>2, <1>3, <1>4 DEF RunReviewed, t, y

(* Where nothing is compared or decided yet. *)
LEMMA Undecided ==
    ASSUME NEW y, y.pc \notin {"find", "compare", "save_outcome"}
    PROVE  Checked(y) /\ \A mails, table, u : Kept(mails, table, u, y)
BY DEF Checked, Kept, Approving

(* Stages 3 and 4 copy a row that the invariant holds of.                   *)
LEMMA ReadsKept ==
    ASSUME DocumentsInv, ReviewInv, NEW r \in Runs, ParseRead(r) \/ OcrRead(r)
    PROVE  RunReviewed(r)'
<1> DEFINE t == works[r]
           x == run[r]
           y == run'[r]
<1>1. LateStep(r) /\ Step(r) /\ IsRun(x) /\ RunsTyped /\ t \in Tickets
      /\ RunFields(docs[t], x) /\ RunGathered(mail[t], docs[t], row[t], x) /\ TicketReviewed(t)
  BY Own DEF LateStep, Step, RunReviewed
<1>2. \/ x.pc = "parse" /\ Read(r, "save_contact")
      \/ x.pc = "ocr" /\ Read(r, "list")
  BY DEF ParseRead, OcrRead
<1>3. \A pc : Read(r, pc) => /\ y.pc = pc /\ y.row = row[t] /\ y.seen = x.seen
                             /\ y.merged = x.merged
  <2> SUFFICES ASSUME NEW pc, Read(r, pc)
               PROVE  /\ y.pc = pc /\ y.row = row[t] /\ y.seen = x.seen
                      /\ y.merged = x.merged
    OBVIOUS
  <2> DEFINE n == [x EXCEPT !.pc = pc, !.row = row[t], !.stale = FALSE]
  <2>1. n.pc = pc /\ n.row = row[t] /\ n.seen = x.seen /\ n.merged = x.merged
    BY <1>1 DEF IsRun, Locals
  <2>2. Continue(r, n)
    BY DEF Read
  <2> HIDE DEF n
  <2>3. y = n
    BY <1>1, <2>2, Continued
  <2> QED  BY <2>1, <2>3
<1>4. y.row = row[t] /\ y.seen = x.seen /\ y.merged = x.merged
  BY <1>2, <1>3
<1>5. \/ x.pc = "parse" /\ y.pc = "save_contact"
      \/ x.pc = "ocr" /\ y.pc = "list"
  BY <1>2, <1>3
<1>6. FirstOf(docs[t], row[t].seen, row[t].document) /\ ContactOf(Stated(mail[t]), row[t])
  BY <1>1 DEF TicketReviewed, RowGathered
<1>7. y.pc \in PastStage3 => x.pc \in PastStage3 /\ row[t].email # <<>>
  <2>1. CASE y.pc = "save_contact"
    BY <2>1 DEF PastStage3
  <2>2. CASE x.pc = "ocr"
    BY <1>1, <2>2 DEF PastStage3, PastStage2, Pcs, Stage2, RunGathered
  <2> QED  BY <1>5, <2>1, <2>2
<1> HIDE DEF x, y, t
<1>8. RunFields(docs[t], y)
  BY <1>1, <1>4, <1>5, <1>6 DEF RunFields, InOrder
<1>9. Checked(y) /\ Kept(mail, row', t, y)
  BY <1>5, Undecided
<1> QED  BY <1>1, <1>4, <1>6, <1>7, <1>8, <1>9, LateKept DEF x, y, t

(* So does stage 5.                                                         *)
LEMMA ValidateReadKept ==
    ASSUME DocumentsInv, ReviewInv, NEW r \in Runs, ValidateRead(r)
    PROVE  RunReviewed(r)'
<1> DEFINE t == works[r]
           x == run[r]
           y == run'[r]
           awaiting == [row[t] EXCEPT !.outcome = "open"]
<1>1. LateStep(r) /\ Step(r) /\ IsRun(x) /\ RunsTyped /\ t \in Tickets /\ IsRow(row[t])
      /\ RunFields(docs[t], x) /\ RunGathered(mail[t], docs[t], row[t], x) /\ TicketReviewed(t)
  BY Own DEF LateStep, Step, RunReviewed, RowsTyped
<1>2. x.pc = "validate"
      /\ Continue(r, [x EXCEPT !.pc = "documents", !.row = awaiting, !.stale = FALSE])
  BY DEF ValidateRead
<1>3. awaiting.email = row[t].email /\ awaiting.contact = row[t].contact
      /\ awaiting.seen = row[t].seen /\ awaiting.document = row[t].document
  BY <1>1 DEF IsRow, Columns
<1> HIDE DEF awaiting
<1>4. y.pc = "documents" /\ y.row = awaiting /\ y.seen = x.seen /\ y.merged = x.merged
  <2> DEFINE n == [x EXCEPT !.pc = "documents", !.row = awaiting, !.stale = FALSE]
  <2>1. n.pc = "documents" /\ n.row = awaiting /\ n.seen = x.seen /\ n.merged = x.merged
    BY <1>1 DEF IsRun, Locals
  <2> HIDE DEF n
  <2>2. y = n
    BY <1>1, <1>2, Continued DEF n
  <2> QED  BY <2>1, <2>2
<1>5. FirstOf(docs[t], row[t].seen, row[t].document) /\ ContactOf(Stated(mail[t]), row[t])
  BY <1>1 DEF TicketReviewed, RowGathered
<1>6. x.pc \in PastStage3 /\ row[t].email # <<>>
  BY <1>1, <1>2 DEF PastStage3, PastStage2, Pcs, Stage2, RunGathered
<1> HIDE DEF x, y, t
<1>7. RunFields(docs[t], y)
  BY <1>1, <1>2, <1>3, <1>4, <1>5 DEF RunFields, InOrder
<1>8. Checked(y) /\ Kept(mail, row', t, y)
  BY <1>4, Undecided
<1>9. ContactOf(Stated(mail[t]), y.row) /\ y.row.email # <<>>
  BY <1>3, <1>4, <1>5, <1>6 DEF ContactOf
<1> QED  BY <1>1, <1>6, <1>7, <1>8, <1>9, LateKept DEF x, y, t

(* Stage 4 has read no document of the list it begins.                      *)
LEMMA ListDocumentsKept ==
    ASSUME DocumentsInv, ReviewInv, NEW r \in Runs, ListDocuments(r)
    PROVE  RunReviewed(r)'
<1> DEFINE t == works[r]
           x == run[r]
           y == run'[r]
<1>1. LateStep(r) /\ Step(r) /\ IsRun(x) /\ RunsTyped /\ t \in Tickets
      /\ docs[t] \in Seq(DocumentRow)
      /\ RunFields(docs[t], x) /\ RunGathered(mail[t], docs[t], row[t], x)
  BY Own DEF LateStep, Step, RunReviewed, RowsTyped
<1>2. x.pc = "list" /\ Continue(r, [x EXCEPT !.pc = "read", !.list = docs[t]])
  BY DEF ListDocuments
<1>3. /\ y.pc = "read" /\ y.list = docs[t] /\ y.row = x.row /\ y.seen = x.seen
      /\ y.merged = x.merged
  <2> DEFINE n == [x EXCEPT !.pc = "read", !.list = docs[t]]
  <2>1. /\ n.pc = "read" /\ n.list = docs[t] /\ n.row = x.row /\ n.seen = x.seen
        /\ n.merged = x.merged
    BY <1>1 DEF IsRun, Locals
  <2> HIDE DEF n
  <2>2. y = n
    BY <1>1, <1>2, Continued DEF n
  <2> QED  BY <2>1, <2>2
<1>4. x.pc \in PastStage3 /\ x.row.email # <<>>
  BY <1>1, <1>2 DEF PastStage3, PastStage2, Pcs, Holding, Stage2, RunGathered
<1>5. ContactOf(Stated(mail[t]), x.row)
  BY <1>1 DEF RunGathered
<1>6. Len(docs[t]) \in Nat /\ DOMAIN docs[t] = 1..Len(docs[t])
  BY <1>1, LenProperties
<1> HIDE DEF x, y, t
<1>7. RunFields(docs[t], y)
  <2>1. y.seen = {}
    BY <1>1, <1>2, <1>3 DEF RunFields, InOrder
  <2>2. 0 \in 0..Len(docs[t]) /\ 0 + Len(docs[t]) <= Len(docs[t])
        /\ \A i \in DOMAIN docs[t] : 0 + i = i
    BY <1>6
  <2>3. InOrder(docs[t], y)
    BY <1>3, <2>1, <2>2 DEF InOrder
  <2> QED  BY <1>1, <1>3, <2>3 DEF RunFields
<1>8. Checked(y) /\ Kept(mail, row', t, y)
  BY <1>3, Undecided
<1> QED  BY <1>1, <1>3, <1>4, <1>5, <1>7, <1>8, LateKept DEF x, y, t

(* One more document of the list is behind the run; d are the hashes read.  *)
LEMMA OneMoreRead ==
    ASSUME NEW list \in Seq(DocumentRow), NEW x, IsRun(x), InOrder(list, x), x.pc = "read",
           x.list # <<>>,
           \A i, k \in DOMAIN list : list[i].digest = list[k].digest => i = k,
           NEW d \in {x.seen, x.seen \cup {Head(x.list).digest}},
           NEW y, y.pc = "read", y.list = Tail(x.list), y.seen = d
    PROVE  /\ InOrder(list, y)
           /\ \E n \in DOMAIN list : /\ Head(x.list) = list[n]
                                     /\ \A i \in DOMAIN list : list[i].digest \in x.seen => i < n
<1>1. PICK n \in 0..Len(list) :
          /\ n + Len(x.list) <= Len(list)
          /\ \A i \in DOMAIN x.list : x.list[i] = list[n + i]
          /\ \A i \in DOMAIN list : list[i].digest \in x.seen => i <= n
  BY DEF InOrder
<1>2. x.list \in Seq(DocumentRow) /\ Len(x.list) \in Nat \ {0} /\ DOMAIN x.list = 1..Len(x.list)
      /\ Len(list) \in Nat /\ DOMAIN list = 1..Len(list)
  BY LenProperties, EmptySeq DEF IsRun
<1>3. /\ Head(x.list) = x.list[1] /\ Len(Tail(x.list)) = Len(x.list) - 1
      /\ DOMAIN Tail(x.list) = 1..(Len(x.list) - 1)
      /\ \A i \in 1..(Len(x.list) - 1) : Tail(x.list)[i] = x.list[i + 1]
  BY <1>2, HeadTailProperties
<1>4. Head(x.list) = list[n + 1] /\ n + 1 \in DOMAIN list
  BY <1>1, <1>2, <1>3
<1>5. InOrder(list, y)
  <2>1. n + 1 \in 0..Len(list) /\ (n + 1) + Len(y.list) <= Len(list)
    <3>1. Len(y.list) = Len(x.list) - 1
      BY <1>3
    <3> DEFINE a == Len(x.list)
               b == Len(list)
    <3>2. n + a <= b /\ a \in Nat \ {0} /\ b \in Nat /\ n \in Nat
      BY <1>1, <1>2
    <3> HIDE DEF a, b
    <3>3. n + 1 \in 0..b /\ (n + 1) + (a - 1) <= b
      BY <3>2
    <3> QED  BY <3>1, <3>3 DEF a, b
  <2>2. \A i \in DOMAIN y.list : y.list[i] = list[(n + 1) + i]
    <3> SUFFICES ASSUME NEW i \in 1..(Len(x.list) - 1)
                 PROVE  x.list[i + 1] = list[(n + 1) + i]
      BY <1>3
    <3>1. i + 1 \in DOMAIN x.list /\ n + (i + 1) = (n + 1) + i
      BY <1>1, <1>2
    <3> QED  BY <1>1, <3>1
  <2>3. \A i \in DOMAIN list : list[i].digest \in d => i <= n + 1
    BY <1>1, <1>2, <1>4
  <2> QED  BY <2>1, <2>2, <2>3 DEF InOrder
<1>6. \A i \in DOMAIN list : list[i].digest \in x.seen => i < n + 1
  BY <1>1, <1>2
<1> QED  BY <1>4, <1>5, <1>6

(* A document read gives its fields where those before it gave none.        *)
LEMMA ReadDocumentKept ==
    ASSUME DocumentsInv, ReviewInv, NEW r \in Runs, ReadDocument(r)
    PROVE  RunReviewed(r)'
<1> DEFINE t == works[r]
           x == run[r]
           y == run'[r]
           doc == Head(x.list)
           fields == ExtractIdentityFields(Printed[doc.digest], Calendar[today])
           rest == [x EXCEPT !.list = Tail(@)]
           more == [rest EXCEPT !.merged = Merged(@, fields), !.seen = @ \cup {doc.digest}]
<1>1. LateStep(r) /\ Step(r) /\ IsRun(x) /\ RunsTyped /\ t \in Tickets
      /\ docs[t] \in Seq(DocumentRow) /\ OneRowPerHash(t)
      /\ RunFields(docs[t], x) /\ RunGathered(mail[t], docs[t], row[t], x)
  BY Own DEF LateStep, Step, RunReviewed, RowsTyped
<1>2. x.pc = "read" /\ x.list # <<>> /\ (Continue(r, rest) \/ Continue(r, more))
  BY DEF ReadDocument
<1>3. DOMAIN fields = DOMAIN Printing(doc.digest)
      /\ \A f \in DOMAIN fields \ {"age"} : fields[f] = Printing(doc.digest)[f]
  <2>1. doc \in DocumentRow
    BY <1>1, <1>2, HeadTailProperties DEF IsRun
  <2>2. doc.digest \in DOMAIN Sniffed /\ Calendar[today] \in Dates
    BY <2>1, Today DEF DocumentRow, DocumentsInv, Typed, ClockTyped
  <2> HIDE DEF doc
  <2> QED  BY <2>2, FieldsRead DEF Printing
<1> HIDE DEF doc, fields
<1>4. /\ y.pc = "read" /\ y.list = Tail(x.list) /\ y.row = x.row
      /\ \/ y.seen = x.seen /\ y.merged = x.merged
         \/ y.seen = x.seen \cup {doc.digest} /\ y.merged = Merged(x.merged, fields)
  <2>1. /\ rest.pc = x.pc /\ rest.list = Tail(x.list) /\ rest.row = x.row
        /\ rest.seen = x.seen /\ rest.merged = x.merged
        /\ more.pc = x.pc /\ more.list = Tail(x.list) /\ more.row = x.row
        /\ more.seen = x.seen \cup {doc.digest} /\ more.merged = Merged(x.merged, fields)
    BY <1>1 DEF IsRun, Locals
  <2> HIDE DEF rest, more
  <2>2. y = rest \/ y = more
    BY <1>1, <1>2, Continued
  <2> QED  BY <1>2, <2>1, <2>2
<1>5. x.pc \in PastStage3 /\ x.row.email # <<>>
  BY <1>1, <1>2 DEF PastStage3, PastStage2, Pcs, Holding, Stage2, RunGathered
<1>6. ContactOf(Stated(mail[t]), x.row)
  BY <1>1 DEF RunGathered
<1> HIDE DEF x, y, t
<1>7. InOrder(docs[t], x) /\ FirstOf(docs[t], x.seen, x.merged)
      /\ FirstOf(docs[t], x.row.seen, x.row.document)
  BY <1>1 DEF RunFields
<1>8. /\ InOrder(docs[t], y)
      /\ \E n \in DOMAIN docs[t] :
            /\ doc = docs[t][n]
            /\ \A i \in DOMAIN docs[t] : docs[t][i].digest \in x.seen => i < n
  BY <1>1, <1>2, <1>4, <1>7, OneMoreRead DEF OneRowPerHash, doc
<1>9. FirstOf(docs[t], y.seen, y.merged)
  <2>1. PICK n \in DOMAIN docs[t] :
            /\ doc = docs[t][n]
            /\ \A i \in DOMAIN docs[t] : docs[t][i].digest \in x.seen => i < n
    BY <1>8
  <2>2. FirstOf(docs[t], x.seen \cup {doc.digest}, Merged(x.merged, fields))
    BY <1>1, <1>3, <1>7, <2>1, FieldsTaken DEF OneRowPerHash
  <2> QED  BY <1>4, <1>7, <2>2
<1>10. RunFields(docs[t], y)
  BY <1>4, <1>7, <1>8, <1>9 DEF RunFields
<1>11. Checked(y) /\ Kept(mail, row', t, y)
  BY <1>4, Undecided
<1> QED  BY <1>1, <1>4, <1>5, <1>6, <1>10, <1>11, LateKept DEF x, y, t

(* The lists stage 5 asks for hold all documents of the email.              *)
LEMMA ChecksListKept ==
    ASSUME DocumentsInv, ReviewInv, NEW r \in Runs, ListForChecks(r) \/ OwnHashes(r)
    PROVE  RunReviewed(r)'
<1> DEFINE t == works[r]
           x == run[r]
           y == run'[r]
           own == Digests(docs[t])
<1>1. LateStep(r) /\ Step(r) /\ IsRun(x) /\ RunsTyped /\ t \in Tickets
      /\ RunFields(docs[t], x) /\ RunGathered(mail[t], docs[t], row[t], x)
      /\ own = Attached(mail[t])
  BY Own, LateOwn DEF LateStep, Step, RunReviewed
<1>2. \/ x.pc = "documents" /\ Continue(r, [x EXCEPT !.pc = "hashes", !.list = docs[t]])
      \/ x.pc = "hashes" /\ Continue(r, [x EXCEPT !.pc = "find", !.hashes = own])
  BY DEF ListForChecks, OwnHashes
<1> HIDE DEF own
<1>3. /\ y.row = x.row /\ y.seen = x.seen /\ y.merged = x.merged
      /\ y.pc = "hashes" \/ (y.pc = "find" /\ y.hashes = own)
  <2> DEFINE n == [x EXCEPT !.pc = "hashes", !.list = docs[t]]
             m == [x EXCEPT !.pc = "find", !.hashes = own]
  <2>1. /\ n.pc = "hashes" /\ n.row = x.row /\ n.seen = x.seen /\ n.merged = x.merged
        /\ m.pc = "find" /\ m.row = x.row /\ m.seen = x.seen /\ m.merged = x.merged
        /\ m.hashes = own
    BY <1>1 DEF IsRun, Locals
  <2>2. Continue(r, n) \/ Continue(r, m)
    BY <1>2
  <2> HIDE DEF n, m
  <2>3. y = n \/ y = m
    BY <1>1, <2>2, Continued
  <2> QED  BY <2>1, <2>3
<1>4. x.pc \in {"documents", "hashes"}
  BY <1>2
<1>5. x.pc \in PastStage3 /\ x.row.email # <<>>
  BY <1>1, <1>4 DEF PastStage3, PastStage2, Pcs, Holding, Stage2, RunGathered
<1>6. ContactOf(Stated(mail[t]), x.row)
  BY <1>1 DEF RunGathered
<1> HIDE DEF x, y, t
<1>7. RunFields(docs[t], y)
  BY <1>1, <1>3, <1>4 DEF RunFields, InOrder
<1>8. Checked(y) /\ Kept(mail, row', t, y)
  BY <1>1, <1>3 DEF Checked, Kept, Approving
<1> QED  BY <1>1, <1>3, <1>5, <1>6, <1>7, <1>8, LateKept DEF x, y, t

(* The nth of a finite set of naturals. *)
Rank(found, u) == Cardinality({v \in found : v <= u})

(* Rank is a bijection from a finite set of naturals to 1..Cardinality.     *)
LEMMA Ranks ==
    ASSUME NEW found, found \subseteq Nat, IsFiniteSet(found)
    PROVE  /\ \A u \in found : Rank(found, u) \in 1..Cardinality(found)
           /\ \A u, v \in found : Rank(found, u) = Rank(found, v) => u = v
           /\ \A n \in 1..Cardinality(found) : \E u \in found : Rank(found, u) = n
<1> DEFINE Upto(u) == {v \in found : v <= u}
           N == Cardinality(found)
<1>1. N \in Nat
  BY FS_CardinalityType
<1>2. ASSUME NEW u
      PROVE  IsFiniteSet(Upto(u)) /\ Cardinality(Upto(u)) \in Nat /\ Cardinality(Upto(u)) <= N
  <2>1. Upto(u) \in SUBSET found
    OBVIOUS
  <2> HIDE DEF Upto
  <2> QED  BY <2>1, FS_Subset, FS_CardinalityType
<1>3. ASSUME NEW u \in found  PROVE Rank(found, u) \in 1..N
  <2>1. u \in Upto(u)
    BY <1>3
  <2>2. Cardinality(Upto(u)) # 0
    <3> HIDE DEF Upto
    <3> QED  BY <1>2, <2>1, FS_EmptySet
  <2> QED  BY <1>1, <1>2, <2>2 DEF Rank
<1>4. ASSUME NEW u \in found, NEW v \in found, u < v
      PROVE  Rank(found, u) # Rank(found, v)
  <2>1. Upto(u) \in SUBSET Upto(v)
    <3>1. ASSUME NEW w \in found, w <= u  PROVE w <= v
      <4>1. w \in Nat /\ u \in Nat /\ v \in Nat
        OBVIOUS
      <4> QED  BY <1>4, <3>1, <4>1
    <3> QED  BY <3>1
  <2>2. Upto(u) # Upto(v)
    <3>1. v \in Upto(v) /\ v \notin Upto(u)
      BY <1>4
    <3> QED  BY <3>1
  <2>3. Cardinality(Upto(v)) # Cardinality(Upto(u))
    <3>1. IsFiniteSet(Upto(v))
      BY <1>2
    <3> HIDE DEF Upto
    <3> QED  BY <2>1, <2>2, <3>1, FS_Subset
  <2> QED  BY <2>3 DEF Rank
<1>5. \A u, v \in found : Rank(found, u) = Rank(found, v) => u = v
  BY <1>4
<1> DEFINE f == [u \in found |-> Rank(found, u)]
<1>6. f \in Injection(found, 1..N)
  BY <1>3, <1>5 DEF Injection, IsInjective
<1>7. IsFiniteSet(1..N) /\ Cardinality(1..N) = N
  BY <1>1, FS_Interval
<1>8. f \in Surjection(found, 1..N)
  <2> HIDE DEF f
  <2> QED  BY <1>6, <1>7, FS_Injection
<1>9. \A n \in 1..N : \E u \in found : f[u] = n
  <2> HIDE DEF f
  <2> QED  BY <1>8 DEF Surjection
<1> QED  BY <1>3, <1>5, <1>9

(* The number in a row is one that is printed in a document. *)
LEMMA NumberRead ==
    ASSUME NEW list \in Seq(DocumentRow), NEW seen, NEW fields, FirstOf(list, seen, fields)
    PROVE  \/ Field(fields, "document_number") = <<>>
           \/ \E d \in Digests(list) : Field(fields, "document_number") = NumberIn(d)
<1> DEFINE at == Sources(list, seen, "document_number")
<1>1. CASE "document_number" \notin DOMAIN fields
  BY <1>1 DEF Field
<1>2. CASE "document_number" \in DOMAIN fields
  <2>1. at # {} /\ at \subseteq DOMAIN list
    BY <1>2 DEF FirstOf, Compared, Sources
  <2>2. at \subseteq Nat
    <3>1. DOMAIN list = 1..Len(list) /\ Len(list) \in Nat
      BY LenProperties
    <3> QED  BY <2>1, <3>1
  <2> HIDE DEF at
  <2>3. PICK i \in at : \A k \in at : i <= k
    BY <2>1, <2>2, HasLeast
  <2>4. fields["document_number"] = Printing(list[i].digest)["document_number"]
        /\ "document_number" \in DOMAIN Printing(list[i].digest)
    BY <2>3 DEF FirstOf, Compared, Sources, at
  <2>5. list[i].digest \in Digests(list)
    BY <2>1 DEF Digests
  <2> QED  BY <1>2, <2>4, <2>5 DEF Field, NumberIn
<1> QED  BY <1>1, <1>2

(* A duplicate the run could see is among the earlier tickets it finds, and *)
(* the numbers in the two rows agree.                                       *)
LEMMA DuplicateSeen ==
    ASSUME DocumentsInv, ReviewInv, NEW r \in Runs,
           run[r].pc \in PastStage3 \cap Holding,
           NEW v \in Tickets, Duplicate(v, mail[v], works[r], mail[works[r]]), row[v].email # <<>>
    PROVE  /\ SameApplicant(run[r].row.contact, row[v].contact)
           /\ NumbersAgree(NumberOf(run[r].row), NumberOf(row[v]))
<1> DEFINE t == works[r]
           old == run[r].row
           m == Stated(mail[t])
           n == Stated(mail[v])
<1>1. /\ t \in Tickets /\ docs[t] \in Seq(DocumentRow) /\ docs[v] \in Seq(DocumentRow)
      /\ TicketReviewed(v) /\ RunReviewed(r)
  BY Inputs, Reviewed DEF DocumentsInv, Typed, RowsTyped
<1>2. /\ old.contact = [email |-> m.email, phone |-> m.phone]
      /\ Digests(docs[t]) = Attached(mail[t])
      /\ FirstOf(docs[t], old.seen, old.document)
  BY <1>1 DEF RunReviewed, RunGathered, RunFields, ContactOf, PastStage3
<1>3. /\ row[v].contact = [email |-> n.email, phone |-> n.phone]
      /\ Digests(docs[v]) = Attached(mail[v])
      /\ FirstOf(docs[v], row[v].seen, row[v].document)
  BY <1>1 DEF TicketReviewed, RowGathered, ContactOf
<1>4. SameApplicant(m, n)
      /\ \A c, d \in Attached(mail[v]) \cup Attached(mail[t]) : NumbersAgree(NumberIn(c), NumberIn(d))
  BY DEF Duplicate
<1> HIDE DEF m, n, old, t
<1>5. SameApplicant(old.contact, row[v].contact)
  BY <1>2, <1>3, <1>4 DEF SameApplicant
<1>6. NumberOf(old) = <<>> \/ \E c \in Attached(mail[t]) : NumberOf(old) = NumberIn(c)
  BY <1>1, <1>2, NumberRead DEF NumberOf
<1>7. NumberOf(row[v]) = <<>> \/ \E d \in Attached(mail[v]) : NumberOf(row[v]) = NumberIn(d)
  BY <1>1, <1>3, NumberRead DEF NumberOf
<1>8. NumbersAgree(NumberOf(old), NumberOf(row[v]))
  BY <1>4, <1>6, <1>7 DEF NumbersAgree
<1> QED  BY <1>5, <1>8 DEF old

(* No duplicate whose contact is stored is missing from the candidates.     *)
LEMMA FindCandidatesKept ==
    ASSUME DocumentsInv, ReviewInv, NEW r \in Runs, FindCandidates(r)
    PROVE  RunReviewed(r)'
<1> DEFINE t == works[r]
           x == run[r]
           y == run'[r]
           found == {u \in Tickets : u < t /\ SameApplicant(x.row.contact, row[u].contact)}
           Nth(i) == CHOOSE u \in found : Cardinality({v \in found : v <= u}) = i
           cands == [i \in 1..Cardinality(found) |->
                       [ticket |-> Nth(i), number |-> Field(row[Nth(i)].document, "document_number")]]
           early == {u \in Tickets : u < t /\ row[u].email = <<>>}
<1>1. LateStep(r) /\ Step(r) /\ IsRun(x) /\ RunsTyped /\ t \in Tickets
      /\ RunFields(docs[t], x) /\ RunGathered(mail[t], docs[t], row[t], x) /\ Kept(mail, row, t, x)
      /\ \A u \in Tickets : RowFine(u)
  BY Own DEF LateStep, Step, RunReviewed
<1>2. x.pc = "find"
      /\ Continue(r, [x EXCEPT !.pc = "compare", !.early = early, !.candidates = cands])
  BY DEF FindCandidates
<1>3. found \subseteq Nat /\ IsFiniteSet(found)
  <2>1. t \in Nat /\ found \in SUBSET Nat /\ \A u \in found : u <= t
    <3>1. Tickets \subseteq Nat /\ t \in Nat
      BY <1>1, DocumentsAssumption
    <3>2. \A u \in found : u \in Tickets /\ u < t
      OBVIOUS
    <3> HIDE DEF found, t
    <3>3. \A u \in found : u \in Nat
      BY <3>1, <3>2
    <3>4. \A u \in found : u <= t
      BY <3>1, <3>2, <3>3
    <3> QED  BY <3>1, <3>3, <3>4
  <2> HIDE DEF found, t
  <2> QED  BY <2>1, FS_BoundedSetOfNaturals
<1>4. \A i \in 1..Cardinality(found) : Nth(i) \in found
  <2> HIDE DEF found
  <2>1. \A i \in 1..Cardinality(found) : \E u \in found : Cardinality({v \in found : v <= u}) = i
    BY <1>3, Ranks DEF Rank
  <2> QED  BY <2>1, Zenon
<1>5. ASSUME NEW u \in found
      PROVE  \E i \in 1..Cardinality(found) : Nth(i) = u
  <2> HIDE DEF found
  <2> DEFINE i == Rank(found, u)
  <2>1. i \in 1..Cardinality(found)
    BY <1>3, Ranks
  <2>2. \A v \in found : Rank(found, v) = i => v = u
    BY <1>3, Ranks
  <2>3. Nth(i) = CHOOSE v \in found : Rank(found, v) = i
    BY Zenon DEF Rank
  <2>4. Nth(i) \in found /\ Rank(found, Nth(i)) = i
    <3>1. \E v \in found : Rank(found, v) = i
      OBVIOUS
    <3> HIDE DEF i
    <3> QED  BY <2>3, <3>1, Zenon
  <2> HIDE DEF Nth, i
  <2> QED  BY <2>1, <2>2, <2>4
<1>6. /\ DOMAIN cands = 1..Cardinality(found)
      /\ \A i \in DOMAIN cands : /\ cands[i].ticket = Nth(i)
                                 /\ cands[i].number = NumberOf(row[Nth(i)])
  <2> HIDE DEF found, Nth
  <2> QED  BY DEF NumberOf
<1> HIDE DEF cands, early
<1>7. /\ y.pc = "compare" /\ y.early = early /\ y.candidates = cands /\ y.row = x.row
      /\ y.seen = x.seen /\ y.merged = x.merged /\ y.hashes = x.hashes
  <2> DEFINE n == [x EXCEPT !.pc = "compare", !.early = early, !.candidates = cands]
  <2>1. /\ n.pc = "compare" /\ n.early = early /\ n.candidates = cands /\ n.row = x.row
        /\ n.seen = x.seen /\ n.merged = x.merged /\ n.hashes = x.hashes
    BY <1>1 DEF IsRun, Locals
  <2> HIDE DEF n
  <2>2. y = n
    BY <1>1, <1>2, Continued DEF n
  <2> QED  BY <2>1, <2>2
<1>8. x.pc \in PastStage3 \cap Holding /\ x.row.email # <<>> /\ ContactOf(Stated(mail[t]), x.row)
  BY <1>1, <1>2 DEF PastStage3, PastStage2, Pcs, Holding, Stage2, RunGathered
<1>9. \A v \in Tickets : v < t /\ v \notin early => row[v].email # <<>> /\ row'[v].email # <<>>
  BY <1>1 DEF early, RowFine
<1>10. ASSUME NEW v \in Late(mail, t, y)
       PROVE  \E i \in DOMAIN cands : cands[i].ticket = v
                                       /\ NumbersAgree(NumberOf(x.row), cands[i].number)
  <2>1. v \in Tickets /\ Duplicate(v, mail[v], t, mail[t]) /\ v < t /\ v \notin early
    BY <1>7 DEF Late, Duplicate
  <2>2. row[v].email # <<>>
    BY <1>9, <2>1
  <2>3. SameApplicant(x.row.contact, row[v].contact)
        /\ NumbersAgree(NumberOf(x.row), NumberOf(row[v]))
    BY <1>8, <2>1, <2>2, DuplicateSeen
  <2>4. v \in found
    BY <2>1, <2>3
  <2>5. PICK i \in 1..Cardinality(found) : Nth(i) = v
    BY <1>5, <2>4
  <2> HIDE DEF Nth, found, x
  <2> QED  BY <1>6, <2>3, <2>5
<1>11. \A i \in DOMAIN cands : cands[i].ticket \in Tickets
  <2>1. found \subseteq Tickets
    OBVIOUS
  <2> HIDE DEF found, Nth
  <2> QED  BY <1>4, <1>6, <2>1
<1> HIDE DEF x, y, t, found, Nth
<1>12. RunFields(docs[t], y)
  BY <1>1, <1>2, <1>7 DEF RunFields, InOrder
<1>13. Kept(mail, row', t, y)
  BY <1>1, <1>2, <1>7, <1>9, <1>10, <1>11 DEF Kept, Approving
<1>14. Checked(y)
  BY <1>7 DEF Checked, Approving
<1> QED  BY <1>1, <1>7, <1>8, <1>12, <1>13, <1>14, LateKept DEF x, y, t

(* A decision: an approval passed the checks, and no late duplicate is left. *)
LEMMA DecideKept ==
    ASSUME DocumentsInv, ReviewInv, NEW r \in Runs, CompareCandidate(r),
           NEW duplicate, Decide(r, duplicate),
           duplicate = None => Late(mail, works[r], run[r]) = {}
    PROVE  RunReviewed(r)'
<1> DEFINE t == works[r]
           x == run[r]
           y == run'[r]
           o == Outcome(x.row, x.list, duplicate)
           decided == [x.row EXCEPT !.outcome = o]
<1>1. LateStep(r) /\ Step(r) /\ IsRun(x) /\ RunsTyped /\ t \in Tickets
      /\ RunFields(docs[t], x) /\ RunGathered(mail[t], docs[t], row[t], x) /\ Kept(mail, row, t, x)
      /\ \A u \in Tickets : RowFine(u)
  BY Own DEF LateStep, Step, RunReviewed
<1>2. x.pc = "compare" /\ Continue(r, [x EXCEPT !.pc = "save_outcome", !.row.outcome = o])
  BY DEF CompareCandidate, Decide
<1>3. /\ o = "approved" =>
            /\ \A i \in DOMAIN x.list : x.list[i].format_valid
            /\ NameMatch(x.row) /\ AddressMatch(x.row) /\ duplicate = None
  BY DEF Outcome
<1>4. /\ decided.outcome = o /\ decided.email = x.row.email /\ decided.contact = x.row.contact
      /\ decided.seen = x.row.seen /\ decided.document = x.row.document
      /\ decided.address = x.row.address
  BY <1>1 DEF IsRun, IsRow, Columns
<1> HIDE DEF o
<1>5. /\ y.pc = "save_outcome" /\ y.row = decided /\ y.seen = x.seen /\ y.merged = x.merged
      /\ y.list = x.list /\ y.early = x.early
  <2> DEFINE n == [x EXCEPT !.pc = "save_outcome", !.row.outcome = o]
  <2>1. /\ n.pc = "save_outcome" /\ n.row = decided /\ n.seen = x.seen /\ n.merged = x.merged
        /\ n.list = x.list /\ n.early = x.early
    BY <1>1 DEF IsRun, Locals
  <2> HIDE DEF n
  <2>2. y = n
    BY <1>1, <1>2, Continued DEF n
  <2> QED  BY <2>1, <2>2
<1> HIDE DEF decided
<1>6. x.pc \in PastStage3 /\ x.row.email # <<>> /\ ContactOf(Stated(mail[t]), x.row)
  BY <1>1, <1>2 DEF PastStage3, PastStage2, Pcs, Holding, Stage2, RunGathered
<1>7. duplicate = None => Late(mail, t, y) = {}
  BY <1>5 DEF Late
<1> HIDE DEF x, y, t
<1>8. y.row.email # <<>> /\ ContactOf(Stated(mail[t]), y.row)
  BY <1>4, <1>5, <1>6 DEF ContactOf
<1>9. RunFields(docs[t], y)
  BY <1>1, <1>2, <1>4, <1>5 DEF RunFields, InOrder
<1>10. Checked(y)
  <2>1. NameMatch(x.row) => NameMatch(y.row)
    BY <1>4, <1>5 DEF NameMatch
  <2>2. AddressMatch(x.row) => AddressMatch(y.row)
    BY <1>4, <1>5 DEF AddressMatch
  <2> QED  BY <1>3, <1>4, <1>5, <2>1, <2>2 DEF Checked, Approving
<1>11. Kept(mail, row', t, y)
  <2>1. \A u \in Tickets : u < t /\ u \notin y.early => row'[u].email # <<>>
    BY <1>1, <1>2, <1>5 DEF Kept, RowFine
  <2>2. Approving(y) => Late(mail, t, y) = {}
    BY <1>3, <1>4, <1>5, <1>7 DEF Approving
  <2> QED  BY <1>5, <2>1, <2>2 DEF Kept
<1> QED  BY <1>1, <1>6, <1>8, <1>9, <1>10, <1>11, LateKept DEF x, y, t

(* A candidate that is passed over is no duplicate.                         *)
LEMMA NextCandidateKept ==
    ASSUME DocumentsInv, ReviewInv, NEW r \in Runs, CompareCandidate(r),
           run[r].candidates # <<>>,
           Continue(r, [run[r] EXCEPT !.candidates = Tail(@)]),
           NEW first, first = Head(run[r].candidates),
           ~(/\ NumbersAgree(NumberOf(run[r].row), first.number)
             /\ HashesAgree(run[r].hashes, Digests(docs[first.ticket])))
    PROVE  RunReviewed(r)'
<1> DEFINE t == works[r]
           x == run[r]
           y == run'[r]
           tail == Tail(x.candidates)
<1>1. LateStep(r) /\ Step(r) /\ IsRun(x) /\ RunsTyped /\ t \in Tickets
      /\ RunFields(docs[t], x) /\ RunGathered(mail[t], docs[t], row[t], x) /\ Kept(mail, row, t, x)
      /\ (\A u \in Tickets : RowFine(u)) /\ x.pc = "compare"
  BY Own DEF LateStep, Step, RunReviewed, CompareCandidate
<1>2. /\ first = x.candidates[1] /\ DOMAIN x.candidates = 1..Len(x.candidates)
      /\ Len(x.candidates) \in Nat \ {0} /\ DOMAIN tail = 1..(Len(x.candidates) - 1)
      /\ \A i \in 1..(Len(x.candidates) - 1) : tail[i] = x.candidates[i + 1]
  <2>1. PICK S : x.candidates \in Seq(S)
    BY <1>1 DEF IsRun, IsSeq
  <2> QED  BY <2>1, HeadTailProperties, LenProperties, EmptySeq
<1> HIDE DEF tail
<1>3. /\ y.pc = "compare" /\ y.candidates = tail /\ y.row = x.row /\ y.early = x.early
      /\ y.seen = x.seen /\ y.merged = x.merged /\ y.hashes = x.hashes
  <2> DEFINE n == [x EXCEPT !.candidates = tail]
  <2>1. /\ n.pc = x.pc /\ n.candidates = tail /\ n.row = x.row /\ n.early = x.early
        /\ n.seen = x.seen /\ n.merged = x.merged /\ n.hashes = x.hashes
    BY <1>1 DEF IsRun, Locals
  <2>2. Continue(r, n)
    BY DEF tail
  <2> HIDE DEF n
  <2>3. y = n
    BY <1>1, <2>2, Continued
  <2> QED  BY <1>1, <2>1, <2>3
<1>4. x.pc \in PastStage3 /\ x.row.email # <<>> /\ ContactOf(Stated(mail[t]), x.row)
  BY <1>1 DEF PastStage3, PastStage2, Pcs, Holding, Stage2, RunGathered
<1>5. \A v \in Tickets : v < t /\ v \notin x.early => row[v].email # <<>> /\ row'[v].email # <<>>
  BY <1>1 DEF Kept, RowFine
<1>6. Late(mail, t, y) = Late(mail, t, x)
  BY <1>3 DEF Late
<1>7. \A i \in DOMAIN tail : tail[i].ticket \in Tickets
  <2>1. \A i \in DOMAIN tail : i + 1 \in DOMAIN x.candidates
    BY <1>2
  <2> QED  BY <1>1, <1>2, <2>1 DEF Kept
<1>8. ASSUME NEW v \in Late(mail, t, x)
      PROVE  \E i \in DOMAIN tail : tail[i].ticket = v
                                    /\ NumbersAgree(NumberOf(x.row), tail[i].number)
  <2>1. PICK i \in DOMAIN x.candidates :
            x.candidates[i].ticket = v /\ NumbersAgree(NumberOf(x.row), x.candidates[i].number)
    BY <1>1, <1>8 DEF Kept
  <2>2. CASE i = 1
    <3>1. first.ticket = v /\ NumbersAgree(NumberOf(x.row), first.number)
      BY <1>2, <2>1, <2>2
    <3>2. v \in Tickets /\ v < t /\ v \notin x.early
          /\ Attached(mail[v]) \cap Attached(mail[t]) # {}
      BY <1>8 DEF Late, Duplicate
    <3>3. Digests(docs[v]) = Attached(mail[v])
      <4>1. TicketReviewed(v) /\ row[v].email # <<>>
        BY <1>5, <3>2, Reviewed
      <4> QED  BY <4>1 DEF TicketReviewed, RowGathered
    <3>4. x.hashes = Attached(mail[t])
      BY <1>1 DEF Kept
    <3> QED  BY <3>1, <3>2, <3>3, <3>4 DEF HashesAgree
  <2>3. CASE i # 1
    <3>1. i - 1 \in DOMAIN tail /\ (i - 1) + 1 = i
      BY <1>2, <2>1, <2>3
    <3>2. tail[i - 1] = x.candidates[i]
      BY <1>2, <3>1
    <3> QED  BY <2>1, <3>1, <3>2
  <2> QED  BY <2>2, <2>3
<1> HIDE DEF x, y, t
<1>9. RunFields(docs[t], y)
  BY <1>1, <1>3 DEF RunFields, InOrder
<1>10. Kept(mail, row', t, y)
  BY <1>1, <1>3, <1>5, <1>6, <1>7, <1>8 DEF Kept, Approving
<1>11. Checked(y)
  BY <1>3 DEF Checked, Approving
<1> QED  BY <1>1, <1>3, <1>4, <1>9, <1>10, <1>11, LateKept DEF x, y, t

(* The comparison loses no duplicate.                                       *)
LEMMA CompareCandidateKept ==
    ASSUME DocumentsInv, ReviewInv, NEW r \in Runs, CompareCandidate(r)
    PROVE  RunReviewed(r)'
<1> DEFINE x == run[r]
           first == Head(x.candidates)
<1>1. RunReviewed(r) /\ x.pc = "compare" /\ IsRun(x)
  BY Own DEF Step, CompareCandidate
<1>2. CASE x.candidates = <<>> /\ Decide(r, None)
  <2>1. \A i : i \notin DOMAIN <<>>
    OBVIOUS
  <2>2. Late(mail, works[r], x) = {}
    BY <1>1, <1>2, <2>1 DEF RunReviewed, Kept
  <2> QED  BY <1>2, <2>2, DecideKept
<1>3. CASE x.candidates # <<>> /\ Decide(r, first.ticket)
  <2>1. first.ticket \in Tickets
    <3>1. PICK S : x.candidates \in Seq(S)
      BY <1>1 DEF IsRun, IsSeq
    <3>2. first = x.candidates[1] /\ 1 \in DOMAIN x.candidates
      BY <1>3, <3>1, HeadTailProperties, LenProperties, EmptySeq
    <3> QED  BY <1>1, <3>2 DEF RunReviewed, Kept
  <2>2. first.ticket # None
    <3>1. Tickets \subseteq Nat /\ None \notin Int
      BY DocumentsAssumption
    <3>2. \A u \in Tickets : u \in Int
      BY <3>1
    <3> QED  BY <2>1, <3>1, <3>2, Zenon
  <2> HIDE DEF first
  <2> QED  BY <1>3, <2>2, DecideKept
<1>4. CASE /\ x.candidates # <<>>
           /\ ~(/\ NumbersAgree(NumberOf(x.row), first.number)
                /\ HashesAgree(x.hashes, Digests(docs[first.ticket])))
           /\ Continue(r, [x EXCEPT !.candidates = Tail(@)])
  BY <1>4, NextCandidateKept
<1> QED  BY <1>2, <1>3, <1>4 DEF CompareCandidate, NumberOf

(* A run's part survives its own steps.                                     *)
LEMMA StepKept ==
    ASSUME DocumentsInv, ReviewInv, NEW r \in Runs, Step(r) \/ Restart(r)
    PROVE  RunReviewed(r)'
BY CheckAttachmentKept, FileStepsKept, CreateDocumentKept, SavesKept, ReadsKept, ValidateReadKept,
   ListDocumentsKept, ReadDocumentKept, ChecksListKept, FindCandidatesKept, CompareCandidateKept
   DEF Step

(* Every step keeps the invariant.                                          *)
LEMMA NextReviewed ==
    ASSUME DocumentsInv, ReviewInv, Next
    PROVE  ReviewInv'
<1>1. CASE NextDay
  <2>1. UNCHANGED <<mail, works, row, docs, run>>
    BY <1>1 DEF NextDay, given, rows
  <2> QED  BY <2>1 DEF ReviewInv, FieldsKnown, ApprovalChecked, Gathered, DuplicatesKept
<1>2. ASSUME NEW r \in Runs, Step(r) \/ Restart(r)
      PROVE  ReviewInv'
  <2>1. \A t \in Tickets : TicketReviewed(t)
    BY Reviewed
  <2>2. ASSUME NEW t \in Tickets  PROVE TicketReviewed(t)'
    BY <1>2, <2>1, DocsGrow, RowsFine, TicketKept
  <2>3. ASSUME NEW s \in Runs  PROVE RunReviewed(s)'
    BY <1>2, StepKept, OtherKept
  <2> QED  BY <2>2, <2>3
           DEF ReviewInv, FieldsKnown, ApprovalChecked, Gathered, DuplicatesKept,
               TicketReviewed, RunReviewed
<1> QED  BY <1>1, <1>2 DEF Next

(* A stuttering step keeps it.                                              *)
LEMMA StutterReviewed ==
    ASSUME ReviewInv, UNCHANGED vars
    PROVE  ReviewInv'
<1>1. UNCHANGED <<mail, works, row, docs, run>>
  BY DEF vars, given, rows
<1> QED  BY <1>1 DEF ReviewInv, FieldsKnown, ApprovalChecked, Gathered, DuplicatesKept

(* It holds when the runs start.                                            *)
LEMMA InitReviewed ==
    ASSUME Init
    PROVE  ReviewInv
<1>1. DocumentsInv
  BY InitFits
<1>2. works \in [Runs -> Tickets]
  BY <1>1, Inputs DEF DocumentsInv, Typed, RowsTyped
<1>3. ASSUME NEW t \in Tickets  PROVE TicketReviewed(t)
  <2>1. row[t] = NewRow /\ docs[t] = <<>>
    BY DEF Init
  <2>2. Digests(<<>>) = {}
    BY DEF Digests
  <2>3. NewRow.email = <<>> /\ NewRow.seen = {} /\ NewRow.document = <<>>
        /\ NewRow.contact = [email |-> Blank, phone |-> Blank]
    BY DEF NewRow
  <2> QED  BY <2>1, <2>2, <2>3, NothingRead DEF TicketReviewed, RowGathered, ContactOf
<1>4. ASSUME NEW r \in Runs  PROVE RunReviewed(r)
  <2> DEFINE t == works[r]
  <2>1. run[r] = Start("check") /\ t \in Tickets
    BY <1>2 DEF Init
  <2> DEFINE x == Start("check")
  <2>2. x.pc = "check" /\ x.at = 1 /\ x.row = NewRow /\ x.seen = {} /\ x.merged = <<>>
    BY DEF Start
  <2>3. NewRow.seen = {} /\ NewRow.document = <<>> /\ NewRow.email = <<>>
        /\ NewRow.contact = [email |-> Blank, phone |-> Blank]
    BY DEF NewRow
  <2> HIDE DEF x
  <2>4. x.pc \notin PastStage2 \cup PastStage3 /\ ~Approving(x)
    BY <2>2 DEF PastStage2, PastStage3, Stage2, Approving
  <2>5. \A i \in DOMAIN mail[t].attachments : ~(i < x.at)
    <3>1. mail[t].attachments \in Seq(AttachmentType)
      BY <1>1, <2>1, Inputs DEF DocumentsInv, Typed, RowsTyped
    <3>2. \A i \in DOMAIN mail[t].attachments : i \in Nat /\ i >= 1
      BY <3>1
    <3> QED  BY <2>2, <3>2
  <2>6. RunFields(docs[t], x)
    BY <2>2, <2>3, NothingRead DEF RunFields, InOrder
  <2>7. RunGathered(mail[t], docs[t], row[t], x)
    BY <2>2, <2>3, <2>4, <2>5 DEF RunGathered, ContactOf
  <2>8. Checked(x) /\ Kept(mail, row, t, x)
    BY <2>2, <2>4 DEF Checked, Kept
  <2> QED  BY <2>1, <2>6, <2>7, <2>8 DEF RunReviewed, x
<1> QED  BY <1>3, <1>4, Reviewed

(* So it always holds.                                                      *)
LEMMA ReviewInductive == Spec => []ReviewInv
<1>1. Init => ReviewInv
  BY InitReviewed
<1>2. DocumentsInv /\ ReviewInv /\ [Next]_vars => ReviewInv'
  BY NextReviewed, StutterReviewed
<1> QED  BY <1>1, <1>2, Inductive, PTL DEF Spec

-----------------------------------------------------------------------------
(* What the invariant says of approvals.                                    *)

(* What the documents say of a field is what reading all of them gives.     *)
LEMMA SaidFirst ==
    ASSUME NEW t \in Tickets, NEW f \in Compared, NEW fields, DocumentsInv,
           FirstOf(docs[t], Digests(docs[t]), fields)
    PROVE  Says(t, f) = IF f \in DOMAIN fields THEN fields[f] ELSE Blank
<1> DEFINE list == docs[t]
           at == Sources(list, Digests(list), f)
<1>1. at = {i \in DOMAIN list : f \in DOMAIN Printing(list[i].digest)}
  BY DEF Sources, Digests
<1>2. Says(t, f) = IF at = {} THEN Blank
                   ELSE Printing(list[CHOOSE i \in at : \A k \in at : i <= k].digest)[f]
  <2> DEFINE has(i) == f \in DOMAIN ExtractIdentityFields(Printed[docs[t][i].digest], Calendar[1])
             with == {i \in DOMAIN docs[t] : has(i)}
  <2>1. Says(t, f) = IF with = {} THEN Blank
                     ELSE ExtractIdentityFields(
                       Printed[docs[t][CHOOSE i \in with : \A k \in with : i <= k].digest],
                       Calendar[1])[f]
    BY DEF Says
  <2>2. with = at
    BY <1>1 DEF Printing
  <2> HIDE DEF with, at
  <2> QED  BY <2>1, <2>2, Zenon DEF Printing
<1>3. (f \in DOMAIN fields <=> at # {})
      /\ \A i \in at : (\A k \in at : i <= k) => fields[f] = Printing(list[i].digest)[f]
  BY DEF FirstOf
<1>4. CASE at # {}
  <2>1. at \subseteq Nat
    <3>1. list \in Seq(DocumentRow)
      BY DEF DocumentsInv, Typed, RowsTyped
    <3>2. DOMAIN list = 1..Len(list) /\ Len(list) \in Nat
      BY <3>1, LenProperties
    <3> QED  BY <1>1, <3>2
  <2> DEFINE i == CHOOSE i \in at : \A k \in at : i <= k
  <2>2. i \in at /\ \A k \in at : i <= k
    <3> HIDE DEF at
    <3> QED  BY <1>4, <2>1, HasLeast, Zenon
  <2>3. Says(t, f) = Printing(list[i].digest)[f]
    BY <1>2, <1>4
  <2> HIDE DEF i, at
  <2> QED  BY <1>3, <1>4, <2>2, <2>3
<1>5. CASE at = {}
  BY <1>2, <1>3, <1>5
<1> QED  BY <1>4, <1>5

(* What an approval was checked for is what MismatchReviewed asks.          *)
LEMMA MismatchesReviewed ==
    ASSUME DocumentsInv, ReviewInv
    PROVE  MismatchReviewed
<1> SUFFICES ASSUME NEW r \in Runs, run[r].pc = "save_outcome",
                    run[r].row.outcome = "approved"
             PROVE
        LET t == works[r]
            old == run[r].row
            body == ParseEmailBody(mail[t].body, Blank, TRUE)
            Agrees(words, other) == 2 * Cardinality(words \cap other) >= Cardinality(words)
        IN  /\ \A i \in DOMAIN run[r].list : run[r].list[i].format_valid
            /\ old.email = body /\ old.seen = Digests(docs[t]) =>
                   /\ Given(body.name) /\ Given(Says(t, "name"))
                          => body.name.norm = Says(t, "name").norm
                   /\ Given(body.address) /\ Tokens(Says(t, "address")) # {}
                          => Agrees(Tokens(body.address), Tokens(Says(t, "address")))
  BY Zenon DEF MismatchReviewed
<1> DEFINE t == works[r]
           old == run[r].row
           body == ParseEmailBody(mail[t].body, Blank, TRUE)
           Agrees(words, other) == 2 * Cardinality(words \cap other) >= Cardinality(words)
<1>1. /\ \A i \in DOMAIN run[r].list : run[r].list[i].format_valid
      /\ NameMatch(old) /\ AddressMatch(old)
  BY DEF ReviewInv, ApprovalChecked, Checked, Approving
<1>2. t \in Tickets
  BY Inputs DEF DocumentsInv, Typed, RowsTyped
<1> SUFFICES ASSUME old.email = body, old.seen = Digests(docs[t])
             PROVE  /\ Given(body.name) /\ Given(Says(t, "name"))
                          => body.name.norm = Says(t, "name").norm
                    /\ Given(body.address) /\ Tokens(Says(t, "address")) # {}
                          => Agrees(Tokens(body.address), Tokens(Says(t, "address")))
  BY <1>1, Zenon
<1>3. FirstOf(docs[t], Digests(docs[t]), old.document)
  BY DEF ReviewInv, FieldsKnown, RunFields
<1>4. \A f \in Compared :
          Says(t, f) = IF f \in DOMAIN old.document THEN old.document[f] ELSE Blank
  BY <1>2, <1>3, SaidFirst
<1>5. ~Given(Blank) /\ Tokens(Blank) = {}
  <2>1. Blank.norm = <<>>
    BY DEF Blank
  <2>2. DOMAIN <<>> = {}
    OBVIOUS
  <2>3. \A i : i \notin DOMAIN Blank.norm
    BY <2>1, <2>2
  <2> QED  BY <2>3, BlankText DEF Tokens
<1> HIDE DEF t, body
<1>6. Given(body.name) /\ Given(Says(t, "name")) => body.name.norm = Says(t, "name").norm
  <2>1. "name" \in Compared
    BY DEF Compared
  <2>2. "name" \in DOMAIN old.document =>
            Says(t, "name") = old.document.name
    BY <1>4, <2>1
  <2>3. "name" \notin DOMAIN old.document => Says(t, "name") = Blank
    BY <1>4, <2>1
  <2> HIDE DEF old
  <2> QED  BY <1>1, <1>5, <2>2, <2>3 DEF NameMatch
<1>7. ASSUME Given(body.address), Tokens(Says(t, "address")) # {}
      PROVE  Agrees(Tokens(body.address), Tokens(Says(t, "address")))
  <2>1. "address" \in Compared
    BY DEF Compared
  <2>2. "address" \in DOMAIN old.document
    BY <1>4, <1>5, <1>7, <2>1
  <2>3. Says(t, "address") = old.document.address
    BY <1>4, <2>1, <2>2
  <2>4. AddressConsistent(body.address, Says(t, "address"))
    <3> HIDE DEF old
    <3>1. Or(old.email.address, old.address) = body.address
      BY <1>7 DEF Or
    <3> QED  BY <1>1, <1>7, <2>2, <2>3, <3>1 DEF AddressMatch
  <2>5. CASE Tokens(body.address) = {}
    <3>1. Tokens(body.address) \cap Tokens(Says(t, "address")) = {}
      BY <2>5
    <3>2. Cardinality({}) = 0
      BY FS_EmptySet
    <3> QED  BY <2>5, <3>1, <3>2
  <2> QED  BY <1>7, <2>4, <2>5 DEF AddressConsistent
<1> QED  BY <1>6, <1>7

(* What no run loses is what LateDuplicateReviewed asks for.                *)
LEMMA DuplicatesReviewed ==
    ASSUME DocumentsInv, ReviewInv
    PROVE  LateDuplicateReviewed
<1> SUFFICES ASSUME NEW r \in Runs, NEW t \in Tickets
             PROVE
        LET u == works[r]
            numbers == {ExtractIdentityFields(Printed[d], Calendar[1]).document_number :
                           d \in {e \in Digests(docs[t]) \cup Digests(docs[u]) :
                                     "document_number" \in
                                         DOMAIN ExtractIdentityFields(Printed[e], Calendar[1])}}
            contact(v) == ParseEmailBody(mail[v].body, Blank, TRUE)
        IN  /\ t < u
            /\ run[r].pc = "save_outcome" /\ run[r].row.outcome = "approved"
            /\ SameApplicant(contact(u), contact(t))
            /\ Digests(docs[t]) \cap Digests(docs[u]) # {}
            /\ \A n, m \in numbers : n = m
            => t \in run[r].early
  BY Zenon DEF LateDuplicateReviewed
<1> DEFINE u == works[r]
           numbers == {ExtractIdentityFields(Printed[d], Calendar[1]).document_number :
                           d \in {e \in Digests(docs[t]) \cup Digests(docs[u]) :
                                     "document_number" \in
                                         DOMAIN ExtractIdentityFields(Printed[e], Calendar[1])}}
           contact(v) == ParseEmailBody(mail[v].body, Blank, TRUE)
<1> SUFFICES ASSUME t < u, Approving(run[r]), SameApplicant(contact(u), contact(t)),
                    Digests(docs[t]) \cap Digests(docs[u]) # {},
                    \A n, m \in numbers : n = m,
                    t \notin run[r].early
             PROVE  FALSE
  BY DEF Approving
<1>1. u \in Tickets /\ run[r].pc \in PastStage2
  BY Inputs DEF DocumentsInv, Typed, RowsTyped, Approving, PastStage2, Pcs, Holding, Stage2
<1>2. Digests(docs[u]) = Attached(mail[u])
  BY <1>1 DEF ReviewInv, Gathered, RunGathered
<1>3. row[t].email # <<>> /\ Late(mail, u, run[r]) = {}
  BY DEF ReviewInv, DuplicatesKept, Kept, Approving
<1>4. Digests(docs[t]) = Attached(mail[t])
  BY <1>3 DEF ReviewInv, Gathered, RowGathered
<1>5. \A c, d \in Attached(mail[t]) \cup Attached(mail[u]) : NumbersAgree(NumberIn(c), NumberIn(d))
  <2> SUFFICES ASSUME NEW c \in Attached(mail[t]) \cup Attached(mail[u]),
                      NEW d \in Attached(mail[t]) \cup Attached(mail[u]),
                      "document_number" \in DOMAIN Printing(c),
                      "document_number" \in DOMAIN Printing(d)
               PROVE  Printing(c)["document_number"] = Printing(d)["document_number"]
    BY DEF NumbersAgree, NumberIn, Field
  <2>1. \A e \in {c, d} : e \in Digests(docs[t]) \cup Digests(docs[u])
    BY <1>2, <1>4
  <2>2. Printing(c).document_number \in numbers /\ Printing(d).document_number \in numbers
    BY <2>1 DEF Printing
  <2> QED  BY <2>2
<1>6. SameApplicant(Stated(mail[u]), Stated(mail[t]))
  BY DEF Stated
<1>7. Duplicate(t, mail[t], u, mail[u])
  BY <1>2, <1>4, <1>5, <1>6 DEF Duplicate
<1> QED  BY <1>3, <1>7 DEF Late

(* A run that read everything approves no document in an invalid format and *)
(* no other name or address than the body's (validation.py).                *)
THEOREM MismatchesGoToReview == Spec => []MismatchReviewed
BY MismatchesReviewed, Inductive, ReviewInductive, PTL

(* A run approves no duplicate of a ticket whose contact was stored when it *)
(* looked for earlier ones (dedupe.py).                                     *)
THEOREM LateDuplicatesGoToReview == Spec => []LateDuplicateReviewed
BY DuplicatesReviewed, Inductive, ReviewInductive, PTL


-----------------------------------------------------------------------------
(* The ages, and what fails for them.                                       *)

(* An age comes with the date of birth it was computed from, of a document  *)
(* seen, on a day up to day number n.                                       *)
HasAge(seen, fields, n) ==
    /\ "age" \in DOMAIN fields <=> "dob" \in DOMAIN fields
    /\ "age" \in DOMAIN fields =>
          \E d \in seen, i \in 1..n :
              /\ Printed[d].dob # <<>> /\ fields["dob"] = Printed[d].dob
              /\ fields["age"] = ComputeAge(Printed[d].dob, Calendar[i])

RunHasAges(x, n) == HasAge(x.row.seen, x.row.document, n) /\ HasAge(x.seen, x.merged, n)

AgesRead ==
    /\ \A t \in Tickets : HasAge(row[t].seen, row[t].document, today)
    /\ \A r \in Runs : RunHasAges(run[r], today)

(* Ages stay true on later days.                                            *)
LEMMA AgesStay ==
    ASSUME NEW seen, NEW fields, NEW n \in Nat, NEW m \in Nat, n <= m, HasAge(seen, fields, n)
    PROVE  HasAge(seen, fields, m)
<1>1. 1..n \subseteq 1..m
  OBVIOUS
<1> QED  BY <1>1 DEF HasAge

(* No field, no age.                                                        *)
LEMMA NoAge ==
    ASSUME NEW n
    PROVE  HasAge({}, <<>>, n)
<1>1. DOMAIN <<>> = {}
  OBVIOUS
<1> QED  BY <1>1 DEF HasAge

(* A document read today gives an age as of today, or none.                 *)
LEMMA AgeTaken ==
    ASSUME NEW seen, NEW merged, NEW n \in Nat \ {0}, HasAge(seen, merged, n), NEW d
    PROVE  HasAge(seen \cup {d},
                  Merged(merged, ExtractIdentityFields(Printed[d], Calendar[n])), n)
<1> DEFINE fields == ExtractIdentityFields(Printed[d], Calendar[n])
           both == Merged(merged, fields)
<1>1. /\ "age" \in DOMAIN fields <=> Printed[d].dob # <<>>
      /\ "dob" \in DOMAIN fields <=> Printed[d].dob # <<>>
      /\ "age" \in DOMAIN fields => fields["age"] = ComputeAge(Printed[d].dob, Calendar[n])
      /\ "dob" \in DOMAIN fields => fields["dob"] = Printed[d].dob
  BY DEF ExtractIdentityFields
<1> HIDE DEF fields
<1>2. /\ DOMAIN both = DOMAIN merged \cup DOMAIN fields
      /\ \A f \in DOMAIN merged : both[f] = merged[f]
      /\ \A f \in DOMAIN fields \ DOMAIN merged : both[f] = fields[f]
  BY DEF Merged, Overlay
<1> HIDE DEF both
<1>3. ASSUME "age" \in DOMAIN merged
      PROVE  HasAge(seen \cup {d}, both, n)
  BY <1>2, <1>3 DEF HasAge
<1>4. ASSUME "age" \notin DOMAIN merged
      PROVE  HasAge(seen \cup {d}, both, n)
  <2>1. "dob" \notin DOMAIN merged
    BY <1>4 DEF HasAge
  <2>2. CASE "age" \in DOMAIN both
    <3>1. /\ Printed[d].dob # <<>> /\ both["dob"] = Printed[d].dob
          /\ both["age"] = ComputeAge(Printed[d].dob, Calendar[n])
          /\ "dob" \in DOMAIN both
      BY <1>1, <1>2, <1>4, <2>1, <2>2
    <3>2. n \in 1..n
      OBVIOUS
    <3> QED  BY <2>2, <3>1, <3>2 DEF HasAge
  <2>3. CASE "age" \notin DOMAIN both
    BY <1>1, <1>2, <1>4, <2>1, <2>3 DEF HasAge
  <2> QED  BY <2>2, <2>3
<1> QED  BY <1>3, <1>4 DEF both, fields

(* y has the documents seen, and their fields, that x has. *)
AsRead(y, x) == y.seen = x.seen /\ y.document = x.document

(* What y has read at hand: what x had, nothing, or one document more. *)
ReadMore(y, x) ==
    \/ y.seen = x.seen /\ y.merged = x.merged
    \/ y.seen = {} /\ y.merged = <<>>
    \/ \E d : /\ y.seen = x.seen \cup {d}
              /\ y.merged = Merged(x.merged, ExtractIdentityFields(Printed[d], Calendar[today]))

(* A step of run r on ticket t: what a row and the run have read after it.  *)
SourcesMove(r) ==
    LET t == works[r]
        x == run[r]
        y == run'[r]
    IN  /\ \A u \in Tickets :
              \/ AsRead(row'[u], row[u])
              \/ u = t /\ AsRead(row'[u], x.row)
              \/ u = t /\ row'[u].seen = x.seen /\ row'[u].document = x.merged
        /\ AsRead(y.row, x.row) \/ AsRead(y.row, row[t]) \/ y.row = NewRow
        /\ ReadMore(y, x)
        /\ y.pc = "failed" => NegativeAge(x.merged) /\ x.pc = "read"
        /\ UNCHANGED <<given, today>>

(* A stage that starts has read nothing.                                    *)
LEMMA StartMoves ==
    ASSUME NEW pc, NEW x
    PROVE  Start(pc).row = NewRow /\ ReadMore(Start(pc), x) /\ Start(pc).pc = pc
BY StartedAt DEF ReadMore

(* A save of a row that has what its run's copy or its run has.             *)
LEMMA SaveMoves ==
    ASSUME DocumentsInv, NEW r \in Runs, NEW x, NEW pc, Save(r, x, pc), pc # "failed",
           AsRead(x, run[r].row) \/ (x.seen = run[r].seen /\ x.document = run[r].merged),
           UNCHANGED <<given, today>>
    PROVE  SourcesMove(r)
<1>1. /\ run'[r] = Start(pc) /\ row'[works[r]] = x
      /\ \A t \in Tickets \ {works[r]} : row'[t] = row[t]
  BY Saved DEF DocumentsInv, Typed
<1>2. \A u \in Tickets : AsRead(row[u], row[u])
  BY DEF AsRead
<1>3. /\ Start(pc).row = NewRow /\ ReadMore(Start(pc), run[r]) /\ Start(pc).pc # "failed"
  BY StartMoves
<1> QED  BY <1>1, <1>2, <1>3 DEF SourcesMove

(* A step that goes on in its stage with what it has.                       *)
LEMMA ContinueMoves ==
    ASSUME DocumentsInv, NEW r \in Runs, NEW y, Continue(r, y), y.pc # "failed",
           UNCHANGED <<row, given, today>>,
           \/ AsRead(y.row, run[r].row)
           \/ AsRead(y.row, row[works[r]])
           \/ y.row = NewRow,
           ReadMore(y, run[r])
    PROVE  SourcesMove(r)
<1>1. run'[r] = y
  BY Continued DEF DocumentsInv, Typed
<1>2. \A u \in Tickets : AsRead(row'[u], row[u])
  BY DEF AsRead
<1> QED  BY <1>1, <1>2 DEF SourcesMove

(* Every step of a run moves what was read so.                              *)
LEMMA StepMoves ==
    ASSUME DocumentsInv, NEW r \in Runs, Step(r) \/ Restart(r)
    PROVE  SourcesMove(r)
<1> DEFINE x == run[r]
           t == works[r]
<1>1. IsRun(x) /\ IsRow(x.row) /\ RunsTyped /\ RowsTyped /\ t \in Tickets
  BY Inputs DEF DocumentsInv, Typed, RowsTyped, RunsTyped, IsRun
<1>2. AsRead(x.row, x.row) /\ ReadMore(x, x)
  BY DEF AsRead, ReadMore
<1>3. \A pc : Enter(r, pc) /\ pc # "failed" /\ UNCHANGED <<row, given, today>> => SourcesMove(r)
  BY StartMoves, ContinueMoves DEF Enter
<1>4. ASSUME NEW y, Continue(r, y), y.pc # "failed", y.row = x.row, y.seen = x.seen,
             y.merged = x.merged, UNCHANGED <<row, given, today>>
      PROVE  SourcesMove(r)
  BY <1>4, ContinueMoves DEF AsRead, ReadMore
<1>5. x.pc \in Pcs
  BY <1>1 DEF IsRun
<1>6. CASE CheckAttachment(r) \/ StatFile(r) \/ OpenFile(r) \/ WriteFile(r) \/ CreateDocument(r)
  <2>1. \/ Enter(r, "parse") \/ Enter(r, "check")
        \/ Continue(r, [x EXCEPT !.at = @ + 1]) /\ x.pc = "check"
        \/ \E pc \in Stage2 : Continue(r, [x EXCEPT !.pc = pc])
        \/ Continue(r, [x EXCEPT !.pc = "check", !.at = @ + 1])
    BY <1>6 DEF CheckAttachment, StatFile, OpenFile, WriteFile, CreateDocument, Stage2
  <2>2. UNCHANGED <<row, given, today>>
    BY <1>6 DEF CheckAttachment, StatFile, OpenFile, WriteFile, CreateDocument, rows
  <2>3. CASE Enter(r, "parse") \/ Enter(r, "check")
    BY <1>3, <2>2, <2>3
  <2>4. CASE Continue(r, [x EXCEPT !.at = @ + 1]) /\ x.pc = "check"
    BY <1>1, <1>4, <2>2, <2>4 DEF IsRun, Locals
  <2>5. CASE \E pc \in Stage2 : Continue(r, [x EXCEPT !.pc = pc])
    BY <1>1, <1>4, <2>2, <2>5 DEF IsRun, Locals, Stage2
  <2>6. CASE Continue(r, [x EXCEPT !.pc = "check", !.at = @ + 1])
    BY <1>1, <1>4, <2>2, <2>6 DEF IsRun, Locals
  <2> QED  BY <2>1, <2>3, <2>4, <2>5, <2>6
<1>7. CASE ParseRead(r) \/ OcrRead(r)
  <2>1. PICK pc \in {"save_contact", "list"} : Read(r, pc)
    BY <1>7 DEF ParseRead, OcrRead
  <2> DEFINE y == [x EXCEPT !.pc = pc, !.row = row[t], !.stale = FALSE]
  <2>2. UNCHANGED <<row, given, today>>
    BY <1>7 DEF ParseRead, OcrRead, rows
  <2>3. y.pc = pc /\ y.row = row[t] /\ y.seen = x.seen /\ y.merged = x.merged
    BY <1>1 DEF IsRun, Locals
  <2>4. Continue(r, y)
    BY <2>1 DEF Read
  <2> HIDE DEF y
  <2> QED  BY <2>2, <2>3, <2>4, ContinueMoves DEF AsRead, ReadMore
<1>8. CASE ParseSave(r)
  <2>1. PICK ner \in BOOLEAN :
            Save(r, WithContact(x.row, ParseEmailBody(mail[t].body, Blank, ner)), "ocr")
    BY <1>8 DEF ParseSave
  <2> DEFINE parsed == ParseEmailBody(mail[t].body, Blank, ner)
             new == WithContact(x.row, parsed)
  <2> HIDE DEF parsed
  <2>2. AsRead(new, x.row)
    BY <1>1 DEF WithContact, IsRow, Columns, AsRead
  <2> HIDE DEF new
  <2>3. UNCHANGED <<given, today>>
    BY <1>8 DEF ParseSave
  <2> QED  BY <2>1, <2>2, <2>3, SaveMoves DEF new, parsed
<1>9. CASE ListDocuments(r) \/ ListForChecks(r) \/ OwnHashes(r)
  <2>1. \E pc \in {"read", "hashes"} : Continue(r, [x EXCEPT !.pc = pc, !.list = docs[t]])
        \/ Continue(r, [x EXCEPT !.pc = "find", !.hashes = Digests(docs[t])])
    BY <1>9 DEF ListDocuments, ListForChecks, OwnHashes
  <2>2. UNCHANGED <<row, given, today>>
    BY <1>9 DEF ListDocuments, ListForChecks, OwnHashes, rows
  <2> QED  BY <1>1, <1>4, <2>1, <2>2 DEF IsRun, Locals
<1>10. CASE ReadDocument(r)
  <2> DEFINE doc == Head(x.list)
             fields == ExtractIdentityFields(Printed[doc.digest], Calendar[today])
             rest == [x EXCEPT !.list = Tail(@)]
             more == [rest EXCEPT !.merged = Merged(@, fields), !.seen = @ \cup {doc.digest}]
  <2>1. x.pc = "read" /\ (Continue(r, rest) \/ Continue(r, more)) /\ UNCHANGED <<row, given, today>>
    BY <1>10 DEF ReadDocument, rows
  <2> HIDE DEF doc, fields
  <2>2. /\ rest.pc = x.pc /\ rest.row = x.row /\ rest.seen = x.seen /\ rest.merged = x.merged
        /\ more.pc = x.pc /\ more.row = x.row
        /\ more.seen = x.seen \cup {doc.digest} /\ more.merged = Merged(x.merged, fields)
    BY <1>1 DEF IsRun, Locals
  <2> HIDE DEF rest, more
  <2>3. ReadMore(more, x)
    BY <2>2, Zenon DEF ReadMore, fields
  <2>4. CASE Continue(r, more)
    BY <1>2, <2>1, <2>2, <2>3, <2>4, ContinueMoves
  <2>5. CASE Continue(r, rest)
    BY <1>4, <2>1, <2>2, <2>5
  <2> QED  BY <2>1, <2>4, <2>5
<1>11. CASE SaveFields(r)
  <2> DEFINE new == WithFields(x.row, x.merged, x.seen)
  <2>1. UNCHANGED <<given, today>> /\ x.pc = "read"
    BY <1>11 DEF SaveFields
  <2>2. CASE Enter(r, "validate") /\ UNCHANGED rows
    BY <1>3, <2>1, <2>2 DEF rows
  <2>3. CASE Save(r, new, "validate")
    <3>1. new.document = x.merged /\ new.seen = x.seen
      BY <1>1 DEF WithFields, IsRow, Columns
    <3> HIDE DEF new
    <3> QED  BY <2>1, <2>3, <3>1, SaveMoves
  <2>4. CASE NegativeAge(x.merged) /\ Enter(r, "failed") /\ UNCHANGED rows
    <3>1. run'[r] = Start("failed")
      BY <1>1, <2>4, Continued DEF Enter
    <3>2. \A u \in Tickets : AsRead(row'[u], row[u])
      BY <2>4 DEF AsRead, rows
    <3> QED  BY <2>1, <2>4, <3>1, <3>2, StartMoves DEF SourcesMove
  <2> QED  BY <1>11, <2>2, <2>3, <2>4 DEF SaveFields
<1>12. CASE ValidateRead(r)
  <2> DEFINE awaiting == [row[t] EXCEPT !.outcome = "open"]
             y == [x EXCEPT !.pc = "documents", !.row = awaiting, !.stale = FALSE]
  <2>1. row' = [row EXCEPT ![t] = awaiting] /\ Continue(r, y) /\ UNCHANGED <<given, today>>
    BY <1>12 DEF ValidateRead
  <2>2. AsRead(awaiting, row[t])
    BY <1>1 DEF RowsTyped, IsRow, Columns, AsRead
  <2> HIDE DEF awaiting
  <2>3. y.pc = "documents" /\ y.row = awaiting /\ y.seen = x.seen /\ y.merged = x.merged
    BY <1>1 DEF IsRun, Locals
  <2>4. \A u \in Tickets : AsRead(row'[u], row[u])
    BY <1>1, <2>1, <2>2 DEF RowsTyped, AsRead
  <2> HIDE DEF y
  <2>5. run'[r] = y
    BY <1>1, <2>1, Continued
  <2> QED  BY <2>1, <2>2, <2>3, <2>4, <2>5 DEF SourcesMove, ReadMore
<1>13. CASE FindCandidates(r)
  <2>1. PICK e, c : Continue(r, [x EXCEPT !.pc = "compare", !.early = e, !.candidates = c])
    BY <1>13, Zenon DEF FindCandidates
  <2>2. UNCHANGED <<row, given, today>>
    BY <1>13 DEF FindCandidates, rows
  <2> QED  BY <1>1, <1>4, <2>1, <2>2 DEF IsRun, Locals
<1>14. CASE CompareCandidate(r)
  <2>1. x.pc = "compare" /\ UNCHANGED <<row, given, today>>
        /\ (Continue(r, [x EXCEPT !.candidates = Tail(@)]) \/ \E d : Decide(r, d))
    BY <1>14, Zenon DEF CompareCandidate, rows
  <2>2. CASE Continue(r, [x EXCEPT !.candidates = Tail(@)])
    BY <1>1, <1>4, <2>1, <2>2 DEF IsRun, Locals
  <2>3. ASSUME NEW d, Decide(r, d)
        PROVE  SourcesMove(r)
    <3> DEFINE verdict == Outcome(x.row, x.list, d)
               y == [x EXCEPT !.pc = "save_outcome", !.row.outcome = verdict]
    <3>1. Continue(r, y)
      BY <2>3 DEF Decide
    <3> HIDE DEF verdict
    <3>2. y.pc = "save_outcome" /\ y.seen = x.seen /\ y.merged = x.merged
          /\ y.row = [x.row EXCEPT !.outcome = verdict]
      BY <1>1 DEF IsRun, Locals
    <3>3. AsRead(y.row, x.row)
      BY <1>1, <3>2 DEF IsRow, Columns, AsRead
    <3> HIDE DEF y
    <3> QED  BY <2>1, <3>1, <3>2, <3>3, ContinueMoves DEF ReadMore
  <2> QED  BY <2>1, <2>2, <2>3
<1>15. CASE SaveOutcome(r)
  <2>1. Save(r, x.row, "done") /\ UNCHANGED <<given, today>>
    BY <1>15 DEF SaveOutcome
  <2> QED  BY <1>2, <2>1, SaveMoves
<1>16. CASE Restart(r)
  <2>1. Enter(r, StageOf(x.pc)) /\ UNCHANGED <<row, given, today>> /\ x.pc \notin {"done", "failed"}
    BY <1>16 DEF Restart, rows
  <2>2. StageOf(x.pc) # "failed"
    BY <1>5, <2>1 DEF StageOf, Pcs, Stage2, Holding
  <2> QED  BY <1>3, <2>1, <2>2
<1> QED  BY <1>6, <1>7, <1>8, <1>9, <1>10, <1>11, <1>12, <1>13, <1>14, <1>15, <1>16 DEF Step

(* What fails has read a date of birth after the day of reading. *)
FailedEarly(r) ==
    run[r].pc = "failed" =>
        \E d \in Digests(docs[works[r]]), i \in 1..today :
            Printed[d].dob # <<>> /\ Before(Calendar[i], Printed[d].dob)

(* A failed run takes no step.                                              *)
LEMMA FailedStays ==
    ASSUME NEW r \in Runs, Step(r) \/ Restart(r)
    PROVE  run[r].pc # "failed"
BY DEF Step, CheckAttachment, StatFile, OpenFile, WriteFile, CreateDocument, ParseRead,
       ParseSave, OcrRead, ListDocuments, ReadDocument, SaveFields, ValidateRead, ListForChecks,
       OwnHashes, FindCandidates, CompareCandidate, SaveOutcome, Restart

(* A negative age is a birth after the day.                                 *)
LEMMA NegativeIsEarly ==
    ASSUME NEW seen, NEW fields, NEW n \in DOMAIN Calendar, HasAge(seen, fields, n),
           "age" \in DOMAIN fields, seen \subseteq DOMAIN Sniffed
    PROVE  \E d \in seen, i \in 1..n :
              /\ Printed[d].dob # <<>> /\ fields["dob"] = Printed[d].dob
              /\ fields["age"] \in Int
              /\ fields["age"] < 0 <=> Before(Calendar[i], Printed[d].dob)
              /\ fields["age"] >= 0
                    => fields["age"] = Cardinality(Birthdays(Printed[d].dob, Calendar[i]))
<1>1. PICK d \in seen, i \in 1..n :
          /\ Printed[d].dob # <<>> /\ fields["dob"] = Printed[d].dob
          /\ fields["age"] = ComputeAge(Printed[d].dob, Calendar[i])
  BY DEF HasAge
<1>2. Printed[d].dob \in Nat \X Nat \X Nat
  BY <1>1, InputsAssumption DEF Dates
<1>3. Calendar[i] \in Nat \X Nat \X Nat
  <2>1. DOMAIN Calendar = 1..Len(Calendar) /\ Len(Calendar) \in Nat /\ Calendar \in Seq(Dates)
    BY InputsAssumption, LenProperties
  <2>2. i \in 1..Len(Calendar)
    BY <2>1
  <2>3. Calendar[i] \in Dates
    BY <2>1, <2>2, ElementOfSeq, Zenon
  <2> QED  BY <2>3 DEF Dates
<1> DEFINE dob == Printed[d].dob
           day == Calendar[i]
           age == ComputeAge(dob, day)
<1>4. /\ age \in Int /\ (age < 0 <=> Before(day, dob))
      /\ ~Before(day, dob) => age = Cardinality(Birthdays(dob, day))
  BY <1>2, <1>3, AgeCounted
<1> HIDE DEF dob, day, age
<1>5. age >= 0 => ~(age < 0)
  BY <1>4
<1> QED  BY <1>1, <1>4, <1>5 DEF dob, day, age

(* Every step keeps the ages, and what failed for one.                      *)
LEMMA NextAges ==
    ASSUME DocumentsInv, ReviewInv, AgesRead, \A r \in Runs : FailedEarly(r), Next
    PROVE  AgesRead' /\ \A r \in Runs : FailedEarly(r)'
<1>1. today \in DOMAIN Calendar /\ today \in Nat \ {0} /\ works \in [Runs -> Tickets]
  <2>1. today \in DOMAIN Calendar /\ DOMAIN Calendar = 1..Len(Calendar) /\ Len(Calendar) \in Nat
    BY InputsAssumption, LenProperties DEF DocumentsInv, Typed, ClockTyped
  <2> QED  BY <2>1, Inputs DEF DocumentsInv, Typed, RowsTyped
<1>2. CASE NextDay
  <2>1. today' = today + 1 /\ UNCHANGED <<row, run, docs, works>>
    BY <1>2 DEF NextDay, rows, given
  <2>2. today + 1 \in Nat /\ today <= today + 1 /\ today \in Nat
    BY <1>1
  <2>3. \A seen, fields : HasAge(seen, fields, today) => HasAge(seen, fields, today')
    BY <2>1, <2>2, AgesStay
  <2>4. 1..today \subseteq 1..today'
    BY <2>1, <2>2
  <2> QED  BY <2>1, <2>3, <2>4 DEF AgesRead, RunHasAges, FailedEarly
<1>3. ASSUME NEW r \in Runs, Step(r) \/ Restart(r)
      PROVE  AgesRead' /\ \A s \in Runs : FailedEarly(s)'
  <2> DEFINE t == works[r]
             x == run[r]
             y == run'[r]
  <2>1. SourcesMove(r)
    BY <1>3, StepMoves
  <2>2. UNCHANGED <<mail, works, today>> /\ t \in Tickets
    BY <1>1, <2>1 DEF SourcesMove, given
  <2>3. HasAge(row[t].seen, row[t].document, today) /\ RunHasAges(x, today)
    BY <2>2 DEF AgesRead
  <2>4. ASSUME NEW u \in Tickets
        PROVE  HasAge(row'[u].seen, row'[u].document, today)
    BY <2>1, <2>3 DEF SourcesMove, AsRead, AgesRead, RunHasAges
  <2>5. HasAge(y.row.seen, y.row.document, today)
    <3>1. NewRow.seen = {} /\ NewRow.document = <<>>
      BY DEF NewRow
    <3> QED  BY <2>1, <2>3, <3>1, NoAge DEF SourcesMove, AsRead, RunHasAges
  <2>6. HasAge(y.seen, y.merged, today)
    <3>1. ReadMore(y, x) /\ HasAge(x.seen, x.merged, today)
      BY <2>1, <2>3 DEF SourcesMove, RunHasAges
    <3> HIDE DEF x, y
    <3>2. CASE \E d : /\ y.seen = x.seen \cup {d}
                      /\ y.merged = Merged(x.merged, ExtractIdentityFields(Printed[d], Calendar[today]))
      <4>1. PICK c : /\ y.seen = x.seen \cup {c}
                     /\ y.merged = Merged(x.merged, ExtractIdentityFields(Printed[c], Calendar[today]))
        BY <3>2
      <4>2. HasAge(x.seen \cup {c},
                   Merged(x.merged, ExtractIdentityFields(Printed[c], Calendar[today])), today)
        BY <1>1, <3>1, AgeTaken
      <4> QED  BY <4>1, <4>2
    <3> QED  BY <3>1, <3>2, NoAge DEF ReadMore
  <2>7. ASSUME NEW s \in Runs \ {r}
        PROVE  RunHasAges(run'[s], today) /\ run'[s].pc = run[s].pc
    BY <1>3, OthersStay DEF AgesRead, RunHasAges, DocumentsInv
  <2>8. AgesRead'
    BY <2>2, <2>4, <2>5, <2>6, <2>7 DEF AgesRead, RunHasAges
  <2>9. \A u \in Tickets : Digests(docs[u]) \subseteq Digests(docs'[u])
    BY <1>3, DocsGrow, DigestsGrow, Reviewed
  <2>10. ASSUME NEW s \in Runs \ {r}
         PROVE  FailedEarly(s)'
    BY <1>1, <2>2, <2>7, <2>9 DEF FailedEarly
  <2>11. FailedEarly(r)'
    <3> SUFFICES ASSUME y.pc = "failed"
                 PROVE  \E d \in Digests(docs'[t]), i \in 1..today :
                            Printed[d].dob # <<>> /\ Before(Calendar[i], Printed[d].dob)
      BY <2>2 DEF FailedEarly
    <3>1. "age" \in DOMAIN x.merged /\ x.merged["age"] < 0
      BY <2>1 DEF SourcesMove, NegativeAge
    <3>2. x.seen \subseteq Digests(docs[t]) /\ Digests(docs[t]) \subseteq DOMAIN Sniffed
      <4>1. x.seen \subseteq Digests(docs[t])
        BY DEF ReviewInv, FieldsKnown, RunFields, FirstOf
      <4>2. docs[t] \in Seq(DocumentRow)
        BY <2>2 DEF DocumentsInv, Typed, RowsTyped
      <4>3. \A i \in DOMAIN docs[t] : docs[t][i] \in DocumentRow
        BY <4>2, ElementOfSeq, LenProperties
      <4> QED  BY <4>1, <4>3 DEF Digests, DocumentRow
    <3>3. HasAge(x.seen, x.merged, today)
      BY <2>3 DEF RunHasAges
    <3> HIDE DEF x, y, t
    <3>4. PICK d \in x.seen, i \in 1..today :
              Printed[d].dob # <<>> /\ Before(Calendar[i], Printed[d].dob)
      BY <1>1, <3>1, <3>2, <3>3, NegativeIsEarly
    <3> QED  BY <2>2, <2>9, <3>2, <3>4
  <2> QED  BY <2>8, <2>10, <2>11
<1> QED  BY <1>2, <1>3 DEF Next

(* A stuttering step keeps them, and they hold when the runs start.         *)
LEMMA AgesKept == Spec => [](AgesRead /\ \A r \in Runs : FailedEarly(r))
<1> DEFINE I == AgesRead /\ \A r \in Runs : FailedEarly(r)
<1>1. Init => I
  <2> SUFFICES ASSUME Init  PROVE I
    OBVIOUS
  <2>1. /\ \A t \in Tickets : row[t] = NewRow
        /\ \A r \in Runs : run[r] = Start("check")
    BY DEF Init
  <2>2. NewRow.seen = {} /\ NewRow.document = <<>>
    BY DEF NewRow
  <2> QED  BY <2>1, <2>2, NoAge, StartedAt DEF AgesRead, RunHasAges, FailedEarly
<1>2. DocumentsInv /\ ReviewInv /\ I /\ [Next]_vars => I'
  <2>1. CASE Next
    BY <2>1, NextAges
  <2>2. CASE UNCHANGED vars
    <3>1. UNCHANGED <<works, row, docs, run, today>>
      BY <2>2 DEF vars, given, rows
    <3> QED  BY <3>1 DEF AgesRead, RunHasAges, FailedEarly
  <2> QED  BY <2>1, <2>2
<1> QED  BY <1>1, <1>2, Inductive, ReviewInductive, PTL DEF Spec

(* The fields of the documents seen are what those show.                    *)
LEMMA FieldsShown ==
    ASSUME NEW d \in DOMAIN Sniffed
    PROVE  /\ "document_number" \in DOMAIN Printing(d) =>
                  Printing(d)["document_number"] \in NumbersOn(Printed[d]) \/ Misprinted(Printed[d])
           /\ "name" \in DOMAIN Printing(d) => Printing(d)["name"] \in NamesOn(Printed[d].lines)
<1> DEFINE text == Printed[d]
           number == IF text.pan # <<>> THEN text.pan ELSE ExtractAadhaar(text.runs)
           name == ExtractName(text.lines)
<1>1. /\ "document_number" \in DOMAIN Printing(d) =>
             number # <<>> /\ Printing(d)["document_number"] = number
      /\ "name" \in DOMAIN Printing(d) => Given(name) /\ Printing(d)["name"] = name
  BY DEF Printing, ExtractIdentityFields
<1>2. number # <<>> => number \in NumbersOn(text) \/ Misprinted(text)
  <2>1. text.runs \in Seq(Seq(Digit))
    BY InputsAssumption DEF Digit
  <2> QED  BY <2>1, NumberShown
<1>3. Given(name) => name \in NamesOn(text.lines)
  <2>1. DOMAIN text.lines = 1..Len(text.lines) /\ Len(text.lines) \in Nat
    BY InputsAssumption DEF IsBody
  <2>2. \A i \in With(text.lines, "like") : Given(text.lines[i]["like"])
    BY InputsAssumption DEF With
  <2> HIDE DEF text
  <2> QED  BY <2>1, <2>2, NameShown
<1> QED  BY <1>1, <1>2, <1>3

(* The fields of a ticket's row are what its documents show: a valid number *)
(* unless a card's digits all fail the checksum, the holder's name and not  *)
(* a parent's, and the age the holder had turned by some day up to this     *)
(* one; whichever of any number of runs read and saved them                 *)
(* (parsing/extractors.py).                                                 *)
THEOREM CardsReadTrue == Spec => []CardReadTrue
<1>1. ASSUME DocumentsInv, ReviewInv, AgesRead
      PROVE  CardReadTrue
  <2> SUFFICES ASSUME NEW t \in Tickets
               PROVE  LET read == row[t].document
                          seen == row[t].seen
                      IN  /\ seen \subseteq Digests(docs[t])
                          /\ /\ "document_number" \in DOMAIN read
                             /\ \A d \in seen : ~Misprinted(Printed[d])
                             =>  \E d \in seen : read.document_number \in NumbersOn(Printed[d])
                          /\ "name" \in DOMAIN read =>
                                 \E d \in seen : read.name \in NamesOn(Printed[d].lines)
                          /\ "age" \in DOMAIN read =>
                                 \E d \in seen, i \in 1..today :
                                     /\ read.dob = Printed[d].dob
                                     /\ read.age = Cardinality(Birthdays(read.dob, Calendar[i]))
    BY DEF CardReadTrue
  <2> DEFINE read == row[t].document
             seen == row[t].seen
             list == docs[t]
  <2>1. FirstOf(list, seen, read) /\ HasAge(seen, read, today)
    BY <1>1 DEF ReviewInv, FieldsKnown, AgesRead
  <2>2. RowOK(row[t]) /\ list \in Seq(DocumentRow) /\ today \in DOMAIN Calendar
    BY <1>1 DEF DocumentsInv, Typed, RowsTyped, ClockTyped, IsRow
  <2>3. /\ "age" \in DOMAIN read => row[t].age = read["age"]
        /\ row[t].age \in Nat \cup {None} /\ None \notin Int
    BY <1>1, <2>2, DocumentsAssumption DEF DocumentsInv, Typed, RowsTyped, IsRow, RowOK
  <2>4. seen \subseteq Digests(list) /\ Digests(list) \subseteq DOMAIN Sniffed
    <3>1. \A i \in DOMAIN list : list[i] \in DocumentRow
      BY <2>2, ElementOfSeq, LenProperties
    <3> QED  BY <2>1, <3>1 DEF FirstOf, Digests, DocumentRow
  <2>5. ASSUME NEW f \in {"document_number", "name"}, f \in DOMAIN read
        PROVE  \E d \in seen : f \in DOMAIN Printing(d) /\ read[f] = Printing(d)[f]
    <3> DEFINE from == Sources(list, seen, f)
    <3>1. from # {} /\ from \subseteq Nat
      <4>1. DOMAIN list = 1..Len(list) /\ Len(list) \in Nat
        BY <2>2, LenProperties
      <4> QED  BY <2>1, <2>5, <4>1 DEF FirstOf, Sources, Compared
    <3> HIDE DEF from
    <3>2. PICK i \in from : \A k \in from : i <= k
      BY <3>1, HasLeast
    <3>3. read[f] = Printing(list[i].digest)[f]
      BY <2>1, <3>2 DEF FirstOf, Compared, from
    <3>4. list[i].digest \in seen /\ f \in DOMAIN Printing(list[i].digest)
      BY <3>2 DEF from, Sources
    <3> QED  BY <3>3, <3>4
  <2>6. ASSUME "age" \in DOMAIN read
        PROVE  \E d \in seen, i \in 1..today :
                  /\ read["dob"] = Printed[d].dob
                  /\ read["age"] = Cardinality(Birthdays(read["dob"], Calendar[i]))
    <3>1. PICK d \in seen, i \in 1..today :
              /\ read["dob"] = Printed[d].dob
              /\ read["age"] \in Int
              /\ read["age"] >= 0
                    => read["age"] = Cardinality(Birthdays(Printed[d].dob, Calendar[i]))
      <4> HIDE DEF read, seen, list
      <4> QED  BY <2>1, <2>2, <2>4, <2>6, NegativeIsEarly
    <3>2. read["age"] >= 0
      BY <2>3, <2>6, <3>1
    <3> QED  BY <3>1, <3>2
  <2>7. seen \subseteq DOMAIN Sniffed
    BY <2>4
  <2> HIDE DEF read, seen, list
  <2>8. "document_number" \in DOMAIN read /\ (\A d \in seen : ~Misprinted(Printed[d])) =>
            \E d \in seen : read["document_number"] \in NumbersOn(Printed[d])
    BY <2>5, <2>7, FieldsShown
  <2>9. "name" \in DOMAIN read => \E d \in seen : read["name"] \in NamesOn(Printed[d].lines)
    BY <2>5, <2>7, FieldsShown
  <2> QED  BY <2>4, <2>6, <2>8, <2>9 DEF read, seen, list
<1>2. Spec => [](DocumentsInv /\ ReviewInv /\ AgesRead)
  <2>1. AgesRead /\ (\A r \in Runs : FailedEarly(r)) => AgesRead
    OBVIOUS
  <2> QED  BY <2>1, Inductive, ReviewInductive, AgesKept, PTL
<1> QED  BY <1>1, <1>2, PTL

(* No ticket fails for its age unless one of its documents shows a birth    *)
(* after the day it was read on: whatever is lost to other runs and however *)
(* many days pass, an age that was computed right is never refused          *)
(* (models.py: applicant_age is a PositiveIntegerField).                    *)
THEOREM FailuresAreFutureBirths == Spec => []OnlyFutureBirthsFail
<1>1. (\A r \in Runs : FailedEarly(r)) => OnlyFutureBirthsFail
  BY DEF FailedEarly, OnlyFutureBirthsFail
<1> QED  BY <1>1, AgesKept, PTL

(* The contact in a ticket's row is the one its email states, if it states  *)
(* one, whatever runs parsed it, with or without spaCy, and saved the row   *)
(* (parsing/email_parser.py).                                               *)
THEOREM ContactsAreStated == Spec => []ContactAsStated
<1>1. ASSUME DocumentsInv, ReviewInv
      PROVE  ContactAsStated
  <2> SUFFICES ASSUME NEW t \in Tickets, row[t].email # <<>>
               PROVE  LET body == mail[t].body
                      IN  /\ \A e \in EmailsIn(body) :
                                EmailsIn(body) = {e} /\ Given(e) => row[t].contact.email = e
                          /\ \A n \in NumbersIn(body) :
                                NumbersIn(body) = {n} /\ Given(n) /\ ReadsAsItself(n)
                                    => row[t].contact.phone = n
    BY DEF ContactAsStated
  <2>1. row[t].contact = [email |-> Stated(mail[t]).email, phone |-> Stated(mail[t]).phone]
    BY <1>1 DEF ReviewInv, Gathered, RowGathered, ContactOf
  <2>2. IsBody(mail[t].body)
    BY <1>1, Inputs DEF DocumentsInv, Typed, RowsTyped
  <2> DEFINE body == mail[t].body
             parsed == ParseEmailBody(body, Blank, TRUE)
  <2>3. /\ \A e \in EmailsIn(body) : EmailsIn(body) = {e} /\ Given(e) => parsed.email = e
        /\ \A n \in NumbersIn(body) :
              NumbersIn(body) = {n} /\ Given(n) /\ ReadsAsItself(n) => parsed.phone = n
    BY <2>2, ContactStated
  <2>4. row[t].contact.email = parsed.email /\ row[t].contact.phone = parsed.phone
    BY <2>1 DEF Stated
  <2> HIDE DEF parsed, body
  <2> QED  BY <2>3, <2>4 DEF body
<1> QED  BY <1>1, Inductive, ReviewInductive, PTL
=============================================================================
