--------------------------- MODULE DocumentsProofs ---------------------------
(***************************************************************************)
(* What Documents promises of rows and files, for any emails, documents and *)
(* runs: types, the columns of a row that go together, files that are       *)
(* whole, and saves that lose nothing unless they are stale.                *)
(***************************************************************************)
EXTENDS Documents, ParserProofs

-----------------------------------------------------------------------------
(* The invariant.                                                           *)

Outcomes == {"open", "approved", "rejected", "requires_manual_review"}

Stage2 == {"check", "stat", "open", "write", "create"}

(* Where a run has read the row and not yet saved it. *)
Holding == {"save_contact", "list", "read", "documents", "hashes", "find", "compare",
            "save_outcome"}

Pcs == Stage2 \cup Holding \cup {"parse", "ocr", "validate", "done", "failed"}

DocumentRow == [digest : DOMAIN Sniffed, ext : Types, format_valid : BOOLEAN]

ParsedBody == [name : Text, phone : Text, email : Text, address : Text]

Columns == {"outcome", "email", "document", "contact", "address", "dob", "age", "seen"}

(* A row of the tickets table, whose columns that go together agree. *)
IsRow(x) ==
    /\ x = [c \in Columns |-> x[c]]
    /\ RowOK(x)
    /\ x.email # <<>> /\ Given(x.email.address) => x.address = x.email.address
    /\ "age" \in DOMAIN x.document => x.age = x.document.age

IsMerged(merged) ==
    /\ DOMAIN merged \subseteq Fields
    /\ "address" \in DOMAIN merged => merged["address"] \in Text
    /\ "age" \in DOMAIN merged => merged["age"] \in Int

Locals == {"pc", "at", "row", "list", "merged", "seen", "hashes", "candidates", "early", "stale"}

IsSeq(c) == \E S : c \in Seq(S)

IsRun(x) ==
    /\ x = [v \in Locals |-> x[v]]
    /\ x.pc \in Pcs
    /\ x.at \in Nat \ {0}
    /\ IsRow(x.row)
    /\ x.list \in Seq(DocumentRow)
    /\ IsMerged(x.merged)
    /\ IsSeq(x.candidates)
    /\ x.stale \in BOOLEAN

InputsGiven == \E s \in Scenarios : mail = s.mail /\ works = s.works

OneRowPerHash(t) ==
    \A i, k \in DOMAIN docs[t] : docs[t][i].digest = docs[t][k].digest => i = k

RowsTyped ==
    /\ InputsGiven
    /\ row = [t \in Tickets |-> row[t]]
    /\ \A t \in Tickets : IsRow(row[t])
    /\ docs \in [Tickets -> Seq(DocumentRow)]
    /\ \A t \in Tickets : OneRowPerHash(t)

RunsTyped ==
    /\ run = [r \in Runs |-> run[r]]
    /\ \A r \in Runs : IsRun(run[r])

ClockTyped ==
    /\ today \in DOMAIN Calendar
    /\ used \in [Disturbances -> Nat]
    /\ \A d \in Disturbances : used[d] <= Limit[d]

Typed == RowsTyped /\ RunsTyped /\ ClockTyped

(* A writer who has all chunks of p before his own on disk: the last one to *)
(* open it.                                                                 *)
Covered(p) ==
    \E w \in Writers :
        /\ writing[w] # <<>>
        /\ writing[w][1] = p
        /\ 1..(writing[w][2] - 1) \subseteq file[p]

(* In the loop of stage 2, a run is at an attachment; its file is there or  *)
(* is being written by the run.                                             *)
AtAttachment(r) ==
    run[r].pc \in Stage2 \ {"check"} => run[r].at \in DOMAIN mail[works[r]].attachments

PathOf(r) == PathFor(Document(Attachment(r)))

Stored ==
    /\ StorageTypeOK
    /\ file = [p \in DOMAIN file |-> file[p]]
    /\ \A p \in DOMAIN file : Whole(p) \/ p \in cutShort \/ Covered(p)
    /\ \A w \in Writers : writing[w] # <<>> => writing[w][1] \in DOMAIN file

FilesFit ==
    /\ Stored
    /\ \A t \in Tickets : \A i \in DOMAIN docs[t] : PathFor(docs[t][i]) \in DOMAIN file
    /\ \A r \in Runs :
          /\ AtAttachment(r)
          /\ run[r].pc = "write" => writing[r] # <<>> /\ writing[r][1] = PathOf(r)
          /\ run[r].pc = "create" => PathOf(r) \in DOMAIN file

(* The copy of a run that is not stale agrees with the row. *)
CopiesFresh ==
    \A r \in Runs :
        run[r].pc \in Holding /\ ~run[r].stale =>
            /\ run[r].row.email = row[works[r]].email
            /\ run[r].row.seen = row[works[r]].seen

DocumentsInv == Typed /\ FilesFit /\ CopiesFresh

-----------------------------------------------------------------------------
(* Fields and rows.                                                         *)

(* What is read from a document differs from day to day by the age alone.   *)
LEMMA FieldsRead ==
    ASSUME NEW d \in DOMAIN Sniffed, NEW day \in Dates
    PROVE  LET fields == ExtractIdentityFields(Printed[d], day)
               first  == ExtractIdentityFields(Printed[d], Calendar[1])
           IN  /\ IsMerged(fields)
               /\ DOMAIN fields = DOMAIN first
               /\ \A f \in DOMAIN fields \ {"age"} : fields[f] = first[f]
<1> DEFINE text == Printed[d]
           fields == ExtractIdentityFields(text, day)
           first  == ExtractIdentityFields(text, Calendar[1])
<1>1. IsText(text.address) /\ text.dob \in Dates \cup {<<>>}
  BY InputsAssumption
<1> HIDE DEF text
<1>2. /\ DOMAIN fields = DOMAIN first
      /\ DOMAIN fields \subseteq Fields
      /\ "age" \in DOMAIN fields => text.dob # <<>>
  BY DEF ExtractIdentityFields, Fields
<1>3. \A f \in DOMAIN fields \ {"age"} : fields[f] = first[f]
  BY DEF ExtractIdentityFields
<1>4. "address" \in DOMAIN fields => fields["address"] = text.address
  BY DEF ExtractIdentityFields
<1>5. "age" \in DOMAIN fields => fields["age"] = ComputeAge(text.dob, day)
  BY DEF ExtractIdentityFields
<1>6. text.dob \in Dates => ComputeAge(text.dob, day) \in Int
  BY DEF ComputeAge, Dates
<1>7. IsMerged(fields)
  BY <1>1, <1>2, <1>4, <1>5, <1>6 DEF IsMerged, IsText
<1> QED  BY <1>2, <1>3, <1>7 DEF text

(* Merging the fields of documents keeps their types.                       *)
LEMMA MergedFields ==
    ASSUME NEW m, NEW f, IsMerged(m), IsMerged(f)
    PROVE  IsMerged(Merged(m, f))
BY DEF IsMerged, Merged, Overlay

(* A new ticket has a row whose columns agree.                              *)
LEMMA NewRowFits == IsRow(NewRow)
BY BlankText DEF IsRow, RowOK, NewRow, IsText, Columns

(* A stage that starts has typed local variables.                           *)
LEMMA StartFits ==
    ASSUME NEW pc \in Pcs
    PROVE  IsRun(Start(pc))
<1>1. <<>> \in Seq(DocumentRow)
  OBVIOUS
<1>2. IsMerged(<<>>)
  BY DEF IsMerged
<1> DEFINE x == Start(pc)
<1>3. /\ x = [v \in Locals |-> x[v]]
      /\ x.pc = pc /\ x.at = 1 /\ x.row = NewRow /\ x.list = <<>> /\ x.merged = <<>>
      /\ x.candidates = <<>> /\ x.stale = FALSE
  BY DEF Start, Locals
<1> HIDE DEF x
<1>4. IsSeq(x.candidates)
  BY <1>1, <1>3 DEF IsSeq
<1>5. IsRun(x)
  <2>1. x = [v \in Locals |-> x[v]] /\ x.pc \in Pcs /\ x.at \in Nat \ {0}
    BY <1>3
  <2>2. IsRow(x.row) /\ IsMerged(x.merged)
    BY <1>2, <1>3, NewRowFits
  <2>3. x.list \in Seq(DocumentRow)
    BY <1>1, <1>3
  <2>4. x.stale \in BOOLEAN
    BY <1>3
  <2> QED  BY <1>4, <2>1, <2>2, <2>3, <2>4, Zenon DEF IsRun
<1> QED  BY <1>5 DEF x

(* The columns agree whatever the outcome is set to.                        *)
LEMMA OutcomeFits ==
    ASSUME NEW x, IsRow(x), NEW o \in Outcomes
    PROVE  IsRow([x EXCEPT !.outcome = o])
BY DEF IsRow, RowOK, Outcomes, Columns

(* Stage 3 leaves the columns in agreement: the address is the body's.      *)
LEMMA ContactFits ==
    ASSUME NEW x, IsRow(x), NEW body, IsBody(body), NEW ner
    PROVE  IsRow(WithContact(x, ParseEmailBody(body, Blank, ner)))
<1> DEFINE parsed == ParseEmailBody(body, Blank, ner)
           y == WithContact(x, parsed)
<1>1. parsed \in ParsedBody
  BY BodyText DEF ParsedBody, IsText
<1> HIDE DEF parsed
<1>2. /\ y = [c \in Columns |-> y[c]]
      /\ y.outcome = "open" /\ y.email = parsed /\ y.document = x.document /\ y.age = x.age
      /\ y.contact = [email |-> Or(parsed.email, x.contact.email),
                      phone |-> Or(parsed.phone, x.contact.phone)]
      /\ y.address = Or(parsed.address, x.address)
  BY DEF WithContact, IsRow, Columns
<1> HIDE DEF y
<1>3. y.contact \in [email : Text, phone : Text]
  BY <1>1, <1>2 DEF IsRow, RowOK, Or, ParsedBody
<1>4. y.address \in Text /\ (Given(parsed.address) => y.address = parsed.address)
  BY <1>1, <1>2 DEF IsRow, RowOK, Or, ParsedBody
<1>5. y.email \in [name : Text, phone : Text, email : Text, address : Text]
  BY <1>1, <1>2 DEF ParsedBody
<1>6. RowOK(y)
  BY <1>2, <1>3, <1>4, <1>5 DEF RowOK, IsRow
<1>7. IsRow(y)
  BY <1>2, <1>4, <1>6 DEF IsRow
<1> QED  BY <1>7 DEF y, parsed

(* Stage 4 leaves the columns in agreement: both ages, and the address.     *)
LEMMA FieldsFit ==
    ASSUME NEW x, IsRow(x), NEW m, IsMerged(m), ~NegativeAge(m), NEW seen
    PROVE  IsRow(WithFields(x, m, seen))
<1> DEFINE y == WithFields(x, m, seen)
<1>1. /\ y = [c \in Columns |-> y[c]]
      /\ y.outcome = x.outcome /\ y.email = x.email /\ y.document = m /\ y.contact = x.contact
      /\ y.age = IF "age" \in DOMAIN m THEN m.age ELSE x.age
      /\ y.address = IF "address" \in DOMAIN m THEN Or(x.address, m.address) ELSE x.address
  BY DEF WithFields, IsRow, Columns
<1> HIDE DEF y
<1>2. y.age \in Nat \cup {None}
  BY <1>1 DEF IsMerged, NegativeAge, IsRow, RowOK
<1>3. y.address \in Text
  BY <1>1 DEF IsMerged, IsRow, RowOK, Or
<1>4. x.email # <<>> /\ Given(x.email.address) => y.address = x.email.address
  BY <1>1 DEF IsRow, Or
<1>5. RowOK(y)
  BY <1>1, <1>2, <1>3 DEF IsRow, RowOK, IsMerged
<1>6. IsRow(y)
  BY <1>1, <1>4, <1>5 DEF IsRow
<1> QED  BY <1>6 DEF y

-----------------------------------------------------------------------------
(* Types are kept.                                                          *)

AttachmentType == [digest : DOMAIN Sniffed, content_type : STRING]

(* The emails and the runs are those of a scenario.                         *)
LEMMA Inputs ==
    ASSUME InputsGiven
    PROVE  /\ works \in [Runs -> Tickets]
           /\ \A t \in Tickets : mail[t].attachments \in Seq(AttachmentType) /\ IsBody(mail[t].body)
BY InputsAssumption DEF InputsGiven, AttachmentType

(* The Document row of an attachment.                                       *)
LEMMA DocumentFits ==
    ASSUME NEW att \in AttachmentType
    PROVE  /\ Document(att) \in DocumentRow
           /\ Document(att).digest = att.digest
<1>1. Declared(att.content_type) \in Types \cup {""}
  BY DEF Declared, Types
<1>2. Sniffed[att.digest] \in Types \cup {""} /\ att.digest \in DOMAIN Sniffed
  BY InputsAssumption DEF AttachmentType
<1> QED  BY <1>1, <1>2 DEF Document, DocumentRow, Types

(* Today is a date.                                                         *)
LEMMA Today ==
    ASSUME today \in DOMAIN Calendar
    PROVE  Calendar[today] \in Dates
<1>1. Calendar \in Seq(Dates)
  BY InputsAssumption
<1>2. DOMAIN Calendar = 1..Len(Calendar)
  BY <1>1
<1> QED  BY <1>1, <1>2, ElementOfSeq

(* A run goes on. *)
LEMMA ContinueTyped ==
    ASSUME RunsTyped, NEW r \in Runs, NEW n, IsRun(n), Continue(r, n)
    PROVE  RunsTyped'
<1>1. \A s \in Runs : run'[s] = IF s = r THEN n ELSE run[s]
  BY DEF RunsTyped, Continue
<1>2. run' = [s \in Runs |-> run'[s]]
  BY DEF RunsTyped, Continue
<1>3. \A s \in Runs : IsRun(run'[s])
  BY <1>1 DEF RunsTyped
<1> QED  BY <1>2, <1>3 DEF RunsTyped

(* A copy that went stale is a copy.                                        *)
LEMMA StaleFits ==
    ASSUME NEW x, IsRun(x)
    PROVE  IsRun([x EXCEPT !.stale = TRUE])
BY DEF IsRun, Locals

(* A full-row save keeps the types when the row saved fits.                 *)
LEMMA SaveTyped ==
    ASSUME RunsTyped, RowsTyped, NEW r \in Runs, NEW x, IsRow(x), NEW next \in Pcs,
           Save(r, x, next), UNCHANGED given
    PROVE  RunsTyped' /\ RowsTyped'
<1>1. ASSUME NEW s \in Runs  PROVE IsRun(run'[s])
  <2>1. run'[s] \in {Start(next), [run[s] EXCEPT !.stale = TRUE], run[s]}
    BY DEF Save
  <2> QED  BY <2>1, StartFits, StaleFits DEF RunsTyped
<1>2. run' = [s \in Runs |-> run'[s]]
  BY DEF Save
<1>3. works[r] \in Tickets
  BY Inputs DEF RowsTyped
<1>4. row' = [t \in Tickets |-> row'[t]] /\ \A t \in Tickets : row'[t] = x \/ row'[t] = row[t]
  BY <1>3 DEF Save, RowsTyped
<1>5. UNCHANGED <<docs, mail, works>>
  BY DEF Save, given
<1>6. RowsTyped'
  BY <1>4, <1>5 DEF RowsTyped, InputsGiven, OneRowPerHash
<1> QED  BY <1>1, <1>2, <1>6 DEF RunsTyped

(* A disturbance stays within its bound.                                    *)
LEMMA SpendTyped ==
    ASSUME ClockTyped, NEW d \in Disturbances, Spend(d), UNCHANGED today
    PROVE  ClockTyped'
<1>1. Limit[d] \in Nat /\ used[d] \in Nat
  BY DocumentsAssumption DEF ClockTyped
<1>2. \A e \in Disturbances : used'[e] = IF e = d THEN used[d] + 1 ELSE used[e]
  BY DEF ClockTyped, Spend
<1>3. used' \in [Disturbances -> Nat]
  BY <1>1 DEF ClockTyped, Spend
<1> QED  BY <1>1, <1>2, <1>3 DEF ClockTyped, Spend

(* Stage 2. *)
LEMMA StageTwoTyped ==
    ASSUME Typed, NEW r \in Runs,
           CheckAttachment(r) \/ StatFile(r) \/ OpenFile(r) \/ WriteFile(r)
    PROVE  Typed'
<1> DEFINE x == run[r]
<1>1. IsRun(x)
  BY DEF Typed, RunsTyped
<1>2. RowsTyped' /\ ClockTyped'
  BY DEF Typed, RowsTyped, ClockTyped, CheckAttachment, StatFile, OpenFile, WriteFile, rows, given,
         InputsGiven, OneRowPerHash
<1>3. \A pc \in Stage2 : IsRun([x EXCEPT !.pc = pc])
  BY <1>1 DEF IsRun, Locals, Stage2, Pcs
<1>4. IsRun([x EXCEPT !.at = @ + 1])
  BY <1>1 DEF IsRun, Locals
<1>5. IsRun(Start("parse"))
  BY StartFits DEF Pcs
<1>6. \E n : IsRun(n) /\ Continue(r, n)
  BY <1>3, <1>4, <1>5 DEF CheckAttachment, StatFile, OpenFile, WriteFile, Enter, Stage2
<1> QED  BY <1>2, <1>6, ContinueTyped DEF Typed

(* The INSERT of stage 2 gives no ticket two rows of one hash.              *)
LEMMA CreateDocumentTyped ==
    ASSUME Typed, NEW r \in Runs, CreateDocument(r), AtAttachment(r)
    PROVE  Typed'
<1> DEFINE x == run[r]
           t == works[r]
           doc == Document(Attachment(r))
<1>1. IsRun(x) /\ t \in Tickets /\ UNCHANGED <<mail, works, row, today, used>>
  BY Inputs DEF Typed, RunsTyped, RowsTyped, CreateDocument, given
<1>2. ClockTyped'
  BY <1>1 DEF Typed, ClockTyped
<1>3. doc \in DocumentRow
  <2>1. Attachment(r) \in AttachmentType
    <3>1. mail[t].attachments \in Seq(AttachmentType) /\ run[r].at \in DOMAIN mail[t].attachments
      BY <1>1, Inputs DEF Typed, RowsTyped, AtAttachment, Stage2, CreateDocument
    <3> QED  BY <3>1, ElementOfSeq DEF Attachment
  <2> QED  BY <2>1, DocumentFits
<1> HIDE DEF doc
<1>4. RunsTyped'
  <2> DEFINE n == [x EXCEPT !.pc = "check", !.at = @ + 1]
  <2>1. IsRun(n)
    <3>1. /\ n = [v \in Locals |-> n[v]] /\ n.pc = "check" /\ n.at = x.at + 1
          /\ n.row = x.row /\ n.list = x.list /\ n.merged = x.merged
          /\ n.candidates = x.candidates /\ n.stale = x.stale
      BY <1>1 DEF IsRun, Locals
    <3>2. x.at + 1 \in Nat \ {0} /\ "check" \in Pcs
      BY <1>1 DEF IsRun, Stage2, Pcs
    <3> HIDE DEF n
    <3> QED  BY <1>1, <3>1, <3>2 DEF IsRun
  <2>2. IsRun(Start("check"))
    BY StartFits DEF Pcs, Stage2
  <2> QED  BY <2>1, <2>2, ContinueTyped DEF CreateDocument, Enter, Typed, n
<1>5. CASE doc.digest \in Digests(docs[t])
  <2>1. UNCHANGED docs
    BY <1>5 DEF CreateDocument, doc
  <2>2. RowsTyped'
    BY <1>1, <2>1 DEF Typed, RowsTyped, InputsGiven, OneRowPerHash
  <2> QED  BY <1>2, <1>4, <2>2 DEF Typed
<1>6. CASE doc.digest \notin Digests(docs[t])
  <2>1. docs' = [docs EXCEPT ![t] = Append(@, doc)]
    BY <1>6 DEF CreateDocument, doc
  <2>2. docs \in [Tickets -> Seq(DocumentRow)] /\ OneRowPerHash(t)
    BY <1>1 DEF Typed, RowsTyped
  <2>3. docs' \in [Tickets -> Seq(DocumentRow)]
    BY <1>1, <1>3, <2>1, <2>2
  <2>4. ASSUME NEW u \in Tickets PROVE OneRowPerHash(u)'
    <3>1. CASE u # t
      BY <2>1, <2>2, <3>1 DEF OneRowPerHash, Typed, RowsTyped
    <3>2. CASE u = t
      <4> DEFINE s == docs[t]
      <4>1. s \in Seq(DocumentRow) /\ docs'[t] = Append(s, doc)
        BY <1>1, <2>1, <2>2
      <4>2. \A i \in DOMAIN s : s[i].digest # doc.digest
        BY <1>6 DEF Digests
      <4>3. \A i, k \in DOMAIN s : s[i].digest = s[k].digest => i = k
        BY <2>2 DEF OneRowPerHash
      <4> HIDE DEF s
      <4>4. /\ DOMAIN Append(s, doc) = 1..(Len(s) + 1)
            /\ \A i \in DOMAIN s : Append(s, doc)[i] = s[i]
            /\ Append(s, doc)[Len(s) + 1] = doc
            /\ DOMAIN s = 1..Len(s) /\ Len(s) \in Nat
        BY <4>1
      <4>5. \A i \in DOMAIN Append(s, doc) : i \in DOMAIN s \/ i = Len(s) + 1
        BY <4>4
      <4> QED  BY <3>2, <4>1, <4>2, <4>3, <4>4, <4>5 DEF OneRowPerHash
    <3> QED  BY <3>1, <3>2
  <2>5. RowsTyped'
    BY <1>1, <2>3, <2>4 DEF Typed, RowsTyped, InputsGiven
  <2> QED  BY <1>2, <1>4, <2>5 DEF Typed
<1> QED  BY <1>5, <1>6

(* The parts of a run that a step replaces. *)
LEMMA RunFits ==
    ASSUME NEW x, IsRun(x), NEW pc \in Pcs
    PROVE  /\ \A y : IsRow(y) => IsRun([x EXCEPT !.pc = pc, !.row = y, !.stale = FALSE])
           /\ \A l \in Seq(DocumentRow) : IsRun([x EXCEPT !.pc = pc, !.list = l])
           /\ \A h : IsRun([x EXCEPT !.pc = pc, !.hashes = h])
           /\ \A e, c : IsSeq(c) => IsRun([x EXCEPT !.pc = pc, !.early = e, !.candidates = c])
           /\ \A o \in Outcomes : IsRun([x EXCEPT !.pc = pc, !.row.outcome = o])
<1>1. ASSUME NEW y, IsRow(y)
      PROVE  IsRun([x EXCEPT !.pc = pc, !.row = y, !.stale = FALSE])
  BY <1>1 DEF IsRun, Locals
<1>2. ASSUME NEW l \in Seq(DocumentRow)
      PROVE  IsRun([x EXCEPT !.pc = pc, !.list = l])
  BY <1>2 DEF IsRun, Locals
<1>3. ASSUME NEW h
      PROVE  IsRun([x EXCEPT !.pc = pc, !.hashes = h])
  BY <1>3 DEF IsRun, Locals
<1>4. ASSUME NEW e, NEW c, IsSeq(c)
      PROVE  IsRun([x EXCEPT !.pc = pc, !.early = e, !.candidates = c])
  BY <1>4 DEF IsRun, Locals
<1>5. ASSUME NEW o \in Outcomes
      PROVE  IsRun([x EXCEPT !.pc = pc, !.row.outcome = o])
  <2> DEFINE y == [x.row EXCEPT !.outcome = o]
             n == [x EXCEPT !.pc = pc, !.row = y]
  <2>1. IsRow(y)
    BY OutcomeFits DEF IsRun
  <2>2. [x EXCEPT !.pc = pc, !.row.outcome = o] = n
    BY DEF IsRun, Locals
  <2> HIDE DEF y
  <2>3. IsRun(n)
    BY <2>1 DEF IsRun, Locals
  <2> QED  BY <2>2, <2>3
<1> QED  BY <1>1, <1>2, <1>3, <1>4, <1>5

(* Steps that change the run alone. *)
LEMMA RunStepTyped ==
    ASSUME Typed, NEW r \in Runs, NEW n, IsRun(n), Continue(r, n),
           UNCHANGED <<given, rows, today>>, UNCHANGED used \/ Spend("misreads") \/ Spend("restarts")
    PROVE  Typed'
<1>1. RowsTyped'
  BY DEF Typed, RowsTyped, rows, given, InputsGiven, OneRowPerHash
<1>2. RunsTyped'
  BY ContinueTyped DEF Typed
<1>3. ClockTyped'
  <2>1. CASE UNCHANGED used
    BY <2>1 DEF Typed, ClockTyped
  <2>2. CASE ~UNCHANGED used
    BY <2>2, SpendTyped DEF Typed, Disturbances
  <2> QED  BY <2>1, <2>2
<1> QED  BY <1>1, <1>2, <1>3 DEF Typed

(* Stages 3 and 4 read the row.                                             *)
LEMMA ReadsTyped ==
    ASSUME Typed, NEW r \in Runs, ParseRead(r) \/ OcrRead(r)
    PROVE  Typed'
<1>1. IsRun(run[r]) /\ IsRow(row[works[r]])
  BY Inputs DEF Typed, RunsTyped, RowsTyped
<1>2. \A pc \in Pcs : IsRun([run[r] EXCEPT !.pc = pc, !.row = row[works[r]], !.stale = FALSE])
  BY <1>1, RunFits
<1>3. "save_contact" \in Pcs /\ "list" \in Pcs
  BY DEF Pcs, Holding
<1>4. \E n : IsRun(n) /\ Continue(r, n)
  BY <1>2, <1>3 DEF ParseRead, OcrRead, Read
<1>5. UNCHANGED <<given, rows, today, used>>
  BY DEF ParseRead, OcrRead
<1> QED  BY <1>4, <1>5, RunStepTyped

(* The queries of a ticket's documents.                                     *)
LEMMA ListsTyped ==
    ASSUME Typed, NEW r \in Runs, ListDocuments(r) \/ ListForChecks(r) \/ OwnHashes(r)
    PROVE  Typed'
<1>1. IsRun(run[r]) /\ docs[works[r]] \in Seq(DocumentRow)
  BY Inputs DEF Typed, RunsTyped, RowsTyped
<1>2. "read" \in Pcs /\ "hashes" \in Pcs /\ "find" \in Pcs
  BY DEF Pcs, Holding
<1>3. \E n : IsRun(n) /\ Continue(r, n)
  BY <1>1, <1>2, RunFits DEF ListDocuments, ListForChecks, OwnHashes
<1>4. UNCHANGED <<given, rows, today, used>>
  BY DEF ListDocuments, ListForChecks, OwnHashes
<1> QED  BY <1>3, <1>4, RunStepTyped

(* Stage 4 reads a document, or fails to.                                   *)
LEMMA ReadDocumentTyped ==
    ASSUME Typed, NEW r \in Runs, ReadDocument(r)
    PROVE  Typed'
<1> DEFINE x == run[r]
           doc == Head(x.list)
           fields == ExtractIdentityFields(Printed[doc.digest], Calendar[today])
           rest == [x EXCEPT !.list = Tail(@)]
           more == [rest EXCEPT !.merged = Merged(@, fields), !.seen = @ \cup {doc.digest}]
<1>1. IsRun(x) /\ x.list # <<>>
  BY DEF Typed, RunsTyped, ReadDocument
<1>2. doc \in DocumentRow /\ Tail(x.list) \in Seq(DocumentRow)
  BY <1>1, HeadTailProperties DEF IsRun
<1>3. IsMerged(fields)
  <2>1. doc.digest \in DOMAIN Sniffed /\ Calendar[today] \in Dates
    BY <1>2, Today DEF DocumentRow, Typed, ClockTyped
  <2> HIDE DEF doc
  <2> QED  BY <2>1, FieldsRead
<1> HIDE DEF doc, fields
<1>4. IsRun(rest)
  BY <1>1, <1>2 DEF IsRun, Locals
<1>5. IsRun(more)
  <2> DEFINE m == Merged(rest.merged, fields)
  <2>1. IsMerged(m)
    BY <1>3, <1>4, MergedFields DEF IsRun
  <2> HIDE DEF m, rest
  <2>2. IsRun([rest EXCEPT !.merged = m, !.seen = @ \cup {doc.digest}])
    BY <1>4, <2>1 DEF IsRun, Locals
  <2> QED  BY <2>2 DEF m
<1>6. Continue(r, rest) \/ Continue(r, more)
  BY DEF ReadDocument, doc, fields
<1>7. UNCHANGED <<given, rows, today>> /\ (UNCHANGED used \/ Spend("misreads"))
  BY DEF ReadDocument
<1> HIDE DEF rest, more
<1> QED  BY <1>4, <1>5, <1>6, <1>7, RunStepTyped

(* Stage 3 saves the row.                                                   *)
LEMMA ParseSaveTyped ==
    ASSUME Typed, NEW r \in Runs, ParseSave(r)
    PROVE  Typed'
<1>1. PICK ner \in BOOLEAN :
          /\ UNCHANGED used \/ Spend("ner_failures")
          /\ Save(r, WithContact(run[r].row, ParseEmailBody(mail[works[r]].body, Blank, ner)), "ocr")
  BY DEF ParseSave
<1>2. IsRow(run[r].row) /\ IsBody(mail[works[r]].body)
  BY Inputs DEF Typed, RunsTyped, RowsTyped, IsRun
<1>3. IsRow(WithContact(run[r].row, ParseEmailBody(mail[works[r]].body, Blank, ner)))
  BY <1>2, ContactFits
<1>4. RunsTyped' /\ RowsTyped'
  <2>1. "ocr" \in Pcs
    BY DEF Pcs
  <2>2. UNCHANGED given
    BY DEF ParseSave
  <2> QED  BY <1>1, <1>3, <2>1, <2>2, SaveTyped DEF Typed
<1>5. ClockTyped'
  <2>1. UNCHANGED today
    BY DEF ParseSave
  <2>2. CASE UNCHANGED used
    BY <2>1, <2>2 DEF Typed, ClockTyped
  <2>3. CASE Spend("ner_failures")
    BY <2>1, <2>3, SpendTyped DEF Typed, Disturbances
  <2> QED  BY <1>1, <2>2, <2>3
<1> QED  BY <1>4, <1>5 DEF Typed

(* Stage 4 saves the row, or has nothing to save, or is refused.            *)
LEMMA SaveFieldsTyped ==
    ASSUME Typed, NEW r \in Runs, SaveFields(r)
    PROVE  Typed'
<1> DEFINE merged == run[r].merged
           x == WithFields(run[r].row, merged, run[r].seen)
<1>1. IsRun(run[r]) /\ "validate" \in Pcs /\ "failed" \in Pcs
  BY DEF Typed, RunsTyped, Pcs
<1>2. UNCHANGED <<given, today, used>>
  BY DEF SaveFields
<1>3. CASE ~NegativeAge(merged) /\ Save(r, x, "validate")
  <2>1. IsRow(x)
    BY <1>1, <1>3, FieldsFit DEF IsRun
  <2> HIDE DEF x
  <2>2. RunsTyped' /\ RowsTyped'
    BY <1>1, <1>2, <1>3, <2>1, SaveTyped DEF Typed
  <2>3. ClockTyped'
    BY <1>2 DEF Typed, ClockTyped
  <2> QED  BY <2>2, <2>3 DEF Typed
<1>4. CASE UNCHANGED rows /\ \E pc \in {"validate", "failed"} : Enter(r, pc)
  <2>1. PICK pc \in {"validate", "failed"} : Continue(r, Start(pc))
    BY <1>4 DEF Enter
  <2>2. IsRun(Start(pc))
    BY <1>1, StartFits
  <2> QED  BY <1>2, <1>4, <2>1, <2>2, RunStepTyped
<1> QED  BY <1>3, <1>4 DEF SaveFields

(* Stage 5 reads the row and sets its status.                               *)
LEMMA ValidateReadTyped ==
    ASSUME Typed, NEW r \in Runs, ValidateRead(r)
    PROVE  Typed'
<1> DEFINE t == works[r]
           awaiting == [row[t] EXCEPT !.outcome = "open"]
<1>1. IsRun(run[r]) /\ t \in Tickets /\ IsRow(row[t]) /\ "documents" \in Pcs
  BY Inputs DEF Typed, RunsTyped, RowsTyped, Pcs, Holding
<1>2. IsRow(awaiting)
  BY <1>1, OutcomeFits DEF Outcomes
<1>3. /\ row' = [row EXCEPT ![t] = awaiting]
      /\ Continue(r, [run[r] EXCEPT !.pc = "documents", !.row = awaiting, !.stale = FALSE])
      /\ UNCHANGED <<given, docs, today, used>>
  BY DEF ValidateRead
<1> HIDE DEF awaiting
<1>4. RunsTyped'
  BY <1>1, <1>2, <1>3, RunFits, ContinueTyped DEF Typed
<1>5. RowsTyped'
  <2>1. row' = [u \in Tickets |-> row'[u]] /\ \A u \in Tickets : row'[u] \in {row[u], awaiting}
    BY <1>1, <1>3 DEF Typed, RowsTyped
  <2> QED  BY <1>2, <1>3, <2>1 DEF Typed, RowsTyped, given, InputsGiven, OneRowPerHash
<1>6. ClockTyped'
  BY <1>3 DEF Typed, ClockTyped
<1> QED  BY <1>4, <1>5, <1>6 DEF Typed

(* Stage 5 asks for the earlier tickets.                                    *)
LEMMA FindCandidatesTyped ==
    ASSUME Typed, NEW r \in Runs, FindCandidates(r)
    PROVE  Typed'
<1>1. PICK e, n, c :
          /\ Continue(r, [run[r] EXCEPT !.pc = "compare", !.early = e, !.candidates = c])
          /\ c = [i \in 1..Cardinality(n) |-> c[i]]
          /\ \E S : n = {u \in Tickets : u < works[r] /\ u \in S}
  <2> DEFINE found == {u \in Tickets : u < works[r]
                                        /\ SameApplicant(run[r].row.contact, row[u].contact)}
             Nth(i) == CHOOSE u \in found : Cardinality({v \in found : v <= u}) = i
             c == [i \in 1..Cardinality(found) |->
                      [ticket |-> Nth(i), number |-> Field(row[Nth(i)].document, "document_number")]]
             e == {u \in Tickets : u < works[r] /\ row[u].email = <<>>}
  <2>1. Continue(r, [run[r] EXCEPT !.pc = "compare", !.early = e, !.candidates = c])
    BY DEF FindCandidates
  <2>2. c = [i \in 1..Cardinality(found) |-> c[i]]
    OBVIOUS
  <2>3. found = {u \in Tickets : u < works[r] /\ u \in found}
    OBVIOUS
  <2> HIDE DEF c, e, found
  <2> QED  BY <2>1, <2>2, <2>3
<1>2. works[r] \in Tickets /\ IsRun(run[r]) /\ "compare" \in Pcs
  BY Inputs DEF Typed, RunsTyped, RowsTyped, Pcs, Holding
<1>3. Cardinality(n) \in Nat
  <2>1. \A u \in n : u \in Nat /\ u <= works[r]
    BY <1>1, <1>2, DocumentsAssumption
  <2>2. works[r] \in Nat
    BY <1>2, DocumentsAssumption
  <2>3. IsFiniteSet(n)
    BY <2>1, <2>2, FS_BoundedSetOfNaturals
  <2> QED  BY <2>3, FS_CardinalityType
<1>4. IsSeq(c)
  <2> DEFINE S == {c[i] : i \in 1..Cardinality(n)}
  <2>1. \A i \in 1..Cardinality(n) : c[i] \in S
    OBVIOUS
  <2> HIDE DEF S
  <2>2. c \in [1..Cardinality(n) -> S]
    BY <1>1, <2>1
  <2>3. c \in Seq(S)
    BY <1>3, <2>2, SeqDef, Zenon
  <2> QED  BY <2>3 DEF IsSeq
<1>5. IsRun([run[r] EXCEPT !.pc = "compare", !.early = e, !.candidates = c])
  BY <1>2, <1>4, RunFits
<1>6. UNCHANGED <<given, rows, today, used>>
  BY DEF FindCandidates
<1> QED  BY <1>1, <1>5, <1>6, RunStepTyped

(* Stage 5 compares a candidate, or decides.                                *)
LEMMA CompareCandidateTyped ==
    ASSUME Typed, NEW r \in Runs, CompareCandidate(r)
    PROVE  Typed'
<1> DEFINE x == run[r]
<1>1. IsRun(x) /\ "save_outcome" \in Pcs
  BY DEF Typed, RunsTyped, Pcs, Holding
<1>2. ASSUME NEW duplicate, Decide(r, duplicate)
      PROVE  \E n : IsRun(n) /\ Continue(r, n)
  <2>1. Outcome(x.row, x.list, duplicate) \in Outcomes
    BY DEF Outcome, Outcomes
  <2> QED  BY <1>1, <1>2, <2>1, RunFits DEF Decide
<1>3. ASSUME x.candidates # <<>>, Continue(r, [x EXCEPT !.candidates = Tail(@)])
      PROVE  \E n : IsRun(n) /\ Continue(r, n)
  <2>1. IsSeq(Tail(x.candidates))
    BY <1>1, <1>3, HeadTailProperties DEF IsRun, IsSeq
  <2> DEFINE tail == Tail(x.candidates)
  <2> HIDE DEF tail
  <2>2. IsRun([x EXCEPT !.candidates = tail])
    BY <1>1, <2>1 DEF IsRun, Locals, tail
  <2> QED  BY <1>3, <2>2 DEF tail
<1>4. \E n : IsRun(n) /\ Continue(r, n)
  BY <1>2, <1>3 DEF CompareCandidate
<1>5. UNCHANGED <<given, rows, today, used>>
  BY DEF CompareCandidate
<1> QED  BY <1>4, <1>5, RunStepTyped

(* Stage 5 saves the row.                                                   *)
LEMMA SaveOutcomeTyped ==
    ASSUME Typed, NEW r \in Runs, SaveOutcome(r)
    PROVE  Typed'
<1>1. IsRow(run[r].row) /\ "done" \in Pcs
  BY DEF Typed, RunsTyped, IsRun, Pcs
<1>2. RunsTyped' /\ RowsTyped'
  BY <1>1, SaveTyped DEF Typed, SaveOutcome
<1>3. ClockTyped'
  BY DEF Typed, ClockTyped, SaveOutcome
<1> QED  BY <1>2, <1>3 DEF Typed

(* A stage starts over.                                                     *)
LEMMA RestartTyped ==
    ASSUME Typed, NEW r \in Runs, Restart(r)
    PROVE  Typed'
<1>1. StageOf(run[r].pc) \in Pcs
  BY DEF StageOf, Pcs, Typed, RunsTyped, IsRun, Restart, Stage2, Holding
<1>2. IsRun(Start(StageOf(run[r].pc)))
  BY <1>1, StartFits
<1>3. /\ Continue(r, Start(StageOf(run[r].pc)))
      /\ UNCHANGED <<given, rows, today>> /\ Spend("restarts")
  BY DEF Restart, Enter
<1> QED  BY <1>2, <1>3, RunStepTyped

(* A day passes.                                                            *)
LEMMA NextDayTyped ==
    ASSUME Typed, NextDay
    PROVE  Typed'
<1>1. today' \in DOMAIN Calendar
  <2>1. Calendar \in Seq(Dates)
    BY InputsAssumption
  <2>2. DOMAIN Calendar = 1..Len(Calendar) /\ Len(Calendar) \in Nat
    BY <2>1
  <2> QED  BY <2>2 DEF Typed, ClockTyped, NextDay
<1>2. ClockTyped'
  BY <1>1 DEF Typed, ClockTyped, NextDay
<1>3. RowsTyped' /\ RunsTyped'
  BY DEF Typed, RowsTyped, RunsTyped, NextDay, given, rows, InputsGiven, OneRowPerHash
<1> QED  BY <1>2, <1>3 DEF Typed

-----------------------------------------------------------------------------
(* Files.                                                                   *)

(* The file opened is truncated: the last to open it has no chunk behind it. *)
LEMMA OpenStored ==
    ASSUME Stored, NEW w \in Writers, NEW p \in Paths, Open(w, p)
    PROVE  /\ Stored'
           /\ DOMAIN file' = DOMAIN file \cup {p}
           /\ writing'[w] = <<p, 1>>
           /\ \A v \in Writers \ {w} : writing'[v] = writing[v]
<1>1. /\ DOMAIN file \subseteq Paths /\ \A q \in DOMAIN file : file[q] \subseteq 1..Chunks
      /\ writing \in [Writers -> {<<>>} \cup (Paths \X (1..Chunks))]
      /\ cutShort \subseteq Paths /\ Chunks \in Nat \ {0}
  BY ChunksAssumption DEF Stored, StorageTypeOK
<1>2. /\ file' = [q \in DOMAIN file \cup {p} |-> IF q = p THEN {} ELSE file[q]]
      /\ writing' = [writing EXCEPT ![w] = <<p, 1>>]
      /\ writing[w] = <<>> /\ cutShort' = cutShort
  BY DEF Open
<1>3. /\ DOMAIN file' = DOMAIN file \cup {p} /\ file'[p] = {}
      /\ \A q \in DOMAIN file \ {p} : file'[q] = file[q]
  BY <1>2
<1>4. <<p, 1>> \in Paths \X (1..Chunks)
  BY <1>1
<1>5. /\ writing' \in [Writers -> {<<>>} \cup (Paths \X (1..Chunks))]
      /\ writing'[w] = <<p, 1>>
      /\ \A v \in Writers \ {w} : writing'[v] = writing[v]
  BY <1>1, <1>2, <1>4
<1>6. StorageTypeOK'
  BY <1>1, <1>2, <1>3, <1>5 DEF StorageTypeOK
<1>7. file' = [q \in DOMAIN file' |-> file'[q]]
  BY <1>2, <1>3
<1>8. <<p, 1>> # <<>> /\ <<p, 1>>[1] = p /\ <<p, 1>>[2] = 1
  OBVIOUS
<1>9. ASSUME NEW q \in DOMAIN file'
      PROVE  (Whole(q) \/ q \in cutShort \/ Covered(q))'
  <2>1. CASE q = p
    <3>1. 1..(1 - 1) \subseteq file'[p]
      OBVIOUS
    <3> QED  BY <1>5, <1>8, <2>1, <3>1 DEF Covered
  <2>2. CASE q # p
    <3>1. q \in DOMAIN file /\ file'[q] = file[q]
      BY <1>3, <2>2
    <3>2. Whole(q) \/ q \in cutShort \/ Covered(q)
      BY <3>1 DEF Stored
    <3>3. CASE Covered(q)
      <4>1. PICK v \in Writers : writing[v] # <<>> /\ writing[v][1] = q
                                 /\ 1..(writing[v][2] - 1) \subseteq file[q]
        BY <3>3 DEF Covered
      <4>2. v # w
        BY <1>2, <4>1
      <4> QED  BY <1>5, <3>1, <4>1, <4>2 DEF Covered
    <3> QED  BY <1>2, <1>3, <3>1, <3>2, <3>3 DEF Whole
  <2> QED  BY <2>1, <2>2
<1>10. ASSUME NEW v \in Writers, writing'[v] # <<>>
       PROVE  writing'[v][1] \in DOMAIN file'
  BY <1>3, <1>5, <1>8, <1>10 DEF Stored
<1> QED  BY <1>3, <1>5, <1>6, <1>7, <1>9, <1>10 DEF Stored

(* A chunk more is on disk.                                                 *)
LEMMA WriteStored ==
    ASSUME Stored, NEW w \in Writers, Write(w)
    PROVE  /\ Stored'
           /\ DOMAIN file' = DOMAIN file
           /\ ~WritesLast(w) => writing'[w] # <<>> /\ writing'[w][1] = writing[w][1]
           /\ \A v \in Writers \ {w} : writing'[v] = writing[v]
<1> DEFINE p == writing[w][1]
           n == writing[w][2]
<1>1. /\ DOMAIN file \subseteq Paths /\ \A q \in DOMAIN file : file[q] \subseteq 1..Chunks
      /\ writing \in [Writers -> {<<>>} \cup (Paths \X (1..Chunks))]
      /\ cutShort \subseteq Paths /\ Chunks \in Nat \ {0}
  BY ChunksAssumption DEF Stored, StorageTypeOK
<1>2. /\ writing[w] # <<>>
      /\ file' = [file EXCEPT ![p] = @ \cup {n}]
      /\ writing' = [writing EXCEPT ![w] = IF n = Chunks THEN <<>> ELSE <<p, n + 1>>]
      /\ cutShort' = IF file'[p] = 1..Chunks THEN cutShort \ {p} ELSE cutShort
  BY DEF Write
<1>3. p \in Paths /\ n \in 1..Chunks
  BY <1>1, <1>2
<1>4. p \in DOMAIN file
  BY <1>2 DEF Stored
<1>5. WritesLast(w) <=> n = Chunks
  BY <1>2 DEF WritesLast
<1> HIDE DEF p, n
<1>6. /\ DOMAIN file' = DOMAIN file /\ file'[p] = file[p] \cup {n}
      /\ \A q \in DOMAIN file \ {p} : file'[q] = file[q]
      /\ file' = [q \in DOMAIN file' |-> file'[q]]
  BY <1>2, <1>4 DEF Stored
<1>7. /\ n # Chunks => <<p, n + 1>> \in Paths \X (1..Chunks)
      /\ <<p, n + 1>> # <<>> /\ <<p, n + 1>>[1] = p /\ <<p, n + 1>>[2] = n + 1
  BY <1>1, <1>3
<1>8. /\ writing' \in [Writers -> {<<>>} \cup (Paths \X (1..Chunks))]
      /\ writing'[w] = IF n = Chunks THEN <<>> ELSE <<p, n + 1>>
      /\ \A v \in Writers \ {w} : writing'[v] = writing[v]
  BY <1>1, <1>2, <1>7
<1>9. StorageTypeOK'
  <2>1. file'[p] \subseteq 1..Chunks
    BY <1>1, <1>3, <1>4, <1>6
  <2> QED  BY <1>1, <1>2, <1>6, <1>8, <2>1 DEF StorageTypeOK
<1>10. ASSUME NEW q \in DOMAIN file'
       PROVE  (Whole(q) \/ q \in cutShort \/ Covered(q))'
  <2>1. Whole(q) \/ q \in cutShort \/ Covered(q)
    BY <1>6 DEF Stored
  <2>2. file[q] \subseteq file'[q] /\ file'[q] \subseteq 1..Chunks
    BY <1>6, <1>9 DEF StorageTypeOK
  <2>3. CASE Whole(q)
    BY <1>6, <2>2, <2>3 DEF Whole
  <2>4. CASE q \in cutShort
    <3>1. q \in cutShort' \/ (q = p /\ file'[p] = 1..Chunks)
      BY <1>2, <2>4
    <3> QED  BY <3>1 DEF Whole
  <2>5. CASE Covered(q)
    <3>1. PICK v \in Writers : writing[v] # <<>> /\ writing[v][1] = q
                               /\ 1..(writing[v][2] - 1) \subseteq file[q]
      BY <2>5 DEF Covered
    <3>2. CASE v # w
      BY <1>8, <2>2, <3>1, <3>2 DEF Covered
    <3>3. CASE v = w /\ n # Chunks
      <4>1. q = p /\ 1..(n - 1) \subseteq file[p]
        BY <3>1, <3>3 DEF p, n
      <4>2. 1..((n + 1) - 1) \subseteq file'[p]
        BY <1>3, <1>6, <4>1
      <4>3. writing'[w] # <<>> /\ writing'[w][1] = p /\ writing'[w][2] = n + 1
        BY <1>7, <1>8, <3>3
      <4> QED  BY <4>1, <4>2, <4>3 DEF Covered
    <3>4. CASE v = w /\ n = Chunks
      <4>1. q = p /\ 1..(n - 1) \subseteq file[p]
        BY <3>1, <3>4 DEF p, n
      <4>2. 1..Chunks \subseteq file'[p]
        BY <1>3, <1>6, <3>4, <4>1
      <4> QED  BY <2>2, <4>1, <4>2 DEF Whole
    <3> QED  BY <3>2, <3>3, <3>4
  <2> QED  BY <2>1, <2>3, <2>4, <2>5
<1>11. ASSUME NEW v \in Writers, writing'[v] # <<>>
       PROVE  writing'[v][1] \in DOMAIN file'
  <2>1. CASE v = w
    BY <1>4, <1>6, <1>7, <1>8, <1>11, <2>1
  <2>2. CASE v # w
    BY <1>6, <1>8, <1>11, <2>2 DEF Stored
  <2> QED  BY <2>1, <2>2
<1>12. ~WritesLast(w) => writing'[w] # <<>> /\ writing'[w][1] = writing[w][1]
  BY <1>5, <1>7, <1>8 DEF p
<1> QED  BY <1>6, <1>8, <1>9, <1>10, <1>11, <1>12 DEF Stored

(* An interrupted write is remembered in cutShort.                          *)
LEMMA AbortStored ==
    ASSUME Stored, NEW w \in Writers, Abort(w)
    PROVE  /\ Stored' /\ UNCHANGED file
           /\ \A v \in Writers \ {w} : writing'[v] = writing[v]
<1>1. /\ writing \in [Writers -> {<<>>} \cup (Paths \X (1..Chunks))]
      /\ cutShort \subseteq Paths
  BY DEF Stored, StorageTypeOK
<1>2. /\ writing' = [writing EXCEPT ![w] = <<>>] /\ file' = file
      /\ cutShort' = IF writing[w] = <<>> THEN cutShort ELSE cutShort \cup {writing[w][1]}
  BY DEF Abort
<1>3. /\ writing' \in [Writers -> {<<>>} \cup (Paths \X (1..Chunks))]
      /\ writing'[w] = <<>>
      /\ \A v \in Writers \ {w} : writing'[v] = writing[v]
  BY <1>1, <1>2
<1>4. cutShort' \subseteq Paths
  BY <1>1, <1>2
<1>5. StorageTypeOK'
  BY <1>2, <1>3, <1>4 DEF Stored, StorageTypeOK
<1>6. ASSUME NEW q \in DOMAIN file
      PROVE  (Whole(q) \/ q \in cutShort \/ Covered(q))'
  <2>1. Whole(q) \/ q \in cutShort \/ Covered(q)
    BY DEF Stored
  <2>2. CASE Covered(q)
    <3>1. PICK v \in Writers : writing[v] # <<>> /\ writing[v][1] = q
                               /\ 1..(writing[v][2] - 1) \subseteq file[q]
      BY <2>2 DEF Covered
    <3>2. CASE v = w
      BY <1>2, <3>1, <3>2
    <3>3. CASE v # w
      BY <1>2, <1>3, <3>1, <3>3 DEF Covered
    <3> QED  BY <3>2, <3>3
  <2> QED  BY <1>2, <2>1, <2>2 DEF Whole
<1> QED  BY <1>2, <1>3, <1>5, <1>6 DEF Stored

-----------------------------------------------------------------------------
(* A step of one run leaves the others where they are.                      *)

LateStep(r) ==
    \/ ParseRead(r) \/ ParseSave(r)
    \/ OcrRead(r) \/ ListDocuments(r) \/ ReadDocument(r) \/ SaveFields(r)
    \/ ValidateRead(r) \/ ListForChecks(r) \/ OwnHashes(r) \/ FindCandidates(r)
    \/ CompareCandidate(r) \/ SaveOutcome(r)

(* A step continues its run or saves a row.                                 *)
LEMMA StepForms ==
    ASSUME NEW r \in Runs, Step(r) \/ Restart(r)
    PROVE  (\E n : Continue(r, n)) \/ (\E x, pc : Save(r, x, pc))
<1>1. CASE CheckAttachment(r) \/ StatFile(r) \/ OpenFile(r) \/ WriteFile(r) \/ CreateDocument(r)
  BY <1>1, Zenon DEF CheckAttachment, StatFile, OpenFile, WriteFile, CreateDocument, Enter
<1>2. CASE ParseRead(r) \/ OcrRead(r) \/ ListDocuments(r) \/ ReadDocument(r) \/ SaveFields(r)
  BY <1>2, Zenon DEF ParseRead, OcrRead, Read, ListDocuments, ReadDocument, SaveFields, Enter
<1>3. CASE ParseSave(r) \/ SaveOutcome(r) \/ Restart(r)
  BY <1>3, Zenon DEF ParseSave, SaveOutcome, Restart, Enter
<1>4. CASE ValidateRead(r) \/ ListForChecks(r) \/ OwnHashes(r) \/ FindCandidates(r)
           \/ CompareCandidate(r)
  BY <1>4, Zenon DEF ValidateRead, ListForChecks, OwnHashes, FindCandidates, CompareCandidate, Decide
<1> QED  BY <1>1, <1>2, <1>3, <1>4, Zenon DEF Step

(* A step of one run changes no other, but for making its copy stale.       *)
LEMMA OthersStay ==
    ASSUME Typed, NEW r \in Runs, Step(r) \/ Restart(r), NEW s \in Runs, s # r
    PROVE  /\ run'[s].pc = run[s].pc /\ run'[s].at = run[s].at /\ run'[s].row = run[s].row
           /\ run'[s].list = run[s].list /\ run'[s].merged = run[s].merged
           /\ run'[s].seen = run[s].seen /\ run'[s].hashes = run[s].hashes
           /\ run'[s].candidates = run[s].candidates /\ run'[s].early = run[s].early
           /\ ~run'[s].stale => ~run[s].stale
<1>1. run'[s] = run[s] \/ run'[s] = [run[s] EXCEPT !.stale = TRUE]
  <2>1. CASE \E n : Continue(r, n)
    <3>1. PICK n : Continue(r, n)
      BY <2>1
    <3> QED  BY <3>1 DEF Continue, Typed, RunsTyped
  <2>2. CASE \E x, pc : Save(r, x, pc)
    <3>1. PICK x, pc : Save(r, x, pc)
      BY <2>2
    <3>2. run'[s] = CASE s = r -> Start(pc)
                      [] s # r /\ works[s] = works[r] -> [run[s] EXCEPT !.stale = TRUE]
                      [] OTHER -> run[s]
      BY <3>1 DEF Save
    <3> QED  BY <3>2
  <2> QED  BY <2>1, <2>2, StepForms
<1>2. IsRun(run[s])
  BY DEF Typed, RunsTyped
<1> QED  BY <1>1, <1>2 DEF IsRun, Locals

(* What a run has in hand after it went on, or saved. *)
LEMMA Continued ==
    ASSUME RunsTyped, NEW r \in Runs, NEW n, Continue(r, n)
    PROVE  run'[r] = n
BY DEF RunsTyped, Continue

(* What a full-row save writes.                                             *)
LEMMA Saved ==
    ASSUME NEW r \in Runs, NEW x, NEW pc, Save(r, x, pc), RowsTyped
    PROVE  /\ run'[r] = Start(pc)
           /\ row'[works[r]] = x
           /\ \A t \in Tickets \ {works[r]} : row'[t] = row[t]
           /\ \A s \in Runs \ {r} : works[s] = works[r] => run'[s] = [run[s] EXCEPT !.stale = TRUE]
<1>1. works[r] \in Tickets
  BY Inputs DEF RowsTyped
<1> QED  BY <1>1 DEF Save, RowsTyped

(* What a stage starts from.                                                *)
LEMMA StartedAt ==
    ASSUME NEW pc
    PROVE  /\ Start(pc).pc = pc /\ Start(pc).at = 1 /\ Start(pc).row = NewRow
           /\ Start(pc).list = <<>> /\ Start(pc).merged = <<>> /\ Start(pc).seen = {}
           /\ Start(pc).stale = FALSE
BY DEF Start

(* The steps of stages 3 to 5 stay out of stage 2.                          *)
LEMMA LatePc ==
    ASSUME Typed, NEW r \in Runs, LateStep(r)
    PROVE  run'[r].pc \in Pcs \ Stage2 /\ run[r].pc \in Pcs \ Stage2
<1>1. IsRun(run[r]) /\ RunsTyped /\ RowsTyped
  BY DEF Typed, RunsTyped
<1>2. \A pc : Start(pc).pc = pc
  BY StartedAt
<1>3. CASE ParseRead(r) \/ OcrRead(r) \/ ListDocuments(r)
  <2>1. run'[r].pc \in {"save_contact", "list", "read"}
    <3>1. \A pc : Read(r, pc) => run'[r].pc = pc
      BY <1>1, Continued DEF Read, IsRun, Locals
    <3>2. ListDocuments(r) => run'[r].pc = "read"
      BY <1>1, Continued DEF ListDocuments, IsRun, Locals
    <3> QED  BY <1>3, <3>1, <3>2 DEF ParseRead, OcrRead
  <2>2. run[r].pc \in {"parse", "ocr", "list"}
    BY <1>3 DEF ParseRead, OcrRead, ListDocuments
  <2> QED  BY <2>1, <2>2 DEF Pcs, Holding, Stage2
<1>4. CASE ReadDocument(r)
  <2> DEFINE doc == Head(run[r].list)
             fields == ExtractIdentityFields(Printed[doc.digest], Calendar[today])
             rest == [run[r] EXCEPT !.list = Tail(@)]
             more == [rest EXCEPT !.merged = Merged(@, fields), !.seen = @ \cup {doc.digest}]
  <2>1. (Continue(r, rest) \/ Continue(r, more)) /\ run[r].pc = "read"
    BY <1>4 DEF ReadDocument
  <2> HIDE DEF doc, fields
  <2>2. rest.pc = run[r].pc /\ more.pc = run[r].pc
    BY <1>1 DEF IsRun, Locals
  <2> HIDE DEF rest, more
  <2>3. run'[r].pc = run[r].pc /\ run[r].pc = "read"
    BY <1>1, <2>1, <2>2, Continued
  <2> QED  BY <2>3 DEF Pcs, Holding, Stage2
<1>5. CASE ParseSave(r) \/ SaveOutcome(r) \/ SaveFields(r)
  <2>1. run'[r].pc \in {"ocr", "done", "validate", "failed"}
    <3>1. \A x, pc : Save(r, x, pc) => run'[r] = Start(pc)
      BY <1>1, Saved
    <3>2. \A pc : Enter(r, pc) => run'[r] = Start(pc)
      BY <1>1, Continued DEF Enter
    <3> QED  BY <1>2, <1>5, <3>1, <3>2 DEF ParseSave, SaveOutcome, SaveFields
  <2> QED  BY <1>5, <2>1 DEF ParseSave, SaveOutcome, SaveFields, Pcs, Holding, Stage2
<1>6. CASE ValidateRead(r) \/ ListForChecks(r) \/ OwnHashes(r) \/ FindCandidates(r)
  <2>1. ASSUME NEW e, NEW c,
               Continue(r, [run[r] EXCEPT !.pc = "compare", !.early = e, !.candidates = c])
        PROVE  run'[r].pc = "compare"
    BY <1>1, <2>1, Continued DEF IsRun, Locals
  <2>2. FindCandidates(r) => run'[r].pc = "compare"
    BY <2>1, Zenon DEF FindCandidates
  <2>3. ValidateRead(r) => run'[r].pc = "documents"
    BY <1>1, Continued DEF ValidateRead, IsRun, Locals
  <2>4. ListForChecks(r) => run'[r].pc = "hashes"
    BY <1>1, Continued DEF ListForChecks, IsRun, Locals
  <2>5. OwnHashes(r) => run'[r].pc = "find"
    BY <1>1, Continued DEF OwnHashes, IsRun, Locals
  <2>6. run[r].pc \in {"validate", "documents", "hashes", "find"}
    BY <1>6 DEF ValidateRead, ListForChecks, OwnHashes, FindCandidates
  <2> QED  BY <1>6, <2>2, <2>3, <2>4, <2>5, <2>6 DEF Pcs, Holding, Stage2
<1>7. CASE CompareCandidate(r)
  <2>1. \A d : Decide(r, d) => run'[r].pc = "save_outcome"
    BY <1>1, Continued DEF Decide, IsRun, Locals
  <2>2. Continue(r, [run[r] EXCEPT !.candidates = Tail(@)]) => run'[r].pc = run[r].pc
    BY <1>1, Continued DEF IsRun, Locals
  <2> QED  BY <1>7, <2>1, <2>2 DEF CompareCandidate, Pcs, Holding, Stage2
<1> QED  BY <1>3, <1>4, <1>5, <1>6, <1>7 DEF LateStep

(* A run that is in no file, or where it was. *)
LEMMA FilesStay ==
    ASSUME Typed, FilesFit, UNCHANGED given, Stored',
           DOMAIN file \subseteq DOMAIN file',
           \A t \in Tickets : \A i \in DOMAIN docs'[t] : PathFor(docs'[t][i]) \in DOMAIN file',
           NEW r \in Runs, Step(r) \/ Restart(r),
           \A s \in Runs \ {r} : writing'[s] = writing[s],
           AtAttachment(r)',
           run'[r].pc = "write" => writing'[r] # <<>> /\ writing'[r][1] = PathOf(r)',
           run'[r].pc = "create" => PathOf(r)' \in DOMAIN file'
    PROVE  FilesFit'
<1>1. ASSUME NEW s \in Runs
      PROVE  /\ AtAttachment(s)'
             /\ run'[s].pc = "write" => writing'[s] # <<>> /\ writing'[s][1] = PathOf(s)'
             /\ run'[s].pc = "create" => PathOf(s)' \in DOMAIN file'
  <2>1. CASE s = r
    BY <2>1
  <2>2. CASE s # r
    <3>1. run'[s].pc = run[s].pc /\ run'[s].at = run[s].at
      BY <2>2, OthersStay
    <3>2. PathOf(s)' = PathOf(s) /\ AtAttachment(s)' = AtAttachment(s)
      BY <3>1 DEF PathOf, Attachment, AtAttachment, given
    <3> QED  BY <2>2, <3>1, <3>2 DEF FilesFit
  <2> QED  BY <2>1, <2>2
<1> QED  BY <1>1 DEF FilesFit

(* Stages 3 to 5 touch no file.                                             *)
LEMMA LateFiles ==
    ASSUME Typed, FilesFit, NEW r \in Runs, LateStep(r)
    PROVE  FilesFit'
<1>1. UNCHANGED <<fileVars, docs, given>>
  BY DEF LateStep, ParseRead, ParseSave, OcrRead, ListDocuments, ReadDocument, SaveFields,
         ValidateRead, ListForChecks, OwnHashes, FindCandidates, CompareCandidate, SaveOutcome, Save, rows
<1>2. Stored'
  BY <1>1 DEF FilesFit, Stored, StorageTypeOK, Whole, Covered, fileVars
<1>3. run'[r].pc \notin Stage2
  BY LatePc
<1>4. Step(r)
  BY DEF LateStep, Step
<1>5. AtAttachment(r)' /\ run'[r].pc # "write" /\ run'[r].pc # "create"
  BY <1>3 DEF AtAttachment, Stage2
<1> QED  BY <1>1, <1>2, <1>4, <1>5, FilesStay DEF FilesFit, fileVars

(* The loop of stage 2 touches no file.                                     *)
LEMMA CheckAttachmentFiles ==
    ASSUME Typed, FilesFit, NEW r \in Runs, CheckAttachment(r)
    PROVE  FilesFit'
<1>1. UNCHANGED <<fileVars, docs, given>> /\ IsRun(run[r]) /\ RunsTyped
  BY DEF CheckAttachment, rows, Typed, RunsTyped
<1>2. Stored'
  BY <1>1 DEF FilesFit, Stored, StorageTypeOK, Whole, Covered, fileVars
<1>3. Len(mail[works[r]].attachments) \in Nat
      /\ DOMAIN mail[works[r]].attachments = 1..Len(mail[works[r]].attachments)
  BY Inputs, LenProperties DEF Typed, RowsTyped
<1>4. /\ run'[r].pc \in {"parse", "check", "stat"}
      /\ run'[r].pc = "stat" => run'[r].at = run[r].at /\ ~(run[r].at > Len(mail[works[r]].attachments))
  <2>1. CASE run[r].at > Len(mail[works[r]].attachments)
    <3>1. Continue(r, Start("parse"))
      BY <2>1 DEF CheckAttachment, Enter
    <3>2. run'[r].pc = "parse"
      BY <1>1, <3>1, Continued, StartedAt
    <3> QED  BY <3>2
  <2>2. CASE ~(run[r].at > Len(mail[works[r]].attachments))
    <3>1. CASE Continue(r, [run[r] EXCEPT !.at = @ + 1])
      <4>1. run'[r].pc = "check"
        BY <1>1, <3>1, Continued DEF CheckAttachment, IsRun, Locals
      <4> QED  BY <4>1
    <3>2. CASE Continue(r, [run[r] EXCEPT !.pc = "stat"])
      <4>1. run'[r].pc = "stat" /\ run'[r].at = run[r].at
        BY <1>1, <3>2, Continued DEF IsRun, Locals
      <4> QED  BY <2>2, <4>1
    <3> QED  BY <2>2, <3>1, <3>2 DEF CheckAttachment
  <2> QED  BY <2>1, <2>2
<1>5. AtAttachment(r)' /\ run'[r].pc # "write" /\ run'[r].pc # "create"
  <2>1. run'[r].pc = "stat" => run'[r].at \in DOMAIN mail[works[r]].attachments
    BY <1>1, <1>3, <1>4 DEF IsRun
  <2> QED  BY <1>1, <1>4, <2>1 DEF AtAttachment, Stage2, given
<1> QED  BY <1>1, <1>2, <1>5, FilesStay DEF FilesFit, fileVars, Step

(* A run goes on to the INSERT without writing if the path exists.          *)
LEMMA StatFileFiles ==
    ASSUME Typed, FilesFit, NEW r \in Runs, StatFile(r)
    PROVE  FilesFit'
<1>1. UNCHANGED <<fileVars, docs, given>> /\ IsRun(run[r]) /\ RunsTyped
  BY DEF StatFile, rows, Typed, RunsTyped
<1>2. Stored'
  BY <1>1 DEF FilesFit, Stored, StorageTypeOK, Whole, Covered, fileVars
<1>3. run'[r].at = run[r].at /\ run'[r].pc = IF Exists(PathOf(r)) THEN "create" ELSE "open"
  BY <1>1, Continued DEF StatFile, IsRun, Locals, PathOf
<1>4. PathOf(r)' = PathOf(r) /\ AtAttachment(r)'
  BY <1>1, <1>3 DEF PathOf, Attachment, AtAttachment, given, FilesFit, StatFile, Stage2
<1>5. run'[r].pc # "write" /\ (run'[r].pc = "create" => PathOf(r)' \in DOMAIN file')
  BY <1>1, <1>3, <1>4 DEF Exists, fileVars
<1> QED  BY <1>1, <1>2, <1>4, <1>5, FilesStay DEF FilesFit, fileVars, Step

(* The attachment that stage 2 is at has a path.                            *)
LEMMA PathFits ==
    ASSUME Typed, NEW r \in Runs, AtAttachment(r), run[r].pc \in Stage2 \ {"check"}
    PROVE  /\ Attachment(r) \in AttachmentType
           /\ Document(Attachment(r)) \in DocumentRow
           /\ PathOf(r) \in Paths
<1>1. mail[works[r]].attachments \in Seq(AttachmentType)
      /\ run[r].at \in DOMAIN mail[works[r]].attachments
  BY Inputs DEF Typed, RowsTyped, AtAttachment
<1>2. Attachment(r) \in AttachmentType
  BY <1>1, ElementOfSeq DEF Attachment
<1>3. Document(Attachment(r)) \in DocumentRow
  BY <1>2, DocumentFits
<1> QED  BY <1>2, <1>3, DocumentsAssumption DEF PathOf, PathFor, DocumentRow

(* Opening a file keeps what is known of all files.                         *)
LEMMA OpenFileFiles ==
    ASSUME Typed, FilesFit, NEW r \in Runs, OpenFile(r)
    PROVE  FilesFit'
<1>1. UNCHANGED <<docs, given>> /\ IsRun(run[r]) /\ RunsTyped /\ Writers = Runs
  BY DocumentsAssumption DEF OpenFile, rows, Typed, RunsTyped
<1>2. PathOf(r) \in Paths /\ Open(r, PathOf(r))
  BY PathFits DEF OpenFile, FilesFit, PathOf, Stage2
<1>3. /\ Stored' /\ DOMAIN file' = DOMAIN file \cup {PathOf(r)}
      /\ writing'[r] = <<PathOf(r), 1>> /\ \A v \in Runs \ {r} : writing'[v] = writing[v]
  BY <1>1, <1>2, OpenStored DEF FilesFit
<1>4. run'[r].at = run[r].at /\ run'[r].pc = "write"
  BY <1>1, Continued DEF OpenFile, IsRun, Locals
<1>5. PathOf(r)' = PathOf(r) /\ AtAttachment(r)'
  BY <1>1, <1>4 DEF PathOf, Attachment, AtAttachment, given, FilesFit, OpenFile, Stage2
<1>6. writing'[r] # <<>> /\ writing'[r][1] = PathOf(r)'
  BY <1>3, <1>5
<1>7. \A t \in Tickets : \A i \in DOMAIN docs'[t] : PathFor(docs'[t][i]) \in DOMAIN file'
  BY <1>1, <1>3 DEF FilesFit, PathFor
<1> QED  BY <1>1, <1>3, <1>4, <1>5, <1>6, <1>7, FilesStay DEF Step

(* So does writing a chunk of it.                                           *)
LEMMA WriteFileFiles ==
    ASSUME Typed, FilesFit, NEW r \in Runs, WriteFile(r)
    PROVE  FilesFit'
<1>1. UNCHANGED <<docs, given>> /\ IsRun(run[r]) /\ RunsTyped /\ Writers = Runs
  BY DocumentsAssumption DEF WriteFile, rows, Typed, RunsTyped
<1>2. writing[r] # <<>> /\ writing[r][1] = PathOf(r) /\ PathOf(r) \in DOMAIN file
  BY <1>1 DEF WriteFile, FilesFit, Stored
<1>3. /\ Stored' /\ DOMAIN file' = DOMAIN file
      /\ ~WritesLast(r) => writing'[r] # <<>> /\ writing'[r][1] = writing[r][1]
      /\ \A v \in Runs \ {r} : writing'[v] = writing[v]
  BY <1>1, WriteStored DEF FilesFit, WriteFile
<1>4. run'[r].at = run[r].at /\ run'[r].pc = IF WritesLast(r) THEN "create" ELSE "write"
  BY <1>1, Continued DEF WriteFile, IsRun, Locals
<1>5. PathOf(r)' = PathOf(r) /\ AtAttachment(r)'
  BY <1>1, <1>4 DEF PathOf, Attachment, AtAttachment, given, FilesFit, WriteFile, Stage2
<1>6. /\ run'[r].pc = "write" => writing'[r] # <<>> /\ writing'[r][1] = PathOf(r)'
      /\ run'[r].pc = "create" => PathOf(r)' \in DOMAIN file'
  BY <1>2, <1>3, <1>4, <1>5
<1>7. \A t \in Tickets : \A i \in DOMAIN docs'[t] : PathFor(docs'[t][i]) \in DOMAIN file'
  BY <1>1, <1>3 DEF FilesFit, PathFor
<1> QED  BY <1>1, <1>3, <1>5, <1>6, <1>7, FilesStay DEF Step

(* A new Document row points to a path that exists.                         *)
LEMMA CreateDocumentFiles ==
    ASSUME Typed, FilesFit, NEW r \in Runs, CreateDocument(r)
    PROVE  FilesFit'
<1> DEFINE t == works[r]
           doc == Document(Attachment(r))
<1>1. /\ UNCHANGED <<fileVars, given>> /\ IsRun(run[r]) /\ RunsTyped /\ t \in Tickets
      /\ docs \in [Tickets -> Seq(DocumentRow)]
  BY Inputs DEF CreateDocument, Typed, RunsTyped, RowsTyped
<1>2. Stored'
  BY <1>1 DEF FilesFit, Stored, StorageTypeOK, Whole, Covered, fileVars
<1>3. run'[r].pc = "check"
  BY <1>1, Continued, StartedAt DEF CreateDocument, Enter, IsRun, Locals
<1>4. PathFor(doc) \in DOMAIN file /\ doc \in DocumentRow
  BY PathFits DEF FilesFit, CreateDocument, PathOf, Stage2
<1>5. ASSUME NEW u \in Tickets, NEW i \in DOMAIN docs'[u]
      PROVE  PathFor(docs'[u][i]) \in DOMAIN file'
  <2>1. docs' = docs \/ docs' = [docs EXCEPT ![t] = Append(@, doc)]
    BY DEF CreateDocument
  <2> HIDE DEF doc
  <2>2. CASE docs'[u] = docs[u]
    BY <1>1, <1>5, <2>2 DEF FilesFit, PathFor, fileVars
  <2>3. CASE docs'[u] = Append(docs[u], doc)
    <3>1. (i \in DOMAIN docs[u] /\ docs'[u][i] = docs[u][i]) \/ docs'[u][i] = doc
      BY <1>1, <1>4, <1>5, <2>3, AppendProperties
    <3> QED  BY <1>1, <1>4, <3>1 DEF FilesFit, PathFor, fileVars
  <2> QED  BY <1>1, <2>1, <2>2, <2>3
<1>6. AtAttachment(r)' /\ run'[r].pc # "write" /\ run'[r].pc # "create"
  BY <1>3 DEF AtAttachment
<1> QED  BY <1>1, <1>2, <1>5, <1>6, FilesStay DEF fileVars, Step

(* A run that starts over leaves its file cut short.                        *)
LEMMA RestartFiles ==
    ASSUME Typed, FilesFit, NEW r \in Runs, Restart(r)
    PROVE  FilesFit'
<1>1. UNCHANGED <<docs, given>> /\ RunsTyped /\ Writers = Runs
  BY DocumentsAssumption DEF Restart, rows, Typed
<1>2. Stored' /\ UNCHANGED file /\ \A v \in Runs \ {r} : writing'[v] = writing[v]
  BY <1>1, AbortStored DEF FilesFit, Restart
<1>3. run'[r].pc = StageOf(run[r].pc)
  BY <1>1, Continued, StartedAt DEF Restart, Enter
<1>4. StageOf(run[r].pc) \notin Stage2 \ {"check"}
  BY DEF StageOf, Stage2, Restart, Typed, RunsTyped, IsRun, Pcs, Holding
<1>5. AtAttachment(r)' /\ run'[r].pc # "write" /\ run'[r].pc # "create"
  BY <1>3, <1>4 DEF AtAttachment, Stage2
<1> QED  BY <1>1, <1>2, <1>5, FilesStay DEF FilesFit

(* A day passes without touching a file.                                    *)
LEMMA NextDayFiles ==
    ASSUME FilesFit, NextDay
    PROVE  FilesFit'
<1>1. UNCHANGED <<file, writing, cutShort, mail, works, docs, run>>
  BY DEF NextDay, fileVars, given, rows
<1>2. Stored'
  BY <1>1 DEF FilesFit, Stored, StorageTypeOK, Whole, Covered
<1>3. \A r \in Runs : AtAttachment(r)' = AtAttachment(r) /\ PathOf(r)' = PathOf(r)
  BY <1>1 DEF AtAttachment, PathOf, Attachment
<1> QED  BY <1>1, <1>2, <1>3 DEF FilesFit, PathFor

-----------------------------------------------------------------------------
(* Copies of a row.                                                         *)

SameSources(x, y) == x.email = y.email /\ x.seen = y.seen

(* Steps that leave parsed_source in the rows as it was. *)
SourcesStay == \A t \in Tickets : SameSources(row'[t], row[t])

(* The other runs' copies stay fresh, or are stale after a save.            *)
LEMMA CopiesStay ==
    ASSUME Typed, CopiesFresh, NEW r \in Runs, Step(r) \/ Restart(r), UNCHANGED given,
           SourcesStay \/ \E x, pc : Save(r, x, pc),
           run'[r].pc \in Holding /\ ~run'[r].stale => SameSources(run'[r].row, row'[works[r]])
    PROVE  CopiesFresh'
<1>1. UNCHANGED works /\ RowsTyped /\ RunsTyped /\ \A s \in Runs : works[s] \in Tickets
  BY Inputs DEF given, Typed, RowsTyped
<1>2. ASSUME NEW s \in Runs, s # r, run'[s].pc \in Holding, ~run'[s].stale
      PROVE  SameSources(run'[s].row, row'[works[s]])
  <2>1. run'[s].row = run[s].row /\ SameSources(run[s].row, row[works[s]])
    BY <1>2, OthersStay DEF CopiesFresh, SameSources
  <2>2. CASE SourcesStay
    BY <1>1, <2>1, <2>2 DEF SourcesStay, SameSources
  <2>3. CASE \E x, pc : Save(r, x, pc)
    <3>1. PICK x, pc : Save(r, x, pc)
      BY <2>3
    <3>2. works[s] # works[r]
      <4>1. ASSUME works[s] = works[r]  PROVE run'[s].stale = TRUE
        <5>1. run'[s] = [run[s] EXCEPT !.stale = TRUE] /\ IsRun(run[s])
          BY <1>1, <1>2, <3>1, <4>1, Saved DEF RunsTyped
        <5> QED  BY <5>1 DEF IsRun, Locals
      <4> QED  BY <1>2, <4>1
    <3>3. row'[works[s]] = row[works[s]]
      BY <1>1, <3>1, <3>2, Saved
    <3> QED  BY <2>1, <3>3
  <2> QED  BY <2>2, <2>3
<1> QED  BY <1>1, <1>2 DEF CopiesFresh, SameSources

(* The steps that go on with the copy they have. *)
LEMMA CopyKept ==
    ASSUME Typed, NEW r \in Runs,
           ListDocuments(r) \/ ReadDocument(r) \/ ListForChecks(r) \/ OwnHashes(r)
           \/ FindCandidates(r) \/ CompareCandidate(r)
    PROVE  /\ run[r].pc \in Holding /\ run'[r].stale = run[r].stale
           /\ SameSources(run'[r].row, run[r].row)
<1> DEFINE x == run[r]
<1>1. IsRun(x) /\ RunsTyped
  BY DEF Typed, RunsTyped
<1>2. CASE ListDocuments(r) \/ ListForChecks(r) \/ OwnHashes(r)
  <2>1. x.pc \in {"list", "documents", "hashes"}
    BY <1>2 DEF ListDocuments, ListForChecks, OwnHashes
  <2>2. \A pc, l : Continue(r, [x EXCEPT !.pc = pc, !.list = l])
                     => run'[r].row = x.row /\ run'[r].stale = x.stale
    BY <1>1, Continued DEF IsRun, Locals
  <2>3. \A pc, h : Continue(r, [x EXCEPT !.pc = pc, !.hashes = h])
                     => run'[r].row = x.row /\ run'[r].stale = x.stale
    BY <1>1, Continued DEF IsRun, Locals
  <2>4. run'[r].row = x.row /\ run'[r].stale = x.stale
    BY <1>2, <2>2, <2>3 DEF ListDocuments, ListForChecks, OwnHashes
  <2> QED  BY <2>1, <2>4 DEF Holding, SameSources
<1>3. CASE ReadDocument(r)
  <2> DEFINE doc == Head(x.list)
             fields == ExtractIdentityFields(Printed[doc.digest], Calendar[today])
             rest == [x EXCEPT !.list = Tail(@)]
             more == [rest EXCEPT !.merged = Merged(@, fields), !.seen = @ \cup {doc.digest}]
  <2>1. (Continue(r, rest) \/ Continue(r, more)) /\ x.pc = "read"
    BY <1>3 DEF ReadDocument
  <2> HIDE DEF doc, fields
  <2>2. rest.row = x.row /\ more.row = x.row /\ rest.stale = x.stale /\ more.stale = x.stale
    BY <1>1 DEF IsRun, Locals
  <2> HIDE DEF rest, more
  <2>3. run'[r].row = x.row /\ run'[r].stale = x.stale
    BY <1>1, <2>1, <2>2, Continued
  <2> QED  BY <2>1, <2>3 DEF Holding, SameSources
<1>4. CASE FindCandidates(r)
  <2>1. ASSUME NEW e, NEW c,
               Continue(r, [x EXCEPT !.pc = "compare", !.early = e, !.candidates = c])
        PROVE  run'[r].row = x.row /\ run'[r].stale = x.stale
    <3> DEFINE found == [x EXCEPT !.pc = "compare", !.early = e, !.candidates = c]
    <3>1. found.row = x.row /\ found.stale = x.stale
      BY <1>1 DEF IsRun, Locals
    <3>2. Continue(r, found)
      BY <2>1
    <3> HIDE DEF found
    <3> QED  BY <1>1, <3>1, <3>2, Continued
  <2>2. run'[r].row = x.row /\ run'[r].stale = x.stale
    BY <1>4, <2>1, Zenon DEF FindCandidates
  <2>3. x.pc = "find"
    BY <1>4 DEF FindCandidates
  <2> QED  BY <2>2, <2>3 DEF Holding, SameSources
<1>5. CASE CompareCandidate(r)
  <2>1. ASSUME NEW duplicate, Decide(r, duplicate)
        PROVE  SameSources(run'[r].row, x.row) /\ run'[r].stale = x.stale
    <3> DEFINE o == Outcome(x.row, x.list, duplicate)
    <3>1. run'[r] = [x EXCEPT !.pc = "save_outcome", !.row.outcome = o]
      BY <1>1, <2>1, Continued DEF Decide
    <3> HIDE DEF o
    <3>2. run'[r].row = [x.row EXCEPT !.outcome = o] /\ run'[r].stale = x.stale
      BY <1>1, <3>1 DEF IsRun, Locals
    <3>3. x.row = [c \in Columns |-> x.row[c]]
      BY <1>1 DEF IsRun, IsRow
    <3> QED  BY <3>2, <3>3 DEF SameSources, Columns
  <2>2. ASSUME Continue(r, [x EXCEPT !.candidates = Tail(@)])
        PROVE  SameSources(run'[r].row, x.row) /\ run'[r].stale = x.stale
    BY <1>1, <2>2, Continued DEF IsRun, Locals, SameSources
  <2>3. x.pc = "compare"
    BY <1>5 DEF CompareCandidate
  <2> QED  BY <1>5, <2>1, <2>2, <2>3 DEF CompareCandidate, Holding
<1> QED  BY <1>2, <1>3, <1>4, <1>5

(* A copy just read agrees with the row.                                    *)
LEMMA CopyRead ==
    ASSUME Typed, NEW r \in Runs, ParseRead(r) \/ OcrRead(r) \/ ValidateRead(r)
    PROVE  SameSources(run'[r].row, row'[works[r]]) /\ SourcesStay
<1> DEFINE t == works[r]
           awaiting == [row[t] EXCEPT !.outcome = "open"]
<1>1. IsRun(run[r]) /\ RunsTyped /\ t \in Tickets /\ IsRow(row[t])
      /\ row = [u \in Tickets |-> row[u]]
  BY Inputs DEF Typed, RunsTyped, RowsTyped
<1>2. CASE ParseRead(r) \/ OcrRead(r)
  <2>1. \A pc : Read(r, pc) => run'[r].row = row[t]
    BY <1>1, Continued DEF Read, IsRun, Locals
  <2>2. UNCHANGED row
    BY <1>2 DEF ParseRead, OcrRead, rows
  <2> QED  BY <1>2, <2>1, <2>2 DEF ParseRead, OcrRead, SameSources, SourcesStay
<1>3. CASE ValidateRead(r)
  <2>1. row' = [row EXCEPT ![t] = awaiting]
        /\ Continue(r, [run[r] EXCEPT !.pc = "documents", !.row = awaiting, !.stale = FALSE])
    BY <1>3 DEF ValidateRead
  <2>2. SameSources(awaiting, row[t])
    BY <1>1 DEF IsRow, Columns, SameSources
  <2> HIDE DEF awaiting
  <2>3. run'[r].row = awaiting
    BY <1>1, <2>1, Continued DEF IsRun, Locals
  <2>4. row'[t] = awaiting /\ \A u \in Tickets \ {t} : row'[u] = row[u]
    BY <1>1, <2>1
  <2> QED  BY <2>2, <2>3, <2>4 DEF SameSources, SourcesStay
<1> QED  BY <1>2, <1>3

(* Where a run that saves, starts a stage over or is in stage 2 goes. *)
LEMMA CopyGone ==
    ASSUME Typed, FilesFit, NEW r \in Runs,
           CheckAttachment(r) \/ StatFile(r) \/ OpenFile(r) \/ WriteFile(r) \/ CreateDocument(r)
           \/ ParseSave(r) \/ SaveFields(r) \/ SaveOutcome(r) \/ Restart(r)
    PROVE  run'[r].pc \notin Holding
<1>1. IsRun(run[r]) /\ RunsTyped /\ RowsTyped
  BY DEF Typed, RunsTyped
<1>2. \A pc : Enter(r, pc) => run'[r].pc = pc
  BY <1>1, Continued, StartedAt DEF Enter
<1>3. \A x, pc : Save(r, x, pc) => run'[r].pc = pc
  <2>1. \A x, pc : Save(r, x, pc) => run'[r] = Start(pc)
    BY <1>1, Saved
  <2>2. \A pc : Start(pc).pc = pc
    BY StartedAt
  <2> QED  BY <2>1, <2>2
<1>4. CASE CheckAttachment(r) \/ StatFile(r) \/ OpenFile(r) \/ WriteFile(r) \/ CreateDocument(r)
  <2>1. \A pc : Continue(r, [run[r] EXCEPT !.pc = pc]) => run'[r].pc = pc
    BY <1>1, Continued DEF IsRun, Locals
  <2>2. Continue(r, [run[r] EXCEPT !.at = @ + 1]) => run'[r].pc = run[r].pc
    BY <1>1, Continued DEF IsRun, Locals
  <2>3. Continue(r, [run[r] EXCEPT !.pc = "check", !.at = @ + 1]) => run'[r].pc = "check"
    BY <1>1, Continued DEF IsRun, Locals
  <2>4. run'[r].pc \in Stage2 \cup {"parse"}
    BY <1>2, <1>4, <2>1, <2>2, <2>3
       DEF CheckAttachment, StatFile, OpenFile, WriteFile, CreateDocument, Stage2
  <2> QED  BY <2>4 DEF Stage2, Holding
<1>5. CASE ParseSave(r) \/ SaveFields(r) \/ SaveOutcome(r)
  BY <1>2, <1>3, <1>5 DEF ParseSave, SaveFields, SaveOutcome, Holding
<1>6. CASE Restart(r)
  BY <1>2, <1>6 DEF Restart, StageOf, Holding, IsRun, Pcs, Typed, RunsTyped, Stage2
<1> QED  BY <1>4, <1>5, <1>6

Rereading(r) ==
    ListDocuments(r) \/ ReadDocument(r) \/ ListForChecks(r) \/ OwnHashes(r)
    \/ FindCandidates(r) \/ CompareCandidate(r)

(* Every step of a run keeps CopiesFresh.                                   *)
LEMMA StepCopies ==
    ASSUME Typed, FilesFit, CopiesFresh, NEW r \in Runs, Step(r) \/ Restart(r)
    PROVE  CopiesFresh'
<1>1. UNCHANGED given
  BY Zenon DEF Step, CheckAttachment, StatFile, OpenFile, WriteFile, CreateDocument, ParseRead,
         ParseSave, OcrRead, ListDocuments, ReadDocument, SaveFields, ValidateRead, ListForChecks,
         OwnHashes, FindCandidates, CompareCandidate, SaveOutcome, Restart
<1>2. UNCHANGED row => SourcesStay
  BY DEF SourcesStay, SameSources
<1>3. CASE CheckAttachment(r) \/ StatFile(r) \/ OpenFile(r) \/ WriteFile(r) \/ CreateDocument(r)
           \/ ParseSave(r) \/ SaveFields(r) \/ SaveOutcome(r) \/ Restart(r)
  <2>1. UNCHANGED row \/ \E x, pc : Save(r, x, pc)
    BY <1>3, Zenon DEF CheckAttachment, StatFile, OpenFile, WriteFile, CreateDocument, ParseSave,
                   SaveFields, SaveOutcome, Restart, rows
  <2> QED  BY <1>1, <1>2, <1>3, <2>1, CopyGone, CopiesStay, Zenon
<1>4. CASE Rereading(r)
  <2>1. UNCHANGED row
    BY <1>4, Zenon DEF Rereading, ListDocuments, ReadDocument, ListForChecks, OwnHashes,
                       FindCandidates, CompareCandidate, rows
  <2>2. run[r].pc \in Holding /\ run'[r].stale = run[r].stale
        /\ SameSources(run'[r].row, run[r].row)
    BY <1>4, CopyKept DEF Rereading
  <2>3. ~run'[r].stale => SameSources(run'[r].row, row'[works[r]])
    BY <2>1, <2>2 DEF CopiesFresh, SameSources
  <2> QED  BY <1>1, <1>2, <2>1, <2>3, CopiesStay
<1>5. CASE ParseRead(r) \/ OcrRead(r) \/ ValidateRead(r)
  BY <1>1, <1>5, CopyRead, CopiesStay
<1> QED  BY <1>3, <1>4, <1>5 DEF Step, Rereading

(* Every step of a run keeps the types and the agreement of columns.        *)
LEMMA StepTyped ==
    ASSUME Typed, FilesFit, NEW r \in Runs, Step(r) \/ Restart(r)
    PROVE  Typed'
<1>1. AtAttachment(r)
  BY DEF FilesFit
<1> QED  BY <1>1, StageTwoTyped, CreateDocumentTyped, ReadsTyped, ListsTyped, ReadDocumentTyped,
            ParseSaveTyped, SaveFieldsTyped, ValidateReadTyped, FindCandidatesTyped,
            CompareCandidateTyped, SaveOutcomeTyped, RestartTyped DEF Step

(* Every step of a run keeps what is known of files.                        *)
LEMMA StepFiles ==
    ASSUME Typed, FilesFit, NEW r \in Runs, Step(r) \/ Restart(r)
    PROVE  FilesFit'
BY LateFiles, CheckAttachmentFiles, StatFileFiles, OpenFileFiles, WriteFileFiles,
   CreateDocumentFiles, RestartFiles DEF Step, LateStep

(* Every step keeps the invariant.                                          *)
LEMMA NextKeeps ==
    ASSUME DocumentsInv, Next
    PROVE  DocumentsInv'
<1>1. CASE NextDay
  <2>1. CopiesFresh'
    BY <1>1 DEF DocumentsInv, CopiesFresh, NextDay, given, rows
  <2> QED  BY <1>1, <2>1, NextDayTyped, NextDayFiles DEF DocumentsInv
<1>2. ASSUME NEW r \in Runs, Step(r) \/ Restart(r)
      PROVE  DocumentsInv'
  BY <1>2, StepTyped, StepFiles, StepCopies DEF DocumentsInv
<1> QED  BY <1>1, <1>2 DEF Next

(* A stuttering step keeps it.                                              *)
LEMMA StutterKeeps ==
    ASSUME DocumentsInv, UNCHANGED vars
    PROVE  DocumentsInv'
<1>1. UNCHANGED <<file, writing, cutShort, mail, works, row, docs, run, today, used>>
  BY DEF vars, fileVars, given, rows
<1>2. Typed'
  BY <1>1 DEF DocumentsInv, Typed, RowsTyped, RunsTyped, ClockTyped, InputsGiven, OneRowPerHash
<1>3. Stored'
  BY <1>1 DEF DocumentsInv, FilesFit, Stored, StorageTypeOK, Whole, Covered
<1>4. FilesFit'
  BY <1>1, <1>3 DEF DocumentsInv, FilesFit, AtAttachment, PathOf, Attachment, PathFor
<1>5. CopiesFresh'
  BY <1>1 DEF DocumentsInv, CopiesFresh
<1> QED  BY <1>2, <1>4, <1>5 DEF DocumentsInv

(* It holds when the runs start.                                            *)
LEMMA InitFits ==
    ASSUME Init
    PROVE  DocumentsInv
<1>1. RowsTyped
  <2>1. \A t \in Tickets : row[t] = NewRow /\ docs[t] = <<>>
    BY DEF Init
  <2>2. docs \in [Tickets -> Seq(DocumentRow)] /\ row = [t \in Tickets |-> row[t]]
    BY DEF Init
  <2>3. \A t \in Tickets : OneRowPerHash(t)
    BY <2>1 DEF OneRowPerHash
  <2>4. InputsGiven
    BY DEF Init, InputsGiven
  <2> QED  BY <2>1, <2>2, <2>3, <2>4, NewRowFits DEF RowsTyped
<1>2. \A r \in Runs : run[r] = Start("check")
  BY DEF Init
<1>3. "check" \in Stage2 /\ "check" \in Pcs /\ "check" \notin Holding
  BY DEF Stage2, Pcs, Holding
<1>4. RunsTyped
  <2>1. run = [r \in Runs |-> run[r]]
    BY DEF Init
  <2>2. IsRun(Start("check"))
    BY <1>3, StartFits
  <2> QED  BY <1>2, <2>1, <2>2 DEF RunsTyped
<1>5. ClockTyped
  <2>1. 1 \in DOMAIN Calendar
    <3>1. Calendar \in Seq(Dates) /\ Calendar # <<>>
      BY InputsAssumption
    <3>2. DOMAIN Calendar = 1..Len(Calendar) /\ Len(Calendar) \in Nat \ {0}
      BY <3>1, EmptySeq
    <3> QED  BY <3>2
  <2> QED  BY <2>1, DocumentsAssumption DEF Init, ClockTyped
<1>6. Stored
  <2>1. file = <<>> /\ writing = [w \in Writers |-> <<>>] /\ cutShort = {} /\ DOMAIN file = {}
    BY DEF Init, StorageInit
  <2>2. file = [p \in DOMAIN file |-> file[p]]
    BY <2>1
  <2> QED  BY <2>1, <2>2 DEF Stored, StorageTypeOK
<1>7. \A r \in Runs : run[r].pc = "check"
  BY <1>2, StartedAt
<1>8. FilesFit
  <2>1. \A t \in Tickets : DOMAIN docs[t] = {}
    BY DEF Init
  <2> QED  BY <1>6, <1>7, <2>1 DEF FilesFit, AtAttachment
<1>9. CopiesFresh
  BY <1>3, <1>7 DEF CopiesFresh
<1> QED  BY <1>1, <1>4, <1>5, <1>8, <1>9 DEF DocumentsInv, Typed

(* So it always holds.                                                      *)
LEMMA Inductive == Spec => []DocumentsInv
<1>1. Init => DocumentsInv
  BY InitFits
<1>2. DocumentsInv /\ [Next]_vars => DocumentsInv'
  BY NextKeeps, StutterKeeps
<1> QED  BY <1>1, <1>2, PTL DEF Spec

-----------------------------------------------------------------------------
(* Rows, runs, files and counters have their types, and no ticket has two   *)
(* Document rows of one hash (models.py, uniq_ticket_sha256).               *)
THEOREM DocumentsTyped == Spec => []TypeOK
<1>1. DocumentsInv => TypeOK
  <2> SUFFICES ASSUME DocumentsInv  PROVE TypeOK
    OBVIOUS
  <2>1. StorageTypeOK
    BY DEF DocumentsInv, FilesFit, Stored
  <2>2. \A t \in Tickets : RowOK(row[t]) /\ OneRowPerHash(t)
    BY DEF DocumentsInv, Typed, RowsTyped, IsRow
  <2>3. \A r \in Runs : RowOK(run[r].row) /\ works[r] \in Tickets
    BY Inputs DEF DocumentsInv, Typed, RunsTyped, RowsTyped, IsRun, IsRow
  <2>4. today \in DOMAIN Calendar /\ \A d \in Disturbances : used[d] \in 0..Limit[d]
    BY DocumentsAssumption DEF DocumentsInv, Typed, ClockTyped
  <2> QED  BY <2>1, <2>2, <2>3, <2>4 DEF TypeOK, OneRowPerHash
<1> QED  BY <1>1, Inductive, PTL

(* A Document row points to a whole file, unless a run has it open or the   *)
(* last write to it was interrupted, however the writers of a path          *)
(* interleave (services/storage.py).                                        *)
THEOREM FilesKeptWhole == Spec => []FilesWhole
<1>1. \A p : Covered(p) => BeingWritten(p)
  BY DEF Covered, BeingWritten
<1>2. DocumentsInv => FilesWhole
  BY <1>1 DEF DocumentsInv, FilesFit, Stored, FilesWhole
<1> QED  BY <1>2, Inductive, PTL

(* Once the body gave an address, it is the ticket's (SPECS.md).            *)
THEOREM BodyAddressRules == Spec => []BodyAddressWins
<1>1. DocumentsInv => BodyAddressWins
  BY DEF DocumentsInv, Typed, RowsTyped, IsRow, BodyAddressWins
<1> QED  BY <1>1, Inductive, PTL

(* The ticket's age and the age in parsed_source.document are one.          *)
THEOREM AgesKeptTogether == Spec => []AgesTogether
<1>1. DocumentsInv => AgesTogether
  BY DEF DocumentsInv, Typed, RowsTyped, IsRow, AgesTogether
<1> QED  BY <1>1, Inductive, PTL

(* What a save may take from the row. *)
Keeps(r, t) ==
    /\ row[t].email # <<>> => row'[t].email # <<>>
    /\ row[t].seen \subseteq row'[t].seen \/ run[r].pc = "read"

(* A save by a run whose copy is fresh loses nothing.                       *)
LEMMA SaveKeeps ==
    ASSUME DocumentsInv, NEW r \in Runs, Step(r) \/ Restart(r), ~run[r].stale
    PROVE  Keeps(r, works[r])
<1> DEFINE t == works[r]
           old == run[r].row
<1>1. t \in Tickets /\ RowsTyped /\ IsRun(run[r]) /\ IsRow(old) /\ IsBody(mail[t].body)
  BY Inputs DEF DocumentsInv, Typed, RowsTyped, RunsTyped, IsRun
<1>2. run[r].pc \in Holding => SameSources(old, row[t])
  BY DEF DocumentsInv, CopiesFresh, SameSources
<1>3. CASE ParseSave(r)
  <2>1. PICK ner \in BOOLEAN :
            Save(r, WithContact(old, ParseEmailBody(mail[t].body, Blank, ner)), "ocr")
    BY <1>3 DEF ParseSave
  <2> DEFINE parsed == ParseEmailBody(mail[t].body, Blank, ner)
             new == WithContact(old, parsed)
  <2>2. parsed # <<>>
    <3>1. parsed \in ParsedBody
      BY <1>1, BodyText DEF ParsedBody, IsText
    <3>2. DOMAIN <<>> = {}
      OBVIOUS
    <3> QED  BY <3>1, <3>2 DEF ParsedBody
  <2>3. new.email = parsed /\ new.seen = old.seen
    BY <1>1 DEF WithContact, IsRow, Columns
  <2>4. row'[t] = new
    BY <1>1, <2>1, Saved
  <2>5. run[r].pc \in Holding
    BY <1>3 DEF ParseSave, Holding
  <2> QED  BY <1>2, <2>2, <2>3, <2>4, <2>5 DEF Keeps, SameSources
<1>4. CASE SaveFields(r)
  <2>1. run[r].pc = "read" /\ run[r].pc \in Holding
    BY <1>4 DEF SaveFields, Holding
  <2>2. CASE UNCHANGED rows
    BY <2>2 DEF Keeps, rows
  <2>3. CASE Save(r, WithFields(old, run[r].merged, run[r].seen), "validate")
    <3>1. row'[t] = WithFields(old, run[r].merged, run[r].seen)
      BY <1>1, <2>3, Saved
    <3>2. WithFields(old, run[r].merged, run[r].seen).email = old.email
      BY <1>1 DEF WithFields, IsRow, Columns
    <3> QED  BY <1>2, <2>1, <3>1, <3>2 DEF Keeps, SameSources
  <2> QED  BY <1>4, <2>2, <2>3 DEF SaveFields
<1>5. CASE SaveOutcome(r)
  <2>1. row'[t] = old /\ run[r].pc \in Holding
    BY <1>1, <1>5, Saved DEF SaveOutcome, Holding
  <2> QED  BY <1>2, <2>1 DEF Keeps, SameSources
<1>6. CASE ValidateRead(r)
  BY <1>1, <1>6, CopyRead DEF DocumentsInv, SourcesStay, SameSources, Keeps
<1>7. CASE \/ CheckAttachment(r) \/ StatFile(r) \/ OpenFile(r) \/ WriteFile(r)
           \/ CreateDocument(r) \/ ParseRead(r) \/ OcrRead(r) \/ Rereading(r) \/ Restart(r)
  <2>1. UNCHANGED row
    BY <1>7, Zenon DEF CheckAttachment, StatFile, OpenFile, WriteFile, CreateDocument, ParseRead,
         OcrRead, Rereading, ListDocuments, ReadDocument, ListForChecks, OwnHashes,
         FindCandidates, CompareCandidate, Restart, rows
  <2> QED  BY <2>1 DEF Keeps
<1> QED  BY <1>3, <1>4, <1>5, <1>6, <1>7 DEF Step, Rereading

(* A save takes from parsed_source what another run stored only if the row  *)
(* was read before that (pipeline.py saves it whole).                       *)
THEOREM NothingLostUnlessStale == Spec => LostOnlyWhenStale
<1>1. ASSUME DocumentsInv, [Next]_vars, NEW r \in Runs,
             row'[works[r]] # row[works[r]], run'[r].pc # run[r].pc, ~run[r].stale
      PROVE  Keeps(r, works[r])
  <2>1. Next
    BY <1>1 DEF vars, rows
  <2>2. ASSUME NEW s \in Runs, Step(s) \/ Restart(s)
        PROVE  s = r
    <3>1. ASSUME s # r  PROVE FALSE
      BY <1>1, <2>2, <3>1, OthersStay DEF DocumentsInv
    <3> QED  BY <3>1
  <2>3. Step(r) \/ Restart(r)
    BY <1>1, <2>1, <2>2 DEF Next, NextDay, rows
  <2> QED  BY <1>1, <2>3, SaveKeeps
<1>2. DocumentsInv /\ [Next]_vars =>
        \A r \in Runs :
          LET t == works[r]
          IN  row'[t] # row[t] /\ run'[r].pc # run[r].pc /\ ~run[r].stale =>
                  /\ row[t].email # <<>> => row'[t].email # <<>>
                  /\ row[t].seen \subseteq row'[t].seen \/ run[r].pc = "read"
  BY <1>1 DEF Keeps
<1> QED  BY <1>2, Inductive, PTL DEF Spec, LostOnlyWhenStale
=============================================================================
