---------------------------- MODULE PipelineProofs ----------------------------
(* Theorems about Pipeline for any tickets, emails, retries and bounds.      *)
(*                                                                           *)
(* First types, claims and sweeps; then that no ticket is forgotten, whose   *)
(* inductive invariant accounts for every ticket: somebody still owes it a   *)
(* result, or it has a decision, or it failed and its dead letter is         *)
(* recorded or on its way.                                                   *)
EXTENDS Pipeline, TLAPS

Slots == [Jobs -> Job \cup {Free}]

(* A document is only created for an attachment the email has. *)
CreateInRange ==
  \A j \in Jobs : At(j, "extract_attachments", "create") => MoreAttachments(j)

-----------------------------------------------------------------------------
(* Types of the values the actions put into a slot.                         *)

(* A new ticket row is a row. *)
LEMMA NewRowTyped == NewRow \in Row
  BY NoneAssumption DEF NewRow, Row, Statuses, Unresolved

(* A message is a job. *)
LEMMA MessageTyped ==
  ASSUME NEW task \in Tasks, NEW t \in Tickets, NEW n \in Nat
  PROVE  Message(task, t, n) \in Job
  BY NewRowTyped DEF Message, Job, Pcs

(* A slot that is not free holds a job. *)
LEMMA BusyTyped ==
  ASSUME TypeOK, NEW j \in Jobs, job[j].pc # "free"
  PROVE  job[j] \in Job
  BY DEF TypeOK, Free

(* Replacing one slot's content keeps the type of all slots. *)
LEMMA PutTyped ==
  ASSUME TypeOK, NEW j \in Jobs, NEW m \in Job \cup {Free},
         job' = [job EXCEPT ![j] = m]
  PROVE  job' \in Slots
  BY DEF TypeOK, Slots

(* Moving a busy job to another statement keeps the types. *)
LEMMA GotoTyped ==
  ASSUME TypeOK, NEW j \in Jobs, job[j].pc # "free", NEW pc \in Pcs, Goto(j, pc)
  PROVE  job' \in Slots
<1> DEFINE m == [job[j] EXCEPT !.pc = pc]
<1>1. m \in Job
  BY BusyTyped DEF Job
<1>2. job' = [job EXCEPT ![j] = m]
  BY DEF Goto
<1> QED BY <1>1, <1>2, PutTyped

(* Keeping a row in the snapshot of a busy job keeps the types. *)
LEMMA KeepRowTyped ==
  ASSUME TypeOK, NEW j \in Jobs, job[j].pc # "free", NEW row \in Row, NEW pc \in Pcs,
         KeepRow(j, row, pc)
  PROVE  job' \in Slots
<1> DEFINE m == [job[j] EXCEPT !.snap = row, !.pc = pc]
<1>1. m \in Job
  BY BusyTyped DEF Job
<1>2. job' = [job EXCEPT ![j] = m]
  BY DEF KeepRow
<1> QED BY <1>1, <1>2, PutTyped

(* What the slot of a job that moves holds afterwards. *)
LEMMA AfterPut ==
  ASSUME TypeOK, NEW j \in Jobs, NEW m, job' = [job EXCEPT ![j] = m]
  PROVE  job'[j] = m /\ \A k \in Jobs \ {j} : job'[k] = job[k]
  BY DEF TypeOK

(* What every slot holds after one job moved to another statement. *)
LEMMA AfterGoto ==
  ASSUME TypeOK, NEW j \in Jobs, job[j].pc # "free", NEW l, Goto(j, l)
  PROVE  /\ job'[j].pc = l /\ job'[j].task = job[j].task
         /\ job'[j].ticket = job[j].ticket /\ job'[j].snap = job[j].snap
         /\ job'[j].at = job[j].at
         /\ \A k \in Jobs \ {j} : job'[k] = job[k]
<1> DEFINE m == [job[j] EXCEPT !.pc = l]
<1>1. job[j] \in Job
  BY BusyTyped
<1>2. job' = [job EXCEPT ![j] = m]
  BY DEF Goto
<1>3. job'[j] = m /\ \A k \in Jobs \ {j} : job'[k] = job[k]
  <2> HIDE DEF m
  <2> QED BY <1>2, AfterPut
<1> QED BY <1>1, <1>3 DEF Job

(* What every slot holds after one job kept a row it read. *)
LEMMA AfterKeepRow ==
  ASSUME TypeOK, NEW j \in Jobs, job[j].pc # "free", NEW row, NEW l, KeepRow(j, row, l)
  PROVE  /\ job'[j].pc = l /\ job'[j].task = job[j].task
         /\ job'[j].ticket = job[j].ticket /\ job'[j].snap = row
         /\ job'[j].at = job[j].at
         /\ \A k \in Jobs \ {j} : job'[k] = job[k]
<1> DEFINE m == [job[j] EXCEPT !.snap = row, !.pc = l]
<1>1. job[j] \in Job
  BY BusyTyped
<1>2. job' = [job EXCEPT ![j] = m]
  BY DEF KeepRow
<1>3. job'[j] = m /\ \A k \in Jobs \ {j} : job'[k] = job[k]
  <2> HIDE DEF m
  <2> QED BY <1>2, AfterPut
<1> QED BY <1>1, <1>3 DEF Job

(* What every slot holds after a job moved to its next attachment. *)
LEMMA AfterNextAttachment ==
  ASSUME TypeOK, NEW j \in Jobs, job[j].pc # "free", NextAttachment(j)
  PROVE  /\ job'[j].pc = "check" /\ job'[j].task = job[j].task
         /\ job'[j].ticket = job[j].ticket /\ job'[j].snap = job[j].snap
         /\ job'[j].at = job[j].at + 1
         /\ \A k \in Jobs \ {j} : job'[k] = job[k]
<1> DEFINE m == [job[j] EXCEPT !.at = @ + 1, !.pc = "check"]
<1>1. job[j] \in Job
  BY BusyTyped
<1>2. job' = [job EXCEPT ![j] = m]
  BY DEF NextAttachment
<1>3. job'[j] = m /\ \A k \in Jobs \ {j} : job'[k] = job[k]
  <2> HIDE DEF m
  <2> QED BY <1>2, AfterPut
<1> QED BY <1>1, <1>3 DEF Job

(* What a job publishes, and its own message delivered again, are jobs. *)
LEMMA PublishedTyped ==
  ASSUME TypeOK, NEW j \in Jobs, job[j].pc # "free"
  PROVE  /\ Redelivered(j) \in Job
         /\ Publishes(j) => Published(j) \in Job
<1>1. job[j] \in Job
  BY BusyTyped
<1>2. /\ job[j].task \in Tasks /\ job[j].ticket \in Tickets
      /\ job[j].tries \in Nat /\ job[j].tries + 1 \in Nat
  BY <1>1 DEF Job
<1>3. Redelivered(j) \in Job
  BY <1>2, MessageTyped DEF Redelivered
<1>4. ASSUME Publishes(j) PROVE Published(j) \in Job
  <2>1. CASE job[j].pc = "retry"
    BY <2>1, <1>2, MessageTyped DEF Published
  <2>2. CASE job[j].pc = "park"
    <3>1. "record_dead_letter" \in Tasks /\ 0 \in Nat
      BY DEF Tasks
    <3> QED BY <2>2, <3>1, <1>2, MessageTyped DEF Published
  <2>3. CASE job[j].pc \notin {"retry", "park"}
    <3>1. Successor(job[j].task) # "none"
      BY <2>3, <1>4 DEF Publishes
    <3>2. Successor(job[j].task) \in Tasks
      BY <3>1 DEF Successor, Tasks, Stages
    <3>3. Published(j) = Message(Successor(job[j].task), job[j].ticket, 0)
      BY <2>3 DEF Published
    <3> QED BY <3>2, <3>3, <1>2, MessageTyped
  <2> QED BY <2>1, <2>2, <2>3
<1> QED BY <1>3, <1>4

(* The row with one column changed, and a row some job kept, are rows. *)
LEMMA RowTyped ==
  ASSUME NEW row \in Row, NEW s \in Statuses
  PROVE  /\ [row EXCEPT !.status = s] \in Row
         /\ [row EXCEPT !.parsed = TRUE, !.status = s] \in Row
         /\ [row EXCEPT !.sla_breached = TRUE] \in Row
         /\ \A d \in Digests : [row EXCEPT !.document = d] \in Row
         /\ \A u \in Tickets \cup {None} :
               [row EXCEPT !.status = s, !.duplicate_of = u] \in Row
  BY DEF Row

(* The validation stage decides, whatever it finds. *)
LEMMA DecisionTyped ==
  ASSUME NEW t, NEW row, NEW duplicate
  PROVE  Decision(t, row, duplicate) \in Decisions
  BY DEF Decision, Decisions

(* The jobs after a step in which one job raised an exception. *)
LEMMA RaisedTyped ==
  ASSUME TypeOK, NEW j \in Jobs, job[j].pc # "free", Raised(j)
  PROVE  job' \in Slots
<1> DEFINE pc == IF job[j].tries < MaxRetries THEN "retry" ELSE "mark_failed"
<1>1. pc \in Pcs
  BY DEF Pcs
<1>2. Goto(j, pc)
  BY DEF Raised
<1> HIDE DEF pc
<1> QED BY <1>1, <1>2, GotoTyped

(* The jobs after extract_attachments moved to the next attachment. *)
LEMMA NextAttachmentTyped ==
  ASSUME TypeOK, NEW j \in Jobs, job[j].pc # "free", NextAttachment(j)
  PROVE  job' \in Slots
<1> DEFINE m == [job[j] EXCEPT !.at = @ + 1, !.pc = "check"]
<1>1. m \in Job
  <2>1. job[j] \in Job
    BY BusyTyped
  <2>2. job[j].at + 1 \in Nat \ {0} /\ "check" \in Pcs
    BY <2>1 DEF Job, Pcs
  <2> QED BY <2>1, <2>2 DEF Job
<1>2. job' = [job EXCEPT ![j] = m]
  BY DEF NextAttachment
<1> QED BY <1>1, <1>2, PutTyped

-----------------------------------------------------------------------------
(* Type correctness.                                                        *)

(* The state in which the workers start has the right types. *)
THEOREM InitTyped == Init => TypeOK
<1> SUFFICES ASSUME Init PROVE TypeOK
  OBVIOUS
<1>1. job \in Slots
  <2>1. PICK first \in [Tickets -> Jobs] :
           job = [j \in Jobs |->
                    IF \E t \in Tickets: first[t] = j
                    THEN Message("run_pipeline", CHOOSE t \in Tickets: first[t] = j, 0)
                    ELSE Free]
    BY DEF Init
  <2>2. "run_pipeline" \in Tasks /\ 0 \in Nat
    BY DEF Tasks
  <2>3. ASSUME NEW j \in Jobs PROVE job[j] \in Job \cup {Free}
    <3>1. CASE \E t \in Tickets: first[t] = j
      <4>1. (CHOOSE t \in Tickets: first[t] = j) \in Tickets
        BY <3>1
      <4> QED BY <2>1, <2>2, <3>1, <4>1, MessageTyped
    <3>2. CASE ~\E t \in Tickets: first[t] = j
      BY <2>1, <3>2
    <3> QED BY <3>1, <3>2
  <2> QED BY <2>1, <2>3 DEF Slots
<1>2. ticket \in [Tickets -> Row]
  BY NewRowTyped DEF Init
<1> QED BY <1>1, <1>2 DEF Init, TypeOK, Slots

(* The part of the state the messages' own steps leave alone. *)
LEMMA SlotsOnly ==
  ASSUME TypeOK, job' \in Slots, used' \in [Disturbances -> Nat],
         lost' \subseteq Tickets, UNCHANGED <<ticket, rowVars, adminVars, slaVars>>
  PROVE  TypeOK'
  BY DEF TypeOK, Slots, rowVars, adminVars, slaVars

(* Spending one unit of a disturbance keeps its budget a natural number. *)
LEMMA SpendTyped ==
  ASSUME TypeOK, NEW d \in Disturbances, Spend(d)
  PROVE  used' \in [Disturbances -> Nat]
  BY DEF TypeOK, Spend

(* Work on a message keeps the types. *)
LEMMA WorkTyped ==
  ASSUME TypeOK, CreateInRange, NEW j \in Jobs, Work(j)
  PROVE  TypeOK'
<1> DEFINE t == job[j].ticket
<1> USE DEF rowVars, adminVars, slaVars
<1>0. job[j].pc # "free" => /\ job[j] \in Job /\ t \in Tickets /\ job[j].snap \in Row
                            /\ ticket[t] \in Row
  BY BusyTyped DEF Job, TypeOK
<1>a. "done" \in Pcs /\ "save" \in Pcs /\ "check" \in Pcs /\ "create" \in Pcs
      /\ "notify" \in Pcs /\ "ocr" \in Pcs /\ "await" \in Pcs /\ "decide" \in Pcs
      /\ "park" \in Pcs
  BY DEF Pcs
<1>b. "processing" \in Statuses /\ "awaiting_validation" \in Statuses /\ "failed" \in Statuses
  BY DEF Statuses, Unresolved
<1>c. used \in [Disturbances -> Nat] /\ lost \subseteq Tickets
  BY DEF TypeOK
(* A step that only moves j, and one that writes t's row as well. *)
<1>d. ASSUME NEW pc \in Pcs, job[j].pc # "free", Goto(j, pc),
             UNCHANGED <<ticket, rowVars, adminVars, slaVars, lost, used>>
      PROVE  TypeOK'
  BY <1>d, <1>c, GotoTyped, SlotsOnly
<1>e. ASSUME NEW row \in Row, NEW pc \in Pcs, job[j].pc # "free", KeepRow(j, row, pc),
             UNCHANGED <<ticket, rowVars, adminVars, slaVars, lost, used>>
      PROVE  TypeOK'
  BY <1>e, <1>c, KeepRowTyped, SlotsOnly
<1>f. ASSUME NEW s \in Statuses, NEW pc \in Pcs, job[j].pc # "free", Goto(j, pc),
             ticket' = [ticket EXCEPT ![t].status = s],
             UNCHANGED <<rowVars, adminVars, slaVars, lost, used>>
      PROVE  TypeOK'
  <2>1. job' \in Slots
    BY <1>f, GotoTyped
  <2>2. ticket' \in [Tickets -> Row]
    <3>1. ticket' = [ticket EXCEPT ![t] = [ticket[t] EXCEPT !.status = s]]
      BY <1>f
    <3>2. [ticket[t] EXCEPT !.status = s] \in Row
      BY <1>0, <1>f, RowTyped
    <3> QED BY <3>1, <3>2 DEF TypeOK
  <2> QED BY <1>f, <2>1, <2>2 DEF TypeOK, Slots
<1>g. ASSUME SaveRow(j) PROVE TypeOK'
  <2>1. job' \in Slots
    BY <1>g, <1>a, GotoTyped DEF SaveRow
  <2>2. ticket' \in [Tickets -> Row]
    BY <1>g, <1>0 DEF SaveRow, TypeOK
  <2> QED BY <1>g, <2>1, <2>2 DEF TypeOK, Slots, SaveRow
<1>h. ASSUME NEW templates \in SUBSET Templates, Notify(j, templates) PROVE TypeOK'
  <2>1. job' \in Slots
    BY <1>h, <1>a, GotoTyped DEF Notify
  <2>2. mails' \in [Tickets -> SUBSET Templates]
    BY <1>h DEF Notify, TypeOK
  <2> QED BY <1>h, <2>1, <2>2 DEF TypeOK, Slots, Notify
<1>1. CASE RunPipeline(j)
  BY <1>1, <1>a, <1>d DEF RunPipeline, At
<1>2. CASE StoreRead(j)
  <2> DEFINE pc == IF ticket[t].status = "received" THEN "save" ELSE "done"
  <2>1. pc \in Pcs
    BY <1>a
  <2>2. job[j].pc # "free" /\ Goto(j, pc)
        /\ UNCHANGED <<ticket, rowVars, adminVars, slaVars, lost, used>>
    BY <1>2 DEF StoreRead, At
  <2> HIDE DEF pc
  <2> QED BY <2>1, <2>2, <1>d
<1>3. CASE StoreSave(j)
  BY <1>3, <1>a, <1>b, <1>f DEF StoreSave, At
<1>4. CASE ExtractRead(j)
  BY <1>4, <1>a, <1>d DEF ExtractRead, At
<1>5. CASE CheckAttachment(j)
  <2>1. job[j].pc # "free" /\ UNCHANGED <<ticket, rowVars, adminVars, slaVars, lost, used>>
    BY <1>5 DEF CheckAttachment, At
  <2>2. NextAttachment(j) \/ Goto(j, "create") \/ Goto(j, "done")
    BY <1>5 DEF CheckAttachment
  <2>3. CASE NextAttachment(j)
    BY <2>1, <2>3, <1>c, NextAttachmentTyped, SlotsOnly
  <2> QED BY <2>1, <2>2, <2>3, <1>a, <1>d
<1>6. CASE CreateDocument(j)
  <2>1. job[j].pc # "free"
    BY <1>6 DEF CreateDocument, At
  <2>2. job' \in Slots
    BY <1>6, <2>1, RaisedTyped, NextAttachmentTyped DEF CreateDocument
  <2>3. docs' \in [Tickets -> SUBSET Digests]
    <3>1. CASE UNCHANGED docs
      BY <3>1 DEF TypeOK
    <3>2. CASE ~(Attachment(j) \in docs[t]) /\ docs' = [docs EXCEPT ![t] = @ \cup {Attachment(j)}]
      <4>1. t \in Tickets /\ job[j].at \in Nat \ {0} /\ job[j].at <= Len(Attached[t])
        BY <1>6, <2>1, <1>0 DEF CreateDocument, CreateInRange, MoreAttachments, Job
      <4>2. Attached[t] \in Seq(Digests)
        BY <4>1, EmailAssumption
      <4>3. Attachment(j) \in Digests
        BY <4>1, <4>2 DEF Attachment
      <4> QED BY <3>2, <4>3 DEF TypeOK
    <3> QED BY <1>6, <3>1, <3>2 DEF CreateDocument
  <2> QED BY <1>6, <2>2, <2>3 DEF TypeOK, Slots, CreateDocument
<1>7. CASE ParseRead(j)
  <2>1. job[j].pc # "free"
    BY <1>7 DEF ParseRead, At
  <2>2. [ticket[t] EXCEPT !.parsed = TRUE, !.status = "processing"] \in Row
    BY <2>1, <1>0, <1>b, RowTyped
  <2> QED BY <1>7, <2>1, <2>2, <1>a, <1>e DEF ParseRead
<1>8. CASE ParseSave(j) \/ OcrSave(j) \/ SaveOutcome(j)
  BY <1>8, <1>g DEF ParseSave, OcrSave, SaveOutcome
<1>9. CASE ParseNotify(j)
  <2>1. {"onboarding_received"} \in SUBSET Templates
    BY DEF Templates
  <2> QED BY <1>9, <2>1, <1>h DEF ParseNotify
<1>10. CASE OcrRead(j)
  BY <1>10, <1>0, <1>a, <1>e DEF OcrRead, At
<1>11. CASE OcrDocuments(j)
  <2>1. job[j].pc # "free" /\ UNCHANGED <<ticket, rowVars, adminVars, slaVars, lost, used>>
    BY <1>11 DEF OcrDocuments, At
  <2>2. CASE Goto(j, "notify")
    BY <2>1, <2>2, <1>a, <1>d
  <2>3. CASE \E d \in docs[t] : KeepRow(j, [job[j].snap EXCEPT !.document = d], "save")
    <3>1. PICK d \in docs[t] : KeepRow(j, [job[j].snap EXCEPT !.document = d], "save")
      BY <2>3
    <3>2. d \in Digests
      BY <2>1, <1>0 DEF TypeOK
    <3>3. [job[j].snap EXCEPT !.document = d] \in Row
      BY <2>1, <1>0, <1>b, <3>2, RowTyped
    <3> QED BY <2>1, <3>1, <3>3, <1>a, <1>e
  <2> QED BY <1>11, <2>2, <2>3 DEF OcrDocuments
<1>12. CASE OcrNotify(j)
  <2> DEFINE templates == IF docs[t] # {} THEN {"documents_processed"} ELSE {}
  <2>1. templates \in SUBSET Templates
    BY DEF Templates
  <2>2. Notify(j, templates)
    BY <1>12 DEF OcrNotify
  <2> HIDE DEF templates
  <2> QED BY <2>1, <2>2, <1>h
<1>13. CASE ValidationRead(j)
  <2>1. job[j].pc # "free"
    BY <1>13 DEF ValidationRead, At
  <2>2. [ticket[t] EXCEPT !.status = "awaiting_validation"] \in Row
    BY <2>1, <1>0, <1>b, RowTyped
  <2> QED BY <1>13, <2>1, <2>2, <1>a, <1>e DEF ValidationRead
<1>14. CASE AwaitValidation(j)
  BY <1>14, <1>a, <1>b, <1>f DEF AwaitValidation, At
<1>15. CASE RunValidation(j)
  <2>1. job[j].pc # "free" /\ UNCHANGED <<ticket, rowVars, adminVars, slaVars, lost, used>>
    BY <1>15 DEF RunValidation, At
  <2>2. PICK duplicate \in FindDuplicate(t, job[j].snap) :
           KeepRow(j, [job[j].snap EXCEPT
                         !.status = Decision(t, job[j].snap, duplicate),
                         !.duplicate_of = IF duplicate = None THEN @ ELSE duplicate], "save")
    BY <1>15 DEF RunValidation
  <2> DEFINE u == IF duplicate = None THEN job[j].snap.duplicate_of ELSE duplicate
  <2>3. u \in Tickets \cup {None}
    <3>1. duplicate \in Tickets \cup {None}
      BY <2>2 DEF FindDuplicate, Originals
    <3>2. job[j].snap.duplicate_of \in Tickets \cup {None}
      BY <2>1, <1>0 DEF Row
    <3> QED BY <3>1, <3>2
  <2>4. Decision(t, job[j].snap, duplicate) \in Statuses
    BY DecisionTyped DEF Statuses
  <2>5. [job[j].snap EXCEPT !.status = Decision(t, job[j].snap, duplicate),
                            !.duplicate_of = u] \in Row
    <3> HIDE DEF u
    <3> QED BY <2>1, <2>3, <2>4, <1>0, RowTyped
  <2> QED BY <2>1, <2>2, <2>5, <1>a, <1>e
<1>16. CASE NotifyOutcome(j)
  <2> DEFINE templates ==
        CASE job[j].snap.status = "approved" -> {"validation_passed", "ticket_approved"}
          [] job[j].snap.status = "rejected" ->
                 {"ticket_rejected"} \cup (IF docs[t] = {} THEN {"documents_missing"} ELSE {})
          [] OTHER -> {"validation_failed"}
  <2>1. templates \in SUBSET Templates
    BY DEF Templates
  <2>2. Notify(j, templates)
    BY <1>16 DEF NotifyOutcome
  <2> HIDE DEF templates
  <2> QED BY <2>1, <2>2, <1>h
<1>17. CASE HandOff(j)
  <2>1. job[j].pc # "free"
    BY <1>17 DEF HandOff, Publishes
  <2>2. job' \in Slots
    BY <1>17, <2>1, PublishedTyped, PutTyped DEF HandOff
  <2> QED BY <1>17, <2>2, <1>c, SlotsOnly DEF HandOff
<1>18. CASE Finish(j)
  <2>1. job' \in Slots
    BY <1>18, PutTyped DEF Finish
  <2> QED BY <1>18, <2>1, <1>c, SlotsOnly DEF Finish
<1>19. CASE MarkFailed(j)
  BY <1>19, <1>a, <1>b, <1>f DEF MarkFailed
<1>20. CASE RecordDeadLetter(j)
  <2>1. job' \in Slots
    BY <1>20, <1>a, GotoTyped DEF RecordDeadLetter, At
  <2>2. deadLetter' \in [Tickets -> BOOLEAN]
    BY <1>20 DEF RecordDeadLetter, TypeOK
  <2> QED BY <1>20, <2>1, <2>2 DEF TypeOK, Slots, RecordDeadLetter
<1> QED
  BY <1>1, <1>2, <1>3, <1>4, <1>5, <1>6, <1>7, <1>8, <1>9, <1>10, <1>11, <1>12, <1>13, <1>14,
     <1>15, <1>16, <1>17, <1>18, <1>19, <1>20 DEF Work, Stage

(* What goes wrong with a message keeps the types. *)
LEMMA TroubleTyped ==
  ASSUME TypeOK, NEW j \in Jobs, Trouble(j)
  PROVE  TypeOK'
<1>1. CASE StageFails(j)
  <2>1. job[j].pc # "free" /\ job' \in Slots
    <3>1. job[j].task # "none"
      BY <1>1 DEF StageFails, InBody, Stages
    <3>2. job[j].pc # "free"
      BY <3>1, <1>1 DEF StageFails, InBody, TypeOK, Job, Pcs, Free
    <3> QED BY <3>2, <1>1, RaisedTyped DEF StageFails
  <2>2. used' \in [Disturbances -> Nat]
    BY <1>1, SpendTyped DEF StageFails, Disturbances
  <2> QED BY <1>1, <2>1, <2>2, SlotsOnly DEF StageFails, TypeOK
<1>2. CASE Lose(j)
  <2>1. job[j].pc # "free"
    BY <1>2 DEF Lose, Publishes, At
  <2>2. job' \in Slots
    BY <1>2, PutTyped DEF Lose
  <2>4. lost' \subseteq Tickets
    <3>1. job[j].ticket \in Tickets
      BY <2>1, BusyTyped DEF Job
    <3> QED BY <1>2, <3>1 DEF Lose, TypeOK
  <2>3. used' \in [Disturbances -> Nat]
    BY <1>2, SpendTyped DEF Lose, Disturbances
  <2> QED BY <1>2, <2>2, <2>3, <2>4, SlotsOnly DEF Lose
<1>3. CASE Crash(j)
  <2>1. job' \in Slots
    BY <1>3, PublishedTyped, PutTyped DEF Crash
  <2>2. used' \in [Disturbances -> Nat]
    BY <1>3, SpendTyped DEF Crash, Disturbances
  <2> QED BY <1>3, <2>1, <2>2, SlotsOnly DEF Crash, TypeOK
<1>4. CASE CrashAfterHandOff(j)
  <2>1. Redelivered(j) \in Job /\ Published(j) \in Job
    BY <1>4, PublishedTyped DEF CrashAfterHandOff, Publishes
  <2>2. job' \in Slots
    BY <1>4, <2>1 DEF CrashAfterHandOff, TypeOK, Slots
  <2>3. used' \in [Disturbances -> Nat]
    BY <1>4, SpendTyped DEF CrashAfterHandOff, Disturbances
  <2> QED BY <1>4, <2>2, <2>3, SlotsOnly DEF CrashAfterHandOff, TypeOK
<1> QED BY <1>1, <1>2, <1>3, <1>4 DEF Trouble

(* The admin endpoints keep the types. *)
LEMMA AdminTyped ==
  ASSUME TypeOK, NEW t \in Tickets, Admin(t)
  PROVE  TypeOK'
<1> USE DEF rowVars, adminVars, slaVars
<1>0. ASSUME NEW s \in Statuses, ticket' = [ticket EXCEPT ![t].status = s]
      PROVE  ticket' \in [Tickets -> Row]
  <2>1. ticket' = [ticket EXCEPT ![t] = [ticket[t] EXCEPT !.status = s]]
    BY <1>0
  <2>2. [ticket[t] EXCEPT !.status = s] \in Row
    BY RowTyped DEF TypeOK
  <2> QED BY <2>1, <2>2 DEF TypeOK
<1>1. ASSUME NEW s \in Statuses, UpdateStatus(t, s) PROVE TypeOK'
  <2>1. ticket' \in [Tickets -> Row]
    BY <1>0, <1>1 DEF UpdateStatus
  <2>2. used' \in [Disturbances -> Nat]
    BY <1>1, SpendTyped DEF UpdateStatus, Disturbances
  <2> QED BY <1>1, <2>1, <2>2 DEF UpdateStatus, TypeOK
<1>2. CASE Reprocess(t)
  <2>1. ticket' \in [Tickets -> Row]
    BY <1>0, <1>2 DEF Reprocess, Statuses, Unresolved
  <2>2. used' \in [Disturbances -> Nat]
    BY <1>2, SpendTyped DEF Reprocess, Disturbances
  <2> QED BY <1>2, <2>1, <2>2 DEF Reprocess, TypeOK
<1>3. CASE CloseDeadLetters(t)
  BY <1>3 DEF CloseDeadLetters, TypeOK
<1>4. CASE DispatchAgain(t)
  <2>1. Message("run_pipeline", t, 0) \in Job
    BY MessageTyped DEF Tasks
  <2>2. job' \in Slots
    BY <1>4, <2>1, PutTyped DEF DispatchAgain
  <2> QED BY <1>4, <2>2 DEF DispatchAgain, TypeOK, Slots
<1>5. CASE LoseRequest(t)
  <2>1. used' \in [Disturbances -> Nat]
    BY <1>5, SpendTyped DEF LoseRequest, Disturbances
  <2> QED BY <1>5, <2>1 DEF LoseRequest, TypeOK
<1> QED BY <1>1, <1>2, <1>3, <1>4, <1>5 DEF Admin, Serve

(* The SLA monitor keeps the types. *)
LEMMA SlaTyped ==
  ASSUME TypeOK, Sla
  PROVE  TypeOK'
<1> USE DEF rowVars, adminVars, slaVars
<1>1. ASSUME NEW m \in Monitors, CheckSla(m) PROVE TypeOK'
  <2>1. used' \in [Disturbances -> Nat]
    BY <1>1, SpendTyped DEF CheckSla, Disturbances
  <2> QED BY <1>1, <2>1 DEF CheckSla, TypeOK
<1>2. ASSUME NEW m \in Monitors, StopSla(m) PROVE TypeOK'
  <2>1. used' \in [Disturbances -> Nat]
    BY <1>2, SpendTyped DEF StopSla, Disturbances
  <2>2. unnoted' \subseteq Tickets
    BY <1>2 DEF StopSla, TypeOK
  <2> QED BY <1>2, <2>1, <2>2 DEF StopSla, TypeOK
<1>3. ASSUME NEW t \in Tickets, DeadlinePasses(t) PROVE TypeOK'
  BY <1>3 DEF DeadlinePasses, TypeOK
<1>4. ASSUME NEW m \in Monitors, NEW t \in Tickets, FlagBreach(m, t) PROVE TypeOK'
  <2>1. ticket' = [ticket EXCEPT ![t] = [ticket[t] EXCEPT !.sla_breached = TRUE]]
    BY <1>4 DEF FlagBreach
  <2>2. [ticket[t] EXCEPT !.sla_breached = TRUE] \in Row
    <3>1. ticket[t] \in Row /\ ticket[t].status \in Statuses
      BY DEF TypeOK, Row
    <3> QED BY <3>1, RowTyped
  <2>3. ticket' \in [Tickets -> Row]
    BY <2>1, <2>2 DEF TypeOK
  <2> QED BY <1>4, <2>3 DEF FlagBreach, TypeOK
<1>5. ASSUME NEW m \in Monitors, NEW t \in Tickets, NoteBreach(m, t) PROVE TypeOK'
  <2>1. breachEvents' \in [Tickets -> Nat]
    BY <1>5 DEF NoteBreach, TypeOK
  <2> QED BY <1>5, <2>1 DEF NoteBreach, TypeOK
<1> QED BY <1>1, <1>2, <1>3, <1>4, <1>5 DEF Sla

(* A worker only works on a slot that is not free. *)
LEMMA WorkBusy ==
  ASSUME NEW j \in Jobs, Work(j)
  PROVE  job[j].pc # "free"
  BY DEF Work, Stage, RunPipeline, StoreRead, StoreSave, ExtractRead, CheckAttachment,
     CreateDocument, ParseRead, ParseSave, ParseNotify, OcrRead, OcrDocuments, OcrSave,
     OcrNotify, ValidationRead, AwaitValidation, RunValidation, SaveOutcome, NotifyOutcome,
     SaveRow, Notify, At, HandOff, Publishes, Finish, MarkFailed, RecordDeadLetter

(* Every step of a worker is a move of its own slot, by one of five forms. *)
Forms(j) ==
  \/ \E l \in Pcs \ {"create"} : Goto(j, l)
  \/ Goto(j, "create") /\ MoreAttachments(j)
  \/ \E row : \E l \in {"save", "ocr", "await"} : KeepRow(j, row, l)
  \/ NextAttachment(j)
  \/ \E m \in {Free, Published(j)} : job' = [job EXCEPT ![j] = m]

(* Every step of a worker changes its slot in one of the listed forms. *)
LEMMA WorkForms ==
  ASSUME NEW j \in Jobs, Work(j)
  PROVE  Forms(j)
<1> USE DEF Forms, Pcs
<1>1. CASE RunPipeline(j) \/ ExtractRead(j)
  BY <1>1 DEF RunPipeline, ExtractRead
<1>2. CASE StoreRead(j)
  BY <1>2 DEF StoreRead
<1>3. CASE StoreSave(j) \/ AwaitValidation(j) \/ MarkFailed(j) \/ RecordDeadLetter(j)
  BY <1>3 DEF StoreSave, AwaitValidation, MarkFailed, RecordDeadLetter
<1>4. CASE CheckAttachment(j)
  BY <1>4 DEF CheckAttachment
<1>5. CASE CreateDocument(j)
  BY <1>5 DEF CreateDocument, Raised
<1>6. CASE ParseRead(j) \/ OcrRead(j) \/ ValidationRead(j)
  BY <1>6 DEF ParseRead, OcrRead, ValidationRead
<1>7. CASE ParseSave(j) \/ OcrSave(j) \/ SaveOutcome(j)
  BY <1>7 DEF ParseSave, OcrSave, SaveOutcome, SaveRow
<1>8. CASE ParseNotify(j) \/ OcrNotify(j) \/ NotifyOutcome(j)
  BY <1>8 DEF ParseNotify, OcrNotify, NotifyOutcome, Notify
<1>9. CASE OcrDocuments(j)
  BY <1>9 DEF OcrDocuments
<1>10. CASE RunValidation(j)
  BY <1>10 DEF RunValidation
<1>11. CASE HandOff(j) \/ Finish(j)
  BY <1>11 DEF HandOff, Finish
<1> QED
  BY <1>1, <1>2, <1>3, <1>4, <1>5, <1>6, <1>7, <1>8, <1>9, <1>10, <1>11 DEF Work, Stage

(* A message that is published is queued. *)
LEMMA PublishedQueued ==
  ASSUME NEW j
  PROVE  Published(j).pc = "queued" /\ Redelivered(j).pc = "queued"
  BY DEF Published, Redelivered, Message

(* extract_attachments reaches its INSERT from the loop's test only. *)
LEMMA WorkCreates ==
  ASSUME TypeOK, CreateInRange, NEW j \in Jobs, Work(j)
  PROVE  CreateInRange'
<1> SUFFICES ASSUME NEW k \in Jobs, At(k, "extract_attachments", "create")'
             PROVE  MoreAttachments(k)'
  BY DEF CreateInRange
<1>1. job[j].pc # "free" /\ Forms(j)
  BY WorkBusy, WorkForms
<1>2. CASE k # j
  <2>1. job'[k] = job[k]
    BY <1>1, <1>2, AfterPut, AfterGoto, AfterKeepRow, AfterNextAttachment DEF Forms
  <2> QED BY <2>1 DEF CreateInRange, At, MoreAttachments
<1>3. CASE k = j
  <2>1. job'[j].pc = "create"
    BY <1>3 DEF At
  <2>2. ASSUME NEW l, Goto(j, l) PROVE l = "create"
    BY <1>1, <2>1, <2>2, AfterGoto
  <2>3. ASSUME NEW row, NEW l, KeepRow(j, row, l) PROVE l = "create"
    BY <1>1, <2>1, <2>3, AfterKeepRow
  <2>4. ~NextAttachment(j)
    BY <1>1, <2>1, AfterNextAttachment
  <2>5. ASSUME NEW m \in {Free, Published(j)}, job' = [job EXCEPT ![j] = m] PROVE FALSE
    <3>1. m.pc # "create"
      BY PublishedQueued DEF Free
    <3>2. job'[j] = m
      BY <2>5, AfterPut
    <3> QED BY <2>1, <3>1, <3>2
  <2>6. Goto(j, "create") /\ MoreAttachments(j)
    BY <1>1, <2>2, <2>3, <2>4, <2>5 DEF Forms
  <2> QED BY <1>1, <1>3, <2>6, AfterGoto DEF MoreAttachments
<1> QED BY <1>2, <1>3

(* The other steps put no job at the INSERT. *)
LEMMA TroubleCreates ==
  ASSUME TypeOK, CreateInRange, NEW j \in Jobs, Trouble(j)
  PROVE  CreateInRange'
<1> SUFFICES ASSUME NEW k \in Jobs, At(k, "extract_attachments", "create")'
             PROVE  MoreAttachments(k)'
  BY DEF CreateInRange
<1> SUFFICES job'[k] = job[k]
  BY DEF CreateInRange, At, MoreAttachments
<1>1. job'[k].pc = "create"
  BY DEF At
<1>2. CASE StageFails(j)
  <2>1. job[j].pc # "free"
    BY <1>2 DEF StageFails, InBody, Stages, TypeOK, Job, Pcs, Free
  <2>2. PICK l \in {"retry", "mark_failed"} : Goto(j, l)
    BY <1>2 DEF StageFails, Raised
  <2> QED BY <1>1, <2>1, <2>2, AfterGoto
<1>3. CASE Lose(j)
  <2>1. job' = [job EXCEPT ![j] = Free] /\ Free.pc # "create"
    BY <1>3 DEF Lose, Free
  <2> QED BY <1>1, <2>1, AfterPut
<1>4. CASE Crash(j)
  <2>1. job' = [job EXCEPT ![j] = Redelivered(j)] /\ Redelivered(j).pc # "create"
    BY <1>4, PublishedQueued DEF Crash
  <2> QED BY <1>1, <2>1, AfterPut
<1>5. CASE CrashAfterHandOff(j)
  <2>1. Redelivered(j).pc # "create" /\ Published(j).pc # "create"
    BY PublishedQueued
  <2>2. PICK i \in Jobs : job' = [job EXCEPT ![j] = Redelivered(j), ![i] = Published(j)]
    BY <1>5 DEF CrashAfterHandOff
  <2> QED BY <1>1, <2>1, <2>2 DEF TypeOK
<1> QED BY <1>2, <1>3, <1>4, <1>5 DEF Trouble

(* An admin endpoint puts no job at the INSERT of an attachment. *)
LEMMA AdminCreates ==
  ASSUME TypeOK, CreateInRange, NEW t \in Tickets, Admin(t)
  PROVE  CreateInRange'
<1> SUFFICES ASSUME NEW k \in Jobs, At(k, "extract_attachments", "create")'
             PROVE  job'[k] = job[k]
  BY DEF CreateInRange, At, MoreAttachments
<1>1. CASE DispatchAgain(t)
  <2>1. PICK i \in Jobs : job' = [job EXCEPT ![i] = Message("run_pipeline", t, 0)]
    BY <1>1 DEF DispatchAgain
  <2>2. Message("run_pipeline", t, 0).pc = "queued"
    BY DEF Message
  <2> QED BY <2>1, <2>2, AfterPut DEF At
<1>2. CASE ~DispatchAgain(t)
  BY <1>2 DEF Admin, Serve, UpdateStatus, Reprocess, CloseDeadLetters, LoseRequest
<1> QED BY <1>1, <1>2

(* What proves TypeOK: it is inductive together with CreateInRange. *)
TypeInv == TypeOK /\ CreateInRange

(* The strengthened type invariant holds when the workers start. *)
LEMMA InitTypeInv == Init => TypeInv
<1> SUFFICES ASSUME Init PROVE CreateInRange
  BY InitTyped DEF TypeInv
<1>1. ASSUME NEW j \in Jobs PROVE job[j].pc # "create"
  BY <1>1 DEF Init, Message, Free
<1> QED BY <1>1 DEF CreateInRange, At

(* Every step of the system keeps the strengthened type invariant. *)
LEMMA StepTypeInv == TypeInv /\ [Next]_vars => TypeInv'
<1> SUFFICES ASSUME TypeOK, CreateInRange, [Next]_vars PROVE TypeOK' /\ CreateInRange'
  BY DEF TypeInv
<1>1. ASSUME NEW j \in Jobs, Work(j) PROVE TypeOK' /\ CreateInRange'
  BY <1>1, WorkTyped, WorkCreates
<1>2. ASSUME NEW j \in Jobs, Trouble(j) PROVE TypeOK' /\ CreateInRange'
  BY <1>2, TroubleTyped, TroubleCreates
<1>3. ASSUME NEW t \in Tickets, Admin(t) PROVE TypeOK' /\ CreateInRange'
  BY <1>3, AdminTyped, AdminCreates
<1>4. CASE Sla
  <2>1. UNCHANGED job
    BY <1>4 DEF Sla, CheckSla, StopSla, DeadlinePasses, FlagBreach, NoteBreach
  <2> QED BY <1>4, <2>1, SlaTyped DEF CreateInRange, At, MoreAttachments
<1>5. CASE UNCHANGED vars
  BY <1>5 DEF vars, TypeOK, CreateInRange, At, MoreAttachments
<1> QED BY <1>1, <1>2, <1>3, <1>4, <1>5 DEF Next

(* Every value stays in its type, whatever the tickets, the emails and the  *)
(* disturbances.                                                            *)
THEOREM TypeCorrect == Spec => []TypeOK
<1>1. TypeInv => TypeOK
  BY DEF TypeInv
<1> QED BY <1>1, InitTypeInv, StepTypeInv, PTL DEF Spec

-----------------------------------------------------------------------------
(* No ticket is forgotten.                                                   *)

Live(j, u) == job[j] # Free /\ job[j].ticket = u /\ StillToSettle(j)

Parking(j, u) ==
  /\ job[j] # Free /\ job[j].ticket = u
  /\ job[j].pc = "park" \/ At(j, "record_dead_letter", "queued")

Owed(u) == BeingProcessed(u) \/ Excused(u)

Parked(u) == deadLetter[u] \/ DeadLetterInFlight(u)

Accounted(u) ==
  \/ Owed(u)
  \/ ticket[u].status \in Decisions
  \/ ticket[u].status = "failed" /\ Parked(u)

(* The row that run_validation is about to save holds a decision. *)
Decided ==
  \A j \in Jobs : At(j, "run_validation", "save") => job[j].snap.status \in Decisions

(* A live job owes its ticket a result; a parking one has it parked. *)
LEMMA Witnesses ==
  ASSUME NEW j \in Jobs, NEW u
  PROVE  /\ Live(j, u) => Owed(u)
         /\ Parking(j, u) => Parked(u)
         /\ BeingProcessed(u) <=> (\E k \in Jobs : Live(k, u)) \/ handler[u] # "idle"
         /\ DeadLetterInFlight(u) <=> \E k \in Jobs : Parking(k, u)
  BY DEF Live, Parking, Owed, Parked, BeingProcessed, DeadLetterInFlight

(* The same after a step. *)
LEMMA WitnessesNext ==
  ASSUME NEW j \in Jobs, NEW u
  PROVE  /\ Live(j, u)' => Owed(u)'
         /\ Parking(j, u)' => Parked(u)'
  BY DEF Live, Parking, Owed, Parked, BeingProcessed, DeadLetterInFlight

(* A step that moves slot j only keeps u accounted for when it keeps u's    *)
(* status and what slot j does for u.                                       *)
LEMMA Carry ==
  ASSUME NEW j \in Jobs, NEW u \in Tickets, Accounted(u),
         \A k \in Jobs \ {j} : job'[k] = job[k],
         handler'[u] = handler[u],
         overridden \subseteq overridden', lost \subseteq lost',
         deadLetter[u] => deadLetter'[u],
         ticket'[u].status = ticket[u].status,
         Live(j, u) => Owed(u)',
         Parking(j, u) => Owed(u)' \/ Parked(u)'
  PROVE  Accounted(u)'
<1>1. ASSUME NEW k \in Jobs, Live(k, u) PROVE Owed(u)'
  <2>1. CASE k = j
    BY <1>1, <2>1
  <2>2. CASE k # j
    BY <1>1, <2>2, WitnessesNext DEF Live, StillToSettle
  <2> QED BY <2>1, <2>2
<1>2. ASSUME NEW k \in Jobs, Parking(k, u) PROVE Owed(u)' \/ Parked(u)'
  <2>1. CASE k = j
    BY <1>2, <2>1
  <2>2. CASE k # j
    BY <1>2, <2>2, WitnessesNext DEF Parking, At
  <2> QED BY <2>1, <2>2
<1>3. ASSUME Owed(u) PROVE Owed(u)'
  <2>1. CASE Excused(u)
    BY <2>1 DEF Excused, Owed
  <2>2. CASE handler[u] # "idle"
    BY <2>2 DEF Owed, BeingProcessed
  <2>3. CASE \E k \in Jobs : Live(k, u)
    BY <2>3, <1>1
  <2> QED BY <1>3, <2>1, <2>2, <2>3, Witnesses DEF Owed
<1>4. ASSUME Parked(u) PROVE Owed(u)' \/ Parked(u)'
  <2>1. CASE deadLetter[u]
    BY <2>1 DEF Parked
  <2>2. CASE DeadLetterInFlight(u)
    BY <2>2, <1>2, Witnesses
  <2> QED BY <1>4, <2>1, <2>2 DEF Parked
<1> QED BY <1>3, <1>4 DEF Accounted

-----------------------------------------------------------------------------
(* Steps of a worker.                                                       *)

(* A worker's step touches its own slot and its own ticket only. *)
LEMMA WorkLocal ==
  ASSUME TypeOK, NEW j \in Jobs, Work(j)
  PROVE  /\ \A k \in Jobs \ {j} : job'[k] = job[k]
         /\ UNCHANGED <<handler, overridden, lost>>
         /\ \A u \in Tickets : deadLetter[u] => deadLetter'[u]
         /\ \A u \in Tickets \ {job[j].ticket} : ticket'[u] = ticket[u]
<1>1. \A k \in Jobs \ {j} : job'[k] = job[k]
  BY WorkBusy, WorkForms, AfterPut, AfterGoto, AfterKeepRow, AfterNextAttachment DEF Forms
<1>2. UNCHANGED <<handler, overridden, lost>>
  BY DEF Work, Stage, RunPipeline, StoreRead, StoreSave, ExtractRead, CheckAttachment,
     CreateDocument, ParseRead, ParseSave, ParseNotify, OcrRead, OcrDocuments, OcrSave,
     OcrNotify, ValidationRead, AwaitValidation, RunValidation, SaveOutcome, NotifyOutcome,
     SaveRow, Notify, HandOff, Finish, MarkFailed, RecordDeadLetter, adminVars
<1>3. UNCHANGED deadLetter \/ deadLetter' = [deadLetter EXCEPT ![job[j].ticket] = TRUE]
  BY DEF Work, Stage, RunPipeline, StoreRead, StoreSave, ExtractRead, CheckAttachment,
     CreateDocument, ParseRead, ParseSave, ParseNotify, OcrRead, OcrDocuments, OcrSave,
     OcrNotify, ValidationRead, AwaitValidation, RunValidation, SaveOutcome, NotifyOutcome,
     SaveRow, Notify, HandOff, Finish, MarkFailed, RecordDeadLetter, rowVars
<1>4. UNCHANGED ticket \/ \E row : ticket' = [ticket EXCEPT ![job[j].ticket] = row]
  <2>1. CASE StoreSave(j) \/ AwaitValidation(j) \/ MarkFailed(j)
    BY <2>1 DEF StoreSave, AwaitValidation, MarkFailed
  <2>2. CASE ParseSave(j) \/ OcrSave(j) \/ SaveOutcome(j)
    BY <2>2 DEF ParseSave, OcrSave, SaveOutcome, SaveRow
  <2> QED BY <2>1, <2>2 DEF Work, Stage, RunPipeline, StoreRead, ExtractRead, CheckAttachment,
     CreateDocument, ParseRead, ParseNotify, OcrRead, OcrDocuments,
     OcrNotify, ValidationRead, RunValidation, NotifyOutcome,
     Notify, HandOff, Finish, RecordDeadLetter
<1>5. \A u \in Tickets : deadLetter[u] => deadLetter'[u]
  BY <1>3 DEF TypeOK
<1>6. \A u \in Tickets \ {job[j].ticket} : ticket'[u] = ticket[u]
  BY <1>4 DEF TypeOK
<1> QED BY <1>1, <1>2, <1>5, <1>6

(* A stage that has not saved its decision stays live, whatever it does. *)
LEMMA StageLive ==
  ASSUME TypeOK, NEW j \in Jobs, Stage(j), ~SaveOutcome(j), ~NotifyOutcome(j),
         NEW u, job[j].ticket = u
  PROVE  Live(j, u)'
<1> USE DEF At
<1>1. job[j].pc # "free" /\ job[j] \in Job
  BY WorkBusy, BusyTyped DEF Work
<1>2. ASSUME NEW l \in Pcs \ {"park"}, Goto(j, l),
             job[j].task \in Stages \cup {"run_pipeline"},
             job[j].task = "run_validation" => l \notin {"notify", "done"}
      PROVE  Live(j, u)'
  <2>1. job'[j].pc = l /\ job'[j].task = job[j].task /\ job'[j].ticket = job[j].ticket
    BY <1>1, <1>2, AfterGoto
  <2>2. job'[j] # Free
    BY <2>1, <1>2 DEF Free, Pcs
  <2> QED BY <1>2, <2>1, <2>2 DEF Live, StillToSettle
<1>3. ASSUME NEW row, NEW l \in {"save", "ocr", "await"}, KeepRow(j, row, l),
             job[j].task \in Stages
      PROVE  Live(j, u)'
  <2>1. job'[j].pc = l /\ job'[j].task = job[j].task /\ job'[j].ticket = job[j].ticket
    BY <1>1, <1>3, AfterKeepRow
  <2>2. job'[j] # Free
    BY <2>1, <1>3 DEF Free
  <2> QED BY <1>3, <2>1, <2>2 DEF Live, StillToSettle
<1>4. ASSUME NextAttachment(j), job[j].task = "extract_attachments"
      PROVE  Live(j, u)'
  <2>1. job'[j].pc = "check" /\ job'[j].task = job[j].task /\ job'[j].ticket = job[j].ticket
    BY <1>1, <1>4, AfterNextAttachment
  <2>2. job'[j] # Free
    BY <2>1 DEF Free
  <2> QED BY <1>4, <2>1, <2>2 DEF Live, StillToSettle, Stages
<1>5. CASE RunPipeline(j)
  BY <1>5, <1>2 DEF RunPipeline, Pcs
<1>6. CASE StoreRead(j) \/ StoreSave(j)
  BY <1>6, <1>2 DEF StoreRead, StoreSave, Stages, Pcs
<1>7. CASE ExtractRead(j) \/ CheckAttachment(j)
  BY <1>7, <1>2, <1>4 DEF ExtractRead, CheckAttachment, Stages, Pcs
<1>8. CASE CreateDocument(j)
  BY <1>8, <1>2, <1>4 DEF CreateDocument, Raised, Stages, Pcs
<1>9. CASE ParseRead(j) \/ OcrRead(j) \/ ValidationRead(j)
  BY <1>9, <1>3 DEF ParseRead, OcrRead, ValidationRead, Stages
<1>10. CASE ParseSave(j) \/ OcrSave(j)
  BY <1>10, <1>2 DEF ParseSave, OcrSave, SaveRow, Stages, Pcs
<1>11. CASE ParseNotify(j) \/ OcrNotify(j)
  BY <1>11, <1>2 DEF ParseNotify, OcrNotify, Notify, Stages, Pcs
<1>12. CASE OcrDocuments(j)
  BY <1>12, <1>2, <1>3 DEF OcrDocuments, Stages, Pcs
<1>13. CASE AwaitValidation(j)
  BY <1>13, <1>2 DEF AwaitValidation, Stages, Pcs
<1>14. CASE RunValidation(j)
  BY <1>14, <1>3 DEF RunValidation, Stages
<1> QED
  BY <1>5, <1>6, <1>7, <1>8, <1>9, <1>10, <1>11, <1>12, <1>13, <1>14 DEF Stage

(* What a job publishes for its ticket is live, or parks it. *)
LEMMA PublishedLive ==
  ASSUME TypeOK, NEW j \in Jobs, Publishes(j), NEW k \in Jobs, job'[k] = Published(j),
         NEW u, job[j].ticket = u
  PROVE  /\ Live(j, u) => Live(k, u)'
         /\ Parking(j, u) => Live(k, u)' \/ Parking(k, u)'
<1>1. job'[k].ticket = u /\ job'[k].pc = "queued" /\ job'[k] # Free
  BY DEF Published, Message, Free
<1>2. CASE job[j].pc = "park"
  <2>1. job'[k].task = "record_dead_letter"
    BY <1>2 DEF Published, Message
  <2> QED BY <1>1, <1>2, <2>1 DEF Live, StillToSettle, Parking, At
<1>3. CASE job[j].pc = "retry"
  <2>1. job'[k].task = job[j].task
    BY <1>3 DEF Published, Message
  <2> QED BY <1>1, <1>3, <2>1 DEF Live, Parking, StillToSettle, At
<1>4. CASE job[j].pc = "done" /\ Successor(job[j].task) # "none"
  <2>1. job'[k].task = Successor(job[j].task)
    BY <1>4 DEF Published, Message
  <2>2. Successor(job[j].task) \in Stages
    BY <1>4 DEF Successor, Stages
  <2> QED BY <1>1, <1>4, <2>1, <2>2 DEF Live, StillToSettle
<1> QED BY <1>2, <1>3, <1>4 DEF Publishes

(* A message delivered again is live, or parks its ticket. *)
LEMMA RedeliveredLive ==
  ASSUME TypeOK, NEW j \in Jobs, job[j].pc # "free", job'[j] = Redelivered(j),
         NEW u, job[j].ticket = u
  PROVE  Live(j, u)' \/ Parking(j, u)'
<1>1. /\ job'[j].ticket = u /\ job'[j].pc = "queued" /\ job'[j] # Free
      /\ job'[j].task = job[j].task
  BY DEF Redelivered, Message, Free
<1>2. job[j].task \in Tasks
  BY BusyTyped DEF Job
<1> QED BY <1>1, <1>2 DEF Live, Parking, StillToSettle, At, Tasks

(* A worker's step keeps every ticket accounted for. *)
LEMMA WorkAccounted ==
  ASSUME TypeOK, Decided, NEW j \in Jobs, Work(j), NEW u \in Tickets, Accounted(u)
  PROVE  Accounted(u)'
<1> DEFINE t == job[j].ticket
<1>1. job[j].pc # "free" /\ t \in Tickets
  BY WorkBusy, BusyTyped DEF Job
<1>2. /\ \A k \in Jobs \ {j} : job'[k] = job[k]
      /\ UNCHANGED <<handler, overridden, lost>>
      /\ deadLetter[u] => deadLetter'[u]
      /\ u # t => ticket'[u] = ticket[u]
  BY WorkLocal
<1>3. CASE u # t
  BY <1>2, <1>3, Carry DEF Live, Parking
<1>4. CASE u = t /\ Stage(j) /\ ~SaveOutcome(j) /\ ~NotifyOutcome(j)
  BY <1>4, StageLive, WitnessesNext DEF Accounted
<1>5. CASE u = t /\ SaveOutcome(j)
  <2>1. job[j].snap.status \in Decisions
    BY <1>5 DEF SaveOutcome, SaveRow, Decided, At
  <2>2. ticket'[u] = job[j].snap
    BY <1>1, <1>5 DEF SaveOutcome, SaveRow, TypeOK
  <2> QED BY <1>5, <2>1, <2>2 DEF Accounted
<1>6. CASE u = t /\ (NotifyOutcome(j) \/ Finish(j))
  <2>1. UNCHANGED ticket
    BY <1>6 DEF NotifyOutcome, Notify, Finish
  <2>2. ~Live(j, u)
    BY <1>6 DEF NotifyOutcome, Notify, Finish, Publishes, Successor, Live, StillToSettle, Stages
  <2>3. ~Parking(j, u)
    BY <1>6 DEF NotifyOutcome, Notify, Finish, Publishes, Parking, At
  <2> QED BY <1>2, <1>6, <2>1, <2>2, <2>3, Carry
<1>7. CASE u = t /\ HandOff(j)
  <2>1. job'[j] = Published(j) /\ UNCHANGED ticket
    BY <1>7, AfterPut DEF HandOff
  <2>2. Live(j, u) => Owed(u)'
    BY <1>7, <2>1, PublishedLive, WitnessesNext DEF HandOff
  <2>3. Parking(j, u) => Owed(u)' \/ Parked(u)'
    BY <1>7, <2>1, PublishedLive, WitnessesNext DEF HandOff
  <2> QED BY <1>2, <1>7, <2>1, <2>2, <2>3, Carry
<1>8. CASE u = t /\ MarkFailed(j)
  <2>1. ticket'[u].status = "failed"
    <3>1. ticket' = [ticket EXCEPT ![u] = [ticket[u] EXCEPT !.status = "failed"]]
      BY <1>8 DEF MarkFailed
    <3>2. ticket[u] \in Row
      BY DEF TypeOK
    <3>3. [ticket[u] EXCEPT !.status = "failed"].status = "failed"
      BY <3>2 DEF Row
    <3>4. ticket'[u] = [ticket[u] EXCEPT !.status = "failed"]
      BY <3>1 DEF TypeOK
    <3> QED BY <3>3, <3>4
  <2>2. Parking(j, u)'
    BY <1>1, <1>8, AfterGoto DEF MarkFailed, Parking, Free
  <2> QED BY <1>8, <2>1, <2>2, WitnessesNext DEF Accounted
<1>9. CASE u = t /\ RecordDeadLetter(j)
  <2>1. UNCHANGED ticket /\ deadLetter'[u]
    BY <1>1, <1>9 DEF RecordDeadLetter, TypeOK
  <2>2. ~Live(j, u)
    BY <1>9 DEF RecordDeadLetter, At, Live, StillToSettle, Stages
  <2>3. Parked(u)'
    BY <2>1 DEF Parked
  <2> QED BY <1>2, <1>9, <2>1, <2>2, <2>3, Carry
<1> QED BY <1>3, <1>4, <1>5, <1>6, <1>7, <1>8, <1>9 DEF Work

-----------------------------------------------------------------------------
(* Failures, crashes, lost messages, and the other actors.                  *)

(* What goes wrong with a message keeps every ticket accounted for. *)
LEMMA TroubleAccounted ==
  ASSUME TypeOK, NEW j \in Jobs, Trouble(j), NEW u \in Tickets, Accounted(u)
  PROVE  Accounted(u)'
<1> USE DEF adminVars, rowVars
<1>0. UNCHANGED <<ticket, deadLetter, handler, overridden>> /\ lost \subseteq lost'
  BY DEF Trouble, StageFails, Lose, Crash, CrashAfterHandOff
<1>1. CASE StageFails(j)
  <2>1. job[j].pc # "free"
    BY <1>1 DEF StageFails, InBody, Stages, TypeOK, Job, Pcs, Free
  <2>2. PICK l \in {"retry", "mark_failed"} : Goto(j, l)
    BY <1>1 DEF StageFails, Raised
  <2>3. /\ job'[j].pc = l /\ job'[j].task = job[j].task /\ job'[j].ticket = job[j].ticket
        /\ \A k \in Jobs \ {j} : job'[k] = job[k]
    BY <2>1, <2>2, AfterGoto
  <2>4. job'[j] # Free
    BY <2>2, <2>3 DEF Free
  <2>5. Live(j, u) => Owed(u)'
    BY <1>1, <2>2, <2>3, <2>4, WitnessesNext DEF Live, StillToSettle, StageFails, InBody
  <2>6. ~Parking(j, u)
    BY <1>1 DEF Parking, At, StageFails, InBody, Stages
  <2> QED BY <1>0, <2>3, <2>5, <2>6, Carry
<1>2. CASE Lose(j)
  <2>1. \A k \in Jobs \ {j} : job'[k] = job[k]
    BY <1>2, AfterPut DEF Lose
  <2>2. job[j].ticket \in lost'
    BY <1>2 DEF Lose
  <2>3. Live(j, u) \/ Parking(j, u) => Owed(u)'
    BY <2>2 DEF Live, Parking, Owed, Excused
  <2> QED BY <1>0, <2>1, <2>3, Carry
<1>3. CASE Crash(j)
  <2>1. job'[j] = Redelivered(j) /\ \A k \in Jobs \ {j} : job'[k] = job[k]
    BY <1>3, AfterPut DEF Crash
  <2>2. Live(j, u) => Owed(u)'
    <3>1. ASSUME Live(j, u) PROVE Live(j, u)'
      BY <2>1, <3>1 DEF Redelivered, Message, Live, StillToSettle, Free
    <3> QED BY <3>1, WitnessesNext
  <2>3. Parking(j, u) => Owed(u)' \/ Parked(u)'
    <3>1. ASSUME Parking(j, u) PROVE Live(j, u)' \/ Parking(j, u)'
      BY <1>3, <2>1, <3>1, RedeliveredLive DEF Crash, Parking
    <3> QED BY <3>1, WitnessesNext
  <2> QED BY <1>0, <2>1, <2>2, <2>3, Carry
<1>4. CASE CrashAfterHandOff(j)
  <2>1. PICK i \in Jobs : /\ job[i] = Free
                          /\ job' = [job EXCEPT ![j] = Redelivered(j), ![i] = Published(j)]
    BY <1>4 DEF CrashAfterHandOff
  <2>2. Publishes(j) /\ i # j
    BY <1>4, <2>1 DEF CrashAfterHandOff, Publishes, Free
  <2>3. job'[i] = Published(j) /\ \A k \in Jobs \ {i, j} : job'[k] = job[k]
    BY <2>1, <2>2 DEF TypeOK
(* Slot i was free: for the tickets, the step is a move of slot j to i. *)
  <2>4. ASSUME NEW k \in Jobs, Live(k, u) PROVE Owed(u)'
    <3>1. CASE k = j
      BY <2>2, <2>3, <2>4, <3>1, PublishedLive, WitnessesNext DEF Live
    <3>2. CASE k # j
      <4>1. job'[k] = job[k]
        BY <2>1, <2>3, <2>4, <3>2 DEF Live
      <4> QED BY <2>4, <4>1, WitnessesNext DEF Live, StillToSettle
    <3> QED BY <3>1, <3>2
  <2>5. ASSUME NEW k \in Jobs, Parking(k, u) PROVE Owed(u)' \/ Parked(u)'
    <3>1. CASE k = j
      BY <2>2, <2>3, <2>5, <3>1, PublishedLive, WitnessesNext DEF Parking
    <3>2. CASE k # j
      <4>1. job'[k] = job[k]
        BY <2>1, <2>3, <2>5, <3>2 DEF Parking
      <4> QED BY <2>5, <4>1, WitnessesNext DEF Parking, At
    <3> QED BY <3>1, <3>2
  <2>6. Owed(u) => Owed(u)'
    <3>1. CASE handler[u] # "idle" \/ Excused(u)
      BY <1>0, <3>1 DEF Owed, BeingProcessed, Excused
    <3> QED BY <3>1, <2>4, Witnesses DEF Owed
  <2>7. Parked(u) => Owed(u)' \/ Parked(u)'
    <3>1. CASE deadLetter[u]
      BY <1>0, <3>1 DEF Parked
    <3> QED BY <3>1, <2>5, Witnesses DEF Parked
  <2> QED BY <1>0, <2>6, <2>7 DEF Accounted
<1> QED BY <1>1, <1>2, <1>3, <1>4 DEF Trouble

(* Closing the dead letters of a ticket hands it to the request itself. *)
LEMMA AdminAccounted ==
  ASSUME TypeOK, NEW t \in Tickets, Admin(t), NEW u \in Tickets, Accounted(u)
  PROVE  Accounted(u)'
<1> USE DEF adminVars, rowVars
<1>1. CASE UNCHANGED <<job, handler, deadLetter>> /\ overridden \subseteq overridden'
           /\ lost \subseteq lost' /\ (u = t => u \in overridden')
           /\ \A v \in Tickets \ {t} : ticket'[v] = ticket[v]
  <2>1. CASE u = t
    BY <1>1, <2>1 DEF Accounted, Owed, Excused
  <2>2. CASE u # t
    BY <1>1, <2>2 DEF Accounted, Owed, Excused, Parked, BeingProcessed, StillToSettle,
       DeadLetterInFlight, At
  <2> QED BY <2>1, <2>2
<1>2. CASE \E s \in Statuses : UpdateStatus(t, s)
  BY <1>1, <1>2 DEF UpdateStatus, TypeOK
<1>3. CASE Reprocess(t) \/ CloseDeadLetters(t)
  <2>1. /\ UNCHANGED <<job, overridden, lost>> /\ handler'[t] # "idle"
        /\ \A v \in Tickets \ {t} : /\ ticket'[v] = ticket[v] /\ handler'[v] = handler[v]
                                    /\ deadLetter'[v] = deadLetter[v]
    BY <1>3 DEF Reprocess, CloseDeadLetters, TypeOK
  <2>2. CASE u = t
    BY <2>1, <2>2 DEF Accounted, Owed, BeingProcessed
  <2>3. CASE u # t
    BY <2>1, <2>3 DEF Accounted, Owed, Excused, Parked, BeingProcessed, StillToSettle,
       DeadLetterInFlight, At
  <2> QED BY <2>2, <2>3
<1>4. CASE DispatchAgain(t)
  <2>1. PICK k \in Jobs : /\ job[k] = Free
                          /\ job' = [job EXCEPT ![k] = Message("run_pipeline", t, 0)]
    BY <1>4 DEF DispatchAgain
  <2>2. /\ UNCHANGED <<ticket, deadLetter, overridden, lost>>
        /\ \A v \in Tickets \ {t} : handler'[v] = handler[v]
    BY <1>4 DEF DispatchAgain, TypeOK
  <2>3. CASE u = t
    <3>1. job'[k] = Message("run_pipeline", t, 0)
      BY <2>1, AfterPut
    <3>2. Live(k, u)'
      BY <2>3, <3>1 DEF Live, StillToSettle, Message, Free
    <3> QED BY <3>2, WitnessesNext DEF Accounted
  <2>4. CASE u # t
    <3>1. \A i \in Jobs \ {k} : job'[i] = job[i]
      BY <2>1, AfterPut
    <3>2. ~Live(k, u) /\ ~Parking(k, u)
      BY <2>1 DEF Live, Parking
    <3> QED BY <2>2, <2>4, <3>1, <3>2, Carry
  <2> QED BY <2>3, <2>4
<1>5. CASE LoseRequest(t)
  <2>1. /\ UNCHANGED <<ticket, deadLetter, job, overridden>> /\ lost' = lost \cup {t}
        /\ \A v \in Tickets \ {t} : handler'[v] = handler[v]
    BY <1>5 DEF LoseRequest, TypeOK
  <2>2. CASE u = t
    BY <2>1, <2>2 DEF Accounted, Owed, Excused
  <2>3. CASE u # t
    BY <2>1, <2>3 DEF Accounted, Owed, Excused, Parked, BeingProcessed, StillToSettle,
       DeadLetterInFlight, At
  <2> QED BY <2>2, <2>3
<1> QED BY <1>2, <1>3, <1>4, <1>5 DEF Admin, Serve

(* The SLA monitor writes neither a status nor a message. *)
LEMMA SlaAccounted ==
  ASSUME TypeOK, Sla, NEW u \in Tickets, Accounted(u)
  PROVE  Accounted(u)'
<1> USE DEF adminVars, rowVars
<1>1. UNCHANGED <<job, handler, overridden, lost, deadLetter>>
  BY DEF Sla, CheckSla, StopSla, DeadlinePasses, FlagBreach, NoteBreach
<1>2. ticket'[u].status = ticket[u].status
  <2>1. ASSUME NEW m, NEW t \in Tickets, FlagBreach(m, t)
        PROVE  ticket'[u].status = ticket[u].status
    BY <2>1 DEF FlagBreach, TypeOK, Row
  <2> QED BY <2>1 DEF Sla, CheckSla, StopSla, DeadlinePasses, NoteBreach
<1> QED BY <1>1, <1>2 DEF Accounted, Owed, Excused, Parked, BeingProcessed, StillToSettle,
           DeadLetterInFlight, At

-----------------------------------------------------------------------------
(* Only run_validation, with its decision made, waits to save the row.      *)

(* How a worker's step reaches a save. *)
SaveForms(j) ==
  \/ \E l \in Pcs : Goto(j, l) /\ (l = "save" => job[j].task # "run_validation")
  \/ \E row : \E l : KeepRow(j, row, l)
                     /\ (l # "save" \/ job[j].task # "run_validation"
                         \/ row.status \in Decisions)
  \/ NextAttachment(j)
  \/ \E m \in {Free, Published(j)} : job' = [job EXCEPT ![j] = m]

(* Every step of a worker has one of these forms. *)
LEMMA WorkSaves ==
  ASSUME TypeOK, NEW j \in Jobs, Work(j)
  PROVE  SaveForms(j)
<1> USE DEF SaveForms, Pcs, At
<1>1. CASE RunPipeline(j) \/ ExtractRead(j)
  BY <1>1 DEF RunPipeline, ExtractRead
<1>2. CASE StoreRead(j)
  BY <1>2 DEF StoreRead
<1>3. CASE StoreSave(j) \/ AwaitValidation(j) \/ MarkFailed(j) \/ RecordDeadLetter(j)
  BY <1>3 DEF StoreSave, AwaitValidation, MarkFailed, RecordDeadLetter
<1>4. CASE CheckAttachment(j)
  BY <1>4 DEF CheckAttachment
<1>5. CASE CreateDocument(j)
  BY <1>5 DEF CreateDocument, Raised
<1>6. CASE ParseRead(j) \/ OcrRead(j) \/ ValidationRead(j)
  BY <1>6 DEF ParseRead, OcrRead, ValidationRead
<1>7. CASE ParseSave(j) \/ OcrSave(j) \/ SaveOutcome(j)
  BY <1>7 DEF ParseSave, OcrSave, SaveOutcome, SaveRow
<1>8. CASE ParseNotify(j) \/ OcrNotify(j) \/ NotifyOutcome(j)
  BY <1>8 DEF ParseNotify, OcrNotify, NotifyOutcome, Notify
<1>9. CASE OcrDocuments(j)
  BY <1>9 DEF OcrDocuments
<1>10. CASE RunValidation(j)
  <2> DEFINE t == job[j].ticket
  <2>1. PICK duplicate \in FindDuplicate(t, job[j].snap) :
           KeepRow(j, [job[j].snap EXCEPT
                         !.status = Decision(t, job[j].snap, duplicate),
                         !.duplicate_of = IF duplicate = None THEN @ ELSE duplicate], "save")
    BY <1>10 DEF RunValidation
  <2> DEFINE row == [job[j].snap EXCEPT
                       !.status = Decision(t, job[j].snap, duplicate),
                       !.duplicate_of = IF duplicate = None THEN @ ELSE duplicate]
  <2>2. row.status = Decision(t, job[j].snap, duplicate)
    <3>1. job[j] \in Job
      BY <1>10, BusyTyped DEF RunValidation
    <3>2. job[j].snap \in Row
      BY <3>1 DEF Job
    <3> QED BY <3>2 DEF Row
  <2>3. row.status \in Decisions
    BY <2>2, DecisionTyped
  <2>4. KeepRow(j, row, "save")
    BY <2>1
  <2> HIDE DEF row
  <2> QED BY <2>3, <2>4
<1>11. CASE HandOff(j) \/ Finish(j)
  BY <1>11 DEF HandOff, Finish
<1> QED
  BY <1>1, <1>2, <1>3, <1>4, <1>5, <1>6, <1>7, <1>8, <1>9, <1>10, <1>11 DEF Work, Stage

(* Decided is preserved by a worker's step. *)
LEMMA WorkDecided ==
  ASSUME TypeOK, Decided, NEW j \in Jobs, Work(j)
  PROVE  Decided'
<1> SUFFICES ASSUME NEW k \in Jobs, At(k, "run_validation", "save")'
             PROVE  job'[k].snap.status \in Decisions
  BY DEF Decided
<1>1. job[j].pc # "free" /\ SaveForms(j)
  BY WorkBusy, WorkSaves
<1>2. CASE k # j
  <2>1. job'[k] = job[k]
    BY <1>2, WorkLocal
  <2> QED BY <2>1 DEF Decided, At
<1>3. CASE k = j
  <2>1. job'[j].pc = "save" /\ job'[j].task = "run_validation"
    BY <1>3 DEF At
  <2>2. ASSUME NEW l, Goto(j, l), l = "save" => job[j].task # "run_validation" PROVE FALSE
    BY <1>1, <2>1, <2>2, AfterGoto
  <2>3. ~NextAttachment(j)
    BY <1>1, <2>1, AfterNextAttachment
  <2>4. ASSUME NEW m \in {Free, Published(j)}, job' = [job EXCEPT ![j] = m] PROVE FALSE
    <3>1. m.pc # "save"
      BY PublishedQueued DEF Free
    <3>2. job'[j] = m
      BY <2>4, AfterPut
    <3> QED BY <2>1, <3>1, <3>2
  <2>5. PICK row : \E l : KeepRow(j, row, l)
                          /\ (l # "save" \/ job[j].task # "run_validation"
                              \/ row.status \in Decisions)
    BY <1>1, <2>2, <2>3, <2>4 DEF SaveForms
  <2>6. PICK l : KeepRow(j, row, l)
                 /\ (l # "save" \/ job[j].task # "run_validation" \/ row.status \in Decisions)
    BY <2>5
  <2> QED BY <1>1, <1>3, <2>1, <2>6, AfterKeepRow
<1> QED BY <1>2, <1>3

(* The other steps leave every slot as it is, or put a message in it, or    *)
(* send its job to a retry.                                                 *)
LEMMA OthersDecided ==
  ASSUME TypeOK, Decided,
         Sla \/ UNCHANGED vars \/ (\E j \in Jobs : Trouble(j)) \/ \E t \in Tickets : Admin(t)
  PROVE  Decided'
<1> SUFFICES ASSUME NEW k \in Jobs, job'[k].pc = "save"
             PROVE  job'[k] = job[k]
  BY DEF Decided, At
<1>1. CASE Sla \/ UNCHANGED vars
  BY <1>1 DEF Sla, CheckSla, StopSla, DeadlinePasses, FlagBreach, NoteBreach, vars
<1>2. ASSUME NEW j \in Jobs, StageFails(j) PROVE job'[k] = job[k]
  <2>1. job[j].pc # "free"
    BY <1>2 DEF StageFails, InBody, Stages, TypeOK, Job, Pcs, Free
  <2>2. PICK l \in {"retry", "mark_failed"} : Goto(j, l)
    BY <1>2 DEF StageFails, Raised
  <2> QED BY <2>1, <2>2, AfterGoto
<1>3. ASSUME NEW j \in Jobs, Lose(j) PROVE job'[k] = job[k]
  <2>1. job' = [job EXCEPT ![j] = Free] /\ Free.pc # "save"
    BY <1>3 DEF Lose, Free
  <2> QED BY <2>1, AfterPut
<1>4. ASSUME NEW j \in Jobs, Crash(j) PROVE job'[k] = job[k]
  <2>1. job' = [job EXCEPT ![j] = Redelivered(j)] /\ Redelivered(j).pc # "save"
    BY <1>4, PublishedQueued DEF Crash
  <2> QED BY <2>1, AfterPut
<1>5. ASSUME NEW j \in Jobs, CrashAfterHandOff(j) PROVE job'[k] = job[k]
  <2>1. Redelivered(j).pc # "save" /\ Published(j).pc # "save"
    BY PublishedQueued
  <2>2. PICK i \in Jobs : job' = [job EXCEPT ![j] = Redelivered(j), ![i] = Published(j)]
    BY <1>5 DEF CrashAfterHandOff
  <2> QED BY <2>1, <2>2 DEF TypeOK
<1>6. ASSUME NEW t \in Tickets, DispatchAgain(t) PROVE job'[k] = job[k]
  <2>1. PICK i \in Jobs : job' = [job EXCEPT ![i] = Message("run_pipeline", t, 0)]
    BY <1>6 DEF DispatchAgain
  <2>2. Message("run_pipeline", t, 0).pc = "queued"
    BY DEF Message
  <2> QED BY <2>1, <2>2, AfterPut
<1>7. ASSUME NEW t \in Tickets, Admin(t), ~DispatchAgain(t) PROVE job'[k] = job[k]
  BY <1>7 DEF Admin, Serve, UpdateStatus, Reprocess, CloseDeadLetters, LoseRequest
<1> QED BY <1>1, <1>2, <1>3, <1>4, <1>5, <1>6, <1>7 DEF Trouble

-----------------------------------------------------------------------------
(* The theorems.                                                            *)

SettlingInv == TypeInv /\ Decided /\ \A u \in Tickets : Accounted(u)

(* A new ticket's first message is queued. *)
LEMMA InitSettling == Init => SettlingInv
<1> SUFFICES ASSUME Init PROVE Decided /\ \A u \in Tickets : Accounted(u)
  BY InitTypeInv DEF SettlingInv
<1>1. Decided
  BY DEF Decided, At, Init, Message, Free
<1>2. ASSUME NEW u \in Tickets PROVE Accounted(u)
  <2>1. PICK first \in [Tickets -> Jobs] :
           /\ \A t, v \in Tickets : first[t] = first[v] => t = v
           /\ job = [j \in Jobs |->
                       IF \E t \in Tickets: first[t] = j
                       THEN Message("run_pipeline", CHOOSE t \in Tickets: first[t] = j, 0)
                       ELSE Free]
    BY DEF Init
  <2>2. (CHOOSE t \in Tickets : first[t] = first[u]) = u
    BY <2>1
  <2>3. job[first[u]] = Message("run_pipeline", u, 0) /\ first[u] \in Jobs
    BY <2>1, <2>2
  <2>4. Live(first[u], u)
    BY <2>3 DEF Live, StillToSettle, Message, Free
  <2> QED BY <2>3, <2>4, Witnesses DEF Accounted
<1> QED BY <1>1, <1>2

(* The invariant is inductive. *)
LEMMA StepSettling == SettlingInv /\ [Next]_vars => SettlingInv'
<1> SUFFICES ASSUME SettlingInv, [Next]_vars
             PROVE  Decided' /\ \A u \in Tickets : Accounted(u)'
  BY StepTypeInv DEF SettlingInv
<1> USE DEF SettlingInv, TypeInv
<1>1. ASSUME NEW j \in Jobs, Work(j) PROVE Decided' /\ \A u \in Tickets : Accounted(u)'
  BY <1>1, WorkDecided, WorkAccounted
<1>2. ASSUME NEW j \in Jobs, Trouble(j) PROVE Decided' /\ \A u \in Tickets : Accounted(u)'
  BY <1>2, OthersDecided, TroubleAccounted
<1>3. ASSUME NEW t \in Tickets, Admin(t) PROVE Decided' /\ \A u \in Tickets : Accounted(u)'
  BY <1>3, OthersDecided, AdminAccounted
<1>4. CASE Sla
  BY <1>4, OthersDecided, SlaAccounted
<1>5. CASE UNCHANGED vars
  <2>1. Decided'
    BY <1>5, OthersDecided
  <2>2. ASSUME NEW u \in Tickets PROVE Accounted(u)'
    BY <1>5 DEF vars, Accounted, Owed, Excused, Parked, BeingProcessed, StillToSettle,
       DeadLetterInFlight, At
  <2> QED BY <2>1, <2>2
<1> QED BY <1>1, <1>2, <1>3, <1>4, <1>5 DEF Next

(* No ticket is left unresolved with nobody working on it: whatever fails,  *)
(* is retried, crashes or runs twice, a stage or a reprocess request still  *)
(* settles it, unless a message was dropped for good or an admin chose the  *)
(* status.                                                                  *)
THEOREM NeverAbandoned == Spec => []NoTicketAbandoned
<1>1. SettlingInv => NoTicketAbandoned
  BY DEF SettlingInv, NoTicketAbandoned, Accounted, Owed, Unresolved, Decisions
<1> QED BY <1>1, InitSettling, StepSettling, PTL DEF Spec

(* A failed ticket can be found: its dead letter is open or on its way, or  *)
(* it is being processed again.                                             *)
THEOREM FailuresParked == Spec => []FailedIsParked
<1>1. SettlingInv => FailedIsParked
  BY DEF SettlingInv, FailedIsParked, Accounted, Owed, Parked, Decisions
<1> QED BY <1>1, InitSettling, StepSettling, PTL DEF Spec
=============================================================================
