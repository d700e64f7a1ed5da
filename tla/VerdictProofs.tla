----------------------------- MODULE VerdictProofs -----------------------------
(* What a verdict rests on: StagesSeeEveryAttachment, ContactNeverLost and   *)
(* VerdictsSound of Pipeline, for any tickets, emails, retries and bounds;   *)
(* what a breach flag stands for: BreachesAccounted; and how a status gets   *)
(* where it is: the refinement of TicketLifecycle.                           *)
(*                                                                           *)
(* Five invariants, each on what a slot promises about its ticket: how far   *)
(* extract_attachments has come (Gathered), that a row kept for a later save *)
(* has the contact (Carried), that a row about to be saved or announced      *)
(* holds a verdict the attachments bear out (Judged), that a flag it brings  *)
(* back was due (BreachInv), and which status a job leaves its ticket in     *)
(* when nobody else works on it (Fits).                                      *)
EXTENDS PipelineProofs, SequenceTheorems, FiniteSetTheorems

LateStages == {"parse_user_info", "run_document_extraction", "run_validation"}

-----------------------------------------------------------------------------
(* The shapes of a step, as one slot, one row and the documents see it.     *)

(* A stage keeps its task and its ticket. *)
LEMMA StageKeeps ==
  ASSUME TypeOK, NEW k \in Jobs, Stage(k)
  PROVE  job'[k].task = job[k].task /\ job'[k].ticket = job[k].ticket
<1>1. job[k].pc # "free"
  BY WorkBusy DEF Work
<1>2. (\E l : Goto(k, l)) \/ (\E row, l : KeepRow(k, row, l)) \/ NextAttachment(k)
  BY DEF Stage, RunPipeline, StoreRead, StoreSave, ExtractRead, CheckAttachment,
     CreateDocument, Raised, ParseRead, ParseSave, ParseNotify, OcrRead, OcrDocuments, OcrSave,
     OcrNotify, ValidationRead, AwaitValidation, RunValidation, SaveOutcome, NotifyOutcome,
     SaveRow, Notify
<1> QED BY <1>1, <1>2, AfterGoto, AfterKeepRow, AfterNextAttachment

(* What a slot that no stage moved holds: a message, or a job on its way    *)
(* out of its body.                                                         *)
Moved(k) ==
  \/ job'[k] = job[k]
  \/ job'[k] = Free
  \/ \E j \in Jobs : Publishes(j) /\ job'[k] = Published(j)
  \/ \E j \in Jobs : job[j].pc # "free" /\ job'[k] = Redelivered(j)
  \/ \E t \in Tickets : job'[k] = Message("run_pipeline", t, 0)
  \/ /\ job'[k].task = job[k].task /\ job'[k].ticket = job[k].ticket
     /\ job'[k].snap = job[k].snap
     /\ \/ job'[k].pc \in {"retry", "mark_failed", "park"}
        \/ job[k].task = "record_dead_letter"

(* Every step, seen from one slot. *)
LEMMA SlotSteps ==
  ASSUME TypeOK, [Next]_vars, NEW k \in Jobs
  PROVE  Stage(k) \/ Moved(k)
<1>1. ASSUME NEW j \in Jobs, Work(j) PROVE Stage(k) \/ Moved(k)
  <2>1. CASE k # j
    BY <1>1, <2>1, WorkLocal DEF Moved
  <2>2. CASE k = j /\ (HandOff(j) \/ Finish(j))
    <3>1. HandOff(j) => job'[j] = Published(j)
      BY AfterPut DEF HandOff
    <3>2. Finish(j) => job'[j] = Free
      BY AfterPut DEF Finish
    <3> QED BY <2>2, <3>1, <3>2 DEF Moved, HandOff
  <2>3. CASE k = j /\ (MarkFailed(j) \/ RecordDeadLetter(j))
    BY <1>1, <2>3, WorkBusy, AfterGoto DEF MarkFailed, RecordDeadLetter, At, Moved
  <2> QED BY <1>1, <2>1, <2>2, <2>3 DEF Work
<1>2. ASSUME NEW j \in Jobs, Trouble(j) PROVE Moved(k)
  <2>1. CASE StageFails(j)
    <3>1. job[j].pc # "free"
      BY <2>1 DEF StageFails, InBody, Stages, TypeOK, Job, Pcs, Free
    <3>2. PICK l \in {"retry", "mark_failed"} : Goto(j, l)
      BY <2>1 DEF StageFails, Raised
    <3> QED BY <3>1, <3>2, AfterGoto DEF Moved
  <2>2. CASE Lose(j)
    BY <2>2, AfterPut DEF Lose, Moved
  <2>3. CASE Crash(j)
    BY <2>3, AfterPut DEF Crash, Moved
  <2>4. CASE CrashAfterHandOff(j)
    <3>1. PICK i \in Jobs : job' = [job EXCEPT ![j] = Redelivered(j), ![i] = Published(j)]
      BY <2>4 DEF CrashAfterHandOff
    <3>2. Publishes(j) /\ job[j].pc # "free"
      BY <2>4 DEF CrashAfterHandOff, Publishes
    <3> QED BY <3>1, <3>2 DEF TypeOK, Moved
  <2> QED BY <1>2, <2>1, <2>2, <2>3, <2>4 DEF Trouble
<1>3. ASSUME NEW t \in Tickets, Admin(t) PROVE Moved(k)
  <2>1. CASE DispatchAgain(t)
    BY <2>1, AfterPut DEF DispatchAgain, Moved
  <2>2. CASE ~DispatchAgain(t)
    BY <1>3, <2>2 DEF Admin, Serve, UpdateStatus, Reprocess, CloseDeadLetters, LoseRequest, Moved
  <2> QED BY <2>1, <2>2
<1>4. CASE Sla \/ UNCHANGED vars
  BY <1>4 DEF Sla, CheckSla, StopSla, DeadlinePasses, FlagBreach, NoteBreach, vars, Moved
<1> QED BY <1>1, <1>2, <1>3, <1>4 DEF Next

(* The documents table gains a row in one statement of one stage only. *)
LEMMA DocsSteps ==
  ASSUME [Next]_vars
  PROVE  UNCHANGED docs \/ \E j \in Jobs : CreateDocument(j)
<1> USE DEF rowVars
<1>1. ASSUME NEW j \in Jobs, Work(j) PROVE UNCHANGED docs \/ CreateDocument(j)
  BY <1>1 DEF Work, Stage, RunPipeline, StoreRead, StoreSave, ExtractRead, CheckAttachment,
     ParseRead, ParseSave, ParseNotify, OcrRead, OcrDocuments, OcrSave,
     OcrNotify, ValidationRead, AwaitValidation, RunValidation, SaveOutcome, NotifyOutcome,
     SaveRow, Notify, HandOff, Finish, MarkFailed, RecordDeadLetter
<1>2. ASSUME NEW j \in Jobs, Trouble(j) PROVE UNCHANGED docs
  BY <1>2 DEF Trouble, StageFails, Lose, Crash, CrashAfterHandOff
<1>3. ASSUME NEW t \in Tickets, Admin(t) PROVE UNCHANGED docs
  BY <1>3 DEF Admin, Serve, UpdateStatus, Reprocess, CloseDeadLetters, DispatchAgain, LoseRequest
<1>4. CASE Sla \/ UNCHANGED vars
  BY <1>4 DEF Sla, CheckSla, StopSla, DeadlinePasses, FlagBreach, NoteBreach, vars
<1> QED BY <1>1, <1>2, <1>3, <1>4 DEF Next

(* No step deletes a document. *)
LEMMA DocsGrow ==
  ASSUME TypeOK, [Next]_vars, NEW t \in Tickets
  PROVE  docs[t] \subseteq docs'[t]
  BY DocsSteps DEF CreateDocument, TypeOK

(* The steps that write a ticket row: a status that is no verdict, an       *)
(* override, the breach flag, or the full row a late stage has kept.        *)
LEMMA RowSteps ==
  ASSUME [Next]_vars
  PROVE  \/ UNCHANGED ticket
         \/ \E t, s : s \notin Terminal /\ ticket' = [ticket EXCEPT ![t].status = s]
         \/ \E t \in Tickets, s \in Statuses : UpdateStatus(t, s)
         \/ \E m \in Monitors, t \in Tickets : FlagBreach(m, t)
         \/ \E j \in Jobs : SaveRow(j) /\ job[j].task \in LateStages
<1> USE DEF Terminal, LateStages
<1>1. ASSUME NEW j \in Jobs, Work(j)
      PROVE  \/ UNCHANGED ticket
             \/ \E t, s : s \notin Terminal /\ ticket' = [ticket EXCEPT ![t].status = s]
             \/ SaveRow(j) /\ job[j].task \in LateStages
  <2>1. CASE StoreSave(j) \/ AwaitValidation(j) \/ MarkFailed(j)
    BY <2>1 DEF StoreSave, AwaitValidation, MarkFailed
  <2>2. CASE ParseSave(j) \/ OcrSave(j) \/ SaveOutcome(j)
    BY <2>2 DEF ParseSave, OcrSave, SaveOutcome
  <2> QED BY <1>1, <2>1, <2>2 DEF Work, Stage, RunPipeline, StoreRead, ExtractRead,
     CheckAttachment, CreateDocument, ParseRead, ParseNotify, OcrRead, OcrDocuments,
     OcrNotify, ValidationRead, RunValidation, NotifyOutcome,
     Notify, HandOff, Finish, RecordDeadLetter
<1>2. ASSUME NEW j \in Jobs, Trouble(j) PROVE UNCHANGED ticket
  BY <1>2 DEF Trouble, StageFails, Lose, Crash, CrashAfterHandOff
<1>3. ASSUME NEW t \in Tickets, Admin(t), ~\E s \in Statuses : UpdateStatus(t, s)
      PROVE  UNCHANGED ticket \/ ticket' = [ticket EXCEPT ![t].status = "processing"]
  BY <1>3 DEF Admin, Serve, Reprocess, CloseDeadLetters, DispatchAgain, LoseRequest
<1>4. CASE Sla \/ UNCHANGED vars
  BY <1>4 DEF Sla, CheckSla, StopSla, DeadlinePasses, NoteBreach, vars
<1> QED BY <1>1, <1>2, <1>3, <1>4 DEF Next

(* At first a slot is free or holds the first message of a new ticket. *)
LEMMA InitTasks ==
  ASSUME Init, NEW k \in Jobs
  PROVE  job[k].task = "none" \/ job[k].task = "run_pipeline"
<1>1. PICK first \in [Tickets -> Jobs] :
         job = [j \in Jobs |->
                  IF \E t \in Tickets: first[t] = j
                  THEN Message("run_pipeline", CHOOSE t \in Tickets: first[t] = j, 0)
                  ELSE Free]
  BY DEF Init
<1>2. Free.task = "none"
  BY DEF Free
<1>3. \A t : Message("run_pipeline", t, 0).task = "run_pipeline"
  BY DEF Message
<1> QED BY <1>1, <1>2, <1>3

(* The row that RunValidation keeps: a decision, on the documents that the  *)
(* table holds at that moment.                                              *)
LEMMA KeptVerdict ==
  ASSUME NEW k \in Jobs, RunValidation(k), job[k].snap \in Row
  PROVE  \E s, u : /\ KeepRow(k, [job[k].snap EXCEPT !.status = s, !.duplicate_of = u], "save")
                   /\ s = "rejected" => docs[job[k].ticket] = {}
                   /\ s = "approved" => /\ docs[job[k].ticket] # {}
                                        /\ docs[job[k].ticket] \subseteq FormatValid
<1> DEFINE t == job[k].ticket
           row == job[k].snap
<1>1. PICK duplicate :
         KeepRow(k, [row EXCEPT !.status = Decision(t, row, duplicate),
                                !.duplicate_of = IF duplicate = None THEN @ ELSE duplicate],
                 "save")
  BY DEF RunValidation
<1> DEFINE s == Decision(t, row, duplicate)
           u == IF duplicate = None THEN row.duplicate_of ELSE duplicate
<1>2. KeepRow(k, [row EXCEPT !.status = s, !.duplicate_of = u], "save")
  BY <1>1
<1>3. /\ s = "rejected" => docs[t] = {}
      /\ s = "approved" => docs[t] # {} /\ docs[t] \subseteq FormatValid
  BY DEF Decision
<1> HIDE DEF s, u
<1> QED BY <1>2, <1>3

-----------------------------------------------------------------------------
(* Every attachment is in the documents table before stage 3 begins.        *)

Seen(t, n, rows) == \A i \in DOMAIN Attached[t] : i < n => Attached[t][i] \in rows

Complete(t, rows) == \A i \in DOMAIN Attached[t] : Attached[t][i] \in rows

(* How far extract_attachments is bound to have come.  A message starts the *)
(* loop at the first attachment, whatever an earlier execution did.         *)
Gathered(k) ==
  LET t == job[k].ticket
  IN  /\ job[k].task \in LateStages \/ At(k, "extract_attachments", "done") => Complete(t, docs[t])
      /\ job[k].task = "extract_attachments" =>
            /\ job[k].pc = "queued" => job[k].at = 1
            /\ job[k].pc \in {"check", "create"} => Seen(t, job[k].at, docs[t])

GatheredInv == TypeInv /\ \A k \in Jobs : Gathered(k)

(* What is seen stays seen. *)
LEMMA SeenStays ==
  ASSUME TypeOK, [Next]_vars, NEW t \in Tickets, NEW n
  PROVE  /\ Seen(t, n, docs[t]) => Seen(t, n, docs'[t])
         /\ Complete(t, docs[t]) => Complete(t, docs'[t])
  BY DocsGrow DEF Seen, Complete

(* A stage keeps its promise: the loop ends only past the last attachment.  *)
LEMMA StageGathers ==
  ASSUME GatheredInv, [Next]_vars, NEW k \in Jobs, Stage(k)
  PROVE  Gathered(k)'
<1> DEFINE t == job[k].ticket
<1> USE DEF GatheredInv, TypeInv
<1>1. /\ job[k].pc # "free" /\ t \in Tickets /\ job[k].at \in Nat \ {0}
      /\ job'[k].task = job[k].task /\ job'[k].ticket = t
  BY StageKeeps, WorkBusy, BusyTyped DEF Work, Job
<1>2. CASE job[k].task # "extract_attachments"
  <2>1. job[k].task \in LateStages => Complete(t, docs'[t])
    BY <1>1, SeenStays DEF Gathered
  <2> QED BY <1>1, <1>2, <2>1 DEF Gathered, Complete, At
<1>3. CASE job[k].task = "extract_attachments"
  <2>0. Attached[t] \in Seq(Digests)
    BY <1>1, EmailAssumption
  <2>1. ExtractRead(k) \/ CheckAttachment(k) \/ CreateDocument(k)
    BY <1>3 DEF Stage, RunPipeline, StoreRead, StoreSave, ParseRead, ParseSave, ParseNotify,
       OcrRead, OcrDocuments, OcrSave, OcrNotify, ValidationRead, AwaitValidation,
       RunValidation, SaveOutcome, NotifyOutcome, At
(* The loop's state after the step decides. *)
  <2>2. ASSUME job'[k].pc \in {"check", "create"}, Seen(t, job'[k].at, docs'[t]) PROVE Gathered(k)'
    BY <1>1, <1>3, <2>2 DEF Gathered, Seen, At, LateStages
  <2>3. ASSUME Seen(t, job[k].at, docs[t]), job[k].at <= Len(Attached[t]), NextAttachment(k),
               Attachment(k) \in docs'[t]
        PROVE  Gathered(k)'
    <3>1. job'[k].pc = "check" /\ job'[k].at = job[k].at + 1
      BY <1>1, <2>3, AfterNextAttachment
    <3>2. Seen(t, job[k].at, docs'[t])
      BY <1>1, <2>3, SeenStays
    <3>3. ASSUME NEW i \in DOMAIN Attached[t], i < job[k].at + 1
          PROVE  Attached[t][i] \in docs'[t]
      <4>1. i < job[k].at \/ i = job[k].at
        BY <2>0, <1>1, <3>3
      <4> QED BY <4>1, <3>2, <2>3 DEF Seen, Attachment
    <3> QED BY <2>2, <3>1, <3>3 DEF Seen
  <2>4. CASE ExtractRead(k)
    <3>1. job'[k].pc = "check" /\ job'[k].at = 1
      BY <1>1, <1>3, <2>4, AfterGoto DEF ExtractRead, At, Gathered
    <3>2. Seen(t, job'[k].at, docs'[t])
      BY <2>0, <3>1 DEF Seen
    <3> QED BY <2>2, <3>1, <3>2
  <2>5. CASE CheckAttachment(k)
    <3>1. Seen(t, job[k].at, docs[t]) /\ UNCHANGED docs
      BY <1>3, <2>5 DEF CheckAttachment, At, Gathered, rowVars
    <3>2. CASE MoreAttachments(k) /\ Attachment(k) \in docs[t]
      BY <2>3, <2>5, <3>1, <3>2 DEF CheckAttachment, MoreAttachments
    <3>3. CASE MoreAttachments(k) /\ Attachment(k) \notin docs[t]
      <4>1. job'[k].pc = "create" /\ job'[k].at = job[k].at
        BY <1>1, <2>5, <3>3, AfterGoto DEF CheckAttachment
      <4> QED BY <1>1, <2>2, <3>1, <4>1, SeenStays DEF Seen
    <3>4. CASE ~MoreAttachments(k)
      <4>1. job'[k].pc = "done"
        BY <1>1, <2>5, <3>4, AfterGoto DEF CheckAttachment
      <4>2. Complete(t, docs[t])
        BY <2>0, <1>1, <3>1, <3>4 DEF Complete, Seen, MoreAttachments
      <4> QED BY <1>1, <1>3, <3>1, <4>1, <4>2 DEF Gathered, Complete, At, LateStages
    <3> QED BY <3>2, <3>3, <3>4
  <2>6. CASE CreateDocument(k)
    <3>1. Seen(t, job[k].at, docs[t]) /\ job[k].at <= Len(Attached[t])
      BY <1>3, <2>6 DEF CreateDocument, At, Gathered, CreateInRange, MoreAttachments
    <3>2. CASE Attachment(k) \in docs[t]
      <4>1. job'[k].pc \in {"retry", "mark_failed"}
        BY <1>1, <2>6, <3>2, AfterGoto DEF CreateDocument, Raised
      <4> QED BY <1>1, <1>3, <4>1 DEF Gathered, At, LateStages
    <3>3. CASE Attachment(k) \notin docs[t]
      <4>1. NextAttachment(k) /\ Attachment(k) \in docs'[t]
        BY <1>1, <2>6, <3>3 DEF CreateDocument, TypeOK
      <4> QED BY <2>3, <3>1, <4>1
    <3> QED BY <3>2, <3>3
  <2> QED BY <2>1, <2>4, <2>5, <2>6
<1> QED BY <1>2, <1>3

(* A message promises no more than the job that published it has done. *)
LEMMA MoveGathers ==
  ASSUME GatheredInv, [Next]_vars, NEW k \in Jobs, Moved(k)
  PROVE  Gathered(k)'
<1> USE DEF GatheredInv, TypeInv
(* It is enough that what the slot needs held of some ticket before.        *)
<1>1. ASSUME NEW t \in Tickets, job'[k].ticket = t,
             job'[k].task \in LateStages => Complete(t, docs[t]),
             job'[k].pc # "done", job'[k].pc \in {"check", "create"} => FALSE,
             job'[k].pc = "queued" => job'[k].at = 1
      PROVE  Gathered(k)'
  BY <1>1, SeenStays DEF Gathered, Complete, Seen, At
<1>2. CASE job'[k] = job[k]
  <2>1. CASE job[k] = Free
    BY <1>2, <2>1 DEF Gathered, Free, At, LateStages
  <2>2. CASE job[k] # Free
    <3>1. job[k].ticket \in Tickets
      BY <2>2 DEF TypeOK, Job
    <3> QED BY <1>2, <3>1, SeenStays DEF Gathered, Complete, Seen, At
  <2> QED BY <2>1, <2>2
<1>3. CASE job'[k] = Free
  BY <1>3 DEF Gathered, Free, At, LateStages
<1>4. ASSUME NEW j \in Jobs, Publishes(j), job'[k] = Published(j) PROVE Gathered(k)'
  <2>1. /\ job[j].pc # "free" /\ job[j].ticket \in Tickets
        /\ job'[k].ticket = job[j].ticket /\ job'[k].pc = "queued" /\ job'[k].at = 1
    BY <1>4, BusyTyped DEF Publishes, Published, Message, Job
  <2>2. job'[k].task \in LateStages => Complete(job[j].ticket, docs[job[j].ticket])
    <3>1. CASE job[j].pc = "retry"
      BY <1>4, <3>1 DEF Published, Message, Gathered
    <3>2. CASE job[j].pc = "park"
      BY <1>4, <3>2 DEF Published, Message, LateStages
    <3>3. CASE job[j].pc = "done"
      BY <1>4, <3>3 DEF Published, Message, LateStages, Successor, Gathered, At
    <3> QED BY <1>4, <3>1, <3>2, <3>3 DEF Publishes
  <2> QED BY <1>1, <2>1, <2>2
<1>5. ASSUME NEW j \in Jobs, job[j].pc # "free", job'[k] = Redelivered(j) PROVE Gathered(k)'
  <2>1. /\ job[j].ticket \in Tickets /\ job'[k].task = job[j].task
        /\ job'[k].ticket = job[j].ticket /\ job'[k].pc = "queued" /\ job'[k].at = 1
    BY <1>5, BusyTyped DEF Redelivered, Message, Job
  <2> QED BY <1>1, <2>1 DEF Gathered
<1>6. ASSUME NEW t \in Tickets, job'[k] = Message("run_pipeline", t, 0) PROVE Gathered(k)'
  BY <1>1, <1>6 DEF Message, LateStages
<1>7. CASE /\ job'[k].task = job[k].task /\ job'[k].ticket = job[k].ticket
           /\ \/ job'[k].pc \in {"retry", "mark_failed", "park"}
              \/ job[k].task = "record_dead_letter"
  <2>1. job[k].task \in LateStages => job[k].ticket \in Tickets
    BY DEF TypeOK, Job, Free, LateStages
  <2> QED BY <1>7, <2>1, SeenStays DEF Gathered, Complete, At, LateStages
<1> QED BY <1>2, <1>3, <1>4, <1>5, <1>6, <1>7 DEF Moved

(* The loop's progress is inductive. *)
LEMMA GatheredInductive ==
  /\ Init => GatheredInv
  /\ GatheredInv /\ [Next]_vars => GatheredInv'
<1>1. ASSUME Init, NEW k \in Jobs PROVE Gathered(k)
  BY <1>1, InitTasks DEF Gathered, At, LateStages
<1>2. GatheredInv /\ [Next]_vars => GatheredInv'
  BY StepTypeInv, SlotSteps, StageGathers, MoveGathers DEF GatheredInv, TypeInv
<1> QED BY <1>1, <1>2, InitTypeInv DEF GatheredInv

(* From stage 3 on every attachment of the email has its Document row,      *)
(* whatever retries, crashes and runs racing on the same ticket did to      *)
(* extract_attachments.                                                     *)
THEOREM AttachmentsGathered == Spec => []StagesSeeEveryAttachment
<1>1. GatheredInv => StagesSeeEveryAttachment
  BY DEF GatheredInv, Gathered, Complete, LateStages, StagesSeeEveryAttachment
<1> QED BY <1>1, GatheredInductive, PTL DEF Spec

-----------------------------------------------------------------------------
(* The applicant's contact survives the full-row saves.                     *)

(* From parse_user_info's save on the row has the contact, and so has every *)
(* copy of it that a later stage keeps.                                     *)
Carried(k) ==
  LET t == job[k].ticket
  IN  /\ \/ job[k].task \in {"run_document_extraction", "run_validation"}
         \/ job[k].task = "parse_user_info" /\ job[k].pc \in {"notify", "done"}
         => ticket[t].parsed = TRUE
      /\ job[k].task \in LateStages /\ job[k].pc \in {"ocr", "await", "decide", "save"}
         => job[k].snap.parsed = TRUE

CarriedInv == TypeInv /\ \A k \in Jobs : Carried(k)

(* A row whose status or flag changes keeps its contact. *)
LEMMA ColumnsKept ==
  ASSUME NEW row \in Row, NEW s
  PROVE  /\ [row EXCEPT !.status = s].parsed = row.parsed
         /\ [row EXCEPT !.sla_breached = TRUE].parsed = row.parsed
         /\ [row EXCEPT !.sla_breached = TRUE].status = row.status
         /\ [row EXCEPT !.status = s].status = s
         /\ [row EXCEPT !.parsed = TRUE, !.status = s].parsed = TRUE
         /\ [row EXCEPT !.parsed = TRUE, !.status = s].status = s
         /\ \A d : /\ [row EXCEPT !.document = d].parsed = row.parsed
                   /\ [row EXCEPT !.document = d].status = row.status
         /\ \A u : /\ [row EXCEPT !.status = s, !.duplicate_of = u].parsed = row.parsed
                   /\ [row EXCEPT !.status = s, !.duplicate_of = u].status = s
  BY DEF Row

(* No step takes the contact off a row. *)
LEMMA ContactStays ==
  ASSUME CarriedInv, [Next]_vars, NEW t \in Tickets, ticket[t].parsed = TRUE
  PROVE  ticket'[t].parsed = TRUE
<1> USE DEF CarriedInv, TypeInv
<1>0. ticket \in [Tickets -> Row]
  BY DEF TypeOK
<1>1. ASSUME NEW u, NEW s, ticket' = [ticket EXCEPT ![u].status = s]
      PROVE  ticket'[t].parsed = TRUE
  BY <1>0, <1>1, ColumnsKept
<1>2. ASSUME NEW m, NEW u \in Tickets, FlagBreach(m, u) PROVE ticket'[t].parsed = TRUE
  BY <1>0, <1>2, ColumnsKept DEF FlagBreach
<1>3. ASSUME NEW j \in Jobs, SaveRow(j), job[j].task \in LateStages
      PROVE  ticket'[t].parsed = TRUE
  <2>1. job[j].snap.parsed = TRUE
    BY <1>3 DEF SaveRow, Carried
  <2> QED BY <1>0, <1>3, <2>1 DEF SaveRow
<1> QED BY <1>1, <1>2, <1>3, RowSteps DEF UpdateStatus

(* A stage keeps a row only once it has, or has read, the contact. *)
LEMMA StageCarries ==
  ASSUME CarriedInv, [Next]_vars, NEW k \in Jobs, Stage(k)
  PROVE  Carried(k)'
<1> DEFINE t == job[k].ticket
<1> USE DEF CarriedInv, TypeInv
<1>1. /\ job[k].pc # "free" /\ t \in Tickets /\ job[k].snap \in Row /\ ticket[t] \in Row
      /\ job'[k].task = job[k].task /\ job'[k].ticket = t
  BY StageKeeps, WorkBusy, BusyTyped DEF Work, Job, TypeOK
<1>2. job[k].task \in {"run_document_extraction", "run_validation"} => ticket'[t].parsed = TRUE
  BY <1>1, ContactStays DEF Carried
(* Left to show: parse_user_info has saved, and the row kept is complete.   *)
<1>3. ASSUME job[k].task = "parse_user_info" /\ job'[k].pc \in {"notify", "done"}
                => ticket'[t].parsed = TRUE,
             job[k].task \in LateStages /\ job'[k].pc \in {"ocr", "await", "decide", "save"}
                => job'[k].snap.parsed = TRUE
      PROVE  Carried(k)'
  BY <1>1, <1>2, <1>3 DEF Carried
<1>4. CASE RunPipeline(k) \/ StoreRead(k) \/ StoreSave(k) \/ ExtractRead(k)
           \/ CheckAttachment(k) \/ CreateDocument(k)
  <2>1. job[k].task \notin LateStages
    BY <1>4 DEF RunPipeline, StoreRead, StoreSave, ExtractRead, CheckAttachment,
       CreateDocument, At, LateStages
  <2> QED BY <1>3, <2>1 DEF LateStages
<1>5. CASE ParseRead(k)
  <2>1. job'[k].pc = "save" /\ job'[k].snap.parsed = TRUE
    <3> DEFINE row == [ticket[t] EXCEPT !.parsed = TRUE, !.status = "processing"]
    <3>1. KeepRow(k, row, "save")
      BY <1>5 DEF ParseRead
    <3>2. row.parsed = TRUE
      BY <1>1, ColumnsKept
    <3> HIDE DEF row
    <3> QED BY <1>1, <3>1, <3>2, AfterKeepRow
  <2> QED BY <1>3, <2>1
<1>6. CASE ParseSave(k)
  <2>1. job'[k].pc = "notify" /\ job[k].snap.parsed = TRUE
    BY <1>1, <1>6, AfterGoto DEF ParseSave, SaveRow, Carried, LateStages
  <2>2. ticket'[t] = job[k].snap
    BY <1>1, <1>6 DEF ParseSave, SaveRow, TypeOK
  <2> QED BY <1>3, <2>1, <2>2
<1>7. CASE ParseNotify(k)
  <2>1. job'[k].pc = "done" /\ ticket[t].parsed = TRUE
    BY <1>1, <1>7, AfterGoto DEF ParseNotify, Notify, Carried
  <2> QED BY <1>1, <1>3, <2>1, ContactStays
<1>8. CASE OcrRead(k)
  <2>1. job'[k].snap = ticket[t] /\ ticket[t].parsed = TRUE
    BY <1>1, <1>8, AfterKeepRow DEF OcrRead, At, Carried
  <2> QED BY <1>3, <1>8, <2>1 DEF OcrRead, At
<1>9. CASE OcrDocuments(k)
  <2>1. job[k].snap.parsed = TRUE /\ job[k].task = "run_document_extraction"
    BY <1>9 DEF OcrDocuments, At, Carried, LateStages
  <2>2. CASE Goto(k, "notify")
    BY <1>1, <1>3, <2>1, <2>2, AfterGoto
  <2>3. ASSUME NEW d \in docs[t], KeepRow(k, [job[k].snap EXCEPT !.document = d], "save")
        PROVE  Carried(k)'
    <3> DEFINE row == [job[k].snap EXCEPT !.document = d]
    <3>1. job'[k].snap.parsed = TRUE
      <4>1. KeepRow(k, row, "save") /\ row.parsed = TRUE
        BY <1>1, <2>1, <2>3, ColumnsKept
      <4> HIDE DEF row
      <4> QED BY <1>1, <4>1, AfterKeepRow
    <3> QED BY <1>3, <2>1, <3>1
  <2> QED BY <1>9, <2>2, <2>3 DEF OcrDocuments
<1>10. CASE OcrSave(k) \/ OcrNotify(k) \/ SaveOutcome(k) \/ NotifyOutcome(k)
  <2>1. job'[k].pc \in {"notify", "done"} /\ job[k].task # "parse_user_info"
    BY <1>1, <1>10, AfterGoto DEF OcrSave, OcrNotify, SaveOutcome, NotifyOutcome, SaveRow, Notify
  <2> QED BY <1>3, <2>1
<1>11. CASE ValidationRead(k)
  <2>1. job'[k].snap.parsed = TRUE /\ job[k].task = "run_validation"
    <3> DEFINE row == [ticket[t] EXCEPT !.status = "awaiting_validation"]
    <3>1. KeepRow(k, row, "await") /\ At(k, "run_validation", "queued")
      BY <1>11 DEF ValidationRead
    <3>2. row.parsed = TRUE
      BY <1>1, <3>1, ColumnsKept DEF Carried, At
    <3> HIDE DEF row
    <3> QED BY <1>1, <3>1, <3>2, AfterKeepRow DEF At
  <2> QED BY <1>3, <2>1
<1>12. CASE AwaitValidation(k)
  <2>1. job'[k].snap.parsed = TRUE /\ job[k].task = "run_validation"
    BY <1>1, <1>12, AfterGoto DEF AwaitValidation, At, Carried, LateStages
  <2> QED BY <1>3, <2>1
<1>13. CASE RunValidation(k)
  <2>1. job[k].snap.parsed = TRUE /\ job[k].task = "run_validation"
    BY <1>13 DEF RunValidation, At, Carried, LateStages
  <2>2. PICK s, u : KeepRow(k, [job[k].snap EXCEPT !.status = s, !.duplicate_of = u], "save")
    BY <1>1, <1>13, KeptVerdict
  <2>3. job'[k].snap.parsed = TRUE
    <3> DEFINE row == [job[k].snap EXCEPT !.status = s, !.duplicate_of = u]
    <3>1. KeepRow(k, row, "save") /\ row.parsed = TRUE
      BY <1>1, <2>1, <2>2, ColumnsKept
    <3> HIDE DEF row
    <3> QED BY <1>1, <3>1, AfterKeepRow
  <2> QED BY <1>3, <2>1, <2>3
<1> QED
  BY <1>4, <1>5, <1>6, <1>7, <1>8, <1>9, <1>10, <1>11, <1>12, <1>13 DEF Stage

(* The next message is for a row that has what its stage needs. *)
LEMMA MoveCarries ==
  ASSUME CarriedInv, [Next]_vars, NEW k \in Jobs, Moved(k)
  PROVE  Carried(k)'
<1> USE DEF CarriedInv, TypeInv
(* It is enough that the row of some ticket had the contact before.         *)
<1>1. ASSUME NEW t \in Tickets, job'[k].ticket = t,
             job'[k].task \in {"run_document_extraction", "run_validation"}
                => ticket[t].parsed = TRUE,
             job'[k].pc \in {"queued", "retry", "mark_failed", "park"}
      PROVE  Carried(k)'
  BY <1>1, ContactStays DEF Carried
<1>2. CASE job'[k] = job[k]
  <2>1. CASE job[k] = Free
    BY <1>2, <2>1 DEF Carried, Free, LateStages
  <2>2. CASE job[k] # Free
    <3>1. job[k].ticket \in Tickets
      BY <2>2 DEF TypeOK, Job
    <3> QED BY <1>2, <3>1, ContactStays DEF Carried
  <2> QED BY <2>1, <2>2
<1>3. CASE job'[k] = Free
  BY <1>3 DEF Carried, Free, LateStages
<1>4. ASSUME NEW j \in Jobs, Publishes(j), job'[k] = Published(j) PROVE Carried(k)'
  <2>1. /\ job[j].ticket \in Tickets
        /\ job'[k].ticket = job[j].ticket /\ job'[k].pc = "queued"
    BY <1>4, BusyTyped DEF Publishes, Published, Message, Job
  <2>2. job'[k].task \in {"run_document_extraction", "run_validation"}
           => ticket[job[j].ticket].parsed = TRUE
    <3>1. CASE job[j].pc = "retry"
      BY <1>4, <3>1 DEF Published, Message, Carried
    <3>2. CASE job[j].pc = "park"
      BY <1>4, <3>2 DEF Published, Message
    <3>3. CASE job[j].pc = "done"
      BY <1>4, <3>3 DEF Published, Message, Successor, Carried
    <3> QED BY <1>4, <3>1, <3>2, <3>3 DEF Publishes
  <2> QED BY <1>1, <2>1, <2>2
<1>5. ASSUME NEW j \in Jobs, job[j].pc # "free", job'[k] = Redelivered(j) PROVE Carried(k)'
  <2>1. /\ job[j].ticket \in Tickets /\ job'[k].task = job[j].task
        /\ job'[k].ticket = job[j].ticket /\ job'[k].pc = "queued"
    BY <1>5, BusyTyped DEF Redelivered, Message, Job
  <2> QED BY <1>1, <2>1 DEF Carried
<1>6. ASSUME NEW t \in Tickets, job'[k] = Message("run_pipeline", t, 0) PROVE Carried(k)'
  BY <1>1, <1>6 DEF Message
<1>7. CASE /\ job'[k].task = job[k].task /\ job'[k].ticket = job[k].ticket
           /\ \/ job'[k].pc \in {"retry", "mark_failed", "park"}
              \/ job[k].task = "record_dead_letter"
  <2>1. job[k].task \in LateStages => job[k].ticket \in Tickets
    BY DEF TypeOK, Job, Free, LateStages
  <2> QED BY <1>7, <2>1, ContactStays DEF Carried, LateStages
<1> QED BY <1>2, <1>3, <1>4, <1>5, <1>6, <1>7 DEF Moved

(* The rows say who to write to before the first stage that writes starts,  *)
(* through every step.                                                      *)
LEMMA ContactInductive ==
  /\ Init => CarriedInv
  /\ CarriedInv /\ [Next]_vars => CarriedInv'
<1>1. ASSUME Init, NEW k \in Jobs PROVE Carried(k)
  BY <1>1, InitTasks DEF Carried, LateStages
<1>2. CarriedInv /\ [Next]_vars => CarriedInv'
  BY StepTypeInv, SlotSteps, StageCarries, MoveCarries DEF CarriedInv, TypeInv
<1> QED BY <1>1, <1>2, InitTypeInv DEF CarriedInv

(* Once the applicant's contact is stored, no stale full-row save of any    *)
(* stage, of any run, brings back the row without it.                       *)
THEOREM ContactKept == Spec => ContactNeverLost
<1>1. CarriedInv /\ [Next]_vars => [\A t \in Tickets: ticket[t].parsed => ticket'[t].parsed]_vars
  <2> SUFFICES ASSUME CarriedInv, [Next]_vars, NEW t \in Tickets, ticket[t].parsed
               PROVE  ticket'[t].parsed
    OBVIOUS
  <2>1. ticket[t].parsed = TRUE
    BY DEF CarriedInv, TypeInv, TypeOK, Row
  <2> QED BY <2>1, ContactStays
<1> QED BY <1>1, ContactInductive, PTL DEF Spec, ContactNeverLost

-----------------------------------------------------------------------------
(* A verdict is about all of the attachments.                               *)

(* A row read before an override may carry the admin's status; a verdict of *)
(* run_validation is borne out by the attachments.                          *)
Judged(k) ==
  LET t == job[k].ticket
      status == job[k].snap.status
  IN  /\ job[k].task \in LateStages /\ job[k].pc \in {"ocr", "save"} /\ status = "approved"
         => Acceptable(t) \/ t \in overridden
      /\ job[k].task = "run_validation" /\ job[k].pc \in {"save", "notify"}
         => /\ status = "approved" => Acceptable(t)
            /\ status = "rejected" => Attached[t] = <<>>

OnlyAttached ==
  \A t \in Tickets : docs[t] \subseteq {Attached[t][i] : i \in DOMAIN Attached[t]}

VerdictInv ==
  /\ GatheredInv /\ OnlyAttached /\ VerdictsSound
  /\ \A k \in Jobs : Judged(k)

(* An override is never taken back. *)
LEMMA OverridesStay == [Next]_vars => overridden \subseteq overridden'
<1> SUFFICES ASSUME [Next]_vars PROVE overridden \subseteq overridden'
  OBVIOUS
<1> USE DEF adminVars
<1>1. ASSUME NEW j \in Jobs, Work(j) PROVE overridden \subseteq overridden'
  BY <1>1 DEF Work, Stage, RunPipeline, StoreRead, StoreSave, ExtractRead, CheckAttachment,
     CreateDocument, ParseRead, ParseSave, ParseNotify, OcrRead, OcrDocuments, OcrSave,
     OcrNotify, ValidationRead, AwaitValidation, RunValidation, SaveOutcome, NotifyOutcome,
     SaveRow, Notify, HandOff, Finish, MarkFailed, RecordDeadLetter
<1>2. ASSUME NEW j \in Jobs, Trouble(j) PROVE overridden \subseteq overridden'
  BY <1>2 DEF Trouble, StageFails, Lose, Crash, CrashAfterHandOff
<1>3. ASSUME NEW t \in Tickets, Admin(t) PROVE overridden \subseteq overridden'
  BY <1>3 DEF Admin, Serve, UpdateStatus, Reprocess, CloseDeadLetters, DispatchAgain, LoseRequest
<1>4. CASE Sla \/ UNCHANGED vars
  BY <1>4 DEF Sla, CheckSla, StopSla, DeadlinePasses, FlagBreach, NoteBreach, vars
<1> QED BY <1>1, <1>2, <1>3, <1>4 DEF Next

(* The documents table only holds attachments of the email. *)
LEMMA DocsAttached ==
  ASSUME TypeInv, OnlyAttached, [Next]_vars
  PROVE  OnlyAttached'
<1> SUFFICES ASSUME NEW t \in Tickets
             PROVE  docs'[t] \subseteq {Attached[t][i] : i \in DOMAIN Attached[t]}
  BY DEF OnlyAttached
<1>1. CASE UNCHANGED docs
  BY <1>1 DEF OnlyAttached
<1>2. ASSUME NEW j \in Jobs, CreateDocument(j), ~UNCHANGED docs
      PROVE  docs'[t] \subseteq {Attached[t][i] : i \in DOMAIN Attached[t]}
  <2>1. docs' = [docs EXCEPT ![job[j].ticket] = @ \cup {Attachment(j)}]
    BY <1>2 DEF CreateDocument
  <2>2. /\ job[j].ticket \in Tickets /\ job[j].at \in Nat \ {0}
        /\ job[j].at <= Len(Attached[job[j].ticket])
    BY <1>2, BusyTyped DEF CreateDocument, At, TypeInv, CreateInRange, MoreAttachments, Job
  <2>3. Attached[job[j].ticket] \in Seq(Digests)
    BY <2>2, EmailAssumption
  <2>4. job[j].at \in DOMAIN Attached[job[j].ticket]
    BY <2>2, <2>3
  <2> QED BY <2>1, <2>4 DEF OnlyAttached, TypeInv, TypeOK, Attachment
<1> QED BY <1>1, <1>2, DocsSteps

(* With every attachment in the table, what the table shows is what the     *)
(* email has.                                                               *)
LEMMA TableSpeaks ==
  ASSUME OnlyAttached, NEW t \in Tickets, Complete(t, docs[t])
  PROVE  /\ docs[t] = {} => Attached[t] = <<>>
         /\ docs[t] # {} /\ docs[t] \subseteq FormatValid => Acceptable(t)
<1>1. Attached[t] \in Seq(Digests)
  BY EmailAssumption
<1>2. ASSUME docs[t] = {} PROVE Attached[t] = <<>>
  <2>1. DOMAIN Attached[t] = {}
    BY <1>2 DEF Complete
  <2>2. Len(Attached[t]) \in Nat /\ DOMAIN Attached[t] = 1 .. Len(Attached[t])
    BY <1>1
  <2>3. Len(Attached[t]) = 0
    BY <2>1, <2>2
  <2> QED BY <1>1, <2>3, EmptySeq
<1>3. ASSUME docs[t] # {} PROVE Attached[t] # <<>>
  BY <1>3 DEF OnlyAttached
<1> QED BY <1>2, <1>3 DEF Complete, Acceptable

(* A stage takes over a status it reads, or reaches a verdict of its own. *)
LEMMA StageJudges ==
  ASSUME VerdictInv, [Next]_vars, NEW k \in Jobs, Stage(k)
  PROVE  Judged(k)'
<1> DEFINE t == job[k].ticket
<1> USE DEF VerdictInv, GatheredInv, TypeInv
<1>1. /\ job[k].pc # "free" /\ t \in Tickets /\ job[k].snap \in Row /\ ticket[t] \in Row
      /\ job'[k].task = job[k].task /\ job'[k].ticket = t
      /\ overridden \subseteq overridden'
  BY StageKeeps, WorkBusy, BusyTyped, OverridesStay DEF Work, Job, TypeOK
(* Left to show: the row kept for a save, and the verdict to announce.      *)
<1>2. ASSUME job[k].task \in LateStages /\ job'[k].pc \in {"ocr", "save"}
                => job'[k].snap.status # "approved" \/ Acceptable(t) \/ t \in overridden,
             job[k].task = "run_validation" /\ job'[k].pc \in {"save", "notify"}
                => /\ job'[k].snap.status = "approved" => Acceptable(t)
                   /\ job'[k].snap.status = "rejected" => Attached[t] = <<>>
      PROVE  Judged(k)'
  BY <1>1, <1>2 DEF Judged, Acceptable
<1>3. CASE RunPipeline(k) \/ StoreRead(k) \/ StoreSave(k) \/ ExtractRead(k)
           \/ CheckAttachment(k) \/ CreateDocument(k)
  <2>1. job[k].task \notin LateStages
    BY <1>3 DEF RunPipeline, StoreRead, StoreSave, ExtractRead, CheckAttachment,
       CreateDocument, At, LateStages
  <2> QED BY <1>2, <2>1 DEF LateStages
<1>4. CASE ParseRead(k)
  <2> DEFINE row == [ticket[t] EXCEPT !.parsed = TRUE, !.status = "processing"]
  <2>1. KeepRow(k, row, "save") /\ job[k].task = "parse_user_info"
    BY <1>4 DEF ParseRead, At
  <2>2. row.status = "processing"
    BY <1>1, ColumnsKept
  <2> HIDE DEF row
  <2>3. job'[k].snap.status = "processing"
    BY <1>1, <2>1, <2>2, AfterKeepRow
  <2> QED BY <1>2, <2>1, <2>3
<1>5. CASE ParseSave(k) \/ OcrSave(k) \/ ParseNotify(k) \/ OcrNotify(k) \/ NotifyOutcome(k)
           \/ AwaitValidation(k)
  <2>1. \/ job'[k].pc = "notify" /\ job[k].task # "run_validation"
        \/ job'[k].pc \in {"done", "decide"}
    BY <1>1, <1>5, AfterGoto DEF ParseSave, OcrSave, ParseNotify, OcrNotify, NotifyOutcome,
       AwaitValidation, SaveRow, Notify
  <2> QED BY <1>2, <2>1
<1>6. CASE OcrRead(k)
  <2>1. job'[k].snap = ticket[t] /\ job[k].task = "run_document_extraction"
    BY <1>1, <1>6, AfterKeepRow DEF OcrRead, At
  <2> QED BY <1>1, <1>2, <2>1 DEF VerdictsSound
<1>7. CASE OcrDocuments(k)
  <2>1. /\ job[k].task = "run_document_extraction"
        /\ job[k].snap.status = "approved" => Acceptable(t) \/ t \in overridden
    BY <1>7 DEF OcrDocuments, At, Judged, LateStages
  <2>2. CASE Goto(k, "notify")
    BY <1>1, <1>2, <2>1, <2>2, AfterGoto
  <2>3. ASSUME NEW d \in docs[t], KeepRow(k, [job[k].snap EXCEPT !.document = d], "save")
        PROVE  Judged(k)'
    <3> DEFINE row == [job[k].snap EXCEPT !.document = d]
    <3>1. KeepRow(k, row, "save") /\ row.status = job[k].snap.status
      BY <1>1, <2>3, ColumnsKept
    <3> HIDE DEF row
    <3>2. job'[k].snap.status = job[k].snap.status
      BY <1>1, <3>1, AfterKeepRow
    <3> QED BY <1>2, <2>1, <3>2
  <2> QED BY <1>7, <2>2, <2>3 DEF OcrDocuments
<1>8. CASE ValidationRead(k)
  <2>1. job'[k].pc = "await"
    BY <1>1, <1>8, AfterKeepRow DEF ValidationRead
  <2> QED BY <1>2, <2>1
<1>9. CASE RunValidation(k)
  <2>1. Complete(t, docs[t])
    BY <1>9 DEF RunValidation, At, Gathered, LateStages
  <2>2. PICK s, u :
           /\ KeepRow(k, [job[k].snap EXCEPT !.status = s, !.duplicate_of = u], "save")
           /\ s = "rejected" => docs[t] = {}
           /\ s = "approved" => docs[t] # {} /\ docs[t] \subseteq FormatValid
    BY <1>1, <1>9, KeptVerdict
  <2> DEFINE row == [job[k].snap EXCEPT !.status = s, !.duplicate_of = u]
  <2>3. KeepRow(k, row, "save") /\ row.status = s
    BY <1>1, <2>2, ColumnsKept
  <2> HIDE DEF row
  <2>4. job'[k].snap.status = s
    BY <1>1, <2>3, AfterKeepRow
  <2> QED BY <1>1, <1>2, <2>1, <2>2, <2>4, TableSpeaks
<1>10. CASE SaveOutcome(k)
  <2>1. /\ job'[k].pc = "notify" /\ job'[k].snap = job[k].snap
        /\ job[k].task = "run_validation" /\ job[k].pc = "save"
    BY <1>1, <1>10, AfterGoto DEF SaveOutcome, SaveRow
  <2> QED BY <1>2, <2>1 DEF Judged
<1> QED
  BY <1>3, <1>4, <1>5, <1>6, <1>7, <1>8, <1>9, <1>10 DEF Stage

(* A message carries no row, and a job on its way out saves none. *)
LEMMA MoveJudges ==
  ASSUME VerdictInv, [Next]_vars, NEW k \in Jobs, Moved(k)
  PROVE  Judged(k)'
<1> USE DEF VerdictInv, GatheredInv, TypeInv
<1>1. CASE job'[k] = job[k]
  BY <1>1, OverridesStay DEF Judged, Acceptable
<1>2. CASE job'[k] # job[k]
  <2>1. \/ job'[k].pc \in {"free", "queued", "retry", "mark_failed", "park"}
        \/ job'[k].task = "record_dead_letter"
    <3>1. Free.pc = "free" /\ \A t : Message("run_pipeline", t, 0).pc = "queued"
      BY DEF Free, Message
    <3> QED BY <1>2, <3>1, PublishedQueued DEF Moved
  <2> QED BY <2>1 DEF Judged, LateStages
<1> QED BY <1>1, <1>2

(* A row shows "approved" after a sound verdict or by an admin's hand. *)
LEMMA RowsJudged ==
  ASSUME VerdictInv, [Next]_vars, NEW t \in Tickets, ticket'[t].status = "approved"
  PROVE  Acceptable(t) \/ t \in overridden'
<1> USE DEF VerdictInv, GatheredInv, TypeInv
<1>0. ticket \in [Tickets -> Row] /\ overridden \subseteq overridden'
  BY OverridesStay DEF TypeOK
<1>1. CASE ticket'[t].status = ticket[t].status
  BY <1>0, <1>1 DEF VerdictsSound
<1>2. ASSUME NEW u, NEW s, s \notin Terminal, ticket' = [ticket EXCEPT ![u].status = s]
      PROVE  ticket'[t].status = ticket[t].status
  BY <1>0, <1>2, ColumnsKept DEF Terminal
<1>3. ASSUME NEW u \in Tickets, NEW s, UpdateStatus(u, s)
      PROVE  ticket'[t].status = ticket[t].status \/ t \in overridden'
  BY <1>0, <1>3 DEF UpdateStatus
<1>4. ASSUME NEW m, NEW u \in Tickets, FlagBreach(m, u) PROVE ticket'[t].status = ticket[t].status
  BY <1>0, <1>4, ColumnsKept DEF FlagBreach
<1>5. ASSUME NEW j \in Jobs, SaveRow(j), job[j].task \in LateStages
      PROVE  \/ ticket'[t].status = ticket[t].status
             \/ Acceptable(t) \/ t \in overridden
  <2>1. CASE t = job[j].ticket
    <3>1. ticket'[t] = job[j].snap
      BY <1>0, <1>5, <2>1 DEF SaveRow
    <3> QED BY <1>5, <2>1, <3>1 DEF SaveRow, Judged
  <2>2. CASE t # job[j].ticket
    BY <1>0, <1>5, <2>2 DEF SaveRow
  <2> QED BY <2>1, <2>2
<1> QED BY <1>0, <1>1, <1>2, <1>3, <1>4, <1>5, RowSteps

(* The applicant is only written to by the three notifying statements. *)
LEMMA MailSteps ==
  ASSUME [Next]_vars
  PROVE  \/ UNCHANGED mails
         \/ \E j \in Jobs : ParseNotify(j) \/ OcrNotify(j) \/ NotifyOutcome(j)
<1> USE DEF rowVars
<1>1. ASSUME NEW j \in Jobs, Work(j)
      PROVE  UNCHANGED mails \/ ParseNotify(j) \/ OcrNotify(j) \/ NotifyOutcome(j)
  BY <1>1 DEF Work, Stage, RunPipeline, StoreRead, StoreSave, ExtractRead, CheckAttachment,
     CreateDocument, ParseRead, ParseSave, OcrRead, OcrDocuments, OcrSave,
     ValidationRead, AwaitValidation, RunValidation, SaveOutcome,
     SaveRow, HandOff, Finish, MarkFailed, RecordDeadLetter
<1>2. ASSUME NEW j \in Jobs, Trouble(j) PROVE UNCHANGED mails
  BY <1>2 DEF Trouble, StageFails, Lose, Crash, CrashAfterHandOff
<1>3. ASSUME NEW t \in Tickets, Admin(t) PROVE UNCHANGED mails
  BY <1>3 DEF Admin, Serve, UpdateStatus, Reprocess, CloseDeadLetters, DispatchAgain, LoseRequest
<1>4. CASE Sla \/ UNCHANGED vars
  BY <1>4 DEF Sla, CheckSla, StopSla, DeadlinePasses, FlagBreach, NoteBreach, vars
<1> QED BY <1>1, <1>2, <1>3, <1>4 DEF Next

(* The applicant is told no verdict that the attachments do not bear out. *)
LEMMA MailsJudged ==
  ASSUME VerdictInv, [Next]_vars, NEW t \in Tickets
  PROVE  /\ "ticket_approved" \in mails'[t] => Acceptable(t)
         /\ mails'[t] \cap {"ticket_rejected", "documents_missing"} # {} => Attached[t] = <<>>
<1> USE DEF VerdictInv, GatheredInv, TypeInv
<1>1. mails \in [Tickets -> SUBSET Templates]
  BY DEF TypeOK
<1>2. ASSUME NEW j \in Jobs, NEW templates, Notify(j, templates),
             "ticket_approved" \in templates => Acceptable(job[j].ticket),
             templates \cap {"ticket_rejected", "documents_missing"} # {}
                => Attached[job[j].ticket] = <<>>
      PROVE  /\ "ticket_approved" \in mails'[t] => Acceptable(t)
             /\ mails'[t] \cap {"ticket_rejected", "documents_missing"} # {}
                => Attached[t] = <<>>
  <2>1. CASE t = job[j].ticket
    <3>1. mails'[t] = mails[t] \cup templates
      BY <1>1, <1>2, <2>1 DEF Notify
    <3> QED BY <1>2, <2>1, <3>1 DEF VerdictsSound
  <2>2. CASE t # job[j].ticket
    <3>1. mails'[t] = mails[t]
      BY <1>1, <1>2, <2>2 DEF Notify
    <3> QED BY <3>1 DEF VerdictsSound
  <2> QED BY <2>1, <2>2
<1>3. CASE UNCHANGED mails
  BY <1>3 DEF VerdictsSound
<1>4. ASSUME NEW j \in Jobs, ParseNotify(j) \/ OcrNotify(j)
      PROVE  \E templates \in SUBSET {"onboarding_received", "documents_processed"} :
                Notify(j, templates)
  BY <1>4 DEF ParseNotify, OcrNotify
<1>5. ASSUME NEW j \in Jobs, NotifyOutcome(j)
      PROVE  \E templates :
               /\ Notify(j, templates)
               /\ "ticket_approved" \in templates => Acceptable(job[j].ticket)
               /\ templates \cap {"ticket_rejected", "documents_missing"} # {}
                     => Attached[job[j].ticket] = <<>>
  <2> DEFINE templates ==
        CASE job[j].snap.status = "approved" -> {"validation_passed", "ticket_approved"}
          [] job[j].snap.status = "rejected" ->
                 {"ticket_rejected"} \cup
                 (IF docs[job[j].ticket] = {} THEN {"documents_missing"} ELSE {})
          [] OTHER -> {"validation_failed"}
  <2>1. Notify(j, templates)
    BY <1>5 DEF NotifyOutcome
  <2>2. /\ job[j].snap.status = "approved" => Acceptable(job[j].ticket)
        /\ job[j].snap.status = "rejected" => Attached[job[j].ticket] = <<>>
    BY <1>5 DEF NotifyOutcome, Notify, Judged
  <2>3. "ticket_approved" \in templates => Acceptable(job[j].ticket)
    BY <2>2
  <2>4. templates \cap {"ticket_rejected", "documents_missing"} # {}
          => Attached[job[j].ticket] = <<>>
    BY <2>2
  <2> HIDE DEF templates
  <2> QED BY <2>1, <2>3, <2>4
<1>6. ASSUME NEW j \in Jobs, ParseNotify(j) \/ OcrNotify(j)
      PROVE  /\ "ticket_approved" \in mails'[t] => Acceptable(t)
             /\ mails'[t] \cap {"ticket_rejected", "documents_missing"} # {}
                => Attached[t] = <<>>
  BY <1>2, <1>4, <1>6
<1> QED BY <1>2, <1>3, <1>5, <1>6, MailSteps

(* No verdict is reached on part of the attachments: a ticket is approved,  *)
(* or its applicant told so, only if the email has documents and all are of *)
(* a valid format; an applicant is told "rejected" only if it has none.     *)
THEOREM VerdictsRestOnAll == Spec => []VerdictsSound
<1>1. Init => VerdictInv
  <2> SUFFICES ASSUME Init PROVE VerdictInv
    OBVIOUS
  <2>1. ASSUME NEW k \in Jobs PROVE Judged(k) /\ Gathered(k)
    BY InitTasks DEF Judged, Gathered, At, LateStages
  <2>2. OnlyAttached
    BY DEF Init, OnlyAttached
  <2>3. VerdictsSound
    <3>1. NewRow.status = "received"
      BY DEF NewRow
    <3> QED BY <3>1 DEF Init, VerdictsSound
  <2> QED BY <2>1, <2>2, <2>3, InitTypeInv DEF VerdictInv, GatheredInv
<1>2. VerdictInv /\ [Next]_vars => VerdictInv'
  <2> SUFFICES ASSUME VerdictInv, [Next]_vars PROVE VerdictInv'
    OBVIOUS
  <2>1. GatheredInv'
    BY GatheredInductive DEF VerdictInv
  <2>2. OnlyAttached'
    BY DocsAttached DEF VerdictInv, GatheredInv
  <2>3. \A k \in Jobs : Judged(k)'
    BY SlotSteps, StageJudges, MoveJudges DEF VerdictInv, GatheredInv, TypeInv
  <2>4. VerdictsSound'
    BY RowsJudged, MailsJudged DEF VerdictsSound, Acceptable
  <2> QED BY <2>1, <2>2, <2>3, <2>4 DEF VerdictInv
<1>3. VerdictInv => VerdictsSound
  BY DEF VerdictInv
<1> QED BY <1>1, <1>2, <1>3, PTL DEF Spec

-----------------------------------------------------------------------------
(* The breach flag.  A worker may hold a row read before the flag was set   *)
(* and save it after, or hold the flag itself: so the invariant says of     *)
(* every row held in a slot what it says of the stored one.                 *)

Due(t) ==
  /\ t \in overdue
  /\ breachEvents[t] > 0 \/ t \in unnoted \/ \E m \in Monitors : noting[m] = t

(* The executions that may still add an event for t, at most one each. *)
Scanning(t) == {m \in Monitors : t \in scan[m]}

Counted(t) ==
  /\ breachEvents[t] > 0 => t \in overdue
  /\ Cardinality(Scanning(t)) + breachEvents[t] <= used["scans"]

BreachInv ==
  /\ TypeInv
  /\ \A m \in Monitors : scan[m] \subseteq overdue
  /\ \A t \in Tickets : Counted(t) /\ (ticket[t].sla_breached => Due(t))
  /\ \A k \in Jobs : job[k] # Free /\ job[k].snap.sla_breached => Due(job[k].ticket)

(* What a step does to the monitor's own variables and to the limits. *)
LEMMA MonitorSteps ==
  ASSUME TypeOK, [Next]_vars
  PROVE  UNCHANGED slaVars \/ Sla
<1> USE DEF slaVars
<1>1. ASSUME NEW j \in Jobs, Work(j)
      PROVE  UNCHANGED slaVars
  BY <1>1 DEF Work, Stage, RunPipeline, StoreRead, StoreSave, ExtractRead, CheckAttachment,
     CreateDocument, ParseRead, ParseSave, ParseNotify, OcrRead, OcrDocuments, OcrSave,
     OcrNotify, ValidationRead, AwaitValidation, RunValidation, SaveOutcome, NotifyOutcome,
     SaveRow, Notify, HandOff, Finish, MarkFailed, RecordDeadLetter
<1>2. ASSUME NEW j \in Jobs, Trouble(j) PROVE UNCHANGED slaVars
  BY <1>2 DEF Trouble, StageFails, Lose, Crash, CrashAfterHandOff
<1>3. ASSUME NEW t \in Tickets, Admin(t) PROVE UNCHANGED slaVars
  BY <1>3 DEF Admin, Serve, UpdateStatus, Reprocess, CloseDeadLetters, DispatchAgain, LoseRequest
<1> QED BY <1>1, <1>2, <1>3 DEF Next, vars

(* A disturbance is never taken back. *)
LEMMA UsedGrows ==
  ASSUME TypeOK, [Next]_vars, NEW d \in Disturbances
  PROVE  used'[d] >= used[d]
<1>1. ASSUME NEW e, Spend(e) PROVE used'[d] >= used[d]
  BY <1>1 DEF Spend, TypeOK
<1>2. ASSUME NEW j \in Jobs, Work(j)
      PROVE  UNCHANGED used
  BY <1>2 DEF Work, Stage, RunPipeline, StoreRead, StoreSave, ExtractRead, CheckAttachment,
     CreateDocument, ParseRead, ParseSave, ParseNotify, OcrRead, OcrDocuments, OcrSave,
     OcrNotify, ValidationRead, AwaitValidation, RunValidation, SaveOutcome, NotifyOutcome,
     SaveRow, Notify, HandOff, Finish, MarkFailed, RecordDeadLetter
<1>3. ASSUME NEW j \in Jobs, Trouble(j) PROVE \E e : Spend(e)
  BY <1>3 DEF Trouble, StageFails, Lose, Crash, CrashAfterHandOff
<1>4. ASSUME NEW t \in Tickets, Admin(t) PROVE UNCHANGED used \/ \E e : Spend(e)
  BY <1>4 DEF Admin, Serve, UpdateStatus, Reprocess, CloseDeadLetters, DispatchAgain, LoseRequest
<1>5. CASE Sla \/ UNCHANGED vars
  <2>1. UNCHANGED used \/ \E e : Spend(e)
    BY <1>5 DEF Sla, CheckSla, StopSla, DeadlinePasses, FlagBreach, NoteBreach, vars
  <2> QED BY <1>1, <2>1 DEF TypeOK
<1> QED BY <1>1, <1>2, <1>3, <1>4, <1>5 DEF Next, TypeOK

(* The counts survive a step that leaves the overdue tickets and does not   *)
(* let more executions scan a ticket than the limit has grown by.           *)
LEMMA CountKept ==
  ASSUME BreachInv, [Next]_vars, NEW t \in Tickets, overdue \subseteq overdue',
         breachEvents'[t] = breachEvents[t],
         Scanning(t)' \subseteq Scanning(t)
  PROVE  Counted(t)'
<1> USE DEF BreachInv, TypeInv
<1>1. /\ used'["scans"] >= used["scans"] /\ used["scans"] \in Nat /\ used'["scans"] \in Nat
      /\ breachEvents[t] \in Nat
  BY UsedGrows, StepTypeInv DEF TypeOK, Disturbances
<1>2. IsFiniteSet(Scanning(t))
  BY MonitorsAssumption, FS_Subset, Scanning(t) \subseteq Monitors DEF Scanning
<1>3. /\ Cardinality(Scanning(t)') <= Cardinality(Scanning(t))
      /\ Cardinality(Scanning(t)') \in Nat /\ Cardinality(Scanning(t)) \in Nat
  BY <1>2, FS_Subset, FS_CardinalityType
<1>4. Cardinality(Scanning(t)') + breachEvents'[t] <= used'["scans"]
  BY <1>1, <1>3 DEF Counted
<1> QED BY <1>4 DEF Counted

(* A query finds overdue tickets, and is counted. *)
LEMMA QueryCounts ==
  ASSUME BreachInv, [Next]_vars, NEW m \in Monitors, CheckSla(m), NEW t \in Tickets
  PROVE  Counted(t)'
<1> USE DEF BreachInv, TypeInv
<1>1. /\ used'["scans"] = used["scans"] + 1 /\ used["scans"] \in Nat
      /\ breachEvents[t] \in Nat /\ UNCHANGED <<overdue, breachEvents>>
  BY DEF CheckSla, Spend, TypeOK, Disturbances
<1>2. Scanning(t)' \subseteq Scanning(t) \cup {m}
  BY DEF CheckSla, TypeOK, Scanning
<1>3. IsFiniteSet(Scanning(t))
  BY MonitorsAssumption, FS_Subset, Scanning(t) \subseteq Monitors DEF Scanning
<1>4. /\ IsFiniteSet(Scanning(t) \cup {m})
      /\ Cardinality(Scanning(t) \cup {m}) <= Cardinality(Scanning(t)) + 1
  <2>1. Cardinality(Scanning(t)) \in Nat
    BY <1>3, FS_CardinalityType
  <2>2. /\ IsFiniteSet(Scanning(t) \cup {m})
        /\ \/ Cardinality(Scanning(t) \cup {m}) = Cardinality(Scanning(t))
           \/ Cardinality(Scanning(t) \cup {m}) = Cardinality(Scanning(t)) + 1
    BY <1>3, FS_AddElement
  <2> QED BY <2>1, <2>2
<1>5. /\ Cardinality(Scanning(t)') <= Cardinality(Scanning(t)) + 1
      /\ Cardinality(Scanning(t)') \in Nat /\ Cardinality(Scanning(t)) \in Nat
  BY <1>2, <1>3, <1>4, FS_Subset, FS_CardinalityType
<1>6. Cardinality(Scanning(t)') + breachEvents'[t] <= used'["scans"]
  BY <1>1, <1>5 DEF Counted
<1> QED BY <1>1, <1>6 DEF Counted

(* An event is added by an execution that scans the ticket, and stops to. *)
LEMMA EventCounts ==
  ASSUME BreachInv, [Next]_vars, NEW m \in Monitors, NEW u \in Tickets, NoteBreach(m, u)
  PROVE  Counted(u)'
<1> USE DEF BreachInv, TypeInv
<1>1. /\ used' = used /\ used["scans"] \in Nat /\ overdue' = overdue
      /\ breachEvents[u] \in Nat /\ breachEvents'[u] = breachEvents[u] + 1
  BY DEF NoteBreach, TypeOK, Disturbances
<1>2. m \in Scanning(u) /\ u \in overdue
  BY NoneAssumption DEF NoteBreach, TypeOK, Scanning
<1>3. Scanning(u)' = Scanning(u) \ {m}
  BY DEF NoteBreach, TypeOK, Scanning
<1>4. IsFiniteSet(Scanning(u))
  BY MonitorsAssumption, FS_Subset, Scanning(u) \subseteq Monitors DEF Scanning
<1>5. /\ Cardinality(Scanning(u)') = Cardinality(Scanning(u)) - 1
      /\ Cardinality(Scanning(u)') \in Nat /\ Cardinality(Scanning(u)) \in Nat
  BY <1>2, <1>3, <1>4, FS_RemoveElement, FS_CardinalityType
<1>6. Cardinality(Scanning(u)') + breachEvents'[u] <= used'["scans"]
  BY <1>1, <1>5 DEF Counted
<1> QED BY <1>1, <1>2, <1>6 DEF Counted

(* Each of the monitor's steps keeps the counts, and a breach once due      *)
(* stays due: the loop goes on to add the event, or stops without.          *)
LEMMA MonitorCounts ==
  ASSUME BreachInv, [Next]_vars, NEW t \in Tickets
  PROVE  /\ \A n \in Monitors : scan'[n] \subseteq overdue'
         /\ Counted(t)'
         /\ Due(t) => Due(t)'
<1> USE DEF BreachInv, TypeInv
<1> DEFINE Goal == /\ \A n \in Monitors : scan'[n] \subseteq overdue'
                   /\ Counted(t)'
                   /\ Due(t) => Due(t)'
<1>1. CASE UNCHANGED slaVars
  <2>1. Counted(t)'
    BY <1>1, CountKept DEF slaVars, Scanning
  <2> QED BY <1>1, <2>1 DEF slaVars, Due
<1>2. ASSUME NEW u \in Tickets, DeadlinePasses(u) PROVE Goal
  <2>1. Counted(t)'
    BY <1>2, CountKept DEF DeadlinePasses, Scanning
  <2> QED BY <1>2, <2>1 DEF DeadlinePasses, Due
<1>3. ASSUME NEW m \in Monitors, CheckSla(m) PROVE Goal
  <2>1. Counted(t)'
    BY <1>3, QueryCounts
  <2> QED BY <1>3, <2>1 DEF CheckSla, TypeOK, Due
<1>4. ASSUME NEW m \in Monitors, NEW u \in Tickets, FlagBreach(m, u) PROVE Goal
  <2>1. Counted(t)'
    BY <1>4, CountKept DEF FlagBreach, Scanning
  <2> QED BY <1>4, <2>1, NoneAssumption DEF FlagBreach, TypeOK, Due
<1>5. ASSUME NEW m \in Monitors, NEW u \in Tickets, NoteBreach(m, u) PROVE Goal
  <2>1. /\ UNCHANGED <<overdue, unnoted>> /\ noting[m] = u
        /\ noting' = [noting EXCEPT ![m] = None] /\ scan' = [scan EXCEPT ![m] = @ \ {u}]
        /\ breachEvents' = [breachEvents EXCEPT ![u] = @ + 1]
    BY <1>5 DEF NoteBreach
  <2>2. Counted(t)'
    <3>1. CASE t = u
      BY <1>5, <3>1, EventCounts
    <3>2. CASE t # u
      <4>1. Scanning(t)' \subseteq Scanning(t) /\ breachEvents'[t] = breachEvents[t]
        BY <2>1, <3>2 DEF TypeOK, Scanning
      <4> QED BY <2>1, <4>1, CountKept
    <3> QED BY <3>1, <3>2
  <2>3. Due(t) => Due(t)'
    <3>1. CASE t = u
      <4>1. breachEvents'[t] > 0
        BY <2>1, <3>1 DEF TypeOK
      <4> QED BY <2>1, <4>1 DEF Due
    <3>2. CASE t # u
      <4>1. breachEvents'[t] = breachEvents[t]
        BY <2>1, <3>2 DEF TypeOK
      <4>2. \A n \in Monitors : noting[n] = t => noting'[n] = t
        BY <2>1, <3>2 DEF TypeOK
      <4> QED BY <2>1, <4>1, <4>2 DEF Due
    <3> QED BY <3>1, <3>2
  <2>4. \A n \in Monitors : scan'[n] \subseteq overdue'
    BY <2>1 DEF TypeOK
  <2> QED BY <2>2, <2>3, <2>4
<1>6. ASSUME NEW m \in Monitors, StopSla(m) PROVE Goal
  <2>1. /\ UNCHANGED <<overdue, breachEvents>>
        /\ noting' = [noting EXCEPT ![m] = None] /\ scan' = [scan EXCEPT ![m] = {}]
        /\ unnoted' = unnoted \cup ({noting[m]} \ {None})
    BY <1>6 DEF StopSla
  <2>2. Counted(t)'
    <3>1. Scanning(t)' \subseteq Scanning(t)
      BY <2>1 DEF TypeOK, Scanning
    <3> QED BY <2>1, <3>1, CountKept
  <2>3. Due(t) => Due(t)'
    <3>1. \A n \in Monitors : noting[n] = t => noting'[n] = t \/ t \in unnoted'
      BY <2>1, NoneAssumption DEF TypeOK
    <3> QED BY <2>1, <3>1 DEF Due
  <2>4. \A n \in Monitors : scan'[n] \subseteq overdue'
    BY <2>1 DEF TypeOK
  <2> QED BY <2>2, <2>3, <2>4
<1> QED BY <1>1, <1>2, <1>3, <1>4, <1>5, <1>6, MonitorSteps DEF Sla

(* The rows keep it: the flag is set by the loop, which took the ticket     *)
(* from the overdue ones, or comes back with a row held in a slot.          *)
LEMMA RowsDue ==
  ASSUME BreachInv, [Next]_vars, NEW t \in Tickets, ticket'[t].sla_breached
  PROVE  Due(t)'
<1> USE DEF BreachInv, TypeInv
<1>0. ticket \in [Tickets -> Row]
  BY DEF TypeOK
<1>1. ASSUME ticket[t].sla_breached PROVE Due(t)'
  BY <1>1, MonitorCounts
<1>2. ASSUME NEW u, NEW s, ticket' = [ticket EXCEPT ![u].status = s] PROVE Due(t)'
  <2>1. ticket'[t].sla_breached = ticket[t].sla_breached
    BY <1>0, <1>2 DEF Row
  <2> QED BY <1>1, <2>1
<1>3. ASSUME NEW m \in Monitors, NEW u \in Tickets, FlagBreach(m, u) PROVE Due(t)'
  <2>1. CASE t = u
    <3>1. noting'[m] = t /\ t \in overdue'
      BY <1>3, <2>1 DEF FlagBreach, TypeOK
    <3> QED BY <3>1 DEF Due
  <2>2. CASE t # u
    BY <1>0, <1>1, <1>3, <2>2 DEF FlagBreach
  <2> QED BY <2>1, <2>2
<1>4. ASSUME NEW j \in Jobs, SaveRow(j), job[j].task \in LateStages PROVE Due(t)'
  <2>1. job[j] # Free
    BY <1>4 DEF SaveRow, Free
  <2>2. CASE job[j].ticket = t
    <3>1. ticket'[t] = job[j].snap
      BY <1>0, <1>4, <2>2 DEF SaveRow
    <3> QED BY <2>1, <2>2, <3>1, MonitorCounts
  <2>3. CASE job[j].ticket # t
    BY <1>0, <1>1, <1>4, <2>3 DEF SaveRow
  <2> QED BY <2>2, <2>3
<1>5. CASE UNCHANGED ticket
  BY <1>1, <1>5
<1> QED BY <1>2, <1>3, <1>4, <1>5, RowSteps DEF UpdateStatus

(* A stage holds the row it has read, whatever else it writes into it. *)
LEMMA StageHolds ==
  ASSUME TypeInv, NEW k \in Jobs, Stage(k)
  PROVE  job'[k].snap.sla_breached \in
             {job[k].snap.sla_breached, ticket[job[k].ticket].sla_breached}
<1> DEFINE t == job[k].ticket
           Kept == {job[k].snap.sla_breached, ticket[t].sla_breached}
<1> USE DEF TypeInv
<1>1. job[k].pc # "free" /\ job[k].snap \in Row /\ ticket[t] \in Row
  BY WorkBusy, BusyTyped DEF Work, Job, TypeOK
<1>2. ASSUME NEW l, Goto(k, l) PROVE job'[k].snap.sla_breached \in Kept
  BY <1>1, <1>2, AfterGoto
<1>3. ASSUME NEW row, NEW l, KeepRow(k, row, l), row.sla_breached \in Kept
      PROVE  job'[k].snap.sla_breached \in Kept
  BY <1>1, <1>3, AfterKeepRow
<1>4. CASE RunPipeline(k) \/ StoreRead(k) \/ StoreSave(k) \/ ExtractRead(k)
           \/ CheckAttachment(k) \/ CreateDocument(k)
  <2>1. (\E l : Goto(k, l)) \/ NextAttachment(k)
    BY <1>4 DEF RunPipeline, StoreRead, StoreSave, ExtractRead, CheckAttachment,
       CreateDocument, Raised
  <2> QED BY <1>1, <1>2, <2>1, AfterNextAttachment
<1>5. CASE ParseRead(k)
  <2> DEFINE x == [ticket[t] EXCEPT !.parsed = TRUE, !.status = "processing"]
  <2>1. KeepRow(k, x, "save")
    BY <1>5 DEF ParseRead
  <2>2. x.sla_breached \in Kept
    BY <1>1 DEF Row
  <2> HIDE DEF x
  <2> QED BY <1>3, <2>1, <2>2
<1>6. CASE OcrRead(k)
  BY <1>1, <1>3, <1>6 DEF OcrRead
<1>7. CASE OcrDocuments(k)
  <2>1. ASSUME NEW d, KeepRow(k, [job[k].snap EXCEPT !.document = d], "save")
        PROVE  job'[k].snap.sla_breached \in Kept
    <3> DEFINE x == [job[k].snap EXCEPT !.document = d]
    <3>1. KeepRow(k, x, "save") /\ x.sla_breached \in Kept
      BY <1>1, <2>1 DEF Row
    <3> HIDE DEF x
    <3> QED BY <1>3, <3>1
  <2> QED BY <1>2, <1>7, <2>1 DEF OcrDocuments
<1>8. CASE ValidationRead(k)
  <2> DEFINE x == [ticket[t] EXCEPT !.status = "awaiting_validation"]
  <2>1. KeepRow(k, x, "await")
    BY <1>8 DEF ValidationRead
  <2>2. x.sla_breached \in Kept
    BY <1>1 DEF Row
  <2> HIDE DEF x
  <2> QED BY <1>3, <2>1, <2>2
<1>9. CASE RunValidation(k)
  <2>1. PICK s, u : KeepRow(k, [job[k].snap EXCEPT !.status = s, !.duplicate_of = u], "save")
    BY <1>1, <1>9, KeptVerdict
  <2> DEFINE x == [job[k].snap EXCEPT !.status = s, !.duplicate_of = u]
  <2>2. KeepRow(k, x, "save") /\ x.sla_breached \in Kept
    BY <1>1, <2>1 DEF Row
  <2> HIDE DEF x
  <2> QED BY <1>3, <2>2
<1>10. CASE ParseSave(k) \/ ParseNotify(k) \/ OcrSave(k) \/ OcrNotify(k) \/ AwaitValidation(k)
            \/ SaveOutcome(k) \/ NotifyOutcome(k)
  <2>1. \E l : Goto(k, l)
    BY <1>10 DEF ParseSave, ParseNotify, OcrSave, OcrNotify, AwaitValidation, SaveOutcome,
       NotifyOutcome, SaveRow, Notify
  <2> QED BY <1>2, <2>1
<1> QED
  BY <1>4, <1>5, <1>6, <1>7, <1>8, <1>9, <1>10 DEF Stage

(* The rows held in slots keep it. *)
LEMMA SlotsDue ==
  ASSUME BreachInv, [Next]_vars, NEW k \in Jobs, job'[k] # Free, job'[k].snap.sla_breached
  PROVE  Due(job[k].ticket)'
<1> USE DEF BreachInv, TypeInv
<1>1. ASSUME NEW t \in Tickets, Due(t), job'[k].ticket = t
      PROVE  Due(job[k].ticket)'
  <2>1. Due(t)'
    BY <1>1, MonitorCounts
  <2> QED BY <1>1, <2>1 DEF Due
<1>2. CASE Stage(k)
  <2>1. /\ job[k] # Free /\ job[k].ticket \in Tickets
        /\ job'[k].ticket = job[k].ticket
    BY <1>2, WorkBusy, BusyTyped, StageKeeps DEF Work, Job, Free
  <2>2. job[k].snap.sla_breached \/ ticket[job[k].ticket].sla_breached
    BY <1>2, StageHolds
  <2>3. Due(job[k].ticket)
    BY <2>1, <2>2
  <2> QED BY <1>1, <2>1, <2>3
<1>3. CASE Moved(k)
  <2>1. ASSUME NEW task, NEW t, NEW n PROVE ~Message(task, t, n).snap.sla_breached
    BY DEF Message, NewRow
  <2>2. \A j \in Jobs : Publishes(j) => ~Published(j).snap.sla_breached
    BY <2>1, Zenon DEF Published
  <2>3. \A j \in Jobs : ~Redelivered(j).snap.sla_breached
    BY <2>1 DEF Redelivered
  <2>4. CASE /\ job'[k].ticket = job[k].ticket /\ job'[k].snap = job[k].snap
             /\ job'[k].task = job[k].task
    <3>1. job[k] # Free
      <4>1. TypeOK'
        BY StepTypeInv
      <4>2. job'[k].task # "none"
        BY <2>4, <4>1 DEF TypeOK, Job, Tasks, Stages
      <4> QED BY <2>4, <4>2 DEF Free
    <3>2. job[k].ticket \in Tickets /\ Due(job[k].ticket)
      BY <2>4, <3>1 DEF TypeOK, Job
    <3> QED BY <1>1, <2>4, <3>2
  <2> QED BY <1>3, <2>1, <2>2, <2>3, <2>4 DEF Moved
<1> QED BY <1>2, <1>3, SlotSteps

(* No flag is set at first, and every step keeps the invariant. *)
LEMMA BreachInductive ==
  /\ Init => BreachInv
  /\ BreachInv /\ [Next]_vars => BreachInv'
<1>1. ASSUME Init PROVE BreachInv
  <2>1. TypeInv
    BY <1>1, InitTypeInv
  <2>2. \A k \in Jobs : job[k] # Free => job[k].snap = NewRow
    BY <1>1 DEF Init, Message
  <2>3. \A t \in Tickets : Counted(t) /\ ~ticket[t].sla_breached
    <3>1. /\ ticket = [t \in Tickets |-> NewRow] /\ breachEvents = [t \in Tickets |-> 0]
          /\ scan = [m \in Monitors |-> {}] /\ used["scans"] = 0
      BY <1>1 DEF Init, Disturbances
    <3>2. ~NewRow.sla_breached
      BY DEF NewRow
    <3>3. \A t \in Tickets : ticket[t] = NewRow /\ breachEvents[t] = 0 /\ Scanning(t) = {}
      BY <3>1 DEF Scanning
    <3>4. ASSUME NEW t \in Tickets PROVE Counted(t)
      <4>1. Cardinality(Scanning(t)) = 0
        BY <3>3, FS_EmptySet
      <4> QED BY <3>1, <3>3, <4>1 DEF Counted
    <3> QED BY <3>2, <3>3, <3>4
  <2>4. \A k \in Jobs : job[k] # Free => ~job[k].snap.sla_breached
    BY <2>2 DEF NewRow
  <2> QED BY <1>1, <2>1, <2>3, <2>4 DEF BreachInv, Init
<1>2. ASSUME BreachInv, [Next]_vars PROVE BreachInv'
  <2>1. TypeInv'
    BY <1>2, StepTypeInv DEF BreachInv
  <2>2. \A t \in Tickets : Counted(t)'
    BY <1>2, MonitorCounts
  <2>3. \A m \in Monitors : scan'[m] \subseteq overdue'
    <3>1. \A m \in Monitors : scan'[m] \subseteq Tickets
      BY <2>1 DEF TypeInv, TypeOK
    <3> QED BY <1>2, <3>1, MonitorCounts
  <2>4. \A t \in Tickets : ticket'[t].sla_breached => Due(t)'
    BY <1>2, RowsDue
  <2>5. \A k \in Jobs : job'[k] # Free /\ job'[k].snap.sla_breached => Due(job[k].ticket)'
    BY <1>2, SlotsDue
  <2> QED BY <2>1, <2>2, <2>3, <2>4, <2>5 DEF BreachInv
<1> QED BY <1>1, <1>2

(* Only an overdue ticket is flagged, and a flagged one has its event or is *)
(* about to get it from the check_sla that flagged it, unless one stopped   *)
(* between the two; no execution adds two events for a ticket, however many *)
(* overlap and however often a stale full-row save takes the flag off again *)
(* (tasks/sla.py).                                                          *)
THEOREM BreachesAreAccounted == Spec => []BreachesAccounted
<1>1. ASSUME BreachInv PROVE BreachesAccounted
  <2>1. ASSUME NEW t \in Tickets PROVE breachEvents[t] <= used["scans"]
    <3>1. Cardinality(Scanning(t)) \in Nat
      BY MonitorsAssumption, FS_Subset, FS_CardinalityType, Scanning(t) \subseteq Monitors
         DEF Scanning
    <3>2. breachEvents[t] \in Nat /\ used["scans"] \in Nat
      BY <1>1 DEF BreachInv, TypeInv, TypeOK, Disturbances
    <3> QED BY <1>1, <3>1, <3>2 DEF BreachInv, Counted
  <2> QED BY <1>1, <2>1 DEF BreachInv, BreachesAccounted, Counted, Due
<1> QED BY <1>1, BreachInductive, PTL DEF Spec

-----------------------------------------------------------------------------
(* The lifecycle of a ticket's status: one job at a time works on it, and   *)
(* what the job is at says what the status is.                              *)

(* No worker dies and no admin interferes. *)
Undisturbed == \A d \in {"crashes", "reprocesses", "overrides"} : Limit[d] = 0

(* The status of the ticket that job x works on. *)
Fits(x, status) ==
  /\ x.pc = "park" \/ x.task = "record_dead_letter" => status = "failed"
  /\ x.pc # "park" =>
       /\ x.task = "run_pipeline" => status = "received"
       /\ x.task = "store_raw_email" =>
            status = IF x.pc = "done" THEN "processing" ELSE "received"
       /\ x.task \in {"extract_attachments", "parse_user_info", "run_document_extraction"} =>
            /\ status = "processing"
            /\ x.pc \in {"ocr", "save"} => x.snap.status = "processing"
       /\ x.task = "run_validation" =>
            /\ status \in {"processing", "awaiting_validation"} \cup Decisions
            /\ x.pc \in {"decide", "save"} => status = "awaiting_validation"
            /\ x.pc = "save" => x.snap.status \in Decisions
            /\ x.pc \in {"notify", "done"} => status \in Decisions

StatusOf(j) == ticket[job[j].ticket].status

LifeInv ==
  /\ TypeInv
  /\ \A t \in Tickets : handler[t] = "idle"
  /\ \A j, k \in Jobs : job[j] # Free /\ job[k] # Free /\ job[j].ticket = job[k].ticket => j = k
  /\ \A j \in Jobs : job[j] # Free => Fits(job[j], StatusOf(j))

(* What TicketLifecycle lets a status do. *)
Allowed(from, to) ==
  \/ to = from
  \/ from = "received" /\ to = "processing"
  \/ from = "processing" /\ to = "awaiting_validation"
  \/ from = "awaiting_validation" /\ to \in Decisions
  \/ from \in Decisions /\ to = "awaiting_validation"
  \/ from \in Unresolved \cup Decisions /\ to = "failed"

(* A worker's step leaves the status as its job then says, by a move the    *)
(* lifecycle has.                                                           *)
Follows(j) ==
  /\ Allowed(StatusOf(j), ticket'[job[j].ticket].status)
  /\ \/ job'[j] = Free
     \/ /\ job'[j].ticket = job[j].ticket
        /\ Fits(job'[j], ticket'[job[j].ticket].status)

Writes(j) ==
  StoreSave(j) \/ ParseSave(j) \/ OcrSave(j) \/ AwaitValidation(j) \/ SaveOutcome(j)

(* The statements of a stage that leave the tickets table alone. *)
LEMMA ReadsFollow ==
  ASSUME TypeOK, NEW j \in Jobs, Fits(job[j], StatusOf(j)), Stage(j), ~Writes(j), UNCHANGED ticket
  PROVE  Follows(j)
<1>1. job[j].pc # "free" /\ job[j] \in Job
  BY WorkBusy, BusyTyped DEF Work
<1>2. Allowed(StatusOf(j), ticket'[job[j].ticket].status)
  BY DEF Allowed, StatusOf
<1>3. job'[j].ticket = job[j].ticket /\ job'[j].task = job[j].task
  BY StageKeeps
<1>4. job[j].ticket \in Tickets /\ ticket[job[j].ticket] \in Row
  BY <1>1 DEF TypeOK, Job
<1> SUFFICES Fits(job'[j], StatusOf(j))
  BY <1>2, <1>3 DEF Follows, StatusOf
<1>5. CASE RunPipeline(j) \/ StoreRead(j) \/ ExtractRead(j)
  <2>1. PICK l \in {"done", "save", "check"} :
           Goto(j, l) /\ (l = "check" => job[j].task = "extract_attachments")
                      /\ (l = "save" => job[j].task = "store_raw_email")
                      /\ (job[j].task = "store_raw_email" /\ l = "done" => StatusOf(j) # "received")
    BY <1>5 DEF RunPipeline, StoreRead, ExtractRead, At, StatusOf
  <2>2. job[j].task \in {"run_pipeline", "store_raw_email", "extract_attachments"} /\ job[j].pc = "queued"
    BY <1>5 DEF RunPipeline, StoreRead, ExtractRead, At
  <2> QED BY <1>1, <1>3, <2>1, <2>2, AfterGoto DEF Fits
<1>6. CASE CheckAttachment(j) \/ CreateDocument(j)
  <2>1. job[j].task = "extract_attachments" /\ job[j].pc \in {"check", "create"}
    BY <1>6 DEF CheckAttachment, CreateDocument, At
  <2>2. (\E l \in {"create", "done", "retry", "mark_failed"} : Goto(j, l)) \/ NextAttachment(j)
    BY <1>6 DEF CheckAttachment, CreateDocument, Raised
  <2> QED BY <1>1, <1>3, <2>1, <2>2, AfterGoto, AfterNextAttachment DEF Fits
<1>7. CASE ParseNotify(j) \/ OcrNotify(j) \/ NotifyOutcome(j)
  <2>1. job[j].pc = "notify" /\ Goto(j, "done")
        /\ job[j].task \in {"parse_user_info", "run_document_extraction", "run_validation"}
    BY <1>7 DEF ParseNotify, OcrNotify, NotifyOutcome, Notify
  <2> QED BY <1>1, <1>3, <2>1, AfterGoto DEF Fits
<1>8. CASE ParseRead(j) \/ OcrRead(j) \/ ValidationRead(j)
  <2>1. PICK row, l : KeepRow(j, row, l) /\ l \in {"save", "ocr", "await"}
                      /\ (job[j].task = "parse_user_info" => l = "save" /\ row.status = "processing")
                      /\ (job[j].task = "run_document_extraction" => l = "ocr" /\ row.status = StatusOf(j))
                      /\ (job[j].task = "run_validation" => l = "await")
    BY <1>4, <1>8 DEF ParseRead, OcrRead, ValidationRead, At, Row, StatusOf
  <2>2. job[j].task \in {"parse_user_info", "run_document_extraction", "run_validation"} /\ job[j].pc = "queued"
    BY <1>8 DEF ParseRead, OcrRead, ValidationRead, At
  <2> QED BY <1>1, <1>3, <2>1, <2>2, AfterKeepRow DEF Fits
<1>9. CASE OcrDocuments(j)
  <2>1. job[j].task = "run_document_extraction" /\ job[j].pc = "ocr"
    BY <1>9 DEF OcrDocuments, At
  <2>2. job[j].snap \in Row
    BY <1>1 DEF Job
  <2>3. ASSUME NEW d, KeepRow(j, [job[j].snap EXCEPT !.document = d], "save")
        PROVE  Fits(job'[j], StatusOf(j))
    <3> DEFINE row == [job[j].snap EXCEPT !.document = d]
    <3>1. row.status = job[j].snap.status
      BY <2>2 DEF Row
    <3> HIDE DEF row
    <3>2. KeepRow(j, row, "save")
      BY <2>3 DEF row
    <3> QED BY <1>1, <1>3, <2>1, <3>1, <3>2, AfterKeepRow DEF Fits
  <2>4. Goto(j, "notify") => Fits(job'[j], StatusOf(j))
    BY <1>1, <1>3, <2>1, AfterGoto DEF Fits
  <2> QED BY <1>9, <2>3, <2>4 DEF OcrDocuments
<1>10. CASE RunValidation(j)
  <2>1. job[j].task = "run_validation" /\ job[j].pc = "decide" /\ job[j].snap \in Row
    BY <1>1, <1>10 DEF RunValidation, At, Job
  <2>2. PICK duplicate :
           KeepRow(j, [job[j].snap EXCEPT
                         !.status = Decision(job[j].ticket, job[j].snap, duplicate),
                         !.duplicate_of = IF duplicate = None THEN @ ELSE duplicate],
                   "save")
    BY <1>10 DEF RunValidation
  <2> DEFINE s == Decision(job[j].ticket, job[j].snap, duplicate)
             u == IF duplicate = None THEN job[j].snap.duplicate_of ELSE duplicate
             row == [job[j].snap EXCEPT !.status = s, !.duplicate_of = u]
  <2>3. KeepRow(j, row, "save")
    BY <2>2
  <2>4. s \in Decisions
    BY DEF Decision, Decisions
  <2> HIDE DEF s, u
  <2>5. row.status = s
    BY <2>1 DEF Row
  <2> HIDE DEF row
  <2> QED BY <1>1, <1>3, <2>1, <2>3, <2>4, <2>5, AfterKeepRow DEF Fits
<1> QED BY <1>5, <1>6, <1>7, <1>8, <1>9, <1>10 DEF Stage, Writes

(* The statements that write it. *)
LEMMA WritesFollow ==
  ASSUME TypeOK, NEW j \in Jobs, Fits(job[j], StatusOf(j)), Writes(j)
  PROVE  Follows(j)
<1> DEFINE t == job[j].ticket
<1>1. job[j].pc # "free" /\ job[j] \in Job /\ Stage(j)
  BY WorkBusy, BusyTyped DEF Work, Stage, Writes
<1>2. job'[j].ticket = t /\ job'[j].task = job[j].task
  BY <1>1, StageKeeps
<1>3. t \in Tickets /\ ticket[t] \in Row /\ ticket = [u \in Tickets |-> ticket[u]]
  BY <1>1 DEF TypeOK, Job
<1>4. CASE StoreSave(j) \/ AwaitValidation(j)
  <2>1. PICK s \in {"processing", "awaiting_validation"} :
           /\ ticket' = [ticket EXCEPT ![t].status = s]
           /\ s = "processing" => At(j, "store_raw_email", "save") /\ Goto(j, "done")
           /\ s = "awaiting_validation" => At(j, "run_validation", "await") /\ Goto(j, "decide")
    BY <1>4 DEF StoreSave, AwaitValidation
  <2>2. ticket'[t].status = s
    BY <1>3, <2>1 DEF Row
  <2> HIDE DEF t
  <2>3. Allowed(ticket[t].status, s) /\ Fits(job'[j], s)
    BY <1>1, <1>2, <2>1, AfterGoto DEF At, Allowed, Fits, StatusOf, t
  <2> QED BY <1>2, <2>2, <2>3 DEF Follows, StatusOf, t
<1>5. CASE ParseSave(j) \/ OcrSave(j) \/ SaveOutcome(j)
  <2>1. SaveRow(j) /\ job[j].task \in LateStages
    BY <1>5 DEF ParseSave, OcrSave, SaveOutcome, LateStages
  <2>2. ticket'[t] = job[j].snap /\ job[j].pc = "save"
    BY <1>3, <2>1 DEF SaveRow
  <2>3. job'[j].pc = "notify"
    BY <1>1, <2>1, AfterGoto DEF SaveRow
  <2>4. Allowed(StatusOf(j), job[j].snap.status) /\ Fits(job'[j], job[j].snap.status)
    BY <1>2, <2>1, <2>2, <2>3 DEF Allowed, Fits, LateStages
  <2> QED BY <1>2, <2>2, <2>4 DEF Follows
<1> QED BY <1>4, <1>5 DEF Writes

(* Every step of a worker follows the lifecycle.                            *)
LEMMA WorkFollows ==
  ASSUME TypeOK, NEW j \in Jobs, Fits(job[j], StatusOf(j)), Work(j)
  PROVE  Follows(j)
<1> DEFINE t == job[j].ticket
<1>1. job[j].pc # "free" /\ job[j] \in Job
  BY WorkBusy, BusyTyped
<1>2. t \in Tickets /\ ticket[t] \in Row /\ ticket = [u \in Tickets |-> ticket[u]]
  BY <1>1 DEF TypeOK, Job
<1>3. CASE Stage(j)
  <2>1. Writes(j) \/ UNCHANGED ticket
    BY <1>3 DEF Writes, Stage, RunPipeline, StoreRead, ExtractRead, CheckAttachment,
       CreateDocument, ParseRead, ParseNotify, OcrRead, OcrDocuments, OcrNotify,
       ValidationRead, RunValidation, NotifyOutcome, Notify
  <2> QED BY <1>3, <2>1, ReadsFollow, WritesFollow
<1>4. CASE HandOff(j)
  <2>1. job'[j] = Published(j) /\ Publishes(j) /\ UNCHANGED ticket
    BY <1>4, AfterPut DEF HandOff
  <2>2. /\ Published(j).ticket = t /\ Published(j).pc = "queued"
        /\ Published(j).task = CASE job[j].pc = "retry" -> job[j].task
                                 [] job[j].pc = "park"  -> "record_dead_letter"
                                 [] OTHER               -> Successor(job[j].task)
    BY DEF Published, Message
  <2>3. Fits(Published(j), StatusOf(j))
    BY <1>1, <2>1, <2>2 DEF Fits, Publishes, Successor, Job, Tasks, Stages
  <2> QED BY <2>1, <2>2, <2>3 DEF Follows, Allowed, StatusOf
<1>5. CASE Finish(j)
  BY <1>5, AfterPut DEF Finish, Follows, Allowed, StatusOf
<1>6. CASE MarkFailed(j)
  <2>1. ticket'[t].status = "failed" /\ job'[j].pc = "park" /\ job'[j].ticket = t
    BY <1>1, <1>2, <1>6, AfterGoto DEF MarkFailed, Row
  <2>2. ticket[t].status \in Unresolved \cup Decisions \cup {"failed"}
    BY <1>2 DEF Row, Statuses
  <2> QED BY <2>1, <2>2 DEF Follows, Allowed, Fits, StatusOf
<1>7. CASE RecordDeadLetter(j)
  <2>1. job'[j].task = "record_dead_letter" /\ job'[j].ticket = t /\ job'[j].pc = "done"
        /\ job[j].task = "record_dead_letter" /\ UNCHANGED ticket
    BY <1>1, <1>7, AfterGoto DEF RecordDeadLetter, At
  <2> QED BY <2>1 DEF Follows, Allowed, Fits, StatusOf
<1> QED BY <1>3, <1>4, <1>5, <1>6, <1>7 DEF Work

(* The status that every ticket has for TicketLifecycle. *)
LEMMA OneStatusMoves ==
  ASSUME TypeOK, NEW t \in Tickets, Allowed(ticket[t].status, ticket'[t].status),
         \A u \in Tickets \ {t} : ticket'[u].status = ticket[u].status
  PROVE  Lifecycle!Next \/ UNCHANGED [u \in Tickets |-> ticket[u].status]
<1> DEFINE old == [u \in Tickets |-> ticket[u].status]
           new == [u \in Tickets |-> ticket'[u].status]
<1>1. new = [old EXCEPT ![t] = ticket'[t].status] /\ old[t] = ticket[t].status
  OBVIOUS
<1>2. CASE ticket'[t].status = ticket[t].status
  <2>1. \A u \in Tickets : ticket'[u].status = ticket[u].status
    BY <1>2
  <2> QED BY <2>1
<1>3. CASE ticket'[t].status # ticket[t].status
  <2>1. Lifecycle!Progress(t) \/ Lifecycle!Review(t) \/ Lifecycle!GiveUpReview(t)
    BY <1>1, <1>3
       DEF Allowed, Decisions, Unresolved, Lifecycle!Progress, Lifecycle!Review,
           Lifecycle!GiveUpReview, Lifecycle!Start, Lifecycle!Await, Lifecycle!Decide,
           Lifecycle!GiveUp, Lifecycle!Move, Lifecycle!Decided, Lifecycle!Open
  <2> QED BY <2>1 DEF Lifecycle!Next
<1> QED BY <1>2, <1>3

(* Undisturbed, a step is a worker's or the SLA monitor's, an exception or  *)
(* a loss.                                                                  *)
LEMMA CalmSteps ==
  ASSUME Undisturbed, LifeInv, [Next]_vars
  PROVE  \/ \E j \in Jobs : Work(j) \/ StageFails(j) \/ Lose(j)
         \/ UNCHANGED <<job, handler>> /\ \A t \in Tickets : ticket'[t].status = ticket[t].status
<1>1. \A d \in {"crashes", "reprocesses", "overrides"} : ~Spend(d)
  <2>1. used \in [Disturbances -> Nat]
    BY DEF LifeInv, TypeInv, TypeOK
  <2> QED BY <2>1 DEF Undisturbed, Spend, Disturbances
<1>2. ASSUME NEW j \in Jobs, Trouble(j) PROVE StageFails(j) \/ Lose(j)
  BY <1>1, <1>2 DEF Trouble, Crash, CrashAfterHandOff
<1>3. ASSUME NEW t \in Tickets, Admin(t) PROVE FALSE
  BY <1>1, <1>3 DEF Admin, UpdateStatus, Reprocess, Serve, CloseDeadLetters, DispatchAgain,
                    LoseRequest, LifeInv
<1>4. CASE Sla \/ UNCHANGED vars
  <2>1. UNCHANGED <<job, handler>>
    BY <1>4 DEF Sla, CheckSla, StopSla, DeadlinePasses, FlagBreach, NoteBreach, adminVars, vars
  <2>2. UNCHANGED ticket \/ \E t : ticket' = [ticket EXCEPT ![t].sla_breached = TRUE]
    BY <1>4 DEF Sla, CheckSla, StopSla, DeadlinePasses, FlagBreach, NoteBreach, vars
  <2>3. ticket \in [Tickets -> Row]
    BY DEF LifeInv, TypeInv, TypeOK
  <2>4. \A t \in Tickets : ticket'[t].status = ticket[t].status
    BY <2>2, <2>3 DEF Row
  <2> QED BY <2>1, <2>4
<1> QED BY <1>2, <1>3, <1>4 DEF Next

(* An exception and a loss leave the status as it was. *)
LEMMA TroubleFollows ==
  ASSUME TypeOK, NEW j \in Jobs, Fits(job[j], StatusOf(j)), StageFails(j) \/ Lose(j)
  PROVE  Follows(j) /\ UNCHANGED <<ticket, handler>> /\ \A k \in Jobs \ {j} : job'[k] = job[k]
<1>1. UNCHANGED <<ticket, handler>>
  BY DEF StageFails, Lose, adminVars
<1>2. CASE Lose(j)
  BY <1>1, <1>2, AfterPut DEF Lose, Follows, Allowed, StatusOf
<1>3. CASE StageFails(j)
  <2>1. job[j].pc # "free"
    BY <1>3 DEF StageFails, InBody, Stages, TypeOK, Job, Pcs, Free
  <2>2. PICK l \in {"retry", "mark_failed"} : Goto(j, l)
    BY <1>3 DEF StageFails, Raised
  <2>3. job[j].task \in Stages /\ job[j].pc \notin {"done", "park"}
    BY <1>3 DEF StageFails, InBody
  <2>4. Fits(job'[j], StatusOf(j))
    BY <2>1, <2>2, <2>3, AfterGoto DEF Fits, Stages
  <2> QED BY <1>1, <2>1, <2>2, <2>4, AfterGoto DEF Follows, Allowed, StatusOf
<1> QED BY <1>2, <1>3

(* One job's step keeps what every job says of its ticket. *)
LEMMA JobStepKeeps ==
  ASSUME LifeInv, TypeInv', NEW j \in Jobs, job[j] # Free, Follows(j), UNCHANGED handler,
         \A k \in Jobs \ {j} : job'[k] = job[k],
         \A u \in Tickets \ {job[j].ticket} : ticket'[u] = ticket[u]
  PROVE  LifeInv'
<1>1. job'[j] = Free \/ job'[j].ticket = job[j].ticket
  BY DEF Follows
<1>2. ASSUME NEW i \in Jobs, NEW k \in Jobs, job'[i] # Free, job'[k] # Free,
             job'[i].ticket = job'[k].ticket
      PROVE  i = k
  BY <1>1, <1>2 DEF LifeInv
<1>3. ASSUME NEW k \in Jobs, job'[k] # Free
      PROVE  Fits(job'[k], ticket'[job'[k].ticket].status)
  <2>1. CASE k = j
    BY <1>3, <2>1 DEF Follows
  <2>2. CASE k # j
    <3>1. job'[k] = job[k] /\ job[k].ticket # job[j].ticket
      BY <1>3, <2>2 DEF LifeInv
    <3>2. job[k].ticket \in Tickets
      BY <1>3, <3>1 DEF LifeInv, TypeInv, TypeOK, Job
    <3> QED BY <1>3, <3>1, <3>2 DEF LifeInv, StatusOf
  <2> QED BY <2>1, <2>2
<1> QED BY <1>2, <1>3 DEF LifeInv, StatusOf

(* What one calm step does, and that the lifecycle has it. *)
LEMMA CalmStep ==
  ASSUME Undisturbed, LifeInv, [Next]_vars
  PROVE  LifeInv' /\ (Lifecycle!Next \/ UNCHANGED [t \in Tickets |-> ticket[t].status])
<1>1. TypeOK /\ TypeInv'
  BY StepTypeInv DEF LifeInv, TypeInv
<1>2. ASSUME NEW j \in Jobs, Work(j) \/ StageFails(j) \/ Lose(j)
      PROVE  LifeInv' /\ (Lifecycle!Next \/ UNCHANGED [t \in Tickets |-> ticket[t].status])
  <2>1. job[j] # Free
    BY <1>1, <1>2, WorkBusy
       DEF StageFails, InBody, Stages, Lose, Publishes, At, Free
  <2>2. Fits(job[j], StatusOf(j)) /\ job[j].ticket \in Tickets
    BY <1>1, <2>1 DEF LifeInv, TypeOK, Job
  <2>3. /\ Follows(j) /\ UNCHANGED handler
        /\ \A k \in Jobs \ {j} : job'[k] = job[k]
        /\ \A u \in Tickets \ {job[j].ticket} : ticket'[u] = ticket[u]
    BY <1>1, <1>2, <2>2, WorkFollows, WorkLocal, TroubleFollows
  <2>4. LifeInv'
    BY <1>1, <2>1, <2>3, JobStepKeeps
  <2>5. Lifecycle!Next \/ UNCHANGED [t \in Tickets |-> ticket[t].status]
    BY <1>1, <2>2, <2>3, OneStatusMoves DEF Follows, StatusOf
  <2> QED BY <2>4, <2>5
<1>3. CASE UNCHANGED <<job, handler>> /\ \A t \in Tickets : ticket'[t].status = ticket[t].status
  <2>1. \A j \in Jobs : job[j] # Free => job[j].ticket \in Tickets
    BY <1>1 DEF TypeOK, Job
  <2> QED BY <1>1, <1>3, <2>1 DEF LifeInv, StatusOf
<1> QED BY <1>2, <1>3, CalmSteps

(* The pipeline starts where the lifecycle starts.                          *)
LEMMA CalmInit ==
  ASSUME Init
  PROVE  LifeInv /\ Lifecycle!Init
<1>1. \A t \in Tickets : ticket[t].status = "received" /\ handler[t] = "idle"
  BY DEF Init, NewRow
<1>2. PICK first \in [Tickets -> Jobs] :
         /\ \A t, u \in Tickets : first[t] = first[u] => t = u
         /\ job = [j \in Jobs |->
                    IF \E t \in Tickets: first[t] = j
                    THEN Message("run_pipeline", CHOOSE t \in Tickets: first[t] = j, 0)
                    ELSE Free]
  BY DEF Init
<1>3. ASSUME NEW j \in Jobs, job[j] # Free
      PROVE  /\ job[j].ticket \in Tickets /\ first[job[j].ticket] = j
             /\ job[j].task = "run_pipeline" /\ job[j].pc = "queued"
  <2>1. \E t \in Tickets : first[t] = j
    BY <1>2, <1>3
  <2> DEFINE t == CHOOSE u \in Tickets : first[u] = j
  <2>2. t \in Tickets /\ first[t] = j
    BY <2>1
  <2>3. job[j] = Message("run_pipeline", t, 0)
    BY <1>2, <2>1
  <2> HIDE DEF t
  <2> QED BY <2>2, <2>3 DEF Message
<1>4. ASSUME NEW j \in Jobs, job[j] # Free  PROVE Fits(job[j], StatusOf(j))
  BY <1>1, <1>3, <1>4 DEF Fits, StatusOf
<1>5. \A j, k \in Jobs : job[j] # Free /\ job[k] # Free /\ job[j].ticket = job[k].ticket => j = k
  BY <1>3
<1>6. Lifecycle!Init
  BY <1>1 DEF Lifecycle!Init
<1> QED BY <1>1, <1>4, <1>5, <1>6, InitTypeInv DEF LifeInv

(* While no worker dies and no admin interferes, the pipeline implements    *)
(* the ticket lifecycle: retries and failures never move a status back to   *)
(* processing nor out of failed (tasks/pipeline.py, base.py, failures.py).  *)
THEOREM LifecycleFollowed ==
  ASSUME Undisturbed
  PROVE  Spec => ImplementsLifecycle
<1>1. Init => LifeInv /\ Lifecycle!Init
  BY CalmInit
<1>2. LifeInv /\ [Next]_vars
        => LifeInv' /\ (Lifecycle!Next \/ UNCHANGED [t \in Tickets |-> ticket[t].status])
  BY CalmStep
<1> QED BY <1>1, <1>2, PTL DEF Spec, ImplementsLifecycle, Lifecycle!Spec
=============================================================================
