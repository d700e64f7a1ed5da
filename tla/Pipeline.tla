------------------------------- MODULE Pipeline -------------------------------
(***************************************************************************)
(* The onboarding pipeline: the Celery chain that takes a ticket from       *)
(* "received" to a decision, the retries and the dead-letter queue around   *)
(* it, and the three actors that write the same ticket row meanwhile: the   *)
(* admin endpoints (reprocess, status override) and the SLA monitor.        *)
(*                                                                         *)
(* Every ORM statement of a task is a step of its own (the tasks run in     *)
(* autocommit mode), so what a task read is a snapshot that may be stale    *)
(* when it saves.  A broker message and the worker execution it causes are  *)
(* one job slot: "queued", then at the statement named by pc.               *)
(*                                                                         *)
(* Redelivery: with acks_late and reject_on_worker_lost a message whose     *)
(* worker dies is delivered again; the next message of a chain is published *)
(* before the acknowledgement, so a crash between the two forks the chain.  *)
(***************************************************************************)
EXTENDS Naturals, Sequences, FiniteSets

CONSTANTS
    Tickets,     \* ticket ids: an id orders its ticket against the others
    Jobs,        \* slots for messages and executions (a bound)
    Digests,     \* content hashes of attachments
    Monitors,    \* slots for executions of check_sla (a bound)
    None,        \* "no document", "no ticket", "no applicant"
    Attached,    \* Attached[t]: the attachments of t's email, in order
    FormatValid, \* the digests whose bytes are of the declared format
    Applicant,   \* Applicant[t]: the (email, phone) in t's body, None unless both
    DocNumber,   \* DocNumber[d]: the identity number printed on d, or None
    Agrees,      \* Agrees[t]: the digests whose fields agree with t's body
    MaxRetries,  \* PipelineTask.max_retries
    Limit        \* how often each disturbance may happen (a bound)

Stages == {"store_raw_email", "extract_attachments", "parse_user_info",
           "run_document_extraction", "run_validation"}

Tasks == Stages \cup {"run_pipeline", "record_dead_letter"}

Disturbances == {"failures", "crashes", "losses", "reprocesses", "overrides", "scans"}

ASSUME TicketsAssumption == Tickets \subseteq Nat
ASSUME NoneAssumption == None \notin Digests /\ None \notin Tickets
ASSUME MonitorsAssumption == IsFiniteSet(Monitors)
ASSUME EmailAssumption ==
    /\ Attached \in [Tickets -> Seq(Digests)]
    /\ FormatValid \subseteq Digests
    /\ Agrees \in [Tickets -> SUBSET Digests]
ASSUME BoundsAssumption == MaxRetries \in Nat /\ Limit \in [Disturbances -> Nat]

Decisions == {"approved", "rejected", "requires_manual_review"}
Terminal == {"approved", "rejected"}
Unresolved == {"received", "processing", "awaiting_validation"}
Statuses == Unresolved \cup Decisions \cup {"failed"}

(* The columns of a ticket row that the tasks read or write.  parsed: the   *)
(* body's fields are stored (parsed_source.email and the applicant's        *)
(* contact); document: the document parsed_source.document was read from.   *)
Row == [status: Statuses, parsed: BOOLEAN, document: Digests \cup {None},
        duplicate_of: Tickets \cup {None}, sla_breached: BOOLEAN]

NewRow == [status |-> "received", parsed |-> FALSE, document |-> None,
           duplicate_of |-> None, sla_breached |-> FALSE]

(* "done": the body returned and its successor is not yet published;        *)
(* "retry", "mark_failed", "park": the steps after an exception.            *)
Pcs == {"queued", "save", "check", "create", "ocr", "await", "decide", "notify",
        "done", "retry", "mark_failed", "park"}

Job == [task: Tasks, ticket: Tickets, tries: Nat, pc: Pcs, snap: Row,
        at: Nat \ {0}]

Free == [task |-> "none", pc |-> "free"]

Message(task, t, tries) ==
    [task |-> task, ticket |-> t, tries |-> tries, pc |-> "queued",
     snap |-> NewRow, at |-> 1]

Templates == {"onboarding_received", "documents_processed", "validation_passed",
              "ticket_approved", "ticket_rejected", "documents_missing",
              "validation_failed"}

VARIABLES
    ticket,       \* the tickets table
    docs,         \* docs[t]: the sha256 of t's Document rows
    deadLetter,   \* deadLetter[t]: t has a DeadLetter row with reprocessed = False
    mails,        \* mails[t]: the templates queued for t's applicant
    job,          \* broker messages and running executions
    handler,      \* handler[t]: where a reprocess request on t is
    overdue,      \* tickets whose sla_due_at has passed
    scan,         \* scan[m]: tickets that check_sla m has still to deal with
    noting,       \* noting[m]: the one of them m has flagged and not yet noted
    breachEvents, \* breachEvents[t]: the sla_breached events on t's timeline
    unnoted,      \* tickets flagged by a check_sla that stopped before the event
    overridden,   \* tickets with an admin override on their timeline
    lost,         \* tickets one of whose messages was dropped for good
    used          \* the disturbances spent so far

vars == <<ticket, docs, deadLetter, mails, job, handler, overdue, scan, noting,
          breachEvents, unnoted, overridden, lost, used>>

rowVars == <<docs, deadLetter, mails>>
adminVars == <<handler, overridden>>
slaVars == <<overdue, scan, noting, breachEvents, unnoted>>

Init ==
    /\ ticket = [t \in Tickets |-> NewRow]
    /\ docs = [t \in Tickets |-> {}]
    /\ deadLetter = [t \in Tickets |-> FALSE]
    /\ mails = [t \in Tickets |-> {}]
    /\ \E first \in [Tickets -> Jobs]:
          /\ \A t, u \in Tickets: first[t] = first[u] => t = u
          /\ job = [j \in Jobs |->
                       IF \E t \in Tickets: first[t] = j
                       THEN Message("run_pipeline", CHOOSE t \in Tickets: first[t] = j, 0)
                       ELSE Free]
    /\ handler = [t \in Tickets |-> "idle"]
    /\ overdue = {}
    /\ scan = [m \in Monitors |-> {}] /\ noting = [m \in Monitors |-> None]
    /\ breachEvents = [t \in Tickets |-> 0] /\ unnoted = {}
    /\ overridden = {} /\ lost = {}
    /\ used = [d \in Disturbances |-> 0]

Spend(d) == used[d] < Limit[d] /\ used' = [used EXCEPT ![d] = @ + 1]

-----------------------------------------------------------------------------
(* Messages: hand-off to the next task, retry, failure, loss, crash.        *)

At(j, task, pc) == job[j].task = task /\ job[j].pc = pc

Goto(j, pc) == job' = [job EXCEPT ![j].pc = pc]

(* Mutant: stages 3 and 4 swapped. *)
SuccessorSwapped(task) ==
    CASE task = "run_pipeline"            -> "store_raw_email"
      [] task = "store_raw_email"         -> "extract_attachments"
      [] task = "extract_attachments"     -> "run_document_extraction"
      [] task = "run_document_extraction" -> "parse_user_info"
      [] task = "parse_user_info"         -> "run_validation"
      [] OTHER                            -> "none"

(* Mutant: the function's name in place of the registered task name. *)
SuccessorMisnamed(task) ==
    CASE task = "run_pipeline"            -> "store_raw_email"
      [] task = "store_raw_email"         -> "extract_attachments"
      [] task = "extract_attachments"     -> "parse_user_info"
      [] task = "parse_user_info"         -> "run_document_extraction"
      [] task = "run_document_extraction" -> "run_validation_task"
      [] OTHER                            -> "none"

(* The task whose message the chain publishes when this one returns. *)
Successor(task) ==
    CASE task = "run_pipeline"            -> "store_raw_email"
      [] task = "store_raw_email"         -> "extract_attachments"
      [] task = "extract_attachments"     -> "parse_user_info"
      [] task = "parse_user_info"         -> "run_document_extraction"
      [] task = "run_document_extraction" -> "run_validation"
      [] OTHER                            -> "none"

Publishes(j) ==
    \/ job[j].pc \in {"retry", "park"}
    \/ job[j].pc = "done" /\ Successor(job[j].task) # "none"

(* The message that job j publishes before its own is acknowledged. *)
Published(j) ==
    CASE job[j].pc = "retry" -> Message(job[j].task, job[j].ticket, job[j].tries + 1)
      [] job[j].pc = "park"  -> Message("record_dead_letter", job[j].ticket, 0)
      [] OTHER               -> Message(Successor(job[j].task), job[j].ticket, 0)

Redelivered(j) == Message(job[j].task, job[j].ticket, job[j].tries)

(* Publish the successor and acknowledge: it takes over the slot. *)
HandOff(j) ==
    /\ Publishes(j)
    /\ job' = [job EXCEPT ![j] = Published(j)]
    /\ UNCHANGED <<ticket, rowVars, adminVars, slaVars, lost, used>>

(* The last task of a chain, or a dead letter, is acknowledged. *)
Finish(j) ==
    /\ job[j].pc = "done" /\ ~Publishes(j)
    /\ job' = [job EXCEPT ![j] = Free]
    /\ UNCHANGED <<ticket, rowVars, adminVars, slaVars, lost, used>>

(* Mutant: the last failure is parked without marking the ticket failed. *)
RaisedUnmarked(j) == Goto(j, IF job[j].tries < MaxRetries THEN "retry" ELSE "park")

(* An exception in a stage's body: autoretry while retries are left, then   *)
(* on_failure.                                                              *)
Raised(j) == Goto(j, IF job[j].tries < MaxRetries THEN "retry" ELSE "mark_failed")

InBody(j) ==
    /\ job[j].task \in Stages
    /\ job[j].pc \notin {"done", "retry", "mark_failed", "park"}

StageFails(j) ==
    /\ InBody(j)
    /\ Spend("failures")
    /\ Raised(j)
    /\ UNCHANGED <<ticket, rowVars, adminVars, slaVars, lost>>

(* Mutant: the failed ticket is not put on the dead-letter queue. *)
MarkFailedUnparked(j) ==
    /\ job[j].pc = "mark_failed"
    /\ ticket' = [ticket EXCEPT ![job[j].ticket].status = "failed"]
    /\ job' = [job EXCEPT ![j] = Free]
    /\ UNCHANGED <<rowVars, adminVars, slaVars, lost, used>>

(* mark_failed: update_fields=["status"], then the dead letter is published. *)
MarkFailed(j) ==
    /\ job[j].pc = "mark_failed"
    /\ ticket' = [ticket EXCEPT ![job[j].ticket].status = "failed"]
    /\ Goto(j, "park")
    /\ UNCHANGED <<rowVars, adminVars, slaVars, lost, used>>

RecordDeadLetter(j) ==
    /\ At(j, "record_dead_letter", "queued")
    /\ deadLetter' = [deadLetter EXCEPT ![job[j].ticket] = TRUE]
    /\ Goto(j, "done")
    /\ UNCHANGED <<ticket, docs, mails, adminVars, slaVars, lost, used>>

(* What nothing retries: an error while a message is published (the task is *)
(* acknowledged all the same), in mark_failed, or in record_dead_letter.    *)
Lose(j) ==
    /\ \/ Publishes(j)
       \/ job[j].pc = "mark_failed"
       \/ At(j, "record_dead_letter", "queued")
    /\ Spend("losses")
    /\ lost' = lost \cup {job[j].ticket}
    /\ job' = [job EXCEPT ![j] = Free]
    /\ UNCHANGED <<ticket, rowVars, adminVars, slaVars>>

(* Mutant: the message is acknowledged when it is received. *)
CrashAckedEarly(j) ==
    /\ job[j].pc \notin {"free", "queued"}
    /\ Spend("crashes")
    /\ job' = [job EXCEPT ![j] = Free]
    /\ UNCHANGED <<ticket, rowVars, adminVars, slaVars, lost>>

(* The worker dies: its message is delivered again with the same retries. *)
Crash(j) ==
    /\ job[j].pc \notin {"free", "queued"}
    /\ Spend("crashes")
    /\ job' = [job EXCEPT ![j] = Redelivered(j)]
    /\ UNCHANGED <<ticket, rowVars, adminVars, slaVars, lost>>

(* The worker dies after publishing and before the acknowledgement. *)
CrashAfterHandOff(j) ==
    /\ Publishes(j)
    /\ Spend("crashes")
    /\ \E k \in Jobs:
          /\ job[k] = Free
          /\ job' = [job EXCEPT ![j] = Redelivered(j), ![k] = Published(j)]
    /\ UNCHANGED <<ticket, rowVars, adminVars, slaVars, lost>>

-----------------------------------------------------------------------------
(* The chain.                                                               *)

(* The entry point: its body only publishes the chain. *)
RunPipeline(j) ==
    /\ At(j, "run_pipeline", "queued")
    /\ Goto(j, "done")
    /\ UNCHANGED <<ticket, rowVars, adminVars, slaVars, lost, used>>

(* Stage 1. *)
StoreRead(j) ==
    /\ At(j, "store_raw_email", "queued")
    /\ Goto(j, IF ticket[job[j].ticket].status = "received" THEN "save" ELSE "done")
    /\ UNCHANGED <<ticket, rowVars, adminVars, slaVars, lost, used>>

StoreSave(j) ==
    /\ At(j, "store_raw_email", "save")
    /\ ticket' = [ticket EXCEPT ![job[j].ticket].status = "processing"]
    /\ Goto(j, "done")
    /\ UNCHANGED <<rowVars, adminVars, slaVars, lost, used>>

(* Stage 2.  at is the attachment the loop is at; a hash seen earlier in    *)
(* the same email already has its Document row, so the row test covers      *)
(* seen_hashes.                                                             *)
Attachment(j) == Attached[job[j].ticket][job[j].at]

MoreAttachments(j) == job[j].at <= Len(Attached[job[j].ticket])

NextAttachment(j) == job' = [job EXCEPT ![j].at = @ + 1, ![j].pc = "check"]

ExtractRead(j) ==
    /\ At(j, "extract_attachments", "queued")
    /\ Goto(j, "check")
    /\ UNCHANGED <<ticket, rowVars, adminVars, slaVars, lost, used>>

(* Mutant: a known hash ends the loop instead of skipping the attachment. *)
CheckStopsAtKnown(j) ==
    /\ At(j, "extract_attachments", "check")
    /\ Goto(j, IF MoreAttachments(j) /\ Attachment(j) \notin docs[job[j].ticket]
               THEN "create" ELSE "done")
    /\ UNCHANGED <<ticket, rowVars, adminVars, slaVars, lost, used>>

CheckAttachment(j) ==
    /\ At(j, "extract_attachments", "check")
    /\ IF MoreAttachments(j)
       THEN IF Attachment(j) \in docs[job[j].ticket]
            THEN NextAttachment(j)
            ELSE Goto(j, "create")
       ELSE Goto(j, "done")
    /\ UNCHANGED <<ticket, rowVars, adminVars, slaVars, lost, used>>

(* uniq_ticket_sha256: a row another execution created since the check      *)
(* makes the INSERT fail, an exception like any other.                      *)
CreateDocument(j) ==
    /\ At(j, "extract_attachments", "create")
    /\ IF Attachment(j) \in docs[job[j].ticket]
       THEN Raised(j) /\ UNCHANGED docs
       ELSE /\ docs' = [docs EXCEPT ![job[j].ticket] = @ \cup {Attachment(j)}]
            /\ NextAttachment(j)
    /\ UNCHANGED <<ticket, deadLetter, mails, adminVars, slaVars, lost, used>>

(* A stage reads the whole row, keeps it, and later saves the whole row. *)
KeepRow(j, row, pc) == job' = [job EXCEPT ![j].snap = row, ![j].pc = pc]

SaveRow(j) ==
    /\ job[j].pc = "save"
    /\ ticket' = [ticket EXCEPT ![job[j].ticket] = job[j].snap]
    /\ Goto(j, "notify")
    /\ UNCHANGED <<rowVars, adminVars, slaVars, lost, used>>

Notify(j, templates) ==
    /\ job[j].pc = "notify"
    /\ mails' = [mails EXCEPT ![job[j].ticket] = @ \cup templates]
    /\ Goto(j, "done")
    /\ UNCHANGED <<ticket, docs, deadLetter, adminVars, slaVars, lost, used>>

(* Stage 3. *)
ParseRead(j) ==
    /\ At(j, "parse_user_info", "queued")
    /\ KeepRow(j, [ticket[job[j].ticket] EXCEPT !.parsed = TRUE, !.status = "processing"],
               "save")
    /\ UNCHANGED <<ticket, rowVars, adminVars, slaVars, lost, used>>

ParseSave(j) == job[j].task = "parse_user_info" /\ SaveRow(j)

ParseNotify(j) == job[j].task = "parse_user_info" /\ Notify(j, {"onboarding_received"})

(* Stage 4.  OCR is best effort: any document may yield no fields, and the  *)
(* first that does fills parsed_source.document.  With none the row is not  *)
(* saved at all.                                                            *)
OcrRead(j) ==
    /\ At(j, "run_document_extraction", "queued")
    /\ KeepRow(j, ticket[job[j].ticket], "ocr")
    /\ UNCHANGED <<ticket, rowVars, adminVars, slaVars, lost, used>>

OcrDocuments(j) ==
    /\ At(j, "run_document_extraction", "ocr")
    /\ \/ Goto(j, "notify")
       \/ \E d \in docs[job[j].ticket]:
             KeepRow(j, [job[j].snap EXCEPT !.document = d], "save")
    /\ UNCHANGED <<ticket, rowVars, adminVars, slaVars, lost, used>>

OcrSave(j) == job[j].task = "run_document_extraction" /\ SaveRow(j)

OcrNotify(j) ==
    /\ job[j].task = "run_document_extraction"
    /\ Notify(j, IF docs[job[j].ticket] # {} THEN {"documents_processed"} ELSE {})

(* Stage 5. *)
ValidationRead(j) ==
    /\ At(j, "run_validation", "queued")
    /\ KeepRow(j, [ticket[job[j].ticket] EXCEPT !.status = "awaiting_validation"], "await")
    /\ UNCHANGED <<ticket, rowVars, adminVars, slaVars, lost, used>>

(* Mutant: the ticket is not put in awaiting_validation first. *)
AwaitSkipped(j) ==
    /\ At(j, "run_validation", "await")
    /\ Goto(j, "decide")
    /\ UNCHANGED <<ticket, rowVars, adminVars, slaVars, lost, used>>

AwaitValidation(j) ==
    /\ At(j, "run_validation", "await")
    /\ ticket' = [ticket EXCEPT ![job[j].ticket].status = "awaiting_validation"]
    /\ Goto(j, "decide")
    /\ UNCHANGED <<rowVars, adminVars, slaVars, lost, used>>

(* Signals that are absent on either side are skipped. *)
SharedDetailsAgree(t, row, u) ==
    /\ \/ row.document = None \/ ticket[u].document = None
       \/ DocNumber[row.document] = None \/ DocNumber[ticket[u].document] = None
       \/ DocNumber[row.document] = DocNumber[ticket[u].document]
    /\ docs[t] = {} \/ docs[u] = {} \/ docs[t] \cap docs[u] # {}

Originals(t, row) ==
    {u \in Tickets : /\ u < t
                     /\ row.parsed /\ ticket[u].parsed
                     /\ Applicant[t] # None /\ Applicant[u] = Applicant[t]
                     /\ SharedDetailsAgree(t, row, u)}

(* The possible results: the earliest original, or None. *)
FindDuplicate(t, row) ==
    IF Originals(t, row) = {} THEN {None}
    ELSE {u \in Originals(t, row) : \A v \in Originals(t, row) : u <= v}

Consistent(t, row) == row.parsed /\ row.document # None => row.document \in Agrees[t]

(* Mutant: one valid document is enough. *)
DecisionAnyValid(t, row, duplicate) ==
    CASE docs[t] = {} -> "rejected"
      [] /\ docs[t] \cap FormatValid # {}
         /\ Consistent(t, row)
         /\ duplicate = None -> "approved"
      [] OTHER -> "requires_manual_review"

Decision(t, row, duplicate) ==
    CASE docs[t] = {} -> "rejected"
      [] /\ docs[t] # {} /\ docs[t] \subseteq FormatValid
         /\ Consistent(t, row)
         /\ duplicate = None -> "approved"
      [] OTHER -> "requires_manual_review"

RunValidation(j) ==
    LET t == job[j].ticket
        row == job[j].snap
    IN  /\ At(j, "run_validation", "decide")
        /\ \E duplicate \in FindDuplicate(t, row) :
              KeepRow(j, [row EXCEPT !.status = Decision(t, row, duplicate),
                                     !.duplicate_of = IF duplicate = None THEN @ ELSE duplicate],
                      "save")
        /\ UNCHANGED <<ticket, rowVars, adminVars, slaVars, lost, used>>

SaveOutcome(j) == job[j].task = "run_validation" /\ SaveRow(j)

NotifyOutcome(j) ==
    /\ job[j].task = "run_validation"
    /\ Notify(j, CASE job[j].snap.status = "approved" -> {"validation_passed", "ticket_approved"}
                   [] job[j].snap.status = "rejected" ->
                          {"ticket_rejected"} \cup
                          (IF docs[job[j].ticket] = {} THEN {"documents_missing"} ELSE {})
                   [] OTHER -> {"validation_failed"})

-----------------------------------------------------------------------------
(* The admin endpoints.                                                     *)

(* PATCH status: any status, whatever the ticket's own. *)
UpdateStatus(t, status) ==
    /\ Spend("overrides")
    /\ ticket' = [ticket EXCEPT ![t].status = status]
    /\ overridden' = overridden \cup {t}
    /\ UNCHANGED <<rowVars, job, handler, slaVars, lost>>

(* POST reprocess: three statements, in whatever status the ticket is. *)
Reprocess(t) ==
    /\ handler[t] = "idle"
    /\ Spend("reprocesses")
    /\ ticket' = [ticket EXCEPT ![t].status = "processing"]
    /\ handler' = [handler EXCEPT ![t] = "close"]
    /\ UNCHANGED <<rowVars, job, overridden, slaVars, lost>>

(* Mutant: the request ends without dispatching the pipeline. *)
CloseUndispatched(t) ==
    /\ handler[t] = "close"
    /\ deadLetter' = [deadLetter EXCEPT ![t] = FALSE]
    /\ handler' = [handler EXCEPT ![t] = "idle"]
    /\ UNCHANGED <<ticket, docs, mails, job, overridden, slaVars, lost, used>>

CloseDeadLetters(t) ==
    /\ handler[t] = "close"
    /\ deadLetter' = [deadLetter EXCEPT ![t] = FALSE]
    /\ handler' = [handler EXCEPT ![t] = "dispatch"]
    /\ UNCHANGED <<ticket, docs, mails, job, overridden, slaVars, lost, used>>

DispatchAgain(t) ==
    /\ handler[t] = "dispatch"
    /\ \E k \in Jobs:
          /\ job[k] = Free
          /\ job' = [job EXCEPT ![k] = Message("run_pipeline", t, 0)]
    /\ handler' = [handler EXCEPT ![t] = "idle"]
    /\ UNCHANGED <<ticket, rowVars, overridden, slaVars, lost, used>>

(* The request dies, or the broker refuses the message, half way. *)
LoseRequest(t) ==
    /\ handler[t] # "idle"
    /\ Spend("losses")
    /\ handler' = [handler EXCEPT ![t] = "idle"]
    /\ lost' = lost \cup {t}
    /\ UNCHANGED <<ticket, rowVars, job, overridden, slaVars>>

-----------------------------------------------------------------------------
(* The SLA monitor.                                                         *)
(* Beat publishes check_sla every minute, nothing keeps two executions      *)
(* apart, and a message whose worker died is delivered again.               *)

DeadlinePasses(t) ==
    /\ t \notin overdue /\ used["scans"] < Limit["scans"]
    /\ overdue' = overdue \cup {t}
    /\ UNCHANGED <<ticket, rowVars, job, adminVars, scan, noting, breachEvents, unnoted,
                   lost, used>>

(* Mutant: the query does not ask for sla_due_at. *)
CheckSlaEarly(m) ==
    /\ scan[m] = {} /\ Spend("scans")
    /\ scan' = [scan EXCEPT ![m] = {t \in Tickets : /\ ~ticket[t].sla_breached
                                                   /\ ticket[t].status \notin Terminal}]
    /\ UNCHANGED <<ticket, rowVars, job, adminVars, overdue, noting, breachEvents, unnoted,
                   lost>>

(* The query: overdue, not yet flagged, not terminal. *)
CheckSla(m) ==
    /\ scan[m] = {} /\ Spend("scans")
    /\ scan' = [scan EXCEPT ![m] = {t \in overdue : /\ ~ticket[t].sla_breached
                                                   /\ ticket[t].status \notin Terminal}]
    /\ UNCHANGED <<ticket, rowVars, job, adminVars, overdue, noting, breachEvents, unnoted,
                   lost>>

(* The loop's body: save(update_fields=["sla_breached", ...]), ... *)
FlagBreach(m, t) ==
    /\ t \in scan[m] /\ noting[m] = None
    /\ ticket' = [ticket EXCEPT ![t].sla_breached = TRUE]
    /\ noting' = [noting EXCEPT ![m] = t]
    /\ UNCHANGED <<rowVars, job, adminVars, overdue, scan, breachEvents, unnoted, lost, used>>

(* ... then add_event, a statement of its own. *)
NoteBreach(m, t) ==
    /\ noting[m] = t
    /\ breachEvents' = [breachEvents EXCEPT ![t] = @ + 1]
    /\ noting' = [noting EXCEPT ![m] = None]
    /\ scan' = [scan EXCEPT ![m] = @ \ {t}]
    /\ UNCHANGED <<ticket, rowVars, job, adminVars, overdue, unnoted, lost, used>>

(* An exception in the loop (check_sla has no retries), or its worker dies  *)
(* and the message is delivered again: a CheckSla that queries anew.        *)
StopSla(m) ==
    /\ scan[m] # {}
    /\ Spend("failures") \/ Spend("crashes")
    /\ scan' = [scan EXCEPT ![m] = {}] /\ noting' = [noting EXCEPT ![m] = None]
    /\ unnoted' = unnoted \cup ({noting[m]} \ {None})
    /\ UNCHANGED <<ticket, rowVars, job, adminVars, overdue, breachEvents, lost>>

-----------------------------------------------------------------------------
Stage(j) ==
    \/ RunPipeline(j)
    \/ StoreRead(j) \/ StoreSave(j)
    \/ ExtractRead(j) \/ CheckAttachment(j) \/ CreateDocument(j)
    \/ ParseRead(j) \/ ParseSave(j) \/ ParseNotify(j)
    \/ OcrRead(j) \/ OcrDocuments(j) \/ OcrSave(j) \/ OcrNotify(j)
    \/ ValidationRead(j) \/ AwaitValidation(j) \/ RunValidation(j)
    \/ SaveOutcome(j) \/ NotifyOutcome(j)

(* What a live worker does with a message, once nothing goes wrong. *)
Work(j) ==
    \/ Stage(j)
    \/ HandOff(j) \/ Finish(j) \/ MarkFailed(j) \/ RecordDeadLetter(j)

Trouble(j) == StageFails(j) \/ Lose(j) \/ Crash(j) \/ CrashAfterHandOff(j)

Serve(t) == CloseDeadLetters(t) \/ DispatchAgain(t)

Admin(t) ==
    \/ \E s \in Statuses: UpdateStatus(t, s)
    \/ Reprocess(t) \/ Serve(t) \/ LoseRequest(t)

Sla ==
    \/ \E t \in Tickets: DeadlinePasses(t)
    \/ \E m \in Monitors: CheckSla(m) \/ StopSla(m)
    \/ \E m \in Monitors, t \in Tickets: FlagBreach(m, t) \/ NoteBreach(m, t)

Next ==
    \/ \E j \in Jobs: Work(j) \/ Trouble(j)
    \/ \E t \in Tickets: Admin(t)
    \/ Sla

Spec == Init /\ [][Next]_vars

(* A worker that is up works on every message, and a request in progress is *)
(* served to its end.  Failures, crashes, admin requests and scans happen or *)
(* not.                                                                     *)
FairSpec ==
    /\ Spec
    /\ \A j \in Jobs: WF_vars(Work(j))
    /\ \A t \in Tickets: WF_vars(Serve(t))

-----------------------------------------------------------------------------
TypeOK ==
    /\ ticket \in [Tickets -> Row]
    /\ docs \in [Tickets -> SUBSET Digests]
    /\ deadLetter \in [Tickets -> BOOLEAN]
    /\ mails \in [Tickets -> SUBSET Templates]
    /\ job \in [Jobs -> Job \cup {Free}]
    /\ handler \in [Tickets -> {"idle", "close", "dispatch"}]
    /\ overdue \subseteq Tickets /\ unnoted \subseteq Tickets
    /\ scan \in [Monitors -> SUBSET Tickets]
    /\ \A m \in DOMAIN noting: noting[m] \in scan[m] \cup {None}
    /\ DOMAIN noting = Monitors
    /\ breachEvents \in [Tickets -> Nat]
    /\ overridden \subseteq Tickets /\ lost \subseteq Tickets
    /\ used \in [Disturbances -> Nat]

(* Job j, or what it hands over to, still writes a decision or "failed".    *)
StillToSettle(j) ==
    /\ job[j].task \in Stages \cup {"run_pipeline"}
    /\ job[j].pc # "park"
    /\ ~(job[j].task = "run_validation" /\ job[j].pc \in {"notify", "done"})

BeingProcessed(t) ==
    \/ \E j \in Jobs: job[j] # Free /\ job[j].ticket = t /\ StillToSettle(j)
    \/ handler[t] # "idle"

(* An admin chose the status by hand, or a message was dropped for good. *)
Excused(t) == t \in overridden \cup lost

(* No ticket is left unresolved with nobody working on it: through every    *)
(* stale save, retry, crash and concurrent run, a status of "received",     *)
(* "processing" or "awaiting_validation" means that a task or a reprocess   *)
(* request in progress will still settle it (tasks/pipeline.py, base.py,    *)
(* routers/tickets.py).                                                     *)
NoTicketAbandoned ==
    \A t \in Tickets:
        ticket[t].status \in Unresolved => BeingProcessed(t) \/ Excused(t)

DeadLetterInFlight(t) ==
    \E j \in Jobs:
        /\ job[j] # Free /\ job[j].ticket = t
        /\ job[j].pc = "park" \/ At(j, "record_dead_letter", "queued")

(* Whoever looks for failed tickets in the dead-letter table finds them: a  *)
(* ticket in "failed" has an open dead letter, or one on its way, or is     *)
(* being processed again (failures.py, deadletter.py, reprocess_ticket).    *)
FailedIsParked ==
    \A t \in Tickets:
        ticket[t].status = "failed" =>
            deadLetter[t] \/ DeadLetterInFlight(t) \/ BeingProcessed(t) \/ Excused(t)

(* From stage 3 on every attachment of the email has its Document row,      *)
(* whatever retries, crashes and runs racing on the same ticket did to      *)
(* extract_attachments.                                                     *)
StagesSeeEveryAttachment ==
    \A j \in Jobs:
        job[j].task \in {"parse_user_info", "run_document_extraction", "run_validation"} =>
            \A i \in DOMAIN Attached[job[j].ticket] :
                Attached[job[j].ticket][i] \in docs[job[j].ticket]

Acceptable(t) ==
    /\ Attached[t] # <<>>
    /\ \A i \in DOMAIN Attached[t] : Attached[t][i] \in FormatValid

(* No verdict is reached on part of the attachments: a ticket is approved,  *)
(* or its applicant told so, only if the email has documents and all are of *)
(* a valid format; an applicant is told "rejected" only if it has none.     *)
VerdictsSound ==
    \A t \in Tickets:
        /\ "ticket_approved" \in mails[t] => Acceptable(t)
        /\ ticket[t].status = "approved" => Acceptable(t) \/ t \in overridden
        /\ mails[t] \cap {"ticket_rejected", "documents_missing"} # {} => Attached[t] = <<>>

(* Once the applicant's contact is stored, no stale full-row save of any    *)
(* stage, of any run, brings back the row without it (the notifications     *)
(* would go to nobody).                                                     *)
ContactNeverLost ==
    [][\A t \in Tickets: ticket[t].parsed => ticket'[t].parsed]_vars

(* Only an overdue ticket is flagged, and a flagged one has its event, or   *)
(* is about to get it from the check_sla that flagged it, unless one        *)
(* stopped just there: the flag keeps later scans from adding the event.    *)
(* No execution adds two, also where several overlap, or where a stale      *)
(* full-row save of a stage took the flag off again (tasks/sla.py).         *)
BreachesAccounted ==
    \A t \in Tickets:
        /\ ticket[t].sla_breached =>
              /\ t \in overdue
              /\ breachEvents[t] > 0 \/ t \in unnoted \/ \E m \in Monitors: noting[m] = t
        /\ breachEvents[t] > 0 => t \in overdue
        /\ breachEvents[t] <= used["scans"]

(* Every ticket left unresolved is eventually settled, unless a message was *)
(* lost or an admin chose the status.                                       *)
EveryTicketSettles ==
    \A t \in Tickets:
        ticket[t].status \in Unresolved ~>
            ticket[t].status \notin Unresolved \/ Excused(t)

-----------------------------------------------------------------------------
Lifecycle ==
    INSTANCE TicketLifecycle WITH status <- [t \in Tickets |-> ticket[t].status]

(* While no worker dies and no admin interferes, the pipeline implements    *)
(* the ticket lifecycle: retries and failures never move a status back to   *)
(* processing nor out of failed (tasks/pipeline.py, base.py, failures.py).  *)
ImplementsLifecycle == Lifecycle!Spec

(* And it delivers the progress that the lifecycle asks for: every ticket   *)
(* reaches a decision or failed.                                            *)
LifecycleProgresses == Lifecycle!Fairness
=============================================================================
