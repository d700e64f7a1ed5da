# A TLA+ development of the CRM onboarding backend

The program takes an onboarding request by email, opens a ticket for it, and runs a
chain of Celery tasks that stores the attachments, reads the applicant's data from the
body and the documents, validates it and decides: approved, rejected or manual review.
This directory specifies that behaviour in TLA+, model-checks it with TLC on small
instances and proves its safety properties with TLAPS for all of them.

Every stage of the chain runs in autocommit mode and saves rows it read earlier;
messages are acknowledged late and redelivered after a crash; the chain can run twice
on one ticket; and the web process hands over to the broker after its transaction has
committed. The models keep exactly those steps, and abstract the data to what a
decision tells apart.

## The system

| Component | State | Operations | Interacts with |
|---|---|---|---|
| Email endpoint `routers/email.py` | none | rate limit, file checks, `email_inbound` | calls ingestion |
| Rate limiter `ratelimit.py` | Redis counter per client and window | `check_rate_limit` | email endpoint |
| Ingestion `services/ingestion.py` | `raw_emails`, `tickets` | `_find_thread_parent`, `get_or_create`, ticket creation, `on_commit` hand-off | publishes `run_pipeline` |
| Pipeline `tasks/pipeline.py`, `tasks/base.py` | `tickets`, `documents`, broker messages | five stages, automatic retries, `on_failure` | storage, parsing, validation, notifications |
| Failure handling `services/failures.py`, `tasks/deadletter.py` | ticket status, `dead_letters` | `mark_failed`, `record_dead_letter` | called by the retries, cleared by reprocess |
| Validation `services/validation.py` | `validation_results` (write-only) | `run_validation` | stage 5 |
| Duplicate detection `services/dedupe.py` | reads tickets and documents | `find_duplicate` | validation |
| Notifications `services/notifications.py`, `tasks/notifications.py` | `notifications`, broker messages | `queue_notification`, `send_notification` | every stage queues, SMTP delivers |
| Ticket endpoints `routers/tickets.py` | ticket status, `dead_letters` | read endpoints, PATCH status, reprocess | starts another chain |
| SLA monitor `tasks/sla.py` | `sla_breached`, timeline | `check_sla`, run by Beat | writes the ticket row the stages save |
| Storage `services/storage.py` | files named by content hash and type | `save` | stage 2 writes, stage 4 reads |
| Email parsing `parsing/email_parser.py` | none | labels, headers, patterns, spaCy with fallbacks | stage 3 |
| Identity extraction `parsing/extractors.py`, OCR `parsing/ocr.py` | none | PAN, Aadhaar (Verhoeff), name, address, date of birth, age | stage 4 |
| Django admin, schemas, settings | none of their own | deletion and change forms of any row | tickets |

What is hard in it, and what correctness means for each part:

* **Pipeline.** Each ORM statement is a step; a full-row `ticket.save()` writes back
  everything its task read, so two executions on one ticket (a reprocess during a run, a
  chain forked by a crash) race. Correct means: nobody forgets a ticket, a failed one can
  be found, a decision rests on all attachments, and what one run learnt is not erased.
* **Ingestion.** Concurrent deliveries of one email rely on `get_or_create`, two unique
  keys and one transaction. Correct means: one ticket per email, nothing half filed, the
  same answer to every delivery, and the pipeline started once for each ticket.
* **Failures.** Retries, dead letters and reprocessing are separate statements and
  messages: each gap between them can drop a ticket.
* **SLA monitor.** Reads, then writes row by row, next to stages that overwrite its flag and
  to executions of itself: nothing locks it, and Beat publishes it again while one runs.
* **Documents.** What is stored, read and compared is spread over queries, files and full
  rows: a file another run is writing, a row another run replaced, an original that came
  late. Correct means: a row points to a whole file, no contradiction between body and
  documents is approved, a duplicate is seen, and only a stale save loses data.
* **Rate limiter.** Several Redis commands per request. Correct means: the limit holds in
  each window, nobody is locked out, and the wait a client is told is at most half a
  second short.
* **Parsers.** Pure, but with order and boundaries: which number of a digit run, whose
  name on a card, which address in a body, which day a person turns a year older.
* **Notifications.** The mail leaves before the row says so: at-least-once delivery, a
  time-out that is not a failure, errors that nothing retries.

PROJECT.json lists every hazard at its line, with the properties about it.

## Modules

| Module | Stands for |
|---|---|
| `Pipeline` | `tasks/pipeline.py`, `base.py`, `failures.py`, `deadletter.py`, `sla.py`, `validation.py`, `dedupe.py`, `routers/tickets.py` and the Celery messages between them; its refinement mapping to `TicketLifecycle` |
| `TicketLifecycle` | abstract: the status machine the README of the program draws, with the exits the retries add |
| `MCPipeline` | instances of `Pipeline`, and the claims of the docs that do not hold |
| `PipelineProofs` | type correctness of `Pipeline`; no ticket abandoned, failures parked |
| `VerdictProofs` | what a verdict rests on, the contact that stays, the breach flag, and the refinement of `TicketLifecycle` |
| `Ingestion` | `services/ingestion.py` and the end of `routers/email.py`, on PostgreSQL; its refinement mapping to `EmailIntake` |
| `EmailIntake` | abstract: each distinct email is filed once, in one atomic step |
| `MCIngestion` | an instance of `Ingestion` |
| `IngestionProofs` | all safety properties of `Ingestion`, and the refinement |
| `Documents` | stages 2 to 5 with the data they carry: `tasks/pipeline.py`, `services/validation.py`, `services/dedupe.py`, and what they use of `models.py` |
| `Storage` | `services/storage.py`; the file half of `Documents` |
| `EmailParser`, `Extraction` | `parsing/email_parser.py`, `parsing/extractors.py` as pure operators; stages 3 and 4 of `Documents` call them |
| `MCDocuments` | an instance of `Documents`: emails, and the cards in them |
| `ParserProofs` | what the parsers return, against what a card or a body has in it; the checksum |
| `DocumentsProofs` | types, whole files, the columns of a row that go together, and what a save may lose |
| `ReviewProofs` | what an approval was checked for, the duplicates it does not miss, and where the fields of a row come from |
| `EmailEndpoint` | `ratelimit.py` and `routers/email.py` up to ingestion |
| `MCEmailEndpoint` | an instance of `EmailEndpoint` |
| `EmailEndpointProofs` | all properties of `EmailEndpoint` |
| `Notifications` | `services/notifications.py` and `tasks/notifications.py` |
| `MCNotifications` | an instance of `Notifications` |
| `NotificationProofs` | all safety properties of `Notifications` |

`Pipeline` and `Notifications` meet where a stage queues a notification (`Notify` records
that the row was stored and published; `CreateRow` and `Publish` take it from there), and
`Ingestion` and `Pipeline` where `run_pipeline` is published (`Enqueue`; `Init` of
`Pipeline` has one `run_pipeline` message per ticket), and `EmailEndpoint` and `Ingestion`
where a request that passes the checks calls ingestion (`pc = "ingest"`; the requests of
`Ingestion` are those). They share no other state, so they are checked apart.

`Pipeline` and `Documents` model the same chain twice. `Pipeline` has its control (messages,
retries, failures, admins) with a document being a digest; `Documents` has its data
(files, fields, the row's columns) with a run being a sequence of statements that may start
a stage over. `AwaitValidation`, `RunValidation` and `OcrDocuments` of `Pipeline` are one
step where `Documents` has one per query and per document; that is why the duplicate check
and the stale `parsed_source` are stated again on `Documents`.

### Pipeline

`job` is a set of slots. A slot is free, or holds a broker message and then the worker
execution it causes: its task, ticket, retry count, the statement it is at (`pc`), the
row it read (`snap`) and, in stage 2, its place in the loop. `ticket[t]` has the columns
that matter; `parsed` stands for the applicant's contact and `parsed_source.email`,
`document` for the document whose fields are in `parsed_source.document`.

| Code | Actions |
|---|---|
| `run_pipeline`, chain | `RunPipeline`, `HandOff`, `Finish`, `Successor` |
| `store_raw_email` | `StoreRead`, `StoreSave` |
| `extract_attachments` | `ExtractRead`, then per attachment `CheckAttachment`, `CreateDocument` (with the unique key) |
| `parse_user_info` | `ParseRead`, `ParseSave` (full row), `ParseNotify` |
| `run_document_extraction` | `OcrRead`, `OcrDocuments`, `OcrSave` (full row, only if some field was read), `OcrNotify` |
| `run_validation_task`, `run_validation`, `find_duplicate` | `ValidationRead`, `AwaitValidation`, `RunValidation`, `SaveOutcome` (full row), `NotifyOutcome` |
| `PipelineTask` | `StageFails` (an exception in any statement), `Raised` (retry or `on_failure`), `MarkFailed`, `RecordDeadLetter` |
| `acks_late`, `reject_on_worker_lost` | `Crash`, `CrashAfterHandOff` |
| errors nothing retries | `Lose`, `LoseRequest` |
| `update_status`, `reprocess_ticket` | `UpdateStatus`; `Reprocess`, `CloseDeadLetters`, `DispatchAgain` |
| `check_sla` | `DeadlinePasses`, `CheckSla` (the query), then per ticket `FlagBreach`, `NoteBreach` (the event); `StopSla` (an exception, which it does not retry, or a crash); each for an execution `m` in `Monitors` |

Abstractions worth knowing: a timeline event is part of the statement it follows, except
the SLA's, which are counted; the notifications of one stage are queued in one step; the
queries of one `run_validation` call are one step; the fields that several documents fill
together come from one of them; a file that a stage reads is there. `Documents` takes back
the last three.

### Ingestion

A request is a thread with a `pc`; `FindThreadParent`, `Get`, `Insert`, `Commit`,
`Enqueue` and `AnswerExisting` are its queries. PostgreSQL is modelled as the code relies
on it: what a transaction inserted appears when it commits, and an INSERT of the same
unique key waits for it (`Blocked`). The two SELECTs of `_find_thread_parent` are one
step. `DeleteTicket` is Django's own deletion of a row (the admin registers the models): its
effect on `raw_emails` is the `SET_NULL` of models.py.

### Documents and Storage

`row[t]` has the columns of the tickets table that the checks use, with the two entries of
`parsed_source` apart; `docs[t]` the Document rows; `file` what is on the volume, a file
being the set of its chunks that are written; `run[r]` the statement a run is at and its
local variables, among them the row it read.

| Code | Actions |
|---|---|
| `extract_attachments`, `storage.save` | `CheckAttachment`, `StatFile` (`path.exists()`), `OpenFile` (truncates), `WriteFile` per chunk, `CreateDocument` (with the unique key) |
| `parse_user_info`, `parse_email_body` | `ParseRead`, `ParseSave` (spaCy may fail) |
| `run_document_extraction`, `extract_identity_fields` | `OcrRead`, `ListDocuments`, `ReadDocument` per document (read, unreadable, or a failure of Tesseract), `SaveFields` (nothing to save, saved, or refused for a negative age) |
| `run_validation_task`, `run_validation` | `ValidateRead`, `ListForChecks`, `Decide` with `Outcome`, `SaveOutcome` |
| `find_duplicate` | `OwnHashes`, `FindCandidates`, `CompareCandidate` per candidate |
| a retry, a redelivery | `Restart`: the stage from the top, an open file left as it is |
| the clock | `NextDay` |

Three ghosts name what a property has to excuse, and steer no action: `row.seen` (the
documents whose fields are in the row), `stale` (another run saved the row after this run
read it) and `early` (the earlier tickets without contact when this run looked for
duplicates). `cutShort` of `Storage` is a fourth: paths whose last write was interrupted.

A text is how it is written (`as`) and the words it has in lower case (`norm`). What
phonenumbers makes of a string is a constant: `National` has the strings it finds valid in
region IN and their national numbers, `LastTen` the last ten digits of the others, and
`NormalisePhone` takes the one or the other, also of a number already normalised.
`ExtractPhone` prefers what phonenumbers validates anywhere in the body ("valid") to
`PHONE_RE` ("plain") and that to `PHONE_CANDIDATE_RE` ("spaced"). A line of a body or a
card is a function from the patterns that match in it to what they capture, so that which
pattern wins, in which order, is modelled, and the regular expressions are not.
`content_hash`, the declared type and the magic bytes are constants of an attachment.

What the model shows without a property:

* An interrupted `write_bytes` leaves a short file that the retry accepts, since the path
  exists; stage 4 then cannot read the document, and no check looks at it again.
* The same bytes under two declared types are stored twice.
* A document that cannot be read has no fields, and every consistency check without fields
  passes: such a ticket may be approved on its other documents, or on none.
* `age_consistency` compares the age with itself: `AgesTogether` says so.
* A ticket decided between `check_sla`'s query and the save of its row is flagged all the
  same (`CheckSla`, `FlagBreach` of `Pipeline`). When `check_sla` stops between the flag and
  its event, by an exception or a crash, the event never comes: later scans skip what is
  flagged. Two overlapping executions that both read the ticket add an event each.
* `reprocess_ticket` takes an approved or rejected ticket back to processing, although
  docs/SPECS.md:48 and models.py:33 call these excluded from reprocessing (`Reprocess`).
* A replay of a threaded email whose ticket is deleted after the replay read the raw email
  raises DoesNotExist where it reads `thread_ticket` (ingestion.py:104): a 500, where
  docs/SPECS.md:61-63 promises a 409, never a 500. `ErrorsExplained` confines the 500 to
  that window; a replay that reads the email after the deletion gets its 409.
* When all 12-digit windows of a card fail the checksum, `extract_identity_fields` keeps
  the first (extractors.py:70), although docs/SPECS.md:111 says an Aadhaar number must
  satisfy it. `CardReadTrue` claims nothing of a ticket with such a card (`Misprinted`).
* `_normalise_phone` is applied to what `_extract_phone` has already reduced: a foreign
  number of more than ten digits in prose is cut to its last ten, the same number behind a
  label is not. `ContactAsStated` leaves such numbers out (`ReadsAsItself`).
* Only the first document with a name is compared with the body, only the first with an
  address likewise; a digit run of more than 24 digits is never searched.
* An address without a word of two letters or more is consistent with every other, so
  `MismatchReviewed` asks for words in the document's address.
* With two chains on one ticket, stage 3 of one may erase the document fields the other
  saved, and an approval may then rest on none.
* A birth date that OCR reads in the future gives a negative age, which the
  `PositiveIntegerField` refuses in every retry of stage 4 (`pc = "failed"`), although
  pipeline.py:159 says "never break the chain".
* Only the first line of a folded threading header is taken out before the address search.

### EmailEndpoint

A request is a thread: `ReadClock` (the bucket), `Incr`, `Expire` (only for a count of 1),
`Refuse` (TTL and the 429), `ValidateFiles` (all uploads; the first bad one decides
between 413 and 422). `Fail` is a Redis error or a dead process before any command. Time
goes in ticks, `Half` of them to half a second (500 in Redis): the web process cuts its
clock to seconds (`Bucket`), a key expires to the tick, and TTL rounds what is left to the
nearest second (`Ttl`), so Retry-After may be up to half a second short, say 59 of 59.4
seconds. The two clocks are taken to agree. `Tick` moves the clock, and Redis drops what
expires. `hit`, `ttl` and `refused` in `req` record when a request counted and what it was
told, for the properties. (settings.py:182 calls the limit a token bucket; the code, and
the model, are fixed windows.)

### Notifications

A slot is a message or execution of `send_notification`. `Send` has the three outcomes of
`send_mail`: taken, refused, and an exception after the server took the mail.

## Runs

Passing runs:

| Run | Instance | Shows |
|---|---|---|
| `pipeline_faults` | 1 ticket, attachments d1 d2 d1 with d2 malformed, 2 slots, 1 retry, 2 failures, 2 crashes, 1 lost message | safety and `EveryTicketSettles` under faults: `NoTicketAbandoned`, `FailedIsParked`, `StagesSeeEveryAttachment`, `VerdictsSound` |
| `pipeline_races` | 1 ticket, 2 slots, 1 retry, 1 failure, 1 lost message, 1 reprocess, 1 override | the same but `VerdictsSound`, with two chains on the ticket and an admin at work, and `ContactNeverLost` |
| `sla_monitor` | 1 ticket, 2 slots, 3 executions of `check_sla`, 2 at a time, 1 retry, 1 failure, 1 crash | `BreachesAccounted`: what is flagged was overdue and has its event, unless its execution stopped just before it; no execution adds two |
| `pipeline_lifecycle` | 2 tickets of one applicant, one without attachments, 3 retries, 4 failures | `Pipeline` implements `TicketLifecycle` (`ImplementsLifecycle`) and delivers its progress (`LifecycleProgresses`) |
| `documents` | 2 runs in 5 scenarios: on one ticket, on the same applicant's two tickets, on one file under two types, on a stranger's card in front and a birth date in the future, on a foreign number and one nothing validates; 2 chunks per file, 1 restart, 1 failed OCR, 1 failed spaCy, a birthday | `FilesWhole`, `MismatchReviewed`, `LateDuplicateReviewed`, `BodyAddressWins`, `AgesTogether`, `LostOnlyWhenStale`; that rows hold what was sent: `CardReadTrue`, `ContactAsStated`; `OnlyFutureBirthsFail` |
| `endpoint` | 4 requests of 2 clients, limit 2, windows of 2 seconds, 9 quarter seconds, 1 failing command | all of `EmailEndpoint` |
| `ingestion` | 5 requests (an email, another with its Message-ID, a reply twice, a reply to the reply), 1 crash, 1 outage, 1 deletion | all of `Ingestion` (`ErrorsExplained`: no request fails without a reason), and that it implements `EmailIntake` |
| `notifications` | 2 notices (one without recipient), 3 retries, 4 refusals, 1 time-out, 1 error, 2 crashes | all of `Notifications` |

Runs in which TLC refutes a claim of the docs or comments (the findings in PROJECT.json):

| Run | Claim | Counterexample |
|---|---|---|
| `sla_flagged_once` | `check_sla` "sets `sla_breached` once" (docs/SPECS.md:143) | a stage reads the row, the monitor flags it, the stage saves the row, the next scan flags it again |
| `decision_revoked` | approved and rejected are "terminal" (models.py:33) | queueing the approval mail fails, stage 5 is retried from the top |
| `duplicates_approved` | a duplicate goes to manual review (validation.py:5) | the later ticket is validated before the earlier one's contact is stored |
| `handoff_lost` | each inbound email is processed by a chain (README.md:80) | the ticket is committed, the message is not published, and a repeat of the email, or a reply to it, starts nothing |

**Bounds.** `Jobs` bounds the messages and executions in flight; two slots are what a
race needs, and an action that needs a free slot waits for one. `Limit` bounds how often
each disturbance happens; one loss or crash between any two steps reaches every recovery
path, two failures with one retry reach the dead letter. `MaxRetries` is 3 in the code
and in the runs whose behaviour depends on the count; 1 in the others, where the count
only multiplies states. Two tickets are checked where the property relates tickets.
No symmetry is used: the runs of `Pipeline` check liveness together with safety.

`documents`: two runs are what a race needs, two chunks make a half-written file, and each
scenario puts the two runs where they share something: a row, a file, an applicant. One
restart anywhere reaches the interrupted write and the repeated stage; together with a
failed spaCy it gives a body parsed twice with different results. Two days are enough for
a birthday between two reads. `endpoint`: three requests of a client exceed a limit of 2,
the second window shows what the first one left behind, and a quarter second is less than
TTL rounds off. `sla_monitor`: two executions overlap, and the third finds what they and
the stage's late save left. `ingestion`: the reply and its replay come before, during and
after the email they answer, and the reply to the reply after either. The cards have a
number that is not first in its digit run, two names of which one is a parent's, and a
birth date in the future; the bodies state the contact behind labels, in prose after a
threading header, or not at all.

Deadlock is not checked: when every ticket is settled, or every run and request has ended,
and the bounds are spent, the system rests.

**Fairness.** `FairSpec` of `Pipeline` gives weak fairness to the work on each slot (a
Celery worker consumes the five queues) and to a reprocess request in progress; none to
failures, crashes, admins or scans. `Notifications` gives it to publishing and to the
workers. `Ingestion`, `Documents` and `EmailEndpoint` have safety properties alone; that the
chain goes on is `Pipeline`'s `EveryTicketSettles`.
`TicketLifecycle` asks for weak fairness of progress, which `LifecycleProgresses` delivers.

**Excuses.** `NoTicketAbandoned` and `EveryTicketSettles` exclude tickets in `lost` (a
message was dropped where the code retries nothing: an error while publishing, in
`mark_failed` or in `record_dead_letter`) and in `overridden` (an admin chose a status by
hand). Those gaps are real; `handoff_lost` shows the one the docs contradict.

## Proofs

Every safety property of a passing run is a theorem for any sets of tickets, slots,
requests, runs and digests, any emails and documents and any bounds. Each proof has one
lemma per action or per group of alike actions, and an invariant that is inductive where
the property is not.

**`Pipeline`.**

* `TypeCorrect` (`PipelineProofs`): `TypeOK`. `CreateDocument` indexes the email's
  attachments, so the invariant adds `CreateInRange`, that a job about to insert is
  within them. The work of a slot is reduced to a few forms of slot update (`Forms`).
* `NeverAbandoned`, `FailuresParked` (`PipelineProofs`): a ticket may go from unresolved
  to failed, to decided, and back, so neither is inductive alone. `Accounted(u)` says
  that every ticket is owed a result by a live job or request, or excused, or decided, or
  failed and parked; `Decided` that what `run_validation` is about to save is a decision.
  A step touches one slot and one ticket (`WorkLocal`), so other tickets carry over
  (`Carry`); a stage stays live until it has saved the decision; a hand-off and a
  redelivery keep what the slot did; closing dead letters makes the request the owner.
* `AttachmentsGathered` (`VerdictProofs`): the loop invariant of stage 2 per slot
  (`Gathered`): the attachments before `at` have rows, and a slot past the loop has all.
  Rows are never deleted, so it survives racing runs; a redelivered message starts over.
* `ContactKept`: `Carried`: once a slot is past the body's save, the row in the table and
  the row it keeps for its own save both have the contact, however stale the latter is.
* `VerdictsRestOnAll`: `Judged`: a row about to be saved or announced holds a verdict that
  the attachments bear out; with `Gathered`, the documents it was taken on are all of them.
* `BreachesAreAccounted`: the flag moves between the table and the rows that slots hold, so
  `BreachInv` says of both that a flag is due (`Due`): the ticket is overdue, and has its
  event, or is the one an execution of `check_sla` is at, or an execution stopped there. It
  also counts, since executions overlap: a ticket's events, and the executions that may
  still add one (`Scanning`), are together at most the scans started.
* `LifecycleFollowed`: under `Undisturbed` (no crash, reprocess or override is allowed;
  failures, losses and scans are) every step maps to a step of `TicketLifecycle` or a
  stutter. `LifeInv`: one slot at a time works on a ticket, and its task and statement
  determine the status (`Fits`), also of the row it kept, which is why a full-row save
  takes no status back. With an admin the refinement fails (a decided ticket can be
  reprocessed), and with a chain forked by a crash too: stage 3 of one run saves
  `processing` over the status that stage 5 of the other has set.

**`Ingestion`** (`IngestionProofs`). `IntakeInv` says what each request knows between two
statements: what it read is committed or was deleted since, what it inserted is alone on
its keys, who will start the pipeline of a committed ticket. From it `NoTicketTwice`,
`FiledWhole`, `AnswersAgree`, `OnePipelinePerTicket` and, with what a request that failed
had read, `ErrorsHaveReasons`. `IngestionImplementsIntake`:
`Commit` maps to the filing of `EmailIntake`, `DeleteTicket` to its removal, and every
other step to a stutter.

**`Notifications`** (`NotificationProofs`). `NoSpontaneousDuplicates` counts: mails sent,
and executions that may send once more, are together at most one plus the crashes and
time-outs spent (`MailsBounded` in `DeliveryInv`). `SentIsTrue` and `RetriesComeFirst`
follow from what each slot's statement and retry count say of its row.

**`EmailEndpoint`** (`EmailEndpointProofs`). In `LimiterInv` the counter keeps what each
request counted until its window is over, since a key outlives its window, so no two
requests of a window get one count (`CountsApart`): at most `Limit` of them pass
(`LimitHolds`). A count is at most the number of requests that counted on its key, so
who is refused has `Limit` others before it (`RefusalIsEarned`). `RetryAfterIsHonest`
is the same lifetime read by TTL: rounding takes off less than the half second the property
adds, and the key outlives its window by what the window had run when it was made.

**`Documents`.** `DocumentsInv` (`DocumentsProofs`) has three parts.

* `Typed`: the columns of a row, and of each run's copy, go together: the address is the
  body's once the body gave one (`BodyAddressRules`), the two ages are one
  (`AgesKeptTogether`), a hash has one Document row (`DocumentsTyped`).
* `FilesFit`: of several writers of one path the last to open it has all chunks before its
  own on disk, whatever the others truncated earlier (`Covered`). So a path that nobody
  has open is whole or was cut short (`FilesKeptWhole`).
* `CopiesFresh`: a copy that is not stale agrees with the row on `parsed_source`
  (`NothingLostUnlessStale`, an action property).

`ReviewInv` (`ReviewProofs`) is about the data an approval rests on.

* `FieldsKnown`: the fields in a row, in a copy and in a run's hand are those of the first
  documents read that have them; a run reads its list in order (`FieldsTaken`), and a
  document stored meanwhile comes last (`FirstOfAppended`).
* `ApprovalChecked`: an approval about to be saved passed the checks on the columns saved
  with it. With `FieldsKnown`, and a copy that has read everything: `MismatchesGoToReview`.
* `Gathered`: a ticket whose body was parsed has all its documents, and its contact is
  the one the body states, with or without spaCy.
* `DuplicatesKept`: an earlier ticket of the same applicant and file, stored before a run
  looked, is among its candidates until it decides. The candidates are ordered by rank,
  so the proof needs that ranks are a bijection (`Ranks`); the numbers read meanwhile
  cannot come to disagree, since both emails' documents agree (`NumberRead`). Together:
  `LateDuplicatesGoToReview`.

**The parsers** (`ParserProofs`). Induction over their inputs is replaced by the least
counterexample: a nonempty set of positions has a least one (`HasLeast`).

* `SlipsShow`: the checksum of a 12-digit number is a chain of rounds; two numbers that
  differ by one digit, or by two adjacent ones swapped, come out of the rounds they differ
  in with different results, and equal digits after it keep them different (`RoundsTell`
  from the two tables, `RoundsDiffer` for all positions), so not both are zero at the end.
* `NumberShown`, `NameShown`: a number that is read is a PAN or passes the checksum,
  unless all the card's digits fail it; a name is from above the parent's where one stands
  there. `AgeCounted`: the age is the number of birthdays passed, and negative for a birth
  after today only. `ContactStated`: if a body states one address, or one number that
  normalisation leaves alone, that is the one stored.
* `CardsReadTrue`, `ContactsAreStated` (`ReviewProofs`) carry this through the runs: with
  `FieldsKnown`, the fields of a row are those the parsers give of documents of its ticket,
  and the contact that of its body. An age is kept from the day it was read (`AgesRead`,
  stable since rows and copies only take fields from each other or from a document of
  today: `SourcesMove`, `StepMoves`). From the same, `FailuresAreFutureBirths`: a run that
  failed held a negative age, which only a birth after the day of its reading gives.

**Assumptions.** Those named in the modules: ticket ids are naturals, `None` is no id and
no digest, bounds are natural, and in `Documents` (`InputsAssumption`) what emails and
documents may hold: bodies and prints are lines of texts, dates are triples, the calendar
has a day; no string normalises to an empty number (`PhoneAssumption`), windows and half
seconds are positive (`LimiterAssumption`), and finitely many executions of `check_sla`
run (`MonitorsAssumption`). TLC evaluates them in every run. `LifecycleFollowed` alone has
a hypothesis beyond them.

**Model-checked only.** Liveness, which the prover does not reach: `EveryTicketSettles`,
`LifecycleProgresses`, `EveryNoticeSettles`. The refuted claims are
runs by nature.

## Not modelled

Which text a regular expression, spaCy, phonenumbers or Tesseract finds is text processing
without state: the models take what was found as input (a body's or a card's lines), and
every failure of spaCy and Tesseract as a choice. `_extract_address` and `_normalise_dob`
are of that kind and are inputs too. `ValidationResult` rows and most timeline events are
written and never read by the program. Read endpoints, schemas, routing, the API key check
and settings change nothing.

The change forms of the Django admin save a whole row that was read when the form was
opened; submitted after a stage's save, one undoes it like the stale save of another run,
which `Pipeline` and `Documents` have. The forms themselves are left out. The redelivery
that Redis does after its visibility timeout to a worker that is slow but alive is not
modelled; it would fork a chain as `CrashAfterHandOff` does.

## Plan

1. Done: `Pipeline` with `TicketLifecycle`, `Ingestion` with `EmailIntake`,
   `Notifications`; type correctness and the two settling theorems.
2. Done: `Documents` with `Storage`, `EmailParser` and `Extraction`; `EmailEndpoint`.
3. Done: every safety property of the passing runs as a theorem, and both refinements
   (`EmailIntake`, `TicketLifecycle`).
4. Done: the parsers' promises for every input and the breach flag, as theorems.
5. Not done: a mapping of `Documents` to the stages of `Pipeline`. An email is a variable
   there and a constant (`Attached`) here, and the fields of a row may come from several
   documents there and come from one here; so the two models keep what each is about and
   meet in the properties that both state of an approval.
