------------------------------- MODULE Ingestion -------------------------------
(***************************************************************************)
(* POST /api/email/inbound past its rate limit and file checks: the         *)
(* gunicorn threads that run ingest_and_enqueue concurrently against one    *)
(* PostgreSQL database (READ COMMITTED).  A request is one thread; each of  *)
(* its queries is a step.  What a transaction inserted is visible to the    *)
(* others once it commits, but already blocks an INSERT of the same unique  *)
(* key.                                                                     *)
(***************************************************************************)
EXTENDS Naturals, Sequences, FiniteSets

CONSTANTS
    Requests,     \* inbound HTTP requests
    Contents,     \* content hashes
    MsgIds,       \* Message-ID header values
    None,         \* no Message-ID, no ticket
    Mail,         \* Mail[r]: the content request r carries
    MsgId,        \* MsgId[c]: the Message-ID in c's body, or None
    Refs,         \* Refs[c]: In-Reply-To and References of c
    MaxCrashes,   \* bound: web processes that die during a request
    MaxOutages,   \* bound: publications the broker refuses
    MaxDeletes    \* bound: tickets deleted through the Django admin

ASSUME NoneAssumption == None \notin Contents \cup MsgIds \cup Nat
ASSUME MailAssumption ==
    /\ Mail \in [Requests -> Contents]
    /\ MsgId \in [Contents -> MsgIds \cup {None}]
    /\ Refs \in [Contents -> SUBSET MsgIds]
ASSUME BoundsAssumption == {MaxCrashes, MaxOutages, MaxDeletes} \subseteq Nat

RawEmail == [content: Contents, at: Nat, thread: Nat \cup {None}]

(* A ticket's id is that of the raw email it was created with: one counter  *)
(* numbers both and orders them by created_at.                              *)
Ticket == [id: Nat, raw: Contents]

Pcs == {"find", "get", "insert", "commit", "enqueue", "existing",
        "created", "reply", "duplicate", "conflict", "error", "gone"}

Answered == {"created", "reply", "duplicate", "conflict", "error", "gone"}

VARIABLES
    rawEmails,  \* committed rows of raw_emails
    tickets,    \* committed rows of tickets
    clock,      \* the last id handed out
    pc,         \* pc[r]: the query request r is at, or its answer
    parent,     \* parent[r]: the ticket id _find_thread_parent returned
    row,        \* row[r]: the raw email r inserted or found
    answer,     \* answer[r]: the ticket r answered with
    queue,      \* the run_pipeline messages published, in order
    unfiled,    \* contents whose own ticket was deleted
    spent       \* disturbances so far

vars == <<rawEmails, tickets, clock, pc, parent, row, answer, queue, unfiled, spent>>
tables == <<rawEmails, tickets, unfiled>>

Init ==
    /\ rawEmails = {} /\ tickets = {} /\ clock = 0
    /\ pc = [r \in Requests |-> IF Refs[Mail[r]] = {} THEN "get" ELSE "find"]
    /\ parent = [r \in Requests |-> None]
    /\ row = [r \in Requests |-> None]
    /\ answer = [r \in Requests |-> None]
    /\ queue = <<>> /\ unfiled = {}
    /\ spent = [crashes |-> 0, outages |-> 0, deletes |-> 0]

Goto(r, l) == pc' = [pc EXCEPT ![r] = l]

Exists(id) == \E t \in tickets : t.id = id

TicketsOf(c) == {t \in tickets : t.raw = c}

-----------------------------------------------------------------------------
(* The raw emails that r names and that started a ticket: a reply has none, *)
(* so it is never found as a parent.                                        *)
ParentRows(r) ==
    {e \in rawEmails : /\ MsgId[e.content] \in Refs[Mail[r]]
                       /\ TicketsOf(e.content) # {}}

(* Mutant: the Message-ID is returned in place of the ticket. *)
ParentIsMessageId(r) ==
    /\ pc[r] = "find"
    /\ \/ ParentRows(r) = {} /\ UNCHANGED parent
       \/ \E e \in ParentRows(r) : parent' = [parent EXCEPT ![r] = MsgId[e.content]]
    /\ Goto(r, "get")
    /\ UNCHANGED <<tables, clock, row, answer, queue, spent>>

FindThreadParent(r) ==
    /\ pc[r] = "find"
    /\ LET earliest == {e \in ParentRows(r) : \A f \in ParentRows(r) : e.at <= f.at}
       IN  \/ ParentRows(r) = {} /\ UNCHANGED parent
           \/ \E e \in earliest : \E t \in TicketsOf(e.content) :
                 parent' = [parent EXCEPT ![r] = t.id]
    /\ Goto(r, "get")
    /\ UNCHANGED <<tables, clock, row, answer, queue, spent>>

(* get_or_create: the SELECT. *)
Get(r) ==
    /\ pc[r] = "get"
    /\ \/ /\ \A e \in rawEmails : e.content # Mail[r]
          /\ Goto(r, "insert") /\ UNCHANGED row
       \/ \E e \in rawEmails :
             /\ e.content = Mail[r]
             /\ row' = [row EXCEPT ![r] = e]
             /\ Goto(r, "existing")
    /\ UNCHANGED <<tables, clock, parent, answer, queue, spent>>

(* Two contents that cannot both be in raw_emails. *)
Clash(c, d) == c = d \/ (MsgId[c] # None /\ MsgId[c] = MsgId[d])

Blocked(r) == \E q \in Requests \ {r} : pc[q] = "commit" /\ Clash(Mail[q], Mail[r])

(* Mutant: no unique key, the SELECT alone decides. *)
InsertUnchecked(r) ==
    /\ pc[r] = "insert"
    /\ clock' = clock + 1
    /\ row' = [row EXCEPT ![r] = [content |-> Mail[r], at |-> clock + 1, thread |-> parent[r]]]
    /\ Goto(r, "commit")
    /\ UNCHANGED <<tables, parent, answer, queue, spent>>

(* Mutant: no transaction around the raw email and its ticket. *)
InsertAutocommit(r) ==
    /\ pc[r] = "insert" /\ ~Blocked(r)
    /\ \A e \in rawEmails : ~Clash(e.content, Mail[r])
    /\ clock' = clock + 1
    /\ row' = [row EXCEPT ![r] = [content |-> Mail[r], at |-> clock + 1, thread |-> parent[r]]]
    /\ rawEmails' = rawEmails \cup {row'[r]}
    /\ Goto(r, "commit")
    /\ UNCHANGED <<tickets, unfiled, parent, answer, queue, spent>>

(* get_or_create: the INSERT waits for a transaction that holds one of its  *)
(* keys.  On a unique violation it selects again; the row is then there, or *)
(* the clash was on message_id alone and the error goes to the client.      *)
Insert(r) ==
    /\ pc[r] = "insert" /\ ~Blocked(r)
    /\ IF \A e \in rawEmails : ~Clash(e.content, Mail[r])
       THEN /\ clock' = clock + 1
            /\ row' = [row EXCEPT ![r] =
                          [content |-> Mail[r], at |-> clock + 1, thread |-> parent[r]]]
            /\ Goto(r, "commit")
       ELSE /\ \/ \E e \in rawEmails : /\ e.content = Mail[r]
                                       /\ row' = [row EXCEPT ![r] = e]
                                       /\ Goto(r, "existing")
               \/ /\ \A e \in rawEmails : e.content # Mail[r]
                  /\ Goto(r, "error") /\ UNCHANGED row
            /\ UNCHANGED clock
    /\ UNCHANGED <<tables, parent, answer, queue, spent>>

(* Mutant: no foreign key from the reply to the ticket it is threaded onto. *)
CommitNoForeignKey(r) ==
    /\ pc[r] = "commit"
    /\ rawEmails' = rawEmails \cup {row[r]}
    /\ IF parent[r] # None
       THEN /\ answer' = [answer EXCEPT ![r] = parent[r]]
            /\ Goto(r, "reply") /\ UNCHANGED tickets
       ELSE /\ tickets' = tickets \cup {[id |-> row[r].at, raw |-> Mail[r]]}
            /\ Goto(r, "enqueue") /\ UNCHANGED answer
    /\ UNCHANGED <<clock, parent, row, queue, unfiled, spent>>

(* The rest of the transaction: thread the reply or create the ticket, and  *)
(* commit.  The foreign key to a parent deleted meanwhile fails the commit. *)
Commit(r) ==
    /\ pc[r] = "commit"
    /\ IF parent[r] # None /\ ~Exists(parent[r])
       THEN Goto(r, "error") /\ UNCHANGED <<rawEmails, tickets, answer>>
       ELSE /\ rawEmails' = rawEmails \cup {row[r]}
            /\ IF parent[r] # None
               THEN /\ answer' = [answer EXCEPT ![r] = parent[r]]
                    /\ Goto(r, "reply") /\ UNCHANGED tickets
               ELSE /\ tickets' = tickets \cup {[id |-> row[r].at, raw |-> Mail[r]]}
                    /\ Goto(r, "enqueue") /\ UNCHANGED answer
    /\ UNCHANGED <<clock, parent, row, queue, unfiled, spent>>

(* on_commit: the transaction has ended, so run_pipeline.delay runs at once. *)
Enqueue(r) ==
    /\ pc[r] = "enqueue"
    /\ queue' = Append(queue, row[r].at)
    /\ answer' = [answer EXCEPT ![r] = row[r].at]
    /\ Goto(r, "created")
    /\ UNCHANGED <<tables, clock, parent, row, spent>>

(* Mutant: a replay starts the pipeline again. *)
AnswerExistingEnqueues(r) ==
    /\ pc[r] = "existing"
    /\ \E t \in TicketsOf(Mail[r]) :
          /\ answer' = [answer EXCEPT ![r] = t.id]
          /\ queue' = Append(queue, t.id)
    /\ Goto(r, "duplicate")
    /\ UNCHANGED <<tables, clock, parent, row, spent>>

(* Mutant: the router does not ask whether there is a ticket. *)
AnswerExistingUnasked(r) ==
    /\ pc[r] = "existing"
    /\ \/ \E t \in TicketsOf(Mail[r]) :
             answer' = [answer EXCEPT ![r] = t.id] /\ Goto(r, "duplicate")
       \/ /\ TicketsOf(Mail[r]) = {}
          /\ IF row[r].thread # None /\ Exists(row[r].thread)
             THEN answer' = [answer EXCEPT ![r] = row[r].thread] /\ Goto(r, "duplicate")
             ELSE Goto(r, "error") /\ UNCHANGED answer
    /\ UNCHANGED <<tables, clock, parent, row, queue, spent>>

(* raw.tickets.first() or raw.thread_ticket, the latter by the id in the    *)
(* row as it was read: DoesNotExist if it was deleted since.  With neither  *)
(* the router answers 409.                                                  *)
AnswerExisting(r) ==
    /\ pc[r] = "existing"
    /\ \/ \E t \in TicketsOf(Mail[r]) :
             answer' = [answer EXCEPT ![r] = t.id] /\ Goto(r, "duplicate")
       \/ /\ TicketsOf(Mail[r]) = {}
          /\ IF row[r].thread = None THEN Goto(r, "conflict") /\ UNCHANGED answer
             ELSE IF Exists(row[r].thread)
             THEN answer' = [answer EXCEPT ![r] = row[r].thread] /\ Goto(r, "duplicate")
             ELSE Goto(r, "error") /\ UNCHANGED answer
    /\ UNCHANGED <<tables, clock, parent, row, queue, spent>>

-----------------------------------------------------------------------------
Spend(what, bound) == spent[what] < bound /\ spent' = [spent EXCEPT ![what] = @ + 1]

(* The web process dies: the database rolls the open transaction back. *)
Crash(r) ==
    /\ pc[r] \notin Answered
    /\ Spend("crashes", MaxCrashes)
    /\ Goto(r, "gone")
    /\ UNCHANGED <<tables, clock, parent, row, answer, queue>>

(* The broker refuses the message: a 500 for a ticket that is committed. *)
EnqueueFails(r) ==
    /\ pc[r] = "enqueue"
    /\ Spend("outages", MaxOutages)
    /\ Goto(r, "error")
    /\ UNCHANGED <<tables, clock, parent, row, answer, queue>>

(* An admin deletes a ticket, by Django's own code: thread_ticket is       *)
(* SET_NULL, and the raw email stays.                                       *)
DeleteTicket(t) ==
    /\ t \in tickets
    /\ Spend("deletes", MaxDeletes)
    /\ tickets' = tickets \ {t}
    /\ rawEmails' = {IF e.thread = t.id THEN [e EXCEPT !.thread = None] ELSE e
                        : e \in rawEmails}
    /\ unfiled' = unfiled \cup {t.raw} \cup {e.content : e \in {f \in rawEmails : f.thread = t.id}}
    /\ UNCHANGED <<clock, pc, parent, row, answer, queue>>

-----------------------------------------------------------------------------
Serve(r) ==
    FindThreadParent(r) \/ Get(r) \/ Insert(r) \/ Commit(r) \/ Enqueue(r) \/ AnswerExisting(r)

Next ==
    \/ \E r \in Requests : Serve(r) \/ Crash(r) \/ EnqueueFails(r)
    \/ \E t \in tickets : DeleteTicket(t)

Spec == Init /\ [][Next]_vars

-----------------------------------------------------------------------------
TypeOK ==
    /\ rawEmails \subseteq RawEmail /\ tickets \subseteq Ticket
    /\ clock \in Nat
    /\ pc \in [Requests -> Pcs]
    /\ parent \in [Requests -> Nat \cup {None}]
    /\ row \in [Requests -> RawEmail \cup {None}]
    /\ answer \in [Requests -> Nat \cup {None}]
    /\ queue \in Seq(Nat)
    /\ unfiled \subseteq Contents
    /\ spent \in [{"crashes", "outages", "deletes"} -> Nat]

(* However requests with the same email, or the same Message-ID, interleave *)
(* with each other and with crashes, an email starts at most one ticket and *)
(* a Message-ID names at most one raw email (the unique keys under          *)
(* get_or_create).                                                          *)
OneTicketPerEmail ==
    /\ \A t, u \in tickets : t.raw = u.raw => t = u
    /\ \A e, f \in rawEmails : Clash(e.content, f.content) => e = f

(* No email is left half filed: one that is stored has its ticket, or is    *)
(* threaded onto a live ticket, never both, unless an admin deleted the     *)
(* ticket; and a ticket always has its email (ingest_email is one           *)
(* transaction).                                                            *)
NothingHalfFiled ==
    /\ \A e \in rawEmails :
          IF e.thread = None
          THEN TicketsOf(e.content) # {} \/ e.content \in unfiled
          ELSE TicketsOf(e.content) = {} /\ Exists(e.thread)
    /\ \A t \in tickets : \E e \in rawEmails : e.content = t.raw

(* A client that sends an email again, concurrently or after an error, is   *)
(* answered with the ticket every other client of that email got.           *)
SameAnswer ==
    \A r, q \in Requests :
        Mail[r] = Mail[q] /\ answer[r] # None /\ answer[q] # None => answer[r] = answer[q]

(* The pipeline starts at most once per ticket, only for a ticket that was  *)
(* committed, and has started whenever a client is told "created"           *)
(* (ingest_and_enqueue).                                                    *)
PipelineStartsOnce ==
    /\ \A i, k \in DOMAIN queue : queue[i] = queue[k] => i = k
    /\ \A i \in DOMAIN queue :
          \E e \in rawEmails : e.at = queue[i] /\ e.thread = None
    /\ \A r \in Requests : pc[r] = "created" => \E i \in DOMAIN queue : queue[i] = answer[r]

(* The reasons for a 500: another email has the Message-ID, a ticket that   *)
(* the request had read was deleted before it used it, or the broker        *)
(* refused the message of the ticket it created.                            *)
Explained(r) ==
    \/ \E e \in rawEmails : e.content # Mail[r] /\ Clash(e.content, Mail[r])
    \/ parent[r] # None /\ ~Exists(parent[r])
    \/ row[r] \in RawEmail /\ row[r].thread # None /\ ~Exists(row[r].thread)
    \/ /\ spent.outages > 0 /\ row[r] \in RawEmail
       /\ \A i \in DOMAIN queue : queue[i] # row[r].at

(* No other error: a replay, concurrent or late, is answered with its       *)
(* ticket, or with 409 if that was removed before the replay read its       *)
(* email, whatever queries, crashes and deletions came between              *)
(* (ingest_email, email_inbound).                                           *)
ErrorsExplained == \A r \in Requests : pc[r] = "error" => Explained(r)

(* README: "Each inbound email is processed by a Celery chain": an answer   *)
(* with a ticket means that the ticket's chain was started, or is about to. *)
AnsweredMeansStarted ==
    \A r \in Requests :
        answer[r] # None =>
            \/ \E i \in DOMAIN queue : queue[i] = answer[r]
            \/ \E q \in Requests : pc[q] = "enqueue" /\ row[q].at = answer[r]

-----------------------------------------------------------------------------
(* The refinement mapping: an email is filed under the ticket it started,   *)
(* or under the one it is threaded onto.                                    *)
TicketOf(e) ==
    IF TicketsOf(e.content) # {} THEN (CHOOSE t \in TicketsOf(e.content) : TRUE).id
    ELSE e.thread

Filed ==
    [c \in {e.content : e \in rawEmails} |->
        TicketOf(CHOOSE e \in rawEmails : e.content = c)]

Live == {t.id : t \in tickets}

Intake == INSTANCE EmailIntake WITH filed <- Filed, live <- Live

(* Ingestion files each email once, atomically and for good: whatever the   *)
(* interleaving of its queries, it implements the abstract intake           *)
(* (ingest_email's transaction and the unique keys).                        *)
ImplementsIntake == Intake!Spec
=============================================================================
