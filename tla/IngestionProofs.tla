---------------------------- MODULE IngestionProofs ----------------------------
(* Theorems about Ingestion for any requests, emails and Message-IDs: every  *)
(* safety property that its run checks.                                      *)
(*                                                                           *)
(* IntakeInv says what each request knows of the tables between two of its   *)
(* queries.  The hard part is the ids: a row read earlier, a parent found    *)
(* earlier and an answer given earlier name tickets that an admin may have   *)
(* deleted since, and no later ticket may ever get their id.                 *)
EXTENDS Ingestion, TLAPS

(* The id of a stored email is the id of the ticket it started, if any. *)
Known(id) == \E e \in rawEmails : e.at = id

(* A stored email is told apart by its keys and by its id. *)
EmailsApart ==
  \A e, f \in rawEmails : Clash(e.content, f.content) \/ e.at = f.at => e = f

(* What a transaction has inserted is not in the table, under another key   *)
(* than any stored email or open transaction, and has an id of its own.     *)
Inserted(r) ==
  pc[r] = "commit" =>
    /\ row[r] \in RawEmail /\ row[r].content = Mail[r] /\ row[r].thread = parent[r]
    /\ row[r].at <= clock
    /\ \A e \in rawEmails : ~Clash(e.content, Mail[r]) /\ e.at # row[r].at

TransactionsApart ==
  \A r, q \in Requests :
    r # q =>
      /\ pc[r] = "commit" /\ pc[q] = "commit" => ~Clash(Mail[r], Mail[q])
      /\ pc[r] \in {"commit", "enqueue"} /\ pc[q] \in {"commit", "enqueue"}
            => row[r].at # row[q].at

(* A ticket has the id of the email that started it. *)
TicketsOwned ==
  \A t \in tickets :
    \E e \in rawEmails : e.content = t.raw /\ e.at = t.id /\ e.thread = None

(* No id is handed out twice, and a reference to a ticket is an old id. *)
ReferencesKnown ==
  /\ \A e \in rawEmails : e.at <= clock /\ (e.thread # None => Known(e.thread))
  /\ \A r \in Requests : parent[r] # None => Known(parent[r])

(* A row read before an admin deleted its ticket still names that ticket,   *)
(* but then the ticket is gone for good.                                    *)
ReadRow(r) ==
  pc[r] = "existing" =>
    \E e \in rawEmails :
      /\ row[r] \in RawEmail /\ e.content = Mail[r] /\ e.at = row[r].at
      /\ row[r].thread # None =>
            Known(row[r].thread) /\ (Exists(row[r].thread) => e.thread = row[r].thread)

(* A committed ticket whose pipeline has not started yet. *)
Starting(r) ==
  pc[r] = "enqueue" =>
    /\ row[r] \in RawEmail
    /\ \E e \in rawEmails : e.content = Mail[r] /\ e.at = row[r].at /\ e.thread = None
    /\ \A i \in DOMAIN queue : queue[i] # row[r].at
    /\ \A q \in Requests :
          Mail[q] = Mail[r] /\ answer[q] # None => answer[q] = row[r].at

(* An answer names the ticket under which the email is filed, while it is. *)
Told(r) ==
  answer[r] # None =>
    \E e \in rawEmails :
      /\ e.content = Mail[r]
      /\ e.thread # None => answer[r] = e.thread
      /\ \A t \in TicketsOf(Mail[r]) : t.id = answer[r]

IntakeInv ==
  /\ TypeOK /\ EmailsApart /\ TransactionsApart /\ TicketsOwned /\ ReferencesKnown
  /\ NothingHalfFiled /\ SameAnswer /\ PipelineStartsOnce
  /\ \A r \in Requests : Inserted(r) /\ ReadRow(r) /\ Starting(r) /\ Told(r)

-----------------------------------------------------------------------------
(* Type correctness.                                                        *)

(* The service starts with two empty tables. *)
LEMMA InitTyped == Init => TypeOK
<1> SUFFICES ASSUME Init PROVE TypeOK
  OBVIOUS
<1>1. spent \in [{"crashes", "outages", "deletes"} -> Nat]
  BY DEF Init
<1>2. queue \in Seq(Nat)
  BY DEF Init
<1> QED BY <1>1, <1>2 DEF Init, TypeOK, Pcs

(* Every step of a request keeps the types. *)
LEMMA ServeTyped ==
  ASSUME TypeOK, NEW r \in Requests, Serve(r), pc[r] \in {"commit", "enqueue"} => row[r] \in RawEmail
  PROVE  TypeOK'
<1> USE DEF Pcs, tables, Goto
<1>0. Mail[r] \in Contents /\ row[r] \in RawEmail \cup {None}
  BY MailAssumption DEF TypeOK
<1>1. CASE FindThreadParent(r)
  BY <1>1 DEF FindThreadParent, TypeOK, TicketsOf, Ticket
<1>2. CASE Get(r)
  BY <1>2 DEF Get, TypeOK
<1>3. CASE Insert(r)
  <2>1. [content |-> Mail[r], at |-> clock + 1, thread |-> parent[r]] \in RawEmail
    BY <1>0 DEF TypeOK, RawEmail
  <2> QED BY <1>3, <2>1 DEF Insert, TypeOK
<1>4. CASE Commit(r)
  <2>1. row[r] \in RawEmail /\ row[r].at \in Nat
    BY <1>0, <1>4 DEF Commit, RawEmail
  <2>2. [id |-> row[r].at, raw |-> Mail[r]] \in Ticket
    BY <1>0, <2>1 DEF Ticket
  <2> QED BY <1>4, <2>1, <2>2 DEF Commit, TypeOK
<1>5. CASE Enqueue(r)
  <2>1. row[r].at \in Nat
    BY <1>0, <1>5 DEF Enqueue, RawEmail
  <2> QED BY <1>5, <2>1 DEF Enqueue, TypeOK
<1>6. CASE AnswerExisting(r)
  <2>1. \A t \in TicketsOf(Mail[r]) : t.id \in Nat
    BY DEF TicketsOf, TypeOK, Ticket
  <2>2. Exists(row[r].thread) => row[r].thread \in Nat
    BY DEF Exists, TypeOK, Ticket
  <2> QED BY <1>6, <2>1, <2>2 DEF AnswerExisting, TypeOK
<1> QED BY <1>1, <1>2, <1>3, <1>4, <1>5, <1>6 DEF Serve

(* What an admin's deletion leaves of an email. *)
Bereft(e, t) == IF e.thread = t.id THEN [e EXCEPT !.thread = None] ELSE e

(* An email whose ticket is deleted stays, threaded onto nothing. *)
LEMMA BereftFields ==
  ASSUME NEW e \in RawEmail, NEW t
  PROVE  /\ Bereft(e, t) \in RawEmail
         /\ Bereft(e, t).content = e.content /\ Bereft(e, t).at = e.at
         /\ Bereft(e, t).thread = IF e.thread = t.id THEN None ELSE e.thread
  BY DEF Bereft, RawEmail

(* Crashes, outages and deletions keep the types. *)
LEMMA DisturbancesTyped ==
  ASSUME TypeOK
  PROVE  /\ \A r \in Requests : Crash(r) \/ EnqueueFails(r) => TypeOK'
         /\ \A t \in tickets : DeleteTicket(t) => TypeOK'
<1> USE DEF Pcs, tables, Goto, Spend
<1>1. ASSUME NEW r \in Requests, Crash(r) \/ EnqueueFails(r) PROVE TypeOK'
  BY <1>1 DEF Crash, EnqueueFails, TypeOK
<1>2. ASSUME NEW t \in tickets, DeleteTicket(t) PROVE TypeOK'
  <2>1. rawEmails' = {Bereft(e, t) : e \in rawEmails}
    BY <1>2 DEF DeleteTicket, Bereft
  <2>2. rawEmails' \subseteq RawEmail
    BY <2>1, BereftFields DEF TypeOK
  <2>3. unfiled' \subseteq Contents
    BY <1>2 DEF DeleteTicket, TypeOK, RawEmail, Ticket
  <2>4. spent' \in [{"crashes", "outages", "deletes"} -> Nat]
    BY <1>2 DEF DeleteTicket, TypeOK
  <2> QED BY <1>2, <2>2, <2>3, <2>4 DEF DeleteTicket, TypeOK
<1> QED BY <1>1, <1>2

-----------------------------------------------------------------------------
(* The steps that leave the tables alone.                                   *)

(* A step that only moves r, and neither inserts nor answers, keeps the     *)
(* invariant if r still knows what it needs to.                             *)
LEMMA QuietStep ==
  ASSUME IntakeInv, TypeOK', NEW r \in Requests,
         UNCHANGED <<tables, clock, queue, answer>>,
         \A q \in Requests \ {r} : pc'[q] = pc[q] /\ row'[q] = row[q] /\ parent'[q] = parent[q],
         pc'[r] \notin {"commit", "enqueue", "created"},
         parent'[r] # None => Known(parent'[r]),
         ReadRow(r)'
  PROVE  IntakeInv'
<1> USE DEF tables, Known, TicketsOf, Exists
<1>1. EmailsApart' /\ TransactionsApart' /\ TicketsOwned'
  BY DEF IntakeInv, EmailsApart, TransactionsApart, TicketsOwned
<1>2. ReferencesKnown'
  BY DEF IntakeInv, ReferencesKnown
<1>3. NothingHalfFiled' /\ SameAnswer' /\ PipelineStartsOnce'
  BY DEF IntakeInv, NothingHalfFiled, SameAnswer, PipelineStartsOnce
<1>4. ASSUME NEW q \in Requests
      PROVE  Inserted(q)' /\ ReadRow(q)' /\ Starting(q)' /\ Told(q)'
  <2>1. Told(q)'
    BY DEF IntakeInv, Told
  <2>2. Inserted(q)' /\ Starting(q)'
    BY DEF IntakeInv, Inserted, Starting
  <2>3. ReadRow(q)'
    <3>1. CASE q = r
      BY <3>1
    <3>2. CASE q # r
      BY <3>2 DEF IntakeInv, ReadRow
    <3> QED BY <3>1, <3>2
  <2> QED BY <2>1, <2>2, <2>3
<1> QED BY <1>1, <1>2, <1>3, <1>4 DEF IntakeInv

(* A row that is just read is up to date. *)
LEMMA FreshRow ==
  ASSUME IntakeInv, NEW r \in Requests, NEW e \in rawEmails, e.content = Mail[r]
  PROVE  \E f \in rawEmails :
           /\ e \in RawEmail /\ f.content = Mail[r] /\ f.at = e.at
           /\ e.thread # None => Known(e.thread) /\ (Exists(e.thread) => f.thread = e.thread)
  BY DEF IntakeInv, ReferencesKnown, TypeOK

(* The parent that is found is a ticket, and a ticket's id is an email's.   *)
LEMMA FindKeeps ==
  ASSUME IntakeInv, TypeOK', NEW r \in Requests, FindThreadParent(r)
  PROVE  IntakeInv'
<1>1. pc'[r] = "get" /\ \A q \in Requests \ {r} : pc'[q] = pc[q] /\ parent'[q] = parent[q]
  BY DEF FindThreadParent, Goto, IntakeInv, TypeOK
<1>2. parent'[r] # None => Known(parent'[r])
  <2>1. CASE UNCHANGED parent
    BY <2>1 DEF IntakeInv, ReferencesKnown
  <2>2. ASSUME NEW e, NEW t \in TicketsOf(e.content), parent' = [parent EXCEPT ![r] = t.id]
        PROVE  Known(parent'[r])
    BY <2>2 DEF IntakeInv, TicketsOwned, TicketsOf, Known, TypeOK
  <2> QED BY <2>1, <2>2 DEF FindThreadParent
<1>3. ReadRow(r)'
  BY <1>1 DEF ReadRow
<1>4. UNCHANGED <<tables, clock, queue, answer, row>>
  BY DEF FindThreadParent
<1> QED BY <1>1, <1>2, <1>3, <1>4, QuietStep

(* The SELECT of get_or_create. *)
LEMMA GetKeeps ==
  ASSUME IntakeInv, TypeOK', NEW r \in Requests, Get(r)
  PROVE  IntakeInv'
<1>1. UNCHANGED <<tables, clock, queue, answer, parent>>
  BY DEF Get
<1>2. \A q \in Requests \ {r} : pc'[q] = pc[q] /\ row'[q] = row[q]
  BY DEF Get, Goto, IntakeInv, TypeOK
<1>3. parent'[r] # None => Known(parent'[r])
  BY <1>1 DEF IntakeInv, ReferencesKnown
<1>4. CASE Goto(r, "insert")
  <2>1. pc'[r] = "insert"
    BY <1>4 DEF Goto, IntakeInv, TypeOK
  <2> QED BY <1>1, <1>2, <1>3, <2>1, QuietStep DEF ReadRow
<1>5. ASSUME NEW e \in rawEmails, e.content = Mail[r], row' = [row EXCEPT ![r] = e],
             Goto(r, "existing")
      PROVE  IntakeInv'
  <2>1. pc'[r] = "existing" /\ row'[r] = e
    BY <1>5 DEF Goto, IntakeInv, TypeOK
  <2>2. ReadRow(r)'
    BY <1>1, <1>5, <2>1, FreshRow DEF ReadRow, Known, Exists, tables
  <2> QED BY <1>1, <1>2, <1>3, <2>1, <2>2, QuietStep
<1> QED BY <1>4, <1>5 DEF Get

(* The INSERT: a new id for a key that nobody holds, or the row of whoever  *)
(* was first.                                                               *)
LEMMA InsertKeeps ==
  ASSUME IntakeInv, TypeOK', NEW r \in Requests, Insert(r)
  PROVE  IntakeInv'
<1>1. UNCHANGED <<tables, queue, answer, parent>>
  BY DEF Insert
<1>2. \A q \in Requests \ {r} : pc'[q] = pc[q] /\ row'[q] = row[q]
  BY DEF Insert, Goto, IntakeInv, TypeOK
<1>3. parent'[r] # None => Known(parent'[r])
  BY <1>1 DEF IntakeInv, ReferencesKnown
<1>4. CASE Goto(r, "error") /\ UNCHANGED clock
  <2>1. pc'[r] = "error"
    BY <1>4 DEF Goto, IntakeInv, TypeOK
  <2> QED BY <1>1, <1>2, <1>3, <1>4, <2>1, QuietStep DEF ReadRow
<1>5. ASSUME NEW e \in rawEmails, e.content = Mail[r], row' = [row EXCEPT ![r] = e],
             Goto(r, "existing"), UNCHANGED clock
      PROVE  IntakeInv'
  <2>1. pc'[r] = "existing" /\ row'[r] = e
    BY <1>5 DEF Goto, IntakeInv, TypeOK
  <2>2. ReadRow(r)'
    BY <1>1, <1>5, <2>1, FreshRow DEF ReadRow, Known, Exists, tables
  <2> QED BY <1>1, <1>2, <1>3, <1>5, <2>1, <2>2, QuietStep
<1>6. ASSUME \A e \in rawEmails : ~Clash(e.content, Mail[r]), clock' = clock + 1,
             row' = [row EXCEPT ![r] =
                       [content |-> Mail[r], at |-> clock + 1, thread |-> parent[r]]],
             Goto(r, "commit")
      PROVE  IntakeInv'
  <2> DEFINE e == [content |-> Mail[r], at |-> clock + 1, thread |-> parent[r]]
  <2>0. pc[r] = "insert" /\ pc'[r] = "commit" /\ row'[r] = e
    BY <1>6 DEF Insert, Goto, IntakeInv, TypeOK
  <2> USE DEF tables, Known, TicketsOf, Exists
  <2>1. EmailsApart' /\ TicketsOwned'
    BY <1>1 DEF IntakeInv, EmailsApart, TicketsOwned
  <2>2. ReferencesKnown'
    BY <1>1, <1>6 DEF IntakeInv, ReferencesKnown, TypeOK, RawEmail
  <2>3. NothingHalfFiled' /\ SameAnswer' /\ PipelineStartsOnce'
    BY <1>1, <1>2, <2>0 DEF IntakeInv, NothingHalfFiled, SameAnswer, PipelineStartsOnce
(* The id is new; the keys are free, for the INSERT waited for the others.  *)
  <2>4. ASSUME NEW f \in rawEmails PROVE f.at \in Nat /\ f.at <= clock /\ f.at # clock + 1
    BY DEF IntakeInv, ReferencesKnown, TypeOK, RawEmail
  <2>5. ASSUME NEW q \in Requests, pc[q] \in {"commit", "enqueue"}
        PROVE  row[q].at # clock + 1
    <3>1. CASE pc[q] = "commit"
      <4>1. row[q].at <= clock /\ row[q].at \in Nat /\ clock \in Nat
        BY <3>1 DEF IntakeInv, Inserted, TypeOK, RawEmail
      <4> QED BY <4>1
    <3>2. CASE pc[q] = "enqueue"
      BY <3>2, <2>4 DEF IntakeInv, Starting
    <3> QED BY <2>5, <3>1, <3>2
  <2>6. TransactionsApart'
    <3> SUFFICES ASSUME NEW p \in Requests, NEW q \in Requests, p # q
                 PROVE  /\ pc'[p] = "commit" /\ pc'[q] = "commit" => ~Clash(Mail[p], Mail[q])
                        /\ pc'[p] \in {"commit", "enqueue"} /\ pc'[q] \in {"commit", "enqueue"}
                              => row'[p].at # row'[q].at
      BY DEF TransactionsApart, Clash
    <3>1. CASE p # r /\ q # r
      BY <1>2, <3>1 DEF IntakeInv, TransactionsApart
    <3>2. CASE p = r
      BY <1>2, <2>0, <2>5, <3>2 DEF Insert, Blocked, Clash
    <3>3. CASE q = r
      BY <1>2, <2>0, <2>5, <3>3 DEF Insert, Blocked, Clash
    <3> QED BY <3>1, <3>2, <3>3
  <2>7. ASSUME NEW q \in Requests
        PROVE  Inserted(q)' /\ ReadRow(q)' /\ Starting(q)' /\ Told(q)'
    <3>1. CASE q = r
      <4>1. Inserted(r)'
        <5>1. e \in RawEmail
          BY MailAssumption DEF IntakeInv, TypeOK, RawEmail
        <5> QED BY <1>1, <1>6, <2>0, <2>4, <5>1 DEF Inserted, Clash, IntakeInv, TypeOK
      <4> QED BY <1>1, <2>0, <3>1, <4>1 DEF ReadRow, Starting, Told, IntakeInv
    <3>2. CASE q # r
      <4>1. Inserted(q)'
        BY <1>1, <1>2, <1>6, <3>2 DEF IntakeInv, Inserted, Clash, TypeOK, RawEmail
      <4>2. ReadRow(q)'
        BY <1>1, <1>2, <3>2 DEF IntakeInv, ReadRow
      <4>3. Starting(q)' /\ Told(q)'
        BY <1>1, <1>2, <3>2 DEF IntakeInv, Starting, Told
      <4> QED BY <4>1, <4>2, <4>3
    <3> QED BY <3>1, <3>2
  <2> QED BY <2>1, <2>2, <2>3, <2>6, <2>7 DEF IntakeInv
<1> QED BY <1>4, <1>5, <1>6 DEF Insert

(* A replay is answered with the ticket its email is filed under. *)
LEMMA AnswerKeeps ==
  ASSUME IntakeInv, TypeOK', NEW r \in Requests, AnswerExisting(r)
  PROVE  IntakeInv'
<1> USE DEF tables, Known, TicketsOf, Exists
<1>1. UNCHANGED <<tables, clock, queue, parent, row>>
  BY DEF AnswerExisting
<1>2. \A q \in Requests \ {r} : pc'[q] = pc[q]
  BY DEF AnswerExisting, Goto, IntakeInv, TypeOK
<1>3. parent'[r] # None => Known(parent'[r])
  BY <1>1 DEF IntakeInv, ReferencesKnown
<1>4. PICK e \in rawEmails :
        /\ row[r] \in RawEmail /\ e.content = Mail[r] /\ e.at = row[r].at
        /\ row[r].thread # None =>
              Known(row[r].thread) /\ (Exists(row[r].thread) => e.thread = row[r].thread)
  BY DEF AnswerExisting, IntakeInv, ReadRow
<1>5. ASSUME NEW l \in {"conflict", "error"}, Goto(r, l), UNCHANGED answer PROVE IntakeInv'
  <2>1. pc'[r] = l
    BY <1>5 DEF Goto, IntakeInv, TypeOK
  <2>2. ReadRow(r)'
    BY <1>5, <2>1 DEF ReadRow
  <2> QED BY <1>1, <1>2, <1>3, <1>5, <2>1, <2>2, QuietStep
<1>6. ASSUME NEW a, answer' = [answer EXCEPT ![r] = a], Goto(r, "duplicate"),
             e.thread # None => a = e.thread,
             \A t \in TicketsOf(Mail[r]) : t.id = a,
             e.thread # None \/ TicketsOf(Mail[r]) # {}
      PROVE  IntakeInv'
  <2>0. pc'[r] = "duplicate" /\ answer'[r] = a
        /\ \A q \in Requests \ {r} : answer'[q] = answer[q]
    BY <1>6 DEF Goto, IntakeInv, TypeOK
  <2>1. EmailsApart' /\ TransactionsApart' /\ TicketsOwned' /\ ReferencesKnown'
        /\ NothingHalfFiled'
    <3>1. EmailsApart' /\ TicketsOwned' /\ ReferencesKnown' /\ NothingHalfFiled'
      BY <1>1 DEF IntakeInv, EmailsApart, TicketsOwned, ReferencesKnown, NothingHalfFiled
    <3>2. TransactionsApart'
      BY <1>1, <1>2, <2>0 DEF IntakeInv, TransactionsApart, Clash
    <3> QED BY <3>1, <3>2
  <2>2. PipelineStartsOnce'
    BY <1>1, <1>2, <2>0 DEF IntakeInv, PipelineStartsOnce
(* Whoever was answered before, or is to be, gets the same ticket.          *)
  <2>3. ASSUME NEW q \in Requests, Mail[q] = Mail[r], answer[q] # None PROVE answer[q] = a
    <3>1. PICK f \in rawEmails :
            /\ f.content = Mail[q] /\ (f.thread # None => answer[q] = f.thread)
            /\ \A t \in TicketsOf(Mail[q]) : t.id = answer[q]
      BY <2>3 DEF IntakeInv, Told
    <3>2. f = e
      BY <1>4, <2>3, <3>1 DEF IntakeInv, EmailsApart, Clash
    <3> QED BY <1>6, <2>3, <3>1, <3>2
  <2>4. ASSUME NEW p \in Requests, pc[p] = "enqueue", Mail[p] = Mail[r] PROVE a = row[p].at
    <3>1. PICK f \in rawEmails : f.content = Mail[p] /\ f.at = row[p].at /\ f.thread = None
      BY <2>4 DEF IntakeInv, Starting
    <3>2. f = e
      BY <1>4, <2>4, <3>1 DEF IntakeInv, EmailsApart, Clash
    <3>3. PICK t \in tickets : t.raw = Mail[r]
      BY <1>6, <3>1, <3>2
    <3>4. PICK g \in rawEmails : g.content = t.raw /\ g.at = t.id
      BY <3>3 DEF IntakeInv, TicketsOwned
    <3>5. g = e
      BY <1>4, <3>3, <3>4 DEF IntakeInv, EmailsApart, Clash
    <3> QED BY <1>6, <3>1, <3>2, <3>3, <3>4, <3>5
  <2>5. SameAnswer'
    <3> SUFFICES ASSUME NEW p \in Requests, NEW q \in Requests, Mail[p] = Mail[q],
                        answer'[p] # None, answer'[q] # None
                 PROVE  answer'[p] = answer'[q]
      BY DEF SameAnswer
    <3>1. CASE p # r /\ q # r
      BY <2>0, <3>1 DEF IntakeInv, SameAnswer
    <3>2. CASE p = r \/ q = r
      BY <2>0, <2>3, <3>2
    <3> QED BY <3>1, <3>2
  <2>6. ASSUME NEW q \in Requests
        PROVE  Inserted(q)' /\ ReadRow(q)' /\ Starting(q)' /\ Told(q)'
    <3>1. Inserted(q)'
      BY <1>1, <1>2, <2>0 DEF IntakeInv, Inserted, Clash
    <3>2. ReadRow(q)'
      BY <1>1, <1>2, <2>0 DEF IntakeInv, ReadRow
    <3>3. Starting(q)'
      <4>1. CASE q = r
        BY <2>0, <4>1 DEF Starting
      <4>2. CASE q # r
        <5>1. pc[q] = "enqueue" => Starting(q)'
          BY <1>1, <2>0, <2>4 DEF IntakeInv, Starting
        <5> QED BY <1>2, <4>2, <5>1 DEF Starting
      <4> QED BY <4>1, <4>2
    <3>4. Told(q)'
      <4>1. CASE q = r
        BY <1>1, <1>4, <1>6, <2>0, <4>1 DEF Told
      <4>2. CASE q # r
        BY <1>1, <2>0, <4>2 DEF IntakeInv, Told
      <4> QED BY <4>1, <4>2
    <3> QED BY <3>1, <3>2, <3>3, <3>4
  <2> QED BY <2>1, <2>2, <2>5, <2>6 DEF IntakeInv
<1>7. ASSUME NEW t \in TicketsOf(Mail[r]), answer' = [answer EXCEPT ![r] = t.id],
             Goto(r, "duplicate")
      PROVE  IntakeInv'
  <2>1. e.thread = None
    BY <1>4, <1>7 DEF IntakeInv, NothingHalfFiled
  <2>2. \A u \in TicketsOf(Mail[r]) : u.id = t.id
    BY <1>7 DEF IntakeInv, TicketsOwned, EmailsApart, Clash
  <2> QED BY <1>6, <1>7, <2>1, <2>2
<1>8. ASSUME TicketsOf(Mail[r]) = {}, row[r].thread # None, Exists(row[r].thread),
             answer' = [answer EXCEPT ![r] = row[r].thread], Goto(r, "duplicate")
      PROVE  IntakeInv'
  BY <1>4, <1>6, <1>8
<1> QED BY <1>5, <1>7, <1>8 DEF AnswerExisting

(* The pipeline of a ticket is started by the request that created it. *)
LEMMA EnqueueKeeps ==
  ASSUME IntakeInv, TypeOK', NEW r \in Requests, Enqueue(r)
  PROVE  IntakeInv'
<1> USE DEF tables, Known, TicketsOf, Exists
<1> DEFINE id == row[r].at
<1>1. UNCHANGED <<tables, clock, parent, row>> /\ queue' = Append(queue, id)
  BY DEF Enqueue
<1>2. /\ pc[r] = "enqueue" /\ pc'[r] = "created" /\ answer'[r] = id
      /\ \A q \in Requests \ {r} : pc'[q] = pc[q] /\ answer'[q] = answer[q]
  BY DEF Enqueue, Goto, IntakeInv, TypeOK
<1>3. PICK e \in rawEmails : e.content = Mail[r] /\ e.at = id /\ e.thread = None
  BY <1>2 DEF IntakeInv, Starting
<1>4. /\ \A i \in DOMAIN queue : queue[i] # id
      /\ \A q \in Requests : Mail[q] = Mail[r] /\ answer[q] # None => answer[q] = id
  BY <1>2 DEF IntakeInv, Starting
<1>5. /\ DOMAIN queue = 1 .. Len(queue) /\ DOMAIN queue' = 1 .. Len(queue) + 1
      /\ Len(queue) \in Nat /\ queue'[Len(queue) + 1] = id
      /\ \A i \in 1 .. Len(queue) : queue'[i] = queue[i]
  BY <1>1 DEF IntakeInv, TypeOK
<1>6. EmailsApart' /\ TicketsOwned' /\ ReferencesKnown' /\ NothingHalfFiled'
  BY <1>1 DEF IntakeInv, EmailsApart, TicketsOwned, ReferencesKnown, NothingHalfFiled
<1>7. TransactionsApart'
  BY <1>1, <1>2 DEF IntakeInv, TransactionsApart, Clash
<1>8. SameAnswer'
  <2> SUFFICES ASSUME NEW p \in Requests, NEW q \in Requests, Mail[p] = Mail[q],
                      answer'[p] # None, answer'[q] # None
               PROVE  answer'[p] = answer'[q]
    BY DEF SameAnswer
  <2>1. CASE p # r /\ q # r
    BY <1>2, <2>1 DEF IntakeInv, SameAnswer
  <2>2. CASE p = r \/ q = r
    BY <1>2, <1>4, <2>2
  <2> QED BY <2>1, <2>2
<1>9. PipelineStartsOnce'
  <2>1. ASSUME NEW i \in DOMAIN queue', NEW k \in DOMAIN queue', queue'[i] = queue'[k]
        PROVE  i = k
    <3>1. CASE i \in DOMAIN queue /\ k \in DOMAIN queue
      BY <1>5, <2>1, <3>1 DEF IntakeInv, PipelineStartsOnce
    <3>2. CASE i = Len(queue) + 1 /\ k \in DOMAIN queue
      BY <1>4, <1>5, <2>1, <3>2
    <3>3. CASE k = Len(queue) + 1 /\ i \in DOMAIN queue
      BY <1>4, <1>5, <2>1, <3>3
    <3> QED BY <1>5, <3>1, <3>2, <3>3
  <2>2. ASSUME NEW i \in DOMAIN queue'
        PROVE  \E f \in rawEmails' : f.at = queue'[i] /\ f.thread = None
    <3>1. CASE i \in DOMAIN queue
      BY <1>1, <1>5, <3>1 DEF IntakeInv, PipelineStartsOnce
    <3>2. CASE i = Len(queue) + 1
      BY <1>1, <1>3, <1>5, <3>2
    <3> QED BY <1>5, <3>1, <3>2
  <2>3. ASSUME NEW q \in Requests, pc'[q] = "created"
        PROVE  \E i \in DOMAIN queue' : queue'[i] = answer'[q]
    <3>1. CASE q = r
      BY <1>2, <1>5, <3>1
    <3>2. CASE q # r
      <4>1. PICK i \in DOMAIN queue : queue[i] = answer[q]
        BY <1>2, <2>3, <3>2 DEF IntakeInv, PipelineStartsOnce
      <4> QED BY <1>2, <1>5, <3>2, <4>1
    <3> QED BY <3>1, <3>2
  <2> QED BY <2>1, <2>2, <2>3 DEF PipelineStartsOnce
<1>10. ASSUME NEW q \in Requests
       PROVE  Inserted(q)' /\ ReadRow(q)' /\ Starting(q)' /\ Told(q)'
  <2>1. Inserted(q)'
    BY <1>1, <1>2 DEF IntakeInv, Inserted, Clash
  <2>2. ReadRow(q)'
    BY <1>1, <1>2 DEF IntakeInv, ReadRow
  <2>3. Starting(q)'
    <3>1. CASE q = r
      BY <1>2, <3>1 DEF Starting
    <3>2. CASE q # r /\ pc[q] = "enqueue"
      <4>1. row[q].at # id
        BY <1>2, <3>2 DEF IntakeInv, TransactionsApart
      <4>2. PICK f \in rawEmails : f.content = Mail[q] /\ f.at = row[q].at /\ f.thread = None
        BY <3>2 DEF IntakeInv, Starting
      <4>3. Mail[q] # Mail[r]
        BY <1>3, <4>1, <4>2 DEF IntakeInv, EmailsApart, Clash
      <4>4. \A i \in DOMAIN queue' : queue'[i] # row[q].at
        BY <1>5, <3>2, <4>1 DEF IntakeInv, Starting
      <4>5. row[q] \in RawEmail
            /\ \A p \in Requests : Mail[p] = Mail[q] /\ answer[p] # None => answer[p] = row[q].at
        BY <3>2 DEF IntakeInv, Starting
      <4> QED BY <1>1, <1>2, <4>2, <4>3, <4>4, <4>5 DEF Starting
    <3>3. CASE q # r /\ pc[q] # "enqueue"
      BY <1>2, <3>3 DEF Starting
    <3> QED BY <3>1, <3>2, <3>3
  <2>4. Told(q)'
    <3>1. CASE q = r
      <4>1. ASSUME NEW t \in TicketsOf(Mail[r]) PROVE t.id = id
        BY <1>3, <4>1 DEF IntakeInv, TicketsOwned, EmailsApart, Clash
      <4> QED BY <1>1, <1>2, <1>3, <3>1, <4>1 DEF Told
    <3>2. CASE q # r
      BY <1>1, <1>2, <3>2 DEF IntakeInv, Told
    <3> QED BY <3>1, <3>2
  <2> QED BY <2>1, <2>2, <2>3, <2>4
<1> QED BY <1>6, <1>7, <1>8, <1>9, <1>10 DEF IntakeInv

(* A process that dies, or is refused by the broker, leaves the tables.     *)
LEMMA AbortKeeps ==
  ASSUME IntakeInv, TypeOK', NEW r \in Requests, Crash(r) \/ EnqueueFails(r)
  PROVE  IntakeInv'
<1>1. UNCHANGED <<tables, clock, parent, row, answer, queue>>
  BY DEF Crash, EnqueueFails
<1>2. pc'[r] \in {"gone", "error"} /\ \A q \in Requests \ {r} : pc'[q] = pc[q]
  BY DEF Crash, EnqueueFails, Goto, IntakeInv, TypeOK
<1>3. ReadRow(r)' /\ (parent'[r] # None => Known(parent'[r]))
  BY <1>1, <1>2 DEF ReadRow, IntakeInv, ReferencesKnown
<1> QED BY <1>1, <1>2, <1>3, QuietStep

-----------------------------------------------------------------------------
(* The steps that write the tables.                                         *)

(* A commit files an email whose keys nobody holds, under an id that nothing *)
(* refers to yet.                                                           *)
LEMMA CommitKeeps ==
  ASSUME IntakeInv, TypeOK', NEW r \in Requests, Commit(r)
  PROVE  IntakeInv'
<1> USE DEF tables, TicketsOf, Exists
<1> DEFINE e == row[r]
<1>0. pc[r] = "commit" /\ UNCHANGED <<clock, parent, row, queue, unfiled>>
      /\ \A q \in Requests \ {r} : pc'[q] = pc[q]
  BY DEF Commit, Goto, IntakeInv, TypeOK
<1>1. /\ e \in RawEmail /\ e.content = Mail[r] /\ e.thread = parent[r] /\ e.at <= clock
      /\ \A f \in rawEmails : ~Clash(f.content, Mail[r]) /\ f.at # e.at
  BY <1>0 DEF IntakeInv, Inserted
<1>2. ASSUME NEW x PROVE Known(x) => Known(x)' /\ x # e.at
  BY <1>1 DEF Commit, Known
<1>3. ASSUME NEW q \in Requests, answer[q] # None \/ pc[q] \in {"existing", "enqueue"}
      PROVE  Mail[q] # Mail[r]
  <2>1. \E f \in rawEmails : f.content = Mail[q]
    BY <1>3 DEF IntakeInv, Told, ReadRow, Starting
  <2> QED BY <1>1, <2>1 DEF Clash
<1>4. ASSUME NEW t \in tickets PROVE t.raw # Mail[r] /\ t.id # e.at
  BY <1>1 DEF IntakeInv, TicketsOwned, Clash
<1>5. CASE parent[r] # None /\ ~Exists(parent[r])
  <2>1. pc'[r] = "error" /\ UNCHANGED <<tables, answer>>
    BY <1>0, <1>5 DEF Commit, Goto, IntakeInv, TypeOK
  <2>2. ReadRow(r)' /\ (parent'[r] # None => Known(parent'[r]))
    BY <1>0, <2>1 DEF ReadRow, IntakeInv, ReferencesKnown
  <2> QED BY <1>0, <2>1, <2>2, QuietStep
(* What holds of a new reply and of a new ticket alike.                     *)
<1>6. ASSUME rawEmails' = rawEmails \cup {e}, tickets \subseteq tickets',
             \A t \in tickets' \ tickets : t.raw = Mail[r] /\ t.id = e.at /\ parent[r] = None,
             \A q \in Requests \ {r} : answer'[q] = answer[q],
             pc'[r] \in {"reply", "enqueue"},
             answer'[r] # None => parent[r] # None /\ answer'[r] = parent[r],
             IF parent[r] # None THEN Exists(parent[r]) ELSE \E t \in tickets' : t.raw = Mail[r],
             Starting(r)'
      PROVE  IntakeInv'
  <2>1. EmailsApart'
    BY <1>1, <1>6 DEF IntakeInv, EmailsApart, Clash
  <2>2. TransactionsApart'
    BY <1>0, <1>6 DEF IntakeInv, TransactionsApart, Clash
  <2>3. TicketsOwned'
    BY <1>1, <1>6 DEF IntakeInv, TicketsOwned
  <2>4. ReferencesKnown'
    BY <1>0, <1>1, <1>2, <1>6 DEF IntakeInv, ReferencesKnown
  <2>5. NothingHalfFiled'
    <3>1. ASSUME NEW f \in rawEmails
          PROVE  IF f.thread = None
                 THEN TicketsOf(f.content)' # {} \/ f.content \in unfiled'
                 ELSE TicketsOf(f.content)' = {} /\ Exists(f.thread)'
      BY <1>0, <1>1, <1>6 DEF IntakeInv, NothingHalfFiled, Clash
    <3>2. IF e.thread = None
          THEN TicketsOf(e.content)' # {} \/ e.content \in unfiled'
          ELSE TicketsOf(e.content)' = {} /\ Exists(e.thread)'
      BY <1>0, <1>1, <1>4, <1>6
    <3>3. \A t \in tickets' : \E f \in rawEmails' : f.content = t.raw
      BY <2>3 DEF TicketsOwned
    <3> QED BY <1>0, <1>6, <3>1, <3>2, <3>3 DEF NothingHalfFiled
  <2>6. SameAnswer'
    BY <1>3, <1>6 DEF IntakeInv, SameAnswer
  <2>7. PipelineStartsOnce'
    BY <1>0, <1>6 DEF IntakeInv, PipelineStartsOnce
  <2>8. ASSUME NEW q \in Requests
        PROVE  Inserted(q)' /\ ReadRow(q)' /\ Starting(q)' /\ Told(q)'
    <3>1. Inserted(q)'
      <4>1. CASE q = r
        BY <1>6, <4>1 DEF Inserted
      <4>2. CASE q # r /\ pc[q] = "commit"
        <5>1. ~Clash(e.content, Mail[q]) /\ e.at # row[q].at
          BY <1>0, <1>1, <4>2 DEF IntakeInv, TransactionsApart, Clash
        <5> QED BY <1>0, <1>6, <4>2, <5>1 DEF IntakeInv, Inserted, Clash
      <4>3. CASE q # r /\ pc[q] # "commit"
        BY <1>0, <4>3 DEF Inserted
      <4> QED BY <4>1, <4>2, <4>3
    <3>2. ReadRow(q)'
      <4>1. CASE q = r
        BY <1>6, <4>1 DEF ReadRow
      <4>2. CASE q # r /\ pc[q] = "existing"
        <5>1. PICK f \in rawEmails :
                /\ row[q] \in RawEmail /\ f.content = Mail[q] /\ f.at = row[q].at
                /\ row[q].thread # None =>
                      Known(row[q].thread) /\ (Exists(row[q].thread) => f.thread = row[q].thread)
          BY <4>2 DEF IntakeInv, ReadRow
        <5>2. row[q].thread # None => Known(row[q].thread)' /\ row[q].thread # e.at
          BY <1>0, <1>2, <5>1 DEF Known
        <5>3. row[q].thread # None /\ Exists(row[q].thread)' => f.thread = row[q].thread
          BY <1>0, <1>6, <5>1, <5>2
        <5> QED BY <1>0, <1>6, <5>1, <5>2, <5>3 DEF ReadRow, Known
      <4>3. CASE q # r /\ pc[q] # "existing"
        BY <1>0, <4>3 DEF ReadRow
      <4> QED BY <4>1, <4>2, <4>3
    <3>3. Starting(q)'
      <4>1. CASE q # r /\ pc[q] = "enqueue"
        BY <1>0, <1>3, <1>6, <4>1 DEF IntakeInv, Starting
      <4>2. CASE q # r /\ pc[q] # "enqueue"
        BY <1>0, <4>2 DEF Starting
      <4> QED BY <1>6, <4>1, <4>2
    <3>4. Told(q)'
      <4>1. CASE q = r
        BY <1>1, <1>4, <1>6, <4>1 DEF Told
      <4>2. CASE q # r
        BY <1>3, <1>6, <4>2 DEF IntakeInv, Told
      <4> QED BY <4>1, <4>2
    <3> QED BY <3>1, <3>2, <3>3, <3>4
  <2> QED BY <2>1, <2>2, <2>3, <2>4, <2>5, <2>6, <2>7, <2>8 DEF IntakeInv
<1>7. CASE parent[r] # None /\ Exists(parent[r])
  <2>1. /\ rawEmails' = rawEmails \cup {e} /\ tickets' = tickets
        /\ pc'[r] = "reply" /\ answer'[r] = parent[r]
        /\ \A q \in Requests \ {r} : answer'[q] = answer[q]
    BY <1>7 DEF Commit, Goto, IntakeInv, TypeOK
  <2> QED BY <1>6, <1>7, <2>1 DEF Starting
<1>8. CASE parent[r] = None
  <2>1. /\ rawEmails' = rawEmails \cup {e}
        /\ tickets' = tickets \cup {[id |-> e.at, raw |-> Mail[r]]}
        /\ pc'[r] = "enqueue" /\ answer' = answer
    BY <1>8 DEF Commit, Goto, IntakeInv, TypeOK
  <2>2. answer[r] = None
    BY <1>3
  <2>3. \A i \in DOMAIN queue : queue[i] # e.at
    BY <1>1 DEF IntakeInv, PipelineStartsOnce
  <2>4. Starting(r)'
    BY <1>0, <1>1, <1>3, <1>8, <2>1, <2>3 DEF Starting
  <2>5. \A u \in tickets' \ tickets : u.raw = Mail[r] /\ u.id = e.at
    BY <2>1
  <2>6. \E u \in tickets' : u.raw = Mail[r]
    <3>1. [id |-> e.at, raw |-> Mail[r]] \in tickets'
      BY <2>1
    <3> QED BY <3>1
  <2> QED BY <1>6, <1>8, <2>1, <2>2, <2>4, <2>5, <2>6
<1> QED BY <1>5, <1>7, <1>8

(* Two tickets have two ids. *)
LEMMA TicketIds ==
  ASSUME IntakeInv, NEW t \in tickets, NEW u \in tickets, t.id = u.id
  PROVE  t = u
<1>1. t.raw = u.raw
  BY DEF IntakeInv, TicketsOwned, EmailsApart
<1> QED BY <1>1 DEF IntakeInv, TypeOK, Ticket

(* A deletion takes the ticket from the emails filed under it, and its id   *)
(* is never used again.                                                     *)
LEMMA DeleteKeeps ==
  ASSUME IntakeInv, TypeOK', NEW t \in tickets, DeleteTicket(t)
  PROVE  IntakeInv'
<1> USE DEF TicketsOf, Exists
<1>0. UNCHANGED <<clock, pc, parent, row, answer, queue>> /\ tickets' = tickets \ {t}
      /\ rawEmails' = {Bereft(e, t) : e \in rawEmails}
  BY DEF DeleteTicket, Bereft
<1>1. ASSUME NEW e \in rawEmails
      PROVE  /\ Bereft(e, t) \in rawEmails'
             /\ Bereft(e, t).content = e.content /\ Bereft(e, t).at = e.at
             /\ Bereft(e, t).thread = IF e.thread = t.id THEN None ELSE e.thread
             /\ e.thread = t.id => e.content \in unfiled'
  <2>1. e \in RawEmail
    BY DEF IntakeInv, TypeOK
  <2> QED BY <1>0, <2>1, BereftFields DEF DeleteTicket
<1>2. ASSUME NEW f \in rawEmails' PROVE \E e \in rawEmails : f = Bereft(e, t)
  BY <1>0
<1>3. \A x : Known(x)' <=> Known(x)
  BY <1>1, <1>2 DEF Known
<1>4. unfiled \subseteq unfiled' /\ t.raw \in unfiled'
  BY DEF DeleteTicket
<1> HIDE DEF Bereft
<1>5. EmailsApart'
  BY <1>1, <1>2 DEF IntakeInv, EmailsApart, Clash
<1>6. TransactionsApart'
  BY <1>0 DEF IntakeInv, TransactionsApart, Clash
<1>7. TicketsOwned'
  BY <1>0, <1>1 DEF IntakeInv, TicketsOwned
<1>8. ReferencesKnown'
  BY <1>0, <1>1, <1>2, <1>3 DEF IntakeInv, ReferencesKnown
<1>9. NothingHalfFiled'
  <2>1. ASSUME NEW e \in rawEmails
        PROVE  IF Bereft(e, t).thread = None
               THEN TicketsOf(e.content)' # {} \/ e.content \in unfiled'
               ELSE TicketsOf(e.content)' = {} /\ Exists(Bereft(e, t).thread)'
    BY <1>0, <1>1, <1>4 DEF IntakeInv, NothingHalfFiled
  <2>2. \A u \in tickets' : \E f \in rawEmails' : f.content = u.raw
    BY <1>7 DEF TicketsOwned
  <2> QED BY <1>1, <1>2, <2>1, <2>2 DEF NothingHalfFiled
<1>10. SameAnswer' /\ PipelineStartsOnce'
  <2>1. SameAnswer'
    BY <1>0 DEF IntakeInv, SameAnswer
  <2>2. ASSUME NEW i \in DOMAIN queue
        PROVE  \E f \in rawEmails' : f.at = queue[i] /\ f.thread = None
    BY <1>1 DEF IntakeInv, PipelineStartsOnce
  <2> QED BY <1>0, <2>1, <2>2 DEF IntakeInv, PipelineStartsOnce
<1>11. ASSUME NEW q \in Requests
       PROVE  Inserted(q)' /\ ReadRow(q)' /\ Starting(q)' /\ Told(q)'
  <2>1. Inserted(q)'
    BY <1>0, <1>1, <1>2 DEF IntakeInv, Inserted, Clash
  <2>2. ReadRow(q)'
    <3>1. CASE pc[q] = "existing"
      <4>1. PICK e \in rawEmails :
              /\ row[q] \in RawEmail /\ e.content = Mail[q] /\ e.at = row[q].at
              /\ row[q].thread # None =>
                    Known(row[q].thread) /\ (Exists(row[q].thread) => e.thread = row[q].thread)
        BY <3>1 DEF IntakeInv, ReadRow
      <4>2. ASSUME row[q].thread # None, Exists(row[q].thread)'
            PROVE  Bereft(e, t).thread = row[q].thread
        <5>1. PICK u \in tickets : u # t /\ u.id = row[q].thread
          BY <1>0, <4>2
        <5>2. u.id # t.id
          BY <5>1, TicketIds
        <5> QED BY <1>1, <4>1, <4>2, <5>1, <5>2
      <4> QED BY <1>0, <1>1, <1>3, <4>1, <4>2 DEF ReadRow
    <3>2. CASE pc[q] # "existing"
      BY <1>0, <3>2 DEF ReadRow
    <3> QED BY <3>1, <3>2
  <2>3. Starting(q)'
    <3>1. CASE pc[q] = "enqueue"
      <4>1. PICK e \in rawEmails : e.content = Mail[q] /\ e.at = row[q].at /\ e.thread = None
        BY <3>1 DEF IntakeInv, Starting
      <4>2. Bereft(e, t).thread = None
        BY <1>1, <4>1
      <4>3. \E f \in rawEmails' : f.content = Mail[q] /\ f.at = row[q].at /\ f.thread = None
        BY <1>1, <4>1, <4>2
      <4> QED BY <1>0, <3>1, <4>3 DEF IntakeInv, Starting
    <3>2. CASE pc[q] # "enqueue"
      BY <1>0, <3>2 DEF Starting
    <3> QED BY <3>1, <3>2
  <2>4. Told(q)'
    <3>1. CASE answer[q] # None
      <4>1. PICK e \in rawEmails :
              /\ e.content = Mail[q] /\ (e.thread # None => answer[q] = e.thread)
              /\ \A u \in TicketsOf(Mail[q]) : u.id = answer[q]
        BY <3>1 DEF IntakeInv, Told
      <4> QED BY <1>0, <1>1, <4>1 DEF Told
    <3>2. CASE answer[q] = None
      BY <1>0, <3>2 DEF Told
    <3> QED BY <3>1, <3>2
  <2> QED BY <2>1, <2>2, <2>3, <2>4
<1> QED BY <1>5, <1>6, <1>7, <1>8, <1>9, <1>10, <1>11 DEF IntakeInv

(* IntakeInv is inductive. *)
LEMMA IntakeInductive ==
  /\ Init => IntakeInv
  /\ IntakeInv /\ [Next]_vars => IntakeInv'
<1>1. ASSUME Init PROVE IntakeInv
  <2>1. EmailsApart /\ TransactionsApart /\ TicketsOwned /\ ReferencesKnown /\ NothingHalfFiled
    BY <1>1 DEF Init, EmailsApart, TransactionsApart, TicketsOwned, ReferencesKnown,
       NothingHalfFiled
  <2>2. SameAnswer /\ PipelineStartsOnce
    BY <1>1 DEF Init, SameAnswer, PipelineStartsOnce
  <2>3. \A r \in Requests : Inserted(r) /\ ReadRow(r) /\ Starting(r) /\ Told(r)
    BY <1>1 DEF Init, Inserted, ReadRow, Starting, Told
  <2> QED BY <1>1, <2>1, <2>2, <2>3, InitTyped DEF IntakeInv
<1>2. ASSUME IntakeInv, [Next]_vars PROVE IntakeInv'
  <2>1. ASSUME NEW r \in Requests, Serve(r) PROVE IntakeInv'
    <3>1. pc[r] \in {"commit", "enqueue"} => row[r] \in RawEmail
      BY <1>2 DEF IntakeInv, Inserted, Starting
    <3>2. TypeOK'
      BY <1>2, <2>1, <3>1, ServeTyped DEF IntakeInv
    <3> QED BY <1>2, <2>1, <3>2, FindKeeps, GetKeeps, InsertKeeps, CommitKeeps, EnqueueKeeps,
               AnswerKeeps DEF Serve
  <2>2. ASSUME NEW r \in Requests, Crash(r) \/ EnqueueFails(r) PROVE IntakeInv'
    BY <1>2, <2>2, DisturbancesTyped, AbortKeeps DEF IntakeInv
  <2>3. ASSUME NEW t \in tickets, DeleteTicket(t) PROVE IntakeInv'
    BY <1>2, <2>3, DisturbancesTyped, DeleteKeeps DEF IntakeInv
  <2>4. CASE UNCHANGED vars
    BY <1>2, <2>4 DEF vars, tables, IntakeInv, TypeOK, EmailsApart, TransactionsApart,
       TicketsOwned, ReferencesKnown, NothingHalfFiled, SameAnswer, PipelineStartsOnce,
       Inserted, ReadRow, Starting, Told, Known, Exists, TicketsOf, Clash
  <2> QED BY <1>2, <2>1, <2>2, <2>3, <2>4 DEF Next
<1> QED BY <1>1, <1>2

-----------------------------------------------------------------------------
(* Errors.  The reason for one must last: a stored email stays, a ticket    *)
(* that is gone never comes back, and nobody else publishes for a ticket    *)
(* whose message was refused.                                               *)

Gone(id) == Known(id) /\ ~Exists(id)

Refused(q) ==
  /\ spent.outages > 0 /\ row[q] \in RawEmail /\ row[q].at <= clock
  /\ \A i \in DOMAIN queue : queue[i] # row[q].at
  /\ \A p \in Requests \ {q} :
        pc[p] \in {"commit", "enqueue"} => row[p].at # row[q].at

Reason(q) ==
  \/ \E e \in rawEmails : e.content # Mail[q] /\ Clash(e.content, Mail[q])
  \/ parent[q] # None /\ Gone(parent[q])
  \/ row[q] \in RawEmail /\ row[q].thread # None /\ Gone(row[q].thread)
  \/ Refused(q)

ErrorInv == IntakeInv /\ \A q \in Requests : pc[q] = "error" => Reason(q)

(* No step removes a stored email. *)
LEMMA EmailsStay ==
  ASSUME IntakeInv, [Next]_vars, NEW e \in rawEmails
  PROVE  \E f \in rawEmails' : f.content = e.content /\ f.at = e.at
<1> USE DEF tables
<1>1. ASSUME NEW r \in Requests, Serve(r) \/ Crash(r) \/ EnqueueFails(r)
      PROVE  e \in rawEmails'
  BY <1>1 DEF Serve, FindThreadParent, Get, Insert, Commit, Enqueue, AnswerExisting, Crash,
     EnqueueFails
<1>2. ASSUME NEW t \in tickets, DeleteTicket(t)
      PROVE  \E f \in rawEmails' : f.content = e.content /\ f.at = e.at
  <2>1. rawEmails' = {Bereft(g, t) : g \in rawEmails}
    BY <1>2 DEF DeleteTicket, Bereft
  <2>2. e \in RawEmail
    BY DEF IntakeInv, TypeOK
  <2>3. Bereft(e, t) \in rawEmails'
    BY <2>1
  <2> QED BY <2>2, <2>3, BereftFields
<1> QED BY <1>1, <1>2 DEF Next, vars

(* A ticket that is gone never comes back: new ones get new ids. *)
LEMMA GoneForGood ==
  ASSUME IntakeInv, [Next]_vars, NEW id, Gone(id)
  PROVE  Gone(id)'
<1> USE DEF tables, Exists
<1>1. PICK e \in rawEmails : e.at = id
  BY DEF Gone, Known
<1>2. Known(id)'
  BY <1>1, EmailsStay DEF Known
<1>3. ASSUME NEW r \in Requests, Serve(r) \/ Crash(r) \/ EnqueueFails(r)
      PROVE  ~Exists(id)'
  <2>1. tickets' = tickets \/ Commit(r)
    BY <1>3 DEF Serve, FindThreadParent, Get, Insert, Enqueue, AnswerExisting, Crash,
       EnqueueFails
  <2>2. CASE Commit(r)
    <3>1. e.at # row[r].at
      BY <2>2 DEF Commit, IntakeInv, Inserted
    <3>2. tickets' \subseteq tickets \cup {[id |-> row[r].at, raw |-> Mail[r]]}
      BY <2>2 DEF Commit
    <3> QED BY <1>1, <3>1, <3>2 DEF Gone
  <2> QED BY <2>1, <2>2 DEF Gone
<1>4. ASSUME NEW t \in tickets, DeleteTicket(t) PROVE ~Exists(id)'
  BY <1>4 DEF DeleteTicket, Gone
<1> QED BY <1>2, <1>3, <1>4 DEF Gone, Next, vars

(* Another request's step leaves a refused message refused. *)
LEMMA StaysRefused ==
  ASSUME IntakeInv, NEW q \in Requests, Refused(q), NEW r \in Requests \ {q},
         Serve(r) \/ Crash(r) \/ EnqueueFails(r)
  PROVE  Refused(q)'
<1> USE DEF tables, Goto
<1> DEFINE id == row[q].at
<1>0. /\ TypeOK /\ clock \in Nat /\ id \in Nat /\ id <= clock
      /\ pc \in [Requests -> Pcs] /\ row \in [Requests -> RawEmail \cup {None}]
      /\ spent.outages \in Nat /\ queue \in Seq(Nat)
  BY DEF IntakeInv, TypeOK, Refused, RawEmail
<1>1. row'[q] = row[q] /\ pc'[q] = pc[q] /\ \A p \in Requests \ {r} : pc'[p] = pc[p] /\ row'[p] = row[p]
  BY <1>0 DEF Serve, FindThreadParent, Get, Insert, Commit, Enqueue, AnswerExisting, Crash,
     EnqueueFails
<1>2. spent'.outages > 0 /\ id <= clock'
  <2>1. clock' = clock \/ clock' = clock + 1
    BY DEF Serve, FindThreadParent, Get, Insert, Commit, Enqueue, AnswerExisting, Crash,
       EnqueueFails
  <2>2. spent'.outages = spent.outages \/ spent'.outages = spent.outages + 1
    BY <1>0 DEF Serve, FindThreadParent, Get, Insert, Commit, Enqueue, AnswerExisting, Crash,
       EnqueueFails, Spend, TypeOK
  <2> QED BY <1>0, <2>1, <2>2 DEF Refused
<1>3. pc'[r] \in {"commit", "enqueue"} => row'[r].at # id
  <2>1. CASE Insert(r)
    BY <1>0, <2>1 DEF Insert
  <2>2. CASE Commit(r)
    BY <1>0, <2>2 DEF Commit, Refused
  <2>3. CASE Serve(r) /\ ~Insert(r) /\ ~Commit(r)
    BY <1>0, <2>3 DEF Serve, FindThreadParent, Get, Enqueue, AnswerExisting
  <2>4. CASE Crash(r) \/ EnqueueFails(r)
    BY <1>0, <2>4 DEF Crash, EnqueueFails
  <2> QED BY <2>1, <2>2, <2>3, <2>4
<1>4. \A i \in DOMAIN queue' : queue'[i] # id
  <2>1. CASE Enqueue(r)
    <3>1. queue' = Append(queue, row[r].at) /\ row[r].at # id
      BY <2>1 DEF Enqueue, Refused
    <3>2. \A i \in 1 .. Len(queue) : queue[i] # id
      BY <1>0 DEF Refused
    <3>3. /\ DOMAIN queue' = 1 .. Len(queue) + 1 /\ Len(queue) \in Nat
          /\ queue'[Len(queue) + 1] = row[r].at
          /\ \A i \in 1 .. Len(queue) : queue'[i] = queue[i]
      BY <1>0, <3>1
    <3> QED BY <3>1, <3>2, <3>3
  <2>2. CASE ~Enqueue(r)
    <3>1. queue' = queue
      BY <2>2 DEF Serve, FindThreadParent, Get, Insert, Commit, AnswerExisting, Crash,
         EnqueueFails
    <3> QED BY <3>1 DEF Refused
  <2> QED BY <2>1, <2>2
<1>5. \A p \in Requests \ {q} : pc'[p] \in {"commit", "enqueue"} => row'[p].at # id
  BY <1>1, <1>3 DEF Refused
<1> QED BY <1>0, <1>1, <1>2, <1>4, <1>5 DEF Refused

(* A request that is told of an error has a reason for it. *)
LEMMA NewError ==
  ASSUME IntakeInv, IntakeInv', NEW q \in Requests, pc'[q] = "error",
         Serve(q) \/ Crash(q) \/ EnqueueFails(q)
  PROVE  Reason(q)'
<1> USE DEF tables, Goto
<1>0. /\ pc \in [Requests -> Pcs] /\ row \in [Requests -> RawEmail \cup {None}]
      /\ clock \in Nat /\ spent.outages \in Nat
  BY DEF IntakeInv, TypeOK
<1>1. CASE Insert(q)
  <2>1. /\ rawEmails' = rawEmails
        /\ \A e \in rawEmails : e.content # Mail[q]
        /\ \E e \in rawEmails : Clash(e.content, Mail[q])
    BY <1>0, <1>1 DEF Insert
  <2> QED BY <2>1 DEF Reason
<1>2. CASE Commit(q)
  <2>1. /\ parent[q] # None /\ ~Exists(parent[q])
        /\ UNCHANGED <<rawEmails, tickets, parent>>
    BY <1>0, <1>2 DEF Commit
  <2>2. Known(parent[q])
    BY <2>1 DEF IntakeInv, ReferencesKnown
  <2> QED BY <2>1, <2>2 DEF Reason, Gone, Known, Exists
<1>3. CASE AnswerExisting(q)
  <2>1. /\ pc[q] = "existing" /\ row[q].thread # None /\ ~Exists(row[q].thread)
        /\ UNCHANGED <<rawEmails, tickets, row>>
    BY <1>0, <1>3 DEF AnswerExisting
  <2>2. row[q] \in RawEmail /\ Known(row[q].thread)
    BY <2>1 DEF IntakeInv, ReadRow
  <2> QED BY <2>1, <2>2 DEF Reason, Gone, Known, Exists
<1>4. CASE EnqueueFails(q)
  <2>1. /\ pc[q] = "enqueue" /\ spent' = [spent EXCEPT !.outages = @ + 1]
        /\ UNCHANGED <<rawEmails, clock, row, queue>>
        /\ \A p \in Requests \ {q} : pc'[p] = pc[p]
    BY <1>0, <1>4 DEF EnqueueFails, Spend
  <2>2. spent'.outages > 0
    BY <1>0, <2>1 DEF IntakeInv, TypeOK
  <2>3. PICK e \in rawEmails : e.at = row[q].at /\ row[q] \in RawEmail
    BY <2>1 DEF IntakeInv, Starting
  <2>4. row[q].at <= clock
    BY <2>3 DEF IntakeInv, ReferencesKnown
  <2>5. \A i \in DOMAIN queue : queue[i] # row[q].at
    BY <2>1 DEF IntakeInv, Starting
  <2>6. \A p \in Requests \ {q} : pc[p] \in {"commit", "enqueue"} => row[p].at # row[q].at
    BY <2>1 DEF IntakeInv, TransactionsApart
  <2> QED BY <2>1, <2>2, <2>3, <2>4, <2>5, <2>6 DEF Reason, Refused
<1>5. CASE FindThreadParent(q) \/ Get(q) \/ Enqueue(q) \/ Crash(q)
  BY <1>0, <1>5 DEF FindThreadParent, Get, Enqueue, Crash
<1> QED BY <1>1, <1>2, <1>3, <1>4, <1>5 DEF Serve

(* The reason lasts, whatever the others and the admin do. *)
LEMMA ReasonLasts ==
  ASSUME IntakeInv, [Next]_vars, NEW q \in Requests, pc[q] = "error", Reason(q),
         ~(Serve(q) \/ Crash(q) \/ EnqueueFails(q))
  PROVE  Reason(q)'
<1> USE DEF tables, Goto
<1>1. row'[q] = row[q] /\ parent'[q] = parent[q]
  <2>1. ASSUME NEW r \in Requests \ {q}, Serve(r) \/ Crash(r) \/ EnqueueFails(r)
        PROVE  row'[q] = row[q] /\ parent'[q] = parent[q]
    BY <2>1 DEF IntakeInv, TypeOK, Serve, FindThreadParent, Get, Insert, Commit, Enqueue,
       AnswerExisting, Crash, EnqueueFails
  <2>2. ASSUME NEW t \in tickets, DeleteTicket(t) PROVE UNCHANGED <<row, parent>>
    BY <2>2 DEF DeleteTicket
  <2> QED BY <2>1, <2>2 DEF Next, vars
<1>2. ASSUME NEW e \in rawEmails, e.content # Mail[q], Clash(e.content, Mail[q])
      PROVE  Reason(q)'
  BY <1>2, EmailsStay DEF Reason
<1>3. ASSUME parent[q] # None, Gone(parent[q]) PROVE Reason(q)'
  <2>1. ASSUME NEW id, id = parent[q] PROVE Gone(id)'
    BY <1>3, <2>1, GoneForGood
  <2> QED BY <1>1, <1>3, <2>1 DEF Reason, Gone, Known, Exists
<1>4. ASSUME row[q] \in RawEmail, row[q].thread # None, Gone(row[q].thread) PROVE Reason(q)'
  <2>1. ASSUME NEW id, id = row[q].thread PROVE Gone(id)'
    BY <1>4, <2>1, GoneForGood
  <2> QED BY <1>1, <1>4, <2>1 DEF Reason, Gone, Known, Exists
<1>5. CASE Refused(q)
  <2>1. ASSUME NEW r \in Requests \ {q}, Serve(r) \/ Crash(r) \/ EnqueueFails(r)
        PROVE  Refused(q)'
    BY <1>5, <2>1, StaysRefused
  <2>2. ASSUME NEW t \in tickets, DeleteTicket(t) PROVE Refused(q)'
    BY <1>5, <2>2 DEF DeleteTicket, Refused, Spend, IntakeInv, TypeOK
  <2>3. CASE UNCHANGED vars
    <3>1. spent' = spent /\ row' = row /\ clock' = clock /\ queue' = queue /\ pc' = pc
      BY <2>3 DEF vars
    <3> QED BY <1>5, <3>1 DEF Refused, Reason
  <2> QED BY <2>1, <2>2, <2>3 DEF Next, Reason
<1> QED BY <1>2, <1>3, <1>4, <1>5 DEF Reason

(* ErrorInv is inductive. *)
LEMMA ErrorInductive ==
  /\ Init => ErrorInv
  /\ ErrorInv /\ [Next]_vars => ErrorInv'
<1>1. Init => ErrorInv
  BY IntakeInductive DEF Init, ErrorInv
<1>2. ASSUME ErrorInv, [Next]_vars PROVE ErrorInv'
  <2>1. IntakeInv /\ IntakeInv'
    BY <1>2, IntakeInductive DEF ErrorInv
  <2>2. ASSUME NEW q \in Requests, pc'[q] = "error" PROVE Reason(q)'
    <3>1. CASE Serve(q) \/ Crash(q) \/ EnqueueFails(q)
      BY <2>1, <2>2, <3>1, NewError
    <3>2. CASE ~(Serve(q) \/ Crash(q) \/ EnqueueFails(q))
      <4>1. ASSUME NEW r \in Requests \ {q}, Serve(r) \/ Crash(r) \/ EnqueueFails(r)
            PROVE  pc'[q] = pc[q]
        BY <2>1, <4>1 DEF IntakeInv, TypeOK, Serve, FindThreadParent, Get, Insert, Commit,
           Enqueue, AnswerExisting, Crash, EnqueueFails, Goto
      <4>2. ASSUME NEW t \in tickets, DeleteTicket(t) PROVE UNCHANGED pc
        BY <4>2 DEF DeleteTicket
      <4>3. pc[q] = "error"
        BY <1>2, <2>2, <3>2, <4>1, <4>2 DEF Next, vars
      <4> QED BY <1>2, <2>1, <3>2, <4>3, ReasonLasts DEF ErrorInv
    <3> QED BY <3>1, <3>2
  <2> QED BY <2>1, <2>2 DEF ErrorInv
<1> QED BY <1>1, <1>2

-----------------------------------------------------------------------------
(* The theorems.                                                            *)

(* Every value stays in its type, whatever the requests and their emails. *)
THEOREM IngestionTyped == Spec => []TypeOK
<1>1. IntakeInv => TypeOK
  BY DEF IntakeInv
<1> QED BY <1>1, IntakeInductive, PTL DEF Spec

(* However requests with the same email, or the same Message-ID, interleave *)
(* with each other, with crashes and with deletions, an email starts at     *)
(* most one ticket and a Message-ID names at most one raw email.            *)
THEOREM NoTicketTwice == Spec => []OneTicketPerEmail
<1>1. IntakeInv => OneTicketPerEmail
  BY TicketIds DEF IntakeInv, OneTicketPerEmail, EmailsApart, TicketsOwned, Clash
<1> QED BY <1>1, IntakeInductive, PTL DEF Spec

(* No email is left half filed: ingest_email's transaction stores it with   *)
(* its ticket, or threads it onto a live one, and only an admin's deletion  *)
(* undoes that.                                                             *)
THEOREM FiledWhole == Spec => []NothingHalfFiled
<1>1. IntakeInv => NothingHalfFiled
  BY DEF IntakeInv
<1> QED BY <1>1, IntakeInductive, PTL DEF Spec

(* A client that sends an email again, concurrently, after an error or      *)
(* after a deletion, is never told another ticket than the others were.     *)
THEOREM AnswersAgree == Spec => []SameAnswer
<1>1. IntakeInv => SameAnswer
  BY DEF IntakeInv
<1> QED BY <1>1, IntakeInductive, PTL DEF Spec

(* The pipeline starts at most once per ticket, only for a ticket that was  *)
(* committed, and has started whenever a client is told "created".          *)
THEOREM OnePipelinePerTicket == Spec => []PipelineStartsOnce
<1>1. IntakeInv => PipelineStartsOnce
  BY DEF IntakeInv
<1> QED BY <1>1, IntakeInductive, PTL DEF Spec

(* A request is told of an error only if another email has its Message-ID,  *)
(* a ticket it had read was deleted before it used it, or the broker        *)
(* refused its ticket's message: never for being a replay.                  *)
THEOREM ErrorsHaveReasons == Spec => []ErrorsExplained
<1>1. ErrorInv => ErrorsExplained
  BY DEF ErrorInv, Reason, Refused, Gone, ErrorsExplained, Explained
<1> QED BY <1>1, ErrorInductive, PTL DEF Spec

-----------------------------------------------------------------------------
(* The refinement of EmailIntake.                                           *)

(* The ticket an email is filed under, without a CHOOSE: emails are apart,  *)
(* and a ticket has the id of its email.                                    *)
Under(e) == IF \E t \in tickets : t.raw = e.content THEN e.at ELSE e.thread

FiledPlainly ==
  /\ DOMAIN Filed = {e.content : e \in rawEmails}
  /\ \A e \in rawEmails : Filed[e.content] = Under(e)
  /\ Filed = [c \in DOMAIN Filed |-> Filed[c]]

(* The invariant says under which ticket an email is filed.                 *)
LEMMA FiledUnder == IntakeInv => FiledPlainly
<1> SUFFICES ASSUME IntakeInv PROVE FiledPlainly
  OBVIOUS
<1>1. DOMAIN Filed = {e.content : e \in rawEmails} /\ Filed = [c \in DOMAIN Filed |-> Filed[c]]
  BY DEF Filed
<1>2. ASSUME NEW e \in rawEmails PROVE Filed[e.content] = Under(e)
  <2>1. (CHOOSE f \in rawEmails : f.content = e.content) = e
    BY DEF IntakeInv, EmailsApart, Clash
  <2>2. Filed[e.content] = TicketOf(e)
    BY <2>1 DEF Filed
  <2>3. ASSUME NEW t \in TicketsOf(e.content) PROVE t.id = e.at
    BY DEF IntakeInv, TicketsOwned, EmailsApart, Clash, TicketsOf
  <2>4. CASE TicketsOf(e.content) # {}
    <3>1. TicketOf(e) = e.at
      BY <2>3, <2>4 DEF TicketOf
    <3> QED BY <2>2, <2>4, <3>1 DEF Under, TicketsOf
  <2>5. CASE TicketsOf(e.content) = {}
    BY <2>2, <2>5 DEF TicketOf, Under, TicketsOf
  <2> QED BY <2>4, <2>5
<1> QED BY <1>1, <1>2 DEF FiledPlainly

(* A step that leaves the tables alone leaves what is filed alone. *)
LEMMA TablesStutter ==
  ASSUME UNCHANGED tables
  PROVE  UNCHANGED <<Filed, Live>>
  BY DEF tables, Filed, Live, TicketOf, TicketsOf

(* A commit files one email, under its own new ticket or under its live     *)
(* parent; it stutters when the parent was deleted meanwhile.               *)
LEMMA CommitFiles ==
  ASSUME IntakeInv, FiledPlainly, FiledPlainly', NEW r \in Requests, Commit(r)
  PROVE  Intake!Next \/ UNCHANGED <<Filed, Live>>
<1> DEFINE e == row[r]
           c == Mail[r]
<1>1. /\ e.content = c /\ e.thread = parent[r]
      /\ \A f \in rawEmails : f.content # c /\ f.at # e.at
  BY DEF Commit, IntakeInv, Inserted, Clash
<1>2. c \in Contents
  BY MailAssumption
<1>3. \A t \in tickets : t.raw # c /\ t.id # e.at
  BY <1>1 DEF IntakeInv, TicketsOwned
<1>4. ASSUME NEW k, rawEmails' = rawEmails \cup {e}, tickets \subseteq tickets',
             \A t \in tickets' \ tickets : t.raw = c, Under(e)' = k
      PROVE  Intake!FileUnder(c, k)
  <2>1. DOMAIN Filed' = DOMAIN Filed \cup {c} /\ c \notin DOMAIN Filed
    <3>1. {f.content : f \in rawEmails'} = {f.content : f \in rawEmails} \cup {c}
      BY <1>1, <1>4
    <3>2. c \notin {f.content : f \in rawEmails}
      BY <1>1
    <3> QED BY <3>1, <3>2 DEF FiledPlainly
  <2>2. Filed'[c] = k
    <3>1. e \in rawEmails' /\ UNCHANGED row
      BY <1>4 DEF Commit
    <3>2. Filed'[e.content] = Under(e)'
      BY <3>1 DEF FiledPlainly
    <3> QED BY <1>1, <1>4, <3>2
  <2>3. ASSUME NEW d \in DOMAIN Filed PROVE Filed'[d] = Filed[d] /\ d # c
    <3>1. PICK f \in rawEmails : f.content = d
      BY DEF FiledPlainly
    <3>2. Under(f)' = Under(f) /\ d # c
      BY <1>1, <1>4, <3>1 DEF Under
    <3> QED BY <1>4, <3>1, <3>2 DEF FiledPlainly
  <2>4. Filed' = [d \in DOMAIN Filed \cup {c} |-> IF d = c THEN k ELSE Filed[d]]
    BY <2>1, <2>2, <2>3 DEF FiledPlainly
  <2> QED BY <1>2, <2>1, <2>4 DEF Intake!FileUnder, Intake!Unfiled
<1>5. CASE parent[r] # None /\ ~Exists(parent[r])
  BY <1>5, TablesStutter DEF Commit, tables
<1>6. CASE parent[r] # None /\ Exists(parent[r])
  <2>1. rawEmails' = rawEmails \cup {e} /\ tickets' = tickets /\ UNCHANGED row
    BY <1>6 DEF Commit
  <2>2. Under(e)' = parent[r]
    BY <1>1, <1>3, <2>1 DEF Under
  <2>3. parent[r] \in Live /\ UNCHANGED Live
    BY <1>6, <2>1 DEF Live, Exists
  <2>4. Intake!FileUnder(c, parent[r])
    BY <1>4, <2>1, <2>2
  <2> QED BY <1>2, <2>3, <2>4 DEF Intake!Next, Intake!FileReply
<1>7. CASE parent[r] = None
  <2>1. /\ rawEmails' = rawEmails \cup {e} /\ UNCHANGED row
        /\ tickets' = tickets \cup {[id |-> e.at, raw |-> c]}
    BY <1>7 DEF Commit
  <2>2. Under(e)' = e.at
    <3>1. [id |-> e.at, raw |-> c] \in tickets'
      BY <2>1
    <3>2. \E t \in tickets' : t.raw = e.content
      BY <1>1, <3>1
    <3> QED BY <2>1, <3>2 DEF Under
  <2>3. Live' = Live \cup {e.at} /\ e.at \notin Live
    <3> DEFINE u == [id |-> e.at, raw |-> c]
    <3>0. u.id = e.at /\ tickets' = tickets \cup {u}
      BY <2>1
    <3> HIDE DEF u
    <3>1. {t.id : t \in tickets'} = {t.id : t \in tickets} \cup {e.at}
      BY <3>0
    <3> QED BY <1>3, <3>1 DEF Live
  <2>4. Intake!FileUnder(c, e.at)
    BY <1>4, <2>1, <2>2
  <2> QED BY <1>2, <2>3, <2>4 DEF Intake!Next, Intake!FileNew
<1> QED BY <1>5, <1>6, <1>7

(* A deletion unfiles exactly the emails under that ticket. *)
LEMMA DeleteUnfiles ==
  ASSUME IntakeInv, FiledPlainly, FiledPlainly', NEW t \in tickets, DeleteTicket(t)
  PROVE  Intake!Next
<1>1. tickets' = tickets \ {t} /\ rawEmails' = {Bereft(e, t) : e \in rawEmails}
  BY DEF DeleteTicket, Bereft
<1>2. Live' = Live \ {t.id} /\ t.id \in Live
  BY <1>1, TicketIds DEF Live
<1>3. ASSUME NEW e \in rawEmails
      PROVE  /\ Bereft(e, t) \in rawEmails' /\ Bereft(e, t).content = e.content
             /\ Filed'[e.content] = IF Filed[e.content] = t.id THEN None ELSE Filed[e.content]
  <2>1. /\ Bereft(e, t) \in rawEmails'
        /\ Bereft(e, t).content = e.content /\ Bereft(e, t).at = e.at
        /\ Bereft(e, t).thread = IF e.thread = t.id THEN None ELSE e.thread
    BY <1>1, BereftFields DEF IntakeInv, TypeOK
  <2>2. Filed'[e.content] = (IF \E u \in tickets' : u.raw = e.content
                             THEN e.at ELSE Bereft(e, t).thread)
    BY <2>1 DEF FiledPlainly, Under
  <2>3. Filed[e.content] = IF \E u \in tickets : u.raw = e.content THEN e.at ELSE e.thread
    BY DEF FiledPlainly, Under
  <2>4. ASSUME NEW u \in tickets, u.raw = e.content
        PROVE  u.id = e.at /\ e.thread = None /\ (u.id = t.id <=> u = t)
    BY <2>4, TicketIds DEF IntakeInv, TicketsOwned, EmailsApart, Clash
  <2>5. CASE t.raw = e.content
    <3>1. \A u \in tickets : u.raw = e.content => u = t
      BY <2>4, <2>5
    <3> QED BY <1>1, <2>1, <2>2, <2>3, <2>4, <2>5, <3>1
  <2>6. CASE t.raw # e.content
    BY <1>1, <2>1, <2>2, <2>3, <2>4, <2>6
  <2> QED BY <2>1, <2>5, <2>6
<1>4. DOMAIN Filed' = DOMAIN Filed
  <2>1. {f.content : f \in rawEmails'} = {f.content : f \in rawEmails}
    BY <1>1, <1>3
  <2> QED BY <2>1 DEF FiledPlainly
<1>5. Filed' = [c \in DOMAIN Filed |-> IF Filed[c] = t.id THEN None ELSE Filed[c]]
  <2>1. ASSUME NEW c \in DOMAIN Filed PROVE Filed'[c] = IF Filed[c] = t.id THEN None ELSE Filed[c]
    <3>1. PICK e \in rawEmails : e.content = c
      BY DEF FiledPlainly
    <3> QED BY <1>3, <3>1
  <2> QED BY <1>4, <2>1 DEF FiledPlainly
<1>6. Intake!Delete(t.id)
  BY <1>2, <1>5 DEF Intake!Delete
<1> QED BY <1>2, <1>6 DEF Intake!Next

(* Whatever the interleaving of the queries of any number of requests, what *)
(* is filed changes as EmailIntake says: each email once, in one step, for  *)
(* good (ingest_email's transaction and the unique keys).                   *)
THEOREM IngestionImplementsIntake == Spec => ImplementsIntake
<1>1. Init => Intake!Init
  <2> SUFFICES ASSUME Init PROVE Intake!Init
    OBVIOUS
  <2>1. Live = {} /\ {e.content : e \in rawEmails} = {}
    BY DEF Init, Live
  <2>2. Filed = [c \in {} |-> None]
    BY <2>1 DEF Filed
  <2> QED BY <2>1, <2>2 DEF Intake!Init
<1>2. IntakeInv /\ FiledPlainly /\ FiledPlainly' /\ [Next]_vars
        => Intake!Next \/ UNCHANGED <<Filed, Live>>
  <2> SUFFICES ASSUME IntakeInv, FiledPlainly, FiledPlainly', [Next]_vars
               PROVE  Intake!Next \/ UNCHANGED <<Filed, Live>>
    OBVIOUS
  <2>1. CASE UNCHANGED tables
    BY <2>1, TablesStutter
  <2>2. ASSUME NEW r \in Requests, Commit(r) PROVE Intake!Next \/ UNCHANGED <<Filed, Live>>
    BY <2>2, CommitFiles
  <2>3. ASSUME NEW t \in tickets, DeleteTicket(t) PROVE Intake!Next
    BY <2>3, DeleteUnfiles
  <2> QED BY <2>1, <2>2, <2>3 DEF Next, vars, tables, Serve, FindThreadParent, Get, Insert,
             Enqueue, AnswerExisting, Crash, EnqueueFails
<1> QED BY <1>1, <1>2, FiledUnder, IntakeInductive, PTL
        DEF Spec, ImplementsIntake, Intake!Spec
=============================================================================
