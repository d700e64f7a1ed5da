--------------------------- MODULE NotificationProofs ---------------------------
(* Theorems about Notifications for any notices, number of retries and      *)
(* disturbances: every safety property that its run checks.                 *)
(*                                                                          *)
(* DeliveryInv says what a task that is somewhere between two statements    *)
(* knows of the attempts and the mails so far, and bounds the mails a       *)
(* notice can still cause: one for its row while nothing is published, and  *)
(* one for each task of it that may still reach send_mail.                  *)
EXTENDS Notifications, FiniteSetTheorems, TLAPS

Task == [notice: Notices, tries: 0..MaxRetries, pc: Pcs]

(* What task j knows of its notice. *)
TaskFits(j) ==
  job[j].pc # "free" =>
    /\ job[j].tries <= attempts[job[j].notice]
    /\ job[j].pc \in {"save_failed", "retry"} => job[j].tries < attempts[job[j].notice]
    /\ job[j].pc = "retry" => job[j].tries < MaxRetries
    /\ job[j].pc = "skip" => job[j].notice \in NoAddress
    /\ job[j].pc = "save_sent" => mailed[job[j].notice] > 0

(* The tasks of n that may still send a mail. *)
MaySend == {"queued", "skip", "send", "save_failed", "retry"}

Senders(n) == {j \in Jobs : job[j].pc \in MaySend /\ job[j].notice = n}

(* The mail that n's first message will cause. *)
Unsent(n) == IF status[n] = "none" \/ n \in publishing THEN 1 ELSE 0

(* The disturbances that may duplicate a mail. *)
Excused == used["crashes"] + used["timeouts"]

MailsBounded(n) ==
  /\ IsFiniteSet(Senders(n))
  /\ mailed[n] + Cardinality(Senders(n)) + Unsent(n) <= 1 + Excused

DeliveryInv ==
  /\ TypeOK /\ SentWasMailed /\ GivenUpAfterRetries
  /\ \A j \in Jobs : TaskFits(j)
  /\ \A n \in publishing : status[n] # "none"
  /\ \A n \in Notices : MailsBounded(n)

-----------------------------------------------------------------------------
(* How a step changes the slots.                                            *)

(* Slot j holds a task with these fields; the other slots stay. *)
Becomes(j, n, tries, l) ==
  /\ job' \in [Jobs -> Task \cup {Free}]
  /\ \A k \in Jobs \ {j} : job'[k] = job[k]
  /\ job'[j] \in Task /\ job'[j] # Free
  /\ job'[j].notice = n /\ job'[j].tries = tries /\ job'[j].pc = l

Frees(j) ==
  /\ job' \in [Jobs -> Task \cup {Free}]
  /\ \A k \in Jobs \ {j} : job'[k] = job[k]
  /\ job'[j] = Free /\ job'[j].pc = "free"

(* A slot that is not free holds a task. *)
LEMMA Busy ==
  ASSUME TypeOK, NEW j \in Jobs
  PROVE  /\ job[j] # Free <=> job[j].pc # "free"
         /\ job[j] # Free => job[j] \in Task
  BY DEF TypeOK, Task, Free, Pcs

(* A new message is a task at its first statement. *)
LEMMA MessageFields ==
  ASSUME NEW n \in Notices, NEW k \in 0..MaxRetries
  PROVE  /\ Message(n, k) \in Task /\ Message(n, k) # Free
         /\ Message(n, k).notice = n /\ Message(n, k).tries = k /\ Message(n, k).pc = "queued"
<1>1. "queued" # "free"
  OBVIOUS
<1>2. Message(n, k).pc = "queued" /\ Free.pc = "free"
  BY DEF Message, Free
<1> QED BY <1>1, <1>2 DEF Message, Task, Pcs

(* A task goes to its next statement with its notice and its retries. *)
LEMMA GotoBecomes ==
  ASSUME TypeOK, NEW j \in Jobs, NEW l \in Pcs, job[j].pc # "free", Goto(j, l)
  PROVE  Becomes(j, job[j].notice, job[j].tries, l)
<1>1. job[j] \in Task
  BY Busy
<1> DEFINE x == [job[j] EXCEPT !.pc = l]
<1>2. x \in Task /\ x.notice = job[j].notice /\ x.tries = job[j].tries /\ x.pc = l
  BY <1>1 DEF Task
<1>3. x # Free
  BY <1>2 DEF Free, Pcs
<1>4. job' = [job EXCEPT ![j] = x] /\ job \in [Jobs -> Task \cup {Free}]
  BY DEF Goto, TypeOK, Task
<1> HIDE DEF x
<1> QED BY <1>2, <1>3, <1>4 DEF Becomes

(* A message is put into slot j. *)
LEMMA MessageBecomes ==
  ASSUME TypeOK, NEW j \in Jobs, NEW n \in Notices, NEW k \in 0..MaxRetries,
         job' = [job EXCEPT ![j] = Message(n, k)]
  PROVE  Becomes(j, n, k, "queued")
<1>1. job \in [Jobs -> Task \cup {Free}]
  BY DEF TypeOK, Task
<1> QED BY <1>1, MessageFields DEF Becomes

(* Slot j is emptied. *)
LEMMA FreeFrees ==
  ASSUME TypeOK, NEW j \in Jobs, job' = [job EXCEPT ![j] = Free]
  PROVE  Frees(j)
<1>1. job \in [Jobs -> Task \cup {Free}] /\ Free.pc = "free"
  BY DEF TypeOK, Task, Free
<1> QED BY <1>1 DEF Frees

(* The types are kept when the other variables' are and the slots hold tasks. *)
LEMMA Typed ==
  ASSUME TypeOK, job' \in [Jobs -> Task \cup {Free}],
         NEW n \in Notices, NEW s \in {"queued", "sent", "failed"},
         status' \in {status, [status EXCEPT ![n] = s]},
         publishing' \subseteq Notices, dropped' \subseteq Notices,
         attempts' \in {attempts, [attempts EXCEPT ![n] = @ + 1]},
         mailed' \in {mailed, [mailed EXCEPT ![n] = @ + 1]},
         \/ UNCHANGED used
         \/ \E d \in Disturbances : Spend(d)
  PROVE  TypeOK'
<1>1. used' \in [Disturbances -> Nat]
  BY DEF TypeOK, Spend
<1> QED BY <1>1 DEF TypeOK, Task

-----------------------------------------------------------------------------
(* The mails that a notice can still cause.                                 *)

(* A step that changes one slot adds it to or takes it from the senders. *)
LEMMA SlotCounts ==
  ASSUME NEW j \in Jobs, NEW n, IsFiniteSet(Senders(n)),
         \A k \in Jobs \ {j} : job'[k] = job[k]
  PROVE  /\ IsFiniteSet(Senders(n)')
         /\ Cardinality(Senders(n)) \in Nat
         /\ j \in Senders(n) /\ j \in Senders(n)'
              => Cardinality(Senders(n)') = Cardinality(Senders(n))
         /\ j \in Senders(n) /\ j \notin Senders(n)'
              => Cardinality(Senders(n)') = Cardinality(Senders(n)) - 1
         /\ j \notin Senders(n) /\ j \in Senders(n)'
              => Cardinality(Senders(n)') = Cardinality(Senders(n)) + 1
         /\ j \notin Senders(n) /\ j \notin Senders(n)'
              => Cardinality(Senders(n)') = Cardinality(Senders(n))
<1>1. CASE (j \in Senders(n)) <=> (j \in Senders(n)')
  <2>1. Senders(n)' = Senders(n)
    BY <1>1 DEF Senders
  <2> QED BY <1>1, <2>1, FS_CardinalityType
<1>2. CASE j \in Senders(n) /\ j \notin Senders(n)'
  <2>1. Senders(n)' = Senders(n) \ {j}
    BY <1>2 DEF Senders
  <2> QED BY <1>2, <2>1, FS_CardinalityType, FS_RemoveElement
<1>3. CASE j \notin Senders(n) /\ j \in Senders(n)'
  <2>1. Senders(n)' = Senders(n) \cup {j}
    BY <1>3 DEF Senders
  <2> QED BY <1>3, <2>1, FS_CardinalityType, FS_AddElement
<1> QED BY <1>1, <1>2, <1>3

-----------------------------------------------------------------------------
(* The steps of a task.                                                     *)

(* What n's loss of its last task leaves to be shown. *)
GivenUp(n) ==
  status[n] \in {"queued", "failed"} /\ ~BeingDelivered(n) =>
    n \in NoAddress \cup dropped \/ attempts[n] > MaxRetries

(* How many mails slot j may still cause. *)
Due(j) == IF job[j].pc \in MaySend THEN 1 ELSE 0

(* A step of a task of m keeps the invariant if the new task fits, if m is   *)
(* not given up too early, and if it adds no mail that is not excused.      *)
LEMMA TaskStep ==
  ASSUME DeliveryInv, TypeOK', NEW j \in Jobs, NEW m \in Notices,
         job[j].pc # "free", job[j].notice = m,
         (\E k, l : Becomes(j, m, k, l)) \/ Frees(j),
         UNCHANGED publishing, dropped \subseteq dropped',
         \A n \in Notices \ {m} : /\ status'[n] = status[n]
                                  /\ attempts'[n] = attempts[n] /\ mailed'[n] = mailed[n],
         status'[m] \in {"sent", "failed"} \/ status'[m] = status[m],
         status'[m] = "sent" => mailed'[m] > 0,
         attempts'[m] >= attempts[m], mailed'[m] >= mailed[m],
         Excused' >= Excused,
         mailed'[m] + Due(j)' + Excused <= mailed[m] + Due(j) + Excused',
         TaskFits(j)', GivenUp(m)'
  PROVE  DeliveryInv'
<1>0. \A k \in Jobs \ {j} : job'[k] = job[k]
  BY DEF Becomes, Frees
<1>1. \A n \in Notices : /\ attempts[n] \in Nat /\ attempts'[n] \in Nat
                         /\ mailed[n] \in Nat /\ mailed'[n] \in Nat
                         /\ attempts'[n] >= attempts[n] /\ mailed'[n] >= mailed[n]
  BY DEF DeliveryInv, TypeOK
<1>2. Excused \in Nat /\ Excused' \in Nat
  BY DEF DeliveryInv, TypeOK, Excused, Disturbances
<1>3. ASSUME NEW k \in Jobs PROVE TaskFits(k)'
  <2>1. CASE k = j
    BY <2>1
  <2>2. CASE k # j /\ job[k].pc # "free"
    <3>1. job[k].notice \in Notices /\ job[k].tries \in Nat
      BY <2>2, Busy, LimitsAssumption DEF DeliveryInv, Task
    <3> QED BY <1>0, <1>1, <2>2, <3>1 DEF DeliveryInv, TaskFits
  <2>3. CASE k # j /\ job[k].pc = "free"
    BY <1>0, <2>3 DEF TaskFits
  <2> QED BY <2>1, <2>2, <2>3
<1>4. SentWasMailed'
  BY <1>1 DEF DeliveryInv, SentWasMailed
<1>5. \A n \in publishing' : status'[n] # "none"
  BY DEF DeliveryInv, TypeOK
<1>6. ASSUME NEW n \in Notices PROVE GivenUp(n)'
  <2>1. CASE n = m
    BY <2>1
  <2>2. CASE n # m
    <3>1. BeingDelivered(n) => BeingDelivered(n)'
      BY <1>0, <2>2 DEF BeingDelivered
    <3> QED BY <2>2, <3>1 DEF DeliveryInv, GivenUpAfterRetries, GivenUp
  <2> QED BY <2>1, <2>2
<1>7. ASSUME NEW n \in Notices PROVE MailsBounded(n)'
  <2>1. IsFiniteSet(Senders(n)) /\ Cardinality(Senders(n)) \in Nat
    BY <1>0, SlotCounts DEF DeliveryInv, MailsBounded
  <2>2. IsFiniteSet(Senders(n)') /\ Cardinality(Senders(n)') \in Nat
    BY <1>0, <2>1, SlotCounts, FS_CardinalityType
  <2>3. Unsent(n)' <= Unsent(n) /\ Unsent(n) \in Nat /\ Unsent(n)' \in Nat
    BY DEF Unsent, DeliveryInv, TypeOK
  <2>4. mailed[n] + Cardinality(Senders(n)) + Unsent(n) <= 1 + Excused
    BY DEF DeliveryInv, MailsBounded
  <2>5. CASE n = m
    <3>1. j \in Senders(n) <=> Due(j) = 1
      BY <2>5 DEF Senders, Due
    <3>2. j \in Senders(n)' <=> Due(j)' = 1
      BY <2>5 DEF Senders, Due, Becomes, Frees, MaySend
    <3>3. Due(j) \in {0, 1} /\ Due(j)' \in {0, 1}
      BY DEF Due
    <3>4. Cardinality(Senders(n)') - Due(j)' = Cardinality(Senders(n)) - Due(j)
      BY <1>0, <2>1, <3>1, <3>2, <3>3, SlotCounts
    <3> QED BY <1>1, <1>2, <2>1, <2>2, <2>3, <2>4, <2>5, <3>3, <3>4 DEF MailsBounded
  <2>6. CASE n # m
    <3>1. j \notin Senders(n) /\ j \notin Senders(n)'
      BY <2>6 DEF Senders, Becomes, Frees, MaySend
    <3>2. Cardinality(Senders(n)') = Cardinality(Senders(n))
      BY <1>0, <2>1, <3>1, SlotCounts
    <3> QED BY <1>1, <1>2, <2>1, <2>2, <2>3, <2>4, <2>6, <3>2 DEF MailsBounded
  <2> QED BY <2>5, <2>6
<1>8. GivenUpAfterRetries'
  BY <1>6 DEF GivenUp, GivenUpAfterRetries
<1> QED BY <1>3, <1>4, <1>5, <1>7, <1>8 DEF DeliveryInv

(* A task that goes on keeps its notice from being given up. *)
LEMMA GoesOn ==
  ASSUME NEW j \in Jobs, NEW m, NEW k, NEW l, l # "done", Becomes(j, m, k, l)
  PROVE  GivenUp(m)'
  BY DEF Becomes, GivenUp, BeingDelivered

(* A step that neither saves nor sends: the task starts, or is received     *)
(* again after a retry or a crash.                                          *)
LEMMA QuietTask ==
  ASSUME DeliveryInv, NEW j \in Jobs, NEW m \in Notices, job[j].notice = m, job[j].pc # "free",
         NEW k \in 0..MaxRetries, NEW l \in {"queued", "skip", "send"},
         Becomes(j, m, k, l),
         UNCHANGED <<status, publishing, attempts, mailed, dropped>>,
         k <= attempts[m], l = "skip" => m \in NoAddress,
         \/ UNCHANGED used /\ job[j].pc \in MaySend
         \/ Spend("crashes")
  PROVE  DeliveryInv'
<1>2. TypeOK'
  BY Typed DEF DeliveryInv, Becomes, TypeOK, Disturbances
<1>3. TaskFits(j)' /\ GivenUp(m)'
  BY GoesOn DEF Becomes, TaskFits
<1>4. /\ Excused \in Nat /\ Excused' \in Nat /\ Excused' >= Excused
      /\ Due(j)' + Excused <= Due(j) + Excused'
  BY DEF DeliveryInv, TypeOK, Excused, Disturbances, Spend, Due
<1>5. \A n \in Notices : mailed[n] \in Nat /\ attempts[n] \in Nat
  BY DEF DeliveryInv, TypeOK
<1>6. mailed'[m] + Due(j)' + Excused <= mailed[m] + Due(j) + Excused'
  <2>1. Due(j)' \in Nat /\ Due(j) \in Nat
    BY DEF Due
  <2> QED BY <1>4, <1>5, <2>1
<1>7. status[m] = "sent" => mailed[m] > 0
  BY DEF DeliveryInv, SentWasMailed
<1> QED BY <1>2, <1>3, <1>4, <1>5, <1>6, <1>7, TaskStep

(* The task reads its notice. *)
LEMMA ReadKeeps ==
  ASSUME DeliveryInv, NEW j \in Jobs, Read(j)
  PROVE  DeliveryInv'
<1>1. job[j] \in Task /\ TaskFits(j)
  BY Busy DEF DeliveryInv, Read
<1>2. PICK l \in {"skip", "send"} :
        Goto(j, l) /\ (l = "skip" => job[j].notice \in NoAddress)
  BY DEF Read
<1>3. Becomes(j, job[j].notice, job[j].tries, l)
  BY <1>2, GotoBecomes DEF DeliveryInv, Read, Pcs
<1> QED BY <1>1, <1>2, <1>3, QuietTask DEF Read, TaskFits, Task, MaySend

(* The retry's message follows the attempt it repeats. *)
LEMMA RetryKeeps ==
  ASSUME DeliveryInv, NEW j \in Jobs, Retry(j)
  PROVE  DeliveryInv'
<1>1. job[j] \in Task /\ TaskFits(j) /\ job[j].pc = "retry"
  BY Busy DEF DeliveryInv, Retry
<1>2. /\ job[j].notice \in Notices /\ job[j].tries \in 0..MaxRetries
      /\ attempts[job[j].notice] \in Nat
  BY <1>1 DEF Task, DeliveryInv, TypeOK
<1>3. job[j].tries + 1 \in 0..MaxRetries /\ job[j].tries + 1 <= attempts[job[j].notice]
  BY <1>1, <1>2, LimitsAssumption DEF TaskFits
<1>4. Becomes(j, job[j].notice, job[j].tries + 1, "queued")
  BY <1>2, <1>3, MessageBecomes DEF DeliveryInv, Retry
<1> QED BY <1>1, <1>2, <1>3, <1>4, QuietTask DEF Retry, MaySend

(* The message of a task that died is received again. *)
LEMMA CrashKeeps ==
  ASSUME DeliveryInv, NEW j \in Jobs, Crash(j)
  PROVE  DeliveryInv'
<1>1. job[j] \in Task /\ TaskFits(j) /\ job[j].pc # "free"
  BY Busy DEF DeliveryInv, Crash
<1>2. job[j].notice \in Notices /\ job[j].tries \in 0..MaxRetries
  BY <1>1 DEF Task
<1>3. Becomes(j, job[j].notice, job[j].tries, "queued")
  BY <1>2, MessageBecomes DEF DeliveryInv, Crash
<1> QED BY <1>1, <1>2, <1>3, QuietTask DEF Crash, TaskFits

(* A step that saves an outcome, or ends the task. *)
LEMMA SavingTask ==
  ASSUME DeliveryInv, NEW j \in Jobs, NEW m \in Notices, job[j].notice = m,
         job[j].pc # "free", job[j].pc # "send",
         (\E l \in {"retry", "done"} :
             /\ Becomes(j, m, job[j].tries, l)
             /\ l = "retry" => job[j].pc = "save_failed" /\ job[j].tries < MaxRetries)
           \/ Frees(j),
         UNCHANGED <<publishing, attempts, mailed>>,
         \/ UNCHANGED status
         \/ \E s \in {"sent", "failed"} : SaveStatus(j, s) /\ (s = "sent" => job[j].pc = "save_sent"),
         UNCHANGED used \/ Spend("errors"),
         dropped' \in {dropped, dropped \cup {m}},
         GivenUp(m)'
  PROVE  DeliveryInv'
<1>1. job[j] \in Task /\ TaskFits(j)
  BY Busy DEF DeliveryInv, Task
<1>2. \A n \in Notices : mailed[n] \in Nat /\ attempts[n] \in Nat
  BY DEF DeliveryInv, TypeOK
<1>3. /\ \A n \in Notices \ {m} : status'[n] = status[n]
      /\ \/ status'[m] = status[m]
         \/ status'[m] = "failed"
         \/ status'[m] = "sent" /\ job[j].pc = "save_sent"
  BY <1>1 DEF DeliveryInv, TypeOK, SaveStatus
<1>4. status'[m] = "sent" => mailed[m] > 0
  BY <1>1, <1>3 DEF DeliveryInv, SentWasMailed, TaskFits
<1>5. TypeOK'
  <2>1. job' \in [Jobs -> Task \cup {Free}]
    BY DEF Becomes, Frees
  <2> QED BY <1>1, <2>1, Typed DEF DeliveryInv, TypeOK, SaveStatus, Disturbances
<1>6. TaskFits(j)'
  <2>1. CASE Frees(j)
    BY <2>1 DEF Frees, TaskFits
  <2>2. ASSUME NEW l \in {"retry", "done"}, Becomes(j, m, job[j].tries, l),
               l = "retry" => job[j].pc = "save_failed" /\ job[j].tries < MaxRetries
        PROVE  TaskFits(j)'
    BY <1>1, <2>2 DEF Becomes, TaskFits
  <2> QED BY <2>1, <2>2
<1>7. Excused' = Excused /\ Excused \in Nat
  BY DEF DeliveryInv, TypeOK, Excused, Disturbances, Spend
<1>8. Due(j)' <= Due(j) /\ Due(j) \in Nat /\ Due(j)' \in Nat
  BY DEF Due, Becomes, Frees, MaySend
<1>9. mailed'[m] + Due(j)' + Excused <= mailed[m] + Due(j) + Excused'
  BY <1>1, <1>2, <1>7, <1>8
<1>10. (\E k, l : Becomes(j, m, k, l)) \/ Frees(j)
  OBVIOUS
<1> QED BY <1>1, <1>2, <1>3, <1>4, <1>5, <1>6, <1>7, <1>9, <1>10, TaskStep

(* A notice without recipient is failed; nothing is lost by that. *)
LEMMA SkipKeeps ==
  ASSUME DeliveryInv, NEW j \in Jobs, Skip(j)
  PROVE  DeliveryInv'
<1>1. PICK m \in Notices : m = job[j].notice
  BY Busy DEF DeliveryInv, Task, Skip
<1>2. m \in NoAddress
  BY <1>1 DEF DeliveryInv, TaskFits, Skip
<1>3. Becomes(j, m, job[j].tries, "done")
  BY <1>1, GotoBecomes DEF DeliveryInv, Skip, Pcs
<1>4. GivenUp(m)'
  BY <1>2 DEF GivenUp
<1> QED BY <1>1, <1>3, <1>4, SavingTask DEF Skip

(* The task sends: whatever the answer, the attempt counts, and the mail    *)
(* that was taken does so only on the task's own account or a time-out's.   *)
LEMMA SendKeeps ==
  ASSUME DeliveryInv, NEW j \in Jobs, Send(j)
  PROVE  DeliveryInv'
<1>1. PICK m \in Notices : m = job[j].notice
  BY Busy DEF DeliveryInv, Task, Send
<1>2. /\ job[j] \in Task /\ job[j].pc = "send" /\ TaskFits(j)
      /\ UNCHANGED <<status, publishing, dropped>>
  BY Busy DEF DeliveryInv, Send
<1>3. PICK l \in {"save_sent", "save_failed"} :
        /\ Goto(j, l)
        /\ l = "save_sent" => mailed' = [mailed EXCEPT ![m] = @ + 1]
        /\ \/ mailed' = [mailed EXCEPT ![m] = @ + 1] /\ l = "save_sent" /\ UNCHANGED used
           \/ mailed' = mailed /\ Spend("refusals")
           \/ mailed' = [mailed EXCEPT ![m] = @ + 1] /\ Spend("timeouts")
  BY <1>1 DEF Send
<1>4. Becomes(j, m, job[j].tries, l)
  BY <1>1, <1>2, <1>3, GotoBecomes DEF DeliveryInv, Pcs
<1>5. attempts' = [attempts EXCEPT ![m] = @ + 1]
  BY <1>1 DEF Send
<1>6. \A n \in Notices : mailed[n] \in Nat /\ attempts[n] \in Nat
  BY DEF DeliveryInv, TypeOK
<1>7. TypeOK'
  BY <1>2, <1>3, <1>4, <1>5, Typed DEF DeliveryInv, TypeOK, Becomes, Disturbances
<1>8. /\ \A n \in Notices \ {m} : attempts'[n] = attempts[n] /\ mailed'[n] = mailed[n]
      /\ attempts'[m] = attempts[m] + 1
      /\ mailed'[m] \in {mailed[m], mailed[m] + 1}
      /\ l = "save_sent" => mailed'[m] = mailed[m] + 1
  BY <1>3, <1>5, <1>6 DEF DeliveryInv, TypeOK
<1>9. TaskFits(j)'
  BY <1>1, <1>2, <1>4, <1>6, <1>8, LimitsAssumption DEF TaskFits, Becomes, Task
<1>10. GivenUp(m)'
  BY <1>4, GoesOn
<1>11. /\ Excused \in Nat /\ Excused' \in Nat /\ Excused' >= Excused
       /\ mailed'[m] + Due(j)' + Excused <= mailed[m] + Due(j) + Excused'
  <2>1. Due(j) = 1 /\ Due(j)' = IF l = "save_sent" THEN 0 ELSE 1
    BY <1>2, <1>4 DEF Due, Becomes, MaySend
  <2>2. Excused \in Nat /\ Excused' \in Nat
    BY <1>7 DEF DeliveryInv, TypeOK, Excused, Disturbances
  <2>3. \/ Excused' = Excused /\ (l = "save_sent" \/ mailed'[m] = mailed[m])
        \/ Excused' = Excused + 1
    BY <1>3 DEF DeliveryInv, TypeOK, Excused, Disturbances, Spend
  <2> QED BY <1>6, <1>8, <2>1, <2>2, <2>3
<1>12. status[m] = "sent" => mailed'[m] > 0
  BY <1>6, <1>8 DEF DeliveryInv, SentWasMailed
<1> QED BY <1>1, <1>2, <1>4, <1>6, <1>7, <1>8, <1>9, <1>10, <1>11, <1>12, TaskStep

(* A failure is saved: the last one is the attempt after every retry. *)
LEMMA SaveFailedKeeps ==
  ASSUME DeliveryInv, NEW j \in Jobs, SaveFailed(j)
  PROVE  DeliveryInv'
<1>1. PICK m \in Notices : m = job[j].notice
  BY Busy DEF DeliveryInv, Task, SaveFailed
<1>2. job[j] \in Task /\ job[j].pc = "save_failed" /\ TaskFits(j)
  BY Busy DEF DeliveryInv, SaveFailed
<1>3. PICK l \in {"retry", "done"} : Goto(j, l) /\ (l = "retry" <=> job[j].tries < MaxRetries)
  BY DEF SaveFailed
<1>4. Becomes(j, m, job[j].tries, l)
  BY <1>1, <1>2, <1>3, GotoBecomes DEF DeliveryInv, Pcs
<1>5. GivenUp(m)'
  <2>1. CASE l = "retry"
    BY <1>4, <2>1, GoesOn
  <2>2. CASE l = "done"
    <3>1. job[j].tries < attempts[m] /\ ~(job[j].tries < MaxRetries)
      BY <1>1, <1>2, <1>3, <2>2 DEF TaskFits
    <3>2. attempts[m] > MaxRetries /\ attempts'[m] = attempts[m]
      BY <1>1, <1>2, <3>1, LimitsAssumption DEF Task, SaveFailed, DeliveryInv, TypeOK
    <3> QED BY <3>2 DEF GivenUp
  <2> QED BY <2>1, <2>2
<1> QED BY <1>1, <1>2, <1>3, <1>4, <1>5, SavingTask DEF SaveFailed

(* A success is saved: the notice is sent, whoever saved it before. *)
LEMMA SaveSentKeeps ==
  ASSUME DeliveryInv, NEW j \in Jobs, SaveSent(j)
  PROVE  DeliveryInv'
<1>1. PICK m \in Notices : m = job[j].notice
  BY Busy DEF DeliveryInv, Task, SaveSent
<1>2. Becomes(j, m, job[j].tries, "done")
  BY <1>1, GotoBecomes DEF DeliveryInv, SaveSent, Pcs
<1>3. GivenUp(m)'
  BY <1>1 DEF GivenUp, SaveSent, SaveStatus, DeliveryInv, TypeOK
<1> QED BY <1>1, <1>2, <1>3, SavingTask DEF SaveSent

(* A task that is done leaves nothing undone. *)
LEMMA FinishKeeps ==
  ASSUME DeliveryInv, NEW j \in Jobs, Finish(j)
  PROVE  DeliveryInv'
<1>1. PICK m \in Notices : m = job[j].notice
  BY Busy DEF DeliveryInv, Task, Finish
<1>2. Frees(j)
  BY FreeFrees DEF Finish, DeliveryInv
<1>3. BeingDelivered(m) => BeingDelivered(m)'
  BY <1>2 DEF BeingDelivered, Finish, Frees
<1>4. GivenUp(m)'
  BY <1>3 DEF DeliveryInv, GivenUpAfterRetries, GivenUp, Finish
<1> QED BY <1>1, <1>2, <1>4, SavingTask DEF Finish

(* A task that dies of an error nothing retries is recorded as dropped. *)
LEMMA AbortsKeep ==
  ASSUME DeliveryInv, NEW j \in Jobs, Aborts(j)
  PROVE  DeliveryInv'
<1>1. PICK m \in Notices : m = job[j].notice
  BY Busy DEF DeliveryInv, Task, Aborts
<1>2. Frees(j)
  BY FreeFrees DEF Aborts, DeliveryInv
<1>3. GivenUp(m)'
  BY <1>1 DEF GivenUp, Aborts
<1> QED BY <1>1, <1>2, <1>3, SavingTask DEF Aborts

(* The worker dies between the retry's message and its own acknowledgement: *)
(* one crash, one sender more.                                              *)
LEMMA CrashAfterRetryKeeps ==
  ASSUME DeliveryInv, NEW j \in Jobs, CrashAfterRetry(j)
  PROVE  DeliveryInv'
<1>1. job[j] \in Task /\ TaskFits(j) /\ job[j].pc = "retry"
  BY Busy DEF DeliveryInv, CrashAfterRetry
<1>2. PICK m \in Notices, t \in 0..MaxRetries : m = job[j].notice /\ t = job[j].tries
  BY <1>1 DEF Task
<1>3. /\ t + 1 \in 0..MaxRetries /\ t + 1 <= attempts[m] /\ t <= attempts[m]
      /\ attempts[m] \in Nat
  BY <1>1, <1>2, LimitsAssumption DEF TaskFits, DeliveryInv, TypeOK
<1>4. PICK k \in Jobs :
        /\ job[k] = Free
        /\ job' = [job EXCEPT ![j] = Message(m, t), ![k] = Message(m, t + 1)]
  BY <1>2 DEF CrashAfterRetry
<1>5. k # j /\ job[k].pc = "free"
  BY <1>1, <1>4, Busy DEF DeliveryInv
<1>6. /\ job'[j] = Message(m, t) /\ job'[k] = Message(m, t + 1)
      /\ \A i \in Jobs \ {j, k} : job'[i] = job[i]
      /\ job' \in [Jobs -> Task \cup {Free}]
  BY <1>2, <1>3, <1>4, <1>5, MessageFields DEF DeliveryInv, TypeOK, Task
<1>7. /\ job'[j] # Free /\ job'[j].notice = m /\ job'[j].tries = t /\ job'[j].pc = "queued"
      /\ job'[k] # Free /\ job'[k].notice = m /\ job'[k].tries = t + 1 /\ job'[k].pc = "queued"
  BY <1>2, <1>3, <1>6, MessageFields
<1>8. /\ UNCHANGED <<status, publishing, attempts, mailed, dropped>>
      /\ Excused' = Excused + 1 /\ Excused \in Nat
  BY DEF CrashAfterRetry, Spend, Excused, DeliveryInv, TypeOK, Disturbances
<1>9. TypeOK'
  <2>1. Spend("crashes")
    BY DEF CrashAfterRetry
  <2> QED BY <1>2, <1>6, <1>8, <2>1, Typed DEF DeliveryInv, TypeOK, Disturbances
<1>10. SentWasMailed' /\ \A n \in publishing' : status'[n] # "none"
  BY <1>8 DEF DeliveryInv, SentWasMailed
<1>11. ASSUME NEW i \in Jobs PROVE TaskFits(i)'
  BY <1>3, <1>6, <1>7, <1>8 DEF DeliveryInv, TaskFits
<1>12. ASSUME NEW n \in Notices PROVE GivenUp(n)'
  <2>1. BeingDelivered(n) => BeingDelivered(n)'
    BY <1>2, <1>5, <1>6, <1>7, <1>8, <1>4 DEF BeingDelivered
  <2> QED BY <1>8, <2>1 DEF DeliveryInv, GivenUpAfterRetries, GivenUp
<1>13. ASSUME NEW n \in Notices PROVE MailsBounded(n)'
  <2>1. /\ IsFiniteSet(Senders(n)) /\ Cardinality(Senders(n)) \in Nat
        /\ mailed[n] + Cardinality(Senders(n)) + Unsent(n) <= 1 + Excused
    BY FS_CardinalityType DEF DeliveryInv, MailsBounded
  <2>2. Unsent(n)' = Unsent(n) /\ Unsent(n) \in Nat /\ mailed[n] \in Nat /\ mailed'[n] = mailed[n]
    BY <1>8 DEF Unsent, DeliveryInv, TypeOK
  <2>3. CASE n = m
    <3>1. Senders(n)' = Senders(n) \cup {k}
      BY <1>1, <1>2, <1>5, <1>6, <1>7, <2>3 DEF Senders, MaySend
    <3>2. k \notin Senders(n)
      BY <1>5 DEF Senders, MaySend
    <3>3. /\ IsFiniteSet(Senders(n) \cup {k})
          /\ Cardinality(Senders(n) \cup {k}) = Cardinality(Senders(n)) + 1
      BY <2>1, <3>2, FS_AddElement
    <3> QED BY <1>8, <2>1, <2>2, <3>1, <3>3 DEF MailsBounded
  <2>4. CASE n # m
    <3>1. Senders(n)' = Senders(n)
      BY <1>2, <1>5, <1>6, <1>7, <2>4 DEF Senders, MaySend
    <3> QED BY <1>8, <2>1, <2>2, <3>1 DEF MailsBounded
  <2> QED BY <2>3, <2>4
<1>14. GivenUpAfterRetries'
  BY <1>12 DEF GivenUp, GivenUpAfterRetries
<1> QED BY <1>9, <1>10, <1>11, <1>13, <1>14 DEF DeliveryInv

-----------------------------------------------------------------------------
(* The steps of queue_notification.                                         *)

(* The row is stored. *)
LEMMA CreateRowKeeps ==
  ASSUME DeliveryInv, NEW m \in Notices, CreateRow(m)
  PROVE  DeliveryInv'
<1>1. UNCHANGED <<job, attempts, mailed, dropped, used>>
  BY DEF CreateRow
<1>2. TypeOK'
  BY <1>1, Typed DEF CreateRow, DeliveryInv, TypeOK, Task
<1>3. SentWasMailed' /\ GivenUpAfterRetries'
  BY <1>1 DEF CreateRow, DeliveryInv, TypeOK, SentWasMailed, GivenUpAfterRetries, BeingDelivered
<1>4. \A n \in publishing' : status'[n] # "none"
  BY DEF CreateRow, DeliveryInv, TypeOK
<1>5. ASSUME NEW j \in Jobs PROVE TaskFits(j)'
  BY <1>1 DEF DeliveryInv, TaskFits
<1>6. ASSUME NEW n \in Notices PROVE MailsBounded(n)'
  <2>1. Unsent(n)' = Unsent(n)
    BY DEF CreateRow, DeliveryInv, TypeOK, Unsent
  <2>2. Senders(n)' = Senders(n) /\ Excused' = Excused
    BY <1>1 DEF Senders, Excused
  <2> QED BY <1>1, <2>1, <2>2 DEF DeliveryInv, MailsBounded
<1> QED BY <1>2, <1>3, <1>4, <1>5, <1>6 DEF DeliveryInv

(* The message takes over the mail that its row may cause. *)
LEMMA PublishKeeps ==
  ASSUME DeliveryInv, NEW m \in Notices, Publish(m)
  PROVE  DeliveryInv'
<1>1. UNCHANGED <<status, attempts, mailed, dropped, used>>
      /\ publishing' = publishing \ {m} /\ m \in publishing
  BY DEF Publish
<1>2. PICK j \in Jobs : job[j] = Free /\ job' = [job EXCEPT ![j] = Message(m, 0)]
  BY DEF Publish
<1>3. Becomes(j, m, 0, "queued") /\ job[j].pc = "free"
  <2>1. 0 \in 0..MaxRetries
    BY LimitsAssumption
  <2>2. job[j].pc = "free"
    BY <1>2 DEF Free
  <2> QED BY <1>2, <2>1, <2>2, MessageBecomes DEF DeliveryInv
<1>4. TypeOK'
  BY <1>1, <1>3, Typed DEF DeliveryInv, TypeOK, Becomes
<1>5. SentWasMailed' /\ \A n \in publishing' : status'[n] # "none"
  BY <1>1 DEF DeliveryInv, SentWasMailed
<1>6. ASSUME NEW i \in Jobs PROVE TaskFits(i)'
  BY <1>1, <1>3 DEF DeliveryInv, TypeOK, TaskFits, Becomes
<1>7. ASSUME NEW n \in Notices PROVE GivenUp(n)'
  <2>1. BeingDelivered(n) => BeingDelivered(n)'
    BY <1>1, <1>2, <1>3 DEF BeingDelivered, Becomes
  <2> QED BY <1>1, <2>1 DEF DeliveryInv, GivenUpAfterRetries, GivenUp
<1>8. ASSUME NEW n \in Notices PROVE MailsBounded(n)'
  <2>0. \A k \in Jobs \ {j} : job'[k] = job[k]
    BY <1>3 DEF Becomes
  <2>1. /\ IsFiniteSet(Senders(n)) /\ Cardinality(Senders(n)) \in Nat
        /\ mailed[n] + Cardinality(Senders(n)) + Unsent(n) <= 1 + Excused
        /\ Excused' = Excused /\ Excused \in Nat /\ mailed[n] \in Nat
    BY <1>1, FS_CardinalityType DEF DeliveryInv, MailsBounded, Excused, TypeOK, Disturbances
  <2>2. IsFiniteSet(Senders(n)') /\ Cardinality(Senders(n)') \in Nat
    BY <2>0, <2>1, SlotCounts, FS_CardinalityType
  <2>3. j \notin Senders(n) /\ (j \in Senders(n)' <=> n = m)
    BY <1>3 DEF Senders, MaySend, Becomes
  <2>4. CASE n = m
    <3>1. Unsent(n) = 1 /\ Unsent(n)' = 0
      BY <1>1, <2>4 DEF Unsent, DeliveryInv
    <3>2. Cardinality(Senders(n)') = Cardinality(Senders(n)) + 1
      BY <2>0, <2>1, <2>3, <2>4, SlotCounts
    <3> QED BY <1>1, <2>1, <2>2, <3>1, <3>2 DEF MailsBounded
  <2>5. CASE n # m
    <3>1. Unsent(n)' = Unsent(n)
      BY <1>1, <2>5 DEF Unsent
    <3>2. Cardinality(Senders(n)') = Cardinality(Senders(n))
      BY <2>0, <2>1, <2>3, <2>5, SlotCounts
    <3> QED BY <1>1, <2>1, <2>2, <3>1, <3>2 DEF MailsBounded
  <2> QED BY <2>4, <2>5
<1>9. GivenUpAfterRetries'
  BY <1>7 DEF GivenUp, GivenUpAfterRetries
<1> QED BY <1>4, <1>5, <1>6, <1>8, <1>9 DEF DeliveryInv

(* A message that is never published drops the notice. *)
LEMMA PublishFailsKeeps ==
  ASSUME DeliveryInv, NEW m \in Notices, PublishFails(m)
  PROVE  DeliveryInv'
<1>1. /\ UNCHANGED <<status, job, attempts, mailed>> /\ Spend("errors")
      /\ publishing' = publishing \ {m} /\ dropped' = dropped \cup {m}
  BY DEF PublishFails
<1>2. TypeOK'
  BY <1>1, Typed DEF DeliveryInv, TypeOK, Task, Disturbances
<1>3. SentWasMailed' /\ (\A n \in publishing' : status'[n] # "none")
      /\ \A j \in Jobs : TaskFits(j)'
  BY <1>1 DEF DeliveryInv, SentWasMailed, TaskFits
<1>4. GivenUpAfterRetries'
  BY <1>1 DEF DeliveryInv, GivenUpAfterRetries, BeingDelivered
<1>5. ASSUME NEW n \in Notices PROVE MailsBounded(n)'
  <2>1. Unsent(n)' <= Unsent(n) /\ Unsent(n) \in Nat /\ Unsent(n)' \in Nat
    BY <1>1 DEF Unsent
  <2>2. Senders(n)' = Senders(n)
    BY <1>1 DEF Senders
  <2>3. /\ IsFiniteSet(Senders(n)) /\ Cardinality(Senders(n)) \in Nat
        /\ mailed[n] + Cardinality(Senders(n)) + Unsent(n) <= 1 + Excused
        /\ Excused' = Excused /\ Excused \in Nat /\ mailed[n] \in Nat
    BY <1>1, FS_CardinalityType DEF DeliveryInv, MailsBounded, Excused, TypeOK, Disturbances, Spend
  <2> QED BY <1>1, <2>1, <2>2, <2>3 DEF MailsBounded
<1> QED BY <1>2, <1>3, <1>4, <1>5 DEF DeliveryInv

(* DeliveryInv is inductive. *)
LEMMA DeliveryInductive ==
  /\ Init => DeliveryInv
  /\ DeliveryInv /\ [Next]_vars => DeliveryInv'
<1>1. ASSUME Init PROVE DeliveryInv
  <2>1. TypeOK /\ \A j \in Jobs : job[j].pc = "free"
    BY <1>1 DEF Init, TypeOK, Free
  <2>2. SentWasMailed /\ GivenUpAfterRetries /\ publishing = {}
    BY <1>1 DEF Init, SentWasMailed, GivenUpAfterRetries
  <2>3. ASSUME NEW n \in Notices PROVE MailsBounded(n)
    <3>1. Senders(n) = {}
      BY <2>1 DEF Senders, MaySend
    <3>2. IsFiniteSet(Senders(n)) /\ Cardinality(Senders(n)) = 0
      BY <3>1, FS_EmptySet
    <3> QED BY <1>1, <3>2 DEF MailsBounded, Init, Unsent, Excused, Disturbances
  <2> QED BY <2>1, <2>2, <2>3 DEF DeliveryInv, TaskFits
<1>2. ASSUME DeliveryInv, [Next]_vars PROVE DeliveryInv'
  <2>1. ASSUME NEW n \in Notices, CreateRow(n) \/ Publish(n) \/ PublishFails(n)
        PROVE  DeliveryInv'
    BY <1>2, <2>1, CreateRowKeeps, PublishKeeps, PublishFailsKeeps
  <2>2. ASSUME NEW j \in Jobs, Work(j) PROVE DeliveryInv'
    BY <1>2, <2>2, ReadKeeps, SkipKeeps, SendKeeps, SaveFailedKeeps, SaveSentKeeps, RetryKeeps,
       FinishKeeps DEF Work
  <2>3. ASSUME NEW j \in Jobs, Aborts(j) \/ Crash(j) \/ CrashAfterRetry(j) PROVE DeliveryInv'
    BY <1>2, <2>3, AbortsKeep, CrashKeeps, CrashAfterRetryKeeps
  <2>4. CASE UNCHANGED vars
    BY <1>2, <2>4 DEF vars, DeliveryInv, TypeOK, SentWasMailed, GivenUpAfterRetries,
       BeingDelivered, TaskFits, MailsBounded, Senders, Unsent, Excused
  <2> QED BY <1>2, <2>1, <2>2, <2>3, <2>4 DEF Next
<1> QED BY <1>1, <1>2

-----------------------------------------------------------------------------
(* The theorems.                                                            *)

(* Every value stays in its type; in particular no task is retried more     *)
(* than max_retries times.                                                  *)
THEOREM NotificationsTyped == Spec => []TypeOK
<1>1. DeliveryInv => TypeOK
  BY DEF DeliveryInv
<1> QED BY <1>1, DeliveryInductive, PTL DEF Spec

(* send_notification gives a notice up only after an attempt and every      *)
(* retry of it, unless it has no recipient or died of an error that is not  *)
(* retried, however its tasks overlap and crash.                            *)
THEOREM RetriesComeFirst == Spec => []GivenUpAfterRetries
<1>1. DeliveryInv => GivenUpAfterRetries
  BY DEF DeliveryInv
<1> QED BY <1>1, DeliveryInductive, PTL DEF Spec

(* A row says "sent" only of a mail that the server took. *)
THEOREM SentIsTrue == Spec => []SentWasMailed
<1>1. DeliveryInv => SentWasMailed
  BY DEF DeliveryInv
<1> QED BY <1>1, DeliveryInductive, PTL DEF Spec

(* A notice is mailed at most once, and once more for each crash and each   *)
(* time-out: refusals, retries and other errors never duplicate a mail.     *)
THEOREM NoSpontaneousDuplicates == Spec => []DuplicatesExplained
<1>1. DeliveryInv => DuplicatesExplained
  <2> SUFFICES ASSUME DeliveryInv, NEW n \in Notices
               PROVE  mailed[n] <= 1 + used["crashes"] + used["timeouts"]
    BY DEF DuplicatesExplained
  <2>1. /\ mailed[n] \in Nat /\ Excused \in Nat /\ Unsent(n) \in Nat
        /\ Cardinality(Senders(n)) \in Nat
        /\ mailed[n] + Cardinality(Senders(n)) + Unsent(n) <= 1 + Excused
    BY FS_CardinalityType DEF DeliveryInv, TypeOK, MailsBounded, Excused, Unsent, Disturbances
  <2>2. used["crashes"] \in Nat /\ used["timeouts"] \in Nat
    BY DEF DeliveryInv, TypeOK, Disturbances
  <2> QED BY <2>1, <2>2 DEF Excused
<1> QED BY <1>1, DeliveryInductive, PTL DEF Spec
=============================================================================
