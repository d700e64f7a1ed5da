----------------------------- MODULE Notifications -----------------------------
(***************************************************************************)
(* Delivery of the applicant's mails: queue_notification stores a row and   *)
(* publishes send_notification for it; the task sends the mail, then saves  *)
(* the outcome.  Only an error of send_mail is retried; an error of any     *)
(* other statement ends the task.  Messages are redelivered after a crash   *)
(* as in Pipeline.                                                          *)
(***************************************************************************)
EXTENDS Naturals

CONSTANTS
    Notices,     \* notification rows
    NoAddress,   \* the notices without to_addr
    Jobs,        \* slots for messages and executions (a bound)
    MaxRetries,  \* send_notification's max_retries
    Limit        \* how often each disturbance may happen (a bound)

(* refusals: send_mail raises and nothing was sent; timeouts: it raises     *)
(* although the server took the mail; errors: another statement raises.     *)
Disturbances == {"refusals", "timeouts", "errors", "crashes"}

ASSUME NoticesAssumption == NoAddress \subseteq Notices
ASSUME LimitsAssumption == MaxRetries \in Nat /\ Limit \in [Disturbances -> Nat]

Pcs == {"queued", "skip", "send", "save_failed", "save_sent", "retry", "done"}

Message(n, tries) == [notice |-> n, tries |-> tries, pc |-> "queued"]

Free == [pc |-> "free"]

VARIABLES
    status,      \* status[n]: the row's status, "none" before it exists
    publishing,  \* rows stored, their message not yet published
    job,         \* broker messages and running executions
    attempts,    \* attempts[n]: calls of send_mail for n
    mailed,      \* mailed[n]: mails the server took for n
    dropped,     \* notices one of whose tasks ended in an error nothing retries
    used         \* the disturbances spent so far

vars == <<status, publishing, job, attempts, mailed, dropped, used>>

Init ==
    /\ status = [n \in Notices |-> "none"]
    /\ publishing = {}
    /\ job = [j \in Jobs |-> Free]
    /\ attempts = [n \in Notices |-> 0]
    /\ mailed = [n \in Notices |-> 0]
    /\ dropped = {}
    /\ used = [d \in Disturbances |-> 0]

Spend(d) == used[d] < Limit[d] /\ used' = [used EXCEPT ![d] = @ + 1]

Goto(j, pc) == job' = [job EXCEPT ![j].pc = pc]

SaveStatus(j, s) == status' = [status EXCEPT ![job[j].notice] = s]

-----------------------------------------------------------------------------
(* queue_notification: the row, then the message. *)
CreateRow(n) ==
    /\ status[n] = "none"
    /\ status' = [status EXCEPT ![n] = "queued"]
    /\ publishing' = publishing \cup {n}
    /\ UNCHANGED <<job, attempts, mailed, dropped, used>>

Publish(n) ==
    /\ n \in publishing
    /\ \E j \in Jobs : job[j] = Free /\ job' = [job EXCEPT ![j] = Message(n, 0)]
    /\ publishing' = publishing \ {n}
    /\ UNCHANGED <<status, attempts, mailed, dropped, used>>

PublishFails(n) ==
    /\ n \in publishing
    /\ Spend("errors")
    /\ publishing' = publishing \ {n}
    /\ dropped' = dropped \cup {n}
    /\ UNCHANGED <<status, job, attempts, mailed>>

-----------------------------------------------------------------------------
(* send_notification.                                                       *)

Read(j) ==
    /\ job[j].pc = "queued"
    /\ Goto(j, IF job[j].notice \in NoAddress THEN "skip" ELSE "send")
    /\ UNCHANGED <<status, publishing, attempts, mailed, dropped, used>>

(* No recipient: failed, and not retried. *)
Skip(j) ==
    /\ job[j].pc = "skip"
    /\ SaveStatus(j, "failed")
    /\ Goto(j, "done")
    /\ UNCHANGED <<publishing, attempts, mailed, dropped, used>>

(* Mutant: fail_silently. *)
SendSilently(j) ==
    /\ job[j].pc = "send"
    /\ attempts' = [attempts EXCEPT ![job[j].notice] = @ + 1]
    /\ \/ mailed' = [mailed EXCEPT ![job[j].notice] = @ + 1] /\ UNCHANGED used
       \/ Spend("refusals") /\ UNCHANGED mailed
    /\ Goto(j, "save_sent")
    /\ UNCHANGED <<status, publishing, dropped>>

Send(j) ==
    LET taken == [mailed EXCEPT ![job[j].notice] = @ + 1]
    IN  /\ job[j].pc = "send"
        /\ attempts' = [attempts EXCEPT ![job[j].notice] = @ + 1]
        /\ \/ Goto(j, "save_sent") /\ mailed' = taken /\ UNCHANGED used
           \/ Goto(j, "save_failed") /\ Spend("refusals") /\ UNCHANGED mailed
           \/ Goto(j, "save_failed") /\ Spend("timeouts") /\ mailed' = taken
        /\ UNCHANGED <<status, publishing, dropped>>

(* Mutant: one retry too few. *)
SaveFailedEarly(j) ==
    /\ job[j].pc = "save_failed"
    /\ SaveStatus(j, "failed")
    /\ Goto(j, IF job[j].tries + 1 < MaxRetries THEN "retry" ELSE "done")
    /\ UNCHANGED <<publishing, attempts, mailed, dropped, used>>

(* Mutant: one retry too many. *)
SaveFailedLate(j) ==
    /\ job[j].pc = "save_failed"
    /\ SaveStatus(j, "failed")
    /\ Goto(j, IF job[j].tries <= MaxRetries THEN "retry" ELSE "done")
    /\ UNCHANGED <<publishing, attempts, mailed, dropped, used>>

(* self.retry raises the original error once the retries are used up. *)
SaveFailed(j) ==
    /\ job[j].pc = "save_failed"
    /\ SaveStatus(j, "failed")
    /\ Goto(j, IF job[j].tries < MaxRetries THEN "retry" ELSE "done")
    /\ UNCHANGED <<publishing, attempts, mailed, dropped, used>>

(* Mutant: the retry is raised for a mail that was sent as well. *)
SaveSentRetries(j) ==
    /\ job[j].pc = "save_sent"
    /\ SaveStatus(j, "sent")
    /\ Goto(j, IF job[j].tries < MaxRetries THEN "retry" ELSE "done")
    /\ UNCHANGED <<publishing, attempts, mailed, dropped, used>>

SaveSent(j) ==
    /\ job[j].pc = "save_sent"
    /\ SaveStatus(j, "sent")
    /\ Goto(j, "done")
    /\ UNCHANGED <<publishing, attempts, mailed, dropped, used>>

Retry(j) ==
    /\ job[j].pc = "retry"
    /\ job' = [job EXCEPT ![j] = Message(job[j].notice, job[j].tries + 1)]
    /\ UNCHANGED <<status, publishing, attempts, mailed, dropped, used>>

Finish(j) ==
    /\ job[j].pc = "done"
    /\ job' = [job EXCEPT ![j] = Free]
    /\ UNCHANGED <<status, publishing, attempts, mailed, dropped, used>>

(* A read, a save, an event or the retry's own message fails. *)
Aborts(j) ==
    /\ job[j].pc \notin {"free", "send"}
    /\ Spend("errors")
    /\ dropped' = dropped \cup {job[j].notice}
    /\ job' = [job EXCEPT ![j] = Free]
    /\ UNCHANGED <<status, publishing, attempts, mailed>>

(* Mutant: the message is acknowledged when it is received. *)
CrashAckedEarly(j) ==
    /\ job[j].pc \notin {"free", "queued"}
    /\ Spend("crashes")
    /\ job' = [job EXCEPT ![j] = Free]
    /\ UNCHANGED <<status, publishing, attempts, mailed, dropped>>

(* The worker dies: its message is delivered again with the same retries. *)
Crash(j) ==
    /\ job[j].pc \notin {"free", "queued"}
    /\ Spend("crashes")
    /\ job' = [job EXCEPT ![j] = Message(job[j].notice, job[j].tries)]
    /\ UNCHANGED <<status, publishing, attempts, mailed, dropped>>

(* The worker dies with the retry published and its own message not         *)
(* acknowledged: two tasks for one notice.                                  *)
CrashAfterRetry(j) ==
    /\ job[j].pc = "retry"
    /\ Spend("crashes")
    /\ \E k \in Jobs :
          /\ job[k] = Free
          /\ job' = [job EXCEPT ![j] = Message(job[j].notice, job[j].tries),
                                ![k] = Message(job[j].notice, job[j].tries + 1)]
    /\ UNCHANGED <<status, publishing, attempts, mailed, dropped>>

-----------------------------------------------------------------------------
Work(j) ==
    Read(j) \/ Skip(j) \/ Send(j) \/ SaveFailed(j) \/ SaveSent(j) \/ Retry(j) \/ Finish(j)

Next ==
    \/ \E n \in Notices : CreateRow(n) \/ Publish(n) \/ PublishFails(n)
    \/ \E j \in Jobs : Work(j) \/ Aborts(j) \/ Crash(j) \/ CrashAfterRetry(j)

Spec == Init /\ [][Next]_vars

(* The caller of queue_notification publishes, the workers work; slots are  *)
(* only a bound of the model.                                               *)
FairSpec ==
    /\ Spec
    /\ \A n \in Notices : WF_vars(Publish(n))
    /\ \A j \in Jobs : WF_vars(Work(j))

-----------------------------------------------------------------------------
TypeOK ==
    /\ status \in [Notices -> {"none", "queued", "sent", "failed"}]
    /\ publishing \subseteq Notices /\ dropped \subseteq Notices
    /\ job \in [Jobs -> [notice: Notices, tries: 0..MaxRetries, pc: Pcs] \cup {Free}]
    /\ attempts \in [Notices -> Nat] /\ mailed \in [Notices -> Nat]
    /\ used \in [Disturbances -> Nat]

BeingDelivered(n) ==
    \/ n \in publishing
    \/ \E j \in Jobs : job[j] # Free /\ job[j].notice = n /\ job[j].pc # "done"

(* A notice is only given up once send_mail was tried with every retry: one *)
(* that nobody works on is sent, or has no recipient, or used up all its    *)
(* retries, or died of an error that is not retried (send_notification).    *)
GivenUpAfterRetries ==
    \A n \in Notices :
        status[n] \in {"queued", "failed"} /\ ~BeingDelivered(n) =>
            n \in NoAddress \cup dropped \/ attempts[n] > MaxRetries

(* The applicant gets a mail twice only through a crash or a time-out:      *)
(* retries, refusals and unretried errors alone never duplicate it.         *)
DuplicatesExplained ==
    \A n \in Notices : mailed[n] <= 1 + used["crashes"] + used["timeouts"]

(* "sent" is never claimed for a mail the server did not take, whatever     *)
(* overlapping executions of one notice save.                               *)
SentWasMailed == \A n \in Notices : status[n] = "sent" => mailed[n] > 0

(* A queued notification does not stay queued: it is sent or failed in the  *)
(* end, unless an error nothing retries stopped it.                         *)
EveryNoticeSettles ==
    \A n \in Notices :
        status[n] = "queued" ~> status[n] \in {"sent", "failed"} \/ n \in dropped
=============================================================================
