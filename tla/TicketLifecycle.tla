--------------------------- MODULE TicketLifecycle ---------------------------
(***************************************************************************)
(* What the pipeline promises about a ticket's status while one chain works *)
(* on it: it moves from received through processing and awaiting_validation *)
(* to a decision or to failed, never back to processing, never out of       *)
(* failed, and it does not stop on the way.  A decision may be reviewed:    *)
(* the validation stage runs again when its last statement failed.          *)
(***************************************************************************)
CONSTANT Tickets

VARIABLE status

Decided == {"approved", "rejected", "requires_manual_review"}
Open == {"received", "processing", "awaiting_validation"}

Move(t, from, to) == status[t] = from /\ status' = [status EXCEPT ![t] = to]

Start(t) == Move(t, "received", "processing")

Await(t) == Move(t, "processing", "awaiting_validation")

Decide(t) == \E d \in Decided: Move(t, "awaiting_validation", d)

Review(t) == \E d \in Decided: Move(t, d, "awaiting_validation")

GiveUp(t) == \E s \in Open: Move(t, s, "failed")

Progress(t) == Start(t) \/ Await(t) \/ Decide(t) \/ GiveUp(t)

GiveUpReview(t) == \E d \in Decided: Move(t, d, "failed")

Init == status = [t \in Tickets |-> "received"]

Next == \E t \in Tickets: Progress(t) \/ Review(t) \/ GiveUpReview(t)

Spec == Init /\ [][Next]_status

(* What keeps a ticket from stopping on the way. *)
Fairness == \A t \in Tickets: WF_status(Progress(t))
=============================================================================
