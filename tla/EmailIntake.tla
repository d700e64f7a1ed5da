------------------------------ MODULE EmailIntake ------------------------------
(***************************************************************************)
(* What ingestion promises: each distinct email is filed once, in one       *)
(* atomic step, under a ticket of its own or under the live ticket it       *)
(* replies to, and stays filed there until an admin deletes that ticket.    *)
(***************************************************************************)
CONSTANTS Contents, None

VARIABLES
    filed,  \* filed[c]: the ticket email c is filed under, None once deleted
    live    \* the tickets that exist

Init == filed = [c \in {} |-> None] /\ live = {}

Unfiled == Contents \ DOMAIN filed

FileUnder(c, t) ==
    /\ c \in Unfiled
    /\ filed' = [d \in DOMAIN filed \cup {c} |-> IF d = c THEN t ELSE filed[d]]

FileNew(c) == \E t \in live' \ live : live' = live \cup {t} /\ FileUnder(c, t)

FileReply(c) == UNCHANGED live /\ \E t \in live : FileUnder(c, t)

Delete(t) ==
    /\ live' = live \ {t}
    /\ filed' = [c \in DOMAIN filed |-> IF filed[c] = t THEN None ELSE filed[c]]

Next ==
    \/ \E c \in Contents : FileNew(c) \/ FileReply(c)
    \/ \E t \in live : Delete(t)

Spec == Init /\ [][Next]_<<filed, live>>
=============================================================================
