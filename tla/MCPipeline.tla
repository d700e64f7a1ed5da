------------------------------ MODULE MCPipeline ------------------------------
(* Small instances of Pipeline: one or two tickets of one applicant.  The   *)
(* first email attaches one document twice; d1 agrees with both bodies, d2  *)
(* with neither.                                                            *)
EXTENDS Pipeline, TLC

CONSTANTS d1, d2,
          failures, crashes, losses, reprocesses, overrides, scans

MCDigests == {d1, d2}
TwoDocuments == [t \in Tickets |-> IF t = 1 THEN <<d1, d2, d1>> ELSE <<>>]
SameDocument == [t \in Tickets |-> <<d1>>]
MCApplicant == [t \in Tickets |-> "ada"]
MCDocNumber == [d \in MCDigests |-> d]
MCAgrees == [t \in Tickets |-> {d1}]

MCLimit == [failures |-> failures, crashes |-> crashes, losses |-> losses,
            reprocesses |-> reprocesses, overrides |-> overrides, scans |-> scans]

-----------------------------------------------------------------------------
(* docs/SPECS.md: check_sla "sets sla_breached once and emits sla_breached". *)
BreachFlaggedOnce == \A t \in Tickets: breachEvents[t] <= 1

(* models.py: approved and rejected are "terminal": with no admin at work,  *)
(* the pipeline itself does not take a ticket out of them.                  *)
DecisionsAreFinal ==
    [][\A t \in Tickets:
          ticket[t].status \in Terminal => ticket'[t].status = ticket[t].status]_vars

(* services/validation.py: "any mismatch / duplicate / bad format ->        *)
(* requires_manual_review": of two tickets with the same applicant and the  *)
(* same documents, at most one is approved without an admin.                *)
DuplicatesReviewed ==
    \A t, u \in Tickets:
        t # u /\ Applicant[t] = Applicant[u] /\ Attached[t] = Attached[u]
            => ~(ticket[t].status = "approved" /\ ticket[u].status = "approved")
=============================================================================
