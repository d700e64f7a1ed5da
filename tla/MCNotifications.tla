---------------------------- MODULE MCNotifications ----------------------------
(* A notice with a recipient and one without. *)
EXTENDS Notifications

CONSTANTS refusals, timeouts, errors, crashes

MCLimit == [refusals |-> refusals, timeouts |-> timeouts, errors |-> errors,
            crashes |-> crashes]
=============================================================================
