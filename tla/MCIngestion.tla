----------------------------- MODULE MCIngestion -----------------------------
(* An email, another one under its Message-ID, a reply to that Message-ID   *)
(* delivered twice (a reply if it comes after, a new email if before), and  *)
(* a reply to the reply.                                                    *)
EXTENDS Ingestion, TLC

CONSTANTS r1, r2, r3, r4, r5, first, other, answerTo, further, m1, m2, m3

MCRequests == {r1, r2, r3, r4, r5}
MCMail == r1 :> first @@ r2 :> other @@ r3 :> answerTo @@ r4 :> answerTo @@ r5 :> further
MCMsgId == first :> m1 @@ other :> m1 @@ answerTo :> m2 @@ further :> m3
MCRefs == first :> {} @@ other :> {} @@ answerTo :> {m1} @@ further :> {m2}
=============================================================================
