---------------------------- MODULE EmailEndpoint ----------------------------
(***************************************************************************)
(* POST /email/inbound up to the call of ingestion: the Redis fixed-window  *)
(* rate limiter and the checks of the uploaded files.  A request is a       *)
(* thread of the web process; each Redis command is a step, and a command   *)
(* may fail or the process die before it.                                   *)
(***************************************************************************)
EXTENDS Integers, FiniteSets, Sequences

CONSTANTS
    Requests,
    None,
    Forwarded, \* Forwarded[r]: the entries of X-Forwarded-For
    Remote,    \* Remote[r]: REMOTE_ADDR, "" when missing
    Files,     \* Files[r]: the uploads, with their extension and size
    Allowed,   \* ALLOWED_ATTACHMENT_TYPES
    MaxBytes,  \* MAX_ATTACHMENT_BYTES
    Limit,     \* INGEST_RATE_LIMIT
    Window,    \* INGEST_RATE_WINDOW, in seconds
    Half,      \* half a second, in the ticks of the clock (Redis: 500)
    MaxTime,   \* the last moment (a bound)
    MaxErrors  \* failing commands (a bound)

ASSUME LimiterAssumption ==
    /\ Limit \in Nat /\ Window \in Nat \ {0} /\ Half \in Nat \ {0}
    /\ MaxTime \in Nat /\ MaxErrors \in Nat /\ None \notin Nat

VARIABLES
    now,     \* the time, in ticks: the clock of the web process and of Redis
    counter, \* Redis: the value of each key that exists
    expires, \* Redis: when a key goes, None for never
    req,     \* req[r]: where r is, what it read, what it was answered
    errors

vars == <<now, counter, expires, req, errors>>

redisVars == <<counter, expires>>

ClientId(r) ==
    CASE Forwarded[r] # <<>> -> Forwarded[r][1]
      [] Forwarded[r] = <<>> /\ Remote[r] # "" -> Remote[r]
      [] OTHER -> "unknown"

Second == 2 * Half

(* int(time.time()) // window: the clock is cut to seconds. *)
Bucket(t) == (t \div Second) \div Window

(* bucket, count and ttl: what r read.  hit: the window in which it     *)
(* counted.  told: the seconds to wait in a 429, and refused: when that was. *)
Init ==
    /\ now = 0
    /\ counter = <<>> /\ expires = <<>>
    /\ req = [r \in Requests |-> [pc |-> "start", bucket |-> 0, count |-> 0,
                                  hit |-> 0, ttl |-> 0, told |-> 0, refused |-> 0]]
    /\ errors = 0

(* Mutant: one counter for all windows. *)
KeyUnwindowed(r) == <<ClientId(r), 0>>

Key(r) == <<ClientId(r), req[r].bucket>>

Go(r, pc) == req' = [req EXCEPT ![r].pc = pc]

ReadClock(r) ==
    /\ req[r].pc = "start"
    /\ req' = [req EXCEPT ![r].pc = "incr", ![r].bucket = Bucket(now)]
    /\ UNCHANGED <<now, redisVars, errors>>

(* Mutant: one request too many. *)
JudgedLate(n) == IF n > Limit + 1 THEN "ttl" ELSE "files"

Judged(n) == IF n > Limit THEN "ttl" ELSE "files"

(* INCR makes a missing key 1, without expiry. *)
Incr(r) ==
    LET k == Key(r)
        n == IF k \in DOMAIN counter THEN counter[k] + 1 ELSE 1
        Put(f, v) == [j \in DOMAIN f \cup {k} |-> IF j = k THEN v ELSE f[j]]
    IN  /\ req[r].pc = "incr"
        /\ counter' = Put(counter, n)
        /\ expires' = IF n = 1 THEN Put(expires, None) ELSE expires
        /\ req' = [req EXCEPT ![r].pc = IF n = 1 THEN "expire" ELSE Judged(n),
                              ![r].count = n, ![r].hit = Bucket(now)]
        /\ UNCHANGED <<now, errors>>

(* Mutant: the key goes before its window ends. *)
ExpireEarly(r) ==
    /\ req[r].pc = "expire"
    /\ expires' = [k \in DOMAIN expires |->
                      IF k = Key(r) THEN now + (Window - 1) * Second ELSE expires[k]]
    /\ Go(r, Judged(1))
    /\ UNCHANGED <<now, counter, errors>>

Expire(r) ==
    /\ req[r].pc = "expire"
    /\ expires' = [k \in DOMAIN expires |->
                      IF k = Key(r) THEN now + Window * Second ELSE expires[k]]
    /\ Go(r, Judged(1))
    /\ UNCHANGED <<now, counter, errors>>

(* TTL: -2 for a key that is gone, -1 for one that never goes; else the      *)
(* seconds that are left, rounded to the nearest.                           *)
Ttl(k) ==
    CASE k \notin DOMAIN counter -> -2
      [] k \in DOMAIN counter /\ expires[k] = None -> -1
      [] OTHER -> (expires[k] - now + Half) \div Second

(* Mutant: the TTL is told as it is. *)
RetryAfterRaw(ttl) == ttl

RetryAfter(ttl) == IF ttl > 1 THEN ttl ELSE 1

Refuse(r) ==
    /\ req[r].pc = "ttl"
    /\ req' = [req EXCEPT ![r].pc = "429", ![r].ttl = Ttl(Key(r)),
                          ![r].told = RetryAfter(Ttl(Key(r))), ![r].refused = now]
    /\ UNCHANGED <<now, redisVars, errors>>

Bad(f) == f.ext \notin Allowed \/ f.size > MaxBytes

(* The first file that is not accepted decides the answer. *)
ValidateFiles(r) ==
    LET bad == {i \in DOMAIN Files[r] : Bad(Files[r][i])}
        first == Files[r][CHOOSE i \in bad : \A k \in bad : i <= k]
    IN  /\ req[r].pc = "files"
        /\ \/ bad = {} /\ Go(r, "ingest")
           \/ bad # {} /\ first.ext \notin Allowed /\ Go(r, "422")
           \/ bad # {} /\ first.ext \in Allowed /\ Go(r, "413")
        /\ UNCHANGED <<now, redisVars, errors>>

(* A Redis command fails, or the process dies: the request is lost, and a   *)
(* key that INCR made keeps no expiry.                                      *)
Fail(r) ==
    /\ req[r].pc \in {"incr", "expire", "ttl"}
    /\ errors < MaxErrors
    /\ errors' = errors + 1
    /\ Go(r, "500")
    /\ UNCHANGED <<now, redisVars>>

(* Time passes, and Redis drops the keys whose time has come. *)
Tick ==
    LET live == {k \in DOMAIN counter : expires[k] = None \/ expires[k] > now + 1}
    IN  /\ now < MaxTime
        /\ now' = now + 1
        /\ counter' = [k \in live |-> counter[k]]
        /\ expires' = [k \in live |-> expires[k]]
        /\ UNCHANGED <<req, errors>>

Handle(r) ==
    ReadClock(r) \/ Incr(r) \/ Expire(r) \/ Refuse(r) \/ ValidateFiles(r)

Next == Tick \/ \E r \in Requests : Handle(r) \/ Fail(r)

Spec == Init /\ [][Next]_vars

-----------------------------------------------------------------------------
(* Types; a 429 tells the client to wait at least a second.                 *)
TypeOK ==
    /\ now \in 0..MaxTime /\ errors \in 0..MaxErrors
    /\ DOMAIN expires = DOMAIN counter
    /\ \A k \in DOMAIN counter : counter[k] \in Nat \ {0} /\ expires[k] \in Nat \cup {None}
    /\ \A r \in Requests :
          /\ req[r].pc \in {"start", "incr", "expire", "ttl", "files",
                            "ingest", "429", "422", "413", "500"}
          /\ req[r].bucket \in Nat /\ req[r].count \in Nat /\ req[r].hit \in Nat
          /\ req[r].pc = "429" => req[r].told \in Nat \ {0}

Counted(r) == req[r].pc \notin {"start", "incr"} /\ req[r].count > 0

(* Passed the limiter, having counted within the window it read.            *)
Passed(r) ==
    /\ Counted(r) /\ req[r].pc \in {"files", "ingest", "422", "413"}
    /\ req[r].hit = req[r].bucket

(* No more than Limit requests of a client pass in one window, however      *)
(* their commands interleave and wherever a process dies; so no more than   *)
(* twice as many in any stretch of a window's length.                       *)
WindowBound ==
    \A r \in Requests :
        Cardinality({s \in Requests : Passed(s) /\ Key(s) = Key(r)}) <= Limit

(* A request is refused only when Limit others of its client counted in the *)
(* window it read: a counter that was left without expiry never locks a     *)
(* client out of a later window.                                            *)
RefusalsEarned ==
    \A r \in Requests : req[r].pc = "429" =>
        Cardinality({s \in Requests \ {r} : /\ Counted(s)
                                            /\ ClientId(s) = ClientId(r)
                                            /\ req[s].bucket = req[r].bucket}) >= Limit

(* The wait a client is told, and half a second more, takes it past the     *)
(* window, where its count starts again, unless the counter has no expiry   *)
(* (yet, or ever: then it is told to try again at once).  The half second   *)
(* is what the rounding of TTL may take off.                                *)
RetryAfterHonest ==
    \A r \in Requests :
        req[r].pc = "429" /\ req[r].ttl # -1
            => Bucket(req[r].refused + req[r].told * Second + Half) > req[r].bucket
=============================================================================
