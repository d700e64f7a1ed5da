-------------------------- MODULE EmailEndpointProofs --------------------------
(* Theorems about EmailEndpoint for any requests, limit and window: every    *)
(* safety property that its run checks.                                      *)
(*                                                                           *)
(* LimiterInv ties what a request counted to the counter while its window    *)
(* lasts: Redis never drops a counter before the window that names its key   *)
(* is over, so within a window the counts are handed out one by one.         *)
EXTENDS EmailEndpoint, FiniteSetTheorems, TLAPS

(* The window that bucket b names, in ticks. *)
Span == Window * Second

Begin(b) == b * Span

End(b) == Begin(b) + Span

Judging == {"expire", "ttl", "files", "ingest", "429", "422", "413", "500"}

Request ==
  [pc: {"start", "incr"} \cup Judging, bucket: Nat, count: Nat, hit: Nat, ttl: Int,
   told: Nat, refused: Nat]

Typed ==
  /\ TypeOK
  /\ req \in [Requests -> Request]
  /\ counter = [k \in DOMAIN counter |-> counter[k]]
  /\ \A k \in DOMAIN counter : k[2] \in Nat

CountedFor(k) == {s \in Requests : Counted(s) /\ Key(s) = k}

(* What request r is at follows from its count. *)
Fits(r) ==
  /\ req[r].pc \in {"start", "incr"} => req[r].count = 0
  /\ req[r].pc # "start" => Begin(req[r].bucket) <= now
  /\ req[r].pc = "expire" => req[r].count = 1
  /\ req[r].pc \in {"ttl", "429"} => req[r].count > Limit
  /\ req[r].pc \in {"files", "ingest", "422", "413"} => req[r].count <= Limit
  /\ req[r].pc = "429" =>
        req[r].ttl = -1
          \/ req[r].refused + req[r].told * Second + Half >= End(req[r].bucket)

(* The counter keeps what r counted until r's window is over. *)
Remembered(r) ==
  Counted(r) =>
    \/ now >= End(req[r].bucket)
    \/ Key(r) \in DOMAIN counter /\ req[r].count <= counter[Key(r)]

(* A counter outlives its window, and no more than what was counted is in it. *)
CounterFits(k) ==
  /\ expires[k] # None => expires[k] >= End(k[2])
  /\ counter[k] <= Cardinality(CountedFor(k))

(* Two requests that counted in one window have two counts. *)
Timely(r) == Counted(r) /\ req[r].hit = req[r].bucket

CountsApart ==
  \A r, s \in Requests :
    r # s /\ Timely(r) /\ Timely(s) /\ Key(r) = Key(s) => req[r].count # req[s].count

LimiterInv ==
  /\ Typed /\ CountsApart
  /\ IsFiniteSet({s \in Requests : Counted(s)})
  /\ \A k \in DOMAIN counter : CounterFits(k)
  /\ \A r \in Requests :
        /\ Fits(r) /\ Remembered(r)
        /\ Counted(r) => req[r].count <= Cardinality(CountedFor(Key(r)))

-----------------------------------------------------------------------------
(* Windows.                                                                 *)

(* A second has a middle. *)
LEMMA Seconds ==
  /\ Half \in Nat /\ Half > 0 /\ Second \in Nat /\ Second > 0 /\ Second = Half + Half
  /\ Window \in Nat /\ Window > 0 /\ Span \in Nat
  BY LimiterAssumption DEF Second, Span

(* The quotient by a positive number. *)
LEMMA Quotient ==
  ASSUME NEW t \in Nat, NEW d \in Nat \ {0}
  PROVE  t \div d \in Nat /\ d * (t \div d) <= t /\ t < d * ((t \div d) + 1)
  OBVIOUS

(* A moment is in the window that its bucket names. *)
LEMMA Windows ==
  ASSUME NEW t \in Nat, NEW b \in Nat
  PROVE  /\ Bucket(t) \in Nat
         /\ Begin(b) \in Nat /\ End(b) \in Nat /\ End(b) = Begin(b) + Span
         /\ Begin(Bucket(t)) <= t
         /\ Bucket(t) = b => t < End(b)
         /\ t >= End(b) => Bucket(t) > b
<1>0. Second \in Nat \ {0} /\ Window \in Nat \ {0}
  BY Seconds
<1>1. PICK s \in Nat : s = t \div Second /\ Second * s <= t /\ t < Second * (s + 1)
  BY <1>0, Quotient
<1>2. PICK q \in Nat : q = s \div Window /\ Window * q <= s /\ s < Window * (q + 1)
  BY <1>0, Quotient
<1>3. Bucket(t) = q
  BY <1>1, <1>2 DEF Bucket
<1>4. Begin(b) \in Nat /\ End(b) \in Nat /\ End(b) = Begin(b) + Span
  BY Seconds DEF Begin, End
<1>5. Begin(q) <= t
  <2>1. Second * (Window * q) <= Second * s
    BY <1>0, <1>2
  <2>2. Begin(q) = Second * (Window * q)
    BY <1>0 DEF Begin, Span
  <2> QED BY <1>0, <1>1, <2>1, <2>2
<1>6. t < End(q)
  <2>1. s + 1 <= Window * (q + 1)
    BY <1>0, <1>2
  <2>2. Second * (s + 1) <= Second * (Window * (q + 1))
    BY <1>0, <2>1
  <2>3. End(q) = Second * (Window * (q + 1))
    BY <1>0 DEF Begin, End, Span
  <2> QED BY <1>0, <1>1, <2>2, <2>3
<1>7. q <= b => End(q) <= End(b)
  <2>1. q <= b => Span * q <= Span * b
    BY Seconds
  <2> QED BY <2>1, Seconds DEF Begin, End
<1>8. End(q) \in Nat
  BY Seconds DEF Begin, End
<1> QED BY <1>3, <1>4, <1>5, <1>6, <1>7, <1>8

(* The key names the client and the window. *)
LEMMA KeyNames ==
  ASSUME NEW r \in Requests
  PROVE  /\ Key(r)[2] = req[r].bucket
         /\ \A s \in Requests : Key(r) = Key(s) <=>
               ClientId(r) = ClientId(s) /\ req[r].bucket = req[s].bucket
  BY DEF Key

(* What was counted for a key is finite. *)
LEMMA CountedFinite ==
  ASSUME IsFiniteSet({s \in Requests : Counted(s)}), NEW k
  PROVE  IsFiniteSet(CountedFor(k)) /\ Cardinality(CountedFor(k)) \in Nat
<1>1. CountedFor(k) \subseteq {s \in Requests : Counted(s)}
  BY DEF CountedFor
<1> QED BY <1>1, FS_Subset, FS_CardinalityType

(* The service starts with no counter and no count. *)
LEMMA InitFits == Init => LimiterInv
<1> SUFFICES ASSUME Init PROVE LimiterInv
  OBVIOUS
<1>1. DOMAIN counter = {} /\ DOMAIN expires = {} /\ counter = [k \in DOMAIN counter |-> counter[k]]
  BY DEF Init
<1>2. req \in [Requests -> Request]
  BY DEF Init, Request
<1>3. \A r \in Requests : /\ req[r].pc = "start" /\ req[r].count = 0 /\ req[r].bucket = 0
                          /\ req[r].hit = 0
  BY DEF Init
<1>4. Typed
  BY <1>1, <1>2, <1>3, LimiterAssumption DEF Init, Typed, TypeOK
<1>5. {s \in Requests : Counted(s)} = {} /\ \A s \in Requests : ~Counted(s)
  BY <1>3 DEF Counted
<1> QED BY <1>1, <1>3, <1>4, <1>5, FS_EmptySet DEF LimiterInv, CountsApart, Timely, Fits, Remembered

-----------------------------------------------------------------------------
(* Steps of a request that count nothing.                                   *)

(* Request r goes on without counting. *)
Onward(r, x) ==
  /\ req' = [req EXCEPT ![r] = x] /\ x \in Request
  /\ x.count = req[r].count /\ x.hit = req[r].hit
  /\ req[r].count > 0 =>
        req[r].pc \in Judging /\ x.pc \in Judging /\ x.bucket = req[r].bucket

(* Such a step leaves every count as it is. *)
LEMMA CountsStay ==
  ASSUME Typed, NEW r \in Requests, NEW x, Onward(r, x)
  PROVE  /\ req'[r] = x /\ req' \in [Requests -> Request]
         /\ \A s \in Requests \ {r} : req'[s] = req[s]
         /\ \A s \in Requests : /\ Counted(s)' <=> Counted(s)
                                /\ req'[s].count = req[s].count /\ req'[s].hit = req[s].hit
                                /\ Counted(s) => /\ req'[s].bucket = req[s].bucket
                                                 /\ Key(s)' = Key(s)
         /\ \A k : CountedFor(k)' = CountedFor(k)
<1>1. /\ req'[r] = x /\ req' \in [Requests -> Request]
      /\ \A s \in Requests \ {r} : req'[s] = req[s]
  BY DEF Typed, Onward
<1>2. ASSUME NEW s \in Requests
      PROVE  /\ Counted(s)' <=> Counted(s)
             /\ req'[s].count = req[s].count /\ req'[s].hit = req[s].hit
             /\ Counted(s) => req'[s].bucket = req[s].bucket /\ Key(s)' = Key(s)
  <2>1. CASE s = r
    <3>1. req[r].count \in Nat
      BY DEF Typed, Request
    <3> QED BY <1>1, <2>1, <3>1 DEF Onward, Counted, Key, Judging
  <2>2. CASE s # r
    BY <1>1, <2>2 DEF Counted, Key
  <2> QED BY <2>1, <2>2
<1>3. ASSUME NEW k PROVE CountedFor(k)' = CountedFor(k)
  BY <1>2 DEF CountedFor
<1> QED BY <1>1, <1>2, <1>3

(* It keeps the invariant if r still fits. *)
LEMMA OnwardKeeps ==
  ASSUME LimiterInv, TypeOK', NEW r \in Requests, NEW x, Onward(r, x), Fits(r)',
         UNCHANGED <<now, counter>>, DOMAIN expires' = DOMAIN expires,
         \A k \in DOMAIN counter :
            expires'[k] = expires[k] \/ expires'[k] = None \/ expires'[k] >= End(k[2])
  PROVE  LimiterInv'
<1>1. /\ req'[r] = x /\ req' \in [Requests -> Request]
      /\ \A s \in Requests \ {r} : req'[s] = req[s]
      /\ \A s \in Requests : /\ Counted(s)' <=> Counted(s)
                             /\ req'[s].count = req[s].count /\ req'[s].hit = req[s].hit
                             /\ Counted(s) => /\ req'[s].bucket = req[s].bucket
                                              /\ Key(s)' = Key(s)
      /\ \A k : CountedFor(k)' = CountedFor(k)
  BY CountsStay DEF LimiterInv
<1>2. Typed'
  BY <1>1 DEF LimiterInv, Typed
<1>3. CountsApart'
  BY <1>1 DEF LimiterInv, CountsApart, Timely
<1>4. {s \in Requests : Counted(s)}' = {s \in Requests : Counted(s)}
  BY <1>1
<1>5. ASSUME NEW k \in DOMAIN counter' PROVE CounterFits(k)'
  BY <1>1 DEF LimiterInv, CounterFits
<1>6. ASSUME NEW s \in Requests
      PROVE  /\ Fits(s)' /\ Remembered(s)'
             /\ Counted(s)' => req'[s].count <= Cardinality(CountedFor(Key(s)))'
  <2>1. Fits(s)'
    <3>1. CASE s = r
      BY <3>1
    <3>2. CASE s # r
      BY <1>1, <3>2 DEF LimiterInv, Fits
    <3> QED BY <3>1, <3>2
  <2>2. Remembered(s)'
    BY <1>1 DEF LimiterInv, Remembered
  <2>3. Counted(s)' => req'[s].count <= Cardinality(CountedFor(Key(s)))'
    <3>1. ASSUME Counted(s) PROVE CountedFor(Key(s))' = CountedFor(Key(s))
      BY <1>1, <3>1 DEF CountedFor
    <3> QED BY <1>1, <3>1 DEF LimiterInv
  <2> QED BY <2>1, <2>2, <2>3
<1> QED BY <1>2, <1>3, <1>4, <1>5, <1>6 DEF LimiterInv

(* Types of what a request holds. *)
LEMMA Held ==
  ASSUME LimiterInv, NEW r \in Requests
  PROVE  /\ req[r] \in Request /\ Fits(r) /\ now \in Nat
         /\ req[r].bucket \in Nat /\ req[r].count \in Nat /\ req[r].hit \in Nat
         /\ req[r].ttl \in Int /\ req[r].told \in Nat /\ req[r].refused \in Nat
  BY LimiterAssumption DEF LimiterInv, Typed, TypeOK, Request

(* The bucket is the window of the moment that was read. *)
LEMMA ReadClockKeeps ==
  ASSUME LimiterInv, NEW r \in Requests, ReadClock(r)
  PROVE  LimiterInv'
<1> DEFINE x == [req[r] EXCEPT !.pc = "incr", !.bucket = Bucket(now)]
<1>1. req' = [req EXCEPT ![r] = x]
  BY DEF ReadClock
<1>2. req[r].pc = "start" /\ req[r].count = 0
  BY Held DEF ReadClock, Fits
<1>3. Bucket(now) \in Nat /\ Begin(Bucket(now)) <= now
  BY Held, Windows
<1>4. /\ x \in Request /\ x.count = req[r].count /\ x.hit = req[r].hit
      /\ x.pc = "incr" /\ x.bucket = Bucket(now)
  BY <1>3, Held DEF Request
<1> HIDE DEF x
<1>5. Onward(r, x)
  BY <1>1, <1>2, <1>4 DEF Onward
<1>6. TypeOK'
  BY <1>1, <1>4 DEF ReadClock, redisVars, LimiterInv, Typed, TypeOK, Request
<1>7. req'[r] = x
  BY <1>5, CountsStay DEF LimiterInv
<1>8. Fits(r)'
  BY <1>2, <1>3, <1>4, <1>7 DEF Fits, ReadClock
<1> QED BY <1>5, <1>6, <1>8, OnwardKeeps DEF ReadClock, redisVars

(* A step that only moves r to l. *)
LEMMA GoKeeps ==
  ASSUME LimiterInv, NEW r \in Requests, NEW l \in Judging, Go(r, l),
         req[r].pc # "start", l \notin {"expire", "429"}, l = "ttl" => req[r].count > Limit,
         l \in {"files", "ingest", "422", "413"} => req[r].count <= Limit,
         req[r].pc = "incr" => l = "500",
         UNCHANGED <<now, counter>>, DOMAIN expires' = DOMAIN expires,
         \A k \in DOMAIN counter : expires'[k] \in Nat \cup {None},
         errors' \in 0..MaxErrors,
         \A k \in DOMAIN counter :
            expires'[k] = expires[k] \/ expires'[k] = None \/ expires'[k] >= End(k[2])
  PROVE  LimiterInv'
<1> DEFINE x == [req[r] EXCEPT !.pc = l]
<1>1. req' = [req EXCEPT ![r] = x]
  BY DEF Go
<1>2. /\ x \in Request /\ x.count = req[r].count /\ x.hit = req[r].hit
      /\ x.pc = l /\ x.bucket = req[r].bucket
  BY Held DEF Request
<1> HIDE DEF x
<1>3. Onward(r, x)
  BY <1>1, <1>2, Held DEF Onward, Fits, Request, Judging
<1>4. req'[r] = x
  BY <1>3, CountsStay DEF LimiterInv
<1>5. TypeOK'
  BY <1>1, <1>2 DEF LimiterInv, Typed, TypeOK, Request, Judging
<1>6. Fits(r)'
  BY <1>2, <1>4, Held DEF Fits, Judging
<1> QED BY <1>3, <1>5, <1>6, OnwardKeeps

(* A failing command leaves a count that may never be judged. *)
LEMMA FailKeeps ==
  ASSUME LimiterInv, NEW r \in Requests, Fail(r)
  PROVE  LimiterInv'
<1>1. errors' \in 0..MaxErrors
  BY LimiterAssumption DEF Fail, LimiterInv, Typed, TypeOK
<1>2. \A k \in DOMAIN counter : expires'[k] \in Nat \cup {None}
  BY DEF Fail, redisVars, LimiterInv, Typed, TypeOK
<1> QED BY <1>1, <1>2, GoKeeps DEF Fail, redisVars, Judging

(* The files decide, for a request that has passed. *)
LEMMA ValidateFilesKeeps ==
  ASSUME LimiterInv, NEW r \in Requests, ValidateFiles(r)
  PROVE  LimiterInv'
<1>1. req[r].pc = "files" /\ \E l \in {"ingest", "422", "413"} : Go(r, l)
  BY DEF ValidateFiles
<1>2. req[r].count <= Limit
  BY <1>1, Held DEF Fits
<1>3. /\ \A k \in DOMAIN counter : expires[k] \in Nat \cup {None}
      /\ errors \in 0..MaxErrors
  BY DEF LimiterInv, Typed, TypeOK
<1> QED BY <1>1, <1>2, <1>3, GoKeeps DEF ValidateFiles, redisVars, Judging

(* The key goes a window after its request read the clock, or later. *)
LEMMA ExpireKeeps ==
  ASSUME LimiterInv, NEW r \in Requests, Expire(r)
  PROVE  LimiterInv'
<1>1. /\ req[r].pc = "expire" /\ req[r].count = 1 /\ Begin(req[r].bucket) <= now
      /\ UNCHANGED <<now, counter, errors>>
  BY Held DEF Expire, Fits
<1>2. PICK l \in {"ttl", "files"} : Go(r, l) /\ (l = "ttl" <=> 1 > Limit)
  BY DEF Expire, Judged
<1>3. DOMAIN expires' = DOMAIN expires
      /\ \A k \in DOMAIN counter : expires'[k] = IF k = Key(r) THEN now + Window * Second ELSE expires[k]
  BY DEF Expire, LimiterInv, Typed, TypeOK
<1>4. now + Window * Second \in Nat /\ now + Window * Second >= End(req[r].bucket)
  BY <1>1, Held, Windows, Seconds DEF Span
<1>5. \A k \in DOMAIN counter : expires'[k] = expires[k] \/ expires'[k] >= End(k[2])
  BY <1>3, <1>4, KeyNames
<1>6. \A k \in DOMAIN counter : expires'[k] \in Nat \cup {None}
  BY <1>3, <1>4 DEF LimiterInv, Typed, TypeOK
<1>7. errors' \in 0..MaxErrors /\ Limit \in Nat
  BY <1>1, LimiterAssumption DEF LimiterInv, Typed, TypeOK
<1>8. l = "ttl" => req[r].count > Limit
  BY <1>1, <1>2
<1>9. l = "files" => req[r].count <= Limit
  BY <1>1, <1>2, <1>7
<1> QED BY <1>1, <1>2, <1>3, <1>5, <1>6, <1>7, <1>8, <1>9, GoKeeps DEF Judging

(* The wait that is told lasts until the window is over: the key goes no    *)
(* earlier, and when it is gone already, so is the window.                  *)
LEMMA RefuseKeeps ==
  ASSUME LimiterInv, NEW r \in Requests, Refuse(r)
  PROVE  LimiterInv'
<1> DEFINE ttl == Ttl(Key(r))
           x == [req[r] EXCEPT !.pc = "429", !.ttl = ttl, !.told = RetryAfter(ttl),
                               !.refused = now]
<1>1. req' = [req EXCEPT ![r] = x] /\ req[r].pc = "ttl"
  BY DEF Refuse
<1>2. /\ req[r].count > Limit /\ req[r].count \in Nat /\ Limit \in Nat
      /\ Begin(req[r].bucket) <= now /\ now \in Nat
  BY <1>1, Held, LimiterAssumption DEF Fits
<1>3. Counted(r)
  BY <1>1, <1>2 DEF Counted
<1>4. \A k \in DOMAIN counter : expires[k] \in Nat \cup {None} /\ CounterFits(k)
  BY DEF LimiterInv, Typed, TypeOK
<1>5. ttl \in Int /\ RetryAfter(ttl) \in Nat \ {0} /\ RetryAfter(ttl) >= ttl
  <2>1. ttl \in Int
    BY <1>2, <1>4, Seconds DEF Ttl
  <2> HIDE DEF ttl
  <2> QED BY <2>1 DEF RetryAfter
<1>6. ttl = -1 \/ now + RetryAfter(ttl) * Second + Half >= End(req[r].bucket)
  <2>1. End(req[r].bucket) \in Nat /\ RetryAfter(ttl) * Second \in Nat
    <3>1. PICK w \in Nat : w = RetryAfter(ttl)
      BY <1>5
    <3>2. w * Second \in Nat
      BY Seconds
    <3> QED BY <3>1, <3>2, Held, Windows
  <2>2. CASE Key(r) \notin DOMAIN counter
    <3>1. now >= End(req[r].bucket)
      BY <1>3, <2>2 DEF LimiterInv, Remembered
    <3> HIDE DEF ttl
    <3> QED BY <1>2, <2>1, <3>1, Seconds
  <2>3. CASE Key(r) \in DOMAIN counter /\ expires[Key(r)] = None
    BY <2>3 DEF Ttl
  <2>4. CASE Key(r) \in DOMAIN counter /\ expires[Key(r)] # None
    <3>1. PICK left \in Int : /\ left = expires[Key(r)] - now /\ ttl = (left + Half) \div Second
                              /\ expires[Key(r)] \in Nat
      BY <1>2, <1>4, <2>4 DEF Ttl
    <3>2. expires[Key(r)] >= End(req[r].bucket)
      BY <1>4, <2>4, KeyNames DEF CounterFits
    <3> HIDE DEF ttl
    <3>3. left + Half < Second * (ttl + 1)
      BY <3>1, Seconds
    <3>4. Second * ttl <= RetryAfter(ttl) * Second /\ Second * (ttl + 1) = Second * ttl + Second
      BY <1>5, Seconds
    <3>5. left <= RetryAfter(ttl) * Second + Half
      BY <1>5, <2>1, <3>3, <3>4, Seconds
    <3> QED BY <1>2, <2>1, <3>1, <3>2, <3>5, Seconds
  <2> QED BY <2>2, <2>3, <2>4
<1> HIDE DEF ttl
<1>7. /\ x \in Request /\ x.count = req[r].count /\ x.hit = req[r].hit
      /\ x.pc = "429" /\ x.bucket = req[r].bucket
      /\ x.ttl = ttl /\ x.told = RetryAfter(ttl) /\ x.refused = now
  BY <1>2, <1>5, Held DEF Request, Judging
<1> HIDE DEF x
<1>8. Onward(r, x)
  BY <1>1, <1>7 DEF Onward, Judging
<1>9. req'[r] = x
  BY <1>8, CountsStay DEF LimiterInv
<1>10. TypeOK'
  BY <1>1, <1>5, <1>7 DEF Refuse, redisVars, LimiterInv, Typed, TypeOK, Request
<1>11. Fits(r)'
  BY <1>2, <1>6, <1>7, <1>9 DEF Fits, Refuse
<1> QED BY <1>8, <1>10, <1>11, OnwardKeeps DEF Refuse, redisVars

-----------------------------------------------------------------------------
(* The steps that change the counters.                                      *)

(* Redis drops a counter only when its window is over. *)
LEMMA TickKeeps ==
  ASSUME LimiterInv, Tick
  PROVE  LimiterInv'
<1> DEFINE live == {k \in DOMAIN counter : expires[k] = None \/ expires[k] > now + 1}
<1>1. /\ now' = now + 1 /\ now' \in 0..MaxTime /\ UNCHANGED <<req, errors>>
      /\ now \in Nat /\ now' \in Nat
  BY LimiterAssumption DEF Tick, LimiterInv, Typed, TypeOK
<1>2. /\ counter' = [k \in live |-> counter[k]] /\ expires' = [k \in live |-> expires[k]]
      /\ DOMAIN counter' = live /\ DOMAIN expires' = live /\ live \subseteq DOMAIN counter
  BY DEF Tick
<1>3. ASSUME NEW k \in DOMAIN counter, k \notin live
      PROVE  now' >= End(k[2])
  <2>1. expires[k] # None /\ expires[k] \in Nat /\ expires[k] <= now + 1
    BY <1>1, <1>3 DEF LimiterInv, Typed, TypeOK
  <2>2. expires[k] >= End(k[2]) /\ End(k[2]) \in Nat
    BY <2>1, Windows DEF LimiterInv, Typed, CounterFits
  <2> QED BY <1>1, <2>1, <2>2
<1> HIDE DEF live
<1>4. Typed'
  <2>1. TypeOK'
    BY <1>1, <1>2 DEF LimiterInv, Typed, TypeOK
  <2> QED BY <1>1, <1>2, <2>1 DEF LimiterInv, Typed
<1>5. /\ \A r \in Requests : (Counted(r)' <=> Counted(r)) /\ Key(r)' = Key(r)
      /\ \A k : CountedFor(k)' = CountedFor(k)
      /\ {s \in Requests : Counted(s)}' = {s \in Requests : Counted(s)}
  BY <1>1 DEF Counted, Key, CountedFor
<1>6. CountsApart'
  BY <1>1, <1>5 DEF LimiterInv, CountsApart, Timely
<1>7. ASSUME NEW k \in DOMAIN counter' PROVE CounterFits(k)'
  BY <1>2, <1>5 DEF LimiterInv, CounterFits
<1>8. ASSUME NEW r \in Requests
      PROVE  /\ Fits(r)' /\ Remembered(r)'
             /\ Counted(r)' => req'[r].count <= Cardinality(CountedFor(Key(r)))'
  <2>1. Fits(r)'
    <3>1. Begin(req[r].bucket) \in Nat
      BY Held, Windows
    <3> QED BY <1>1, <3>1, Held DEF Fits
  <2>2. Remembered(r)'
    <3>1. End(req[r].bucket) \in Nat
      BY Held, Windows
    <3>2. Key(r) \in DOMAIN counter /\ Key(r) \notin live => now' >= End(req[r].bucket)
      BY <1>3, KeyNames
    <3> QED BY <1>1, <1>2, <1>5, <3>1, <3>2 DEF LimiterInv, Remembered
  <2>3. CountedFor(Key(r))' = CountedFor(Key(r))
    BY <1>5 DEF CountedFor
  <2> QED BY <1>1, <1>5, <2>1, <2>2, <2>3 DEF LimiterInv
<1> QED BY <1>4, <1>5, <1>6, <1>7, <1>8 DEF LimiterInv

(* What INCR does to the counters, to the request and to the others. *)
LEMMA IncrCounts ==
  ASSUME LimiterInv, NEW r \in Requests, Incr(r)
  PROVE  \E n \in Nat \ {0}, l \in {"expire", "ttl", "files"} :
           /\ n = IF Key(r) \in DOMAIN counter THEN counter[Key(r)] + 1 ELSE 1
           /\ DOMAIN counter' = DOMAIN counter \cup {Key(r)} /\ DOMAIN expires' = DOMAIN counter'
           /\ counter' = [k \in DOMAIN counter' |-> counter'[k]] /\ counter'[Key(r)] = n
           /\ \A k \in DOMAIN counter \ {Key(r)} : counter'[k] = counter[k]
           /\ \A k \in DOMAIN counter' : expires'[k] = None \/ (k \in DOMAIN counter /\ expires'[k] = expires[k])
           /\ req'[r] \in Request /\ req' \in [Requests -> Request]
           /\ req'[r].pc = l /\ req'[r].count = n /\ req'[r].hit = Bucket(now)
           /\ req'[r].bucket = req[r].bucket
           /\ \A s \in Requests \ {r} : req'[s] = req[s]
           /\ l = "expire" => n = 1
           /\ l = "ttl" => n > Limit
           /\ l = "files" => n <= Limit
<1> DEFINE k == Key(r)
           n == IF k \in DOMAIN counter THEN counter[k] + 1 ELSE 1
           l == IF n = 1 THEN "expire" ELSE Judged(n)
           x == [req[r] EXCEPT !.pc = l, !.count = n, !.hit = Bucket(now)]
<1>1. /\ counter' = [j \in DOMAIN counter \cup {k} |-> IF j = k THEN n ELSE counter[j]]
      /\ expires' = IF n = 1 THEN [j \in DOMAIN expires \cup {k} |-> IF j = k THEN None ELSE expires[j]]
                    ELSE expires
      /\ req' = [req EXCEPT ![r] = x]
  BY DEF Incr
<1>2. n \in Nat \ {0} /\ (n # 1 => k \in DOMAIN counter)
  BY DEF LimiterInv, Typed, TypeOK
<1>3. /\ l \in {"expire", "ttl", "files"} /\ (l = "expire" => n = 1)
      /\ l = "ttl" => n > Limit
      /\ l = "files" => n <= Limit
  BY <1>2, LimiterAssumption DEF Judged
<1>4. DOMAIN expires = DOMAIN counter
  BY DEF LimiterInv, Typed, TypeOK
<1> HIDE DEF k, n, l
<1>5. x \in Request /\ x.pc = l /\ x.count = n /\ x.hit = Bucket(now) /\ x.bucket = req[r].bucket
  BY <1>2, <1>3, Held, Windows DEF Request, Judging
<1> HIDE DEF x
<1>6. req'[r] = x /\ req' \in [Requests -> Request]
      /\ \A s \in Requests \ {r} : req'[s] = req[s]
  BY <1>1, <1>5 DEF LimiterInv, Typed
<1>7. /\ DOMAIN counter' = DOMAIN counter \cup {k} /\ counter'[k] = n
      /\ counter' = [j \in DOMAIN counter' |-> counter'[j]]
      /\ \A j \in DOMAIN counter \ {k} : counter'[j] = counter[j]
  BY <1>1
<1>8. /\ DOMAIN expires' = DOMAIN counter'
      /\ \A j \in DOMAIN counter' : expires'[j] = None \/ (j \in DOMAIN counter /\ expires'[j] = expires[j])
  BY <1>1, <1>2, <1>4, <1>7
<1> QED BY <1>2, <1>3, <1>5, <1>6, <1>7, <1>8 DEF k, n

(* A request counts: one more in its window than any other so far. *)
LEMMA IncrKeeps ==
  ASSUME LimiterInv, NEW r \in Requests, Incr(r)
  PROVE  LimiterInv'
<1>1. PICK n \in Nat \ {0}, l \in {"expire", "ttl", "files"} :
           /\ n = IF Key(r) \in DOMAIN counter THEN counter[Key(r)] + 1 ELSE 1
           /\ DOMAIN counter' = DOMAIN counter \cup {Key(r)} /\ DOMAIN expires' = DOMAIN counter'
           /\ counter' = [k \in DOMAIN counter' |-> counter'[k]] /\ counter'[Key(r)] = n
           /\ \A k \in DOMAIN counter \ {Key(r)} : counter'[k] = counter[k]
           /\ \A k \in DOMAIN counter' : expires'[k] = None \/ (k \in DOMAIN counter /\ expires'[k] = expires[k])
           /\ req'[r] \in Request /\ req' \in [Requests -> Request]
           /\ req'[r].pc = l /\ req'[r].count = n /\ req'[r].hit = Bucket(now)
           /\ req'[r].bucket = req[r].bucket
           /\ \A s \in Requests \ {r} : req'[s] = req[s]
           /\ l = "expire" => n = 1
           /\ l = "ttl" => n > Limit
           /\ l = "files" => n <= Limit
  BY IncrCounts
<1>2. /\ req[r].pc = "incr" /\ UNCHANGED <<now, errors>>
      /\ Begin(req[r].bucket) <= now /\ now \in Nat
  BY Held DEF Incr, Fits
<1>3. PICK k : k = Key(r)
  OBVIOUS
<1>4. k[2] = req[r].bucket /\ req[r].bucket \in Nat
  BY <1>3, KeyNames, Held
<1>5. /\ ~Counted(r) /\ Counted(r)' /\ Key(r)' = k
      /\ \A s \in Requests \ {r} : (Counted(s)' <=> Counted(s)) /\ Key(s)' = Key(s)
  BY <1>1, <1>2, <1>3 DEF Counted, Key
<1>6. Typed'
  <2>1. \A j \in DOMAIN counter' : j[2] \in Nat
    BY <1>1, <1>3, <1>4 DEF LimiterInv, Typed
  <2>2. \A j \in DOMAIN counter' : counter'[j] \in Nat \ {0} /\ expires'[j] \in Nat \cup {None}
    BY <1>1 DEF LimiterInv, Typed, TypeOK
  <2>3. \A s \in Requests :
          /\ req'[s].pc \in {"start", "incr", "expire", "ttl", "files",
                             "ingest", "429", "422", "413", "500"}
          /\ req'[s].bucket \in Nat /\ req'[s].count \in Nat /\ req'[s].hit \in Nat
          /\ req'[s].pc = "429" => req'[s].told \in Nat \ {0}
    BY <1>1 DEF LimiterInv, Typed, TypeOK, Request
  <2> QED BY <1>1, <1>2, <2>1, <2>2, <2>3 DEF LimiterInv, Typed, TypeOK
<1>7. {s \in Requests : Counted(s)}' = {s \in Requests : Counted(s)} \cup {r}
  BY <1>5
<1>8. IsFiniteSet({s \in Requests : Counted(s)})'
  BY <1>7, FS_AddElement DEF LimiterInv
<1>9. /\ CountedFor(k)' = CountedFor(k) \cup {r} /\ r \notin CountedFor(k)
      /\ \A j : j # k => CountedFor(j)' = CountedFor(j)
  BY <1>5 DEF CountedFor
<1>10. /\ Cardinality(CountedFor(k)') = Cardinality(CountedFor(k)) + 1
       /\ Cardinality(CountedFor(k)) \in Nat
  BY <1>9, FS_AddElement, CountedFinite DEF LimiterInv
<1>11. n <= Cardinality(CountedFor(k)')
  <2>1. CASE k \in DOMAIN counter
    BY <1>1, <1>3, <1>10, <2>1 DEF LimiterInv, CounterFits, Typed, TypeOK
  <2>2. CASE k \notin DOMAIN counter
    BY <1>1, <1>3, <1>10, <2>2
  <2> QED BY <2>1, <2>2
<1>12. ASSUME NEW j \in DOMAIN counter' PROVE CounterFits(j)'
  <2>1. expires'[j] # None => expires'[j] >= End(j[2])
    BY <1>1 DEF LimiterInv, CounterFits
  <2>2. counter'[j] <= Cardinality(CountedFor(j)')
    <3>1. CASE j = k
      BY <1>1, <1>3, <1>11, <3>1
    <3>2. CASE j # k
      BY <1>1, <1>3, <1>9, <3>2 DEF LimiterInv, CounterFits
    <3> QED BY <3>1, <3>2
  <2> QED BY <2>1, <2>2 DEF CounterFits
<1>13. ASSUME NEW s \in Requests, s # r, Timely(s), Key(s) = k, now < End(req[s].bucket)
       PROVE  req[s].count < n
  <2>1. req[s].bucket = req[r].bucket /\ End(req[s].bucket) \in Nat
    BY <1>3, <1>13, KeyNames, Held, Windows
  <2>2. Key(s) \in DOMAIN counter /\ req[s].count <= counter[Key(s)]
    BY <1>2, <1>13, <2>1 DEF LimiterInv, Remembered, Timely
  <2>3. counter[k] \in Nat /\ req[s].count \in Nat
    BY <1>13, <2>2, Held DEF LimiterInv, Typed, TypeOK
  <2> QED BY <1>1, <1>3, <1>13, <2>2, <2>3
<1>14. CountsApart'
  <2>1. ASSUME NEW s \in Requests, s # r, Timely(s)', Timely(r)', Key(s)' = Key(r)'
        PROVE  req'[s].count # req'[r].count
    <3>1. Timely(s) /\ Key(s) = k
      BY <1>1, <1>5, <2>1 DEF Timely
    <3>2. req[s].bucket = req[r].bucket
      BY <1>3, <3>1, KeyNames
    <3>3. now < End(req[s].bucket)
      BY <1>1, <1>2, <1>4, <2>1, <3>2, Windows DEF Timely
    <3> QED BY <1>1, <1>13, <2>1, <3>1, <3>3, Held
  <2>2. ASSUME NEW s \in Requests, NEW q \in Requests, s # q, s # r, q # r,
               Timely(s)', Timely(q)', Key(s)' = Key(q)'
        PROVE  req'[s].count # req'[q].count
    BY <1>1, <1>5, <2>2 DEF LimiterInv, CountsApart, Timely
  <2> QED BY <2>1, <2>2 DEF CountsApart
<1>15. ASSUME NEW s \in Requests PROVE Fits(s)'
  BY <1>1, <1>2, Held DEF Fits
<1>16. ASSUME NEW s \in Requests PROVE Remembered(s)'
  <2>1. CASE s = r
    BY <1>1, <1>3, <1>5, <2>1 DEF Remembered
  <2>2. CASE s # r /\ Counted(s) /\ Key(s) = k /\ k \in DOMAIN counter
    <3>1. counter[k] \in Nat /\ req[s].count \in Nat /\ counter'[k] = counter[k] + 1
      BY <1>1, <1>3, <2>2, Held DEF LimiterInv, Typed, TypeOK
    <3> QED BY <1>1, <1>2, <1>3, <1>5, <2>2, <3>1 DEF LimiterInv, Remembered
  <2>3. CASE s # r /\ Counted(s) /\ (Key(s) # k \/ k \notin DOMAIN counter)
    BY <1>1, <1>2, <1>3, <1>5, <2>3 DEF LimiterInv, Remembered
  <2>4. CASE s # r /\ ~Counted(s)
    BY <1>5, <2>4 DEF Remembered
  <2> QED BY <2>1, <2>2, <2>3, <2>4
<1>17. ASSUME NEW s \in Requests, Counted(s)'
       PROVE  req'[s].count <= Cardinality(CountedFor(Key(s)))'
  <2>1. PICK j : j = Key(s)'
    OBVIOUS
  <2>2. CountedFor(Key(s))' = CountedFor(j)'
    BY <2>1 DEF CountedFor
  <2>3. CASE s = r
    BY <1>1, <1>5, <1>11, <2>1, <2>2, <2>3
  <2>4. CASE s # r
    <3>1. /\ Counted(s) /\ Key(s) = j /\ req'[s].count = req[s].count
          /\ req[s].count \in Nat
      BY <1>1, <1>5, <1>17, <2>1, <2>4, Held
    <3>2. req[s].count <= Cardinality(CountedFor(j)) /\ Cardinality(CountedFor(j)) \in Nat
      BY <3>1, CountedFinite DEF LimiterInv
    <3>3. Cardinality(CountedFor(j)') \in {Cardinality(CountedFor(j)), Cardinality(CountedFor(j)) + 1}
      BY <1>9, <1>10
    <3> QED BY <2>2, <3>1, <3>2, <3>3
  <2> QED BY <2>3, <2>4
<1> QED BY <1>6, <1>8, <1>12, <1>14, <1>15, <1>16, <1>17 DEF LimiterInv

(* LimiterInv is inductive. *)
LEMMA LimiterInductive ==
  /\ Init => LimiterInv
  /\ LimiterInv /\ [Next]_vars => LimiterInv'
<1>1. ASSUME LimiterInv, [Next]_vars PROVE LimiterInv'
  <2>1. ASSUME NEW r \in Requests, Handle(r) \/ Fail(r) PROVE LimiterInv'
    BY <1>1, <2>1, ReadClockKeeps, IncrKeeps, ExpireKeeps, RefuseKeeps, ValidateFilesKeeps,
       FailKeeps DEF Handle
  <2>2. CASE Tick
    BY <1>1, <2>2, TickKeeps
  <2>3. CASE UNCHANGED vars
    <3>1. Typed' /\ CountsApart'
      BY <1>1, <2>3 DEF vars, redisVars, LimiterInv, Typed, TypeOK, CountsApart, Timely, Counted, Key
    <3>2. IsFiniteSet({s \in Requests : Counted(s)})'
      BY <1>1, <2>3 DEF vars, Counted, LimiterInv
    <3>3. ASSUME NEW k \in DOMAIN counter' PROVE CounterFits(k)'
      BY <1>1, <2>3 DEF vars, redisVars, LimiterInv, CounterFits, CountedFor, Counted, Key
    <3>4. ASSUME NEW r \in Requests
          PROVE  /\ Fits(r)' /\ Remembered(r)'
                 /\ Counted(r)' => req'[r].count <= Cardinality(CountedFor(Key(r)))'
      BY <1>1, <2>3 DEF vars, redisVars, LimiterInv, Fits, Remembered, CountedFor, Counted, Key
    <3> QED BY <3>1, <3>2, <3>3, <3>4 DEF LimiterInv
  <2> QED BY <1>1, <2>1, <2>2, <2>3 DEF Next
<1> QED BY <1>1, InitFits

-----------------------------------------------------------------------------
(* The theorems.                                                            *)

(* Every value stays in its type, and a 429 tells the client to wait for at *)
(* least a second.                                                          *)
THEOREM EndpointTyped == Spec => []TypeOK
<1>1. LimiterInv => TypeOK
  BY DEF LimiterInv, Typed
<1> QED BY <1>1, LimiterInductive, PTL DEF Spec

(* The Redis counter lets no more than INGEST_RATE_LIMIT requests of a      *)
(* client pass in one window, however their commands interleave and         *)
(* wherever a process dies: those that pass have different counts.          *)
THEOREM LimitHolds == Spec => []WindowBound
<1>1. LimiterInv => WindowBound
  <2> SUFFICES ASSUME LimiterInv, NEW r \in Requests
               PROVE  Cardinality({s \in Requests : Passed(s) /\ Key(s) = Key(r)}) <= Limit
    BY DEF WindowBound
  <2> DEFINE S == {s \in Requests : Passed(s) /\ Key(s) = Key(r)}
             f == [s \in S |-> req[s].count]
  <2>1. ASSUME NEW s \in S PROVE Timely(s) /\ req[s].count \in 1..Limit
    <3>1. Passed(s) /\ req[s].hit \in Nat /\ req[s].bucket \in Nat /\ req[s].count \in Nat /\ Fits(s)
      BY Held
    <3> QED BY <3>1, LimiterAssumption DEF Passed, Counted, Timely, Fits
  <2>2. ASSUME NEW s \in S, NEW q \in S, f[s] = f[q] PROVE s = q
    BY <2>1, <2>2 DEF LimiterInv, CountsApart
  <2>3. f \in [S -> 1..Limit]
    BY <2>1
  <2>4. f \in Injection(S, 1..Limit)
    BY <2>2, <2>3, Zenon DEF Injection, IsInjective
  <2>5. IsFiniteSet(1..Limit) /\ Cardinality(1..Limit) = Limit
    BY FS_Interval, LimiterAssumption
  <2>6. Cardinality(S) <= Cardinality(1..Limit)
    BY <2>4, <2>5, FS_Injection
  <2> QED BY <2>5, <2>6
<1> QED BY <1>1, LimiterInductive, PTL DEF Spec

(* A 429 is earned by Limit other requests of the client that counted in    *)
(* the same window: a counter that was left without expiry never locks a    *)
(* client out of a later one.                                               *)
THEOREM RefusalIsEarned == Spec => []RefusalsEarned
<1>1. LimiterInv => RefusalsEarned
  <2> SUFFICES ASSUME LimiterInv, NEW r \in Requests, req[r].pc = "429"
               PROVE  Cardinality({s \in Requests \ {r} : /\ Counted(s)
                                                         /\ ClientId(s) = ClientId(r)
                                                         /\ req[s].bucket = req[r].bucket}) >= Limit
    BY DEF RefusalsEarned
  <2>1. /\ req[r].count > Limit /\ req[r].count \in Nat /\ Limit \in Nat
        /\ Counted(r)
    BY Held, LimiterAssumption DEF Fits, Counted
  <2> DEFINE S == CountedFor(Key(r))
             others == {s \in Requests \ {r} : /\ Counted(s)
                                               /\ ClientId(s) = ClientId(r)
                                               /\ req[s].bucket = req[r].bucket}
  <2>2. others = S \ {r} /\ r \in S
    BY <2>1, KeyNames DEF CountedFor
  <2>3. IsFiniteSet(S) /\ Cardinality(S) \in Nat
    BY CountedFinite DEF LimiterInv
  <2>4. req[r].count <= Cardinality(S)
    BY <2>1 DEF LimiterInv
  <2>5. Cardinality(others) = Cardinality(S) - 1
    BY <2>2, <2>3, FS_RemoveElement
  <2> QED BY <2>1, <2>3, <2>4, <2>5
<1> QED BY <1>1, LimiterInductive, PTL DEF Spec

(* The Retry-After of a 429, which Redis rounds to the nearest second, and  *)
(* half a second more take the client into a later window, unless the       *)
(* counter had no expiry when it was asked.                                 *)
THEOREM RetryAfterIsHonest == Spec => []RetryAfterHonest
<1>1. LimiterInv => RetryAfterHonest
  <2> SUFFICES ASSUME LimiterInv, NEW r \in Requests, req[r].pc = "429", req[r].ttl # -1
               PROVE  Bucket(req[r].refused + req[r].told * Second + Half) > req[r].bucket
    BY DEF RetryAfterHonest
  <2>1. /\ req[r].refused + req[r].told * Second + Half \in Nat /\ req[r].bucket \in Nat
        /\ req[r].refused + req[r].told * Second + Half >= End(req[r].bucket)
    BY Held, Seconds DEF Fits
  <2> QED BY <2>1, Windows
<1> QED BY <1>1, LimiterInductive, PTL DEF Spec
=============================================================================
