-------------------------- MODULE RateLimitProofs --------------------------
(***************************************************************************)
(* Proofs about RateLimit, for every rate, every burst and any number of   *)
(* requests that overlap in the middleware.                                *)
(***************************************************************************)
EXTENDS RateLimit, FiniteSetTheorems, TLAPS

\* The requests that hold a reservation: those it lets through, and those that
\* will be rejected.
Outstanding == {r \in Requests : req[r].stage = "reserved"}
Granted     == {r \in Outstanding : req[r].timeToAct <= now}
Waiting     == {r \in Outstanding : req[r].timeToAct > now}

\* The parts that a set of requests costs.
Worth(S) == Cost * Cardinality(S)

Multiples == {Cost * k : k \in Nat}

\* The types, and what the clock and the counters bound.
Counted ==
  /\ TypeOK
  /\ bucket.last <= now
  /\ ideal.last <= now /\ ideal.tokens <= Full
  /\ IsFiniteSet(Outstanding)
  /\ unpaid + Cardinality(Outstanding) <= calls

\* Reservations that will be cancelled are whole tokens apart, and the last of them
\* is at the bottom of the bucket.  A cancellation therefore gives a whole token
\* back or nothing.
WaitingAreSpaced ==
  /\ Waiting # {} => bucket.last = now /\ bucket.tokens = now - bucket.lastEvent
  /\ \A r \in Waiting : bucket.lastEvent - req[r].timeToAct \in Multiples
  /\ \A q, r \in Waiting : req[q].timeToAct = req[r].timeToAct => q = r

\* The two buckets differ by what the requests in the middleware have reserved and
\* by at most a token for each unpaid one; the ideal one has a token for each
\* request that was let through and not served yet.
BucketsAgree ==
  /\ Advance(ideal, now) - Advance(bucket, now) - Worth(Outstanding) \in 0..(Cost * unpaid)
  /\ Advance(ideal, now) >= Worth(Granted)

\* What Retry-After has promised to a user with no other request: the bucket has a
\* token at that time, and a request that comes then is let through.
PromiseIsBacked ==
  /\ ~broken
  /\ \A r \in Outstanding : req[r].alone =>
       Outstanding = {r} /\ bucket.lastEvent = req[r].timeToAct
  /\ promise > 0 =>
       /\ Outstanding = {} => Advance(bucket, promise) >= Cost /\ bucket.last <= promise
       /\ \A r \in Outstanding : req[r].alone
       /\ promise <= now => Waiting = {}

\* The inductive invariant of the limiter.
LimiterInv == Counted /\ WaitingAreSpaced /\ BucketsAgree /\ PromiseIsBacked

-----------------------------------------------------------------------------
(* Arithmetic.                                                             *)

\* A bucket holds at least one token.
LEMMA FullHoldsOne == Full \in Nat /\ Full >= Cost /\ Cost \in Nat /\ Cost > 0
BY ParametersAssumption DEF Full

\* Multiples are what is reached from 0 by whole tokens.
LEMMA MultiplesSteps ==
  /\ 0 \in Multiples
  /\ \A x \in Multiples : x \in Nat /\ x + Cost \in Multiples
  /\ \A x \in Multiples : x # 0 => x >= Cost /\ x - Cost \in Multiples
<1> Cost \in Nat /\ Cost > 0
  BY FullHoldsOne
<1>1. 0 \in Multiples
  <2>1. 0 = Cost * 0
    OBVIOUS
  <2>2. QED
    BY <2>1 DEF Multiples
<1>2. ASSUME NEW x \in Multiples
      PROVE  x \in Nat /\ x + Cost \in Multiples
  <2>1. PICK k \in Nat : x = Cost * k
    BY DEF Multiples
  <2>2. x + Cost = Cost * (k + 1) /\ k + 1 \in Nat
    BY <2>1
  <2>3. QED
    BY <2>1, <2>2 DEF Multiples
<1>3. ASSUME NEW x \in Multiples, x # 0
      PROVE  x >= Cost /\ x - Cost \in Multiples
  <2>1. PICK k \in Nat : x = Cost * k
    BY DEF Multiples
  <2>2. k # 0
    BY <1>3, <2>1
  <2>3. k - 1 \in Nat /\ x - Cost = Cost * (k - 1)
    BY <2>1, <2>2
  <2>4. Cost * (k - 1) \in Multiples /\ Cost * (k - 1) >= 0
    BY <2>3 DEF Multiples
  <2>5. QED
    BY <2>1, <2>3, <2>4
<1>4. QED
  BY <1>1, <1>2, <1>3

\* One request more, or one less, costs one token more, or less.
LEMMA WorthSteps ==
  ASSUME NEW S, NEW x, IsFiniteSet(S)
  PROVE  /\ Worth(S) \in Nat
         /\ x \notin S => Worth(S \cup {x}) = Worth(S) + Cost
         /\ x \in S => Worth(S \ {x}) = Worth(S) - Cost
         /\ x \in S => Worth(S) >= Cost
<1> Cost \in Nat /\ Cost > 0
  BY FullHoldsOne
<1>1. Cardinality(S) \in Nat
  BY FS_CardinalityType
<1>2. ASSUME x \notin S
      PROVE  Worth(S \cup {x}) = Worth(S) + Cost
  <2>1. Cardinality(S \cup {x}) = Cardinality(S) + 1
    BY <1>2, FS_AddElement
  <2>2. QED
    BY <1>1, <2>1 DEF Worth
<1>3. ASSUME x \in S
      PROVE  Worth(S \ {x}) = Worth(S) - Cost /\ Worth(S) >= Cost
  <2>1. Cardinality(S \ {x}) = Cardinality(S) - 1 /\ Cardinality(S \ {x}) \in Nat
    BY <1>3, FS_RemoveElement, FS_CardinalityType
  <2>2. Cost * (Cardinality(S) - 1) = Cost * Cardinality(S) - Cost
    BY <1>1
  <2>3. Cost * (Cardinality(S) - 1) >= 0
    BY <2>1
  <2>4. QED
    BY <1>1, <2>1, <2>2, <2>3 DEF Worth
<1>4. Worth(S) \in Nat
  BY <1>1 DEF Worth
<1>5. QED
  BY <1>2, <1>3, <1>4

LEMMA WorthEmpty == Worth({}) = 0
BY FS_EmptySet, FullHoldsOne DEF Worth

\* One more unpaid reservation explains a token more.
LEMMA UnpaidSteps ==
  ASSUME NEW u \in Nat
  PROVE  Cost * u \in Nat /\ Cost * (u + 1) = Cost * u + Cost
BY FullHoldsOne

-----------------------------------------------------------------------------
(* What each action does to the sets of requests.                          *)

\* A request enters the middleware.
LEMMA ReserveSets ==
  ASSUME Counted, NEW r \in Requests, Reserve(r)
  PROVE  /\ r \notin Outstanding
         /\ Outstanding' = Outstanding \cup {r}
         /\ req'[r].timeToAct = TimeToAct(bucket'.tokens)
         /\ req'[r].alone <=> Outstanding = {}
         /\ \A q \in Outstanding : req'[q].timeToAct = req[q].timeToAct /\ ~req'[q].alone
         /\ Waiting' = IF bucket'.tokens < 0 THEN Waiting \cup {r} ELSE Waiting
         /\ Granted' = IF bucket'.tokens < 0 THEN Granted ELSE Granted \cup {r}
<1>1. /\ r \notin Outstanding /\ (Quiet <=> Outstanding = {})
      /\ bucket'.tokens = Advance(bucket, now) - Cost
      /\ Advance(bucket, now) \in Int
  BY FullHoldsOne DEF Reserve, Outstanding, Quiet, Counted, TypeOK, Advance, Least
<1>2. /\ req'[r] = [stage |-> "reserved", timeToAct |-> TimeToAct(bucket'.tokens),
                    alone |-> Quiet]
      /\ \A q \in Requests \ {r} : req'[q] = [req[q] EXCEPT !.alone = FALSE]
  BY <1>1 DEF Reserve
<1>3. \A q \in Requests \ {r} : /\ req'[q].stage = req[q].stage
                                /\ req'[q].timeToAct = req[q].timeToAct
                                /\ ~req'[q].alone
  <2>1. \A q \in Requests : req[q] \in [stage : {"idle", "reserved"}, timeToAct : Nat, alone : BOOLEAN]
    BY DEF Counted, TypeOK
  <2>2. QED
    BY <1>2, <2>1
<1>4. Outstanding' = Outstanding \cup {r}
  BY <1>2, <1>3 DEF Outstanding
<1>5. now' = now /\ now \in Nat /\ Cost \in Nat
  BY FullHoldsOne DEF Reserve, Counted, TypeOK
<1>6. req'[r].timeToAct > now <=> bucket'.tokens < 0
  BY <1>1, <1>2, <1>5 DEF TimeToAct
<1>7. req'[r].timeToAct <= now <=> ~(bucket'.tokens < 0)
  BY <1>1, <1>2, <1>5 DEF TimeToAct
<1>8. \A q \in Outstanding : q # r
  BY <1>1
<1>9. Waiting' = IF bucket'.tokens < 0 THEN Waiting \cup {r} ELSE Waiting
  BY <1>1, <1>3, <1>4, <1>5, <1>6, <1>8 DEF Waiting, Outstanding
<1>10. Granted' = IF bucket'.tokens < 0 THEN Granted ELSE Granted \cup {r}
  BY <1>1, <1>3, <1>4, <1>5, <1>7, <1>8 DEF Granted, Outstanding
<1>11. QED
  BY <1>1, <1>2, <1>3, <1>4, <1>9, <1>10 DEF Outstanding

\* A request leaves it, in one of three ways.
LEMMA LeaveSets ==
  ASSUME Counted, NEW r \in Requests, Reject(r) \/ Serve(r) \/ Refuse(r)
  PROVE  /\ r \in Outstanding
         /\ Outstanding' = Outstanding \ {r}
         /\ Waiting' = Waiting \ {r}
         /\ Granted' = Granted \ {r}
         /\ \A q \in Requests \ {r} : req'[q] = req[q]
         /\ now' = now /\ calls' = calls
<1>1. /\ r \in Outstanding /\ req' = [req EXCEPT ![r] = Idle]
      /\ now' = now /\ calls' = calls
  BY DEF Reject, Serve, Refuse, Outstanding
<1>2. /\ req'[r].stage = "idle"
      /\ \A q \in Requests \ {r} : req'[q] = req[q]
  BY <1>1 DEF Idle, Counted, TypeOK
<1>3. Outstanding' = Outstanding \ {r}
  BY <1>2 DEF Outstanding
<1>4. Waiting' = Waiting \ {r} /\ Granted' = Granted \ {r}
  BY <1>1, <1>2, <1>3 DEF Waiting, Granted, Outstanding
<1>5. QED
  BY <1>1, <1>2, <1>3, <1>4

\* The clock only advances when nobody is in the middleware.
LEMMA TickSets ==
  ASSUME Counted, Tick
  PROVE  /\ Outstanding = {} /\ Outstanding' = {} /\ Waiting = {} /\ Waiting' = {}
         /\ Granted = {} /\ Granted' = {}
         /\ now' = now + 1 /\ UNCHANGED <<bucket, calls, ideal, unpaid, promise, broken>>
         /\ now \in Nat
BY DEF Tick, Quiet, Outstanding, Waiting, Granted, Counted, TypeOK

-----------------------------------------------------------------------------
(* Types and counters.                                                     *)

\* What TypeOK says of a request.
Reservation == [stage : {"idle", "reserved"}, timeToAct : Nat, alone : BOOLEAN]

LEMMA IdleType == Idle \in Reservation
<1>1. 0 \in Nat
  OBVIOUS
<1>2. QED
  BY <1>1, Zenon DEF Idle, Reservation

LEMMA InitCounted == Init => Counted
<1> SUFFICES ASSUME Init
             PROVE  Counted
  OBVIOUS
<1>1. Outstanding = {}
  BY DEF Init, Outstanding, Idle
<1>2. IsFiniteSet(Outstanding) /\ Cardinality(Outstanding) = 0
  BY <1>1, FS_EmptySet
<1>3. TypeOK
  <2>1. req \in [Requests -> Reservation]
    BY IdleType DEF Init
  <2>2. broken \in BOOLEAN
    BY Zenon DEF Init
  <2>3. /\ now \in 0..MaxTime
        /\ bucket \in [tokens : Int, last : 0..MaxTime, lastEvent : Nat]
        /\ bucket.tokens <= Full
        /\ calls \in 0..MaxCalls
        /\ ideal \in [tokens : Int, last : 0..MaxTime]
        /\ unpaid \in 0..MaxCalls
        /\ promise \in Nat
    BY FullHoldsOne, ParametersAssumption DEF Init
  <2>4. QED
    BY <2>1, <2>2, <2>3 DEF TypeOK, Reservation
<1>4. QED
  BY <1>2, <1>3, FullHoldsOne DEF Init, Counted

\* Cancelling never overfills the bucket, nor sets it back in time.
LEMMA CancelledType ==
  ASSUME Counted, NEW t \in Nat
  PROVE  /\ Cancelled(t) \in [tokens : Int, last : 0..MaxTime, lastEvent : Nat]
         /\ Cancelled(t).tokens <= Full
         /\ Cancelled(t).last <= now
<1>1. /\ now \in 0..MaxTime /\ bucket \in [tokens : Int, last : 0..MaxTime, lastEvent : Nat]
      /\ bucket.tokens <= Full /\ bucket.last <= now /\ MaxTime \in Nat
  BY ParametersAssumption DEF Counted, TypeOK
<1>2. Restorable(t) \in Int
  BY <1>1, FullHoldsOne DEF Restorable
<1>3. CASE Restorable(t) <= 0
  BY <1>1, <1>3 DEF Cancelled
<1>4. CASE ~(Restorable(t) <= 0)
  <2>1. Advance(bucket, now) \in Int
    BY <1>1, FullHoldsOne DEF Advance, Least
  <2>2. /\ Least(Full, Advance(bucket, now) + Restorable(t)) \in Int
        /\ Least(Full, Advance(bucket, now) + Restorable(t)) <= Full
    BY <1>2, <2>1, FullHoldsOne DEF Least
  <2>3. (IF t = bucket.lastEvent /\ t - Cost >= now THEN t - Cost ELSE bucket.lastEvent) \in Nat
    BY <1>1, FullHoldsOne
  <2>4. QED
    BY <1>1, <1>4, <2>2, <2>3 DEF Cancelled
<1>5. QED
  BY <1>3, <1>4

LEMMA NextCounted == Counted /\ [Next]_vars => Counted'
<1> SUFFICES ASSUME Counted, [Next]_vars
             PROVE  Counted'
  OBVIOUS
<1> USE FullHoldsOne, ParametersAssumption
<1>0. Cardinality(Outstanding) \in Nat /\ unpaid \in Nat /\ calls \in Nat /\ calls <= MaxCalls
  BY FS_CardinalityType DEF Counted, TypeOK
<1>1. CASE Tick
  <2>1. TypeOK' /\ bucket'.last <= now' /\ ideal'.last <= now' /\ ideal'.tokens <= Full
    BY <1>1 DEF Tick, Counted, TypeOK
  <2>2. Outstanding' = Outstanding /\ UNCHANGED <<unpaid, calls>>
    BY <1>1, TickSets
  <2>3. QED
    BY <2>1, <2>2 DEF Counted
<1>2. ASSUME NEW r \in Requests, Reserve(r)
      PROVE  Counted'
  <2>1. /\ IsFiniteSet(Outstanding')
        /\ Cardinality(Outstanding') = Cardinality(Outstanding) + 1
    BY <1>2, ReserveSets, FS_AddElement DEF Counted
  <2>2. Advance(bucket, now) \in Int /\ Advance(bucket, now) <= Full
    BY DEF Counted, TypeOK, Advance, Least
  <2>3. bucket' \in [tokens : Int, last : 0..MaxTime, lastEvent : Nat] /\ bucket'.tokens <= Full
    BY <1>2, <2>2 DEF Reserve, TimeToAct, Counted, TypeOK
  <2>4. bucket'.last = now /\ now' = now /\ bucket'.last <= now'
    BY <1>2 DEF Reserve, Counted, TypeOK
  <2>5. req' \in [Requests -> Reservation]
    <3>1. TimeToAct(bucket'.tokens) \in Nat
      BY <1>2, <2>2 DEF Reserve, TimeToAct, Counted, TypeOK
    <3>2. [stage |-> "reserved", timeToAct |-> TimeToAct(bucket'.tokens), alone |-> Quiet] \in Reservation
      BY <3>1, Zenon DEF Reservation, Quiet
    <3>3. \A q \in Requests : [req[q] EXCEPT !.alone = FALSE] \in Reservation
      BY DEF Counted, TypeOK, Reservation
    <3>4. QED
      BY <1>2, <3>2, <3>3 DEF Reserve
  <2>6. /\ calls' = calls + 1 /\ calls < MaxCalls
        /\ promise' \in Nat
        /\ UNCHANGED <<now, ideal, unpaid, broken>>
    BY <1>2 DEF Reserve, Counted, TypeOK
  <2>7. TypeOK'
    <3>1. calls' \in 0..MaxCalls
      BY <1>0, <2>6
    <3>2. QED
      BY <2>3, <2>5, <2>6, <3>1 DEF Counted, TypeOK, Reservation
  <2>8. unpaid' + Cardinality(Outstanding') <= calls'
    BY <1>0, <2>1, <2>6 DEF Counted
  <2>9. QED
    BY <2>1, <2>4, <2>6, <2>7, <2>8 DEF Counted
<1>3. ASSUME NEW r \in Requests, Reject(r) \/ Serve(r) \/ Refuse(r)
      PROVE  Counted'
  <2>1. /\ IsFiniteSet(Outstanding')
        /\ Cardinality(Outstanding') = Cardinality(Outstanding) - 1
        /\ now' = now /\ calls' = calls
    BY <1>3, LeaveSets, FS_RemoveElement DEF Counted
  <2>2. req' \in [Requests -> Reservation]
    <3>1. req \in [Requests -> Reservation] /\ req' = [req EXCEPT ![r] = Idle]
      BY <1>3 DEF Reject, Serve, Refuse, Counted, TypeOK, Reservation
    <3>2. QED
      BY <3>1, IdleType
  <2>3. unpaid' \in {unpaid, unpaid + 1}
    BY <1>3 DEF Reject, Serve, Refuse
  <2>4. Cardinality(Outstanding') \in Nat
    BY <2>1, FS_CardinalityType
  <2>5. /\ unpaid' + Cardinality(Outstanding') <= calls'
        /\ unpaid' \in 0..MaxCalls
    BY <1>0, <2>1, <2>3, <2>4 DEF Counted
  <2>6. /\ bucket' \in [tokens : Int, last : 0..MaxTime, lastEvent : Nat]
        /\ bucket'.tokens <= Full /\ bucket'.last <= now
    <3>1. req[r].timeToAct \in Nat
      BY DEF Counted, TypeOK
    <3>2. bucket' \in {bucket, Cancelled(req[r].timeToAct)}
      BY <1>3 DEF Reject, Serve, Refuse
    <3>3. /\ bucket \in [tokens : Int, last : 0..MaxTime, lastEvent : Nat]
          /\ bucket.tokens <= Full /\ bucket.last <= now
      BY DEF Counted, TypeOK
    <3>4. CASE bucket' = Cancelled(req[r].timeToAct)
      BY <3>1, <3>4, CancelledType
    <3>5. QED
      BY <3>2, <3>3, <3>4
  <2>7. /\ ideal' \in [tokens : Int, last : 0..MaxTime]
        /\ ideal'.tokens <= Full /\ ideal'.last <= now
    <3>1. Advance(ideal, now) \in Int /\ Advance(ideal, now) <= Full
      BY DEF Counted, TypeOK, Advance, Least
    <3>2. QED
      BY <1>3, <3>1 DEF Reject, Serve, Refuse, Counted, TypeOK
  <2>8. promise' \in Nat /\ broken' \in BOOLEAN
    <3>1. promise' \in {promise, 0, req[r].timeToAct}
      BY <1>3 DEF Reject, Serve, Refuse
    <3>2. promise' \in Nat
      BY <3>1 DEF Counted, TypeOK
    <3>3. broken' = broken \/ broken' = (broken \/ (promise > 0 /\ promise <= now))
      BY <1>3, Zenon DEF Reject, Serve, Refuse
    <3>4. broken' \in BOOLEAN
      BY <3>3, Zenon DEF Counted, TypeOK
    <3>5. QED
      BY <3>2, <3>4
  <2>9. TypeOK'
    BY <2>1, <2>2, <2>5, <2>6, <2>7, <2>8 DEF Counted, TypeOK, Reservation
  <2>10. QED
    BY <2>1, <2>5, <2>6, <2>7, <2>9 DEF Counted
<1>4. CASE UNCHANGED vars
  BY <1>4 DEF vars, Counted, TypeOK, Outstanding
<1>5. QED
  BY <1>1, <1>2, <1>3, <1>4 DEF Next

-----------------------------------------------------------------------------
(* Reservations that will be cancelled.                                    *)

LEMMA InitSpaced == Init => WaitingAreSpaced
BY DEF Init, WaitingAreSpaced, Waiting, Outstanding, Idle

\* While a reservation waits the bucket is in debt, so a new one goes below it.
LEMMA ReserveSpaced ==
  ASSUME Counted, WaitingAreSpaced, NEW r \in Requests, Reserve(r)
  PROVE  WaitingAreSpaced'
<1> USE FullHoldsOne
<1>1. /\ bucket' = [tokens |-> Advance(bucket, now) - Cost, last |-> now,
                    lastEvent |-> TimeToAct(Advance(bucket, now) - Cost)]
      /\ now' = now /\ now \in Nat
      /\ Advance(bucket, now) \in Int
  BY DEF Reserve, Counted, TypeOK, Advance, Least
<1>2. /\ req'[r].timeToAct = bucket'.lastEvent
      /\ \A q \in Waiting : q # r /\ req'[q].timeToAct = req[q].timeToAct
  BY <1>1, ReserveSets DEF Waiting
<1>3. CASE bucket'.tokens >= 0
  <2>1. Waiting' = Waiting
    BY <1>1, <1>3, ReserveSets
  <2>2. Waiting = {}
    <3>1. SUFFICES ASSUME NEW q \in Waiting
                   PROVE  FALSE
      OBVIOUS
    <3>2. bucket.last = now /\ bucket.tokens = now - bucket.lastEvent
      BY DEF WaitingAreSpaced
    <3>3. req[q].timeToAct > now /\ req[q].timeToAct \in Nat
      BY DEF Waiting, Outstanding, Counted, TypeOK
    <3>4. bucket.lastEvent - req[q].timeToAct \in Nat
      BY MultiplesSteps DEF WaitingAreSpaced
    <3>5. bucket.tokens < 0 /\ bucket.lastEvent \in Nat
      BY <1>1, <3>2, <3>3, <3>4 DEF Counted, TypeOK
    <3>6. Advance(bucket, now) < 0
      BY <1>1, <3>2, <3>5 DEF Advance, Least
    <3>7. QED
      BY <1>1, <1>3, <3>6
  <2>3. QED
    BY <2>1, <2>2 DEF WaitingAreSpaced
<1>4. CASE bucket'.tokens < 0
  <2>1. Waiting' = Waiting \cup {r}
    BY <1>4, ReserveSets
  <2>2. bucket'.last = now' /\ bucket'.tokens = now' - bucket'.lastEvent
    BY <1>1, <1>4 DEF TimeToAct
  <2>3. ASSUME NEW q \in Waiting
        PROVE  /\ bucket'.lastEvent = bucket.lastEvent + Cost
               /\ bucket.lastEvent - req[q].timeToAct \in Multiples
    <3>1. bucket.last = now /\ bucket.tokens = now - bucket.lastEvent
      BY DEF WaitingAreSpaced
    <3>2. bucket.lastEvent - req[q].timeToAct \in Multiples
      BY DEF WaitingAreSpaced
    <3>3. Advance(bucket, now) = bucket.tokens
      BY <1>1, <3>1 DEF Advance, Least, Counted, TypeOK
    <3>4. /\ bucket'.tokens = bucket.tokens - Cost /\ bucket.lastEvent \in Nat
          /\ bucket'.lastEvent = now - bucket'.tokens
      BY <1>1, <1>4, <3>3 DEF TimeToAct, Counted, TypeOK
    <3>5. QED
      BY <1>1, <3>1, <3>2, <3>4
  <2>4. ASSUME NEW q \in Waiting
        PROVE  /\ bucket'.lastEvent - req'[q].timeToAct \in Multiples
               /\ req'[q].timeToAct # req'[r].timeToAct
    <3>1. req[q].timeToAct \in Nat /\ bucket.lastEvent \in Nat
      BY DEF Waiting, Outstanding, Counted, TypeOK
    <3>2. bucket.lastEvent - req[q].timeToAct \in Nat
      BY <2>3, MultiplesSteps
    <3>3. (bucket.lastEvent - req[q].timeToAct) + Cost \in Multiples
      BY <2>3, MultiplesSteps
    <3>4. bucket'.lastEvent - req'[q].timeToAct = (bucket.lastEvent - req[q].timeToAct) + Cost
      BY <1>2, <2>3, <3>1
    <3>5. QED
      BY <1>2, <3>1, <3>2, <3>3, <3>4, <2>3
  <2>5. bucket'.lastEvent - req'[r].timeToAct \in Multiples
    <3>1. bucket'.lastEvent \in Int
      BY <1>1 DEF TimeToAct
    <3>2. bucket'.lastEvent - req'[r].timeToAct = 0
      BY <1>2, <3>1
    <3>3. QED
      BY <3>2, MultiplesSteps
  <2>6. \A p, q \in Waiting' : req'[p].timeToAct = req'[q].timeToAct => p = q
    BY <1>2, <2>1, <2>4 DEF WaitingAreSpaced
  <2>7. \A q \in Waiting' : bucket'.lastEvent - req'[q].timeToAct \in Multiples
    BY <2>1, <2>4, <2>5
  <2>8. QED
    BY <2>2, <2>6, <2>7 DEF WaitingAreSpaced
<1>5. QED
  BY <1>1, <1>3, <1>4

\* Cancelling the last reservation gives its token back, cancelling another one
\* gives nothing back.
LEMMA CancelledValue ==
  ASSUME Counted, WaitingAreSpaced, NEW r \in Waiting
  PROVE  /\ req[r].timeToAct # bucket.lastEvent => Cancelled(req[r].timeToAct) = bucket
         /\ req[r].timeToAct = bucket.lastEvent =>
              Cancelled(req[r].timeToAct) =
                [tokens |-> bucket.tokens + Cost, last |-> now,
                 lastEvent |-> IF bucket.lastEvent - Cost >= now
                                 THEN bucket.lastEvent - Cost ELSE bucket.lastEvent]
         /\ Advance(bucket, now) = bucket.tokens
         /\ bucket.last = now
         /\ bucket.tokens = now - bucket.lastEvent
         /\ bucket.tokens < 0
<1> USE FullHoldsOne
<1> DEFINE t == req[r].timeToAct
<1>1. /\ bucket.last = now /\ bucket.tokens = now - bucket.lastEvent
      /\ bucket.lastEvent - t \in Multiples
  BY DEF WaitingAreSpaced
<1>2. /\ t > now /\ t \in Nat /\ now \in Nat /\ bucket.lastEvent \in Nat /\ bucket.tokens \in Int
  BY DEF Waiting, Outstanding, Counted, TypeOK
<1>3. bucket.lastEvent - t \in Nat
  BY <1>1, MultiplesSteps
<1>4. bucket.tokens < 0 /\ bucket.tokens <= Full
  BY <1>1, <1>2, <1>3
<1>5. Advance(bucket, now) = bucket.tokens
  BY <1>1, <1>2, <1>4 DEF Advance, Least
<1>6. ASSUME t # bucket.lastEvent
      PROVE  Cancelled(t) = bucket
  <2>1. bucket.lastEvent - t # 0
    BY <1>2, <1>6
  <2>2. bucket.lastEvent - t >= Cost
    BY <1>1, <2>1, MultiplesSteps
  <2>3. Restorable(t) <= 0
    BY <1>2, <2>2 DEF Restorable
  <2>4. QED
    BY <2>3 DEF Cancelled
<1>7. ASSUME t = bucket.lastEvent
      PROVE  Cancelled(t) = [tokens |-> bucket.tokens + Cost, last |-> now,
                             lastEvent |-> IF bucket.lastEvent - Cost >= now
                                             THEN bucket.lastEvent - Cost ELSE bucket.lastEvent]
  <2>1. Restorable(t) = Cost
    BY <1>2, <1>7 DEF Restorable
  <2>2. Least(Full, bucket.tokens + Cost) = bucket.tokens + Cost
    BY <1>2, <1>4 DEF Least
  <2>3. QED
    BY <1>5, <1>7, <2>1, <2>2 DEF Cancelled
<1>8. QED
  BY <1>1, <1>4, <1>5, <1>6, <1>7

LEMMA RejectSpaced ==
  ASSUME Counted, WaitingAreSpaced, NEW r \in Requests, Reject(r)
  PROVE  WaitingAreSpaced'
<1> USE FullHoldsOne
<1>1. /\ r \in Waiting /\ Waiting' = Waiting \ {r} /\ now' = now
      /\ \A q \in Waiting \ {r} : req'[q] = req[q]
      /\ bucket' = Cancelled(req[r].timeToAct)
  BY LeaveSets DEF Reject, Waiting, Outstanding
<1>2. CASE req[r].timeToAct # bucket.lastEvent
  BY <1>1, <1>2, CancelledValue DEF WaitingAreSpaced
<1>3. CASE req[r].timeToAct = bucket.lastEvent
  <2>1. ASSUME NEW q \in Waiting \ {r}
        PROVE  /\ bucket.lastEvent - Cost >= now
               /\ bucket.lastEvent - Cost - req[q].timeToAct \in Multiples
    <3>1. /\ req[q].timeToAct \in Nat /\ bucket.lastEvent \in Nat /\ now \in Nat
          /\ req[q].timeToAct > now
      BY DEF Waiting, Outstanding, Counted, TypeOK
    <3>2. req[q].timeToAct # bucket.lastEvent
      BY <1>1, <1>3 DEF WaitingAreSpaced
    <3>3. bucket.lastEvent - req[q].timeToAct \in Multiples
      BY DEF WaitingAreSpaced
    <3>4. bucket.lastEvent - req[q].timeToAct # 0
      BY <3>1, <3>2
    <3>5. /\ bucket.lastEvent - req[q].timeToAct >= Cost
          /\ (bucket.lastEvent - req[q].timeToAct) - Cost \in Multiples
      BY <3>3, <3>4, MultiplesSteps
    <3>6. (bucket.lastEvent - req[q].timeToAct) - Cost = bucket.lastEvent - Cost - req[q].timeToAct
      BY <3>1
    <3>7. QED
      BY <3>1, <3>5, <3>6
  <2>2. CASE bucket.lastEvent - Cost >= now
    <3>1. bucket' = [tokens |-> bucket.tokens + Cost, last |-> now,
                     lastEvent |-> bucket.lastEvent - Cost]
      BY <1>1, <1>3, <2>2, CancelledValue
    <3>2. bucket.tokens = now - bucket.lastEvent /\ bucket.lastEvent \in Nat /\ now \in Nat
      BY <1>1, CancelledValue DEF Counted, TypeOK
    <3>3. bucket'.last = now' /\ bucket'.tokens = now' - bucket'.lastEvent
      BY <1>1, <3>1, <3>2
    <3>4. \A q \in Waiting' : bucket'.lastEvent - req'[q].timeToAct \in Multiples
      BY <1>1, <2>1, <3>1
    <3>5. \A p, q \in Waiting' : req'[p].timeToAct = req'[q].timeToAct => p = q
      BY <1>1 DEF WaitingAreSpaced
    <3>6. QED
      BY <3>3, <3>4, <3>5 DEF WaitingAreSpaced
  <2>3. CASE ~(bucket.lastEvent - Cost >= now)
    <3>1. Waiting' = {}
      BY <1>1, <2>1, <2>3
    <3>2. QED
      BY <3>1 DEF WaitingAreSpaced
  <2>4. QED
    BY <2>2, <2>3
<1>4. QED
  BY <1>2, <1>3

LEMMA NextSpaced == Counted /\ WaitingAreSpaced /\ [Next]_vars => WaitingAreSpaced'
<1> SUFFICES ASSUME Counted, WaitingAreSpaced, [Next]_vars
             PROVE  WaitingAreSpaced'
  OBVIOUS
<1>1. CASE Tick
  BY <1>1, TickSets DEF WaitingAreSpaced
<1>2. ASSUME NEW r \in Requests, Serve(r) \/ Refuse(r)
      PROVE  WaitingAreSpaced'
  <2>1. r \notin Waiting /\ bucket' = bucket
    BY <1>2 DEF Serve, Refuse, Waiting, Counted, TypeOK
  <2>2. Waiting' = Waiting /\ now' = now /\ \A q \in Waiting : req'[q] = req[q]
    BY <1>2, <2>1, LeaveSets DEF Waiting, Outstanding
  <2>3. QED
    BY <2>1, <2>2 DEF WaitingAreSpaced
<1>3. CASE UNCHANGED vars
  BY <1>3 DEF vars, WaitingAreSpaced, Waiting, Outstanding
<1>4. QED
  BY <1>1, <1>2, <1>3, ReserveSpaced, RejectSpaced DEF Next

-----------------------------------------------------------------------------
(* The account of the two buckets.                                         *)

\* A bucket an instant later has a part more, unless it is full.
LEMMA AdvanceTick ==
  ASSUME NEW b, b.tokens \in Int, b.last \in Nat, NEW t \in Nat, b.last <= t
  PROVE  /\ Advance(b, t) \in Int
         /\ Advance(b, t) <= Full
         /\ Advance(b, t + 1) = Least(Full, Advance(b, t) + 1)
BY FullHoldsOne DEF Advance, Least

LEMMA InitAgree == Init => BucketsAgree
<1> SUFFICES ASSUME Init
             PROVE  BucketsAgree
  OBVIOUS
<1>1. Outstanding = {} /\ Granted = {}
  BY DEF Init, Outstanding, Granted, Idle
<1>2. Advance(ideal, now) = Full /\ Advance(bucket, now) = Full /\ unpaid = 0
  BY FullHoldsOne DEF Init, Advance, Least
<1>3. Cost * 0 = 0
  BY FullHoldsOne
<1>4. QED
  BY <1>1, <1>2, <1>3, FullHoldsOne, WorthEmpty DEF BucketsAgree

\* Both buckets, as numbers.
LEMMA AdvanceTypes ==
  ASSUME Counted
  PROVE  /\ Advance(bucket, now) \in Int /\ Advance(bucket, now) <= Full
         /\ Advance(ideal, now) \in Int /\ Advance(ideal, now) <= Full
         /\ now \in Nat /\ unpaid \in Nat
         /\ Cost * unpaid \in Nat /\ Cost * (unpaid + 1) = Cost * unpaid + Cost
BY UnpaidSteps, AdvanceTick DEF Counted, TypeOK

LEMMA NextAgree ==
  Counted /\ Counted' /\ WaitingAreSpaced /\ BucketsAgree /\ [Next]_vars => BucketsAgree'
<1> SUFFICES ASSUME Counted, Counted', WaitingAreSpaced, BucketsAgree, [Next]_vars
             PROVE  BucketsAgree'
  OBVIOUS
<1> USE FullHoldsOne
<1> DEFINE B == Advance(bucket, now)
           I == Advance(ideal, now)
<1>0. /\ B \in Int /\ I \in Int /\ B <= Full /\ I <= Full /\ unpaid \in Nat /\ now \in Nat
      /\ Cost * unpaid \in Nat /\ Cost * (unpaid + 1) = Cost * unpaid + Cost
      /\ IsFiniteSet(Outstanding)
      /\ I - B - Worth(Outstanding) \in 0..(Cost * unpaid) /\ I >= Worth(Granted)
  BY AdvanceTypes DEF Counted, BucketsAgree
<1>00. IsFiniteSet(Granted) /\ Worth(Granted) \in Nat /\ Worth(Outstanding) \in Nat
  BY <1>0, FS_Subset, WorthSteps DEF Granted
<1>1. CASE Tick
  <2>1. /\ Outstanding = {} /\ Outstanding' = {} /\ Granted' = {}
        /\ now' = now + 1 /\ bucket' = bucket /\ ideal' = ideal /\ unpaid' = unpaid
    BY <1>1, TickSets
  <2>2. B' = Least(Full, B + 1)
    BY <2>1, AdvanceTick DEF Counted, TypeOK
  <2>3. I' = Least(Full, I + 1)
    BY <2>1, AdvanceTick DEF Counted, TypeOK
  <2>4. Worth(Outstanding) = 0 /\ Worth(Outstanding') = 0 /\ Worth(Granted') = 0
    BY <2>1, WorthEmpty
  <2>5. I' - B' \in 0..(Cost * unpaid) /\ I' >= 0
    <3>1. I - B \in 0..(Cost * unpaid) /\ I >= 0
      BY <1>0, <1>00, <2>4
    <3>2. Cost * unpaid \in Nat /\ B + 1 \in Int /\ I + 1 \in Int
      BY <1>0
    <3>3. /\ B' = IF Full <= B + 1 THEN Full ELSE B + 1
          /\ I' = IF Full <= I + 1 THEN Full ELSE I + 1
      BY <2>2, <2>3 DEF Least
    <3> HIDE DEF B, I
    <3>4. QED
      BY <1>0, <3>1, <3>2, <3>3
  <2>6. QED
    BY <2>1, <2>4, <2>5 DEF BucketsAgree
<1>2. ASSUME NEW r \in Requests, Reserve(r)
      PROVE  BucketsAgree'
  <2>1. /\ bucket'.tokens = B - Cost /\ bucket'.last = now
        /\ now' = now /\ ideal' = ideal /\ unpaid' = unpaid
    BY <1>2 DEF Reserve
  <2>2. B' = B - Cost /\ I' = I
    BY <1>0, <2>1 DEF Advance, Least
  <2>3. Worth(Outstanding') = Worth(Outstanding) + Cost
    BY <1>0, <1>2, ReserveSets, WorthSteps
  <2>4. I' - B' - Worth(Outstanding') \in 0..(Cost * unpaid')
    BY <1>0, <1>00, <2>1, <2>2, <2>3
  <2>5. CASE bucket'.tokens < 0
    <3>1. Granted' = Granted
      BY <1>2, <2>5, ReserveSets
    <3>2. QED
      BY <1>0, <2>2, <2>4, <3>1 DEF BucketsAgree
  <2>6. CASE ~(bucket'.tokens < 0)
    <3>1. Waiting = {}
      <4>1. SUFFICES ASSUME Waiting # {}
                     PROVE  FALSE
        OBVIOUS
      <4>2. B = bucket.tokens /\ bucket.tokens < 0
        BY <4>1, CancelledValue
      <4>3. QED
        BY <1>0, <2>1, <2>6, <4>2
    <3>2. Granted = Outstanding
      BY <3>1 DEF Granted, Waiting, Outstanding, Counted, TypeOK
    <3>3. Worth(Granted') = Worth(Outstanding')
      BY <1>2, <2>6, <3>2, ReserveSets
    <3>4. I' >= Worth(Granted')
      BY <1>0, <1>00, <2>1, <2>2, <2>3, <2>6, <3>3
    <3>5. QED
      BY <2>4, <3>4 DEF BucketsAgree
  <2>7. QED
    BY <2>5, <2>6
<1>3. ASSUME NEW r \in Requests, Reject(r)
      PROVE  BucketsAgree'
  <2>1. /\ r \in Waiting /\ r \notin Granted /\ r \in Outstanding
        /\ now' = now /\ ideal' = ideal
        /\ bucket' = Cancelled(req[r].timeToAct)
        /\ unpaid' = IF req[r].timeToAct = bucket.lastEvent THEN unpaid ELSE unpaid + 1
    BY <1>3 DEF Reject, Waiting, Granted, Outstanding, Counted, TypeOK
  <2>2. Outstanding' = Outstanding \ {r} /\ Granted' = Granted
    BY <1>3, <2>1, LeaveSets
  <2>3. Worth(Outstanding') = Worth(Outstanding) - Cost
    BY <1>0, <2>1, <2>2, WorthSteps
  <2>4. I' = I /\ I' >= Worth(Granted')
    BY <1>0, <2>1, <2>2 DEF Advance
  <2>5. CASE req[r].timeToAct # bucket.lastEvent
    <3>1. B' = B /\ unpaid' = unpaid + 1
      BY <2>1, <2>5, CancelledValue DEF Advance
    <3>2. QED
      BY <1>0, <1>00, <2>3, <2>4, <3>1 DEF BucketsAgree
  <2>6. CASE req[r].timeToAct = bucket.lastEvent
    <3>1. /\ bucket'.tokens = bucket.tokens + Cost /\ bucket'.last = now
          /\ B = bucket.tokens /\ bucket.tokens < 0
      BY <2>1, <2>6, CancelledValue
    <3>2. B' = B + Cost
      BY <1>0, <2>1, <3>1 DEF Advance, Least
    <3>3. unpaid' = unpaid
      BY <2>1, <2>6
    <3>4. QED
      BY <1>0, <1>00, <2>3, <2>4, <3>2, <3>3 DEF BucketsAgree
  <2>7. QED
    BY <2>5, <2>6
<1>4. ASSUME NEW r \in Requests, Serve(r)
      PROVE  BucketsAgree'
  <2>1. /\ r \in Granted /\ r \in Outstanding
        /\ now' = now /\ bucket' = bucket /\ unpaid' = unpaid
        /\ ideal'.tokens = I - Cost /\ ideal'.last = now
    BY <1>4 DEF Serve, Granted, Outstanding
  <2>2. I' = I - Cost /\ B' = B
    BY <1>0, <2>1 DEF Advance, Least
  <2>3. Worth(Outstanding') = Worth(Outstanding) - Cost
    BY <1>0, <1>4, <2>1, LeaveSets, WorthSteps
  <2>4. Worth(Granted') = Worth(Granted) - Cost
    BY <1>00, <1>4, <2>1, LeaveSets, WorthSteps
  <2>5. QED
    BY <1>0, <1>00, <2>1, <2>2, <2>3, <2>4 DEF BucketsAgree
<1>5. ASSUME NEW r \in Requests, Refuse(r)
      PROVE  BucketsAgree'
  <2>1. /\ r \in Granted /\ r \in Outstanding
        /\ now' = now /\ bucket' = bucket /\ ideal' = ideal /\ unpaid' = unpaid + 1
    BY <1>5 DEF Refuse, Granted, Outstanding
  <2>2. I' = I /\ B' = B
    BY <2>1
  <2>3. Worth(Outstanding') = Worth(Outstanding) - Cost
    BY <1>0, <1>5, <2>1, LeaveSets, WorthSteps
  <2>4. Worth(Granted') = Worth(Granted) - Cost
    BY <1>00, <1>5, <2>1, LeaveSets, WorthSteps
  <2>5. QED
    BY <1>0, <1>00, <2>1, <2>2, <2>3, <2>4 DEF BucketsAgree
<1>6. CASE UNCHANGED vars
  <2>1. Outstanding' = Outstanding /\ Granted' = Granted
    BY <1>6 DEF vars, Outstanding, Granted
  <2>2. QED
    BY <1>6, <2>1 DEF vars, BucketsAgree
<1>7. QED
  BY <1>1, <1>2, <1>3, <1>4, <1>5, <1>6 DEF Next

-----------------------------------------------------------------------------
(* What Retry-After promises.                                              *)

LEMMA InitPromise == Init => PromiseIsBacked
BY DEF Init, PromiseIsBacked, Outstanding, Idle

\* A request that comes when nobody else is in the middleware inherits the promise;
\* any other ends it.
LEMMA ReservePromise ==
  ASSUME Counted, PromiseIsBacked, NEW r \in Requests, Reserve(r)
  PROVE  PromiseIsBacked'
<1> USE FullHoldsOne
<1>1. /\ bucket'.lastEvent = req'[r].timeToAct /\ bucket'.tokens = Advance(bucket, now) - Cost
      /\ now' = now /\ (broken' <=> broken)
      /\ promise' = (IF Outstanding = {} THEN promise ELSE 0)
  <2>1. Quiet <=> Outstanding = {}
    BY DEF Quiet, Outstanding, Counted, TypeOK
  <2>2. QED
    BY <2>1, ReserveSets DEF Reserve
<1>2. Outstanding' = Outstanding \cup {r} /\ r \in Outstanding'
  BY ReserveSets
<1>3. \A q \in Outstanding' : req'[q].alone =>
        Outstanding' = {q} /\ bucket'.lastEvent = req'[q].timeToAct
  BY <1>1, <1>2, ReserveSets
<1>4. ASSUME promise' > 0
      PROVE  Outstanding = {} /\ promise' = promise /\ Outstanding' = {r} /\ req'[r].alone
  BY <1>1, <1>2, <1>4, ReserveSets DEF Counted, TypeOK
<1>5. ASSUME promise' > 0, promise' <= now'
      PROVE  Waiting' = {}
  <2>1. Advance(bucket, promise) >= Cost /\ bucket.last <= promise /\ promise <= now
    BY <1>1, <1>4, <1>5 DEF PromiseIsBacked
  <2>2. Advance(bucket, now) >= Cost
    BY <2>1 DEF Advance, Least, Counted, TypeOK
  <2>3. Advance(bucket, now) \in Int
    BY AdvanceTypes
  <2>4. ~(bucket'.tokens < 0)
    BY <1>1, <2>2, <2>3
  <2>5. Waiting = {}
    BY <1>4, <1>5 DEF Waiting
  <2>6. QED
    BY <2>4, <2>5, ReserveSets
<1>6. QED
  BY <1>1, <1>2, <1>3, <1>4, <1>5 DEF PromiseIsBacked

\* A lone request that is rejected leaves the bucket with a token at the time it was
\* given; one that comes after the promised time is not rejected.
LEMMA RejectPromise ==
  ASSUME Counted, WaitingAreSpaced, PromiseIsBacked, NEW r \in Requests, Reject(r)
  PROVE  PromiseIsBacked'
<1> USE FullHoldsOne
<1>1. /\ r \in Waiting /\ r \in Outstanding /\ Outstanding' = Outstanding \ {r}
      /\ Waiting' = Waiting \ {r} /\ now' = now
      /\ \A q \in Outstanding' : req'[q] = req[q]
      /\ req[r].timeToAct > now
  BY LeaveSets DEF Reject, Waiting, Outstanding
<1>2. ~broken'
  <2>1. ~(promise > 0 /\ promise <= now)
    BY <1>1 DEF PromiseIsBacked
  <2>2. broken' = (broken \/ (promise > 0 /\ promise <= now))
    BY DEF Reject
  <2>3. QED
    BY <2>1, <2>2 DEF PromiseIsBacked
<1>3. CASE req[r].alone
  <2>1. Outstanding = {r} /\ bucket.lastEvent = req[r].timeToAct
    BY <1>1, <1>3 DEF PromiseIsBacked
  <2>2. Outstanding' = {}
    BY <1>1, <2>1
  <2>3. promise' = req[r].timeToAct
    BY <1>3 DEF Reject
  <2>4. /\ bucket'.tokens = bucket.tokens + Cost /\ bucket'.last = now
        /\ bucket.tokens = now - bucket.lastEvent
    BY <1>1, <2>1, CancelledValue DEF Reject
  <2>5. Advance(bucket', promise') >= Cost /\ bucket'.last <= promise'
    BY <1>1, <2>1, <2>3, <2>4 DEF Advance, Least, Counted, TypeOK
  <2>6. Waiting' = {}
    BY <2>2 DEF Waiting
  <2>7. QED
    BY <1>2, <2>2, <2>5, <2>6 DEF PromiseIsBacked, Advance
<1>4. CASE ~req[r].alone
  <2>1. promise' = 0
    BY <1>4 DEF Reject
  <2>2. \A q \in Outstanding' : ~req'[q].alone
    BY <1>1 DEF PromiseIsBacked
  <2>3. QED
    BY <1>2, <2>1, <2>2 DEF PromiseIsBacked
<1>5. QED
  BY <1>3, <1>4

LEMMA NextPromise ==
  Counted /\ WaitingAreSpaced /\ PromiseIsBacked /\ [Next]_vars => PromiseIsBacked'
<1> SUFFICES ASSUME Counted, WaitingAreSpaced, PromiseIsBacked, [Next]_vars
             PROVE  PromiseIsBacked'
  OBVIOUS
<1>1. CASE Tick
  BY <1>1, TickSets DEF PromiseIsBacked, Advance
<1>2. ASSUME NEW r \in Requests, Serve(r) \/ Refuse(r)
      PROVE  PromiseIsBacked'
  <2>1. promise' = 0 /\ (broken' <=> broken)
    BY <1>2 DEF Serve, Refuse
  <2>2. \A q \in Outstanding' : q \in Outstanding /\ q # r /\ req'[q] = req[q] /\ r \in Outstanding
    BY <1>2, LeaveSets DEF Outstanding
  <2>3. \A q \in Outstanding' : ~req'[q].alone
    BY <2>2 DEF PromiseIsBacked
  <2>4. QED
    BY <2>1, <2>3 DEF PromiseIsBacked
<1>3. CASE UNCHANGED vars
  BY <1>3 DEF vars, PromiseIsBacked, Waiting, Outstanding, Advance
<1>4. QED
  BY <1>1, <1>2, <1>3, ReservePromise, RejectPromise DEF Next

-----------------------------------------------------------------------------
(* The theorems.                                                           *)

\* The inductive invariant holds in every reachable state.
THEOREM LimiterInvariant == Spec => []LimiterInv
<1>1. Init => LimiterInv
  BY InitCounted, InitSpaced, InitAgree, InitPromise DEF LimiterInv
<1>2. LimiterInv /\ [Next]_vars => LimiterInv'
  BY NextCounted, NextSpaced, NextAgree, NextPromise DEF LimiterInv
<1>3. QED
  BY <1>1, <1>2, PTL DEF Spec

\* The limiter's variables keep their types, and the bucket never holds more than
\* the burst.
THEOREM LimiterTypes == Spec => []TypeOK
BY LimiterInvariant, PTL DEF LimiterInv, Counted

\* In every stretch of time the requests served are at most the burst and what was
\* refilled in it, however they overlap with requests that are rejected.
THEOREM NeverServedOverRate == Spec => []NeverOverRate
<1>1. LimiterInv => NeverOverRate
  <2> SUFFICES ASSUME LimiterInv
               PROVE  NeverOverRate
    OBVIOUS
  <2>1. IsFiniteSet(Granted)
    BY FS_Subset DEF LimiterInv, Counted, Granted
  <2>2. Worth(Granted) \in Nat
    BY <2>1, WorthSteps
  <2>3. QED
    BY <2>2, AdvanceTypes DEF LimiterInv, BucketsAgree, NeverOverRate
<1>2. QED
  BY <1>1, LimiterInvariant, PTL

\* A cancellation never gives back more than was taken, and what it does not give
\* back is a token for each unpaid reservation at most.
THEOREM EveryLossIsExplained == Spec => []LossIsExplained
<1>1. LimiterInv => LossIsExplained
  <2> SUFFICES ASSUME LimiterInv, Quiet
               PROVE  Advance(ideal, now) - Advance(bucket, now) \in 0..(Cost * unpaid)
    BY DEF LossIsExplained
  <2>1. Outstanding = {}
    BY DEF Quiet, Outstanding
  <2>2. QED
    BY <2>1, WorthEmpty, AdvanceTypes DEF LimiterInv, BucketsAgree
<1>2. QED
  BY <1>1, LimiterInvariant, PTL

\* A user who sends one request at a time and waits as long as Retry-After says is
\* not rejected again.
THEOREM RetryAfterHolds == Spec => []RetryAfterIsHonest
BY LimiterInvariant, PTL DEF LimiterInv, PromiseIsBacked, RetryAfterIsHonest
=============================================================================
