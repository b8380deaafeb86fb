----------------------------- MODULE RateLimit -----------------------------
(***************************************************************************)
(* One user's limiter in one of the three pools (server/ratelimit.go), and *)
(* the chain RequireAuth, Limit, Protect, handler that its requests run    *)
(* through concurrently.  The token bucket is golang.org/x/time/rate,      *)
(* modelled from the calls checkLimit makes: Reserve, Delay and Cancel.    *)
(*                                                                         *)
(* Tokens are counted in parts: the bucket gains one part a tick and a     *)
(* request takes Cost of them, so that Cost ticks are the pool's interval. *)
(***************************************************************************)
EXTENDS Integers

CONSTANTS
  Requests,    \* handler goroutines of the user's requests
  Cost,        \* parts in a token; ticks in the refill interval
  Burst,       \* the pool's burst size, in tokens
  MaxTime,     \* bound on the clock
  MaxCalls     \* bound on the number of requests

ASSUME ParametersAssumption ==
  /\ Cost \in Nat \ {0} /\ Burst \in Nat \ {0}
  /\ MaxTime \in Nat /\ MaxCalls \in Nat

VARIABLES
  now,      \* the clock
  bucket,   \* the limiter: tokens (in parts), last, lastEvent
  req,      \* each request: its stage, the timeToAct of its reservation, and (history)
            \* whether no other request was in the middleware at the same time
  calls,    \* how many requests were made
  ideal,    \* history: a bucket that only the served requests have drawn from
  unpaid,   \* history: reservations that may have cost a token and served nothing
  promise,  \* history: the time the last Retry-After gave to a user with no other request
  broken    \* history: a request was rejected although it came after that time

vars == <<now, bucket, req, calls, ideal, unpaid, promise, broken>>

Idle == [stage |-> "idle", timeToAct |-> 0, alone |-> FALSE]

Full == Burst * Cost
Least(a, b) == IF a <= b THEN a ELSE b

\* The tokens of a bucket at time t.
Advance(b, t) == Least(Full, b.tokens + (t - b.last))

\* Mutant: a new limiter has one token more than the burst.
InitWithOneMore ==
  /\ now = 0
  /\ bucket = [tokens |-> Full + Cost, last |-> 0, lastEvent |-> 0]
  /\ req = [r \in Requests |-> Idle]
  /\ calls = 0
  /\ ideal = [tokens |-> Full, last |-> 0]
  /\ unpaid = 0
  /\ promise = 0
  /\ broken = FALSE

Init ==
  /\ now = 0
  /\ bucket = [tokens |-> Full, last |-> 0, lastEvent |-> 0]
  /\ req = [r \in Requests |-> Idle]
  /\ calls = 0
  /\ ideal = [tokens |-> Full, last |-> 0]
  /\ unpaid = 0
  /\ promise = 0
  /\ broken = FALSE

\* A tick is a second or more; Reserve, Delay and Cancel of one request follow
\* each other within microseconds, though those of other requests may come
\* between.
Quiet == \A r \in Requests : req[r].stage = "idle"

Tick ==
  /\ now < MaxTime
  /\ Quiet
  /\ now' = now + 1
  /\ UNCHANGED <<bucket, req, calls, ideal, unpaid, promise, broken>>

\* limiter.Reserve: the tokens may become negative; the reservation is for the
\* time at which they are paid for.
TimeToAct(tokens) == now + (IF tokens < 0 THEN -tokens ELSE 0)

Reserve(r) ==
  /\ req[r].stage = "idle"
  /\ calls < MaxCalls
  /\ calls' = calls + 1
  /\ LET tokens == Advance(bucket, now) - Cost IN
       /\ bucket' = [tokens |-> tokens, last |-> now, lastEvent |-> TimeToAct(tokens)]
       /\ req' = [q \in Requests |->
            IF q = r THEN [stage |-> "reserved", timeToAct |-> TimeToAct(tokens), alone |-> Quiet]
            ELSE [req[q] EXCEPT !.alone = FALSE]]
  /\ promise' = IF Quiet THEN promise ELSE 0
  /\ UNCHANGED <<now, ideal, unpaid, broken>>

\* reservation.Cancel gives back the parts that no later reservation counts on.
Restorable(t) == Cost - (bucket.lastEvent - t)

Cancelled(t) ==
  IF Restorable(t) <= 0 THEN bucket
  ELSE [tokens    |-> Least(Full, Advance(bucket, now) + Restorable(t)),
        last      |-> now,
        lastEvent |-> IF t = bucket.lastEvent /\ t - Cost >= now
                        THEN t - Cost ELSE bucket.lastEvent]

\* Mutant: the reservation is not cancelled.
RejectUncancelled(r) ==
  /\ req[r].stage = "reserved"
  /\ req[r].timeToAct > now
  /\ bucket' = bucket
  /\ req' = [req EXCEPT ![r] = Idle]
  /\ broken' = (broken \/ (promise > 0 /\ promise <= now))
  /\ promise' = IF req[r].alone THEN req[r].timeToAct ELSE 0
  /\ unpaid' = IF req[r].timeToAct = bucket.lastEvent THEN unpaid ELSE unpaid + 1
  /\ UNCHANGED <<now, calls, ideal>>

\* The delay is positive: the reservation is cancelled and the answer is 429,
\* with the rest of the delay as Retry-After.
Reject(r) ==
  /\ req[r].stage = "reserved"
  /\ req[r].timeToAct > now
  /\ bucket' = Cancelled(req[r].timeToAct)
  /\ req' = [req EXCEPT ![r] = Idle]
  /\ broken' = (broken \/ (promise > 0 /\ promise <= now))
  /\ promise' = IF req[r].alone THEN req[r].timeToAct ELSE 0
  /\ unpaid' = IF req[r].timeToAct = bucket.lastEvent THEN unpaid ELSE unpaid + 1
  /\ UNCHANGED <<now, calls, ideal>>

\* Mutant: a delay of less than two ticks is rounded to none.
ServeEarly(r) ==
  /\ req[r].stage = "reserved"
  /\ req[r].timeToAct <= now + 1
  /\ ideal' = [tokens |-> Advance(ideal, now) - Cost, last |-> now]
  /\ req' = [req EXCEPT ![r] = Idle]
  /\ promise' = 0
  /\ UNCHANGED <<now, bucket, calls, unpaid, broken>>

\* The request goes on to Protect, which lets it through to the handler ...
Serve(r) ==
  /\ req[r].stage = "reserved"
  /\ req[r].timeToAct <= now
  /\ ideal' = [tokens |-> Advance(ideal, now) - Cost, last |-> now]
  /\ req' = [req EXCEPT ![r] = Idle]
  /\ promise' = 0
  /\ UNCHANGED <<now, bucket, calls, unpaid, broken>>

\* ... or answers 403; the reservation is not cancelled.
Refuse(r) ==
  /\ req[r].stage = "reserved"
  /\ req[r].timeToAct <= now
  /\ req' = [req EXCEPT ![r] = Idle]
  /\ unpaid' = unpaid + 1
  /\ promise' = 0
  /\ UNCHANGED <<now, bucket, calls, ideal, broken>>

Next ==
  \/ Tick
  \/ \E r \in Requests : Reserve(r) \/ Reject(r) \/ Serve(r) \/ Refuse(r)

Spec == Init /\ [][Next]_vars

-----------------------------------------------------------------------------
(* Properties.                                                             *)

TypeOK ==
  /\ now \in 0..MaxTime
  /\ bucket \in [tokens : Int, last : 0..MaxTime, lastEvent : Nat]
  /\ bucket.tokens <= Full
  /\ req \in [Requests -> [stage : {"idle", "reserved"}, timeToAct : Nat,
                         alone : BOOLEAN]]
  /\ calls \in 0..MaxCalls
  /\ ideal \in [tokens : Int, last : 0..MaxTime]
  /\ unpaid \in 0..MaxCalls
  /\ promise \in Nat
  /\ broken \in BOOLEAN

\* "Tokens are never accumulated beyond burst" and the steady-state rate: however
\* requests overlap and reservations are cancelled, the requests served in any
\* stretch of time are at most the burst and what was refilled in it.
NeverOverRate == Advance(ideal, now) >= 0

\* "It is cancelled so the token is returned to the bucket" (server/ratelimit.md:101):
\* a rejected request costs nothing and gains nothing.  When no request is under
\* way the bucket has what one would have that only served requests had drawn from:
\* never more, as if a token had been given back twice, and never less but for
\* the tokens in unpaid: those of reservations that are cancelled when a later
\* one has moved lastEvent on, and of requests that Protect refuses after Limit
\* took their token.
LossIsExplained ==
  Quiet => Advance(ideal, now) - Advance(bucket, now) \in 0..(Cost * unpaid)

\* "Retry-After: seconds until next token available" (ratelimit.md:109): a user who sends one
\* request at a time is not rejected again once that time is over.
RetryAfterIsHonest == ~broken
=============================================================================
