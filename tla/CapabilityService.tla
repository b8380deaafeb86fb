------------------------- MODULE CapabilityService -------------------------
(***************************************************************************)
(* Capabilities in the running server: the handlers that issue and revoke  *)
(* them, the middleware that admits a request on one (Protect), and the    *)
(* in-memory RevokedSet that is rebuilt from the log when the server       *)
(* starts.  Composed with the metadata store, whose appends may fail and   *)
(* whose process may be killed at any point; the handlers of several       *)
(* requests interleave between any two calls that take a lock.  The        *)
(* handlers that create objects are in WriteHandlers; to a revocation the  *)
(* capability they hand out is like the one of a sign-in.                  *)
(*                                                                         *)
(* Time is counted in ticks, TicksPerSecond of them to a second, because a *)
(* capability's ID has its expiry in seconds and its payload does not.     *)
(***************************************************************************)
EXTENDS MetadataStore

CONSTANTS
  Requests,        \* handler goroutines
  AnyHash,         \* the wildcard hash "*"
  Grants,          \* bound: the (hash, perm, principal) triples that are asked for
  Routes,          \* bound: the routes that are called
  Lifetime,        \* HATCHECK_CAPABILITY_EXPIRY, in ticks
  TicksPerSecond,
  MaxTime,         \* bound on the clock
  NoToken,         \* a route that does not look at a capability
  Bootstrap        \* the bootstrap token

Perms == {"read", "write", "admin"}

\* The permission a route asks Protect for (routes.go); login is not behind
\* Protect.
Need == [read |-> "read", write |-> "write", issue |-> "admin", revoke |-> "admin"]
Protected == DOMAIN Need

CapabilityID(g, expires) == <<g.hash, g.perm, g.principal, expires \div TicksPerSecond>>

\* The payload keeps the expiry it was given; the ID and the signed message
\* have it in seconds.
SignCapability(g, expires) ==
  [id |-> CapabilityID(g, expires), hash |-> g.hash, perm |-> g.perm,
   principal |-> g.principal, expires |-> expires]

Signed == {SignCapability(g, t) : g \in Grants, t \in 0..(MaxTime + Lifetime)}

ASSUME CapabilitiesAssumption == Capabilities = Signed
ASSUME GrantsAssumption ==
  \A g \in Grants : g.hash \in Hashes \cup {AnyHash} /\ g.perm \in Perms
ASSUME TokensAssumption == NoToken \notin Capabilities /\ Bootstrap \notin Capabilities
ASSUME RoutesAssumption == Routes \subseteq Protected \cup {"login"}
ASSUME TimeAssumption ==
  Lifetime \in Nat /\ TicksPerSecond \in Nat \ {0} /\ MaxTime \in Nat

VARIABLES
  now,        \* the wall clock
  main,       \* the server's main: off, built (RevokedSet is filled), on (serving)
  builtAt,    \* the time BuildRevokedSet read
  revoked,    \* RevokedSet.ids
  req,        \* what each handler goroutine is doing
  handed,     \* history: payloads that were sent to a client
  answered    \* history: IDs whose revocation was answered with 200

serviceVars == <<now, main, builtAt, revoked, req, handed, answered>>
allVars == <<vars, serviceVars>>

Idle == [stage |-> "idle", route |-> "read", token |-> NoToken, id |-> NoToken, since |-> {}]
Stages == {"idle", "verify", "check", "inner", "append"}

Request == [stage : Stages, route : Protected \cup {"login"},
            token : Capabilities \cup {NoToken, Bootstrap},
            id : Ids \cup {NoToken}, since : SUBSET Ids]

ServiceInit ==
  /\ Init
  /\ now = 0
  /\ main = "off"
  /\ builtAt = 0
  /\ revoked = {}
  /\ req = [r \in Requests |-> Idle]
  /\ handed = {}
  /\ answered = {}

-----------------------------------------------------------------------------
(* Starting and stopping.                                                  *)

Tick ==
  /\ now < MaxTime
  /\ now' = now + 1
  /\ UNCHANGED <<vars, main, builtAt, revoked, req, handed, answered>>

Starting ==
  /\ Start \/ StartFails \/ Replay \/ Serve
  /\ UNCHANGED serviceVars

\* The capability L last issues with an ID; an ID it never issued has none.
Issuances(L, i) == {k \in 1..Len(L) : L[k].op = "capability" /\ L[k].cap.id = i}
LastIssuance(L, i) ==
  LET k == CHOOSE k \in Issuances(L, i) : \A j \in Issuances(L, i) : j <= k IN L[k].cap

\* Mutant: the comparison of the expiry with the clock is the wrong way round.
RelevantOnceExpired(L, i, t) == Issuances(L, i) = {} \/ LastIssuance(L, i).expires < t

StillRelevant(L, i, t) == Issuances(L, i) = {} \/ LastIssuance(L, i).expires > t

\* BuildRevokedSet walks a log once more, and skips capabilities that have
\* expired by the time t it reads from the clock.
RevokedIn(L, t) ==
  {L[k].id : k \in {j \in 1..Len(L) : L[j].op = "capability-revoke" /\ StillRelevant(L, L[j].id, t)}}

\* Mutant: the server starts with an empty set.
BuildNothing ==
  /\ main = "off"
  /\ phase = "ready"
  /\ builtAt' = now
  /\ main' = "built"
  /\ UNCHANGED <<vars, now, revoked, req, handed, answered>>

BuildRevokedSet ==
  /\ main = "off"
  /\ phase = "ready"
  /\ revoked' = RevokedIn(log, now)
  /\ builtAt' = now
  /\ main' = "built"
  /\ UNCHANGED <<vars, now, req, handed, answered>>

\* The clock advances between BuildRevokedSet and the first request that can be
\* served: the authentication client and the routes are set up in between.
ListenAndServe ==
  /\ main = "built"
  /\ now > builtAt
  /\ main' = "on"
  /\ UNCHANGED <<vars, now, builtAt, revoked, req, handed, answered>>

Killed ==
  /\ Crash
  /\ main' = "off"
  /\ builtAt' = 0
  /\ revoked' = {}
  /\ req' = [r \in Requests |-> Idle]
  /\ UNCHANGED <<now, handed, answered>>

-----------------------------------------------------------------------------
(* The middleware.                                                         *)

\* A request reaches Protect with the token the client holds; since is the
\* history of what had been revoked by then.
Arrive(r, route, token) ==
  /\ main = "on"
  /\ req[r].stage = "idle"
  /\ route \in Protected
  /\ req' = [req EXCEPT ![r] = [Idle EXCEPT !.stage = "verify", !.route = route,
                                           !.token = token, !.since = answered]]
  /\ UNCHANGED <<vars, now, main, builtAt, revoked, handed, answered>>

\* The bootstrap token opens the admin routes and no other.
AdmitBootstrap(r) ==
  /\ req[r].stage = "verify"
  /\ req[r].token = Bootstrap
  /\ req' = [req EXCEPT ![r] = IF Need[@.route] = "admin" THEN [@ EXCEPT !.stage = "inner"]
                                                           ELSE Idle]
  /\ UNCHANGED <<vars, now, main, builtAt, revoked, handed, answered>>

\* VerifyCapability: not after the expiry.  Clients present payloads the server
\* signed, with the principal they are bound to.
VerifyCapability(cap) == now <= cap.expires

\* Mutant: a capability whose signature holds is not looked up in the set.
VerifyOnly(r) ==
  /\ req[r].stage = "verify"
  /\ req[r].token \in Capabilities
  /\ req' = [req EXCEPT ![r] = IF VerifyCapability(@.token) THEN [@ EXCEPT !.stage = "inner"]
                                                            ELSE Idle]
  /\ UNCHANGED <<vars, now, main, builtAt, revoked, handed, answered>>

Verify(r) ==
  /\ req[r].stage = "verify"
  /\ req[r].token \in Capabilities
  /\ req' = [req EXCEPT ![r] = IF VerifyCapability(@.token) THEN [@ EXCEPT !.stage = "check"]
                                                            ELSE Idle]
  /\ UNCHANGED <<vars, now, main, builtAt, revoked, handed, answered>>

Permits(perm, need) == perm = "admin" \/ perm = need \/ (perm = "write" /\ need = "read")

\* IsRevoked takes only the set's own lock: an append may be in progress.
CheckRevoked(r) ==
  /\ req[r].stage = "check"
  /\ req' = [req EXCEPT ![r] =
       IF @.token.id \notin revoked /\ Permits(@.token.perm, Need[@.route])
         THEN [@ EXCEPT !.stage = "inner"]
         ELSE Idle]
  /\ UNCHANGED <<vars, now, main, builtAt, revoked, handed, answered>>

\* fetch, list, query, name and the other handlers that change no capability.
Answer(r) ==
  /\ req[r].stage = "inner"
  /\ req[r].route \in {"read", "write"}
  /\ req' = [req EXCEPT ![r] = Idle]
  /\ UNCHANGED <<vars, now, main, builtAt, revoked, handed, answered>>

-----------------------------------------------------------------------------
(* The handlers that issue and revoke.  Each holds the store's mutex from  *)
(* the step that begins its append to the one that ends it.                *)

BeginIssue(r, g, expires) ==
  /\ AppendCapability(SignCapability(g, expires))
  /\ req' = [req EXCEPT ![r].stage = "append", ![r].token = SignCapability(g, expires)]
  /\ UNCHANGED <<now, main, builtAt, revoked, handed, answered>>

\* issueHandler: the expiry is the client's, not in the past; admin capabilities
\* only for a request that came in on the bootstrap token.
Issue(r) ==
  /\ req[r].stage = "inner"
  /\ req[r].route = "issue"
  /\ \E g \in Grants, expires \in now..MaxTime :
       /\ g.perm = "admin" => req[r].token = Bootstrap
       /\ BeginIssue(r, g, expires)

\* authenticateHandler: a wildcard read capability for the user who signed in.
Login(r) ==
  /\ main = "on"
  /\ req[r].stage = "idle"
  /\ \E g \in Grants :
       /\ g.perm = "read" /\ g.hash = AnyHash
       /\ AppendCapability(SignCapability(g, now + Lifetime))
       /\ req' = [req EXCEPT ![r] = [Idle EXCEPT !.stage = "append", !.route = "login",
                                       !.token = SignCapability(g, now + Lifetime)]]
  /\ UNCHANGED <<now, main, builtAt, revoked, handed, answered>>

Revoke(r) ==
  /\ req[r].stage = "inner"
  /\ req[r].route = "revoke"
  /\ \E c \in handed :
       /\ AppendCapabilityRevoke(c.id)
       /\ req' = [req EXCEPT ![r].stage = "append", ![r].id = c.id]
  /\ UNCHANGED <<now, main, builtAt, revoked, handed, answered>>

\* Mutant: the live set is updated whether or not the append succeeded.
ReturnedUnchecked(r, ok) ==
  /\ req[r].stage = "append"
  /\ req' = [req EXCEPT ![r] = Idle]
  /\ handed' =
       IF req[r].route # "revoke" THEN handed \cup {req[r].token} ELSE handed
  /\ LET ids == IF req[r].route = "revoke" THEN {req[r].id} ELSE {}
     IN revoked' = revoked \cup ids /\ answered' = answered \cup ids
  /\ UNCHANGED <<now, main, builtAt>>

\* Mutant: whatever was appended, the client is sent the request's token.
ReturnedToken(r, ok) ==
  /\ req[r].stage = "append"
  /\ req' = [req EXCEPT ![r] = Idle]
  /\ handed' = IF ok THEN handed \cup {req[r].token} ELSE handed
  /\ UNCHANGED <<now, main, builtAt, revoked, answered>>

\* What the handler does once its append has returned.  A login only logs a
\* failed append and hands the capability out; issue and revoke answer 500.
Returned(r, ok) ==
  /\ req[r].stage = "append"
  /\ req' = [req EXCEPT ![r] = Idle]
  /\ handed' =
       IF req[r].route = "login" \/ (req[r].route = "issue" /\ ok)
         THEN handed \cup {req[r].token} ELSE handed
  /\ LET ids == IF req[r].route = "revoke" /\ ok THEN {req[r].id} ELSE {}
     IN /\ revoked' = revoked \cup ids
        /\ answered' = answered \cup ids
  /\ UNCHANGED <<now, main, builtAt>>

AppendReturns ==
  \E r \in Requests :
    \/ Acknowledge /\ Returned(r, TRUE)
    \/ (OpenFails \/ WriteFails) /\ Returned(r, FALSE)

AppendProceeds ==
  /\ Truncate \/ WriteDone
  /\ UNCHANGED serviceVars

-----------------------------------------------------------------------------
(* The listings for administrators.                                        *)

\* Mutant: the expiry is compared, the set is not looked up.
StatusByExpiry(cap, ids, t) == IF cap.expires < t THEN "expired" ELSE "active"

\* What "hatcheck capability list" shows for a capability of its log, at time t,
\* with the revoked IDs it has built.
CapabilityStatus(cap, ids, t) ==
  IF cap.id \in ids THEN "revoked" ELSE IF cap.expires < t THEN "expired" ELSE "active"

\* What the route /capabilities answers: the index joined with the live set.  An
\* id wins over a principal, and with neither every capability is listed.
CapabilityList(id, principal) ==
  LET caps == IF id # NoToken THEN {capabilityIndex.byID[id]} \ {NoCapability}
              ELSE LET listed == IF principal = NoToken THEN capabilityIndex.all
                                 ELSE capabilityIndex.byPrincipal[principal]
                   IN {listed[k] : k \in DOMAIN listed}
  IN {[cap |-> c, revoked |-> c.id \in revoked] : c \in caps}

-----------------------------------------------------------------------------
ServiceNext ==
  \/ Tick
  \/ Starting
  \/ BuildRevokedSet
  \/ ListenAndServe
  \/ Killed
  \/ \E r \in Requests, route \in Routes, token \in handed \cup {Bootstrap} :
       Arrive(r, route, token)
  \/ \E r \in Requests :
       \/ AdmitBootstrap(r)
       \/ Verify(r)
       \/ CheckRevoked(r)
       \/ Answer(r)
       \/ Issue(r)
       \/ "login" \in Routes /\ Login(r)
       \/ Revoke(r)
  \/ AppendReturns
  \/ AppendProceeds

ServiceSpec == ServiceInit /\ [][ServiceNext]_allVars

-----------------------------------------------------------------------------
(* Properties.                                                             *)

ServiceTypeOK ==
  /\ TypeOK
  /\ now \in 0..MaxTime
  /\ main \in {"off", "built", "on"}
  /\ builtAt \in 0..MaxTime
  /\ revoked \subseteq Ids
  /\ req \in [Requests -> Request]
  /\ handed \subseteq Capabilities
  /\ answered \subseteq Ids

\* A request that arrives after the revocation of its capability was answered is
\* not admitted: neither while the set is being updated, nor after a crash and a
\* restart that rebuilt the set and skipped the capabilities it took for expired.
RevokedIsRefused ==
  \A r \in Requests :
    req[r].stage = "inner" /\ req[r].token \in Capabilities
      => req[r].token.id \notin req[r].since

\* While the server serves, every answered revocation is in the set or concerns
\* only payloads that have expired.
RevocationSticks ==
  main = "on" =>
    \A i \in answered : i \in revoked \/ \A c \in handed : c.id = i => c.expires < now

\* "Update the live set only after the log is durably written" (metadata.go:241):
\* an ID refused by this process has its revocation in log.json, so that the
\* next process refuses it too.
RevokedIsLogged ==
  Readable => \A i \in revoked :
    \E k \in 1..Len(disk) : disk[k].op = "capability-revoke" /\ disk[k].id = i

\* Neither listing shows as good a capability whose revocation was answered.  The
\* server's joins its index with the live set.  "hatcheck capability list" is a
\* process of its own: it builds a set from log.json, which skips capabilities that
\* have expired, and then reads the clock again to tell which have.
RevokedNeverListedActive ==
  \A i \in answered :
    /\ main = "on" =>
         \A p \in Principals \cup {NoToken} :
           \A e \in CapabilityList(i, p) \cup CapabilityList(NoToken, p) :
             e.cap.id = i => e.revoked \/ e.cap.expires < now
    /\ Readable =>
         \A k \in Issuances(disk, i), t \in 0..(now - 1) :
           CapabilityStatus(disk[k].cap, RevokedIn(disk, t), now) # "active"
=============================================================================
