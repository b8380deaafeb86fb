---------------------- MODULE CapabilityServiceProofs ----------------------
(***************************************************************************)
(* Proofs about CapabilityService, for any number of requests, capabilities*)
(* and ticks.  What is known of the store (MetadataStoreProofs) is known   *)
(* of it here too.                                                         *)
(*                                                                         *)
(* What a revocation promises to a client is proved of the behaviours in   *)
(* which no two capabilities with the same ID come into being.  The code   *)
(* rules them out only for capabilities that do not expire in the same     *)
(* second, see the run capability_same_second.                             *)
(***************************************************************************)
EXTENDS CapabilityService, MetadataStoreProofs

\* The capabilities that are in a log, or with a client.
CapabilitiesIn(L) == {L[k].cap : k \in {k \in 1..Len(L) : L[k].op = "capability"}}
Minted ==
  handed \cup CapabilitiesIn(log) \cup (IF Readable THEN CapabilitiesIn(disk) ELSE {})

\* No ID is that of two of them.
IdsAreUnshared == \A c, d \in Minted : c.id = d.id => c = d

RevocationIn(L, i) == \E k \in 1..Len(L) : L[k].op = "capability-revoke" /\ L[k].id = i

\* The mutex has one holder, and the last entry of the log is its own.
AppenderIsLast ==
  /\ phase \in Appending <=> \E r \in Requests : req[r].stage = "append"
  /\ \A q, r \in Requests : req[q].stage = "append" /\ req[r].stage = "append" => q = r
  /\ \A r \in Requests : req[r].stage = "append" =>
       \/ req[r].route \in {"login", "issue"} /\ req[r].token \in Capabilities
       \/ /\ req[r].route = "revoke" /\ req[r].id \in Ids
          /\ log[Len(log)].op = "capability-revoke" /\ log[Len(log)].id = req[r].id

\* Requests are served when main is on, and main goes on when the store is ready.
\* Until then the log is the one that was loaded.
MainIsAfterStore ==
  /\ \A r \in Requests : req[r].stage # "idle" => main = "on"
  /\ main # "off" => phase \in {"ready"} \cup Appending
  /\ main # "on" /\ phase \in {"replay", "ready"} => log = IF disk = Absent THEN <<>> ELSE disk
  /\ main = "off" => revoked = {}
  /\ main = "on" => builtAt < now

\* The log has what the live set has, and so has the file.
RevokedInLog ==
  \A i \in revoked : RevocationIn(log, i) /\ (Readable => RevocationIn(disk, i))

\* The entry of an answered revocation is an acknowledged one.
AnsweredIsAcked ==
  \A i \in answered : \E a \in acked : a[2].op = "capability-revoke" /\ a[2].id = i

\* What a request found when it came.
ChecksAreInTime ==
  /\ \A r \in Requests : req[r].since \subseteq answered
  /\ \A r \in Requests : req[r].stage = "check" =>
       req[r].token \in Capabilities /\ builtAt < req[r].token.expires

\* The inductive invariant of the service, whatever the IDs.
ServiceInv ==
  /\ StoreFacts
  /\ ServiceTypeOK
  /\ AppenderIsLast
  /\ MainIsAfterStore
  /\ RevokedInLog
  /\ AnsweredIsAcked
  /\ ChecksAreInTime

\* The live set has every answered revocation, but those for which the log has a
\* capability that had expired when the set was built.
AnsweredSticks ==
  main # "off" =>
    \A i \in answered :
      i \in revoked \/ \E c \in CapabilitiesIn(log) : c.id = i /\ c.expires <= builtAt

\* Clients present what they were handed.
TokensWereHanded ==
  \A r \in Requests :
    req[r].stage \in {"verify", "check", "inner"} => req[r].token \in handed \cup {Bootstrap}

\* The inductive invariant of revocations, given that of the service.
RefusalInv == AnsweredSticks /\ TokensWereHanded
-----------------------------------------------------------------------------
(* Capabilities and revocations in a log.                                  *)

\* The capabilities are what the server signs.
LEMMA SignedAreCapabilities ==
  ASSUME NEW g \in Grants, NEW t \in 0..(MaxTime + Lifetime)
  PROVE  SignCapability(g, t) \in Capabilities
BY CapabilitiesAssumption DEF Signed

LEMMA CapabilityFields ==
  ASSUME NEW c \in Capabilities
  PROVE  c.id \in Ids /\ c.expires \in Nat
<1>1. PICK g \in Grants, t \in 0..(MaxTime + Lifetime) : c = SignCapability(g, t)
  BY CapabilitiesAssumption DEF Signed
<1>2. c.expires = t
  BY <1>1 DEF SignCapability
<1>3. QED
  BY <1>2, TimeAssumption DEF Ids

\* A log has capabilities, and keeps them when it grows.
LEMMA LoggedAreCapabilities ==
  ASSUME NEW L \in Seq(Entry), NEW c \in CapabilitiesIn(L)
  PROVE  c \in Capabilities
<1>1. PICK k \in 1..Len(L) : L[k].op = "capability" /\ c = L[k].cap
  BY DEF CapabilitiesIn
<1>2. L[k] \in Entry
  BY ElementOfSeq
<1>3. QED
  BY <1>1, <1>2, EntryKinds DEF CapabilityEntry

LEMMA CapabilitiesStay ==
  ASSUME NEW L \in Seq(Entry), NEW e \in Entry
  PROVE  CapabilitiesIn(L) \subseteq CapabilitiesIn(Append(L, e))
<1> DEFINE M == Append(L, e)
<1>1. /\ Len(M) = Len(L) + 1 /\ Len(L) \in Nat
      /\ \A k \in 1..Len(L) : M[k] = L[k]
  BY AppendProperties, LenProperties
<1> HIDE DEF M
<1>2. CapabilitiesIn(L) \subseteq CapabilitiesIn(M)
  BY <1>1 DEF CapabilitiesIn
<1>3. QED
  BY <1>2 DEF M

\* A revocation that a log has and RevokedIn leaves out is of a capability of that
\* log that has expired.
LEMMA SkippedHasExpired ==
  ASSUME NEW L \in Seq(Entry), NEW i \in Ids, NEW t \in Nat,
         RevocationIn(L, i), i \notin RevokedIn(L, t)
  PROVE  \E c \in CapabilitiesIn(L) : c.id = i /\ c.expires <= t
<1>1. ~StillRelevant(L, i, t)
  BY DEF RevocationIn, RevokedIn
<1>2. Issuances(L, i) # {} /\ ~(LastIssuance(L, i).expires > t)
  BY <1>1 DEF StillRelevant
<1>3. Len(L) \in Nat /\ Issuances(L, i) \in SUBSET (0..Len(L))
  BY LenProperties DEF Issuances
<1>4. \E k \in Issuances(L, i) : \A j \in Issuances(L, i) : j <= k
  BY <1>2, <1>3, GreatestNatural
<1>5. \E k \in Issuances(L, i) : LastIssuance(L, i) = L[k].cap
  BY <1>4, Zenon DEF LastIssuance
<1>6. PICK k \in Issuances(L, i) : LastIssuance(L, i) = L[k].cap
  BY <1>5
<1>7. L[k].cap \in CapabilitiesIn(L) /\ L[k].cap.id = i
  BY <1>6 DEF Issuances, CapabilitiesIn
<1>8. L[k].cap.expires \in Nat
  BY <1>7, LoggedAreCapabilities, CapabilityFields
<1>9. QED
  BY <1>2, <1>6, <1>7, <1>8

\* An entry stays where it is when the log grows.
LEMMA RevocationStays ==
  ASSUME NEW L \in Seq(Entry), NEW e \in Entry, NEW i, RevocationIn(L, i)
  PROVE  RevocationIn(Append(L, e), i)
<1> DEFINE M == Append(L, e)
<1>1. /\ Len(M) = Len(L) + 1 /\ Len(L) \in Nat
      /\ \A k \in 1..Len(L) : M[k] = L[k]
  BY AppendProperties, LenProperties
<1> HIDE DEF M
<1>2. RevocationIn(M, i)
  BY <1>1 DEF RevocationIn
<1>3. QED
  BY <1>2 DEF M

\* The last entry of a log that has grown.
LEMMA LastOf ==
  ASSUME NEW L \in Seq(Entry), NEW e \in Entry
  PROVE  /\ Append(L, e) \in Seq(Entry)
         /\ Len(L) \in Nat /\ Len(Append(L, e)) = Len(L) + 1
         /\ Append(L, e)[Len(L) + 1] = e
BY AppendProperties, LenProperties

-----------------------------------------------------------------------------
(* The steps that change no more than a request.                           *)

LEMMA IdleFields ==
  /\ Idle \in Request
  /\ Idle.stage = "idle" /\ Idle.since = {}
BY DEF Idle, Request, Stages, Protected, Need

\* A request that is not inside the store goes on, or ends.
LEMMA RequestChanges ==
  ASSUME ServiceInv, UNCHANGED <<vars, now, main, builtAt, revoked, handed, answered>>,
         NEW r \in Requests, NEW d \in Request, req' = [req EXCEPT ![r] = d],
         req[r].stage # "append", d.stage # "append",
         d.stage # "idle" => main = "on",
         d.since \subseteq answered,
         d.stage = "check" => d.token \in Capabilities /\ builtAt < d.token.expires
  PROVE  ServiceInv'
<1>0. /\ now' = now /\ main' = main /\ builtAt' = builtAt /\ revoked' = revoked
      /\ handed' = handed /\ answered' = answered
      /\ phase' = phase /\ log' = log /\ disk' = disk /\ acked' = acked
      /\ req \in [Requests -> Request]
  BY DEF vars, ServiceInv, ServiceTypeOK
<1>1. StoreFacts'
  BY NextStoreFacts DEF ServiceInv
<1>2. \A q \in Requests : req'[q] = IF q = r THEN d ELSE req[q]
  BY <1>0
<1>3. ServiceTypeOK'
  <2>1. req' \in [Requests -> Request]
    BY <1>0
  <2>2. QED
    BY <1>0, <1>1, <2>1 DEF ServiceInv, ServiceTypeOK, StoreFacts
<1>4. AppenderIsLast'
  <2>1. \A q \in Requests : req'[q].stage = "append" <=> req[q].stage = "append"
    BY <1>2
  <2>2. phase' \in Appending <=> \E q \in Requests : req'[q].stage = "append"
    BY <1>0, <2>1, Zenon DEF ServiceInv, AppenderIsLast
  <2>3. \A p, q \in Requests : req'[p].stage = "append" /\ req'[q].stage = "append" => p = q
    BY <2>1 DEF ServiceInv, AppenderIsLast
  <2>4. ASSUME NEW q \in Requests, req'[q].stage = "append"
        PROVE  req'[q] = req[q] /\ req[q].stage = "append"
    BY <1>2, <2>4
  <2>5. QED
    BY <1>0, <2>2, <2>3, <2>4 DEF ServiceInv, AppenderIsLast
<1>5. MainIsAfterStore'
  BY <1>0, <1>2 DEF ServiceInv, MainIsAfterStore
<1>6. RevokedInLog' /\ AnsweredIsAcked'
  BY <1>0 DEF ServiceInv, RevokedInLog, AnsweredIsAcked, RevocationIn, Readable
<1>7. ChecksAreInTime'
  BY <1>0, <1>2 DEF ServiceInv, ChecksAreInTime
<1>8. QED
  BY <1>1, <1>3, <1>4, <1>5, <1>6, <1>7 DEF ServiceInv

LEMMA ArriveKeeps ==
  ASSUME ServiceInv, NEW r \in Requests, NEW route \in Routes,
         NEW token \in handed \cup {Bootstrap}, Arrive(r, route, token)
  PROVE  ServiceInv'
<1>0. handed \subseteq Capabilities /\ answered \subseteq Ids
  BY DEF ServiceInv, ServiceTypeOK
<1>1. PICK d : d = [Idle EXCEPT !.stage = "verify", !.route = route,
                                !.token = token, !.since = answered]
  OBVIOUS
<1>2. d \in Request /\ d.stage = "verify" /\ d.since = answered
  BY <1>0, <1>1, IdleFields DEF Arrive, Request, Stages
<1>3. /\ req' = [req EXCEPT ![r] = d] /\ req[r].stage = "idle" /\ main = "on"
      /\ UNCHANGED <<vars, now, main, builtAt, revoked, handed, answered>>
  BY <1>1 DEF Arrive
<1>4. QED
  BY <1>2, <1>3, RequestChanges

\* One of the steps of the middleware, or the answer of a handler.
LEMMA MiddlewareKeeps ==
  ASSUME ServiceInv, NEW r \in Requests,
         AdmitBootstrap(r) \/ Verify(r) \/ CheckRevoked(r) \/ Answer(r)
  PROVE  ServiceInv'
<1>0. /\ req[r] \in Request /\ req[r].since \subseteq answered
      /\ UNCHANGED <<vars, now, main, builtAt, revoked, handed, answered>>
      /\ req[r].stage \notin {"append", "idle"} /\ main = "on" /\ builtAt < now
  BY DEF ServiceInv, ServiceTypeOK, ChecksAreInTime, MainIsAfterStore,
         AdmitBootstrap, Verify, CheckRevoked, Answer
<1>1. ASSUME req' = [req EXCEPT ![r] = Idle]
      PROVE  ServiceInv'
  BY <1>0, <1>1, IdleFields, RequestChanges
<1>2. ASSUME req' = [req EXCEPT ![r] = [req[r] EXCEPT !.stage = "inner"]]
      PROVE  ServiceInv'
  <2>1. PICK d : d = [req[r] EXCEPT !.stage = "inner"]
    OBVIOUS
  <2>2. d \in Request /\ d.stage = "inner" /\ d.since = req[r].since
    BY <1>0, <2>1 DEF Request, Stages
  <2>3. QED
    BY <1>0, <1>2, <2>1, <2>2, RequestChanges
<1>3. ASSUME req' = [req EXCEPT ![r] = [req[r] EXCEPT !.stage = "check"]],
             req[r].token \in Capabilities, now <= req[r].token.expires
      PROVE  ServiceInv'
  <2>1. PICK d : d = [req[r] EXCEPT !.stage = "check"]
    OBVIOUS
  <2>2. d \in Request /\ d.stage = "check" /\ d.since = req[r].since /\ d.token = req[r].token
    BY <1>0, <2>1 DEF Request, Stages
  <2>3. builtAt < req[r].token.expires
    <3>1. builtAt \in Nat /\ now \in Nat /\ req[r].token.expires \in Nat
      BY <1>3, CapabilityFields, TimeAssumption DEF ServiceInv, ServiceTypeOK
    <3>2. QED
      BY <1>0, <1>3, <3>1
  <2>4. QED
    BY <1>0, <1>3, <2>1, <2>2, <2>3, RequestChanges
<1>4. CASE AdmitBootstrap(r)
  BY <1>1, <1>2, <1>4 DEF AdmitBootstrap
<1>5. CASE Verify(r)
  BY <1>1, <1>3, <1>5 DEF Verify, VerifyCapability
<1>6. CASE CheckRevoked(r)
  BY <1>1, <1>2, <1>6 DEF CheckRevoked
<1>7. CASE Answer(r)
  BY <1>1, <1>7 DEF Answer
<1>8. QED
  BY <1>4, <1>5, <1>6, <1>7

-----------------------------------------------------------------------------
(* The clock, and the start of the server.                                 *)

\* What the server puts in the set when it starts is in the log.
LEMMA RevokedInFacts ==
  ASSUME NEW L \in Seq(Entry), NEW t
  PROVE  /\ RevokedIn(L, t) \subseteq Ids
         /\ \A i \in RevokedIn(L, t) : RevocationIn(L, i)
<1>1. ASSUME NEW k \in 1..Len(L), L[k].op = "capability-revoke"
      PROVE  L[k].id \in Ids /\ RevocationIn(L, L[k].id)
  <2>1. L[k] \in Entry
    BY ElementOfSeq
  <2>2. L[k] \in RevokeEntry
    BY <1>1, <2>1 DEF Entry, StashEntry, CollectionEntry, RelationEntry, NameEntry,
                      CapabilityEntry, RevokeEntry
  <2>3. QED
    BY <1>1, <2>2 DEF RevokeEntry, RevocationIn
<1>2. QED
  BY <1>1 DEF RevokedIn

LEMMA ClockKeeps ==
  ASSUME ServiceInv, Tick \/ BuildRevokedSet \/ ListenAndServe
  PROVE  ServiceInv'
<1>0. /\ UNCHANGED vars /\ req' = req /\ handed' = handed /\ answered' = answered
      /\ phase' = phase /\ log' = log /\ disk' = disk /\ acked' = acked
  BY DEF Tick, BuildRevokedSet, ListenAndServe, vars
<1>1. StoreFacts' /\ log \in Seq(Entry)
  BY <1>0, NextStoreFacts DEF ServiceInv, StoreFacts, TypeOK, Log
<1>2. /\ now \in 0..MaxTime /\ now' \in 0..MaxTime /\ now' >= now /\ builtAt' \in 0..MaxTime
      /\ main' \in {"off", "built", "on"}
      /\ BuildRevokedSet \/ revoked' = revoked
      /\ BuildRevokedSet \/ builtAt' = builtAt
  BY TimeAssumption
     DEF Tick, BuildRevokedSet, ListenAndServe, ServiceInv, ServiceTypeOK
<1>3. BuildRevokedSet => revoked' = RevokedIn(log, now) /\ phase = "ready" /\ main = "off"
  BY DEF BuildRevokedSet
<1>4. ServiceTypeOK'
  <2>1. revoked' \subseteq Ids
    BY <1>1, <1>2, <1>3, RevokedInFacts DEF ServiceInv, ServiceTypeOK
  <2>2. QED
    BY <1>0, <1>1, <1>2, <2>1 DEF ServiceInv, ServiceTypeOK, StoreFacts
<1>5. AppenderIsLast'
  BY <1>0 DEF ServiceInv, AppenderIsLast
<1>6. MainIsAfterStore'
  <2>1. builtAt \in Nat /\ now \in Nat /\ now' \in Nat
    BY <1>2, TimeAssumption DEF ServiceInv, ServiceTypeOK
  <2>2. CASE Tick
    BY <1>0, <1>2, <2>1, <2>2 DEF Tick, ServiceInv, MainIsAfterStore
  <2>3. CASE BuildRevokedSet
    BY <1>0, <2>3 DEF BuildRevokedSet, ServiceInv, MainIsAfterStore
  <2>4. CASE ListenAndServe
    BY <1>0, <2>4 DEF ListenAndServe, ServiceInv, MainIsAfterStore
  <2>5. QED
    BY <2>2, <2>3, <2>4
<1>7. RevokedInLog'
  <2>1. CASE BuildRevokedSet
    <3>1. log = IF disk = Absent THEN <<>> ELSE disk
      BY <1>3, <2>1 DEF ServiceInv, MainIsAfterStore
    <3>2. \A i \in revoked' : RevocationIn(log, i)
      BY <1>1, <1>3, <2>1, RevokedInFacts
    <3>3. QED
      BY <1>0, <3>1, <3>2 DEF RevokedInLog, RevocationIn, Readable
  <2>2. CASE revoked' = revoked
    BY <1>0, <2>2 DEF ServiceInv, RevokedInLog, RevocationIn, Readable
  <2>3. QED
    BY <1>2, <2>1, <2>2
<1>8. AnsweredIsAcked'
  BY <1>0 DEF ServiceInv, AnsweredIsAcked
<1>9. ChecksAreInTime'
  <2>1. ASSUME BuildRevokedSet, NEW r \in Requests
        PROVE  req[r].stage = "idle"
    BY <1>3, <2>1 DEF ServiceInv, MainIsAfterStore
  <2>2. QED
    BY <1>0, <1>2, <2>1 DEF ServiceInv, ChecksAreInTime
<1>10. QED
  BY <1>1, <1>4, <1>5, <1>6, <1>7, <1>8, <1>9 DEF ServiceInv
-----------------------------------------------------------------------------
(* The steps of an append.                                                 *)

\* A handler takes the mutex: e is its entry, d what it remembers.
Begins(r, e, d) ==
  /\ BeginAppend(e) /\ AppendCall
  /\ req' = [req EXCEPT ![r] = d]
  /\ main = "on" /\ d.stage = "append" /\ d.since \subseteq answered
  /\ \/ d.route \in {"login", "issue"} /\ d.token \in Capabilities
     \/ d.route = "revoke" /\ d.id \in Ids /\ e.op = "capability-revoke" /\ e.id = d.id
  /\ UNCHANGED <<now, main, builtAt, revoked, handed, answered>>

LEMMA HandlerBegins ==
  ASSUME ServiceTypeOK, MainIsAfterStore, ChecksAreInTime, NEW r \in Requests,
         Issue(r) \/ Login(r) \/ Revoke(r)
  PROVE  \E e \in Entry, d \in Request : Begins(r, e, d)
<1>0. /\ req[r] \in Request /\ req \in [Requests -> Request] /\ req[r].since \subseteq answered
      /\ now \in 0..MaxTime /\ (req[r].stage # "idle" => main = "on")
      /\ handed \subseteq Capabilities
  BY DEF ServiceTypeOK, MainIsAfterStore, ChecksAreInTime
<1>1. CASE Issue(r)
  <2>1. PICK g \in Grants, expires \in now..MaxTime : BeginIssue(r, g, expires)
    BY <1>1 DEF Issue
  <2>2. expires \in 0..(MaxTime + Lifetime)
    BY <1>0, TimeAssumption
  <2>3. PICK c \in Capabilities : c = SignCapability(g, expires)
    BY <2>2, SignedAreCapabilities
  <2>4. PICK e : e = [op |-> "capability", cap |-> c]
    OBVIOUS
  <2>5. e \in Entry
    BY <2>4 DEF Entry, CapabilityEntry
  <2>6. BeginAppend(e) /\ AppendCall
    BY <2>1, <2>3, <2>4 DEF BeginIssue, AppendCapability, AppendCall
  <2>7. PICK d : d = [[req[r] EXCEPT !.stage = "append"] EXCEPT !.token = c]
    OBVIOUS
  <2>8. /\ d \in Request /\ d.stage = "append" /\ d.token = c /\ d.since = req[r].since
        /\ d.route = req[r].route
    BY <1>0, <2>7 DEF Request, Stages
  <2>9. req' = [req EXCEPT ![r] = d]
    BY <1>0, <2>1, <2>3, <2>7 DEF BeginIssue
  <2>10. /\ req[r].route = "issue" /\ main = "on"
         /\ UNCHANGED <<now, main, builtAt, revoked, handed, answered>>
    BY <1>0, <1>1, <2>1 DEF Issue, BeginIssue
  <2>11. QED
    BY <1>0, <2>5, <2>6, <2>8, <2>9, <2>10 DEF Begins
<1>2. CASE Login(r)
  <2>1. PICK g \in Grants :
          /\ AppendCapability(SignCapability(g, now + Lifetime))
          /\ req' = [req EXCEPT ![r] = [Idle EXCEPT !.stage = "append", !.route = "login",
                                          !.token = SignCapability(g, now + Lifetime)]]
    BY <1>2 DEF Login
  <2>2. now + Lifetime \in 0..(MaxTime + Lifetime)
    BY <1>0, TimeAssumption
  <2>3. PICK c \in Capabilities : c = SignCapability(g, now + Lifetime)
    BY <2>2, SignedAreCapabilities
  <2>4. PICK e : e = [op |-> "capability", cap |-> c]
    OBVIOUS
  <2>5. e \in Entry
    BY <2>4 DEF Entry, CapabilityEntry
  <2>6. BeginAppend(e) /\ AppendCall
    BY <2>1, <2>3, <2>4 DEF AppendCapability, AppendCall
  <2>7. PICK d : d = [Idle EXCEPT !.stage = "append", !.route = "login", !.token = c]
    OBVIOUS
  <2>8. /\ d \in Request /\ d.stage = "append" /\ d.token = c /\ d.since = {}
        /\ d.route = "login"
    BY <2>7, IdleFields DEF Request, Stages
  <2>9. req' = [req EXCEPT ![r] = d]
    BY <2>1, <2>3, <2>7
  <2>10. main = "on" /\ UNCHANGED <<now, main, builtAt, revoked, handed, answered>>
    BY <1>2 DEF Login
  <2>11. QED
    BY <2>5, <2>6, <2>8, <2>9, <2>10 DEF Begins
<1>3. CASE Revoke(r)
  <2>1. PICK c \in handed :
          /\ AppendCapabilityRevoke(c.id)
          /\ req' = [req EXCEPT ![r].stage = "append", ![r].id = c.id]
    BY <1>3 DEF Revoke
  <2>2. PICK i \in Ids : i = c.id
    BY <1>0, CapabilityFields
  <2>3. PICK e : e = [op |-> "capability-revoke", id |-> i]
    OBVIOUS
  <2>4. e \in Entry /\ e.op = "capability-revoke" /\ e.id = i
    BY <2>3 DEF Entry, RevokeEntry
  <2>5. BeginAppend(e) /\ AppendCall
    BY <2>1, <2>2, <2>3 DEF AppendCapabilityRevoke, AppendCall
  <2>6. PICK d : d = [[req[r] EXCEPT !.stage = "append"] EXCEPT !.id = i]
    OBVIOUS
  <2>7. /\ d \in Request /\ d.stage = "append" /\ d.id = i /\ d.since = req[r].since
        /\ d.route = req[r].route
    BY <1>0, <2>6 DEF Request, Stages
  <2>8. req' = [req EXCEPT ![r] = d]
    BY <1>0, <2>1, <2>2, <2>6
  <2>9. /\ req[r].route = "revoke" /\ main = "on"
        /\ UNCHANGED <<now, main, builtAt, revoked, handed, answered>>
    BY <1>0, <1>3 DEF Revoke
  <2>10. QED
    BY <1>0, <2>4, <2>5, <2>7, <2>8, <2>9 DEF Begins
<1>4. QED
  BY <1>1, <1>2, <1>3

LEMMA BeginKeeps ==
  ASSUME ServiceInv, NEW r \in Requests, NEW e \in Entry, NEW d \in Request, Begins(r, e, d)
  PROVE  ServiceInv'
<1>0. /\ now' = now /\ main' = main /\ builtAt' = builtAt /\ revoked' = revoked
      /\ handed' = handed /\ answered' = answered /\ main = "on"
      /\ phase = "ready" /\ phase' = "saving" /\ log' = Append(log, e)
      /\ disk' = disk /\ acked' = acked
      /\ req \in [Requests -> Request] /\ req' = [req EXCEPT ![r] = d] /\ d.stage = "append"
      /\ log \in Seq(Entry)
  BY DEF Begins, BeginAppend, ServiceInv, ServiceTypeOK, TypeOK, Log
<1>1. StoreFacts'
  <2>1. [Next]_vars
    BY DEF Begins, Next
  <2>2. QED
    BY <2>1, NextStoreFacts DEF ServiceInv
<1>2. \A q \in Requests : req'[q] = IF q = r THEN d ELSE req[q]
  BY <1>0
<1>3. ServiceTypeOK'
  <2>1. req' \in [Requests -> Request]
    BY <1>0
  <2>2. QED
    BY <1>0, <1>1, <2>1 DEF ServiceInv, ServiceTypeOK, StoreFacts
<1>4. AppenderIsLast'
  <2>1. \A q \in Requests : req[q].stage # "append"
    BY <1>0, Zenon DEF ServiceInv, AppenderIsLast, Appending
  <2>2. \A q \in Requests : req'[q].stage = "append" <=> q = r
    BY <1>0, <1>2, <2>1
  <2>3. phase' \in Appending <=> \E q \in Requests : req'[q].stage = "append"
    BY <1>0, <2>2 DEF Appending
  <2>4. log'[Len(log')] = e
    BY <1>0, LastOf
  <2>5. \/ d.route \in {"login", "issue"} /\ d.token \in Capabilities
        \/ d.route = "revoke" /\ d.id \in Ids /\ e.op = "capability-revoke" /\ e.id = d.id
    BY DEF Begins
  <2>6. QED
    BY <1>2, <2>2, <2>3, <2>4, <2>5 DEF AppenderIsLast
<1>5. MainIsAfterStore'
  BY <1>0, <1>2 DEF ServiceInv, MainIsAfterStore, Appending
<1>6. RevokedInLog'
  <2>1. \A i : RevocationIn(log, i) => RevocationIn(log', i)
    BY <1>0, RevocationStays
  <2>2. QED
    BY <1>0, <2>1 DEF ServiceInv, RevokedInLog, RevocationIn, Readable
<1>7. AnsweredIsAcked'
  BY <1>0 DEF ServiceInv, AnsweredIsAcked
<1>8. ChecksAreInTime'
  BY <1>0, <1>2 DEF ServiceInv, ChecksAreInTime, Begins
<1>9. QED
  BY <1>1, <1>3, <1>4, <1>5, <1>6, <1>7, <1>8 DEF ServiceInv

\* An append returns to its handler.
LEMMA ReturnKeeps ==
  ASSUME ServiceInv, NEW r \in Requests, NEW ok \in BOOLEAN, Returned(r, ok),
         IF ok THEN Acknowledge ELSE OpenFails \/ WriteFails
  PROVE  ServiceInv'
<1>0. /\ now' = now /\ main' = main /\ builtAt' = builtAt
      /\ req[r].stage = "append" /\ req' = [req EXCEPT ![r] = Idle]
      /\ req \in [Requests -> Request]
      /\ main = "on"
  BY DEF Returned, ServiceInv, ServiceTypeOK, MainIsAfterStore
<1>1. phase' = "ready" /\ log' = log /\ disk' = disk /\ acked \subseteq acked'
  BY DEF Acknowledge, OpenFails, WriteFails
<1>2. StoreFacts'
  <2>1. [Next]_vars
    BY DEF Next, AppendStep
  <2>2. QED
    BY <2>1, NextStoreFacts DEF ServiceInv
<1>3. \A q \in Requests : req'[q] = IF q = r THEN Idle ELSE req[q]
  BY <1>0
<1>4. \/ req[r].route \in {"login", "issue"} /\ req[r].token \in Capabilities
      \/ /\ req[r].route = "revoke" /\ req[r].id \in Ids
         /\ log[Len(log)].op = "capability-revoke" /\ log[Len(log)].id = req[r].id
  BY <1>0 DEF ServiceInv, AppenderIsLast
<1>5. /\ handed' \subseteq handed \cup {req[r].token}
      /\ req[r].route = "revoke" => handed' = handed
  BY DEF Returned
<1>6. \/ revoked' = revoked /\ answered' = answered
      \/ /\ ok /\ req[r].route = "revoke"
         /\ revoked' = revoked \cup {req[r].id} /\ answered' = answered \cup {req[r].id}
  BY DEF Returned
<1>7. ServiceTypeOK'
  <2>1. req' \in [Requests -> Request]
    BY <1>0, IdleFields
  <2>2. handed' \subseteq Capabilities
    BY <1>4, <1>5 DEF ServiceInv, ServiceTypeOK
  <2>3. revoked' \subseteq Ids /\ answered' \subseteq Ids
    BY <1>4, <1>6 DEF ServiceInv, ServiceTypeOK
  <2>4. QED
    BY <1>0, <1>2, <2>1, <2>2, <2>3 DEF ServiceInv, ServiceTypeOK, StoreFacts
<1>8. AppenderIsLast'
  <2>1. \A q \in Requests : req'[q].stage # "append"
    BY <1>0, <1>3, IdleFields DEF ServiceInv, AppenderIsLast
  <2>2. QED
    BY <1>1, <2>1 DEF AppenderIsLast, Appending
<1>9. MainIsAfterStore'
  BY <1>0, <1>1, <1>3, IdleFields DEF ServiceInv, MainIsAfterStore
<1>10. ASSUME ok, req[r].route = "revoke"
       PROVE  \E a \in acked' : a[2].op = "capability-revoke" /\ a[2].id = req[r].id
  <2>1. <<Len(log), log[Len(log)]>> \in acked'
    BY <1>10 DEF Acknowledge
  <2>2. QED
    BY <1>4, <1>10, <2>1
<1>11. AnsweredIsAcked'
  BY <1>1, <1>6, <1>10 DEF ServiceInv, AnsweredIsAcked
<1>12. RevokedInLog'
  <2>1. ASSUME ok, req[r].route = "revoke"
        PROVE  RevocationIn(log, req[r].id) /\ (Readable => RevocationIn(disk, req[r].id))
    <3>1. PICK a \in acked' : a[2].op = "capability-revoke" /\ a[2].id = req[r].id
      BY <1>10, <2>1
    <3>2. a[1] \in 1..Len(log) /\ log[a[1]] = a[2]
      BY <1>1, <1>2 DEF StoreFacts, DurableInv, FileIsPrefix, Up
    <3>3. Readable => a[1] \in 1..Len(disk) /\ disk[a[1]] = a[2]
      BY <1>1, <1>2 DEF StoreFacts, DurableInv, AckedDurable, Readable
    <3>4. QED
      BY <3>1, <3>2, <3>3 DEF RevocationIn
  <2>2. \A i \in revoked' : RevocationIn(log, i) /\ (Readable => RevocationIn(disk, i))
    BY <1>6, <2>1 DEF ServiceInv, RevokedInLog
  <2>3. QED
    BY <1>1, <2>2 DEF RevokedInLog, RevocationIn, Readable
<1>13. ChecksAreInTime'
  <2>1. answered \subseteq answered'
    BY <1>6
  <2>2. QED
    BY <1>0, <1>3, <2>1, IdleFields DEF ServiceInv, ChecksAreInTime
<1>14. QED
  BY <1>2, <1>7, <1>8, <1>9, <1>11, <1>12, <1>13 DEF ServiceInv

\* The append goes on, or the store starts.
LEMMA ProceedKeeps ==
  ASSUME ServiceInv, AppendProceeds \/ Starting
  PROVE  ServiceInv'
<1> USE DEF Appending
<1>0. /\ now' = now /\ main' = main /\ builtAt' = builtAt /\ revoked' = revoked
      /\ handed' = handed /\ answered' = answered /\ req' = req
  BY DEF AppendProceeds, Starting, serviceVars
<1>1. StoreFacts'
  <2>1. [Next]_vars
    BY DEF AppendProceeds, Starting, Next, AppendStep, Lifecycle
  <2>2. QED
    BY <2>1, NextStoreFacts DEF ServiceInv
<1>2. acked' = acked
  BY DEF AppendProceeds, Starting, Truncate, WriteDone, Start, StartFails, Replay, Serve
<1>3. ServiceTypeOK'
  BY <1>0, <1>1 DEF ServiceInv, ServiceTypeOK, StoreFacts
<1>4. AnsweredIsAcked' /\ ChecksAreInTime'
  BY <1>0, <1>2 DEF ServiceInv, AnsweredIsAcked, ChecksAreInTime
<1>5. CASE AppendProceeds
  <2>1. /\ log' = log /\ disk' \in {log, Torn}
        /\ phase \in Appending /\ phase' \in Appending
    BY <1>5 DEF AppendProceeds, Truncate, WriteDone
  <2>2. AppenderIsLast'
    <3>1. \E r \in Requests : req[r].stage = "append"
      BY <2>1 DEF ServiceInv, AppenderIsLast
    <3>2. QED
      BY <1>0, <2>1, <3>1 DEF ServiceInv, AppenderIsLast
  <2>3. MainIsAfterStore'
    <3>1. PICK r \in Requests : req[r].stage = "append"
      BY <2>1 DEF ServiceInv, AppenderIsLast
    <3>2. main = "on"
      BY <3>1 DEF ServiceInv, MainIsAfterStore
    <3>3. QED
      BY <1>0, <2>1, <3>2 DEF ServiceInv, MainIsAfterStore
  <2>4. RevokedInLog'
    BY <1>0, <2>1 DEF ServiceInv, RevokedInLog, RevocationIn, Readable
  <2>5. QED
    BY <1>1, <1>3, <1>4, <2>2, <2>3, <2>4 DEF ServiceInv
<1>6. CASE Starting
  <2>1. /\ disk' = disk /\ phase \notin Appending \cup {"ready"} /\ phase' \notin Appending
        /\ phase' \in {"replay", "ready"} => log' = IF disk = Absent THEN <<>> ELSE disk
    <3>1. CASE Start
      BY <3>1 DEF Start
    <3>2. CASE StartFails
      BY <3>2 DEF StartFails
    <3>3. CASE Replay \/ Serve
      <4>1. /\ phase = "replay" /\ log' = log /\ disk' = disk /\ phase' \notin Appending
        BY <3>3 DEF Replay, Serve
      <4>2. main # "on"
        BY <4>1 DEF ServiceInv, MainIsAfterStore
      <4>3. QED
        BY <4>1, <4>2 DEF ServiceInv, MainIsAfterStore
    <3>4. QED
      BY <1>6, <3>1, <3>2, <3>3 DEF Starting
  <2>2. main = "off" /\ revoked = {}
    BY <2>1 DEF ServiceInv, ServiceTypeOK, MainIsAfterStore
  <2>3. AppenderIsLast'
    <3>1. \A r \in Requests : req[r].stage # "append"
      BY <2>1, Zenon DEF ServiceInv, AppenderIsLast
    <3>2. QED
      BY <1>0, <2>1, <3>1 DEF AppenderIsLast
  <2>4. MainIsAfterStore'
    BY <1>0, <2>1, <2>2 DEF ServiceInv, MainIsAfterStore
  <2>5. RevokedInLog'
    BY <1>0, <2>2 DEF RevokedInLog
  <2>6. QED
    BY <1>1, <1>3, <1>4, <2>3, <2>4, <2>5 DEF ServiceInv
<1>7. QED
  BY <1>5, <1>6

\* The process dies, and the requests with it.
LEMMA KillKeeps ==
  ASSUME ServiceInv, Killed
  PROVE  ServiceInv'
<1>0. /\ phase' = "down" /\ log' = <<>> /\ disk' = disk /\ acked' = acked
      /\ main' = "off" /\ builtAt' = 0 /\ revoked' = {}
      /\ req' = [r \in Requests |-> Idle]
      /\ now' = now /\ handed' = handed /\ answered' = answered
  BY DEF Killed, Crash
<1>1. StoreFacts'
  <2>1. [Next]_vars
    BY DEF Killed, Next, Lifecycle
  <2>2. QED
    BY <2>1, NextStoreFacts DEF ServiceInv
<1>2. \A r \in Requests : req'[r] = Idle
  BY <1>0
<1>3. ServiceTypeOK'
  <2>1. req' \in [Requests -> Request] /\ 0 \in 0..MaxTime
    BY <1>0, IdleFields, TimeAssumption
  <2>2. QED
    BY <1>0, <1>1, <2>1 DEF ServiceInv, ServiceTypeOK, StoreFacts
<1>4. AppenderIsLast' /\ MainIsAfterStore' /\ ChecksAreInTime'
  BY <1>0, <1>2, IdleFields DEF AppenderIsLast, MainIsAfterStore, ChecksAreInTime, Appending
<1>5. RevokedInLog' /\ AnsweredIsAcked'
  BY <1>0 DEF ServiceInv, RevokedInLog, AnsweredIsAcked
<1>6. QED
  BY <1>1, <1>3, <1>4, <1>5 DEF ServiceInv

LEMMA InitService == ServiceInit => ServiceInv
<1> SUFFICES ASSUME ServiceInit
             PROVE  ServiceInv
  OBVIOUS
<1>0. StoreFacts
  BY InitStoreFacts DEF ServiceInit
<1>1. \A r \in Requests : req[r] = Idle
  BY DEF ServiceInit
<1>2. ServiceTypeOK
  <2>1. req \in [Requests -> Request] /\ 0 \in 0..MaxTime
    BY IdleFields, TimeAssumption DEF ServiceInit
  <2>2. QED
    BY <1>0, <2>1 DEF ServiceInit, ServiceTypeOK, StoreFacts
<1>3. AppenderIsLast /\ MainIsAfterStore /\ ChecksAreInTime
  BY <1>1, IdleFields
     DEF ServiceInit, Init, AppenderIsLast, MainIsAfterStore, ChecksAreInTime, Appending
<1>4. RevokedInLog /\ AnsweredIsAcked
  BY DEF ServiceInit, RevokedInLog, AnsweredIsAcked
<1>5. QED
  BY <1>0, <1>2, <1>3, <1>4 DEF ServiceInv

LEMMA NextService == ServiceInv /\ [ServiceNext]_allVars => ServiceInv'
<1> SUFFICES ASSUME ServiceInv, [ServiceNext]_allVars
             PROVE  ServiceInv'
  OBVIOUS
<1>1. ASSUME NEW r \in Requests, Issue(r) \/ Login(r) \/ Revoke(r)
      PROVE  ServiceInv'
  <2>1. ServiceTypeOK /\ MainIsAfterStore /\ ChecksAreInTime
    BY DEF ServiceInv
  <2>2. PICK e \in Entry, d \in Request : Begins(r, e, d)
    BY <1>1, <2>1, HandlerBegins
  <2>3. QED
    BY <2>2, BeginKeeps
<1>2. CASE AppendReturns
  BY <1>2, ReturnKeeps DEF AppendReturns
<1>3. CASE UNCHANGED allVars
  <2>1. StoreFacts'
    BY <1>3, NextStoreFacts DEF ServiceInv, allVars
  <2>2. QED
    BY <1>3, <2>1
       DEF allVars, vars, serviceVars, ServiceInv, ServiceTypeOK, StoreFacts, AppenderIsLast,
           MainIsAfterStore, RevokedInLog, RevocationIn, Readable, AnsweredIsAcked, ChecksAreInTime
<1>4. QED
  BY <1>1, <1>2, <1>3, ClockKeeps, ArriveKeeps, MiddlewareKeeps, ProceedKeeps, KillKeeps
     DEF ServiceNext

\* The handlers use the store as its specification allows.
LEMMA StepsOfStore ==
  ASSUME ServiceInv, [ServiceNext]_allVars
  PROVE  [Next]_vars
<1>1. ASSUME NEW r \in Requests, Issue(r) \/ Login(r) \/ Revoke(r)
      PROVE  [Next]_vars
  <2>1. ServiceTypeOK /\ MainIsAfterStore /\ ChecksAreInTime
    BY DEF ServiceInv
  <2>2. \E e \in Entry, d \in Request : Begins(r, e, d)
    BY <1>1, <2>1, HandlerBegins
  <2>3. QED
    BY <2>2 DEF Begins, Next
<1>2. CASE AppendReturns \/ AppendProceeds
  BY <1>2 DEF AppendReturns, AppendProceeds, Next, AppendStep
<1>3. CASE Starting \/ Killed
  BY <1>3 DEF Starting, Killed, Next, Lifecycle
<1>4. CASE Tick \/ BuildRevokedSet \/ ListenAndServe \/ UNCHANGED allVars
  BY <1>4 DEF Tick, BuildRevokedSet, ListenAndServe, allVars
<1>5. ASSUME NEW r \in Requests, AdmitBootstrap(r) \/ Verify(r) \/ CheckRevoked(r) \/ Answer(r)
      PROVE  [Next]_vars
  BY <1>5 DEF AdmitBootstrap, Verify, CheckRevoked, Answer
<1>6. ASSUME NEW r \in Requests, NEW route, NEW token, Arrive(r, route, token)
      PROVE  [Next]_vars
  BY <1>6 DEF Arrive
<1>7. QED
  BY <1>1, <1>2, <1>3, <1>4, <1>5, <1>6 DEF ServiceNext

-----------------------------------------------------------------------------
(* What a revocation promises.                                             *)

\* The steps that touch neither the live set nor the history of answers.
SetStays == UNCHANGED <<main, builtAt, revoked, answered>>

\* A revocation that was answered is in the log of a store that serves.
LEMMA AnsweredInLog ==
  ASSUME ServiceInv, NEW i \in answered
  PROVE  /\ phase \in Up => RevocationIn(log, i)
         /\ disk # Torn => Readable /\ RevocationIn(disk, i)
<1>1. PICK a \in acked : a[2].op = "capability-revoke" /\ a[2].id = i
  BY DEF ServiceInv, AnsweredIsAcked
<1>2. phase \in Up => a[1] \in 1..Len(log) /\ log[a[1]] = a[2]
  BY DEF ServiceInv, StoreFacts, DurableInv, FileIsPrefix
<1>3. disk # Torn => Readable /\ a[1] \in 1..Len(disk) /\ disk[a[1]] = a[2]
  BY DEF ServiceInv, StoreFacts, DurableInv, AckedDurable
<1>4. QED
  BY <1>1, <1>2, <1>3 DEF RevocationIn

\* The log of a server that goes on keeps the capabilities it has.
LEMMA LogGrows ==
  ASSUME ServiceInv, [ServiceNext]_allVars, main # "off", main' # "off"
  PROVE  CapabilitiesIn(log) \subseteq CapabilitiesIn(log')
<1>1. [Next]_vars /\ log \in Seq(Entry)
  BY StepsOfStore DEF ServiceInv, StoreFacts, TypeOK, Log
<1>2. phase \in {"ready"} \cup Appending /\ phase' \in {"ready"} \cup Appending
  BY NextService DEF ServiceInv, MainIsAfterStore
<1>3. CASE AppendCall
  <2>1. \E e \in Entry : log' = Append(log, e)
    BY <1>3, AppendCallBegins DEF BeginAppend
  <2>2. QED
    BY <1>1, <2>1, CapabilitiesStay
<1>4. CASE AppendStep \/ UNCHANGED vars
  BY <1>4 DEF AppendStep, Truncate, OpenFails, WriteDone, WriteFails, Acknowledge, vars
<1>5. CASE Lifecycle
  BY <1>2, <1>5 DEF Lifecycle, Start, StartFails, Replay, Serve, Crash, Appending
<1>6. QED
  BY <1>1, <1>3, <1>4, <1>5 DEF Next

LEMMA AnsweredSticksStep ==
  ASSUME ServiceInv, AnsweredSticks, [ServiceNext]_allVars
  PROVE  AnsweredSticks'
<1>0. main # "off" /\ main' # "off" => CapabilitiesIn(log) \subseteq CapabilitiesIn(log')
  BY LogGrows
<1>1. CASE SetStays
  BY <1>0, <1>1 DEF SetStays, AnsweredSticks
<1>2. CASE Killed
  BY <1>2 DEF Killed, AnsweredSticks
<1>3. CASE ListenAndServe
  BY <1>0, <1>3 DEF ListenAndServe, AnsweredSticks
<1>4. CASE BuildRevokedSet
  <2>1. /\ phase \in Up /\ answered' = answered /\ builtAt' = now
        /\ revoked' = RevokedIn(log, now) /\ log' = log
    BY <1>4 DEF BuildRevokedSet, Up, vars
  <2>2. /\ log \in Seq(Entry) /\ now \in Nat /\ answered \subseteq Ids
    BY TimeAssumption DEF ServiceInv, ServiceTypeOK, TypeOK, Log
  <2>3. ASSUME NEW i \in answered, i \notin revoked'
        PROVE  \E c \in CapabilitiesIn(log') : c.id = i /\ c.expires <= builtAt'
    <3>1. RevocationIn(log, i)
      BY <2>1, AnsweredInLog
    <3>2. i \in Ids /\ i \notin RevokedIn(log, now)
      BY <2>1, <2>2, <2>3
    <3>3. QED
      BY <2>1, <2>2, <3>1, <3>2, SkippedHasExpired
  <2>4. QED
    BY <2>1, <2>3 DEF AnsweredSticks
<1>5. ASSUME NEW r \in Requests, NEW ok \in BOOLEAN, Returned(r, ok)
      PROVE  AnsweredSticks'
  <2>1. /\ main' = main /\ builtAt' = builtAt /\ revoked \subseteq revoked'
        /\ \A i \in answered' : i \in answered \/ i \in revoked'
    BY <1>5 DEF Returned
  <2>2. QED
    BY <1>0, <2>1 DEF AnsweredSticks
<1>6. QED
  BY <1>1, <1>2, <1>3, <1>4, <1>5
     DEF ServiceNext, SetStays, allVars, serviceVars, Tick, Starting, Arrive, AdmitBootstrap,
         Verify, CheckRevoked, Answer, Issue, BeginIssue, Login, Revoke, AppendReturns,
         AppendProceeds

\* A request goes on with the token it came with.
LEMMA TokensWereHandedStep ==
  ASSUME ServiceInv, TokensWereHanded, [ServiceNext]_allVars
  PROVE  TokensWereHanded'
<1> DEFINE Passing == {"verify", "check", "inner"}
<1>0. /\ req \in [Requests -> Request] /\ handed \subseteq handed'
      /\ "idle" \notin Passing /\ "append" \notin Passing
  BY DEF ServiceInv, ServiceTypeOK, ServiceNext, allVars, serviceVars, Tick, Starting,
         BuildRevokedSet, ListenAndServe, Killed, Arrive, AdmitBootstrap, Verify, CheckRevoked,
         Answer, Issue, BeginIssue, Login, Revoke, AppendReturns, Returned, AppendProceeds
<1>1. ASSUME NEW r \in Requests, NEW d, req' = [req EXCEPT ![r] = d],
             d.stage \in Passing => d.token \in handed' \cup {Bootstrap}
      PROVE  TokensWereHanded'
  BY <1>0, <1>1 DEF TokensWereHanded
<1>2. ASSUME NEW r \in Requests, req' = [req EXCEPT ![r] = Idle]
      PROVE  TokensWereHanded'
  BY <1>0, <1>1, <1>2, IdleFields
<1>3. ASSUME NEW r \in Requests, NEW x \in Passing, req[r].stage \in Passing,
             req' = [req EXCEPT ![r] = [req[r] EXCEPT !.stage = x]]
      PROVE  TokensWereHanded'
  <2>1. [req[r] EXCEPT !.stage = x].token = req[r].token
    BY <1>0 DEF Request
  <2>2. req[r].token \in handed' \cup {Bootstrap}
    BY <1>0, <1>3 DEF TokensWereHanded
  <2>3. QED
    BY <1>1, <1>3, <2>1, <2>2
<1>4. ASSUME NEW r \in Requests,
             AdmitBootstrap(r) \/ Verify(r) \/ CheckRevoked(r) \/ Answer(r)
      PROVE  TokensWereHanded'
  BY <1>2, <1>3, <1>4 DEF AdmitBootstrap, Verify, CheckRevoked, Answer
<1>5. ASSUME NEW r \in Requests, NEW ok, Returned(r, ok)
      PROVE  TokensWereHanded'
  BY <1>2, <1>5 DEF Returned
<1>6. ASSUME NEW r \in Requests, Issue(r) \/ Login(r) \/ Revoke(r)
      PROVE  TokensWereHanded'
  <2>1. ServiceTypeOK /\ MainIsAfterStore /\ ChecksAreInTime
    BY DEF ServiceInv
  <2>2. PICK e \in Entry, d \in Request : Begins(r, e, d)
    BY <1>6, <2>1, HandlerBegins
  <2>3. req' = [req EXCEPT ![r] = d] /\ d.stage = "append"
    BY <2>2 DEF Begins
  <2>4. QED
    BY <1>1, <2>3
<1>7. ASSUME NEW r \in Requests, NEW route, NEW token \in handed \cup {Bootstrap},
             Arrive(r, route, token)
      PROVE  TokensWereHanded'
  <2>1. PICK d : d = [Idle EXCEPT !.stage = "verify", !.route = route,
                                  !.token = token, !.since = answered]
    OBVIOUS
  <2>2. d.token = token
    BY <2>1 DEF Idle
  <2>3. req' = [req EXCEPT ![r] = d]
    BY <1>7, <2>1 DEF Arrive
  <2>4. QED
    BY <1>0, <1>1, <2>2, <2>3
<1>8. CASE Killed
  <2>1. \A r \in Requests : req'[r].stage = "idle"
    BY <1>8, IdleFields DEF Killed
  <2>2. QED
    BY <1>0, <2>1 DEF TokensWereHanded
<1>9. CASE UNCHANGED req
  BY <1>0, <1>9 DEF TokensWereHanded
<1>10. CASE AppendReturns
  BY <1>5, <1>10 DEF AppendReturns
<1>11. QED
  BY <1>4, <1>6, <1>7, <1>8, <1>9, <1>10
     DEF ServiceNext, allVars, serviceVars, Tick, Starting, BuildRevokedSet, ListenAndServe,
         AppendProceeds

\* If IDs are unshared, what is missing in the live set has expired.
LEMMA MissingHasExpired ==
  ASSUME ServiceInv, AnsweredSticks, IdsAreUnshared, main # "off",
         NEW i \in answered, i \notin revoked, NEW c \in Minted, c.id = i
  PROVE  c.expires <= builtAt
BY DEF AnsweredSticks, IdsAreUnshared, Minted

\* A request is admitted by the bootstrap token, or because its capability is not
\* in the set; its capability had not expired when the set was built.
LEMMA RefusedStep ==
  ASSUME ServiceInv, RefusalInv, IdsAreUnshared, RevokedIsRefused, [ServiceNext]_allVars
  PROVE  RevokedIsRefused'
<1>0. req \in [Requests -> Request]
  BY DEF ServiceInv, ServiceTypeOK
<1>1. ASSUME NEW r \in Requests, CheckRevoked(r), req'[r].stage = "inner"
      PROVE  req[r].token.id \notin req[r].since
  <2>1. req[r].stage = "check" /\ req[r].token.id \notin revoked
    BY <1>0, <1>1, IdleFields DEF CheckRevoked
  <2>2. /\ req[r].since \subseteq answered /\ main # "off"
        /\ req[r].token \in Capabilities /\ builtAt < req[r].token.expires
    BY <2>1 DEF ServiceInv, ChecksAreInTime, MainIsAfterStore
  <2>3. SUFFICES ASSUME req[r].token.id \in answered
                 PROVE  FALSE
    BY <2>2
  <2>4. req[r].token \in Minted
    BY <2>1, <2>2, TokensAssumption DEF RefusalInv, TokensWereHanded, Minted
  <2>5. req[r].token.expires <= builtAt
    BY <2>1, <2>2, <2>3, <2>4, MissingHasExpired DEF RefusalInv
  <2>6. req[r].token.expires \in Nat /\ builtAt \in Nat
    BY <2>2, CapabilityFields, TimeAssumption DEF ServiceInv, ServiceTypeOK
  <2>7. QED
    BY <2>2, <2>5, <2>6
<1>2. ASSUME NEW r \in Requests, CheckRevoked(r)
      PROVE  RevokedIsRefused'
  <2>1. /\ \A q \in Requests : q # r => req'[q] = req[q]
        /\ req'[r] = [req[r] EXCEPT !.stage = "inner"] \/ req'[r] = Idle
    BY <1>0, <1>2 DEF CheckRevoked
  <2>2. req[r] \in Request
    BY <1>0
  <2>3. req'[r].stage = "inner" =>
          req'[r].token = req[r].token /\ req'[r].since = req[r].since
    BY <2>1, <2>2, IdleFields DEF Request
  <2>4. QED
    BY <1>1, <1>2, <2>1, <2>3 DEF RevokedIsRefused
<1>3. ASSUME NEW r \in Requests, AdmitBootstrap(r)
      PROVE  RevokedIsRefused'
  <2>1. /\ \A q \in Requests : q # r => req'[q] = req[q]
        /\ req'[r] = [req[r] EXCEPT !.stage = "inner"] \/ req'[r] = Idle
        /\ req[r].token = Bootstrap
    BY <1>0, <1>3 DEF AdmitBootstrap
  <2>2. req[r] \in Request
    BY <1>0
  <2>3. req'[r].stage = "inner" => req'[r].token = Bootstrap
    BY <2>1, <2>2, IdleFields DEF Request
  <2>4. QED
    BY <2>1, <2>3, TokensAssumption DEF RevokedIsRefused
<1>4. ASSUME NEW r \in Requests, NEW d, req' = [req EXCEPT ![r] = d], d.stage # "inner"
      PROVE  RevokedIsRefused'
  BY <1>0, <1>4 DEF RevokedIsRefused
<1>5. ASSUME NEW r \in Requests, Verify(r)
      PROVE  RevokedIsRefused'
  <2>1. [req[r] EXCEPT !.stage = "check"].stage # "inner"
    BY <1>0 DEF Request
  <2>2. QED
    BY <1>4, <1>5, <2>1, IdleFields DEF Verify
<1>6. ASSUME NEW r \in Requests, NEW ok, Answer(r) \/ Returned(r, ok)
      PROVE  RevokedIsRefused'
  BY <1>4, <1>6, IdleFields DEF Answer, Returned
<1>7. ASSUME NEW r \in Requests, Issue(r) \/ Login(r) \/ Revoke(r)
      PROVE  RevokedIsRefused'
  <2>1. ServiceTypeOK /\ MainIsAfterStore /\ ChecksAreInTime
    BY DEF ServiceInv
  <2>2. PICK e \in Entry, d \in Request : Begins(r, e, d)
    BY <1>7, <2>1, HandlerBegins
  <2>3. req' = [req EXCEPT ![r] = d] /\ d.stage # "inner"
    BY <2>2 DEF Begins
  <2>4. QED
    BY <1>4, <2>3
<1>8. ASSUME NEW r \in Requests, NEW route, NEW token, Arrive(r, route, token)
      PROVE  RevokedIsRefused'
  <2>1. PICK d : d = [Idle EXCEPT !.stage = "verify", !.route = route,
                                  !.token = token, !.since = answered]
    OBVIOUS
  <2>2. d.stage # "inner"
    BY <2>1 DEF Idle
  <2>3. req' = [req EXCEPT ![r] = d]
    BY <1>8, <2>1 DEF Arrive
  <2>4. QED
    BY <1>4, <2>2, <2>3
<1>9. CASE Killed
  <2>1. \A r \in Requests : req'[r].stage # "inner"
    BY <1>9, IdleFields DEF Killed
  <2>2. QED
    BY <2>1 DEF RevokedIsRefused
<1>10. CASE UNCHANGED req
  BY <1>10 DEF RevokedIsRefused
<1>11. CASE AppendReturns
  BY <1>6, <1>11 DEF AppendReturns
<1>12. QED
  BY <1>2, <1>3, <1>5, <1>6, <1>7, <1>8, <1>9, <1>10, <1>11
     DEF ServiceNext, allVars, serviceVars, Tick, Starting, BuildRevokedSet, ListenAndServe,
         AppendProceeds

-----------------------------------------------------------------------------
(* The theorems.                                                           *)

\* The inductive invariant of the service holds in every reachable state, whatever
\* the number of requests, of capabilities and of ticks.
THEOREM ServiceInvariant == ServiceSpec => []ServiceInv
BY InitService, NextService, PTL DEF ServiceSpec

\* The variables of the service, and of its store, keep their types.
THEOREM ServiceTypes == ServiceSpec => []ServiceTypeOK
BY ServiceInvariant, PTL DEF ServiceInv

\* What this process refuses as revoked has its revocation in log.json, so that
\* the next process finds it there.
THEOREM RevokedAreLogged == ServiceSpec => []RevokedIsLogged
<1>1. ServiceInv => RevokedIsLogged
  BY DEF ServiceInv, RevokedInLog, RevocationIn, RevokedIsLogged
<1>2. QED
  BY <1>1, ServiceInvariant, PTL

\* The handlers, the middleware and the restarts of the server use the store as its
\* specification allows, so that every property of the store holds of it here.
THEOREM ServiceUsesStore == ServiceSpec => Spec
<1>1. ServiceInit => Init
  BY DEF ServiceInit
<1>2. ServiceInv /\ [ServiceNext]_allVars => [Next]_vars
  BY StepsOfStore
<1>3. QED
  BY <1>1, <1>2, ServiceInvariant, PTL DEF ServiceSpec, Spec

\* What the live set lacks has expired, whatever the IDs.
LEMMA RefusalInvariant == ServiceSpec => []RefusalInv
<1>1. ServiceInit => RefusalInv
  BY IdleFields DEF ServiceInit, RefusalInv, AnsweredSticks, TokensWereHanded
<1>2. ServiceInv /\ RefusalInv /\ [ServiceNext]_allVars => RefusalInv'
  BY AnsweredSticksStep, TokensWereHandedStep DEF RefusalInv
<1>3. QED
  BY <1>1, <1>2, ServiceInvariant, PTL DEF ServiceSpec

\* A request that comes after the revocation of its capability was answered is not
\* admitted, over crashes, restarts and failed saves, as long as no two
\* capabilities share an ID.
THEOREM RevokedAreRefused == ServiceSpec /\ []IdsAreUnshared => []RevokedIsRefused
<1>1. ServiceInit => RevokedIsRefused
  BY IdleFields DEF ServiceInit, RevokedIsRefused
<1>2. /\ ServiceInv /\ RefusalInv /\ IdsAreUnshared /\ RevokedIsRefused
      /\ [ServiceNext]_allVars
      => RevokedIsRefused'
  BY RefusedStep
<1>3. QED
  BY <1>1, <1>2, ServiceInvariant, RefusalInvariant, PTL DEF ServiceSpec

\* While the server serves, an answered revocation is in the live set, or what it
\* revoked has expired, as long as no two capabilities share an ID.
THEOREM RevocationsStick == ServiceSpec /\ []IdsAreUnshared => []RevocationSticks
<1>1. ServiceInv /\ RefusalInv /\ IdsAreUnshared => RevocationSticks
  <2> SUFFICES ASSUME ServiceInv, RefusalInv, IdsAreUnshared, main = "on", NEW i \in answered,
                      i \notin revoked, NEW c \in handed, c.id = i
               PROVE  c.expires < now
    BY DEF RevocationSticks
  <2>1. c \in Capabilities /\ builtAt < now /\ builtAt \in Nat /\ now \in Nat
    BY TimeAssumption DEF ServiceInv, ServiceTypeOK, MainIsAfterStore
  <2>2. c.expires <= builtAt /\ c.expires \in Nat
    BY <2>1, CapabilityFields, MissingHasExpired DEF RefusalInv, Minted
  <2>3. QED
    BY <2>1, <2>2
<1>2. QED
  BY <1>1, ServiceInvariant, RefusalInvariant, PTL

\* The capabilities that the route /capabilities lists are in the log.
LEMMA ListedAreLogged ==
  ASSUME ServiceInv, ProjectionInv, main = "on",
         NEW id \in Ids \cup {NoToken}, NEW p \in Principals \cup {NoToken},
         NEW e \in CapabilityList(id, p)
  PROVE  e.cap \in CapabilitiesIn(log) /\ (e.cap.id \in revoked => e.revoked)
<1>1. CapabilitiesFrom(capabilityIndex, log, indexed) /\ indexed \subseteq 1..Len(log)
  BY DEF ServiceInv, StoreFacts, IndexInv, IndexedCoversAcked, MainIsAfterStore, ProjectionInv, Up
<1>2. Issues(log, indexed) \subseteq {k \in 1..Len(log) : log[k].op = "capability"}
  BY <1>1 DEF Issues
<1>3. ASSUME NEW P \in SUBSET Issues(log, indexed), NEW s, InOrder(s, [i \in P |-> log[i].cap]),
             s \in Seq(Capabilities), NEW k \in DOMAIN s
      PROVE  s[k] \in CapabilitiesIn(log)
  <2> DEFINE f == [i \in P |-> log[i].cap]
  <2>1. k \in 1..Len(s)
    BY <1>3, LenProperties
  <2>2. \E at \in [1..Len(s) -> DOMAIN f] : s[k] = f[at[k]]
    BY <1>3, <2>1 DEF InOrder
  <2>3. \E i \in P : s[k] = log[i].cap
    BY <2>1, <2>2
  <2>4. QED
    BY <1>2, <2>3 DEF CapabilitiesIn
<1>4. \A i \in Ids : capabilityIndex.byID[i] \in CapabilitiesIn(log) \cup {NoCapability}
  BY <1>1, <1>2 DEF CapabilitiesFrom, IsCapabilityOf, IssuesOf, Issues, CapabilitiesIn
<1>5. /\ capabilityIndex.all \in Seq(Capabilities)
      /\ \A q \in Principals : capabilityIndex.byPrincipal[q] \in Seq(Capabilities)
  BY DEF ServiceInv, ServiceTypeOK, TypeOK, IndexTypeOK
<1>6. \A k \in DOMAIN capabilityIndex.all : capabilityIndex.all[k] \in CapabilitiesIn(log)
  BY <1>1, <1>3, <1>5 DEF CapabilitiesFrom
<1>7. \A q \in Principals : \A k \in DOMAIN capabilityIndex.byPrincipal[q] :
        capabilityIndex.byPrincipal[q][k] \in CapabilitiesIn(log)
  <2> SUFFICES ASSUME NEW q \in Principals, NEW k \in DOMAIN capabilityIndex.byPrincipal[q]
               PROVE  capabilityIndex.byPrincipal[q][k] \in CapabilitiesIn(log)
    OBVIOUS
  <2>1. IssuesTo(log, indexed, q) \in SUBSET Issues(log, indexed)
    BY DEF IssuesTo, Issues
  <2>2. InOrder(capabilityIndex.byPrincipal[q], [i \in IssuesTo(log, indexed, q) |-> log[i].cap])
    BY <1>1 DEF CapabilitiesFrom
  <2>3. QED
    BY <1>3, <1>5, <2>1, <2>2
<1>8. PICK c \in CapabilitiesIn(log) : e = [cap |-> c, revoked |-> c.id \in revoked]
  BY <1>4, <1>6, <1>7 DEF CapabilityList
<1>9. e.cap = c /\ e.revoked = (c.id \in revoked)
  BY <1>8, Zenon
<1>10. QED
  BY <1>9

\* No listing shows a capability as good whose revocation was answered, at
\* whatever earlier time the command line built its set, as long as no two
\* capabilities share an ID.
THEOREM RevokedAreNotListed == ServiceSpec /\ []IdsAreUnshared => []RevokedNeverListedActive
<1>1. ASSUME ServiceInv, ProjectionInv, AnsweredSticks, IdsAreUnshared,
             NEW i \in answered, main = "on", NEW p \in Principals \cup {NoToken},
             NEW e \in CapabilityList(i, p) \cup CapabilityList(NoToken, p), e.cap.id = i
      PROVE  e.revoked \/ e.cap.expires < now
  <2>1. i \in Ids /\ builtAt < now /\ builtAt \in Nat /\ now \in Nat /\ log \in Seq(Entry)
    BY <1>1, TimeAssumption
       DEF ServiceInv, ServiceTypeOK, MainIsAfterStore, TypeOK, Log
  <2>2. e.cap \in CapabilitiesIn(log) /\ (e.cap.id \in revoked => e.revoked)
    BY <1>1, <2>1, ListedAreLogged
  <2>3. CASE i \in revoked
    BY <1>1, <2>2, <2>3
  <2>4. CASE i \notin revoked
    <3>1. e.cap.expires <= builtAt
      BY <1>1, <2>2, <2>4, MissingHasExpired DEF Minted
    <3>2. e.cap.expires \in Nat
      BY <2>1, <2>2, LoggedAreCapabilities, CapabilityFields
    <3>3. QED
      BY <2>1, <3>1, <3>2
  <2>5. QED
    BY <2>3, <2>4
<1>2. ASSUME ServiceInv, IdsAreUnshared, NEW i \in answered, Readable,
             NEW k \in Issuances(disk, i), NEW t \in 0..(now - 1)
      PROVE  CapabilityStatus(disk[k].cap, RevokedIn(disk, t), now) # "active"
  <2>1. disk \in Seq(Entry) /\ now \in Nat /\ i \in Ids /\ RevocationIn(disk, i)
    BY <1>2, AnsweredInLog, TimeAssumption
       DEF ServiceInv, ServiceTypeOK, TypeOK, Log, Readable
  <2>2. t \in Nat /\ t < now
    BY <2>1
  <2>3. disk[k].cap.id = i /\ disk[k].cap \in CapabilitiesIn(disk)
    BY DEF Issuances, CapabilitiesIn
  <2>4. disk[k].cap.expires \in Nat
    BY <2>1, <2>3, LoggedAreCapabilities, CapabilityFields
  <2>5. CASE i \in RevokedIn(disk, t)
    BY <2>3, <2>5 DEF CapabilityStatus
  <2>6. CASE i \notin RevokedIn(disk, t)
    <3>1. PICK c \in CapabilitiesIn(disk) : c.id = i /\ c.expires <= t
      BY <2>1, <2>2, <2>6, SkippedHasExpired
    <3>2. c = disk[k].cap
      BY <1>2, <2>3, <3>1 DEF IdsAreUnshared, Minted
    <3>3. disk[k].cap.expires < now
      BY <2>1, <2>2, <2>4, <3>1, <3>2
    <3>4. QED
      BY <2>3, <2>6, <3>3 DEF CapabilityStatus
  <2>7. QED
    BY <2>5, <2>6
<1>3. ServiceInv /\ ProjectionInv /\ RefusalInv /\ IdsAreUnshared => RevokedNeverListedActive
  BY <1>1, <1>2 DEF RefusalInv, RevokedNeverListedActive
<1>4. QED
  BY <1>3, ServiceInvariant, ServiceUsesStore, ProjectionInvariant, RefusalInvariant, PTL

\* A server whose payloads expire at whole seconds never shares an ID: the ID then
\* says everything of its capability.
THEOREM WholeSecondsIdentify == TicksPerSecond = 1 => (ServiceSpec => []IdsAreUnshared)
<1>1. ASSUME TicksPerSecond = 1, NEW g \in Grants, NEW h \in Grants,
             NEW s \in 0..(MaxTime + Lifetime), NEW t \in 0..(MaxTime + Lifetime),
             CapabilityID(g, s) = CapabilityID(h, t)
      PROVE  SignCapability(g, s) = SignCapability(h, t)
  <2>1. s \in Nat /\ t \in Nat /\ s \div 1 = s /\ t \div 1 = t
    BY TimeAssumption
  <2>2. g.hash = h.hash /\ g.perm = h.perm /\ g.principal = h.principal /\ s = t
    BY <1>1, <2>1 DEF CapabilityID
  <2>3. QED
    BY <1>1, <2>2 DEF SignCapability
<1>2. TicksPerSecond = 1 => \A c, d \in Capabilities : c.id = d.id => c = d
  BY <1>1, CapabilitiesAssumption DEF Signed, SignCapability
<1>3. ServiceInv => Minted \subseteq Capabilities
  BY LoggedAreCapabilities DEF ServiceInv, ServiceTypeOK, TypeOK, Log, Readable, Minted
<1>4. ASSUME TicksPerSecond = 1
      PROVE  ServiceSpec => []IdsAreUnshared
  <2>1. ServiceInv => IdsAreUnshared
    BY <1>2, <1>3, <1>4 DEF IdsAreUnshared
  <2>2. QED
    BY <2>1, ServiceInvariant, PTL
<1>5. QED
  BY <1>4
=============================================================================
