------------------------ MODULE WriteHandlersProofs ------------------------
(***************************************************************************)
(* Proofs about WriteHandlers, for any number of requests at once.  What   *)
(* is known of the store (MetadataStoreProofs) is known of it here too:    *)
(* every step of a handler is a step of the store or leaves it alone.      *)
(***************************************************************************)
EXTENDS WriteHandlers, MetadataStoreProofs

\* No log outgrows the bound.
LogBounded == Len(log) <= MaxLog /\ (Readable => Len(disk) <= MaxLog)

\* The mutex has one holder.
OneInside ==
  \A q, r \in Requests : call[q].stage \in Inside /\ call[r].stage \in Inside => q = r

\* The tries of a name are made by name requests, the rest by creations.
CallsMatch ==
  \A r \in Requests :
    /\ call[r].stage \in {"create", "creating", "update", "updating"} =>
         call[r].kind = "name" /\ call[r].label \in Labels
    /\ call[r].stage \in {"entry", "entering", "sign", "signing"} => call[r].kind \in Creations

\* The log is as long as it was when a request arrived, or longer.
FloorsAreReached == \A r \in Requests : call[r].floor <= Len(log)

\* e is what the append puts in the log that a handler in c is in or asks for.
EntryOf(c, e) ==
  /\ c.stage \in {"entry", "entering"} => e.op \in Creations /\ e.hash = c.hash
  /\ c.stage \in {"sign", "signing"} => e.op = "capability" /\ e.cap.hash = c.hash
  /\ c.stage \in {"create", "creating", "update", "updating"} => IsName(e) /\ e.label = c.label

\* The entry of the holder of the mutex is the last of the log, and came since the
\* request did.
InsideIsLast ==
  \A r \in Requests : call[r].stage \in Inside =>
    /\ EntryOf(call[r], log[Len(log)])
    /\ call[r].floor < Len(log)

\* An object is in the log when its capability is asked for.
RecordedIn(L, h) == \E j \in 1..Len(L) : L[j].op \in Creations /\ L[j].hash = h

SignedIsRecorded ==
  \A r \in Requests : call[r].stage = "sign" => RecordedIn(log, call[r].hash)

\* A name request makes its second try because the name exists, or because its
\* first append failed.
UpdatesAreNamed ==
  \A r \in Requests : call[r].stage = "update" =>
    call[r].failed \/ nameIndex[call[r].label] # NoHash

\* What was promised of a name is an acknowledged entry.
SettledIsAcked ==
  \A l \in Labels : settled[l] > 0 =>
    \E a \in acked : a[1] >= settled[l] /\ IsName(a[2]) /\ a[2].label = l

\* The inductive invariant of the writing handlers.
HandlersInv ==
  /\ StoreFacts
  /\ LogBounded
  /\ HandlersTypeOK
  /\ OneInside
  /\ CallsMatch
  /\ FloorsAreReached
  /\ InsideIsLast
  /\ SignedIsRecorded
  /\ UpdatesAreNamed
  /\ ErrorsAreOwn
  /\ SettledIsAcked
  /\ CapabilityFollowsObject
-----------------------------------------------------------------------------
(* What a handler's record says after each change.                         *)

LEMMA NoCallFields ==
  /\ NoCall \in Call
  /\ NoCall.stage = "idle" /\ NoCall.floor = 0 /\ NoCall.kind = "name"
  /\ ~NoCall.failed /\ ~NoCall.refused
<1>1. (CHOOSE h \in Hashes : TRUE) \in Hashes
  BY HashesAssumption
<1>2. 0 \in 0..MaxLog
  BY MaxLogAssumption
<1>3. QED
  BY <1>1, <1>2 DEF NoCall, Call, Stages

LEMMA RefusalFields ==
  ASSUME NEW c \in Call
  PROVE  /\ Refusal(c) \in Call
         /\ Refusal(c).stage = "idle" /\ Refusal(c).floor = 0
         /\ Refusal(c).refused /\ Refusal(c).failed = c.failed
BY NoCallFields DEF Refusal, Call

\* What a handler is like when its append has returned.
LEMMA ReturnedFields ==
  ASSUME NEW c \in Call, c.stage \in Inside, c.refused => c.failed, NEW ok \in BOOLEAN,
         NEW b, b = [c EXCEPT !.failed = @ \/ ~ok], NEW d, d = Outcome(b, ok)
  PROVE  /\ b.stage = c.stage /\ b.kind = c.kind /\ b.label = c.label /\ b.floor = c.floor
         /\ d \in Call
         /\ d.stage \in {"idle", "sign", "update"}
         /\ d.stage = "sign" => c.stage = "entering" /\ d.hash = c.hash /\ d.kind = c.kind
         /\ d.stage = "update" =>
              c.stage = "creating" /\ d.failed /\ d.label = c.label /\ d.kind = c.kind
         /\ d.floor \in {0, c.floor}
         /\ d.refused => d.failed
         /\ c.stage \in {"creating", "updating"} /\ d = NoCall => ok
<1>1. /\ b \in Call /\ b.stage = c.stage /\ b.hash = c.hash /\ b.kind = c.kind
      /\ b.label = c.label /\ b.floor = c.floor /\ (b.refused <=> c.refused)
      /\ (b.failed <=> c.failed \/ ~ok)
  BY DEF Call
<1>2. "sign" \in Stages /\ "update" \in Stages
  BY DEF Stages
<1>3. CASE c.stage = "entering"
  <2>1. d = [b EXCEPT !.stage = "sign"]
    BY <1>1, <1>3 DEF Outcome
  <2>2. /\ d \in Call /\ d.stage = "sign" /\ d.hash = b.hash /\ d.kind = b.kind
        /\ d.floor = b.floor /\ d.failed = b.failed /\ d.refused = b.refused
    BY <1>1, <1>2, <2>1 DEF Call
  <2>3. QED
    BY <1>1, <1>3, <2>2
<1>4. CASE c.stage = "creating" /\ ~ok
  <2>1. d = [b EXCEPT !.stage = "update"]
    BY <1>1, <1>4 DEF Outcome
  <2>2. /\ d \in Call /\ d.stage = "update" /\ d.label = b.label /\ d.kind = b.kind
        /\ d.floor = b.floor /\ d.failed = b.failed /\ d.refused = b.refused
    BY <1>1, <1>2, <2>1 DEF Call
  <2>3. d # NoCall
    BY <2>2, NoCallFields
  <2>4. QED
    BY <1>1, <1>4, <2>2, <2>3
<1>5. CASE c.stage = "updating" /\ ~ok
  <2>1. d = Refusal(b)
    BY <1>1, <1>5 DEF Outcome
  <2>2. d # NoCall
    BY <1>1, <2>1, RefusalFields, NoCallFields
  <2>3. QED
    BY <1>1, <1>5, <2>1, <2>2, RefusalFields
<1>6. CASE c.stage # "entering" /\ ~(c.stage \in {"creating", "updating"} /\ ~ok)
  <2>1. d = NoCall
    BY <1>1, <1>6 DEF Outcome
  <2>2. QED
    BY <1>1, <1>6, <2>1, NoCallFields
<1>7. QED
  BY <1>3, <1>4, <1>5, <1>6

-----------------------------------------------------------------------------
(* The steps of the handlers, as steps of the store.                       *)

\* A handler takes the mutex and its entry is in the log.
Begins(r, e) ==
  /\ BeginAppend(e) /\ EntryOf(call[r], e) /\ AppendCall
  /\ \E s \in Inside :
       /\ <<call[r].stage, s>> \in {<<"entry", "entering">>, <<"sign", "signing">>,
                                    <<"create", "creating">>, <<"update", "updating">>}
       /\ call' = [call EXCEPT ![r].stage = s]
  /\ UNCHANGED settled

\* The first try finds that the name exists.
TriesUpdate(r) ==
  /\ call[r].stage = "create" /\ nameIndex[call[r].label] # NoHash
  /\ call' = [call EXCEPT ![r].stage = "update"]
  /\ UNCHANGED <<vars, settled>>

\* The second finds that it does not.
IsRefused(r) ==
  /\ call[r].stage = "update" /\ nameIndex[call[r].label] = NoHash
  /\ call' = [call EXCEPT ![r] = Refusal(call[r])]
  /\ UNCHANGED <<vars, settled>>

LEMMA HandleSteps ==
  ASSUME HandlersTypeOK, CallsMatch, NEW r \in Requests, Handle(r)
  PROVE  (\E e \in Entry : Begins(r, e)) \/ TriesUpdate(r) \/ IsRefused(r)
<1> USE DEF Inside
<1>0. call[r] \in Call /\ call[r].hash \in Hashes
  BY DEF HandlersTypeOK, Call
<1>1. CASE RecordStash(r)
  <2>1. PICK d \in Days : AppendStash(call[r].hash, d)
    BY <1>1 DEF RecordStash
  <2> DEFINE e == [op |-> "stash", hash |-> call[r].hash, tags |-> TagsOf[call[r].hash], day |-> d]
  <2>2. e \in Entry /\ e.op = "stash" /\ e.hash = call[r].hash
    BY <1>0, TagsOfAssumption DEF Entry, StashEntry
  <2>3. BeginAppend(e) /\ AppendCall
    BY <1>0, <2>1 DEF AppendStash, AppendCall
  <2> HIDE DEF e
  <2>4. QED
    BY <1>1, <2>2, <2>3 DEF RecordStash, Enter, Begins, EntryOf, Creations
<1>2. CASE RecordCollection(r)
  <2> DEFINE e == [op |-> "collection", hash |-> call[r].hash]
  <2>1. e \in Entry /\ e.op = "collection" /\ e.hash = call[r].hash
    BY <1>0 DEF Entry, CollectionEntry
  <2>2. BeginAppend(e) /\ AppendCall
    BY <1>0, <1>2 DEF RecordCollection, AppendCollection, AppendCall
  <2> HIDE DEF e
  <2>3. QED
    BY <1>2, <2>1, <2>2 DEF RecordCollection, Enter, Begins, EntryOf, Creations
<1>3. CASE RecordRelation(r)
  <2>1. PICK from \in Hashes, to \in Hashes, rel \in Rels :
          AppendRelation(call[r].hash, from, rel, to)
    BY <1>3 DEF RecordRelation
  <2> DEFINE e == [op |-> "relation", hash |-> call[r].hash, from |-> from, rel |-> rel, to |-> to]
  <2>2. e \in Entry /\ e.op = "relation" /\ e.hash = call[r].hash
    BY <1>0 DEF Entry, RelationEntry
  <2>3. BeginAppend(e) /\ AppendCall
    BY <1>0, <2>1 DEF AppendRelation, AppendCall
  <2> HIDE DEF e
  <2>4. QED
    BY <1>3, <2>2, <2>3 DEF RecordRelation, Enter, Begins, EntryOf, Creations
<1>4. CASE Sign(r)
  <2>1. PICK c \in Capabilities : c.hash = call[r].hash /\ AppendCapability(c)
    BY <1>4 DEF Sign
  <2> DEFINE e == [op |-> "capability", cap |-> c]
  <2>2. e \in Entry /\ e.op = "capability" /\ e.cap.hash = call[r].hash
    BY <2>1 DEF Entry, CapabilityEntry
  <2>3. BeginAppend(e) /\ AppendCall
    BY <2>1 DEF AppendCapability, AppendCall
  <2> HIDE DEF e
  <2>4. QED
    BY <1>4, <2>2, <2>3 DEF Sign, Begins, EntryOf
<1>5. CASE Create(r)
  <2>1. call[r].label \in Labels
    BY <1>5 DEF Create, CallsMatch
  <2> DEFINE e == [op |-> "name-create", label |-> call[r].label, hash |-> call[r].hash]
  <2>2. e \in Entry /\ IsName(e) /\ e.label = call[r].label
    BY <1>0, <2>1 DEF Entry, NameEntry, IsName
  <2>3. CASE AppendNameCreate(call[r].label, call[r].hash)
             /\ call' = [call EXCEPT ![r].stage = "creating"]
    <3>1. BeginAppend(e) /\ AppendCall
      BY <1>0, <2>1, <2>3 DEF AppendNameCreate, AppendCall
    <3> HIDE DEF e
    <3>2. QED
      BY <1>5, <2>2, <2>3, <3>1 DEF Create, Begins, EntryOf
  <2>4. QED
    BY <1>5, <2>3 DEF Create, TriesUpdate
<1>6. CASE Update(r)
  <2>1. call[r].label \in Labels
    BY <1>6 DEF Update, CallsMatch
  <2> DEFINE e == [op |-> "name-update", label |-> call[r].label, hash |-> call[r].hash]
  <2>2. e \in Entry /\ IsName(e) /\ e.label = call[r].label
    BY <1>0, <2>1 DEF Entry, NameEntry, IsName
  <2>3. CASE AppendNameUpdate(call[r].label, call[r].hash)
             /\ call' = [call EXCEPT ![r].stage = "updating"]
    <3>1. BeginAppend(e) /\ AppendCall
      BY <1>0, <2>1, <2>3 DEF AppendNameUpdate, AppendCall
    <3> HIDE DEF e
    <3>2. QED
      BY <1>6, <2>2, <2>3, <3>1 DEF Update, Begins, EntryOf
  <2>4. QED
    BY <1>6, <2>3 DEF Update, IsRefused
<1>7. QED
  BY <1>1, <1>2, <1>3, <1>4, <1>5, <1>6 DEF Handle

\* What the store does in a step of the handlers.
LEMMA StepsOfStore ==
  ASSUME HandlersTypeOK, CallsMatch, [HandlersNext]_allVars
  PROVE  [Next]_vars
<1>1. ASSUME NEW r \in Requests, Handle(r)
      PROVE  [Next]_vars
  BY <1>1, HandleSteps DEF Begins, TriesUpdate, IsRefused, Next
<1>2. ASSUME NEW r \in Requests,
             ArriveCreation(r) \/ ArriveName(r) \/ Unstashed(r) \/ AppendReturns(r)
      PROVE  [Next]_vars
  BY <1>2 DEF ArriveCreation, ArriveName, Arrive, Unstashed, AppendReturns, Next, AppendStep
<1>3. CASE AppendProceeds \/ Starting \/ Killed
  BY <1>3 DEF AppendProceeds, Starting, Killed, Next, AppendStep, Lifecycle
<1>4. CASE UNCHANGED allVars
  BY <1>4 DEF allVars
<1>5. QED
  BY <1>1, <1>2, <1>3, <1>4 DEF HandlersNext

-----------------------------------------------------------------------------
(* Objects and their capabilities in a log.                                *)

\* An object that is in a log is in every continuation of it.
LEMMA RecordedStays ==
  ASSUME NEW L \in Seq(Entry), NEW e \in Entry, NEW h, RecordedIn(L, h)
  PROVE  RecordedIn(Append(L, e), h)
<1> DEFINE M == Append(L, e)
<1>1. /\ Len(M) = Len(L) + 1 /\ Len(L) \in Nat
      /\ \A i \in 1..Len(L) : M[i] = L[i]
  BY AppendProperties, LenProperties
<1> HIDE DEF M
<1>2. RecordedIn(M, h)
  BY <1>1 DEF RecordedIn
<1>3. QED
  BY <1>2 DEF M

\* A capability may be put at the end of a log that has its object.
LEMMA AppendRecorded ==
  ASSUME NEW L \in Seq(Entry), NEW e \in Entry, RecordedFirst(L),
         e.op = "capability" => RecordedIn(L, e.cap.hash)
  PROVE  RecordedFirst(Append(L, e))
<1> DEFINE M == Append(L, e)
<1>1. /\ Len(M) = Len(L) + 1 /\ Len(L) \in Nat
      /\ \A i \in 1..Len(L) : M[i] = L[i]
      /\ M[Len(L) + 1] = e
  BY AppendProperties, LenProperties
<1> HIDE DEF M
<1>2. SUFFICES ASSUME NEW i \in 1..Len(M), M[i].op = "capability"
               PROVE  \E j \in 1..(i - 1) : M[j].op \in Creations /\ M[j].hash = M[i].cap.hash
  BY DEF RecordedFirst, M
<1>3. CASE i \in 1..Len(L)
  <2>1. PICK j \in 1..(i - 1) : L[j].op \in Creations /\ L[j].hash = L[i].cap.hash
    BY <1>1, <1>2, <1>3 DEF RecordedFirst
  <2>2. j \in 1..Len(L)
    BY <1>1, <1>3
  <2>3. QED
    BY <1>1, <1>3, <2>1, <2>2
<1>4. CASE i = Len(L) + 1
  BY <1>1, <1>2, <1>4 DEF RecordedIn
<1>5. QED
  BY <1>1, <1>3, <1>4

LEMMA EmptyRecorded == RecordedFirst(<<>>)
BY DEF RecordedFirst

-----------------------------------------------------------------------------
(* The steps that leave the store alone.                                   *)

\* A handler that is not inside the store goes on, or ends.
LEMMA CallChanges ==
  ASSUME HandlersInv, UNCHANGED <<vars, settled>>, NEW r \in Requests, NEW d \in Call,
         call' = [call EXCEPT ![r] = d],
         call[r].stage \notin Inside, d.stage \in {"idle", "entry", "create", "update"},
         d.stage \in {"create", "update"} => d.kind = "name" /\ d.label \in Labels,
         d.stage = "entry" => d.kind \in Creations,
         d.floor <= Len(log),
         d.stage = "update" => d.failed \/ nameIndex[d.label] # NoHash,
         d.refused => d.failed
  PROVE  HandlersInv'
<1> USE DEF Inside
<1>1. StoreFacts'
  BY NextStoreFacts DEF HandlersInv
<1>2. /\ phase' = phase /\ log' = log /\ disk' = disk /\ acked' = acked /\ settled' = settled
      /\ nameIndex' = nameIndex
  BY DEF vars, indexVars
<1>3. call \in [Requests -> Call]
  BY DEF HandlersInv, HandlersTypeOK
<1>4. \A q \in Requests : call'[q] = IF q = r THEN d ELSE call[q]
  BY <1>3
<1>5. \A q \in Requests : call'[q].stage \in Inside <=> call[q].stage \in Inside
  BY <1>4
<1>6. LogBounded'
  BY <1>2 DEF HandlersInv, LogBounded, Readable
<1>7. HandlersTypeOK'
  <2>1. call' \in [Requests -> Call]
    BY <1>3
  <2>2. phase' \in Appending <=> \E q \in Requests : call'[q].stage \in Inside
    BY <1>2, <1>5, Zenon DEF HandlersInv, HandlersTypeOK
  <2>3. settled' \in [Labels -> 0..(MaxLog + 1)] /\ TypeOK'
    BY <1>1, <1>2 DEF HandlersInv, HandlersTypeOK, StoreFacts
  <2>4. QED
    BY <2>1, <2>2, <2>3 DEF HandlersTypeOK
<1>8. OneInside'
  BY <1>5 DEF HandlersInv, OneInside
<1>9. CallsMatch' /\ FloorsAreReached'
  BY <1>2, <1>4 DEF HandlersInv, CallsMatch, FloorsAreReached
<1>10. InsideIsLast'
  BY <1>2, <1>4 DEF HandlersInv, InsideIsLast, EntryOf
<1>11. SignedIsRecorded'
  BY <1>2, <1>4 DEF HandlersInv, SignedIsRecorded, RecordedIn
<1>12. UpdatesAreNamed' /\ ErrorsAreOwn'
  BY <1>2, <1>4 DEF HandlersInv, UpdatesAreNamed, ErrorsAreOwn
<1>13. SettledIsAcked' /\ CapabilityFollowsObject'
  BY <1>2 DEF HandlersInv, SettledIsAcked, CapabilityFollowsObject, Readable, RecordedFirst, IsName
<1>14. QED
  BY <1>1, <1>6, <1>7, <1>8, <1>9, <1>10, <1>11, <1>12, <1>13 DEF HandlersInv

LEMMA ArriveKeeps ==
  ASSUME HandlersInv, NEW r \in Requests, ArriveCreation(r) \/ ArriveName(r) \/ Unstashed(r)
  PROVE  HandlersInv'
<1>0. /\ call[r] \in Call /\ TypeOK /\ LogBounded
      /\ Len(log) \in Nat
  BY LenProperties DEF HandlersInv, HandlersTypeOK, TypeOK, Log
<1>1. ASSUME NEW kind \in Creations \cup {"name"}, NEW l \in Labels \cup {NoLabel},
             NEW h \in Hashes, Arrive(r, kind, l, h), kind = "name" => l \in Labels
      PROVE  HandlersInv'
  <2> DEFINE s == IF kind = "name" THEN "create" ELSE "entry"
  <2>1. s \in Stages
    BY DEF Stages
  <2>2. PICK n \in 0..MaxLog : n = Len(log)
    BY <1>0, MaxLogAssumption DEF LogBounded
  <2> HIDE DEF s
  <2>3. PICK d : d = [NoCall EXCEPT !.stage = s, !.kind = kind, !.hash = h, !.label = l, !.floor = n]
    OBVIOUS
  <2>4. d \in Call /\ d.stage = s /\ d.kind = kind /\ d.label = l /\ d.floor = n
    BY <2>1, <2>3, NoCallFields DEF Call
  <2>5. d.refused => d.failed
    BY <2>1, <2>3, NoCallFields DEF Call
  <2>6. call' = [call EXCEPT ![r] = d] /\ call[r].stage = "idle" /\ UNCHANGED <<vars, settled>>
    BY <1>1, <2>2, <2>3 DEF Arrive, s
  <2>7. /\ d.stage \in {"idle", "entry", "create", "update"} /\ d.stage # "update"
        /\ d.stage \in {"create", "update"} => d.kind = "name" /\ d.label \in Labels
        /\ d.stage = "entry" => d.kind \in Creations
    BY <1>1, <2>4 DEF s
  <2>8. call[r].stage \notin Inside /\ d.floor <= Len(log)
    BY <1>0, <2>2, <2>4, <2>6 DEF Inside
  <2>9. QED
    BY <2>4, <2>5, <2>6, <2>7, <2>8, CallChanges
<1>2. CASE Unstashed(r)
  <2>1. PICK c : c = [NoCall EXCEPT !.failed = TRUE]
    OBVIOUS
  <2>2. c \in Call /\ c.failed
    BY <2>1, NoCallFields DEF Call
  <2>3. PICK d : d = Refusal(c)
    OBVIOUS
  <2>4. d \in Call /\ d.stage = "idle" /\ d.floor = 0 /\ (d.refused => d.failed)
    BY <2>2, <2>3, RefusalFields
  <2>5. call' = [call EXCEPT ![r] = d] /\ call[r].stage = "idle"
    BY <1>2, <2>1, <2>3 DEF Unstashed
  <2>6. UNCHANGED <<vars, settled>>
    BY <1>2 DEF Unstashed
  <2>7. d.floor <= Len(log)
    BY <1>0, <2>4
  <2>8. call[r].stage \notin Inside
    BY <2>5 DEF Inside
  <2>9. QED
    BY <2>4, <2>5, <2>6, <2>7, <2>8, CallChanges
<1>3. QED
  BY <1>1, <1>2 DEF ArriveCreation, ArriveName, Creations

LEMMA TriesKeep ==
  ASSUME HandlersInv, NEW r \in Requests, TriesUpdate(r) \/ IsRefused(r)
  PROVE  HandlersInv'
<1>0. /\ call[r] \in Call /\ call[r].floor <= Len(log) /\ Len(log) \in Nat
      /\ call[r].refused => call[r].failed
  BY LenProperties
     DEF HandlersInv, HandlersTypeOK, TypeOK, Log, FloorsAreReached, ErrorsAreOwn
<1>1. CASE TriesUpdate(r)
  <2> DEFINE c == call[r]
  <2>0. PICK d : d = [c EXCEPT !.stage = "update"]
    OBVIOUS
  <2>1. /\ d \in Call /\ d.stage = "update" /\ d.kind = c.kind /\ d.label = c.label
        /\ d.floor = c.floor
    BY <1>0, <2>0 DEF Call, Stages
  <2>2. d.refused => d.failed
    BY <1>0, <2>0 DEF Call
  <2>3. c.kind = "name" /\ c.label \in Labels /\ nameIndex[c.label] # NoHash /\ c.stage = "create"
    BY <1>1 DEF TriesUpdate, HandlersInv, CallsMatch
  <2>4. call' = [call EXCEPT ![r] = d] /\ UNCHANGED <<vars, settled>>
    BY <1>1, <2>0 DEF TriesUpdate
  <2>5. QED
    BY <1>0, <2>1, <2>2, <2>3, <2>4, CallChanges DEF Inside
<1>2. CASE IsRefused(r)
  <2>1. call[r].failed
    BY <1>2 DEF IsRefused, HandlersInv, UpdatesAreNamed
  <2>2. PICK d : d = Refusal(call[r])
    OBVIOUS
  <2>3. d \in Call /\ d.stage = "idle" /\ d.floor = 0 /\ (d.refused => d.failed)
    BY <1>0, <2>1, <2>2, RefusalFields
  <2>4. call' = [call EXCEPT ![r] = d] /\ call[r].stage = "update" /\ UNCHANGED <<vars, settled>>
    BY <1>2, <2>2 DEF IsRefused
  <2>5. call[r].stage \notin Inside /\ d.floor <= Len(log)
    BY <1>0, <2>3, <2>4 DEF Inside
  <2>6. QED
    BY <2>3, <2>4, <2>5, CallChanges
<1>3. QED
  BY <1>1, <1>2
-----------------------------------------------------------------------------
(* The steps of an append.                                                 *)

\* The last entry of a log that has grown.
LEMMA LastOf ==
  ASSUME NEW L \in Seq(Entry), NEW e \in Entry
  PROVE  /\ Append(L, e) \in Seq(Entry)
         /\ Len(L) \in Nat /\ Len(Append(L, e)) = Len(L) + 1
         /\ Append(L, e)[Len(L) + 1] = e
BY AppendProperties, LenProperties

\* A handler takes the mutex.
LEMMA BeginKeeps ==
  ASSUME HandlersInv, NEW r \in Requests, NEW e \in Entry, Begins(r, e)
  PROVE  HandlersInv'
<1> USE DEF Inside
<1>1. StoreFacts' /\ log \in Seq(Entry)
  <2>1. [Next]_vars
    BY DEF Begins, Next
  <2>2. QED
    BY <2>1, NextStoreFacts DEF HandlersInv, StoreFacts, TypeOK, Log
<1>2. /\ phase = "ready" /\ phase' = "saving" /\ log' = Append(log, e) /\ disk' = disk
      /\ acked' = acked /\ settled' = settled /\ nameIndex' = nameIndex /\ Len(log) < MaxLog
  BY DEF Begins, BeginAppend, indexVars
<1>3. /\ Len(log) \in Nat /\ Len(log') = Len(log) + 1 /\ log'[Len(log')] = e
  BY <1>1, <1>2, LastOf
<1>4. PICK s \in Inside :
        /\ <<call[r].stage, s>> \in {<<"entry", "entering">>, <<"sign", "signing">>,
                                     <<"create", "creating">>, <<"update", "updating">>}
        /\ call' = [call EXCEPT ![r].stage = s]
  BY DEF Begins
<1>5. call \in [Requests -> Call]
  BY DEF HandlersInv, HandlersTypeOK
<1>6. PICK d : d = [call[r] EXCEPT !.stage = s]
  OBVIOUS
<1>7. /\ d \in Call /\ d.stage = s /\ d.kind = call[r].kind /\ d.hash = call[r].hash
      /\ d.label = call[r].label /\ d.floor = call[r].floor
  BY <1>4, <1>5, <1>6 DEF Call, Stages
<1>8. call[r].refused => call[r].failed
  BY DEF HandlersInv, ErrorsAreOwn
<1>9. d.refused => d.failed
  BY <1>5, <1>6, <1>8 DEF Call
<1>10. \A q \in Requests : call'[q] = IF q = r THEN d ELSE call[q]
  BY <1>4, <1>5, <1>6
<1>11. \A q \in Requests : call[q].stage \notin Inside
  BY <1>2, Zenon DEF HandlersInv, HandlersTypeOK, Appending
<1>12. \A q \in Requests : call'[q].stage \in Inside <=> q = r
  BY <1>4, <1>7, <1>10, <1>11
<1>13. LogBounded'
  BY <1>2, <1>3, MaxLogAssumption DEF HandlersInv, LogBounded, Readable
<1>14. HandlersTypeOK'
  <2>1. call' \in [Requests -> Call]
    BY <1>4, <1>5, <1>6, <1>7
  <2>2. phase' \in Appending <=> \E q \in Requests : call'[q].stage \in Inside
    BY <1>2, <1>12 DEF Appending
  <2>3. settled' \in [Labels -> 0..(MaxLog + 1)] /\ TypeOK'
    BY <1>1, <1>2 DEF HandlersInv, HandlersTypeOK, StoreFacts
  <2>4. QED
    BY <2>1, <2>2, <2>3 DEF HandlersTypeOK
<1>15. OneInside'
  BY <1>12 DEF OneInside
<1>16. CallsMatch'
  BY <1>4, <1>7, <1>10 DEF HandlersInv, CallsMatch
<1>17. FloorsAreReached'
  <2>1. \A q \in Requests : call[q].floor <= Len(log) /\ call[q].floor \in Nat
    BY <1>5, MaxLogAssumption DEF HandlersInv, FloorsAreReached, Call
  <2>2. QED
    BY <1>3, <1>7, <1>10, <2>1 DEF FloorsAreReached
<1>18. InsideIsLast'
  <2>1. EntryOf(d, e)
    BY <1>4, <1>7 DEF Begins, EntryOf
  <2>2. d.floor < Len(log')
    BY <1>3, <1>5, <1>7, MaxLogAssumption DEF HandlersInv, FloorsAreReached, Call
  <2>3. QED
    BY <1>3, <1>10, <1>12, <2>1, <2>2 DEF InsideIsLast, EntryOf, IsName
<1>19. SignedIsRecorded'
  <2>1. \A q \in Requests : call'[q].stage = "sign" => call'[q] = call[q]
    BY <1>7, <1>10
  <2>2. \A h : RecordedIn(log, h) => RecordedIn(log', h)
    BY <1>1, <1>2, RecordedStays
  <2>3. QED
    BY <2>1, <2>2 DEF HandlersInv, SignedIsRecorded, RecordedIn
<1>20. UpdatesAreNamed'
  BY <1>2, <1>7, <1>10 DEF HandlersInv, UpdatesAreNamed
<1>21. ErrorsAreOwn'
  BY <1>9, <1>10 DEF HandlersInv, ErrorsAreOwn
<1>22. SettledIsAcked'
  BY <1>2 DEF HandlersInv, SettledIsAcked, IsName
<1>23. CapabilityFollowsObject'
  <2>1. e.op = "capability" => RecordedIn(log, e.cap.hash)
    BY <1>4 DEF Begins, EntryOf, HandlersInv, SignedIsRecorded, Creations, IsName
  <2>2. RecordedFirst(log')
    BY <1>1, <1>2, <2>1, AppendRecorded DEF HandlersInv, CapabilityFollowsObject
  <2>3. QED
    BY <1>2, <2>2 DEF HandlersInv, CapabilityFollowsObject, Readable, RecordedFirst
<1>24. QED
  BY <1>1, <1>13, <1>14, <1>15, <1>16, <1>17, <1>18, <1>19, <1>20, <1>21, <1>22, <1>23
     DEF HandlersInv

\* A name that is indexed stays so while the process lives.
LEMMA NamedStays ==
  ASSUME TypeOK, NEW e \in Entry, nameIndex' = NameAdd(nameIndex, e), NEW l \in Labels,
         nameIndex[l] # NoHash
  PROVE  nameIndex'[l] # NoHash
<1>1. IsName(e) => e.hash \in Hashes
  BY EntryKinds DEF NameEntry
<1>2. QED
  BY <1>1, NoHashAssumption DEF NameAdd, TypeOK, IndexTypeOK

\* An append returns to its handler.
LEMMA ReturnKeeps ==
  ASSUME HandlersInv, NEW r \in Requests, NEW ok \in BOOLEAN, Returned(r, ok),
         IF ok THEN Acknowledge ELSE OpenFails \/ WriteFails
  PROVE  HandlersInv'
<1> USE DEF Inside
<1>0. /\ call \in [Requests -> Call] /\ settled \in [Labels -> 0..(MaxLog + 1)] /\ TypeOK
      /\ log \in Seq(Entry) /\ Len(log) \in Nat
      /\ \A q \in Requests : call[q].floor \in 0..MaxLog
  BY LenProperties DEF HandlersInv, HandlersTypeOK, TypeOK, Log, Call
<1>1. StoreFacts'
  <2>1. [Next]_vars
    BY DEF Next, AppendStep
  <2>2. QED
    BY <2>1, NextStoreFacts DEF HandlersInv
<1>2. /\ phase' = "ready" /\ log' = log /\ disk' = disk /\ acked \subseteq acked'
      /\ \/ nameIndex' = nameIndex
         \/ nameIndex' = NameAdd(nameIndex, log[Len(log)]) /\ Len(log) \in 1..Len(log)
  <2>1. CASE Acknowledge
    <3>1. Len(log) \in 1..Len(log)
      BY <1>0, <2>1, EmptySeq DEF Acknowledge, TypeOK, Appending
    <3>2. QED
      BY <2>1, <3>1 DEF Acknowledge, IndexEntry
  <2>2. CASE OpenFails \/ WriteFails
    BY <2>2 DEF OpenFails, WriteFails, indexVars
  <2>3. QED
    BY <2>1, <2>2
<1>3. PICK b : b = [call[r] EXCEPT !.failed = @ \/ ~ok]
  OBVIOUS
<1>4. PICK d : d = Outcome(b, ok)
  OBVIOUS
<1>5. /\ b.stage \in Inside /\ call' = [call EXCEPT ![r] = d]
      /\ settled' = IF b.kind = "name" /\ d = NoCall /\ settled[b.label] <= b.floor
                      THEN [settled EXCEPT ![b.label] = b.floor + 1]
                      ELSE settled
  <2> HIDE DEF Inside
  <2>1. b.stage \in Inside
    BY <1>3 DEF Returned
  <2>2. call' = [call EXCEPT ![r] = d]
    BY <1>3, <1>4 DEF Returned
  <2>3. settled' = IF b.kind = "name" /\ d = NoCall /\ settled[b.label] <= b.floor
                      THEN [settled EXCEPT ![b.label] = b.floor + 1]
                      ELSE settled
    BY <1>3, <1>4 DEF Returned
  <2>4. QED
    BY <2>1, <2>2, <2>3
<1>6. call[r].stage \in Inside
  BY <1>0, <1>3, <1>5 DEF Call
<1>7. /\ b.stage = call[r].stage /\ b.kind = call[r].kind /\ b.label = call[r].label
      /\ b.floor = call[r].floor
      /\ d \in Call
      /\ d.stage \in {"idle", "sign", "update"}
      /\ d.stage = "sign" =>
           call[r].stage = "entering" /\ d.hash = call[r].hash /\ d.kind = call[r].kind
      /\ d.stage = "update" =>
           /\ call[r].stage = "creating" /\ d.failed
           /\ d.label = call[r].label /\ d.kind = call[r].kind
      /\ d.floor \in {0, call[r].floor}
      /\ d.refused => d.failed
      /\ call[r].stage \in {"creating", "updating"} /\ d = NoCall => ok
  <2>1. call[r] \in Call /\ (call[r].refused => call[r].failed)
    BY <1>0 DEF HandlersInv, ErrorsAreOwn
  <2>2. QED
    BY <1>3, <1>4, <1>6, <2>1, ReturnedFields
<1>8. \A q \in Requests : call'[q] = IF q = r THEN d ELSE call[q]
  BY <1>0, <1>5
<1>9. \A q \in Requests : call'[q].stage \notin Inside
  BY <1>6, <1>7, <1>8 DEF HandlersInv, OneInside
<1>10. EntryOf(call[r], log[Len(log)]) /\ call[r].floor < Len(log) /\ Len(log) \in 1..Len(log)
  BY <1>0, <1>6 DEF HandlersInv, InsideIsLast
<1>11. HandlersTypeOK'
  <2>1. call' \in [Requests -> Call]
    BY <1>0, <1>5, <1>7
  <2>2. phase' \in Appending <=> \E q \in Requests : call'[q].stage \in Inside
    BY <1>2, <1>9 DEF Appending
  <2>3. settled' \in [Labels -> 0..(MaxLog + 1)]
    <3>1. b.floor + 1 \in 0..(MaxLog + 1)
      BY <1>0, <1>7, MaxLogAssumption
    <3>2. QED
      BY <1>0, <1>5, <3>1
  <2>4. QED
    BY <1>1, <2>1, <2>2, <2>3 DEF HandlersTypeOK, StoreFacts
<1>12. LogBounded' /\ OneInside' /\ InsideIsLast'
  BY <1>2, <1>9 DEF HandlersInv, LogBounded, OneInside, InsideIsLast, Readable
<1>13. CallsMatch'
  BY <1>7, <1>8 DEF HandlersInv, CallsMatch
<1>14. FloorsAreReached'
  BY <1>0, <1>2, <1>7, <1>8 DEF HandlersInv, FloorsAreReached
<1>15. SignedIsRecorded'
  <2>1. d.stage = "sign" => RecordedIn(log, d.hash)
    BY <1>7, <1>10 DEF EntryOf, RecordedIn
  <2>2. QED
    BY <1>2, <1>8, <2>1 DEF HandlersInv, SignedIsRecorded, RecordedIn
<1>16. UpdatesAreNamed'
  <2>1. \A l \in Labels : nameIndex[l] # NoHash => nameIndex'[l] # NoHash
    <3>1. Len(log) \in 1..Len(log) => log[Len(log)] \in Entry
      BY <1>0, ElementOfSeq
    <3>2. QED
      BY <1>0, <1>2, <3>1, NamedStays
  <2>2. SUFFICES ASSUME NEW q \in Requests, call'[q].stage = "update"
                 PROVE  call'[q].failed \/ nameIndex'[call'[q].label] # NoHash
    BY DEF UpdatesAreNamed
  <2>3. CASE q = r
    BY <1>7, <1>8, <2>2, <2>3
  <2>4. CASE q # r
    <3>1. call'[q] = call[q] /\ call[q].label \in Labels
      BY <1>8, <2>2, <2>4 DEF HandlersInv, CallsMatch
    <3>2. QED
      BY <2>1, <2>2, <3>1 DEF HandlersInv, UpdatesAreNamed
  <2>5. QED
    BY <2>3, <2>4
<1>17. ErrorsAreOwn'
  BY <1>7, <1>8 DEF HandlersInv, ErrorsAreOwn
<1>18. SettledIsAcked'
  <2>1. SUFFICES ASSUME NEW l \in Labels, settled'[l] > 0
                 PROVE  \E a \in acked' : a[1] >= settled'[l] /\ IsName(a[2]) /\ a[2].label = l
    BY DEF SettledIsAcked, IsName
  <2>2. CASE settled'[l] = settled[l]
    BY <1>2, <2>1, <2>2 DEF HandlersInv, SettledIsAcked
  <2>3. CASE settled'[l] # settled[l]
    <3>1. b.kind = "name" /\ d = NoCall /\ l = b.label /\ settled'[l] = b.floor + 1
      BY <1>0, <1>5, <2>3
    <3>2. call[r].stage \in {"creating", "updating"}
      BY <1>6, <1>7, <3>1 DEF HandlersInv, CallsMatch, Creations
    <3>3. <<Len(log), log[Len(log)]>> \in acked'
      BY <1>7, <3>1, <3>2 DEF Acknowledge
    <3>4. IsName(log[Len(log)]) /\ log[Len(log)].label = l
      BY <1>7, <1>10, <3>1, <3>2 DEF EntryOf
    <3>5. Len(log) >= settled'[l]
      BY <1>0, <1>7, <1>10, <3>1
    <3>6. QED
      BY <3>3, <3>4, <3>5
  <2>4. QED
    BY <2>2, <2>3
<1>19. CapabilityFollowsObject'
  BY <1>2 DEF HandlersInv, CapabilityFollowsObject, Readable, RecordedFirst
<1>20. QED
  BY <1>1, <1>11, <1>12, <1>13, <1>14, <1>15, <1>16, <1>17, <1>18, <1>19 DEF HandlersInv
\* A step of the store that leaves the handlers alone, and the log too unless the
\* process has nothing but the file.
LEMMA StoreStepKeeps ==
  ASSUME HandlersInv, StoreFacts', UNCHANGED handlerVars,
         log' = log \/ (log = <<>> /\ Len(log') \in Nat),
         acked' = acked, phase \in Appending <=> phase' \in Appending,
         phase \in Appending => log' = log,
         LogBounded', CapabilityFollowsObject',
         \A l \in Labels : nameIndex[l] # NoHash => nameIndex'[l] # NoHash
  PROVE  HandlersInv'
<1>0. /\ call' = call /\ settled' = settled /\ call \in [Requests -> Call]
      /\ \A q \in Requests : call[q].floor \in 0..MaxLog
  BY DEF handlerVars, HandlersInv, HandlersTypeOK, Call
<1>1. HandlersTypeOK'
  <2>1. phase' \in Appending <=> \E q \in Requests : call[q].stage \in Inside
    BY Zenon DEF HandlersInv, HandlersTypeOK
  <2>2. QED
    BY <1>0, <2>1 DEF HandlersInv, HandlersTypeOK, StoreFacts
<1>2. OneInside' /\ CallsMatch' /\ ErrorsAreOwn'
  BY <1>0 DEF HandlersInv, OneInside, CallsMatch, ErrorsAreOwn
<1>3. FloorsAreReached'
  <2>1. \A q \in Requests : call[q].floor <= Len(log)
    BY DEF HandlersInv, FloorsAreReached
  <2>2. CASE log' = log
    BY <1>0, <2>1, <2>2 DEF FloorsAreReached
  <2>3. CASE log = <<>> /\ Len(log') \in Nat
    <3>1. Len(log) = 0
      BY <2>3, EmptySeq
    <3>2. QED
      BY <1>0, <2>1, <2>3, <3>1, MaxLogAssumption DEF FloorsAreReached
  <2>4. QED
    BY <2>2, <2>3
<1>4. InsideIsLast'
  <2>1. ASSUME NEW q \in Requests, call[q].stage \in Inside
        PROVE  log' = log
    BY <2>1 DEF HandlersInv, HandlersTypeOK
  <2>2. QED
    BY <1>0, <2>1 DEF HandlersInv, InsideIsLast, EntryOf, IsName
<1>5. SignedIsRecorded'
  <2>1. ASSUME NEW q \in Requests, call[q].stage = "sign"
        PROVE  log' = log
    <3>1. RecordedIn(log, call[q].hash)
      BY <2>1 DEF HandlersInv, SignedIsRecorded
    <3>2. log # <<>>
      BY <3>1, EmptySeq DEF RecordedIn
    <3>3. QED
      BY <3>2
  <2>2. QED
    BY <1>0, <2>1 DEF HandlersInv, SignedIsRecorded, RecordedIn
<1>6. UpdatesAreNamed'
  BY <1>0 DEF HandlersInv, UpdatesAreNamed, CallsMatch
<1>7. SettledIsAcked'
  BY <1>0 DEF HandlersInv, SettledIsAcked, IsName
<1>8. QED
  BY <1>1, <1>2, <1>3, <1>4, <1>5, <1>6, <1>7 DEF HandlersInv

\* The append goes on, or the process starts.
LEMMA ProceedKeeps ==
  ASSUME HandlersInv, AppendProceeds \/ Starting
  PROVE  HandlersInv'
<1> USE DEF Appending
<1>0. /\ StoreFacts /\ TypeOK /\ LogBounded /\ CapabilityFollowsObject
      /\ log \in Seq(Entry) /\ Len(log) \in Nat
      /\ UNCHANGED handlerVars
  BY LenProperties
     DEF HandlersInv, StoreFacts, TypeOK, Log, AppendProceeds, Starting
<1>1. StoreFacts'
  <2>1. [Next]_vars
    BY DEF AppendProceeds, Starting, Next, AppendStep, Lifecycle
  <2>2. QED
    BY <1>0, <2>1, NextStoreFacts
<1> USE DEF LogBounded, CapabilityFollowsObject, Readable, RecordedFirst
<1>2. CASE Truncate
  <2>1. /\ log' = log /\ acked' = acked /\ nameIndex' = nameIndex /\ disk' = Torn
        /\ phase \in Appending /\ phase' \in Appending
    BY <1>2 DEF Truncate, indexVars
  <2>2. LogBounded' /\ CapabilityFollowsObject'
    BY <1>0, <2>1
  <2>3. QED
    BY <1>0, <1>1, <2>1, <2>2, StoreStepKeeps
<1>3. CASE WriteDone
  <2>1. /\ log' = log /\ acked' = acked /\ nameIndex' = nameIndex /\ disk' = log
        /\ phase \in Appending /\ phase' \in Appending
    BY <1>3 DEF WriteDone, indexVars
  <2>2. LogBounded' /\ CapabilityFollowsObject'
    BY <1>0, <2>1
  <2>3. QED
    BY <1>0, <1>1, <2>1, <2>2, StoreStepKeeps
<1>4. CASE Start
  <2>1. /\ log = <<>> /\ acked' = acked /\ nameIndex' = nameIndex /\ disk' = disk
        /\ log' = (IF disk = Absent THEN <<>> ELSE disk) /\ disk # Torn
        /\ phase \notin Appending /\ phase' \notin Appending
    BY <1>0, <1>4 DEF Start, indexVars, StoreFacts, DurableInv, DownIsBlank
  <2>2. Len(log') \in Nat
    BY <1>1, LenProperties DEF StoreFacts, TypeOK, Log
  <2>3. LogBounded' /\ CapabilityFollowsObject'
    <3>1. CASE disk = Absent
      BY <1>0, <2>1, <3>1
    <3>2. CASE disk # Absent
      BY <1>0, <2>1, <3>2
    <3>3. QED
      BY <3>1, <3>2
  <2>4. QED
    BY <1>0, <1>1, <2>1, <2>2, <2>3, StoreStepKeeps
<1>5. CASE StartFails \/ Serve
  <2>1. /\ log' = log /\ acked' = acked /\ nameIndex' = nameIndex /\ disk' = disk
        /\ phase \notin Appending /\ phase' \notin Appending
    BY <1>5 DEF StartFails, Serve, indexVars
  <2>2. LogBounded' /\ CapabilityFollowsObject'
    BY <1>0, <2>1
  <2>3. QED
    BY <1>0, <1>1, <2>1, <2>2, StoreStepKeeps
<1>6. CASE Replay
  <2>1. /\ log' = log /\ acked' = acked /\ disk' = disk
        /\ nameIndex' = NameAdd(nameIndex, log[cursor + 1])
        /\ cursor < Len(log)
        /\ phase \notin Appending /\ phase' \notin Appending
    BY <1>6 DEF Replay, IndexEntry
  <2>2. log[cursor + 1] \in Entry
    BY <1>0, <2>1, ElementOfSeq DEF TypeOK
  <2>3. \A l \in Labels : nameIndex[l] # NoHash => nameIndex'[l] # NoHash
    BY <1>0, <2>1, <2>2, NamedStays
  <2>4. LogBounded' /\ CapabilityFollowsObject'
    BY <1>0, <2>1
  <2>5. QED
    BY <1>0, <1>1, <2>1, <2>3, <2>4, StoreStepKeeps
<1>7. QED
  BY <1>2, <1>3, <1>4, <1>5, <1>6 DEF AppendProceeds, Starting

\* The process dies, and the handlers with it.
LEMMA KillKeeps ==
  ASSUME HandlersInv, Killed
  PROVE  HandlersInv'
<1>0. StoreFacts'
  <2>1. [Next]_vars
    BY DEF Killed, Next, Lifecycle
  <2>2. QED
    BY <2>1, NextStoreFacts DEF HandlersInv
<1>1. /\ phase' = "down" /\ log' = <<>> /\ disk' = disk /\ acked' = acked /\ settled' = settled
      /\ call' = [r \in Requests |-> NoCall] /\ Len(log') = 0
  BY EmptySeq DEF Killed, Crash
<1>2. \A r \in Requests : call'[r] = NoCall
  BY <1>1
<1>3. HandlersTypeOK'
  <2>1. call' \in [Requests -> Call]
    BY <1>1, NoCallFields
  <2>2. phase' \notin Appending /\ ~\E r \in Requests : call'[r].stage \in Inside
    BY <1>1, <1>2, NoCallFields DEF Appending, Inside
  <2>3. QED
    BY <1>0, <1>1, <2>1, <2>2 DEF HandlersInv, HandlersTypeOK, StoreFacts
<1>4. OneInside' /\ CallsMatch' /\ FloorsAreReached' /\ InsideIsLast'
  BY <1>1, <1>2, NoCallFields DEF OneInside, CallsMatch, FloorsAreReached, InsideIsLast, Inside
<1>5. SignedIsRecorded' /\ UpdatesAreNamed' /\ ErrorsAreOwn'
  BY <1>2, NoCallFields DEF SignedIsRecorded, UpdatesAreNamed, ErrorsAreOwn
<1>6. LogBounded' /\ SettledIsAcked' /\ CapabilityFollowsObject'
  BY <1>1, EmptyRecorded, MaxLogAssumption
     DEF HandlersInv, LogBounded, SettledIsAcked, CapabilityFollowsObject, Readable,
         RecordedFirst, IsName
<1>7. QED
  BY <1>0, <1>3, <1>4, <1>5, <1>6 DEF HandlersInv

-----------------------------------------------------------------------------
(* The theorems.                                                           *)

LEMMA InitHandlers == HandlersInit => HandlersInv
<1> SUFFICES ASSUME HandlersInit
             PROVE  HandlersInv
  OBVIOUS
<1>0. StoreFacts
  BY InitStoreFacts DEF HandlersInit
<1>1. /\ phase = "down" /\ log = <<>> /\ disk = Absent /\ acked = {}
      /\ settled = [l \in Labels |-> 0] /\ call = [r \in Requests |-> NoCall] /\ Len(log) = 0
  BY EmptySeq DEF HandlersInit, Init
<1>2. \A r \in Requests : call[r] = NoCall
  BY <1>1
<1>3. HandlersTypeOK
  <2>1. call \in [Requests -> Call]
    BY <1>1, NoCallFields
  <2>2. phase \notin Appending /\ ~\E r \in Requests : call[r].stage \in Inside
    BY <1>1, <1>2, NoCallFields DEF Appending, Inside
  <2>3. settled \in [Labels -> 0..(MaxLog + 1)]
    BY <1>1, MaxLogAssumption
  <2>4. QED
    BY <1>0, <2>1, <2>2, <2>3 DEF HandlersTypeOK, StoreFacts
<1>4. OneInside /\ CallsMatch /\ FloorsAreReached /\ InsideIsLast
  BY <1>1, <1>2, NoCallFields DEF OneInside, CallsMatch, FloorsAreReached, InsideIsLast, Inside
<1>5. SignedIsRecorded /\ UpdatesAreNamed /\ ErrorsAreOwn
  BY <1>2, NoCallFields DEF SignedIsRecorded, UpdatesAreNamed, ErrorsAreOwn
<1>6. LogBounded /\ SettledIsAcked /\ CapabilityFollowsObject
  BY <1>1, EmptyRecorded, MaxLogAssumption
     DEF LogBounded, SettledIsAcked, CapabilityFollowsObject, Readable
<1>7. QED
  BY <1>0, <1>3, <1>4, <1>5, <1>6 DEF HandlersInv

LEMMA NextHandlers == HandlersInv /\ [HandlersNext]_allVars => HandlersInv'
<1> SUFFICES ASSUME HandlersInv, [HandlersNext]_allVars
             PROVE  HandlersInv'
  OBVIOUS
<1>1. ASSUME NEW r \in Requests, Handle(r)
      PROVE  HandlersInv'
  <2>1. HandlersTypeOK /\ CallsMatch
    BY DEF HandlersInv
  <2>2. QED
    BY <1>1, <2>1, HandleSteps, BeginKeeps, TriesKeep
<1>2. ASSUME NEW r \in Requests, AppendReturns(r)
      PROVE  HandlersInv'
  BY <1>2, ReturnKeeps DEF AppendReturns
<1>3. CASE UNCHANGED allVars
  <2>1. UNCHANGED vars /\ UNCHANGED handlerVars
    BY <1>3 DEF allVars
  <2>2. /\ log' = log /\ acked' = acked /\ phase' = phase /\ nameIndex' = nameIndex /\ disk' = disk
    BY <2>1 DEF vars, indexVars
  <2>3. StoreFacts'
    BY <2>1, NextStoreFacts DEF HandlersInv
  <2>4. LogBounded' /\ CapabilityFollowsObject'
    BY <2>2 DEF HandlersInv, LogBounded, CapabilityFollowsObject, Readable, RecordedFirst
  <2>5. QED
    BY <2>1, <2>2, <2>3, <2>4, StoreStepKeeps
<1>4. QED
  BY <1>1, <1>2, <1>3, ArriveKeeps, ProceedKeeps, KillKeeps DEF HandlersNext

\* The inductive invariant holds in every reachable state.
THEOREM HandlersInvariant == HandlersSpec => []HandlersInv
BY InitHandlers, NextHandlers, PTL DEF HandlersSpec

\* The handlers' variables keep their types, and an append is in progress exactly
\* when some handler is inside the store.
THEOREM HandlersTypes == HandlersSpec => []HandlersTypeOK
BY HandlersInvariant, PTL DEF HandlersInv

\* No request is refused unless an append of its own failed.
THEOREM RefusalsAreOwn == HandlersSpec => []ErrorsAreOwn
BY HandlersInvariant, PTL DEF HandlersInv

\* A name that a request was promised is served from the entry of that request or
\* from a later one, by this process and by every one that loads log.json.
THEOREM PromisedNamesStay == HandlersSpec => []AnsweredNamesStay
<1>1. HandlersInv => AnsweredNamesStay
  <2> SUFFICES ASSUME HandlersInv, NEW l \in Labels, settled[l] > 0
               PROVE  /\ phase = "ready" =>
                           /\ NamedSince(log, indexed, l)
                           /\ IsNameOf(nameIndex[l], log, indexed, l)
                      /\ disk # Torn => Readable /\ NamedSince(disk, 1..Len(disk), l)
    BY DEF AnsweredNamesStay
  <2>1. PICK a \in acked : a[1] >= settled[l] /\ IsName(a[2]) /\ a[2].label = l
    BY DEF HandlersInv, SettledIsAcked
  <2>2. ASSUME phase = "ready"
        PROVE  NamedSince(log, indexed, l) /\ IsNameOf(nameIndex[l], log, indexed, l)
    <3>1. a[1] \in indexed /\ log[a[1]] = a[2]
      BY <2>2 DEF HandlersInv, StoreFacts, IndexInv, IndexedCoversAcked, DurableInv,
                  FileIsPrefix, Up
    <3>2. QED
      BY <2>1, <2>2, <3>1
         DEF NamedSince, NamePositions, HandlersInv, StoreFacts, IndexInv, NamesAreProjection, Up
  <2>3. ASSUME disk # Torn
        PROVE  Readable /\ NamedSince(disk, 1..Len(disk), l)
    <3>1. Readable /\ a[1] \in 1..Len(disk) /\ disk[a[1]] = a[2]
      BY <2>3 DEF HandlersInv, StoreFacts, DurableInv, AckedDurable
    <3>2. QED
      BY <2>1, <3>1 DEF NamedSince, NamePositions
  <2>4. QED
    BY <2>2, <2>3
<1>2. QED
  BY <1>1, HandlersInvariant, PTL

\* In every log, in memory or on disk, the capability of an object's creator comes
\* after the object.
THEOREM CapabilitiesFollowObjects == HandlersSpec => []CapabilityFollowsObject
BY HandlersInvariant, PTL DEF HandlersInv

\* The handlers are a use of the store: whatever they do together, the store keeps
\* to its specification, and so has all the properties proved of it.
THEOREM HandlersUseStore == HandlersSpec => Spec
<1>1. HandlersInit => Init
  BY DEF HandlersInit
<1>2. HandlersInv /\ [HandlersNext]_allVars => [Next]_vars
  BY StepsOfStore DEF HandlersInv
<1>3. QED
  BY <1>1, <1>2, HandlersInvariant, PTL DEF HandlersSpec, Spec
=============================================================================
