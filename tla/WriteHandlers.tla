--------------------------- MODULE WriteHandlers ---------------------------
(***************************************************************************)
(* The server's handlers that write: /stash, /collection and /relation,    *)
(* which record an object and then hand its creator a capability for it    *)
(* (stashAndIssue), and /name, which tries to create a name and then to    *)
(* update it.  Each appends twice at most and takes the store's mutex for  *)
(* each append anew, so the appends of other requests come between; any of *)
(* them may fail, and the process may be killed at any point.              *)
(*                                                                         *)
(* A request is followed from the point where it has been admitted         *)
(* (CapabilityService) and its object is in the CAS (ObjectStore).         *)
(***************************************************************************)
EXTENDS MetadataStore, FiniteSets

CONSTANTS
  Requests,  \* handler goroutines
  NoLabel    \* a request that names nothing

ASSUME HashesAssumption == Hashes # {}
ASSUME CapabilityOfAssumption == \A h \in Hashes : \E c \in Capabilities : c.hash = h

VARIABLES
  call,     \* what each handler is doing, or that its last request was refused
  settled   \* history: where the entry of a name request answered with 200 may begin

handlerVars == <<call, settled>>
allVars == <<vars, handlerVars>>

Creations == {"stash", "collection", "relation"}

\* The stages of a handler; in those of Inside it holds the store's mutex.
Inside == {"entering", "signing", "creating", "updating"}
Stages == {"idle", "entry", "sign", "create", "update"} \cup Inside

\* failed and floor are history: an append of this request has failed; the length
\* of the log when it arrived.
Call == [stage : Stages, kind : Creations \cup {"name"}, hash : Hashes,
         label : Labels \cup {NoLabel}, floor : 0..MaxLog, failed : BOOLEAN,
         refused : BOOLEAN]

NoCall == [stage |-> "idle", kind |-> "name", hash |-> CHOOSE h \in Hashes : TRUE,
           label |-> NoLabel, floor |-> 0, failed |-> FALSE, refused |-> FALSE]

\* The goroutine is done: 500 is kept, a success is not.
Refusal(c) == [NoCall EXCEPT !.failed = c.failed, !.refused = TRUE]

HandlersInit ==
  /\ Init
  /\ call = [r \in Requests |-> NoCall]
  /\ settled = [l \in Labels |-> 0]

-----------------------------------------------------------------------------
\* Bound: a request comes only while every request could make both its appends.
Room ==
  Len(log) + 2 * (1 + Cardinality({r \in Requests : call[r].stage # "idle"})) <= MaxLog

Arrive(r, kind, l, h) ==
  /\ phase \in {"ready"} \cup Appending
  /\ call[r].stage = "idle"
  /\ Room
  /\ call' = [call EXCEPT ![r] =
       [NoCall EXCEPT !.stage = IF kind = "name" THEN "create" ELSE "entry",
                      !.kind = kind, !.hash = h, !.label = l, !.floor = Len(log)]]
  /\ UNCHANGED <<vars, settled>>

ArriveCreation(r) ==
  \E kind \in Creations, h \in Hashes : Arrive(r, kind, NoLabel, h)

ArriveName(r) ==
  \E l \in Labels, h \in Hashes : Arrive(r, "name", l, h)

\* The object could not be stashed: 500, and nothing is recorded.
Unstashed(r) ==
  /\ phase \in {"ready"} \cup Appending
  /\ call[r].stage = "idle"
  /\ call' = [call EXCEPT ![r] = Refusal([NoCall EXCEPT !.failed = TRUE])]
  /\ UNCHANGED <<vars, settled>>

-----------------------------------------------------------------------------
(* stashAndIssue.                                                          *)

\* Mutant: the append runs in the background.
EnterUnwaited(r) == call' = [call EXCEPT ![r].stage = "sign"] /\ UNCHANGED settled

Enter(r) == call' = [call EXCEPT ![r].stage = "entering"] /\ UNCHANGED settled

RecordStash(r) ==
  /\ call[r].stage = "entry" /\ call[r].kind = "stash"
  /\ \E d \in Days : AppendStash(call[r].hash, d)
  /\ Enter(r)

RecordCollection(r) ==
  /\ call[r].stage = "entry" /\ call[r].kind = "collection"
  /\ AppendCollection(call[r].hash)
  /\ Enter(r)

RecordRelation(r) ==
  /\ call[r].stage = "entry" /\ call[r].kind = "relation"
  /\ \E from, to \in Hashes, rel \in Rels : AppendRelation(call[r].hash, from, rel, to)
  /\ Enter(r)

\* Mutant: the object is recorded once its capability is.
SignFirst(r) ==
  /\ call[r].stage \in {"entry", "sign"}
  /\ \E c \in Capabilities : c.hash = call[r].hash /\ AppendCapability(c)
  /\ call' = [call EXCEPT ![r].stage = "signing"]
  /\ UNCHANGED settled

Sign(r) ==
  /\ call[r].stage = "sign"
  /\ \E c \in Capabilities : c.hash = call[r].hash /\ AppendCapability(c)
  /\ call' = [call EXCEPT ![r].stage = "signing"]
  /\ UNCHANGED settled

-----------------------------------------------------------------------------
(* nameHandler: AppendNameCreate, and AppendNameUpdate after any error.    *)

\* Mutant: a name that exists is not updated.
CreateOnly(r) ==
  /\ call[r].stage = "create"
  /\ \/ /\ AppendNameCreate(call[r].label, call[r].hash)
        /\ call' = [call EXCEPT ![r].stage = "creating"]
     \/ /\ phase = "ready"
        /\ nameIndex[call[r].label] # NoHash
        /\ call' = [call EXCEPT ![r] = Refusal(@)]
        /\ UNCHANGED vars
  /\ UNCHANGED settled

Create(r) ==
  /\ call[r].stage = "create"
  /\ \/ /\ AppendNameCreate(call[r].label, call[r].hash)
        /\ call' = [call EXCEPT ![r].stage = "creating"]
     \/ /\ phase = "ready"
        /\ nameIndex[call[r].label] # NoHash
        /\ call' = [call EXCEPT ![r].stage = "update"]
        /\ UNCHANGED vars
  /\ UNCHANGED settled

\* Mutant: the handler tries again until it succeeds.
UpdateRetried(r) ==
  /\ call[r].stage = "update"
  /\ \/ /\ AppendNameUpdate(call[r].label, call[r].hash)
        /\ call' = [call EXCEPT ![r].stage = "updating"]
     \/ /\ phase = "ready"
        /\ nameIndex[call[r].label] = NoHash
        /\ call' = [call EXCEPT ![r].stage = "create"]
        /\ UNCHANGED vars
  /\ UNCHANGED settled

Update(r) ==
  /\ call[r].stage = "update"
  /\ \/ /\ AppendNameUpdate(call[r].label, call[r].hash)
        /\ call' = [call EXCEPT ![r].stage = "updating"]
     \/ /\ phase = "ready"
        /\ nameIndex[call[r].label] = NoHash
        /\ call' = [call EXCEPT ![r] = Refusal(@)]
        /\ UNCHANGED vars
  /\ UNCHANGED settled

-----------------------------------------------------------------------------
(* An append returns, with an error or without.                            *)

\* Mutant: the error of the update is dropped.
OutcomeUnchecked(c, ok) ==
  CASE c.stage = "entering"            -> [c EXCEPT !.stage = "sign"]
    [] c.stage = "creating" /\ ~ok     -> [c EXCEPT !.stage = "update"]
    [] OTHER                           -> NoCall

\* What the handler does then.  Of the errors only those of a name count: the
\* others are logged.
Outcome(c, ok) ==
  CASE c.stage = "entering"            -> [c EXCEPT !.stage = "sign"]
    [] c.stage = "creating" /\ ~ok     -> [c EXCEPT !.stage = "update"]
    [] c.stage = "updating" /\ ~ok     -> Refusal(c)
    [] OTHER                           -> NoCall

Returned(r, ok) ==
  LET c == [call[r] EXCEPT !.failed = @ \/ ~ok] IN
  /\ c.stage \in Inside
  /\ call' = [call EXCEPT ![r] = Outcome(c, ok)]
  /\ settled' = IF c.kind = "name" /\ Outcome(c, ok) = NoCall /\ settled[c.label] <= c.floor
                  THEN [settled EXCEPT ![c.label] = c.floor + 1]
                  ELSE settled

AppendReturns(r) ==
  \/ Acknowledge /\ Returned(r, TRUE)
  \/ OpenFails /\ Returned(r, FALSE)
  \/ WriteFails /\ Returned(r, FALSE)

AppendProceeds == (Truncate \/ WriteDone) /\ UNCHANGED handlerVars

Starting == (Start \/ StartFails \/ Replay \/ Serve) /\ UNCHANGED handlerVars

\* The handlers die with the process; their clients see the connection close.
Killed ==
  /\ Crash
  /\ call' = [r \in Requests |-> NoCall]
  /\ UNCHANGED settled

Handle(r) ==
  \/ RecordStash(r) \/ RecordCollection(r) \/ RecordRelation(r) \/ Sign(r)
  \/ Create(r) \/ Update(r)

HandlersNext ==
  \/ \E r \in Requests :
       \/ ArriveCreation(r) \/ ArriveName(r) \/ Unstashed(r)
       \/ Handle(r) \/ AppendReturns(r)
  \/ AppendProceeds
  \/ Starting
  \/ Killed

\* A handler that waits for the mutex gets it once it is free and stays so, and
\* an append ends.
HandlersFairness ==
  /\ \A r \in Requests : WF_allVars(Handle(r)) /\ WF_allVars(AppendReturns(r))
  /\ WF_allVars(AppendProceeds)

HandlersSpec == HandlersInit /\ [][HandlersNext]_allVars /\ HandlersFairness

-----------------------------------------------------------------------------
(* Properties.                                                             *)

HandlersTypeOK ==
  /\ TypeOK
  /\ call \in [Requests -> Call]
  /\ settled \in [Labels -> 0..(MaxLog + 1)]
  /\ phase \in Appending <=> \E r \in Requests : call[r].stage \in Inside

\* A request is answered with an error only if an append (or the stash) of its own
\* failed: that another request creates the name between the two tries, or that
\* other requests' saves fail, is never held against it.
ErrorsAreOwn == \A r \in Requests : call[r].refused => call[r].failed

\* After a name request was answered with 200, the label is served, by this process
\* and by every later one, from the entry of that request or of one appended
\* since the request arrived; a request that failed before then never takes the
\* name back, although its entry may still reach log.json.
NamedSince(L, P, l) == \E i \in NamePositions(L, P, l) : i >= settled[l]

AnsweredNamesStay ==
  \A l \in Labels : settled[l] > 0 =>
    /\ phase = "ready" =>
         /\ NamedSince(log, indexed, l)
         /\ IsNameOf(nameIndex[l], log, indexed, l)
    /\ disk # Torn => Readable /\ NamedSince(disk, 1..Len(disk), l)

\* A creator's capability is never without its object: in every log in memory and
\* on disk the entry of the object comes before it, whichever appends failed and
\* wherever the process was killed.
RecordedFirst(L) ==
  \A i \in 1..Len(L) : L[i].op = "capability" =>
    \E j \in 1..(i - 1) : L[j].op \in Creations /\ L[j].hash = L[i].cap.hash

CapabilityFollowsObject == RecordedFirst(log) /\ (Readable => RecordedFirst(disk))

\* Every request is answered in the end, unless the process is killed.
EveryRequestAnswered ==
  \A r \in Requests : call[r].stage # "idle" ~> call[r].stage = "idle"
=============================================================================
