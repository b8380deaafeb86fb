--------------------------- MODULE MetadataStore ---------------------------
(***************************************************************************)
(* One process's metadata store (internal/metadata): the log it keeps in   *)
(* memory, the file log.json it rewrites on every append, and the five     *)
(* indexes it derives from the log.  The store's mutex makes an append     *)
(* exclusive with every other append and query of the same process, so at  *)
(* most one append is in progress; a crash, an unsuccessful write and a    *)
(* reader of the file that does not hold the mutex see its intermediate    *)
(* states, which is why one append takes several steps here.               *)
(***************************************************************************)
EXTENDS Naturals, Sequences

CONSTANTS
  Hashes,         \* object addresses (MD5 strings)
  Labels,         \* full names, "namespace/label"
  Tags,           \* hashtags, in lower case
  TagsOf,         \* the tags ParseTags finds in the content with a given address
  Days,           \* dates, YYYY-MM-DD
  Rels,           \* relation predicates
  Capabilities,   \* capability payloads: records with at least id, principal
  NoHash,         \* the name index has no entry for a label
  NoCapability,   \* the capability index has no entry for an ID
  Absent,         \* log.json does not exist yet
  Torn,           \* log.json is truncated: not a complete JSON document
  MaxLog          \* bound on the length of the log

ASSUME TagsOfAssumption == TagsOf \in [Hashes -> SUBSET Tags]
ASSUME NoHashAssumption == NoHash \notin Hashes
ASSUME NoCapabilityAssumption == NoCapability \notin Capabilities
ASSUME MaxLogAssumption == MaxLog \in Nat

Ids        == {c.id : c \in Capabilities}
Principals == {c.principal : c \in Capabilities}

-----------------------------------------------------------------------------
(* Log entries: Entry.Op and the part of Entry.Payload the indexes read.   *)

StashEntry      == [op : {"stash"}, hash : Hashes, tags : SUBSET Tags, day : Days]
CollectionEntry == [op : {"collection"}, hash : Hashes]
RelationEntry   == [op : {"relation"}, hash : Hashes, from : Hashes, rel : Rels, to : Hashes]
NameEntry       == [op : {"name-create", "name-update"}, label : Labels, hash : Hashes]
CapabilityEntry == [op : {"capability"}, cap : Capabilities]
RevokeEntry     == [op : {"capability-revoke"}, id : Ids]

Entry == UNION {StashEntry, CollectionEntry, RelationEntry, NameEntry,
                CapabilityEntry, RevokeEntry}

Log == Seq(Entry)

ASSUME FileAssumption == Torn \notin Log /\ Absent \notin Log /\ Torn # Absent

VARIABLES
  phase,            \* where the process is: down, starting, serving, inside append
  log,              \* Store.Log
  disk,             \* the content of log.json
  cursor,           \* loop variable of buildIndexes
  tagIndex,         \* TagIndex.data
  dateIndex,        \* DateIndex.data
  nameIndex,        \* NameIndex.data
  relationIndex,    \* RelationIndex.byFrom, byTo, byRel
  capabilityIndex,  \* CapabilityIndex.byPrincipal, byID, all
  indexed,          \* history: positions of log the indexes have been given
  acked             \* history: <<position, entry>> of every append that returned nil

indexVars == <<tagIndex, dateIndex, nameIndex, relationIndex, capabilityIndex>>
vars == <<phase, log, disk, cursor, indexVars, indexed, acked>>

Appending == {"saving", "writing", "saved"}
Up        == {"replay", "ready"} \cup Appending
Phases    == Up \cup {"down", "corrupt"}

-----------------------------------------------------------------------------
(* The indexes: what each one's Add does with an entry.                    *)

EmptyTagIndex  == [t \in Tags |-> {}]
EmptyDateIndex == [d \in Days |-> {}]
EmptyNameIndex == [l \in Labels |-> NoHash]
EmptyRelationIndex ==
  [from |-> [h \in Hashes |-> <<>>],
   to   |-> [h \in Hashes |-> <<>>],
   rel  |-> [r \in Rels |-> <<>>]]
EmptyCapabilityIndex ==
  [byPrincipal |-> [p \in Principals |-> <<>>],
   byID        |-> [i \in Ids |-> NoCapability],
   all         |-> <<>>]

IsName(e) == e.op \in {"name-create", "name-update"}

\* Hashes under a key are kept without duplicates (appendUnique); their order
\* is not told apart.
TagAdd(idx, e) ==
  IF e.op = "stash"
    THEN [t \in Tags |-> IF t \in e.tags THEN idx[t] \cup {e.hash} ELSE idx[t]]
    ELSE idx

DateAdd(idx, e) ==
  IF e.op = "stash" THEN [idx EXCEPT ![e.day] = @ \cup {e.hash}] ELSE idx

\* Mutant: the name index takes its own key for the hash.
NameAddKey(idx, e) ==
  IF IsName(e) THEN [idx EXCEPT ![e.label] = e.label] ELSE idx

\* Mutant: only creations are indexed.
NameAddCreations(idx, e) ==
  IF e.op = "name-create" THEN [idx EXCEPT ![e.label] = e.hash] ELSE idx

NameAdd(idx, e) ==
  IF IsName(e) THEN [idx EXCEPT ![e.label] = e.hash] ELSE idx

RelationAdd(idx, e) ==
  IF e.op = "relation"
    THEN [from |-> [idx.from EXCEPT ![e.from] = Append(@, e)],
          to   |-> [idx.to   EXCEPT ![e.to]   = Append(@, e)],
          rel  |-> [idx.rel  EXCEPT ![e.rel]  = Append(@, e)]]
    ELSE idx

CapabilityAdd(idx, e) ==
  IF e.op = "capability"
    THEN [byPrincipal |-> [idx.byPrincipal EXCEPT ![e.cap.principal] = Append(@, e.cap)],
          byID        |-> [idx.byID EXCEPT ![e.cap.id] = e.cap],
          all         |-> Append(idx.all, e.cap)]
    ELSE idx

IndexEntry(e) ==
  /\ tagIndex'        = TagAdd(tagIndex, e)
  /\ dateIndex'       = DateAdd(dateIndex, e)
  /\ nameIndex'       = NameAdd(nameIndex, e)
  /\ relationIndex'   = RelationAdd(relationIndex, e)
  /\ capabilityIndex' = CapabilityAdd(capabilityIndex, e)

EmptyIndexes ==
  /\ tagIndex        = EmptyTagIndex
  /\ dateIndex       = EmptyDateIndex
  /\ nameIndex       = EmptyNameIndex
  /\ relationIndex   = EmptyRelationIndex
  /\ capabilityIndex = EmptyCapabilityIndex

-----------------------------------------------------------------------------
Init ==
  /\ phase = "down"
  /\ log = <<>>
  /\ disk = Absent
  /\ cursor = 0
  /\ EmptyIndexes
  /\ indexed = {}
  /\ acked = {}

\* New and load: a missing file is an empty log.
Start ==
  /\ phase = "down"
  /\ disk # Torn
  /\ phase' = "replay"
  /\ log' = IF disk = Absent THEN <<>> ELSE disk
  /\ UNCHANGED <<disk, cursor, indexVars, indexed, acked>>

\* load returns Unmarshal's error, New returns it and main exits.
StartFails ==
  /\ phase = "down"
  /\ disk = Torn
  /\ phase' = "corrupt"
  /\ UNCHANGED <<log, disk, cursor, indexVars, indexed, acked>>

\* One iteration of buildIndexes' loop over the log.
Replay ==
  /\ phase = "replay"
  /\ cursor < Len(log)
  /\ IndexEntry(log[cursor + 1])
  /\ cursor' = cursor + 1
  /\ indexed' = indexed \cup {cursor + 1}
  /\ UNCHANGED <<phase, log, disk, acked>>

\* buildIndexes is done and New returns the store.
Serve ==
  /\ phase = "replay"
  /\ cursor = Len(log)
  /\ phase' = "ready"
  /\ UNCHANGED <<log, disk, cursor, indexVars, indexed, acked>>

\* The mutex is taken and the entry is in Store.Log; save has not touched the
\* file yet.
BeginAppend(e) ==
  /\ phase = "ready"
  /\ Len(log) < MaxLog
  /\ log' = Append(log, e)
  /\ phase' = "saving"
  /\ UNCHANGED <<disk, cursor, indexVars, indexed, acked>>

AppendStash(h, d) ==
  BeginAppend([op |-> "stash", hash |-> h, tags |-> TagsOf[h], day |-> d])

AppendCollection(h) ==
  BeginAppend([op |-> "collection", hash |-> h])

AppendRelation(h, from, rel, to) ==
  BeginAppend([op |-> "relation", hash |-> h, from |-> from, rel |-> rel, to |-> to])

\* Mutants: the name index is not consulted.
CreateUnchecked(l, h) == BeginAppend([op |-> "name-create", label |-> l, hash |-> h])
UpdateUnchecked(l, h) == BeginAppend([op |-> "name-update", label |-> l, hash |-> h])

\* "name already exists" is returned without any effect.
AppendNameCreate(l, h) ==
  /\ nameIndex[l] = NoHash
  /\ BeginAppend([op |-> "name-create", label |-> l, hash |-> h])

\* "name does not exist" is returned without any effect.
AppendNameUpdate(l, h) ==
  /\ nameIndex[l] # NoHash
  /\ BeginAppend([op |-> "name-update", label |-> l, hash |-> h])

AppendCapability(c) ==
  BeginAppend([op |-> "capability", cap |-> c])

AppendCapabilityRevoke(i) ==
  BeginAppend([op |-> "capability-revoke", id |-> i])

\* os.WriteFile opens log.json with O_CREATE and O_TRUNC ...
Truncate ==
  /\ phase = "saving"
  /\ disk' = Torn
  /\ phase' = "writing"
  /\ UNCHANGED <<log, cursor, indexVars, indexed, acked>>

\* Mutant: save's error is dropped.
OpenFailureIgnored ==
  /\ phase = "saving"
  /\ phase' = "saved"
  /\ UNCHANGED <<log, disk, cursor, indexVars, indexed, acked>>

\* ... or the open fails and append returns the error; the entry stays in
\* Store.Log and no index is given it.
OpenFails ==
  /\ phase = "saving"
  /\ phase' = "ready"
  /\ UNCHANGED <<log, disk, cursor, indexVars, indexed, acked>>

\* Mutant: the log is marshalled before the new entry is in it.
WriteWithoutLast ==
  /\ phase = "writing"
  /\ disk' = SubSeq(log, 1, Len(log) - 1)
  /\ phase' = "saved"
  /\ UNCHANGED <<log, cursor, indexVars, indexed, acked>>

\* The whole log has been written.
WriteDone ==
  /\ phase = "writing"
  /\ disk' = log
  /\ phase' = "saved"
  /\ UNCHANGED <<log, cursor, indexVars, indexed, acked>>

\* Mutant: a short write is taken for a complete one.
ShortWriteIgnored ==
  /\ phase = "writing"
  /\ phase' = "saved"
  /\ UNCHANGED <<log, disk, cursor, indexVars, indexed, acked>>

\* The write fails part of the way (a full disk): append returns the error
\* and the file stays truncated until the next append that succeeds.
WriteFails ==
  /\ phase = "writing"
  /\ phase' = "ready"
  /\ UNCHANGED <<log, disk, cursor, indexVars, indexed, acked>>

\* Mutant: the loop over the indexes ends one early.
AcknowledgePartly ==
  /\ phase = "saved"
  /\ LET e == log[Len(log)] IN
       /\ tagIndex' = TagAdd(tagIndex, e)
       /\ dateIndex' = DateAdd(dateIndex, e)
       /\ nameIndex' = NameAdd(nameIndex, e)
       /\ relationIndex' = RelationAdd(relationIndex, e)
  /\ indexed' = indexed \cup {Len(log)}
  /\ acked' = acked \cup {<<Len(log), log[Len(log)]>>}
  /\ phase' = "ready"
  /\ UNCHANGED <<log, disk, cursor, capabilityIndex>>

\* save returned nil: the entry is given to every index and append returns.
Acknowledge ==
  /\ phase = "saved"
  /\ IndexEntry(log[Len(log)])
  /\ indexed' = indexed \cup {Len(log)}
  /\ acked' = acked \cup {<<Len(log), log[Len(log)]>>}
  /\ phase' = "ready"
  /\ UNCHANGED <<log, disk, cursor>>

\* The process dies; only the file survives.
Crash ==
  /\ phase \in Up
  /\ phase' = "down"
  /\ log' = <<>>
  /\ cursor' = 0
  /\ tagIndex' = EmptyTagIndex
  /\ dateIndex' = EmptyDateIndex
  /\ nameIndex' = EmptyNameIndex
  /\ relationIndex' = EmptyRelationIndex
  /\ capabilityIndex' = EmptyCapabilityIndex
  /\ indexed' = {}
  /\ UNCHANGED <<disk, acked>>

AppendCall ==
  \/ \E h \in Hashes, d \in Days : AppendStash(h, d)
  \/ \E h \in Hashes : AppendCollection(h)
  \/ \E h, from, to \in Hashes, rel \in Rels : AppendRelation(h, from, rel, to)
  \/ \E l \in Labels, h \in Hashes : AppendNameCreate(l, h)
  \/ \E l \in Labels, h \in Hashes : AppendNameUpdate(l, h)
  \/ \E c \in Capabilities : AppendCapability(c)
  \/ \E i \in Ids : AppendCapabilityRevoke(i)

AppendStep == Truncate \/ OpenFails \/ WriteDone \/ WriteFails \/ Acknowledge

Lifecycle == Start \/ StartFails \/ Replay \/ Serve \/ Crash

Next == AppendCall \/ AppendStep \/ Lifecycle

Spec == Init /\ [][Next]_vars

-----------------------------------------------------------------------------
(* Queries.                                                                *)

Readable == disk \notin {Torn, Absent}

\* The positions of L that name l, among those in P.
NamePositions(L, P, l) == {i \in P : IsName(L[i]) /\ L[i].label = l}

\* h is what the last entry that names l says, among the positions in P;
\* NoHash when there is none.
IsNameOf(h, L, P, l) ==
  \/ NamePositions(L, P, l) = {} /\ h = NoHash
  \/ \E i \in NamePositions(L, P, l) :
       /\ \A j \in NamePositions(L, P, l) : j <= i
       /\ h = L[i].hash

-----------------------------------------------------------------------------
(* Properties.                                                             *)

IndexTypeOK ==
  /\ tagIndex \in [Tags -> SUBSET Hashes]
  /\ dateIndex \in [Days -> SUBSET Hashes]
  /\ nameIndex \in [Labels -> Hashes \cup {NoHash}]
  /\ relationIndex \in [from : [Hashes -> Seq(RelationEntry)],
                        to   : [Hashes -> Seq(RelationEntry)],
                        rel  : [Rels -> Seq(RelationEntry)]]
  /\ capabilityIndex \in [byPrincipal : [Principals -> Seq(Capabilities)],
                          byID        : [Ids -> Capabilities \cup {NoCapability}],
                          all         : Seq(Capabilities)]

TypeOK ==
  /\ phase \in Phases
  /\ log \in Log
  /\ disk \in Log \cup {Torn, Absent}
  /\ cursor \in Nat
  /\ IndexTypeOK
  /\ indexed \subseteq Nat
  /\ acked \subseteq (Nat \X Entry)
  /\ phase \in Appending => log # <<>>

\* An append that returned nil is never lost and never moves: whenever log.json
\* is a complete document it holds the entry at the position it was given, over
\* failed saves, crashes in the middle of a save, and restarts.
AckedDurable ==
  disk # Torn =>
    \A a \in acked : Readable /\ a[1] \in 1..Len(disk) /\ disk[a[1]] = a[2]

\* The name index answers with the last entry for the label, among the entries
\* the indexes were given: every entry of the log but those whose save failed
\* since the process started.
NamesAreProjection ==
  phase \in Up => \A l \in Labels : IsNameOf(nameIndex[l], log, indexed, l)

\* In every log the code can produce, in memory or on disk, an update of a name
\* comes after a creation of it: the check in AppendNameUpdate reads an index,
\* not the log, and that index is rebuilt after each crash.
Created(L) ==
  \A i \in 1..Len(L) : L[i].op = "name-update" =>
    \E j \in 1..(i - 1) : L[j].op = "name-create" /\ L[j].label = L[i].label

UpdatesFollowCreate == Created(log) /\ (Readable => Created(disk))

\* A creation that was acknowledged is the last creation of its label: whatever
\* fails or crashes afterwards, AppendNameCreate refuses the label.  (A creation
\* whose save failed may be repeated: the entry is in the log, not in the index.)
NotRecreated(L) ==
  \A i, j \in 1..Len(L) :
    /\ i < j
    /\ L[i].op = "name-create"
    /\ L[j].op = "name-create"
    /\ L[i].label = L[j].label
    => <<i, L[i]>> \notin acked

AckedCreateIsLast == NotRecreated(log) /\ (Readable => NotRecreated(disk))

\* SETUP.md:115: the log is the source of truth and the indexes are projections
\* from it.  Restarting the process would then change no answer: what a serving
\* process says of a name is what a replay of log.json says.
NamesMatchDisk ==
  phase = "ready" /\ Readable =>
    \A l \in Labels : IsNameOf(nameIndex[l], disk, 1..Len(disk), l)

-----------------------------------------------------------------------------
(* Why the properties above hold: the inductive invariant of the store.    *)

\* A process that is down has nothing but the file.
DownIsBlank ==
  phase \in {"down", "corrupt"} =>
    /\ log = <<>>
    /\ cursor = 0
    /\ nameIndex = EmptyNameIndex
    /\ indexed = {}

\* The file, when it is complete, holds the beginning of the log in memory; the
\* acknowledged entries are in both; after a save the two are equal.
FileIsPrefix ==
  /\ phase \in Up /\ Readable =>
       /\ Len(disk) <= Len(log)
       /\ \A i \in 1..Len(disk) : disk[i] = log[i]
  /\ phase \in Up => \A a \in acked : a[1] \in 1..Len(log) /\ log[a[1]] = a[2]
  /\ phase = "saved" => disk = log

\* The indexes have seen every acknowledged entry once the process serves, and
\* not yet the entry of the append in progress.
IndexedCoversAcked ==
  /\ indexed \subseteq 1..Len(log)
  /\ phase = "replay" => cursor <= Len(log) /\ indexed = 1..cursor
  /\ phase \in {"ready"} \cup Appending => \A a \in acked : a[1] \in indexed
  /\ phase \in Appending => Len(log) \notin indexed

\* The conjunction that every step of the store preserves: it is what makes
\* AckedDurable, NamesAreProjection, UpdatesFollowCreate and AckedCreateIsLast
\* hold, none of which is inductive by itself.
StoreInv ==
  /\ DownIsBlank
  /\ FileIsPrefix
  /\ IndexedCoversAcked
  /\ AckedDurable
  /\ NamesAreProjection
  /\ UpdatesFollowCreate
  /\ AckedCreateIsLast
-----------------------------------------------------------------------------
(* The promise the store implements.  While the process is down the log is *)
(* what the file holds.                                                    *)

Lost == phase \in {"down", "corrupt"} /\ disk = Torn

Events == IF phase \in Up THEN log ELSE IF Readable THEN disk ELSE <<>>

Promise == INSTANCE EventLog WITH
  Event <- Entry, events <- Events, kept <- acked, lost <- Lost

\* Every step of an append, of a restart and of a crash is a step of the event
\* log or leaves it unchanged: in particular a crash drops only entries at the
\* end whose append was never acknowledged, unless the file is truncated then.
ImplementsEventLog == Promise!Spec
=============================================================================
