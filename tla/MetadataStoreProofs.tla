------------------------ MODULE MetadataStoreProofs ------------------------
(***************************************************************************)
(* Proofs about MetadataStore and its queries, for every value of their    *)
(* constants.                                                              *)
(***************************************************************************)
EXTENDS MetadataQueries, SequenceTheorems, WellFoundedInduction, TLAPS

-----------------------------------------------------------------------------
(* Least and greatest numbers.                                             *)

LEMMA LeastNatural ==
  ASSUME NEW S \in SUBSET Nat, S # {}
  PROVE  \E m \in S : \A n \in S : m <= n
<1> DEFINE R == OpToRel(<, Nat)
<1>1. IsWellFoundedOn(R, Nat)
  BY NatLessThanWellFounded
<1>2. ASSUME NEW x \in Nat, NEW y \in Nat, y < x
      PROVE  <<y, x>> \in R
  BY <1>2 DEF OpToRel
<1> HIDE DEF R
<1>3. PICK m \in S : \A n \in S : ~ (<<n, m>> \in R)
  BY <1>1, WFMin
<1>4. ASSUME NEW n \in S
      PROVE  m <= n
  <2>1. m \in Nat /\ n \in Nat /\ ~(n < m)
    BY <1>2, <1>3
  <2>2. QED
    BY <2>1
<1>5. QED
  BY <1>4

LEMMA GreatestNatural ==
  ASSUME NEW b \in Nat, NEW S \in SUBSET (0..b), S # {}
  PROVE  \E m \in S : \A n \in S : n <= m
<1> DEFINE T == {b - k : k \in S}
<1>1. T \in SUBSET Nat /\ T # {}
  <2>1. \A k \in S : b - k \in Nat
    OBVIOUS
  <2>2. QED
    BY <2>1
<1>2. PICK m \in T : \A n \in T : m <= n
  BY <1>1, LeastNatural
<1>3. PICK k \in S : m = b - k
  OBVIOUS
<1>4. ASSUME NEW n \in S
      PROVE  n <= k
  <2>1. b - k <= b - n
    BY <1>2, <1>3
  <2>2. QED
    BY <2>1
<1>5. QED
  BY <1>4

-----------------------------------------------------------------------------
(* Facts about entries and indexes.                                        *)

\* An entry's op tells which kind of entry it is.
LEMMA EntryKinds ==
  ASSUME NEW e \in Entry
  PROVE  /\ e.op = "stash" => e \in StashEntry
         /\ e.op = "relation" => e \in RelationEntry
         /\ IsName(e) => e \in NameEntry
         /\ e.op = "capability" => e \in CapabilityEntry
BY DEF Entry, StashEntry, CollectionEntry, RelationEntry, NameEntry, CapabilityEntry,
       RevokeEntry, IsName

\* The empty indexes are indexes.
LEMMA EmptyIndexesType ==
  /\ EmptyTagIndex \in [Tags -> SUBSET Hashes]
  /\ EmptyDateIndex \in [Days -> SUBSET Hashes]
  /\ EmptyNameIndex \in [Labels -> Hashes \cup {NoHash}]
  /\ EmptyRelationIndex \in [from : [Hashes -> Seq(RelationEntry)],
                             to   : [Hashes -> Seq(RelationEntry)],
                             rel  : [Rels -> Seq(RelationEntry)]]
  /\ EmptyCapabilityIndex \in [byPrincipal : [Principals -> Seq(Capabilities)],
                               byID        : [Ids -> Capabilities \cup {NoCapability}],
                               all         : Seq(Capabilities)]
BY EmptySeq DEF EmptyTagIndex, EmptyDateIndex, EmptyNameIndex, EmptyRelationIndex,
                EmptyCapabilityIndex

\* Giving an entry to the indexes leaves them indexes.
LEMMA IndexEntryType ==
  ASSUME IndexTypeOK, NEW e \in Entry, IndexEntry(e)
  PROVE  IndexTypeOK'
<1>1. tagIndex' \in [Tags -> SUBSET Hashes]
  BY EntryKinds DEF IndexTypeOK, IndexEntry, TagAdd, StashEntry
<1>2. dateIndex' \in [Days -> SUBSET Hashes]
  BY EntryKinds DEF IndexTypeOK, IndexEntry, DateAdd, StashEntry
<1>3. nameIndex' \in [Labels -> Hashes \cup {NoHash}]
  BY EntryKinds DEF IndexTypeOK, IndexEntry, NameAdd, NameEntry
<1>4. relationIndex' \in [from : [Hashes -> Seq(RelationEntry)],
                          to   : [Hashes -> Seq(RelationEntry)],
                          rel  : [Rels -> Seq(RelationEntry)]]
  <2>1. CASE e.op # "relation"
    BY <2>1 DEF IndexTypeOK, IndexEntry, RelationAdd
  <2>2. CASE e.op = "relation"
    <3>1. e \in RelationEntry
      BY <2>2, EntryKinds
    <3>2. /\ e.from \in Hashes /\ e.to \in Hashes /\ e.rel \in Rels
      BY <3>1 DEF RelationEntry
    <3>3. \A s \in Seq(RelationEntry) : Append(s, e) \in Seq(RelationEntry)
      BY <3>1, AppendProperties
    <3>4. [relationIndex.from EXCEPT ![e.from] = Append(@, e)] \in [Hashes -> Seq(RelationEntry)]
      BY <3>2, <3>3 DEF IndexTypeOK
    <3>5. [relationIndex.to EXCEPT ![e.to] = Append(@, e)] \in [Hashes -> Seq(RelationEntry)]
      BY <3>2, <3>3 DEF IndexTypeOK
    <3>6. [relationIndex.rel EXCEPT ![e.rel] = Append(@, e)] \in [Rels -> Seq(RelationEntry)]
      BY <3>2, <3>3 DEF IndexTypeOK
    <3>7. QED
      BY <2>2, <3>4, <3>5, <3>6 DEF IndexEntry, RelationAdd
  <2>3. QED
    BY <2>1, <2>2
<1>5. capabilityIndex' \in [byPrincipal : [Principals -> Seq(Capabilities)],
                            byID        : [Ids -> Capabilities \cup {NoCapability}],
                            all         : Seq(Capabilities)]
  <2>1. CASE e.op # "capability"
    BY <2>1 DEF IndexTypeOK, IndexEntry, CapabilityAdd
  <2>2. CASE e.op = "capability"
    <3>1. e.cap \in Capabilities
      BY <2>2, EntryKinds DEF CapabilityEntry
    <3>2. e.cap.principal \in Principals /\ e.cap.id \in Ids
      BY <3>1 DEF Principals, Ids
    <3>3. \A s \in Seq(Capabilities) : Append(s, e.cap) \in Seq(Capabilities)
      BY <3>1, AppendProperties
    <3>4. [capabilityIndex.byPrincipal EXCEPT ![e.cap.principal] = Append(@, e.cap)]
            \in [Principals -> Seq(Capabilities)]
      BY <3>2, <3>3 DEF IndexTypeOK
    <3>5. [capabilityIndex.byID EXCEPT ![e.cap.id] = e.cap]
            \in [Ids -> Capabilities \cup {NoCapability}]
      BY <3>1, <3>2 DEF IndexTypeOK
    <3>6. Append(capabilityIndex.all, e.cap) \in Seq(Capabilities)
      BY <3>3 DEF IndexTypeOK
    <3>7. QED
      BY <2>2, <3>4, <3>5, <3>6 DEF IndexEntry, CapabilityAdd
  <2>3. QED
    BY <2>1, <2>2
<1>6. QED
  BY <1>1, <1>2, <1>3, <1>4, <1>5 DEF IndexTypeOK

\* Every append begins by putting one entry at the end of the log.
LEMMA AppendCallBegins ==
  ASSUME AppendCall
  PROVE  \E e \in Entry : BeginAppend(e)
<1>1. ASSUME NEW h \in Hashes, NEW d \in Days, AppendStash(h, d)
      PROVE  \E e \in Entry : BeginAppend(e)
  BY <1>1, TagsOfAssumption DEF AppendStash, Entry, StashEntry
<1>2. ASSUME NEW h \in Hashes, AppendCollection(h)
      PROVE  \E e \in Entry : BeginAppend(e)
  BY <1>2 DEF AppendCollection, Entry, CollectionEntry
<1>3. ASSUME NEW h \in Hashes, NEW from \in Hashes, NEW to \in Hashes, NEW rel \in Rels,
             AppendRelation(h, from, rel, to)
      PROVE  \E e \in Entry : BeginAppend(e)
  BY <1>3 DEF AppendRelation, Entry, RelationEntry
<1>4. ASSUME NEW l \in Labels, NEW h \in Hashes, AppendNameCreate(l, h) \/ AppendNameUpdate(l, h)
      PROVE  \E e \in Entry : BeginAppend(e)
  BY <1>4 DEF AppendNameCreate, AppendNameUpdate, Entry, NameEntry
<1>5. ASSUME NEW c \in Capabilities, AppendCapability(c)
      PROVE  \E e \in Entry : BeginAppend(e)
  BY <1>5 DEF AppendCapability, Entry, CapabilityEntry
<1>6. ASSUME NEW i \in Ids, AppendCapabilityRevoke(i)
      PROVE  \E e \in Entry : BeginAppend(e)
  BY <1>6 DEF AppendCapabilityRevoke, Entry, RevokeEntry
<1>7. QED
  BY <1>1, <1>2, <1>3, <1>4, <1>5, <1>6 DEF AppendCall

-----------------------------------------------------------------------------
(* Type correctness.                                                       *)

LEMMA InitType == Init => TypeOK
BY EmptyIndexesType, EmptySeq
   DEF Init, TypeOK, IndexTypeOK, EmptyIndexes, Phases, Appending, Log

\* No step of the store leaves the types.
LEMMA NextType == TypeOK /\ [Next]_vars => TypeOK'
<1> SUFFICES ASSUME TypeOK, [Next]_vars
             PROVE  TypeOK'
  OBVIOUS
<1> USE DEF Phases, Up, Appending, Log
<1>1. CASE AppendCall
  <2>1. PICK e \in Entry : BeginAppend(e)
    BY <1>1, AppendCallBegins
  <2>2. log' \in Seq(Entry) /\ Len(log') = Len(log) + 1
    BY <2>1, AppendProperties DEF BeginAppend, TypeOK
  <2>3. log' # <<>>
    BY <2>2
  <2>4. QED
    BY <2>1, <2>2, <2>3 DEF BeginAppend, TypeOK, IndexTypeOK, indexVars
<1>2. CASE Start
  <2>1. log' \in Seq(Entry)
    BY <1>2, EmptySeq DEF Start, TypeOK
  <2>2. QED
    BY <1>2, <2>1 DEF Start, TypeOK, IndexTypeOK, indexVars
<1>3. CASE Replay
  <2>1. cursor + 1 \in 1..Len(log)
    BY <1>3, LenProperties DEF Replay, TypeOK
  <2>2. log[cursor + 1] \in Entry
    BY <2>1, ElementOfSeq DEF TypeOK
  <2>3. IndexTypeOK'
    BY <1>3, <2>2, IndexEntryType DEF Replay, TypeOK
  <2>4. QED
    BY <1>3, <2>1, <2>3 DEF Replay, TypeOK
<1>4. CASE Acknowledge
  <2>1. Len(log) \in 1..Len(log)
    BY <1>4, EmptySeq, LenProperties DEF Acknowledge, TypeOK
  <2>2. log[Len(log)] \in Entry
    BY <2>1, ElementOfSeq DEF TypeOK
  <2>3. IndexTypeOK'
    BY <1>4, <2>2, IndexEntryType DEF Acknowledge, TypeOK
  <2>4. /\ indexed' \subseteq Nat
        /\ acked' \subseteq (Nat \X Entry)
    <3>1. Len(log) \in Nat /\ <<Len(log), log[Len(log)]>> \in Nat \X Entry
      BY <2>2, LenProperties DEF TypeOK
    <3>2. QED
      BY <1>4, <3>1 DEF Acknowledge, TypeOK
  <2>5. phase' = "ready" /\ UNCHANGED <<log, disk, cursor>>
    BY <1>4 DEF Acknowledge
  <2>6. QED
    BY <2>3, <2>4, <2>5 DEF TypeOK
<1>5. CASE StartFails
  BY <1>5 DEF StartFails, TypeOK, IndexTypeOK, indexVars
<1>6. CASE Serve
  BY <1>6 DEF Serve, TypeOK, IndexTypeOK, indexVars
<1>7. CASE Truncate
  BY <1>7 DEF Truncate, TypeOK, IndexTypeOK, indexVars
<1>8. CASE OpenFails
  BY <1>8 DEF OpenFails, TypeOK, IndexTypeOK, indexVars
<1>9. CASE WriteDone
  BY <1>9 DEF WriteDone, TypeOK, IndexTypeOK, indexVars
<1>10. CASE WriteFails
  BY <1>10 DEF WriteFails, TypeOK, IndexTypeOK, indexVars
<1>11. CASE Crash
  BY <1>11, EmptyIndexesType, EmptySeq DEF Crash, TypeOK, IndexTypeOK
<1>12. CASE UNCHANGED vars
  BY <1>12 DEF vars, TypeOK, IndexTypeOK, indexVars
<1>13. QED
  BY <1>1, <1>2, <1>3, <1>4, <1>5, <1>6, <1>7, <1>8, <1>9, <1>10, <1>11, <1>12
     DEF Next, AppendStep, Lifecycle

\* The store's variables keep their types in every reachable state, for every
\* set of hashes, labels, capabilities and every length of the log.
THEOREM TypeCorrect == Spec => []TypeOK
BY InitType, NextType, PTL DEF Spec

-----------------------------------------------------------------------------
(* Durability of acknowledged entries.                                     *)

DurableInv == DownIsBlank /\ FileIsPrefix /\ AckedDurable

LEMMA InitDurable == Init => DurableInv
BY FileAssumption
   DEF Init, EmptyIndexes, DurableInv, DownIsBlank, FileIsPrefix, AckedDurable, Up,
       Appending, Readable

\* The file keeps every acknowledged entry over every step: a save rewrites it
\* from a log that holds them all, a crash leaves it alone.
LEMMA NextDurable == TypeOK /\ DurableInv /\ [Next]_vars => DurableInv'
<1> SUFFICES ASSUME TypeOK, DurableInv, [Next]_vars
             PROVE  DurableInv'
  OBVIOUS
<1> USE DEF Phases, Up, Appending, Log, Readable
<1>1. CASE AppendCall
  <2>1. PICK e \in Entry : BeginAppend(e)
    BY <1>1, AppendCallBegins
  <2>2. /\ Len(log') = Len(log) + 1
        /\ Len(log) \in Nat
        /\ \A i \in 1..Len(log) : log'[i] = log[i]
    BY <2>1, AppendProperties, LenProperties DEF BeginAppend, TypeOK
  <2>3. /\ phase = "ready" /\ phase' = "saving"
        /\ UNCHANGED <<disk, cursor, indexVars, indexed, acked>>
    BY <2>1 DEF BeginAppend
  <2>4. FileIsPrefix'
    <3>1. Readable' => Len(disk') <= Len(log')
      BY <2>2, <2>3, LenProperties DEF DurableInv, FileIsPrefix, TypeOK
    <3>2. Readable' => \A i \in 1..Len(disk') : disk'[i] = log'[i]
      BY <2>2, <2>3, LenProperties DEF DurableInv, FileIsPrefix, TypeOK
    <3>3. \A a \in acked' : a[1] \in 1..Len(log') /\ log'[a[1]] = a[2]
      BY <2>2, <2>3 DEF DurableInv, FileIsPrefix
    <3>4. QED
      BY <2>3, <3>1, <3>2, <3>3 DEF FileIsPrefix
  <2>5. DownIsBlank' /\ AckedDurable'
    BY <2>3 DEF DurableInv, DownIsBlank, AckedDurable
  <2>6. QED
    BY <2>4, <2>5 DEF DurableInv
<1>2. CASE Start
  <2>1. AckedDurable' /\ DownIsBlank'
    BY <1>2 DEF Start, DurableInv, DownIsBlank, AckedDurable
  <2>2. CASE disk = Absent
    BY <1>2, <2>1, <2>2 DEF Start, DurableInv, FileIsPrefix, AckedDurable
  <2>3. CASE disk # Absent
    BY <1>2, <2>1, <2>3, LenProperties DEF Start, DurableInv, FileIsPrefix, AckedDurable, TypeOK
  <2>4. QED
    BY <2>2, <2>3
<1>3. CASE StartFails
  BY <1>3 DEF StartFails, indexVars, DurableInv, DownIsBlank, FileIsPrefix, AckedDurable
<1>4. CASE Replay
  BY <1>4 DEF Replay, DurableInv, DownIsBlank, FileIsPrefix, AckedDurable
<1>5. CASE Serve
  BY <1>5 DEF Serve, DurableInv, DownIsBlank, FileIsPrefix, AckedDurable
<1>6. CASE Truncate
  BY <1>6, FileAssumption DEF Truncate, DurableInv, DownIsBlank, FileIsPrefix, AckedDurable
<1>7. CASE OpenFails
  BY <1>7 DEF OpenFails, DurableInv, DownIsBlank, FileIsPrefix, AckedDurable
<1>8. CASE WriteDone
  <2>1. disk' = log /\ log' = log /\ phase' = "saved" /\ acked' = acked
    BY <1>8 DEF WriteDone
  <2>2. Readable'
    BY <2>1, FileAssumption DEF TypeOK
  <2>3. \A a \in acked : a[1] \in 1..Len(log) /\ log[a[1]] = a[2]
    BY <1>8 DEF WriteDone, DurableInv, FileIsPrefix
  <2>4. QED
    BY <2>1, <2>2, <2>3, LenProperties
       DEF DurableInv, DownIsBlank, FileIsPrefix, AckedDurable, TypeOK
<1>9. CASE WriteFails
  BY <1>9 DEF WriteFails, DurableInv, DownIsBlank, FileIsPrefix, AckedDurable
<1>10. CASE Acknowledge
  <2>1. /\ phase = "saved" /\ phase' = "ready"
        /\ UNCHANGED <<log, disk, cursor>>
        /\ acked' = acked \cup {<<Len(log), log[Len(log)]>>}
    BY <1>10 DEF Acknowledge
  <2>2. Len(log) \in 1..Len(log) /\ disk = log
    BY <2>1, EmptySeq, LenProperties DEF TypeOK, DurableInv, FileIsPrefix
  <2>3. Readable
    BY <2>2, FileAssumption DEF TypeOK
  <2>4. \A a \in acked' : a[1] \in 1..Len(log) /\ log[a[1]] = a[2]
    BY <2>1, <2>2 DEF DurableInv, FileIsPrefix
  <2>5. FileIsPrefix'
    BY <2>1, <2>2, <2>4 DEF DurableInv, FileIsPrefix
  <2>6. QED
    BY <2>1, <2>2, <2>3, <2>4, <2>5 DEF DurableInv, DownIsBlank, AckedDurable
<1>11. CASE Crash
  BY <1>11 DEF Crash, DurableInv, DownIsBlank, FileIsPrefix, AckedDurable
<1>12. CASE UNCHANGED vars
  BY <1>12 DEF vars, indexVars, DurableInv, DownIsBlank, FileIsPrefix, AckedDurable
<1>13. QED
  BY <1>1, <1>2, <1>3, <1>4, <1>5, <1>6, <1>7, <1>8, <1>9, <1>10, <1>11, <1>12
     DEF Next, AppendStep, Lifecycle

LEMMA DurableInvariant == Spec => []DurableInv
BY TypeCorrect, InitDurable, NextDurable, PTL DEF Spec

\* An append that returned nil stays in log.json, at its position, whenever the
\* file is a complete document, whatever saves fail and whenever the process is
\* killed and restarted.
THEOREM AckedEntriesDurable == Spec => []AckedDurable
BY DurableInvariant, PTL DEF DurableInv

-----------------------------------------------------------------------------
(* The name index is a projection of the log.                              *)

\* What a label resolves to depends on the entries at the given positions only.
LEMMA NameOfAgrees ==
  ASSUME NEW L, NEW M, NEW P, NEW l, NEW h,
         \A i \in P : M[i] = L[i],
         IsNameOf(h, L, P, l)
  PROVE  IsNameOf(h, M, P, l)
<1>1. NamePositions(M, P, l) = NamePositions(L, P, l)
  BY DEF NamePositions
<1>2. \A i \in NamePositions(L, P, l) : M[i] = L[i]
  BY DEF NamePositions
<1>3. QED
  BY <1>1, <1>2 DEF IsNameOf

\* Giving the index a later entry keeps it the projection of what it was given.
LEMMA NameAddProjects ==
  ASSUME NEW L \in Seq(Entry), NEW n \in 1..Len(L), NEW P \in SUBSET (1..(n - 1)),
         NEW idx \in [Labels -> Hashes \cup {NoHash}],
         \A l \in Labels : IsNameOf(idx[l], L, P, l)
  PROVE  \A l \in Labels : IsNameOf(NameAdd(idx, L[n])[l], L, P \cup {n}, l)
<1> SUFFICES ASSUME NEW l \in Labels
             PROVE  IsNameOf(NameAdd(idx, L[n])[l], L, P \cup {n}, l)
  OBVIOUS
<1>1. L[n] \in Entry
  BY ElementOfSeq
<1>2. CASE IsName(L[n]) /\ L[n].label = l
  <2>1. n \in NamePositions(L, P \cup {n}, l)
    BY <1>2 DEF NamePositions
  <2>2. \A j \in NamePositions(L, P \cup {n}, l) : j <= n
    BY LenProperties DEF NamePositions
  <2>3. NameAdd(idx, L[n])[l] = L[n].hash
    BY <1>2 DEF NameAdd
  <2>4. QED
    BY <2>1, <2>2, <2>3 DEF IsNameOf
<1>3. CASE ~(IsName(L[n]) /\ L[n].label = l)
  <2>1. NamePositions(L, P \cup {n}, l) = NamePositions(L, P, l)
    BY <1>3 DEF NamePositions
  <2>2. NameAdd(idx, L[n])[l] = idx[l]
    BY <1>3 DEF NameAdd
  <2>3. QED
    BY <2>1, <2>2 DEF IsNameOf
<1>4. QED
  BY <1>2, <1>3

\* An index that was given nothing answers with nothing.
LEMMA EmptyProjection == \A L, l : l \in Labels => IsNameOf(EmptyNameIndex[l], L, {}, l)
BY DEF IsNameOf, NamePositions, EmptyNameIndex

IndexInv == IndexedCoversAcked /\ NamesAreProjection

LEMMA InitIndex == Init => IndexInv
BY DEF Init, IndexInv, IndexedCoversAcked, NamesAreProjection, Up, Appending

LEMMA NextIndex ==
  TypeOK /\ DurableInv /\ DurableInv' /\ IndexInv /\ [Next]_vars => IndexInv'
<1> SUFFICES ASSUME TypeOK, DurableInv, DurableInv', IndexInv, [Next]_vars
             PROVE  IndexInv'
  OBVIOUS
<1> USE DEF Phases, Up, Appending, Log
<1>0. log \in Seq(Entry) /\ Len(log) \in Nat
  BY LenProperties DEF TypeOK
<1>1. CASE AppendCall
  <2>1. PICK e \in Entry : BeginAppend(e)
    BY <1>1, AppendCallBegins
  <2>2. /\ Len(log') = Len(log) + 1
        /\ \A i \in 1..Len(log) : log'[i] = log[i]
    BY <1>0, <2>1, AppendProperties DEF BeginAppend
  <2>3. /\ phase = "ready" /\ phase' = "saving"
        /\ nameIndex' = nameIndex /\ indexed' = indexed /\ acked' = acked /\ cursor' = cursor
    BY <2>1 DEF BeginAppend, indexVars
  <2>4. IndexedCoversAcked'
    BY <1>0, <2>2, <2>3 DEF IndexInv, IndexedCoversAcked
  <2>5. \A i \in indexed : log'[i] = log[i]
    BY <2>2 DEF IndexInv, IndexedCoversAcked
  <2>6. \A l \in Labels : IsNameOf(nameIndex[l], log', indexed, l)
    BY <2>3, <2>5, NameOfAgrees DEF IndexInv, NamesAreProjection
  <2>7. QED
    BY <2>3, <2>4, <2>6 DEF IndexInv, NamesAreProjection
<1>2. CASE Start
  <2>1. /\ phase' = "replay" /\ cursor' = 0 /\ indexed' = {} /\ nameIndex' = EmptyNameIndex
    BY <1>2 DEF Start, indexVars, DurableInv, DownIsBlank
  <2>2. log' \in Seq(Entry) /\ Len(log') \in Nat
    BY <1>2, EmptySeq, LenProperties DEF Start, TypeOK
  <2>3. QED
    BY <2>1, <2>2, EmptyProjection DEF IndexInv, IndexedCoversAcked, NamesAreProjection
<1>3. CASE Replay
  <2>1. /\ phase = "replay" /\ phase' = "replay" /\ log' = log
        /\ indexed = 1..cursor /\ cursor < Len(log)
        /\ cursor' = cursor + 1 /\ indexed' = indexed \cup {cursor + 1}
        /\ nameIndex' = NameAdd(nameIndex, log[cursor + 1])
    BY <1>3 DEF Replay, IndexEntry, IndexInv, IndexedCoversAcked
  <2>2. cursor + 1 \in 1..Len(log) /\ indexed \in SUBSET (1..((cursor + 1) - 1))
    BY <1>0, <2>1 DEF TypeOK
  <2>3. \A l \in Labels : IsNameOf(nameIndex'[l], log, indexed \cup {cursor + 1}, l)
    BY <1>0, <2>1, <2>2, NameAddProjects DEF TypeOK, IndexTypeOK, IndexInv, NamesAreProjection
  <2>4. indexed' = 1..(cursor + 1)
    BY <2>1 DEF TypeOK
  <2>5. NamesAreProjection'
    BY <2>1, <2>3 DEF NamesAreProjection
  <2>6. IndexedCoversAcked'
    <3>1. indexed' \subseteq 1..Len(log') /\ cursor' <= Len(log') /\ indexed' = 1..cursor'
      BY <1>0, <2>1, <2>2, <2>4 DEF TypeOK
    <3>2. QED
      BY <2>1, <3>1 DEF IndexedCoversAcked
  <2>7. QED
    BY <2>5, <2>6 DEF IndexInv
<1>4. CASE Serve
  <2>1. /\ phase' = "ready" /\ indexed = 1..Len(log)
        /\ UNCHANGED <<log, nameIndex, indexed, acked>>
    BY <1>4 DEF Serve, indexVars, IndexInv, IndexedCoversAcked
  <2>2. \A a \in acked : a[1] \in 1..Len(log)
    BY <1>4 DEF Serve, DurableInv, FileIsPrefix
  <2>3. QED
    BY <1>4, <2>1, <2>2 DEF Serve, IndexInv, IndexedCoversAcked, NamesAreProjection
<1>5. CASE Acknowledge
  <2>1. /\ phase = "saved" /\ phase' = "ready" /\ log' = log
        /\ indexed' = indexed \cup {Len(log)}
        /\ acked' = acked \cup {<<Len(log), log[Len(log)]>>}
        /\ nameIndex' = NameAdd(nameIndex, log[Len(log)])
    BY <1>5 DEF Acknowledge, IndexEntry
  <2>2. Len(log) \in 1..Len(log)
    BY <2>1, <1>0, EmptySeq DEF TypeOK
  <2>3. indexed \in SUBSET (1..(Len(log) - 1))
    BY <1>0, <2>1 DEF IndexInv, IndexedCoversAcked
  <2>4. \A l \in Labels : IsNameOf(nameIndex'[l], log, indexed \cup {Len(log)}, l)
    BY <1>0, <2>1, <2>2, <2>3, NameAddProjects
       DEF TypeOK, IndexTypeOK, IndexInv, NamesAreProjection
  <2>5. NamesAreProjection'
    BY <2>1, <2>4 DEF NamesAreProjection
  <2>6. IndexedCoversAcked'
    <3>1. indexed' \subseteq 1..Len(log')
      BY <2>1, <2>2 DEF IndexInv, IndexedCoversAcked
    <3>2. \A a \in acked' : a[1] \in indexed'
      BY <2>1 DEF IndexInv, IndexedCoversAcked
    <3>3. QED
      BY <2>1, <3>1, <3>2 DEF IndexedCoversAcked
  <2>7. QED
    BY <2>5, <2>6 DEF IndexInv
<1>6. CASE Crash
  <2>1. phase' = "down" /\ indexed' = {} /\ log' = <<>>
    BY <1>6 DEF Crash
  <2>2. QED
    BY <2>1 DEF IndexInv, IndexedCoversAcked, NamesAreProjection
<1>7. CASE StartFails
  BY <1>7 DEF StartFails, indexVars, IndexInv, IndexedCoversAcked, NamesAreProjection
<1>8. CASE Truncate
  BY <1>8 DEF Truncate, indexVars, IndexInv, IndexedCoversAcked, NamesAreProjection
<1>9. CASE OpenFails
  BY <1>9 DEF OpenFails, indexVars, IndexInv, IndexedCoversAcked, NamesAreProjection
<1>10. CASE WriteDone
  BY <1>10 DEF WriteDone, indexVars, IndexInv, IndexedCoversAcked, NamesAreProjection
<1>11. CASE WriteFails
  BY <1>11 DEF WriteFails, indexVars, IndexInv, IndexedCoversAcked, NamesAreProjection
<1>12. CASE UNCHANGED vars
  BY <1>12 DEF vars, indexVars, IndexInv, IndexedCoversAcked, NamesAreProjection
<1>13. QED
  BY <1>1, <1>2, <1>3, <1>4, <1>5, <1>6, <1>7, <1>8, <1>9, <1>10, <1>11, <1>12
     DEF Next, AppendStep, Lifecycle

LEMMA IndexInvariant == Spec => []IndexInv
BY TypeCorrect, DurableInvariant, InitIndex, NextIndex, PTL DEF Spec

\* The name index always answers with the last entry for the label among the
\* entries the indexes were given.
THEOREM NamesProjectLog == Spec => []NamesAreProjection
BY IndexInvariant, PTL DEF IndexInv

-----------------------------------------------------------------------------
(* The history of a name in the log.                                       *)

HistoryInv == UpdatesFollowCreate /\ AckedCreateIsLast

\* An empty log has no history.
LEMMA EmptyHistory == Created(<<>>) /\ NotRecreated(<<>>)
BY DEF Created, NotRecreated

\* An update may be put at the end of a log that creates its label.
LEMMA AppendCreated ==
  ASSUME NEW L \in Seq(Entry), NEW e \in Entry, Created(L),
         e.op = "name-update" =>
           \E j \in 1..Len(L) : L[j].op = "name-create" /\ L[j].label = e.label
  PROVE  Created(Append(L, e))
<1> DEFINE M == Append(L, e)
<1>1. /\ Len(M) = Len(L) + 1 /\ Len(L) \in Nat
      /\ \A i \in 1..Len(L) : M[i] = L[i]
      /\ M[Len(L) + 1] = e
  BY AppendProperties, LenProperties
<1> HIDE DEF M
<1>2. SUFFICES ASSUME NEW i \in 1..Len(M), M[i].op = "name-update"
               PROVE  \E j \in 1..(i - 1) : M[j].op = "name-create" /\ M[j].label = M[i].label
  BY DEF Created, M
<1>3. CASE i \in 1..Len(L)
  <2>1. PICK j \in 1..(i - 1) : L[j].op = "name-create" /\ L[j].label = L[i].label
    BY <1>1, <1>2, <1>3 DEF Created
  <2>2. j \in 1..Len(L)
    BY <1>1, <1>3
  <2>3. QED
    BY <1>1, <1>3, <2>1, <2>2
<1>4. CASE i = Len(L) + 1
  BY <1>1, <1>2, <1>4
<1>5. QED
  BY <1>1, <1>3, <1>4

\* A creation may be put at the end of a log in which no acknowledged entry
\* creates its label.
LEMMA AppendNotRecreated ==
  ASSUME NEW L \in Seq(Entry), NEW e \in Entry, NotRecreated(L),
         e.op = "name-create" =>
           \A i \in 1..Len(L) :
             L[i].op = "name-create" /\ L[i].label = e.label => <<i, L[i]>> \notin acked
  PROVE  NotRecreated(Append(L, e))
<1> DEFINE M == Append(L, e)
<1>1. /\ Len(M) = Len(L) + 1 /\ Len(L) \in Nat
      /\ \A i \in 1..Len(L) : M[i] = L[i]
      /\ M[Len(L) + 1] = e
  BY AppendProperties, LenProperties
<1> HIDE DEF M
<1>2. SUFFICES ASSUME NEW i \in 1..Len(M), NEW j \in 1..Len(M), i < j,
                      M[i].op = "name-create", M[j].op = "name-create",
                      M[i].label = M[j].label
               PROVE  <<i, M[i]>> \notin acked
  BY DEF NotRecreated, M
<1>3. i \in 1..Len(L) /\ M[i] = L[i]
  BY <1>1, <1>2
<1>4. CASE j \in 1..Len(L)
  BY <1>1, <1>2, <1>3, <1>4 DEF NotRecreated
<1>5. CASE j = Len(L) + 1
  BY <1>1, <1>2, <1>3, <1>5
<1>6. QED
  BY <1>1, <1>4, <1>5

\* What the name index says of a label is said by an entry of the log.
LEMMA NamedInLog ==
  ASSUME TypeOK, IndexInv, phase = "ready", NEW l \in Labels
  PROVE  /\ nameIndex[l] # NoHash =>
              \E i \in 1..Len(log) : IsName(log[i]) /\ log[i].label = l
         /\ nameIndex[l] = NoHash =>
              \A i \in 1..Len(log) :
                IsName(log[i]) /\ log[i].label = l => <<i, log[i]>> \notin acked
<1>1. IsNameOf(nameIndex[l], log, indexed, l) /\ indexed \subseteq 1..Len(log)
  BY DEF IndexInv, NamesAreProjection, IndexedCoversAcked, Up
<1>2. ASSUME nameIndex[l] # NoHash
      PROVE  \E i \in 1..Len(log) : IsName(log[i]) /\ log[i].label = l
  BY <1>1, <1>2 DEF IsNameOf, NamePositions
<1>3. ASSUME nameIndex[l] = NoHash,
             NEW i \in 1..Len(log), IsName(log[i]), log[i].label = l
      PROVE  <<i, log[i]>> \notin acked
  <2>1. SUFFICES ASSUME <<i, log[i]>> \in acked
                 PROVE  FALSE
    OBVIOUS
  <2>2. i \in indexed
    BY <2>1 DEF IndexInv, IndexedCoversAcked
  <2>3. i \in NamePositions(log, indexed, l)
    BY <1>3, <2>2 DEF NamePositions
  <2>4. PICK k \in NamePositions(log, indexed, l) : nameIndex[l] = log[k].hash
    BY <1>1, <2>3 DEF IsNameOf
  <2>5. k \in 1..Len(log) /\ IsName(log[k])
    BY <1>1, <2>4 DEF NamePositions
  <2>6. log[k] \in NameEntry
    BY <2>5, EntryKinds, ElementOfSeq DEF TypeOK, Log
  <2>7. nameIndex[l] \in Hashes
    BY <2>4, <2>6 DEF NameEntry
  <2>8. QED
    BY <1>3, <2>7, NoHashAssumption
<1>4. QED
  BY <1>2, <1>3

\* A label with any entry in the log was created in it.
LEMMA NamedIsCreated ==
  ASSUME NEW L \in Seq(Entry), Created(L), NEW i \in 1..Len(L), IsName(L[i])
  PROVE  \E j \in 1..Len(L) : L[j].op = "name-create" /\ L[j].label = L[i].label
<1>1. CASE L[i].op = "name-create"
  BY <1>1
<1>2. CASE L[i].op = "name-update"
  <2>1. PICK j \in 1..(i - 1) : L[j].op = "name-create" /\ L[j].label = L[i].label
    BY <1>2 DEF Created
  <2>2. j \in 1..Len(L)
    BY LenProperties
  <2>3. QED
    BY <2>1, <2>2
<1>3. QED
  BY <1>1, <1>2 DEF IsName

\* The two checks in AppendNameCreate and AppendNameUpdate are enough: any
\* append leaves a well-formed history in the log.
LEMMA AppendCallHistory ==
  ASSUME TypeOK, IndexInv, HistoryInv, AppendCall
  PROVE  Created(log') /\ NotRecreated(log')
<1> USE DEF Log
<1>0. log \in Seq(Entry) /\ Created(log) /\ NotRecreated(log)
  BY DEF TypeOK, HistoryInv, UpdatesFollowCreate, AckedCreateIsLast
<1>1. ASSUME NEW l \in Labels, NEW h \in Hashes, AppendNameCreate(l, h)
      PROVE  Created(log') /\ NotRecreated(log')
  <2> DEFINE e == [op |-> "name-create", label |-> l, hash |-> h]
  <2>1. e \in Entry /\ e.op = "name-create" /\ e.label = l
    BY DEF Entry, NameEntry
  <2>2. log' = Append(log, e) /\ phase = "ready" /\ nameIndex[l] = NoHash
    BY <1>1 DEF AppendNameCreate, BeginAppend
  <2> HIDE DEF e
  <2>3. \A i \in 1..Len(log) :
          log[i].op = "name-create" /\ log[i].label = l => <<i, log[i]>> \notin acked
    BY <2>2, NamedInLog DEF IsName
  <2>4. QED
    BY <1>0, <2>1, <2>2, <2>3, AppendCreated, AppendNotRecreated
<1>2. ASSUME NEW l \in Labels, NEW h \in Hashes, AppendNameUpdate(l, h)
      PROVE  Created(log') /\ NotRecreated(log')
  <2> DEFINE e == [op |-> "name-update", label |-> l, hash |-> h]
  <2>1. e \in Entry /\ e.op = "name-update" /\ e.label = l
    BY DEF Entry, NameEntry
  <2>2. log' = Append(log, e) /\ phase = "ready" /\ nameIndex[l] # NoHash
    BY <1>2 DEF AppendNameUpdate, BeginAppend
  <2> HIDE DEF e
  <2>3. PICK i \in 1..Len(log) : IsName(log[i]) /\ log[i].label = l
    BY <2>2, NamedInLog
  <2>4. \E j \in 1..Len(log) : log[j].op = "name-create" /\ log[j].label = l
    BY <1>0, <2>3, NamedIsCreated
  <2>5. QED
    BY <1>0, <2>1, <2>2, <2>4, AppendCreated, AppendNotRecreated
<1>3. ASSUME NEW e \in Entry, BeginAppend(e), ~IsName(e)
      PROVE  Created(log') /\ NotRecreated(log')
  <2>1. log' = Append(log, e)
    BY <1>3 DEF BeginAppend
  <2>2. e.op # "name-create" /\ e.op # "name-update"
    BY <1>3 DEF IsName
  <2>3. QED
    BY <1>0, <2>1, <2>2, AppendCreated, AppendNotRecreated
<1>4. ASSUME NEW h \in Hashes, NEW d \in Days, AppendStash(h, d)
      PROVE  \E e \in Entry : BeginAppend(e) /\ ~IsName(e)
  BY <1>4, TagsOfAssumption DEF AppendStash, Entry, StashEntry, IsName
<1>5. ASSUME NEW h \in Hashes, AppendCollection(h)
      PROVE  \E e \in Entry : BeginAppend(e) /\ ~IsName(e)
  BY <1>5 DEF AppendCollection, Entry, CollectionEntry, IsName
<1>6. ASSUME NEW h \in Hashes, NEW from \in Hashes, NEW to \in Hashes, NEW rel \in Rels,
             AppendRelation(h, from, rel, to)
      PROVE  \E e \in Entry : BeginAppend(e) /\ ~IsName(e)
  BY <1>6 DEF AppendRelation, Entry, RelationEntry, IsName
<1>7. ASSUME NEW c \in Capabilities, AppendCapability(c)
      PROVE  \E e \in Entry : BeginAppend(e) /\ ~IsName(e)
  BY <1>7 DEF AppendCapability, Entry, CapabilityEntry, IsName
<1>8. ASSUME NEW i \in Ids, AppendCapabilityRevoke(i)
      PROVE  \E e \in Entry : BeginAppend(e) /\ ~IsName(e)
  BY <1>8 DEF AppendCapabilityRevoke, Entry, RevokeEntry, IsName
<1>9. QED
  BY <1>1, <1>2, <1>3, <1>4, <1>5, <1>6, <1>7, <1>8 DEF AppendCall

LEMMA InitHistory == Init => HistoryInv
BY EmptyHistory
   DEF Init, HistoryInv, UpdatesFollowCreate, AckedCreateIsLast, Readable

LEMMA NextHistory ==
  TypeOK /\ DurableInv /\ IndexInv /\ HistoryInv /\ [Next]_vars => HistoryInv'
<1> SUFFICES ASSUME TypeOK, DurableInv, IndexInv, HistoryInv, [Next]_vars
             PROVE  HistoryInv'
  OBVIOUS
<1> USE DEF Readable
<1>1. CASE AppendCall
  <2>1. Created(log') /\ NotRecreated(log')
    BY <1>1, AppendCallHistory
  <2>2. disk' = disk /\ acked' = acked
    BY <1>1, AppendCallBegins DEF BeginAppend
  <2>3. QED
    BY <2>1, <2>2 DEF HistoryInv, UpdatesFollowCreate, AckedCreateIsLast, Created, NotRecreated
<1>2. CASE Start
  BY <1>2, EmptyHistory
     DEF Start, HistoryInv, UpdatesFollowCreate, AckedCreateIsLast, Created, NotRecreated
<1>3. CASE WriteDone
  BY <1>3 DEF WriteDone, HistoryInv, UpdatesFollowCreate, AckedCreateIsLast, Created, NotRecreated
<1>4. CASE Truncate
  BY <1>4 DEF Truncate, HistoryInv, UpdatesFollowCreate, AckedCreateIsLast, Created, NotRecreated
<1>5. CASE Acknowledge
  <2>1. /\ log' = log /\ disk' = disk /\ disk = log
        /\ acked' = acked \cup {<<Len(log), log[Len(log)]>>}
    BY <1>5 DEF Acknowledge, DurableInv, FileIsPrefix
  <2>2. \A i, j \in 1..Len(log) : i < j => <<i, log[i]>> # <<Len(log), log[Len(log)]>>
    BY LenProperties DEF TypeOK, Log
  <2>3. NotRecreated(log)'
    BY <2>1, <2>2 DEF NotRecreated, HistoryInv, AckedCreateIsLast
  <2>4. QED
    BY <2>1, <2>3 DEF HistoryInv, UpdatesFollowCreate, AckedCreateIsLast, Created, NotRecreated
<1>6. CASE Crash
  BY <1>6, EmptyHistory
     DEF Crash, HistoryInv, UpdatesFollowCreate, AckedCreateIsLast, Created, NotRecreated
<1>7. CASE UNCHANGED <<log, disk, acked>>
  BY <1>7 DEF HistoryInv, UpdatesFollowCreate, AckedCreateIsLast, Created, NotRecreated
<1>8. StartFails \/ Replay \/ Serve \/ OpenFails \/ WriteFails \/ UNCHANGED vars
        => UNCHANGED <<log, disk, acked>>
  BY DEF StartFails, Replay, Serve, OpenFails, WriteFails, vars
<1>9. QED
  BY <1>1, <1>2, <1>3, <1>4, <1>5, <1>6, <1>7, <1>8 DEF Next, AppendStep, Lifecycle

LEMMA HistoryInvariant == Spec => []HistoryInv
BY TypeCorrect, DurableInvariant, IndexInvariant, InitHistory, NextHistory, PTL DEF Spec

\* In every log the store can produce, an update of a name follows a creation.
THEOREM NamesAreCreatedFirst == Spec => []UpdatesFollowCreate
BY HistoryInvariant, PTL DEF HistoryInv

\* No creation follows an acknowledged creation of the same label.
THEOREM AckedNamesAreUnique == Spec => []AckedCreateIsLast
BY HistoryInvariant, PTL DEF HistoryInv

\* The conjunction the model checker checks is invariant for every instance.
THEOREM StoreInvariant == Spec => []StoreInv
BY DurableInvariant, IndexInvariant, HistoryInvariant, PTL
   DEF StoreInv, DurableInv, IndexInv, HistoryInv

\* What is known of the store, for the programs that use it: it is in order after
\* every step of it.
StoreFacts == TypeOK /\ DurableInv /\ IndexInv /\ HistoryInv

LEMMA InitStoreFacts == Init => StoreFacts
BY InitType, InitDurable, InitIndex, InitHistory DEF StoreFacts

LEMMA NextStoreFacts ==
  ASSUME StoreFacts, [Next]_vars
  PROVE  StoreFacts'
BY NextType, NextDurable, NextIndex, NextHistory DEF StoreFacts

-----------------------------------------------------------------------------
(* The other indexes are projections of the log, too.                      *)

Froms(L, P, h) == {i \in P : L[i].op = "relation" /\ L[i].from = h}
Tos(L, P, h)   == {i \in P : L[i].op = "relation" /\ L[i].to = h}
OfRel(L, P, r) == {i \in P : L[i].op = "relation" /\ L[i].rel = r}
Issues(L, P)      == {i \in P : L[i].op = "capability"}
IssuesTo(L, P, p) == {i \in P : L[i].op = "capability" /\ L[i].cap.principal = p}
IssuesOf(L, P, c) == {i \in P : L[i].op = "capability" /\ L[i].cap.id = c}

\* What each index answers after it was given the entries of L at the positions P.
TagsFrom(idx, L, P) ==
  \A t \in Tags : idx[t] = {L[i].hash : i \in {i \in P : L[i].op = "stash" /\ t \in L[i].tags}}

DaysFrom(idx, L, P) ==
  \A d \in Days : idx[d] = {L[i].hash : i \in {i \in P : L[i].op = "stash" /\ L[i].day = d}}

RelationsFrom(idx, L, P) ==
  /\ \A h \in Hashes : InOrder(idx.from[h], [i \in Froms(L, P, h) |-> L[i]])
  /\ \A h \in Hashes : InOrder(idx.to[h], [i \in Tos(L, P, h) |-> L[i]])
  /\ \A r \in Rels : InOrder(idx.rel[r], [i \in OfRel(L, P, r) |-> L[i]])

IsCapabilityOf(c, L, Q) ==
  \/ Q = {} /\ c = NoCapability
  \/ \E i \in Q : (\A j \in Q : j <= i) /\ c = L[i].cap

CapabilitiesFrom(idx, L, P) ==
  /\ InOrder(idx.all, [i \in Issues(L, P) |-> L[i].cap])
  /\ \A p \in Principals : InOrder(idx.byPrincipal[p], [i \in IssuesTo(L, P, p) |-> L[i].cap])
  /\ \A c \in Ids : IsCapabilityOf(idx.byID[c], L, IssuesOf(L, P, c))

\* The tags of an entry are those of its content.
ContentTags(L) == \A i \in 1..Len(L) : L[i].op = "stash" => L[i].tags = TagsOf[L[i].hash]

ProjectionInv ==
  /\ phase \notin Up => EmptyIndexes
  /\ phase \in Up =>
       /\ TagsFrom(tagIndex, log, indexed)
       /\ DaysFrom(dateIndex, log, indexed)
       /\ RelationsFrom(relationIndex, log, indexed)
       /\ CapabilitiesFrom(capabilityIndex, log, indexed)
  /\ ContentTags(log)
  /\ Readable => ContentTags(disk)

\* A sequence in the order of the positions stays so when the value at a later
\* position is put at its end.
LEMMA InOrderAppend ==
  ASSUME NEW S, NEW s \in Seq(S), NEW f, NEW g, NEW n \in Nat, DOMAIN f \subseteq Nat,
         InOrder(s, f), \A i \in DOMAIN f : i < n,
         DOMAIN g = DOMAIN f \cup {n}, g[n] \in S, \A i \in DOMAIN f : g[i] = f[i]
  PROVE  InOrder(Append(s, g[n]), g)
<1>1. Len(s) \in Nat
  BY LenProperties
<1>2. PICK m \in Nat : m = Len(s)
  BY <1>1
<1>3. PICK at \in [1..m -> DOMAIN f] :
        /\ \A j, k \in 1..m : j < k => at[j] < at[k]
        /\ \A i \in DOMAIN f : \E k \in 1..m : at[k] = i
        /\ \A k \in 1..m : s[k] = f[at[k]]
  BY <1>2 DEF InOrder
<1>4. PICK t : t = Append(s, g[n])
  OBVIOUS
<1>5. Len(t) = m + 1 /\ t[m + 1] = g[n] /\ \A k \in 1..m : t[k] = s[k]
  BY <1>2, <1>4, AppendProperties
<1>6. PICK bt : bt = [k \in 1..(m + 1) |-> IF k = m + 1 THEN n ELSE at[k]]
  OBVIOUS
<1>7. bt \in [1..(m + 1) -> DOMAIN g]
  BY <1>3, <1>6
<1>8. bt[m + 1] = n /\ \A k \in 1..m : bt[k] = at[k] /\ at[k] \in DOMAIN f
  BY <1>3, <1>6
<1>9. \A j, k \in 1..(m + 1) : j < k => bt[j] < bt[k]
  <2>1. SUFFICES ASSUME NEW j \in 1..(m + 1), NEW k \in 1..(m + 1), j < k
                 PROVE  bt[j] < bt[k]
    OBVIOUS
  <2>2. j \in 1..m
    BY <2>1
  <2>3. CASE k = m + 1
    BY <1>8, <2>2, <2>3
  <2>4. CASE k \in 1..m
    BY <1>3, <1>8, <2>1, <2>2, <2>4
  <2>5. QED
    BY <2>3, <2>4
<1>10. \A i \in DOMAIN g : \E k \in 1..(m + 1) : bt[k] = i
  <2>1. ASSUME NEW i \in DOMAIN f
        PROVE  \E k \in 1..(m + 1) : bt[k] = i
    <3>1. PICK k \in 1..m : at[k] = i
      BY <1>3
    <3>2. k \in 1..(m + 1) /\ bt[k] = i
      BY <1>8, <3>1
    <3>3. QED
      BY <3>2
  <2>2. m + 1 \in 1..(m + 1) /\ bt[m + 1] = n
    BY <1>8
  <2>3. QED
    BY <2>1, <2>2
<1>11. \A k \in 1..(m + 1) : t[k] = g[bt[k]]
  <2>1. t[m + 1] = g[bt[m + 1]]
    BY <1>5, <1>8
  <2>2. \A k \in 1..m : t[k] = g[bt[k]]
    BY <1>3, <1>5, <1>8
  <2>3. \A k \in 1..(m + 1) : k = m + 1 \/ k \in 1..m
    OBVIOUS
  <2>4. QED
    BY <2>1, <2>2, <2>3
<1>12. InOrder(t, g)
  <2>1. bt \in [1..Len(t) -> DOMAIN g]
    BY <1>5, <1>7
  <2>2. \A j, k \in 1..Len(t) : j < k => bt[j] < bt[k]
    BY <1>5, <1>9
  <2>3. \A i \in DOMAIN g : \E k \in 1..Len(t) : bt[k] = i
    BY <1>5, <1>10
  <2>4. \A k \in 1..Len(t) : t[k] = g[bt[k]]
    BY <1>5, <1>11
  <2>5. QED
    BY <2>1, <2>2, <2>3, <2>4, Zenon DEF InOrder
<1>13. QED
  BY <1>4, <1>12

\* Nothing is in order with nothing, and with nothing else.
LEMMA InOrderEmpty ==
  /\ \A f : DOMAIN f = {} => InOrder(<<>>, f)
  /\ \A S, f : \A s \in Seq(S) : InOrder(s, f) => (s = <<>> <=> DOMAIN f = {})
<1>1. ASSUME NEW f, DOMAIN f = {}
      PROVE  InOrder(<<>>, f)
  <2>1. PICK at : at = [k \in 1..Len(<<>>) |-> 0]
    OBVIOUS
  <2>2. 1..Len(<<>>) = {}
    OBVIOUS
  <2>3. at \in [1..Len(<<>>) -> DOMAIN f]
    BY <2>1, <2>2
  <2>4. QED
    BY <1>1, <2>2, <2>3 DEF InOrder
<1>2. ASSUME NEW S, NEW f, NEW s \in Seq(S), InOrder(s, f)
      PROVE  s = <<>> <=> DOMAIN f = {}
  <2>1. PICK at \in [1..Len(s) -> DOMAIN f] : \A i \in DOMAIN f : \E k \in 1..Len(s) : at[k] = i
    BY <1>2 DEF InOrder
  <2>2. Len(s) \in Nat /\ (Len(s) = 0 <=> s = <<>>)
    BY EmptySeq, LenProperties
  <2>3. CASE s = <<>>
    BY <2>1, <2>2, <2>3
  <2>4. CASE s # <<>>
    <3>1. 1 \in 1..Len(s)
      BY <2>2, <2>4
    <3>2. at[1] \in DOMAIN f
      BY <2>1, <3>1
    <3>3. QED
      BY <2>4, <3>2
  <2>5. QED
    BY <2>3, <2>4
<1>3. QED
  BY <1>1, <1>2

\* What the indexes answer depends on the entries at the given positions only.
LEMMA ProjectionsAgree ==
  ASSUME NEW L, NEW M, NEW P, \A i \in P : M[i] = L[i]
  PROVE  /\ \A idx : TagsFrom(idx, L, P) => TagsFrom(idx, M, P)
         /\ \A idx : DaysFrom(idx, L, P) => DaysFrom(idx, M, P)
         /\ \A idx : RelationsFrom(idx, L, P) => RelationsFrom(idx, M, P)
         /\ \A idx : CapabilitiesFrom(idx, L, P) => CapabilitiesFrom(idx, M, P)
<1>1. \A h : Froms(M, P, h) = Froms(L, P, h) /\ Tos(M, P, h) = Tos(L, P, h)
  BY DEF Froms, Tos
<1>2. \A r : OfRel(M, P, r) = OfRel(L, P, r)
  BY DEF OfRel
<1>3. /\ Issues(M, P) = Issues(L, P)
      /\ \A c : IssuesTo(M, P, c) = IssuesTo(L, P, c) /\ IssuesOf(M, P, c) = IssuesOf(L, P, c)
  BY DEF Issues, IssuesTo, IssuesOf
<1>4. \A h : /\ [i \in Froms(M, P, h) |-> M[i]] = [i \in Froms(L, P, h) |-> L[i]]
             /\ [i \in Tos(M, P, h) |-> M[i]] = [i \in Tos(L, P, h) |-> L[i]]
             /\ [i \in OfRel(M, P, h) |-> M[i]] = [i \in OfRel(L, P, h) |-> L[i]]
  BY <1>1, <1>2 DEF Froms, Tos, OfRel
<1>5. /\ [i \in Issues(M, P) |-> M[i].cap] = [i \in Issues(L, P) |-> L[i].cap]
      /\ \A c : [i \in IssuesTo(M, P, c) |-> M[i].cap] = [i \in IssuesTo(L, P, c) |-> L[i].cap]
  BY <1>3 DEF Issues, IssuesTo
<1>6. \A c, d : IsCapabilityOf(c, L, IssuesOf(L, P, d)) => IsCapabilityOf(c, M, IssuesOf(M, P, d))
  BY <1>3 DEF IsCapabilityOf, IssuesOf
<1>7. \A idx : TagsFrom(idx, L, P) => TagsFrom(idx, M, P)
  <2>1. \A t : {M[i].hash : i \in {i \in P : M[i].op = "stash" /\ t \in M[i].tags}}
             = {L[i].hash : i \in {i \in P : L[i].op = "stash" /\ t \in L[i].tags}}
    OBVIOUS
  <2>2. QED
    BY <2>1 DEF TagsFrom
<1>8. \A idx : DaysFrom(idx, L, P) => DaysFrom(idx, M, P)
  <2>1. \A d : {M[i].hash : i \in {i \in P : M[i].op = "stash" /\ M[i].day = d}}
             = {L[i].hash : i \in {i \in P : L[i].op = "stash" /\ L[i].day = d}}
    OBVIOUS
  <2>2. QED
    BY <2>1 DEF DaysFrom
<1>9. \A idx : RelationsFrom(idx, L, P) => RelationsFrom(idx, M, P)
  BY <1>4 DEF RelationsFrom
<1>10. \A idx : CapabilitiesFrom(idx, L, P) => CapabilitiesFrom(idx, M, P)
  BY <1>5, <1>6 DEF CapabilitiesFrom
<1>11. QED
  BY <1>7, <1>8, <1>9, <1>10

\* Indexes that were given nothing answer with nothing.
LEMMA EmptyProjections ==
  ASSUME NEW L
  PROVE  /\ TagsFrom(EmptyTagIndex, L, {}) /\ DaysFrom(EmptyDateIndex, L, {})
         /\ RelationsFrom(EmptyRelationIndex, L, {})
         /\ CapabilitiesFrom(EmptyCapabilityIndex, L, {})
<1>1. TagsFrom(EmptyTagIndex, L, {}) /\ DaysFrom(EmptyDateIndex, L, {})
  BY DEF TagsFrom, DaysFrom, EmptyTagIndex, EmptyDateIndex
<1>2. RelationsFrom(EmptyRelationIndex, L, {})
  <2>1. \A h : /\ Froms(L, {}, h) = {} /\ Tos(L, {}, h) = {} /\ OfRel(L, {}, h) = {}
    BY DEF Froms, Tos, OfRel
  <2>2. \A h : /\ InOrder(<<>>, [i \in Froms(L, {}, h) |-> L[i]])
               /\ InOrder(<<>>, [i \in Tos(L, {}, h) |-> L[i]])
               /\ InOrder(<<>>, [i \in OfRel(L, {}, h) |-> L[i]])
    BY <2>1, InOrderEmpty
  <2>3. QED
    BY <2>2 DEF RelationsFrom, EmptyRelationIndex
<1>3. CapabilitiesFrom(EmptyCapabilityIndex, L, {})
  <2>1. /\ Issues(L, {}) = {}
        /\ \A c : IssuesTo(L, {}, c) = {} /\ IssuesOf(L, {}, c) = {}
    BY DEF Issues, IssuesTo, IssuesOf
  <2>2. /\ InOrder(<<>>, [i \in Issues(L, {}) |-> L[i].cap])
        /\ \A c : InOrder(<<>>, [i \in IssuesTo(L, {}, c) |-> L[i].cap])
    <3>1. \A D : D = {} => InOrder(<<>>, [i \in D |-> L[i].cap])
      <4>1. SUFFICES ASSUME NEW D, D = {}
                     PROVE  InOrder(<<>>, [i \in D |-> L[i].cap])
        OBVIOUS
      <4>2. PICK f : f = [i \in D |-> L[i].cap]
        OBVIOUS
      <4>3. DOMAIN f = {}
        BY <4>1, <4>2
      <4>4. InOrder(<<>>, f)
        BY <4>3, InOrderEmpty
      <4>5. QED
        BY <4>2, <4>4
    <3>2. QED
      BY <2>1, <3>1
  <2>3. \A c : IsCapabilityOf(NoCapability, L, IssuesOf(L, {}, c))
    BY <2>1 DEF IsCapabilityOf
  <2>4. QED
    BY <2>2, <2>3 DEF CapabilitiesFrom, EmptyCapabilityIndex
<1>4. QED
  BY <1>1, <1>2, <1>3

\* The tag and date indexes, given a later entry.
LEMMA StashProjects ==
  ASSUME NEW L \in Seq(Entry), NEW n \in 1..Len(L), NEW P \in SUBSET (1..(n - 1)),
         NEW ti \in [Tags -> SUBSET Hashes], TagsFrom(ti, L, P),
         NEW di \in [Days -> SUBSET Hashes], DaysFrom(di, L, P)
  PROVE  TagsFrom(TagAdd(ti, L[n]), L, P \cup {n}) /\ DaysFrom(DateAdd(di, L[n]), L, P \cup {n})
<1>1. L[n] \in Entry
  BY ElementOfSeq
<1>2. CASE L[n].op # "stash"
  <2>1. \A t : {i \in P \cup {n} : L[i].op = "stash" /\ t \in L[i].tags}
             = {i \in P : L[i].op = "stash" /\ t \in L[i].tags}
    BY <1>2
  <2>2. \A d : {i \in P \cup {n} : L[i].op = "stash" /\ L[i].day = d}
             = {i \in P : L[i].op = "stash" /\ L[i].day = d}
    BY <1>2
  <2>3. TagAdd(ti, L[n]) = ti /\ DateAdd(di, L[n]) = di
    BY <1>2 DEF TagAdd, DateAdd
  <2>4. QED
    BY <2>1, <2>2, <2>3 DEF TagsFrom, DaysFrom
<1>3. CASE L[n].op = "stash"
  <2>1. L[n].day \in Days
    BY <1>1, <1>3, EntryKinds DEF StashEntry
  <2>2. ASSUME NEW t \in Tags
        PROVE  TagAdd(ti, L[n])[t]
                 = {L[i].hash : i \in {i \in P \cup {n} : L[i].op = "stash" /\ t \in L[i].tags}}
    <3>1. ti[t] = {L[i].hash : i \in {i \in P : L[i].op = "stash" /\ t \in L[i].tags}}
      BY DEF TagsFrom
    <3>2. TagAdd(ti, L[n])[t] = IF t \in L[n].tags THEN ti[t] \cup {L[n].hash} ELSE ti[t]
      BY <1>3 DEF TagAdd
    <3>3. CASE t \in L[n].tags
      <4>1. {i \in P \cup {n} : L[i].op = "stash" /\ t \in L[i].tags}
              = {i \in P : L[i].op = "stash" /\ t \in L[i].tags} \cup {n}
        BY <1>3, <3>3
      <4>2. QED
        BY <3>1, <3>2, <3>3, <4>1
    <3>4. CASE t \notin L[n].tags
      <4>1. {i \in P \cup {n} : L[i].op = "stash" /\ t \in L[i].tags}
              = {i \in P : L[i].op = "stash" /\ t \in L[i].tags}
        BY <3>4
      <4>2. QED
        BY <3>1, <3>2, <3>4, <4>1
    <3>5. QED
      BY <3>3, <3>4
  <2>3. ASSUME NEW d \in Days
        PROVE  DateAdd(di, L[n])[d]
                 = {L[i].hash : i \in {i \in P \cup {n} : L[i].op = "stash" /\ L[i].day = d}}
    <3>1. di[d] = {L[i].hash : i \in {i \in P : L[i].op = "stash" /\ L[i].day = d}}
      BY DEF DaysFrom
    <3>2. DateAdd(di, L[n])[d] = IF L[n].day = d THEN di[d] \cup {L[n].hash} ELSE di[d]
      BY <1>3, <2>1 DEF DateAdd
    <3>3. CASE L[n].day = d
      <4>1. {i \in P \cup {n} : L[i].op = "stash" /\ L[i].day = d}
              = {i \in P : L[i].op = "stash" /\ L[i].day = d} \cup {n}
        BY <1>3, <3>3
      <4>2. QED
        BY <3>1, <3>2, <3>3, <4>1
    <3>4. CASE L[n].day # d
      <4>1. {i \in P \cup {n} : L[i].op = "stash" /\ L[i].day = d}
              = {i \in P : L[i].op = "stash" /\ L[i].day = d}
        BY <3>4
      <4>2. QED
        BY <3>1, <3>2, <3>4, <4>1
    <3>5. QED
      BY <3>3, <3>4
  <2>4. QED
    BY <2>2, <2>3 DEF TagsFrom, DaysFrom
<1>4. QED
  BY <1>2, <1>3

\* The relation index, given a later entry.
LEMMA RelationProjects ==
  ASSUME NEW L \in Seq(Entry), NEW n \in 1..Len(L), NEW P \in SUBSET (1..(n - 1)),
         NEW idx \in [from : [Hashes -> Seq(RelationEntry)], to : [Hashes -> Seq(RelationEntry)],
                      rel : [Rels -> Seq(RelationEntry)]],
         RelationsFrom(idx, L, P)
  PROVE  RelationsFrom(RelationAdd(idx, L[n]), L, P \cup {n})
<1>1. L[n] \in Entry /\ n \in Nat /\ P \subseteq Nat /\ \A i \in P : i < n
  BY ElementOfSeq, LenProperties
<1>2. CASE L[n].op # "relation"
  <2>1. \A h : /\ Froms(L, P \cup {n}, h) = Froms(L, P, h)
               /\ Tos(L, P \cup {n}, h) = Tos(L, P, h)
               /\ OfRel(L, P \cup {n}, h) = OfRel(L, P, h)
    BY <1>2 DEF Froms, Tos, OfRel
  <2>2. RelationAdd(idx, L[n]) = idx
    BY <1>2 DEF RelationAdd
  <2>3. QED
    BY <2>1, <2>2 DEF RelationsFrom
<1>3. CASE L[n].op = "relation"
  <2>1. PICK e \in RelationEntry : e = L[n]
    BY <1>1, <1>3, EntryKinds
  <2>2. e.from \in Hashes /\ e.to \in Hashes /\ e.rel \in Rels
    BY <2>1 DEF RelationEntry
  <2>3. PICK new : new = RelationAdd(idx, L[n])
    OBVIOUS
  <2>4. /\ new.from = [idx.from EXCEPT ![e.from] = Append(@, e)]
        /\ new.to = [idx.to EXCEPT ![e.to] = Append(@, e)]
        /\ new.rel = [idx.rel EXCEPT ![e.rel] = Append(@, e)]
    BY <1>3, <2>1, <2>3 DEF RelationAdd
  <2>5. ASSUME NEW s \in Seq(RelationEntry), NEW D \in SUBSET P, InOrder(s, [i \in D |-> L[i]])
        PROVE  InOrder(Append(s, e), [i \in D \cup {n} |-> L[i]])
    <3>1. PICK f : f = [i \in D |-> L[i]]
      OBVIOUS
    <3>2. PICK g : g = [i \in D \cup {n} |-> L[i]]
      OBVIOUS
    <3>3. /\ DOMAIN f = D /\ DOMAIN g = DOMAIN f \cup {n} /\ g[n] = e
          /\ \A i \in DOMAIN f : g[i] = f[i] /\ i < n
      BY <1>1, <2>1, <3>1, <3>2
    <3>4. DOMAIN f \subseteq Nat /\ InOrder(s, f) /\ g[n] \in RelationEntry
      BY <1>1, <2>5, <3>1, <3>3
    <3>5. InOrder(Append(s, g[n]), g)
      BY <1>1, <3>3, <3>4, InOrderAppend
    <3>6. QED
      BY <3>2, <3>3, <3>5
  <2>6. ASSUME NEW h \in Hashes
        PROVE  InOrder(new.from[h], [i \in Froms(L, P \cup {n}, h) |-> L[i]])
    <3>1. InOrder(idx.from[h], [i \in Froms(L, P, h) |-> L[i]]) /\ idx.from[h] \in Seq(RelationEntry)
      BY DEF RelationsFrom
    <3>2. CASE h = e.from
      <4>1. Froms(L, P \cup {n}, h) = Froms(L, P, h) \cup {n} /\ Froms(L, P, h) \in SUBSET P
        BY <1>3, <2>1, <3>2 DEF Froms
      <4>2. new.from[h] = Append(idx.from[h], e)
        BY <2>2, <2>4, <3>2
      <4>3. QED
        BY <2>5, <3>1, <4>1, <4>2
    <3>3. CASE h # e.from
      <4>1. Froms(L, P \cup {n}, h) = Froms(L, P, h)
        BY <2>1, <3>3 DEF Froms
      <4>2. new.from[h] = idx.from[h]
        BY <2>4, <3>3
      <4>3. QED
        BY <3>1, <4>1, <4>2
    <3>4. QED
      BY <3>2, <3>3
  <2>7. ASSUME NEW h \in Hashes
        PROVE  InOrder(new.to[h], [i \in Tos(L, P \cup {n}, h) |-> L[i]])
    <3>1. InOrder(idx.to[h], [i \in Tos(L, P, h) |-> L[i]]) /\ idx.to[h] \in Seq(RelationEntry)
      BY DEF RelationsFrom
    <3>2. CASE h = e.to
      <4>1. Tos(L, P \cup {n}, h) = Tos(L, P, h) \cup {n} /\ Tos(L, P, h) \in SUBSET P
        BY <1>3, <2>1, <3>2 DEF Tos
      <4>2. new.to[h] = Append(idx.to[h], e)
        BY <2>2, <2>4, <3>2
      <4>3. QED
        BY <2>5, <3>1, <4>1, <4>2
    <3>3. CASE h # e.to
      <4>1. Tos(L, P \cup {n}, h) = Tos(L, P, h)
        BY <2>1, <3>3 DEF Tos
      <4>2. new.to[h] = idx.to[h]
        BY <2>4, <3>3
      <4>3. QED
        BY <3>1, <4>1, <4>2
    <3>4. QED
      BY <3>2, <3>3
  <2>8. ASSUME NEW r \in Rels
        PROVE  InOrder(new.rel[r], [i \in OfRel(L, P \cup {n}, r) |-> L[i]])
    <3>1. InOrder(idx.rel[r], [i \in OfRel(L, P, r) |-> L[i]]) /\ idx.rel[r] \in Seq(RelationEntry)
      BY DEF RelationsFrom
    <3>2. CASE r = e.rel
      <4>1. OfRel(L, P \cup {n}, r) = OfRel(L, P, r) \cup {n} /\ OfRel(L, P, r) \in SUBSET P
        BY <1>3, <2>1, <3>2 DEF OfRel
      <4>2. new.rel[r] = Append(idx.rel[r], e)
        BY <2>2, <2>4, <3>2
      <4>3. QED
        BY <2>5, <3>1, <4>1, <4>2
    <3>3. CASE r # e.rel
      <4>1. OfRel(L, P \cup {n}, r) = OfRel(L, P, r)
        BY <2>1, <3>3 DEF OfRel
      <4>2. new.rel[r] = idx.rel[r]
        BY <2>4, <3>3
      <4>3. QED
        BY <3>1, <4>1, <4>2
    <3>4. QED
      BY <3>2, <3>3
  <2>9. QED
    BY <2>3, <2>6, <2>7, <2>8 DEF RelationsFrom
<1>4. QED
  BY <1>2, <1>3

\* The capability index, given a later entry.
LEMMA CapabilityProjects ==
  ASSUME NEW L \in Seq(Entry), NEW n \in 1..Len(L), NEW P \in SUBSET (1..(n - 1)),
         NEW idx \in [byPrincipal : [Principals -> Seq(Capabilities)],
                      byID : [Ids -> Capabilities \cup {NoCapability}], all : Seq(Capabilities)],
         CapabilitiesFrom(idx, L, P)
  PROVE  CapabilitiesFrom(CapabilityAdd(idx, L[n]), L, P \cup {n})
<1>1. L[n] \in Entry /\ n \in Nat /\ P \subseteq Nat /\ \A i \in P : i < n
  BY ElementOfSeq, LenProperties
<1>2. CASE L[n].op # "capability"
  <2>1. /\ Issues(L, P \cup {n}) = Issues(L, P)
        /\ \A p : IssuesTo(L, P \cup {n}, p) = IssuesTo(L, P, p)
        /\ \A p : IssuesOf(L, P \cup {n}, p) = IssuesOf(L, P, p)
    BY <1>2 DEF Issues, IssuesTo, IssuesOf
  <2>2. CapabilityAdd(idx, L[n]) = idx
    BY <1>2 DEF CapabilityAdd
  <2>3. QED
    BY <2>1, <2>2 DEF CapabilitiesFrom
<1>3. CASE L[n].op = "capability"
  <2>1. PICK c \in Capabilities : c = L[n].cap
    BY <1>1, <1>3, EntryKinds DEF CapabilityEntry
  <2>2. c.principal \in Principals /\ c.id \in Ids
    BY DEF Principals, Ids
  <2>3. PICK new : new = CapabilityAdd(idx, L[n])
    OBVIOUS
  <2>4. /\ new.byPrincipal = [idx.byPrincipal EXCEPT ![c.principal] = Append(@, c)]
        /\ new.byID = [idx.byID EXCEPT ![c.id] = c]
        /\ new.all = Append(idx.all, c)
    BY <1>3, <2>1, <2>3 DEF CapabilityAdd
  <2>5. ASSUME NEW s \in Seq(Capabilities), NEW D \in SUBSET P, InOrder(s, [i \in D |-> L[i].cap])
        PROVE  InOrder(Append(s, c), [i \in D \cup {n} |-> L[i].cap])
    <3>1. PICK f : f = [i \in D |-> L[i].cap]
      OBVIOUS
    <3>2. PICK g : g = [i \in D \cup {n} |-> L[i].cap]
      OBVIOUS
    <3>3. /\ DOMAIN f = D /\ DOMAIN g = DOMAIN f \cup {n} /\ g[n] = c
          /\ \A i \in DOMAIN f : g[i] = f[i] /\ i < n
      BY <1>1, <2>1, <3>1, <3>2
    <3>4. DOMAIN f \subseteq Nat /\ InOrder(s, f) /\ g[n] \in Capabilities
      BY <1>1, <2>5, <3>1, <3>3
    <3>5. /\ n \in Nat /\ s \in Seq(Capabilities) /\ \A i \in DOMAIN f : i < n
          /\ DOMAIN g = DOMAIN f \cup {n} /\ \A i \in DOMAIN f : g[i] = f[i]
      BY <1>1, <3>3
    <3>6. InOrder(Append(s, g[n]), g)
      BY <3>4, <3>5, InOrderAppend
    <3>7. QED
      BY <3>2, <3>3, <3>6
  <2>6. InOrder(new.all, [i \in Issues(L, P \cup {n}) |-> L[i].cap])
    <3>1. InOrder(idx.all, [i \in Issues(L, P) |-> L[i].cap]) /\ idx.all \in Seq(Capabilities)
      BY DEF CapabilitiesFrom
    <3>2. Issues(L, P \cup {n}) = Issues(L, P) \cup {n} /\ Issues(L, P) \in SUBSET P
      BY <1>3 DEF Issues
    <3>3. InOrder(Append(idx.all, c), [i \in Issues(L, P) \cup {n} |-> L[i].cap])
      BY <2>5, <3>1, <3>2
    <3>4. QED
      BY <2>4, <3>2, <3>3
  <2>7. ASSUME NEW p \in Principals
        PROVE  InOrder(new.byPrincipal[p], [i \in IssuesTo(L, P \cup {n}, p) |-> L[i].cap])
    <3>1. /\ InOrder(idx.byPrincipal[p], [i \in IssuesTo(L, P, p) |-> L[i].cap])
          /\ idx.byPrincipal[p] \in Seq(Capabilities)
      BY DEF CapabilitiesFrom
    <3>2. CASE p = c.principal
      <4>1. IssuesTo(L, P \cup {n}, p) = IssuesTo(L, P, p) \cup {n} /\ IssuesTo(L, P, p) \in SUBSET P
        BY <1>3, <2>1, <3>2 DEF IssuesTo
      <4>2. new.byPrincipal[p] = Append(idx.byPrincipal[p], c)
        BY <2>2, <2>4, <3>2
      <4>3. QED
        BY <2>5, <3>1, <4>1, <4>2
    <3>3. CASE p # c.principal
      <4>1. IssuesTo(L, P \cup {n}, p) = IssuesTo(L, P, p)
        BY <2>1, <3>3 DEF IssuesTo
      <4>2. new.byPrincipal[p] = idx.byPrincipal[p]
        BY <2>4, <3>3
      <4>3. QED
        BY <3>1, <4>1, <4>2
    <3>4. QED
      BY <3>2, <3>3
  <2>8. ASSUME NEW i \in Ids
        PROVE  IsCapabilityOf(new.byID[i], L, IssuesOf(L, P \cup {n}, i))
    <3>1. IsCapabilityOf(idx.byID[i], L, IssuesOf(L, P, i))
      BY DEF CapabilitiesFrom
    <3>2. CASE i = c.id
      <4>1. n \in IssuesOf(L, P \cup {n}, i) /\ \A j \in IssuesOf(L, P \cup {n}, i) : j <= n
        <5>1. \A j \in P \cup {n} : j <= n
          BY <1>1
        <5>2. QED
          BY <1>3, <2>1, <3>2, <5>1 DEF IssuesOf
      <4>2. new.byID[i] = L[n].cap
        BY <2>1, <2>2, <2>4, <3>2
      <4>3. QED
        BY <4>1, <4>2 DEF IsCapabilityOf
    <3>3. CASE i # c.id
      <4>1. IssuesOf(L, P \cup {n}, i) = IssuesOf(L, P, i)
        BY <2>1, <3>3 DEF IssuesOf
      <4>2. new.byID[i] = idx.byID[i]
        BY <2>4, <3>3
      <4>3. QED
        BY <3>1, <4>1, <4>2
    <3>4. QED
      BY <3>2, <3>3
  <2>9. QED
    BY <2>3, <2>6, <2>7, <2>8 DEF CapabilitiesFrom
<1>4. QED
  BY <1>2, <1>3

\* A step that gives the entry at n to the indexes.
LEMMA IndexEntryProjects ==
  ASSUME TypeOK, ProjectionInv, phase \in Up, NEW n \in 1..Len(log), IndexEntry(log[n]),
         indexed \subseteq 1..(n - 1), indexed' = indexed \cup {n}, log' = log
  PROVE  /\ TagsFrom(tagIndex', log', indexed') /\ DaysFrom(dateIndex', log', indexed')
         /\ RelationsFrom(relationIndex', log', indexed')
         /\ CapabilitiesFrom(capabilityIndex', log', indexed')
<1>1. /\ log \in Seq(Entry) /\ indexed \in SUBSET (1..(n - 1))
      /\ tagIndex \in [Tags -> SUBSET Hashes] /\ dateIndex \in [Days -> SUBSET Hashes]
  BY DEF TypeOK, IndexTypeOK, Log
<1>2. relationIndex \in [from : [Hashes -> Seq(RelationEntry)], to : [Hashes -> Seq(RelationEntry)],
                         rel : [Rels -> Seq(RelationEntry)]]
  BY DEF TypeOK, IndexTypeOK
<1>3. capabilityIndex \in [byPrincipal : [Principals -> Seq(Capabilities)],
                           byID : [Ids -> Capabilities \cup {NoCapability}], all : Seq(Capabilities)]
  BY DEF TypeOK, IndexTypeOK
<1>4. /\ TagsFrom(tagIndex, log, indexed) /\ DaysFrom(dateIndex, log, indexed)
      /\ RelationsFrom(relationIndex, log, indexed)
      /\ CapabilitiesFrom(capabilityIndex, log, indexed)
  BY DEF ProjectionInv
<1>5. /\ TagsFrom(TagAdd(tagIndex, log[n]), log, indexed \cup {n})
      /\ DaysFrom(DateAdd(dateIndex, log[n]), log, indexed \cup {n})
  BY <1>1, <1>4, StashProjects
<1>6. RelationsFrom(RelationAdd(relationIndex, log[n]), log, indexed \cup {n})
  BY <1>1, <1>2, <1>4, RelationProjects
<1>7. CapabilitiesFrom(CapabilityAdd(capabilityIndex, log[n]), log, indexed \cup {n})
  BY <1>1, <1>3, <1>4, CapabilityProjects
<1>8. QED
  BY <1>5, <1>6, <1>7 DEF IndexEntry

\* An append takes the tags of a stash from its content.
LEMMA AppendCallTags ==
  ASSUME AppendCall
  PROVE  \E e \in Entry : BeginAppend(e) /\ (e.op = "stash" => e.tags = TagsOf[e.hash])
<1>1. ASSUME NEW h \in Hashes, NEW d \in Days, AppendStash(h, d)
      PROVE  \E e \in Entry : BeginAppend(e) /\ (e.op = "stash" => e.tags = TagsOf[e.hash])
  <2>1. PICK e : e = [op |-> "stash", hash |-> h, tags |-> TagsOf[h], day |-> d]
    OBVIOUS
  <2>2. e \in Entry /\ e.tags = TagsOf[e.hash]
    BY <2>1, TagsOfAssumption DEF Entry, StashEntry
  <2>3. QED
    BY <1>1, <2>1, <2>2 DEF AppendStash
<1>2. ASSUME NEW h \in Hashes, AppendCollection(h)
      PROVE  \E e \in Entry : BeginAppend(e) /\ e.op # "stash"
  BY <1>2 DEF AppendCollection, Entry, CollectionEntry
<1>3. ASSUME NEW h \in Hashes, NEW from \in Hashes, NEW to \in Hashes, NEW rel \in Rels,
             AppendRelation(h, from, rel, to)
      PROVE  \E e \in Entry : BeginAppend(e) /\ e.op # "stash"
  BY <1>3 DEF AppendRelation, Entry, RelationEntry
<1>4. ASSUME NEW l \in Labels, NEW h \in Hashes, AppendNameCreate(l, h)
      PROVE  \E e \in Entry : BeginAppend(e) /\ e.op # "stash"
  BY <1>4 DEF AppendNameCreate, Entry, NameEntry
<1>5. ASSUME NEW l \in Labels, NEW h \in Hashes, AppendNameUpdate(l, h)
      PROVE  \E e \in Entry : BeginAppend(e) /\ e.op # "stash"
  BY <1>5 DEF AppendNameUpdate, Entry, NameEntry
<1>6. ASSUME NEW c \in Capabilities, AppendCapability(c)
      PROVE  \E e \in Entry : BeginAppend(e) /\ e.op # "stash"
  BY <1>6 DEF AppendCapability, Entry, CapabilityEntry
<1>7. ASSUME NEW i \in Ids, AppendCapabilityRevoke(i)
      PROVE  \E e \in Entry : BeginAppend(e) /\ e.op # "stash"
  BY <1>7 DEF AppendCapabilityRevoke, Entry, RevokeEntry
<1>8. QED
  BY <1>1, <1>2, <1>3, <1>4, <1>5, <1>6, <1>7 DEF AppendCall

LEMMA InitProjection == Init => ProjectionInv
BY DEF Init, ProjectionInv, Up, Appending, ContentTags, Readable

LEMMA NextProjection ==
  TypeOK /\ DurableInv /\ IndexInv /\ ProjectionInv /\ [Next]_vars => ProjectionInv'
<1> SUFFICES ASSUME TypeOK, DurableInv, IndexInv, ProjectionInv, [Next]_vars
             PROVE  ProjectionInv'
  OBVIOUS
<1>0. log \in Seq(Entry) /\ Len(log) \in Nat
  BY LenProperties DEF TypeOK, Log
<1>1. CASE AppendCall
  <2>1. PICK e \in Entry : BeginAppend(e) /\ (e.op = "stash" => e.tags = TagsOf[e.hash])
    BY <1>1, AppendCallTags
  <2>2. /\ phase = "ready" /\ phase' = "saving" /\ log' = Append(log, e)
        /\ disk' = disk /\ indexed' = indexed /\ tagIndex' = tagIndex /\ dateIndex' = dateIndex
        /\ relationIndex' = relationIndex /\ capabilityIndex' = capabilityIndex
    BY <2>1 DEF BeginAppend, indexVars
  <2>3. /\ Len(log') = Len(log) + 1 /\ log'[Len(log) + 1] = e
        /\ \A i \in 1..Len(log) : log'[i] = log[i]
    BY <1>0, <2>2, AppendProperties
  <2>4. ContentTags(log)'
    BY <1>0, <2>1, <2>3 DEF ProjectionInv, ContentTags
  <2>5. \A i \in indexed : log'[i] = log[i]
    BY <2>3 DEF IndexInv, IndexedCoversAcked
  <2>6. PICK M : M = log'
    OBVIOUS
  <2>7. /\ TagsFrom(tagIndex, M, indexed) /\ DaysFrom(dateIndex, M, indexed)
        /\ RelationsFrom(relationIndex, M, indexed) /\ CapabilitiesFrom(capabilityIndex, M, indexed)
    BY <2>2, <2>5, <2>6, ProjectionsAgree DEF ProjectionInv, Up
  <2>8. Readable' => ContentTags(disk)'
    BY <2>2 DEF ProjectionInv, Readable, ContentTags
  <2>9. QED
    BY <2>2, <2>4, <2>6, <2>7, <2>8 DEF ProjectionInv, Up, Appending
<1>2. CASE Start
  <2>1. /\ phase = "down" /\ phase' = "replay" /\ indexed' = {} /\ disk' = disk
        /\ (log' = <<>> \/ (Readable /\ log' = disk)) /\ UNCHANGED indexVars
    BY <1>2 DEF Start, DurableInv, DownIsBlank, Readable
  <2>2. EmptyIndexes
    BY <2>1 DEF ProjectionInv, Up, Appending
  <2>3. PICK M : M = log'
    OBVIOUS
  <2>4. /\ tagIndex' = EmptyTagIndex /\ dateIndex' = EmptyDateIndex
        /\ relationIndex' = EmptyRelationIndex /\ capabilityIndex' = EmptyCapabilityIndex
    BY <2>1, <2>2 DEF EmptyIndexes, indexVars
  <2>5. /\ TagsFrom(EmptyTagIndex, M, {}) /\ DaysFrom(EmptyDateIndex, M, {})
        /\ RelationsFrom(EmptyRelationIndex, M, {}) /\ CapabilitiesFrom(EmptyCapabilityIndex, M, {})
    BY EmptyProjections
  <2>6. ContentTags(log)' /\ (Readable' => ContentTags(disk)')
    BY <2>1 DEF ProjectionInv, ContentTags, Readable
  <2>7. QED
    BY <2>1, <2>3, <2>4, <2>5, <2>6 DEF ProjectionInv, Up
<1>3. CASE Replay
  <2>1. /\ phase = "replay" /\ phase' = "replay" /\ log' = log /\ disk' = disk
        /\ indexed = 1..cursor /\ cursor < Len(log)
        /\ indexed' = indexed \cup {cursor + 1} /\ IndexEntry(log[cursor + 1])
    BY <1>3 DEF Replay, IndexInv, IndexedCoversAcked
  <2>2. cursor + 1 \in 1..Len(log) /\ indexed \subseteq 1..((cursor + 1) - 1)
    BY <1>0, <2>1 DEF TypeOK
  <2>3. phase \in Up /\ phase' \in Up
    BY <2>1 DEF Up
  <2>4. /\ TagsFrom(tagIndex', log', indexed') /\ DaysFrom(dateIndex', log', indexed')
        /\ RelationsFrom(relationIndex', log', indexed')
        /\ CapabilitiesFrom(capabilityIndex', log', indexed')
    BY <2>1, <2>2, <2>3, IndexEntryProjects
  <2>5. ContentTags(log)' /\ (Readable' => ContentTags(disk)')
    BY <2>1 DEF ProjectionInv, ContentTags, Readable
  <2>6. QED
    BY <2>3, <2>4, <2>5 DEF ProjectionInv
<1>4. CASE Acknowledge
  <2>1. /\ phase = "saved" /\ phase' = "ready" /\ log' = log /\ disk' = disk
        /\ indexed' = indexed \cup {Len(log)} /\ IndexEntry(log[Len(log)])
    BY <1>4 DEF Acknowledge
  <2>2. Len(log) \in 1..Len(log)
    BY <2>1, <1>0, EmptySeq DEF TypeOK, Appending
  <2>3. indexed \subseteq 1..(Len(log) - 1)
    BY <1>0, <2>1 DEF IndexInv, IndexedCoversAcked, Appending
  <2>4. phase \in Up /\ phase' \in Up
    BY <2>1 DEF Up, Appending
  <2>5. /\ TagsFrom(tagIndex', log', indexed') /\ DaysFrom(dateIndex', log', indexed')
        /\ RelationsFrom(relationIndex', log', indexed')
        /\ CapabilitiesFrom(capabilityIndex', log', indexed')
    BY <2>1, <2>2, <2>3, <2>4, IndexEntryProjects
  <2>6. ContentTags(log)' /\ (Readable' => ContentTags(disk)')
    BY <2>1 DEF ProjectionInv, ContentTags, Readable
  <2>7. QED
    BY <2>4, <2>5, <2>6 DEF ProjectionInv
<1>5. CASE Crash
  <2>1. /\ phase' \notin Up /\ EmptyIndexes' /\ log' = <<>> /\ disk' = disk
    BY <1>5 DEF Crash, EmptyIndexes, Up, Appending, EmptyTagIndex, EmptyDateIndex, EmptyNameIndex,
       EmptyRelationIndex, EmptyCapabilityIndex
  <2>2. ContentTags(log)' /\ (Readable' => ContentTags(disk)')
    BY <2>1 DEF ProjectionInv, ContentTags, Readable
  <2>3. QED
    BY <2>1, <2>2 DEF ProjectionInv
<1>6. ASSUME UNCHANGED <<log, indexVars, indexed>>, phase \in Up <=> phase' \in Up,
             disk' \in {disk, Torn, log}
      PROVE  ProjectionInv'
  <2>1. EmptyIndexes => EmptyIndexes'
    BY <1>6 DEF EmptyIndexes, indexVars, EmptyTagIndex, EmptyDateIndex, EmptyNameIndex,
       EmptyRelationIndex, EmptyCapabilityIndex
  <2>2. ContentTags(log)' /\ (Readable' => ContentTags(disk)')
    BY <1>6 DEF ProjectionInv, ContentTags, Readable
  <2>3. QED
    BY <1>6, <2>1, <2>2 DEF ProjectionInv, indexVars
<1>7. StartFails \/ Serve \/ Truncate \/ OpenFails \/ WriteDone \/ WriteFails \/ UNCHANGED vars
        => /\ UNCHANGED <<log, indexVars, indexed>> /\ (phase \in Up <=> phase' \in Up)
           /\ disk' \in {disk, Torn, log}
  BY DEF StartFails, Serve, Truncate, OpenFails, WriteDone, WriteFails, vars, Up, Appending
<1>8. QED
  BY <1>1, <1>2, <1>3, <1>4, <1>5, <1>6, <1>7 DEF Next, AppendStep, Lifecycle

LEMMA ProjectionInvariant == Spec => []ProjectionInv
BY TypeCorrect, DurableInvariant, IndexInvariant, InitProjection, NextProjection, PTL DEF Spec

-----------------------------------------------------------------------------
(* What the queries answer.                                                *)

\* Every entry that the indexes were given is an entry of the log.
LEMMA IndexedEntries ==
  ASSUME TypeOK, IndexInv
  PROVE  /\ \A i \in indexed : i \in 1..Len(log) /\ i \in Nat /\ log[i] \in Entry
         /\ \A i \in indexed : log[i].op = "stash" => log[i] \in StashEntry
         /\ \A i \in indexed : log[i].op = "capability" => log[i].cap \in Capabilities
         /\ log \in Seq(Entry) /\ Len(log) \in Nat
<1>1. log \in Seq(Entry) /\ Len(log) \in Nat
  BY LenProperties DEF TypeOK, Log
<1>2. \A i \in indexed : i \in 1..Len(log)
  BY DEF IndexInv, IndexedCoversAcked
<1>3. \A i \in indexed : i \in Nat /\ log[i] \in Entry
  BY <1>1, <1>2, ElementOfSeq
<1>4. \A i \in indexed : log[i].op = "capability" => log[i].cap \in Capabilities
  BY <1>3, EntryKinds DEF CapabilityEntry
<1>5. QED
  BY <1>1, <1>2, <1>3, <1>4, EntryKinds

LEMMA TagQueriesAnswer ==
  ASSUME TypeOK, IndexInv, ProjectionInv, phase = "ready"
  PROVE  TagQueriesAnswerLog
<1>1. TagsFrom(tagIndex, log, indexed) /\ DaysFrom(dateIndex, log, indexed)
  BY DEF ProjectionInv, Up
<1>2. \A t \in Tags : tagIndex[t] = {log[i].hash : i \in {i \in StashedAt : t \in log[i].tags}}
  <2>1. SUFFICES ASSUME NEW t \in Tags
                 PROVE  tagIndex[t] = {log[i].hash : i \in {i \in StashedAt : t \in log[i].tags}}
    OBVIOUS
  <2>2. {i \in StashedAt : t \in log[i].tags} = {i \in indexed : log[i].op = "stash" /\ t \in log[i].tags}
    BY DEF StashedAt
  <2>3. QED
    BY <1>1, <2>2 DEF TagsFrom
<1>3. \A s \in Spellings :
        QueryTag(s) = {log[i].hash : i \in {i \in StashedAt : ToLower[s] \in log[i].tags}}
  BY <1>2, ToLowerAssumption DEF QueryTag
<1>4. \A d \in Days : QueryDate(d) = {log[i].hash : i \in {i \in StashedAt : log[i].day = d}}
  <2>1. SUFFICES ASSUME NEW d \in Days
                 PROVE  dateIndex[d] = {log[i].hash : i \in {i \in StashedAt : log[i].day = d}}
    BY DEF QueryDate
  <2>2. {i \in StashedAt : log[i].day = d} = {i \in indexed : log[i].op = "stash" /\ log[i].day = d}
    BY DEF StashedAt
  <2>3. QED
    BY <1>1, <2>2 DEF DaysFrom
<1>5. AllTags = UNION {log[i].tags : i \in StashedAt}
  <2>1. \A i \in StashedAt : log[i].tags \subseteq Tags
    BY IndexedEntries DEF StashedAt, StashEntry
  <2>2. \A t \in Tags : tagIndex[t] # {} <=> \E i \in StashedAt : t \in log[i].tags
    BY <1>2
  <2>3. QED
    BY <2>1, <2>2 DEF AllTags
<1>6. QED
  BY <1>3, <1>4, <1>5 DEF TagQueriesAnswerLog

\* What the log says of the tags of an object is what they are.
LEMMA TagsAreOfContent ==
  ASSUME TypeOK, IndexInv, ProjectionInv, NEW i \in StashedAt
  PROVE  TagsForHash(log[i].hash) = TagsOf[log[i].hash]
<1>1. PICK h : h = log[i].hash
  OBVIOUS
<1>2. PICK S : S = {j \in 1..Len(log) : log[j].op = "stash" /\ log[j].hash = h}
  OBVIOUS
<1>3. i \in S /\ Len(log) \in Nat
  BY <1>1, <1>2, IndexedEntries DEF StashedAt
<1>4. S \in SUBSET (0..Len(log)) /\ S # {}
  BY <1>2, <1>3
<1>5. PICK m \in S : \A n \in S : n <= m
  BY <1>3, <1>4, GreatestNatural
<1>6. \A j \in S : log[j].tags = TagsOf[h]
  BY <1>2 DEF ProjectionInv, ContentTags
<1>7. PICK T : T = {j \in 1..Len(log) :
                     /\ log[j].op = "stash" /\ log[j].hash = h
                     /\ \A n \in (j + 1)..Len(log) : ~(log[n].op = "stash" /\ log[n].hash = h)}
  OBVIOUS
<1>8. m \in T
  <2>1. \A n \in (m + 1)..Len(log) : n \notin S
    BY <1>3, <1>4, <1>5
  <2>2. \A n \in (m + 1)..Len(log) : n \in 1..Len(log)
    BY <1>3, <1>4, <1>5
  <2>3. QED
    BY <1>2, <1>5, <1>7, <2>1, <2>2
<1>9. T \subseteq S
  BY <1>2, <1>7
<1>10. UNION {log[j].tags : j \in T} = TagsOf[h]
  BY <1>6, <1>8, <1>9
<1>11. TagsForHash(h) = UNION {log[j].tags : j \in T}
  BY <1>7 DEF TagsForHash
<1>12. QED
  BY <1>1, <1>10, <1>11

LEMMA TagViewsAnswer ==
  ASSUME TypeOK, IndexInv, ProjectionInv, phase = "ready"
  PROVE  TagViewsAgree
<1>1. SUFFICES ASSUME NEW i \in StashedAt, NEW s \in Spellings
               PROVE  log[i].hash \in QueryTag(s) <=> ToLower[s] \in List(Hashes)[log[i].hash]
  BY DEF TagViewsAgree
<1>2. \A j \in StashedAt : log[j].hash \in Hashes /\ log[j].tags = TagsOf[log[j].hash]
  <2>1. \A j \in StashedAt : j \in 1..Len(log) /\ log[j].op = "stash" /\ log[j] \in StashEntry
    BY IndexedEntries DEF StashedAt
  <2>2. QED
    BY <2>1 DEF StashEntry, ProjectionInv, ContentTags
<1>3. List(Hashes)[log[i].hash] = TagsOf[log[i].hash]
  BY <1>2, TagsAreOfContent DEF List
<1>4. QueryTag(s) = {log[j].hash : j \in {j \in StashedAt : ToLower[s] \in log[j].tags}}
  BY TagQueriesAnswer DEF TagQueriesAnswerLog
<1>5. QED
  BY <1>2, <1>3, <1>4

\* The identifiers of what is in order are in order.
LEMMA InOrderFields ==
  ASSUME NEW S, NEW s \in Seq(S), NEW f, InOrder(s, f)
  PROVE  /\ InOrder([k \in DOMAIN s |-> s[k].hash], [i \in DOMAIN f |-> f[i].hash])
         /\ InOrder([k \in DOMAIN s |-> s[k].id], [i \in DOMAIN f |-> f[i].id])
<1>1. PICK m \in Nat : m = Len(s) /\ DOMAIN s = 1..m
  BY LenProperties
<1>2. PICK at \in [1..m -> DOMAIN f] :
        /\ \A j, k \in 1..m : j < k => at[j] < at[k]
        /\ \A i \in DOMAIN f : \E k \in 1..m : at[k] = i
        /\ \A k \in 1..m : s[k] = f[at[k]]
  BY <1>1 DEF InOrder
<1>3. ASSUME NEW t, NEW g, t \in [1..m -> {t[k] : k \in 1..m}], DOMAIN g = DOMAIN f,
             \A k \in 1..m : t[k] = g[at[k]]
      PROVE  InOrder(t, g)
  <2>1. t \in Seq({t[k] : k \in 1..m})
    BY <1>3, SeqDef
  <2>2. Len(t) = m
    BY <1>3, <2>1, LenProperties
  <2>3. at \in [1..Len(t) -> DOMAIN g]
    BY <1>2, <1>3, <2>2
  <2>4. \A j, k \in 1..Len(t) : j < k => at[j] < at[k]
    BY <1>2, <2>2
  <2>5. \A i \in DOMAIN g : \E k \in 1..Len(t) : at[k] = i
    BY <1>2, <1>3, <2>2
  <2>6. \A k \in 1..Len(t) : t[k] = g[at[k]]
    BY <1>3, <2>2
  <2>7. QED
    BY <2>3, <2>4, <2>5, <2>6, Zenon DEF InOrder
<1>4. InOrder([k \in DOMAIN s |-> s[k].hash], [i \in DOMAIN f |-> f[i].hash])
  <2>1. PICK t : t = [k \in DOMAIN s |-> s[k].hash]
    OBVIOUS
  <2>2. PICK g : g = [i \in DOMAIN f |-> f[i].hash]
    OBVIOUS
  <2>3. t \in [1..m -> {t[k] : k \in 1..m}] /\ DOMAIN g = DOMAIN f
    BY <1>1, <2>1, <2>2
  <2>4. \A k \in 1..m : t[k] = g[at[k]]
    BY <1>1, <1>2, <2>1, <2>2
  <2>5. InOrder(t, g)
    BY <1>3, <2>3, <2>4
  <2>6. QED
    BY <2>1, <2>2, <2>5
<1>5. InOrder([k \in DOMAIN s |-> s[k].id], [i \in DOMAIN f |-> f[i].id])
  <2>1. PICK t : t = [k \in DOMAIN s |-> s[k].id]
    OBVIOUS
  <2>2. PICK g : g = [i \in DOMAIN f |-> f[i].id]
    OBVIOUS
  <2>3. t \in [1..m -> {t[k] : k \in 1..m}] /\ DOMAIN g = DOMAIN f
    BY <1>1, <2>1, <2>2
  <2>4. \A k \in 1..m : t[k] = g[at[k]]
    BY <1>1, <1>2, <2>1, <2>2
  <2>5. InOrder(t, g)
    BY <1>3, <2>3, <2>4
  <2>6. QED
    BY <2>1, <2>2, <2>5
<1>6. QED
  BY <1>4, <1>5

LEMMA RelationQueriesAnswer ==
  ASSUME TypeOK, IndexInv, ProjectionInv, phase = "ready"
  PROVE  RelationQueriesAnswerLog
<1>1. RelationsFrom(relationIndex, log, indexed)
  BY DEF ProjectionInv, Up
<1>2. ASSUME NEW h \in Hashes
      PROVE  /\ InOrder(RelationsForHash(h).outgoing, [i \in {i \in RelatedAt : log[i].from = h} |-> log[i]])
             /\ InOrder(RelationsForHash(h).incoming, [i \in {i \in RelatedAt : log[i].to = h} |-> log[i]])
  <2>1. /\ {i \in RelatedAt : log[i].from = h} = Froms(log, indexed, h)
        /\ {i \in RelatedAt : log[i].to = h} = Tos(log, indexed, h)
    BY DEF RelatedAt, Froms, Tos
  <2>2. /\ RelationsForHash(h).outgoing = relationIndex.from[h]
        /\ RelationsForHash(h).incoming = relationIndex.to[h]
    BY DEF RelationsForHash
  <2>3. QED
    BY <1>1, <2>1, <2>2 DEF RelationsFrom
<1>3. ASSUME NEW r \in Rels
      PROVE  InOrder(QueryRelation("rel", r), [i \in {i \in RelatedAt : log[i].rel = r} |-> log[i].hash])
  <2>1. {i \in RelatedAt : log[i].rel = r} = OfRel(log, indexed, r)
    BY DEF RelatedAt, OfRel
  <2>2. PICK s : s = relationIndex.rel[r]
    OBVIOUS
  <2>3. s \in Seq(RelationEntry)
    BY <2>2 DEF TypeOK, IndexTypeOK
  <2>4. PICK f : f = [i \in OfRel(log, indexed, r) |-> log[i]]
    OBVIOUS
  <2>5. InOrder(s, f)
    BY <1>1, <2>2, <2>4 DEF RelationsFrom
  <2>6. InOrder([k \in DOMAIN s |-> s[k].hash], [i \in DOMAIN f |-> f[i].hash])
    BY <2>3, <2>5, InOrderFields
  <2>7. [i \in DOMAIN f |-> f[i].hash] = [i \in OfRel(log, indexed, r) |-> log[i].hash]
    BY <2>4
  <2>8. QueryRelation("rel", r) = [k \in DOMAIN s |-> s[k].hash]
    BY <2>2 DEF QueryRelation, HashesOf
  <2>9. QED
    BY <2>1, <2>6, <2>7, <2>8
<1>4. QED
  BY <1>2, <1>3 DEF RelationQueriesAnswerLog

LEMMA CapabilityQueriesAnswer ==
  ASSUME TypeOK, IndexInv, ProjectionInv, phase = "ready"
  PROVE  CapabilityQueriesAnswerLog
<1>1. CapabilitiesFrom(capabilityIndex, log, indexed)
  BY DEF ProjectionInv, Up
<1>2. capabilityIndex.byPrincipal \in [Principals -> Seq(Capabilities)]
  BY DEF TypeOK, IndexTypeOK
<1>3. InOrder(AllCapabilities, [i \in IssuedAt |-> log[i].cap])
  <2>1. IssuedAt = Issues(log, indexed)
    BY DEF IssuedAt, Issues
  <2>2. QED
    BY <1>1, <2>1 DEF CapabilitiesFrom, AllCapabilities
<1>4. \A p \in Principals : {i \in IssuedAt : log[i].cap.principal = p} = IssuesTo(log, indexed, p)
  BY DEF IssuedAt, IssuesTo
<1>5. ASSUME NEW p \in Principals
      PROVE  /\ InOrder(CapabilitiesForPrincipal(p), [i \in IssuesTo(log, indexed, p) |-> log[i].cap])
             /\ InOrder(QueryCapability(p), [i \in IssuesTo(log, indexed, p) |-> log[i].cap.id])
             /\ CapabilitiesForPrincipal(p) = <<>> <=> IssuesTo(log, indexed, p) = {}
  <2>1. PICK s : s = capabilityIndex.byPrincipal[p]
    OBVIOUS
  <2>2. PICK f : f = [i \in IssuesTo(log, indexed, p) |-> log[i].cap]
    OBVIOUS
  <2>3. s \in Seq(Capabilities) /\ InOrder(s, f)
    BY <1>1, <1>2, <2>1, <2>2 DEF CapabilitiesFrom
  <2>4. InOrder([k \in DOMAIN s |-> s[k].id], [i \in DOMAIN f |-> f[i].id])
    BY <2>3, InOrderFields
  <2>5. [i \in DOMAIN f |-> f[i].id] = [i \in IssuesTo(log, indexed, p) |-> log[i].cap.id]
    BY <2>2
  <2>6. QueryCapability(p) = [k \in DOMAIN s |-> s[k].id] /\ CapabilitiesForPrincipal(p) = s
    BY <2>1 DEF QueryCapability, CapabilitiesForPrincipal
  <2>7. s = <<>> <=> DOMAIN f = {}
    BY <2>3, InOrderEmpty
  <2>8. QED
    BY <2>2, <2>3, <2>4, <2>5, <2>6, <2>7
<1>6. ASSUME NEW id \in Ids
      PROVE  LET grants == {i \in IssuedAt : log[i].cap.id = id}
             IN \/ grants = {} /\ CapabilityByID(id) = NoCapability
                \/ \E i \in grants : (\A j \in grants : j <= i) /\ CapabilityByID(id) = log[i].cap
  <2>1. {i \in IssuedAt : log[i].cap.id = id} = IssuesOf(log, indexed, id)
    BY DEF IssuedAt, IssuesOf
  <2>2. IsCapabilityOf(capabilityIndex.byID[id], log, IssuesOf(log, indexed, id))
    BY <1>1 DEF CapabilitiesFrom
  <2>3. QED
    BY <2>1, <2>2 DEF IsCapabilityOf, CapabilityByID
<1>7. KnownPrincipals = {log[i].cap.principal : i \in IssuedAt} \ {Nobody}
  <2>1. \A i \in IssuedAt : log[i].cap.principal \in Principals
    BY IndexedEntries DEF IssuedAt, Principals
  <2>2. \A p \in Principals : CapabilitiesForPrincipal(p) # <<>>
          <=> \E i \in IssuedAt : log[i].cap.principal = p
    BY <1>4, <1>5
  <2>3. QED
    BY <2>1, <2>2 DEF KnownPrincipals, CapabilitiesForPrincipal
<1>8. QED
  BY <1>3, <1>4, <1>5, <1>6, <1>7 DEF CapabilityQueriesAnswerLog

\* A path is its first part and the rest.
LEMMA HeadAndRest ==
  ASSUME NEW S, NEW p \in Seq(S), Len(p) > 1
  PROVE  /\ SubSeq(p, 1, 1) = <<Head(p)>>
         /\ <<Head(p)>> \o SubSeq(p, 2, Len(p)) = p
<1>1. PICK m \in Nat : m = Len(p) /\ m > 1
  BY LenProperties
<1>2. p # <<>> /\ Head(p) = p[1] /\ p[1] \in S
  BY <1>1, EmptySeq, HeadTailProperties, ElementOfSeq
<1>3. SubSeq(p, 1, 1) \in Seq(S) /\ Len(SubSeq(p, 1, 1)) = 1 /\ SubSeq(p, 1, 1)[1] = p[1]
  BY <1>1, SubSeqProperties
<1>4. <<p[1]>> \in Seq(S) /\ Len(<<p[1]>>) = 1 /\ <<p[1]>>[1] = p[1]
  BY <1>2
<1>5. SubSeq(p, 1, 1) = <<p[1]>>
  <2>1. PICK u \in Seq(S), v \in Seq(S) : u = SubSeq(p, 1, 1) /\ v = <<p[1]>>
    BY <1>3, <1>4
  <2>2. Len(u) = 1 /\ Len(v) = 1 /\ u[1] = v[1]
    BY <1>3, <1>4, <2>1
  <2>3. u = v
    BY <2>2, SeqEqual
  <2>4. QED
    BY <2>1, <2>3
<1>6. PICK q : q = SubSeq(p, 2, m)
  OBVIOUS
<1>7. q \in Seq(S) /\ Len(q) = m - 1 /\ \A i \in 1..(m - 1) : q[i] = p[i + 1]
  BY <1>1, <1>6, SubSeqProperties
<1>8. PICK c : c = <<p[1]>> \o q
  OBVIOUS
<1>9. /\ c \in Seq(S) /\ Len(c) = m
      /\ \A i \in 1..m : c[i] = IF i <= 1 THEN <<p[1]>>[i] ELSE q[i - 1]
  BY <1>1, <1>4, <1>7, <1>8, ConcatProperties
<1>10. \A i \in 1..m : c[i] = p[i]
  <2>1. SUFFICES ASSUME NEW i \in 1..m
                 PROVE  c[i] = p[i]
    OBVIOUS
  <2>2. CASE i = 1
    BY <1>4, <1>9, <2>2
  <2>3. CASE i # 1
    <3>1. i - 1 \in 1..(m - 1) /\ (i - 1) + 1 = i
      BY <2>3
    <3>2. q[i - 1] = p[(i - 1) + 1]
      BY <1>7, <3>1
    <3>3. QED
      BY <1>9, <2>3, <3>1, <3>2
  <2>4. QED
    BY <2>2, <2>3
<1>11. c = p
  BY <1>1, <1>9, <1>10, SeqEqual
<1>12. QED
  BY <1>1, <1>2, <1>5, <1>6, <1>8, <1>11

LEMMA NamesAreFound ==
  ASSUME TypeOK
  PROVE  NamesAreBrowsable
<1>1. \A l \in Labels : PathOf[l] \in Seq(STRING)
  BY PathOfAssumption
<1>2. \A n : Len(<<n>>) = 1 /\ 1 + 1 = 2
  OBVIOUS
\* A name of a namespace is one of those that were found, and there are no others.
<1>3. ASSUME NEW n, NEW l \in Named, Under(l, <<n>>)
      PROVE  n = Head(PathOf[l]) /\ Len(PathOf[l]) > 1
  <2>1. l \in Labels /\ Len(PathOf[l]) > 1 /\ SubSeq(PathOf[l], 1, 1) = <<n>>
    BY <1>2, <1>3 DEF Named, Under
  <2>2. <<Head(PathOf[l])>> = <<n>>
    BY <1>1, <2>1, HeadAndRest
  <2>3. QED
    BY <2>1, <2>2
<1>4. ASSUME NEW b \in Found
      PROVE  \E l \in Named :
               /\ PathOf[l] = PathTo(b) /\ QueryName(l) = {b.entry.hash}
               /\ b = [namespace |-> Head(PathOf[l]),
                       entry |-> [label |-> SubSeq(PathOf[l], 2, Len(PathOf[l])), hash |-> nameIndex[l]]]
  <2>0. PICK n \in Namespaces : \E e \in NamesInNamespace(<<n>>) : b = [namespace |-> n, entry |-> e]
    BY DEF Found
  <2>1. PICK e \in NamesInNamespace(<<n>>) : b = [namespace |-> n, entry |-> e]
    BY <2>0
  <2>2. PICK l \in Named : /\ Under(l, <<n>>)
                           /\ e = [label |-> SubSeq(PathOf[l], Len(<<n>>) + 1, Len(PathOf[l])),
                                   hash |-> nameIndex[l]]
    BY DEF NamesInNamespace
  <2>3. n = Head(PathOf[l]) /\ Len(PathOf[l]) > 1 /\ l \in Labels /\ nameIndex[l] # NoHash
    BY <1>3, <2>2 DEF Named
  <2>4. /\ b.namespace = Head(PathOf[l]) /\ b.entry.hash = nameIndex[l]
        /\ b.entry.label = SubSeq(PathOf[l], 2, Len(PathOf[l]))
    BY <1>2, <2>1, <2>2, <2>3
  <2>5. PathTo(b) = PathOf[l]
    BY <1>1, <2>3, <2>4, HeadAndRest DEF PathTo
  <2>6. QueryName(l) = {b.entry.hash}
    BY <2>3, <2>4 DEF QueryName
  <2>7. b = [namespace |-> Head(PathOf[l]),
             entry |-> [label |-> SubSeq(PathOf[l], 2, Len(PathOf[l])), hash |-> nameIndex[l]]]
    BY <1>2, <2>1, <2>2, <2>3
  <2>8. QED
    BY <2>5, <2>6, <2>7
<1>5. ASSUME NEW b \in Found, NEW c \in Found, PathTo(b) = PathTo(c)
      PROVE  b = c
  <2>1. PICK l \in Named :
          /\ PathOf[l] = PathTo(b)
          /\ b = [namespace |-> Head(PathOf[l]),
                  entry |-> [label |-> SubSeq(PathOf[l], 2, Len(PathOf[l])), hash |-> nameIndex[l]]]
    BY <1>4
  <2>2. PICK m \in Named :
          /\ PathOf[m] = PathTo(c)
          /\ c = [namespace |-> Head(PathOf[m]),
                  entry |-> [label |-> SubSeq(PathOf[m], 2, Len(PathOf[m])), hash |-> nameIndex[m]]]
    BY <1>4
  <2>3. l = m
    BY <1>5, <2>1, <2>2, PathOfAssumption DEF Named
  <2>4. QED
    BY <2>1, <2>2, <2>3
<1>6. ASSUME NEW l \in Named, Len(PathOf[l]) > 1
      PROVE  \E b \in Found : PathTo(b) = PathOf[l]
  <2>1. l \in Labels
    BY DEF Named
  <2>2. PICK n : n = Head(PathOf[l])
    OBVIOUS
  <2>3. n \in Namespaces
    BY <2>2 DEF Namespaces
  <2>4. Under(l, <<n>>)
    BY <1>1, <1>2, <1>6, <2>1, <2>2, HeadAndRest DEF Under
  <2>5. PICK e : e = [label |-> SubSeq(PathOf[l], Len(<<n>>) + 1, Len(PathOf[l])), hash |-> nameIndex[l]]
    OBVIOUS
  <2>6. e \in NamesInNamespace(<<n>>)
    BY <2>4, <2>5 DEF NamesInNamespace
  <2>7. PICK b : b = [namespace |-> n, entry |-> e]
    OBVIOUS
  <2>8. b \in Found
    <3>1. b \in {[namespace |-> n, entry |-> d] : d \in NamesInNamespace(<<n>>)}
      BY <2>6, <2>7
    <3>2. QED
      BY <2>3, <3>1 DEF Found
  <2>9. b.namespace = n /\ b.entry.label = SubSeq(PathOf[l], 2, Len(PathOf[l]))
    BY <1>2, <2>5, <2>7
  <2>10. PathTo(b) = PathOf[l]
    BY <1>1, <1>6, <2>1, <2>2, <2>9, HeadAndRest DEF PathTo
  <2>11. QED
    BY <2>8, <2>10
<1>7. QED
  BY <1>4, <1>5, <1>6 DEF NamesAreBrowsable

\* What every query answers, of tags, dates, names, relations and capabilities, is
\* what a walk over the log would: however the process came to its indexes, by
\* replay or by appends, and however many appends have failed.
THEOREM QueriesProjectLog == Spec => []QueriesAnswerLog
<1>1. TypeOK /\ IndexInv /\ ProjectionInv => QueriesAnswerLog
  BY TagQueriesAnswer, TagViewsAnswer, RelationQueriesAnswer, NamesAreFound, CapabilityQueriesAnswer
     DEF QueriesAnswerLog
<1>2. QED
  BY <1>1, TypeCorrect, IndexInvariant, ProjectionInvariant, PTL

-----------------------------------------------------------------------------
(* The store implements the event log.                                     *)

LEMMA InitRefines == Init => Promise!Init
BY FileAssumption DEF Init, Promise!Init, Events, Lost, Up, Appending, Readable

\* Steps that touch neither the log nor the acknowledged entries are stutters.
LEMMA SameEventsStutters ==
  ASSUME Events' = Events, acked' = acked, Lost' = Lost
  PROVE  UNCHANGED Promise!vars
BY DEF Promise!vars

LEMMA NextRefines ==
  TypeOK /\ DurableInv /\ [Next]_vars => [Promise!Next]_(Promise!vars)
<1> SUFFICES ASSUME TypeOK, DurableInv, [Next]_vars
             PROVE  [Promise!Next]_(Promise!vars)
  OBVIOUS
<1> USE DEF Phases, Up, Appending, Log, Readable
<1>1. CASE AppendCall
  <2>1. PICK e \in Entry : BeginAppend(e)
    BY <1>1, AppendCallBegins
  <2>2. Events' = Append(Events, e) /\ acked' = acked /\ ~Lost /\ Lost' = Lost
    BY <2>1 DEF BeginAppend, Events, Lost
  <2>3. Promise!Attempt
    BY <2>1, <2>2 DEF Promise!Attempt
  <2>4. QED
    BY <2>3 DEF Promise!Next
<1>2. CASE Acknowledge
  <2>1. /\ phase = "saved" /\ phase' = "ready" /\ log' = log
        /\ acked' = acked \cup {<<Len(log), log[Len(log)]>>}
    BY <1>2 DEF Acknowledge
  <2>2. Events' = log /\ Events = log /\ ~Lost /\ Lost' = Lost /\ log # <<>>
    BY <2>1 DEF Events, Lost, TypeOK
  <2>3. Promise!Keep
    BY <2>1, <2>2 DEF Promise!Keep
  <2>4. QED
    BY <2>3 DEF Promise!Next
<1>3. CASE Crash
  <2>1. /\ phase \in Up /\ phase' = "down" /\ acked' = acked /\ disk' = disk
        /\ Events = log /\ ~Lost
    BY <1>3 DEF Crash, Events, Lost
  <2>2. CASE disk = Torn
    <3>1. Events' = <<>> /\ Lost'
      BY <2>1, <2>2 DEF Events, Lost
    <3>2. Promise!Lose
      BY <2>1, <3>1 DEF Promise!Lose, Lost
    <3>3. QED
      BY <3>2 DEF Promise!Next
  <2>3. CASE disk = Absent
    <3>1. acked = {}
      BY <2>3, FileAssumption DEF DurableInv, AckedDurable
    <3>2. Events' = <<>> /\ ~Lost'
      BY <2>1, <2>3, FileAssumption DEF Events, Lost
    <3>3. 0 \in 0..Len(log) /\ SubSeq(log, 1, 0) = <<>>
      BY LenProperties, SubSeqEmpty DEF TypeOK
    <3>4. Promise!Forget
      BY <2>1, <3>1, <3>2, <3>3 DEF Promise!Forget, Lost
    <3>5. QED
      BY <3>4 DEF Promise!Next
  <2>4. CASE Readable
    <3>1. disk \in Seq(Entry) /\ Len(disk) \in 0..Len(log)
      BY <2>1, <2>4, LenProperties DEF TypeOK, DurableInv, FileIsPrefix
    <3>2. SubSeq(log, 1, Len(disk)) = disk
      <4>1. \A i \in 1..Len(disk) : disk[i] = log[i]
        BY <2>1, <2>4 DEF DurableInv, FileIsPrefix
      <4>2. /\ SubSeq(log, 1, Len(disk)) \in Seq(Entry)
            /\ Len(SubSeq(log, 1, Len(disk))) = Len(disk)
            /\ \A i \in 1..Len(disk) : SubSeq(log, 1, Len(disk))[i] = log[i]
        BY <3>1, LenProperties, SubSeqProperties DEF TypeOK
      <4>3. QED
        BY <3>1, <4>1, <4>2, SeqEqual
    <3>3. \A a \in acked : a[1] <= Len(disk)
      BY <2>4, <3>1, LenProperties DEF DurableInv, AckedDurable
    <3>4. Events' = disk /\ ~Lost'
      BY <2>1, <2>4 DEF Events, Lost
    <3>5. Promise!Forget
      BY <2>1, <3>1, <3>2, <3>3, <3>4 DEF Promise!Forget, Lost
    <3>6. QED
      BY <3>5 DEF Promise!Next
  <2>5. QED
    BY <2>2, <2>3, <2>4
<1>4. CASE Start
  <2>1. Events' = Events /\ acked' = acked /\ Lost' = Lost
    BY <1>4, FileAssumption DEF Start, Events, Lost
  <2>2. QED
    BY <2>1, SameEventsStutters
<1>5. CASE StartFails
  <2>1. Events' = Events /\ acked' = acked /\ Lost' = Lost
    BY <1>5 DEF StartFails, Events, Lost
  <2>2. QED
    BY <2>1, SameEventsStutters
<1>6. CASE Replay \/ Serve \/ Truncate \/ OpenFails \/ WriteDone \/ WriteFails
  <2>1. phase \in Up /\ phase' \in Up /\ log' = log /\ acked' = acked
    BY <1>6 DEF Replay, Serve, Truncate, OpenFails, WriteDone, WriteFails
  <2>2. Events' = Events /\ acked' = acked /\ Lost' = Lost
    BY <2>1 DEF Events, Lost
  <2>3. QED
    BY <2>2, SameEventsStutters
<1>7. CASE UNCHANGED vars
  <2>1. Events' = Events /\ acked' = acked /\ Lost' = Lost
    BY <1>7 DEF vars, Events, Lost
  <2>2. QED
    BY <2>1, SameEventsStutters
<1>8. QED
  BY <1>1, <1>2, <1>3, <1>4, <1>5, <1>6, <1>7 DEF Next, AppendStep, Lifecycle

\* The store is an implementation of the event log: every step of it is a step
\* of the event log or leaves the event log unchanged.
THEOREM StoreImplementsEventLog == Spec => ImplementsEventLog
BY TypeCorrect, DurableInvariant, InitRefines, NextRefines, PTL
   DEF Spec, ImplementsEventLog, Promise!Spec
=============================================================================
