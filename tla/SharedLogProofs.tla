-------------------------- MODULE SharedLogProofs --------------------------
(***************************************************************************)
(* Proofs about SharedLog, for any number of programs on one directory,    *)
(* imports of any size, and however their steps interleave.                *)
(***************************************************************************)
EXTENDS SharedLog, SequenceTheorems, TLAPS

\* The copies of the log: what the programs have in memory, and the file when it is
\* complete.
Copies == {memory[q] : q \in Writers} \cup (IF Complete(disk) THEN {disk} ELSE {})

\* No copy is ahead of the programs whose appends it holds.
Numbered(f) == \A e \in EntriesOf(f) : e[2] <= appends[e[1]]

HasWhole(f, p) == \A j \in 1..BatchSize : <<p, j>> \in EntriesOf(f)

ImportsInFull(f) ==
  \A p \in Importers : \A k \in 1..appends[p] : <<p, k>> \in EntriesOf(f) => HasWhole(f, p)

GoodLog(f) == f \in Seq(Entry) /\ Numbered(f) /\ InOrder(f) /\ ImportsInFull(f)

CopiesAreGood == \A f \in Copies : GoodLog(f)

\* An import appends once.
ImportsOnce ==
  \A p \in Importers : pc[p] \in {"off", "up"} => appends[p] = 0

\* The entries of a program's latest append; while it saves them they are in its
\* memory.
Latest(p) == {<<p, k>> : k \in (appends[p] - Batch(p) + 1)..appends[p]}

SavesAreInMemory ==
  \A p \in Writers : pc[p] \in {"saving", "writing"} =>
    appends[p] >= Batch(p) /\ Latest(p) \subseteq EntriesOf(memory[p])

\* Until two programs overlap there is one at most, and it knows everything that was
\* acknowledged.
OneKnowsAll ==
  ~overlap =>
    /\ \A p, q \in Writers : pc[p] \in Busy /\ pc[q] \in Busy => p = q
    /\ \A p \in Writers : pc[p] \in Busy => acked \subseteq EntriesOf(memory[p])
    /\ AckedSurvive

\* The inductive invariant of the programs on one file.
SharedInv ==
  /\ TypeOK
  /\ CopiesAreGood
  /\ ImportsOnce
  /\ SavesAreInMemory
  /\ OneKnowsAll

-----------------------------------------------------------------------------
(* Facts about logs.                                                       *)

LEMMA BatchType == \A p : Batch(p) \in Nat
BY BoundsAssumption DEF Batch

\* The entries of a longer log.
LEMMA EntriesOfConcat ==
  ASSUME NEW S, NEW f \in Seq(S), NEW g \in Seq(S)
  PROVE  EntriesOf(f \o g) = EntriesOf(f) \cup EntriesOf(g)
<1>1. /\ f \o g \in Seq(S) /\ Len(f \o g) = Len(f) + Len(g)
      /\ \A k \in 1..(Len(f) + Len(g)) :
           (f \o g)[k] = IF k <= Len(f) THEN f[k] ELSE g[k - Len(f)]
      /\ Len(f) \in Nat /\ Len(g) \in Nat
      /\ DOMAIN f = 1..Len(f) /\ DOMAIN g = 1..Len(g) /\ DOMAIN (f \o g) = 1..(Len(f) + Len(g))
  BY ConcatProperties, LenProperties
<1> DEFINE fg == f \o g
<1> HIDE DEF fg
<1>2. ASSUME NEW k \in 1..Len(f)
      PROVE  k \in DOMAIN fg /\ fg[k] = f[k]
  BY <1>1 DEF fg
<1>3. ASSUME NEW k \in 1..Len(g)
      PROVE  Len(f) + k \in DOMAIN fg /\ fg[Len(f) + k] = g[k]
  BY <1>1 DEF fg
<1>4. ASSUME NEW k \in DOMAIN fg
      PROVE  fg[k] \in EntriesOf(f) \cup EntriesOf(g)
  <2>1. CASE k <= Len(f)
    BY <1>1, <2>1 DEF fg, EntriesOf
  <2>2. CASE ~(k <= Len(f))
    <3>1. k - Len(f) \in DOMAIN g /\ fg[k] = g[k - Len(f)]
      BY <1>1, <2>2 DEF fg
    <3>2. QED
      BY <3>1 DEF EntriesOf
  <2>3. QED
    BY <2>1, <2>2
<1>5. EntriesOf(f) \subseteq EntriesOf(fg)
  BY <1>1, <1>2 DEF EntriesOf
<1>6. EntriesOf(g) \subseteq EntriesOf(fg)
  BY <1>1, <1>3 DEF EntriesOf
<1>7. EntriesOf(fg) \subseteq EntriesOf(f) \cup EntriesOf(g)
  <2>1. \A e \in EntriesOf(fg) : \E k \in DOMAIN fg : e = fg[k]
    BY DEF EntriesOf
  <2>2. QED
    BY <1>4, <2>1
<1>8. QED
  BY <1>5, <1>6, <1>7 DEF fg

\* Entries with larger numbers may be put at the end of a log that is in order.
LEMMA InOrderConcat ==
  ASSUME NEW f \in Seq(Entry), NEW g \in Seq(Entry), InOrder(f), InOrder(g),
         \A d \in EntriesOf(f), e \in EntriesOf(g) : d[1] = e[1] => d[2] < e[2]
  PROVE  InOrder(f \o g)
<1>1. /\ Len(f \o g) = Len(f) + Len(g)
      /\ \A k \in 1..(Len(f) + Len(g)) :
           (f \o g)[k] = IF k <= Len(f) THEN f[k] ELSE g[k - Len(f)]
      /\ Len(f) \in Nat /\ Len(g) \in Nat
      /\ DOMAIN f = 1..Len(f) /\ DOMAIN g = 1..Len(g)
  BY ConcatProperties, LenProperties
<1> DEFINE fg == f \o g
<1> HIDE DEF fg
<1>2. SUFFICES ASSUME NEW i \in 1..(Len(f) + Len(g)), NEW j \in 1..(Len(f) + Len(g)),
                      i < j, fg[i][1] = fg[j][1]
               PROVE  fg[i][2] < fg[j][2]
  BY <1>1 DEF InOrder, fg
<1>3. CASE j <= Len(f)
  <2>1. fg[i] = f[i] /\ fg[j] = f[j] /\ i \in 1..Len(f) /\ j \in 1..Len(f)
    BY <1>1, <1>2, <1>3 DEF fg
  <2>2. QED
    BY <1>2, <2>1 DEF InOrder
<1>4. CASE i <= Len(f) /\ ~(j <= Len(f))
  <2>1. fg[i] = f[i] /\ fg[j] = g[j - Len(f)] /\ i \in DOMAIN f /\ j - Len(f) \in DOMAIN g
    BY <1>1, <1>2, <1>4 DEF fg
  <2>2. QED
    BY <1>2, <2>1 DEF EntriesOf
<1>5. CASE ~(i <= Len(f))
  <2>1. /\ fg[i] = g[i - Len(f)] /\ fg[j] = g[j - Len(f)]
        /\ i - Len(f) \in 1..Len(g) /\ j - Len(f) \in 1..Len(g) /\ i - Len(f) < j - Len(f)
    BY <1>1, <1>2, <1>5 DEF fg
  <2>2. QED
    BY <1>2, <2>1 DEF InOrder
<1>6. QED
  BY <1>1, <1>2, <1>3, <1>4, <1>5

LEMMA EmptyLog == EntriesOf(<<>>) = {} /\ GoodLog(<<>>)
<1>1. <<>> \in Seq(Entry) /\ Len(<<>>) = 0 /\ DOMAIN <<>> = {}
  BY EmptySeq
<1>2. EntriesOf(<<>>) = {}
  BY <1>1 DEF EntriesOf
<1>3. InOrder(<<>>)
  BY <1>1 DEF InOrder
<1>4. QED
  BY <1>1, <1>2, <1>3 DEF GoodLog, Numbered, ImportsInFull

\* The entries of the next append of p.
LEMMA NextEntriesFacts ==
  ASSUME TypeOK, NEW p \in Writers
  PROVE  /\ NextEntries(p) \in Seq(Entry)
         /\ EntriesOf(NextEntries(p)) = {<<p, k>> : k \in (appends[p] + 1)..(appends[p] + Batch(p))}
         /\ InOrder(NextEntries(p))
<1>1. appends[p] \in Nat /\ Batch(p) \in Nat
  BY BatchType DEF TypeOK
<1>2. \A k \in 1..Batch(p) : <<p, appends[p] + k>> \in Entry
  BY <1>1 DEF Entry
<1>3. /\ NextEntries(p) \in [1..Batch(p) -> Entry]
      /\ \A k \in 1..Batch(p) : NextEntries(p)[k] = <<p, appends[p] + k>>
  BY <1>2 DEF NextEntries
<1>4. NextEntries(p) \in Seq(Entry) /\ Len(NextEntries(p)) = Batch(p)
  BY <1>1, <1>3, IsASeq, LenProperties
<1>5. EntriesOf(NextEntries(p)) = {<<p, appends[p] + k>> : k \in 1..Batch(p)}
  BY <1>3 DEF EntriesOf
<1>6. \A k \in 1..Batch(p) : appends[p] + k \in (appends[p] + 1)..(appends[p] + Batch(p))
  BY <1>1
<1>7. \A k \in (appends[p] + 1)..(appends[p] + Batch(p)) :
        k - appends[p] \in 1..Batch(p) /\ k = appends[p] + (k - appends[p])
  BY <1>1
<1>8. {<<p, appends[p] + k>> : k \in 1..Batch(p)}
        = {<<p, k>> : k \in (appends[p] + 1)..(appends[p] + Batch(p))}
  BY <1>6, <1>7
<1>9. InOrder(NextEntries(p))
  BY <1>1, <1>3, <1>4 DEF InOrder
<1>10. QED
  BY <1>4, <1>5, <1>8, <1>9

LEMMA EntriesType ==
  ASSUME NEW f \in Seq(Entry)
  PROVE  EntriesOf(f) \subseteq Entry
BY ElementOfSeq DEF EntriesOf

-----------------------------------------------------------------------------
(* Types.                                                                  *)

LEMMA InitShared == Init => SharedInv
<1> SUFFICES ASSUME Init
             PROVE  SharedInv
  OBVIOUS
<1>1. TypeOK
  <2>1. <<>> \in Seq(Entry)
    BY EmptySeq
  <2>2. QED
    BY <2>1 DEF Init, TypeOK
<1>2. CopiesAreGood
  BY EmptyLog DEF Init, CopiesAreGood, Copies, Complete
<1>3. ImportsOnce /\ SavesAreInMemory
  BY DEF Init, ImportsOnce, SavesAreInMemory, Importers, Writers
<1>4. OneKnowsAll
  BY DEF Init, OneKnowsAll, AckedSurvive, Busy
<1>5. QED
  BY <1>1, <1>2, <1>3, <1>4 DEF SharedInv

LEMMA NextType == SharedInv /\ [Next]_vars => TypeOK'
<1> SUFFICES ASSUME TypeOK, SavesAreInMemory, [Next]_vars
             PROVE  TypeOK'
  BY DEF SharedInv
<1>1. ASSUME NEW p \in Writers, Load(p)
      PROVE  TypeOK'
  <2>1. (IF disk = Absent THEN <<>> ELSE disk) \in Seq(Entry)
    BY <1>1, EmptySeq DEF Load, TypeOK
  <2>2. overlap' \in BOOLEAN
    BY <1>1, Zenon DEF Load, TypeOK
  <2>3. QED
    BY <1>1, <2>1, <2>2 DEF Load, TypeOK, Busy
<1>2. ASSUME NEW p \in Writers, LoadFails(p) \/ Truncate(p) \/ (p \notin Uploads /\ Kill(p))
      PROVE  TypeOK'
  <2>1. overlap' \in BOOLEAN
    BY <1>2, Zenon DEF LoadFails, Truncate, Kill, TypeOK
  <2>2. memory' \in [Writers -> Seq(Entry)]
    BY <1>2, EmptySeq DEF LoadFails, Truncate, Kill, TypeOK
  <2>3. pc' \in [Writers -> Busy \cup {"off", "done", "failed"}]
    BY <1>2 DEF LoadFails, Truncate, Kill, TypeOK, Busy
  <2>4. disk' \in Seq(Entry) \cup {Absent, Empty, Garbled}
    BY <1>2 DEF LoadFails, Truncate, Kill, TypeOK
  <2>5. appends' = appends /\ starts' = starts /\ acked' = acked
    BY <1>2 DEF LoadFails, Truncate, Kill
  <2>6. QED
    BY <2>1, <2>2, <2>3, <2>4, <2>5 DEF TypeOK
<1>3. ASSUME NEW p \in Writers, Add(p)
      PROVE  TypeOK'
  <2>1. memory[p] \o NextEntries(p) \in Seq(Entry)
    BY NextEntriesFacts, ConcatProperties DEF TypeOK
  <2>2. appends[p] + Batch(p) \in Nat
    BY BatchType DEF TypeOK
  <2>3. overlap' \in BOOLEAN
    BY <1>3, Zenon DEF Add, TypeOK
  <2>4. QED
    BY <1>3, <2>1, <2>2, <2>3 DEF Add, TypeOK, Busy
<1>4. ASSUME NEW p \in Writers, Write(p)
      PROVE  TypeOK'
  <2>1. appends[p] >= Batch(p) /\ appends[p] \in Nat /\ Batch(p) \in Nat
    BY <1>4, BatchType DEF Write, SavesAreInMemory, TypeOK
  <2>2. \A k \in (appends[p] - Batch(p) + 1)..appends[p] : <<p, k>> \in Entry
    BY <2>1 DEF Entry
  <2>3. disk' \in {memory[p], Garbled}
    BY <1>4 DEF Write, Overwritten
  <2>4. overlap' \in BOOLEAN
    BY <1>4, Zenon DEF Write, TypeOK
  <2>5. acked' \subseteq Entry
    BY <1>4, <2>2 DEF Write, TypeOK
  <2>6. QED
    BY <1>4, <2>3, <2>4, <2>5 DEF Write, TypeOK, Busy
<1>5. CASE UNCHANGED vars
  <2>1. overlap' \in BOOLEAN
    BY <1>5, Zenon DEF vars, TypeOK
  <2>2. QED
    BY <1>5, <2>1 DEF vars, TypeOK
<1>6. QED
  BY <1>1, <1>2, <1>3, <1>4, <1>5 DEF Next

-----------------------------------------------------------------------------
(* Every copy of the log is a good one.                                    *)

\* A step that appends nothing makes no new copies.
LEMMA CopiesOnly ==
  ASSUME SharedInv, NEW p \in Writers,
         Load(p) \/ LoadFails(p) \/ Truncate(p) \/ Write(p) \/ Kill(p)
  PROVE  appends' = appends /\ Copies' \subseteq Copies \cup {<<>>}
<1> USE DEF SharedInv, TypeOK
<1>1. CASE Load(p)
  BY <1>1 DEF Load, Copies, Complete
<1>2. CASE LoadFails(p)
  BY <1>2 DEF LoadFails, Copies, Complete
<1>3. CASE Truncate(p)
  BY <1>3 DEF Truncate, Copies, Complete
<1>4. CASE Write(p)
  <2>1. disk' = memory[p] \/ ~Complete(disk')
    BY <1>4 DEF Write, Overwritten, Complete
  <2>2. QED
    BY <1>4, <2>1 DEF Write, Copies, Complete
<1>5. CASE Kill(p)
  BY <1>5 DEF Kill, Copies, Complete
<1>6. QED
  BY <1>1, <1>2, <1>3, <1>4, <1>5

\* A good log stays one when a program's count grows.
LEMMA GoodLogStays ==
  ASSUME SharedInv, NEW p \in Writers, Add(p), NEW f, GoodLog(f)
  PROVE  GoodLog(f)'
<1>1. appends \in [Writers -> Nat] /\ Batch(p) \in Nat
  BY BatchType DEF SharedInv, TypeOK
<1>2. \A q \in Writers : appends'[q] >= appends[q] /\ appends'[q] \in Nat
  BY <1>1 DEF Add
<1>3. EntriesOf(f) \subseteq Entry
  BY EntriesType DEF GoodLog
<1>4. \A e \in EntriesOf(f) : e[2] <= appends'[e[1]]
  <2> SUFFICES ASSUME NEW e \in EntriesOf(f)
               PROVE  e[2] <= appends'[e[1]]
    OBVIOUS
  <2>1. e[1] \in Writers /\ e[2] \in Nat /\ e[2] <= appends[e[1]]
    BY <1>3 DEF Entry, GoodLog, Numbered
  <2>2. QED
    BY <1>1, <1>2, <2>1
<1>5. ASSUME NEW q \in Importers, NEW k \in 1..appends'[q], <<q, k>> \in EntriesOf(f)
      PROVE  HasWhole(f, q)
  <2>1. k <= appends[q] /\ q \in Writers
    BY <1>5 DEF GoodLog, Numbered, Writers, Importers
  <2>2. k \in 1..appends[q]
    BY <1>1, <2>1, <1>5, <1>2
  <2>3. QED
    BY <1>5, <2>2 DEF GoodLog, ImportsInFull
<1>6. QED
  BY <1>4, <1>5 DEF GoodLog, Numbered, ImportsInFull, HasWhole, EntriesOf, InOrder

\* What a program has in memory after its append is a good log.
LEMMA AddedIsGood ==
  ASSUME SharedInv, NEW p \in Writers, Add(p),
         NEW m, m = memory[p], NEW n, n = NextEntries(p), NEW mn, mn = m \o n
  PROVE  GoodLog(mn)'
<1>1. appends \in [Writers -> Nat] /\ Batch(p) \in Nat /\ m \in Seq(Entry) /\ TypeOK
  BY BatchType DEF SharedInv, TypeOK
<1>2. m \in Copies /\ GoodLog(m)
  BY DEF SharedInv, CopiesAreGood, Copies
<1>3. /\ n \in Seq(Entry) /\ InOrder(n)
      /\ EntriesOf(n) = {<<p, k>> : k \in (appends[p] + 1)..(appends[p] + Batch(p))}
  BY <1>1, NextEntriesFacts
<1>4. EntriesOf(mn) = EntriesOf(m) \cup EntriesOf(n) /\ mn \in Seq(Entry)
  BY <1>1, <1>3, EntriesOfConcat, ConcatProperties
<1>5. /\ appends'[p] = appends[p] + Batch(p)
      /\ \A q \in Writers : q # p => appends'[q] = appends[q]
  BY <1>1 DEF Add
<1>6. InOrder(mn)
  <2>1. ASSUME NEW d \in EntriesOf(m), NEW e \in EntriesOf(n), d[1] = e[1]
        PROVE  d[2] < e[2]
    <3>1. e[1] = p /\ e[2] > appends[p] /\ e[2] \in Nat
      BY <1>1, <1>3
    <3>2. d[2] <= appends[p] /\ d[2] \in Nat
      BY <1>1, <1>2, <2>1, <3>1, EntriesType DEF GoodLog, Numbered, Entry
    <3>3. QED
      BY <1>1, <3>1, <3>2
  <2>2. QED
    BY <1>1, <1>2, <1>3, <2>1, InOrderConcat DEF GoodLog
<1>7. GoodLog(m)'
  BY <1>2, GoodLogStays
<1>8. \A e \in EntriesOf(mn) : e[2] <= appends'[e[1]]
  <2>1. \A e \in EntriesOf(m) : e[2] <= appends'[e[1]]
    BY <1>7 DEF GoodLog, Numbered, EntriesOf
  <2>2. \A e \in EntriesOf(n) : e[2] <= appends'[e[1]]
    BY <1>1, <1>3, <1>5
  <2>3. QED
    BY <1>4, <2>1, <2>2
<1>9. ASSUME NEW q \in Importers, NEW k \in 1..appends'[q], <<q, k>> \in EntriesOf(mn)
      PROVE  HasWhole(mn, q)
  <2>1. CASE <<q, k>> \in EntriesOf(m)
    <3>1. HasWhole(m, q)
      BY <1>7, <1>9, <2>1 DEF GoodLog, ImportsInFull, HasWhole, EntriesOf
    <3>2. QED
      BY <1>4, <3>1 DEF HasWhole
  <2>2. CASE <<q, k>> \in EntriesOf(n)
    <3>1. q = p /\ Batch(p) = BatchSize
      BY <1>3, <1>9, <2>2 DEF Batch
    <3>2. appends[p] = 0
      BY <1>9, <3>1 DEF SharedInv, ImportsOnce, Add
    <3>3. \A j \in 1..BatchSize : <<p, j>> \in EntriesOf(n)
      BY <1>3, <3>1, <3>2, BoundsAssumption
    <3>4. QED
      BY <1>4, <3>1, <3>3 DEF HasWhole
  <2>3. QED
    BY <1>4, <1>9, <2>1, <2>2
<1>10. QED
  BY <1>4, <1>6, <1>8, <1>9 DEF GoodLog, Numbered, ImportsInFull, HasWhole, EntriesOf, InOrder

LEMMA NextCopies == SharedInv /\ [Next]_vars => CopiesAreGood'
<1> SUFFICES ASSUME SharedInv, [Next]_vars
             PROVE  CopiesAreGood'
  OBVIOUS
<1> USE DEF CopiesAreGood
<1>1. ASSUME appends' = appends, Copies' \subseteq Copies \cup {<<>>}
      PROVE  CopiesAreGood'
  <2>1. \A f : GoodLog(f) => GoodLog(f)'
    BY <1>1 DEF GoodLog, Numbered, ImportsInFull, HasWhole, EntriesOf, InOrder
  <2>2. QED
    BY <1>1, <2>1, EmptyLog DEF SharedInv
<1>2. ASSUME NEW p \in Writers, Add(p)
      PROVE  CopiesAreGood'
  <2>1. \A f \in Copies' : f \in Copies \/ f = memory[p] \o NextEntries(p)
    BY <1>2 DEF Add, Copies, Complete, SharedInv, TypeOK
  <2>2. \A f \in Copies : GoodLog(f)'
    BY <1>2, GoodLogStays DEF SharedInv
  <2>3. \A mn : mn = memory[p] \o NextEntries(p) => GoodLog(mn)'
    BY <1>2, AddedIsGood
  <2>4. QED
    BY <2>1, <2>2, <2>3
<1>3. CASE UNCHANGED vars
  <2>1. appends' = appends /\ Copies' = Copies
    BY <1>3 DEF vars, Copies, Complete
  <2>2. QED
    BY <1>1, <2>1
<1>4. QED
  BY <1>1, <1>2, <1>3, CopiesOnly DEF Next

-----------------------------------------------------------------------------
(* What the programs are doing.                                            *)

LEMMA NextImportsOnce == SharedInv /\ [Next]_vars => ImportsOnce'
<1> SUFFICES ASSUME SharedInv, [Next]_vars, NEW q \in Importers, pc'[q] \in {"off", "up"}
             PROVE  appends'[q] = 0
  BY DEF ImportsOnce
<1>1. q \in Writers /\ q # Server
  BY WritersAssumption DEF Writers, Importers
<1>2. pc[q] \in {"off", "up"} => appends[q] = 0
  BY DEF SharedInv, ImportsOnce
<1>3. ASSUME NEW p \in Writers,
             Load(p) \/ LoadFails(p) \/ Add(p) \/ Truncate(p) \/ Write(p) \/ Kill(p)
      PROVE  appends'[q] = appends[q] /\ pc[q] \in {"off", "up"}
  BY <1>1, <1>3
     DEF SharedInv, TypeOK, Load, LoadFails, MayStart, Add, Truncate, Write, Kill, Busy
<1>4. QED
  BY <1>2, <1>3 DEF Next, vars

LEMMA NextSaves == SharedInv /\ [Next]_vars => SavesAreInMemory'
<1> SUFFICES ASSUME SharedInv, [Next]_vars, NEW q \in Writers, pc'[q] \in {"saving", "writing"}
             PROVE  /\ appends'[q] >= Batch(q)
                    /\ {<<q, k>> : k \in (appends'[q] - Batch(q) + 1)..appends'[q]}
                         \subseteq EntriesOf(memory'[q])
  BY DEF SavesAreInMemory, Latest, EntriesOf, Batch
<1>1. appends[q] \in Nat /\ Batch(q) \in Nat /\ TypeOK
  BY BatchType DEF SharedInv, TypeOK
<1>2. ASSUME pc[q] \in {"saving", "writing"}, appends'[q] = appends[q], memory'[q] = memory[q]
      PROVE  /\ appends'[q] >= Batch(q)
             /\ {<<q, k>> : k \in (appends'[q] - Batch(q) + 1)..appends'[q]}
                  \subseteq EntriesOf(memory'[q])
  BY <1>2 DEF SharedInv, SavesAreInMemory, Latest
<1>3. ASSUME NEW p \in Writers,
             Load(p) \/ LoadFails(p) \/ Truncate(p) \/ Write(p) \/ Kill(p) \/ (Add(p) /\ p # q)
      PROVE  pc[q] \in {"saving", "writing"} /\ appends'[q] = appends[q] /\ memory'[q] = memory[q]
  BY <1>3 DEF SharedInv, TypeOK, Load, LoadFails, MayStart, Add, Truncate, Write, Kill, Busy
<1>4. ASSUME Add(q)
      PROVE  /\ appends'[q] >= Batch(q)
             /\ {<<q, k>> : k \in (appends'[q] - Batch(q) + 1)..appends'[q]}
                  \subseteq EntriesOf(memory'[q])
  <2>1. appends'[q] = appends[q] + Batch(q) /\ memory'[q] = memory[q] \o NextEntries(q)
    BY <1>4 DEF Add, SharedInv, TypeOK
  <2>2. EntriesOf(NextEntries(q)) \subseteq EntriesOf(memory'[q])
    BY <1>1, <2>1, NextEntriesFacts, EntriesOfConcat DEF TypeOK
  <2>3. appends'[q] - Batch(q) + 1 = appends[q] + 1
    BY <1>1, <2>1
  <2>4. QED
    BY <1>1, <2>1, <2>2, <2>3, NextEntriesFacts
<1>5. QED
  BY <1>2, <1>3, <1>4 DEF Next, vars

\* Only the entries of the append that p saves are new among the acknowledged.
LEMMA NextOneKnowsAll == SharedInv /\ [Next]_vars => OneKnowsAll'
<1> SUFFICES ASSUME SharedInv, [Next]_vars, ~overlap'
             PROVE  /\ \A q, r \in Writers : pc'[q] \in Busy /\ pc'[r] \in Busy => q = r
                    /\ \A q \in Writers : pc'[q] \in Busy => acked' \subseteq EntriesOf(memory'[q])
                    /\ AckedSurvive'
  BY DEF OneKnowsAll, EntriesOf
<1>1. /\ ~overlap
      /\ \A q, r \in Writers : pc[q] \in Busy /\ pc[r] \in Busy => q = r
      /\ \A q \in Writers : pc[q] \in Busy => acked \subseteq EntriesOf(memory[q])
      /\ disk \notin {Empty, Garbled} =>
           acked \subseteq IF disk = Absent THEN {} ELSE EntriesOf(disk)
      /\ TypeOK
  <2>1. ~overlap
    BY Zenon DEF Next, Load, LoadFails, Add, Truncate, Write, Kill, vars
  <2>2. QED
    BY <2>1 DEF SharedInv, OneKnowsAll, AckedSurvive
<1>2. ASSUME NEW p \in Writers, Load(p)
      PROVE  /\ \A q, r \in Writers : pc'[q] \in Busy /\ pc'[r] \in Busy => q = r
             /\ \A q \in Writers : pc'[q] \in Busy => acked' \subseteq EntriesOf(memory'[q])
             /\ AckedSurvive'
  <2>1. \A q \in Writers : pc[q] \notin Busy
    BY <1>2 DEF Load
  <2>2. \A q \in Writers : pc'[q] \in Busy => q = p
    BY <1>1, <1>2, <2>1 DEF Load, TypeOK
  <2>3. acked' \subseteq EntriesOf(memory'[p])
    BY <1>1, <1>2 DEF Load, TypeOK
  <2>4. AckedSurvive'
    BY <1>1, <1>2 DEF Load, AckedSurvive, EntriesOf
  <2>5. QED
    BY <2>2, <2>3, <2>4
<1>3. ASSUME NEW p \in Writers, LoadFails(p) \/ Truncate(p) \/ Kill(p)
      PROVE  /\ \A q, r \in Writers : pc'[q] \in Busy /\ pc'[r] \in Busy => q = r
             /\ \A q \in Writers : pc'[q] \in Busy => acked' \subseteq EntriesOf(memory'[q])
             /\ AckedSurvive'
  <2>1. \A q \in Writers : pc'[q] \in Busy => pc[q] \in Busy /\ memory'[q] = memory[q]
    BY <1>1, <1>3 DEF LoadFails, Truncate, Kill, TypeOK, Busy
  <2>2. acked' = acked /\ (disk' = disk \/ disk' = Empty)
    BY <1>3 DEF LoadFails, Truncate, Kill
  <2>3. AckedSurvive'
    BY <1>1, <2>2 DEF AckedSurvive, EntriesOf
  <2>4. QED
    BY <1>1, <2>1, <2>2, <2>3
<1>4. ASSUME NEW p \in Writers, Add(p)
      PROVE  /\ \A q, r \in Writers : pc'[q] \in Busy /\ pc'[r] \in Busy => q = r
             /\ \A q \in Writers : pc'[q] \in Busy => acked' \subseteq EntriesOf(memory'[q])
             /\ AckedSurvive'
  <2>1. \A q \in Writers : pc'[q] \in Busy => pc[q] \in Busy
    BY <1>1, <1>4 DEF Add, TypeOK, Busy
  <2>2. EntriesOf(memory[p]) \subseteq EntriesOf(memory'[p])
    <3>1. memory'[p] = memory[p] \o NextEntries(p)
      BY <1>1, <1>4 DEF Add, TypeOK
    <3>2. QED
      BY <1>1, <3>1, NextEntriesFacts, EntriesOfConcat DEF TypeOK
  <2>3. \A q \in Writers : EntriesOf(memory[q]) \subseteq EntriesOf(memory'[q])
    BY <1>1, <1>4, <2>2 DEF Add, TypeOK
  <2>4. AckedSurvive'
    BY <1>1, <1>4 DEF Add, AckedSurvive, EntriesOf
  <2>5. QED
    BY <1>1, <1>4, <2>1, <2>3, <2>4 DEF Add
<1>5. ASSUME NEW p \in Writers, Write(p)
      PROVE  /\ \A q, r \in Writers : pc'[q] \in Busy /\ pc'[r] \in Busy => q = r
             /\ \A q \in Writers : pc'[q] \in Busy => acked' \subseteq EntriesOf(memory'[q])
             /\ AckedSurvive'
  <2>1. \A q \in Writers : pc'[q] \in Busy => q = p
    BY <1>1, <1>5 DEF Write, TypeOK, Busy
  <2>2. acked' = acked \cup Latest(p) /\ memory' = memory
    BY <1>5 DEF Write, Latest
  <2>3. acked' \subseteq EntriesOf(memory[p])
    BY <1>1, <1>5, <2>2 DEF SharedInv, SavesAreInMemory, Write, Busy
  <2>4. disk' = memory[p] \/ disk' = Garbled
    BY <1>5 DEF Write, Overwritten
  <2>5. memory[p] # Absent
    BY <1>1, FilesAssumption DEF TypeOK
  <2>6. AckedSurvive'
    BY <2>3, <2>4, <2>5 DEF AckedSurvive, EntriesOf
  <2>7. QED
    BY <2>1, <2>2, <2>3, <2>6
<1>6. CASE UNCHANGED vars
  BY <1>1, <1>6 DEF vars, AckedSurvive, EntriesOf
<1>7. QED
  BY <1>2, <1>3, <1>4, <1>5, <1>6 DEF Next

-----------------------------------------------------------------------------
(* The theorems.                                                           *)

\* The inductive invariant holds in every reachable state.
THEOREM SharedInvariant == Spec => []SharedInv
<1>1. SharedInv /\ [Next]_vars => SharedInv'
  BY NextType, NextCopies, NextImportsOnce, NextSaves, NextOneKnowsAll DEF SharedInv
<1>2. QED
  BY <1>1, InitShared, PTL DEF Spec

\* The file, the copies in memory and the programs keep their types.
THEOREM SharedTypes == Spec => []TypeOK
BY SharedInvariant, PTL DEF SharedInv

\* An append that was reported as a success is in log.json from then on, over kills
\* at any step and any number of starts, until two programs overlap.
THEOREM AcknowledgedSurvive == Spec => []AckedSurviveAlone
<1>1. SharedInv => AckedSurviveAlone
  BY DEF SharedInv, OneKnowsAll, AckedSurviveAlone
<1>2. QED
  BY <1>1, SharedInvariant, PTL

\* A server that is up has in memory what any program was told is saved, until two
\* programs overlap.
THEOREM ServersKnowAcknowledged == Spec => []ServerKnowsAcked
<1>1. SharedInv => ServerKnowsAcked
  BY DEF SharedInv, OneKnowsAll, ServerKnowsAcked, Writers
<1>2. QED
  BY <1>1, SharedInvariant, PTL

\* However the programs overlap, no copy of the log holds an append twice, nor the
\* appends of one program in another order than it made them.
THEOREM LogsInOrder == Spec => []LogInOrder
<1>1. SharedInv => LogInOrder
  BY DEF SharedInv, CopiesAreGood, Copies, GoodLog, LogInOrder
<1>2. QED
  BY <1>1, SharedInvariant, PTL

\* However the programs overlap, a complete file has the whole of an import or
\* nothing of it.
THEOREM ImportsAreWhole == Spec => []ImportIsWhole
<1>1. SharedInv => ImportIsWhole
  BY DEF SharedInv, CopiesAreGood, Copies, GoodLog, ImportsInFull, HasWhole, ImportIsWhole
<1>2. QED
  BY <1>1, SharedInvariant, PTL
=============================================================================
