---------------------------- MODULE ShareProofs ----------------------------
(***************************************************************************)
(* Proofs about Share, for any objects, references between them and names, *)
(* logs of any length and any number of imports.                           *)
(***************************************************************************)
EXTENDS Share, WellFoundedInduction, SequenceTheorems, TLAPS

\* The last of the first n entries of L that name l gives h.
LatestIs(L, n, l, h) ==
  \E k \in 1..n :
    /\ L[k].op = "name" /\ L[k].label = l /\ L[k].hash = h
    /\ \A j \in (k + 1)..n : ~(L[j].op = "name" /\ L[j].label = l)

\* What traverse has found, or will find when it goes on.
Seen == visited \cup ToSet(stack)

Sharing == step \in {"traverse", "walk", "copy", "done"} /\ shared # NoLabel

\* A server writes names of its own labels, and logs what it has stored.
SourceIsOrderly ==
  /\ \A k \in 1..Len(log) :
       /\ log[k].op = "name" => log[k].label \in Labels
       /\ log[k].op = "object" => files[log[k].hash] # "absent"
  /\ Exporting /\ "stash" \notin disturbed => \A h \in Hashes : files[h] # "partial"

\* How far the export has come.
ExportIsOrderly ==
  /\ step = "idle" => visited = {} /\ stack = <<>> /\ shared = NoLabel
  /\ step \in {"walk", "copy", "done"} => stack = <<>>
  /\ step \in {"idle", "traverse", "walk"} =>
       walked = NoFiles /\ archive = [objects |-> NoFiles, log |-> <<>>]
  /\ \A h \in Hashes : archive.objects[h] \in {"absent", walked[h]}
  /\ step = "done" => \A h \in Hashes : walked[h] # "absent" => archive.objects[h] # "absent"
  /\ \A k \in 1..Len(archive.log) :
       archive.log[k].op = "name" => archive.log[k].label \in Labels

\* What is visited is there, and stays there.
VisitedIsWalked ==
  /\ \A h \in visited : files[h] # "absent"
  /\ step \in {"copy", "done"} /\ shared # NoLabel =>
       \A h \in visited : /\ walked[h] # "absent"
                          /\ "stash" \notin disturbed => walked[h] = "whole"
  /\ step \in {"copy", "done"} /\ shared = NoLabel /\ disturbed = {} =>
       \A k \in 1..Len(log) : log[k].op = "object" => walked[log[k].hash] # "absent"

\* The archived log is the log, or what filterLog keeps of it.
ArchivedLog ==
  step = "done" =>
    IF shared = NoLabel THEN archive.log = log
    ELSE /\ \A k \in 1..Len(archive.log) : Relevant(archive.log[k])
         /\ \A h \in Hashes : LatestIs(log, Len(log), shared, h)
              => LatestIs(archive.log, Len(archive.log), shared, h)

\* What traverse has seen is reachable from the root, has the root, and has what
\* the visited objects refer to.
SeenFrom(root) ==
  /\ root \in Seen
  /\ Seen \subseteq Reachable(root)
  /\ \A h \in visited : \A k \in 1..Len(Content[h]) : Content[h][k] \in Seen

TraversalIsSound ==
  Sharing /\ "stash" \notin disturbed =>
    \E root \in Hashes :
      /\ \E k \in 1..Len(log) : log[k].op = "name" /\ log[k].label = shared /\ log[k].hash = root
      /\ SeenFrom(root)
      /\ disturbed = {} => LatestIs(log, Len(log), shared, root)

\* The destination has nothing that is not whole in the archive or its own.
ImportIsOrderly ==
  /\ step # "done" => import = "idle" /\ destFiles = NoFiles
  /\ \A h \in Hashes : destFiles[h] = "partial" => archive.objects[h] = "partial"
  /\ import = "done" =>
       /\ \A h \in Hashes : archive.objects[h] # "absent" => destFiles[h] # "absent"
       /\ \A l \in Labels, h \in Hashes : LatestIs(archive.log, Len(archive.log), l, h)
            => LatestIs(destLog, Len(destLog), <<"source", l>>, h)

\* The inductive invariant of an export and the imports of its archive.
ShareInv ==
  /\ TypeOK
  /\ SourceIsOrderly
  /\ ExportIsOrderly
  /\ VisitedIsWalked
  /\ ArchivedLog
  /\ TraversalIsSound
  /\ ImportIsOrderly
-----------------------------------------------------------------------------
(* Least and greatest numbers.                                             *)

LEMMA LeastNatural ==
  ASSUME NEW S \in SUBSET Nat, S # {}
  PROVE  \E m \in S : \A n \in S : m <= n
<1> DEFINE R == OpToRel(<, Nat)
<1>1. IsWellFoundedOn(R, Nat)
  BY NatLessThanWellFounded
<1>2. ASSUME NEW x \in Nat, NEW y \in Nat, y < x
      PROVE  <<y, x>> \in R
  BY <1>2 DEF OpToRel
<1> HIDE DEF R
<1>3. PICK m \in S : \A n \in S : ~ (<<n, m>> \in R)
  BY <1>1, WFMin
<1>4. ASSUME NEW n \in S
      PROVE  m <= n
  <2>1. m \in Nat /\ n \in Nat /\ ~(n < m)
    BY <1>2, <1>3
  <2>2. QED
    BY <2>1
<1>5. QED
  BY <1>4

LEMMA GreatestNatural ==
  ASSUME NEW b \in Nat, NEW S \in SUBSET (0..b), S # {}
  PROVE  \E m \in S : \A n \in S : n <= m
<1> DEFINE T == {b - k : k \in S}
<1>1. T \in SUBSET Nat /\ T # {}
  <2>1. \A k \in S : b - k \in Nat
    OBVIOUS
  <2>2. QED
    BY <2>1
<1>2. PICK m \in T : \A n \in T : m <= n
  BY <1>1, LeastNatural
<1>3. PICK k \in S : m = b - k
  OBVIOUS
<1>4. ASSUME NEW n \in S
      PROVE  n <= k
  <2>1. b - k <= b - n
    BY <1>2, <1>3
  <2>2. QED
    BY <2>1
<1>5. QED
  BY <1>4

-----------------------------------------------------------------------------
(* The loop of filterLog.                                                  *)

\* f has the result of each iteration up to the n-th.
FilterLoop(L, f, n) ==
  f = [k \in 0..n |->
         IF k = 0 THEN <<>>
         ELSE IF Relevant(L[k]) THEN Append(f[k - 1], L[k]) ELSE f[k - 1]]

\* The loop has a result: the least number of entries without one would have a
\* result, from that of one entry less.
LEMMA FilterLoopRuns ==
  ASSUME NEW L \in Seq(Entry)
  PROVE  \E f : FilterLoop(L, f, Len(L))
<1> DEFINE Stuck == {n \in 0..Len(L) : ~ \E f : FilterLoop(L, f, n)}
<1>1. Len(L) \in Nat
  BY LenProperties
<1>2. SUFFICES ASSUME Stuck # {}
               PROVE  FALSE
  BY <1>1
<1>3. PICK n \in Stuck : \A m \in Stuck : n <= m
  <2>1. Stuck \in SUBSET Nat
    BY <1>1
  <2> HIDE DEF Stuck
  <2>2. QED
    BY <1>2, <2>1, LeastNatural
<1>4. n \in Nat /\ n <= Len(L)
  BY <1>1
<1>5. CASE n = 0
  <2>1. PICK f : f = [k \in 0..0 |-> <<>>]
    OBVIOUS
  <2>2. FilterLoop(L, f, n)
    BY <1>5, <2>1 DEF FilterLoop
  <2>3. QED
    BY <2>2
<1>6. CASE n > 0
  <2>1. n - 1 \in 0..Len(L) /\ n - 1 \notin Stuck
    BY <1>1, <1>3, <1>4, <1>6
  <2>2. PICK f : FilterLoop(L, f, n - 1)
    BY <2>1
  <2>3. PICK g : g = [k \in 0..n |->
            IF k = 0 THEN <<>>
            ELSE IF Relevant(L[k]) THEN Append(f[k - 1], L[k]) ELSE f[k - 1]]
    OBVIOUS
  <2>4. ASSUME NEW k \in 0..n, k # 0
        PROVE  g[k - 1] = f[k - 1]
    <3>1. k - 1 \in 0..n /\ k - 1 \in 0..(n - 1)
      BY <1>4, <2>4
    <3>2. QED
      BY <2>2, <2>3, <3>1 DEF FilterLoop
  <2>5. FilterLoop(L, g, n)
    BY <2>3, <2>4 DEF FilterLoop
  <2>6. QED
    BY <2>5
<1>7. QED
  BY <1>4, <1>5, <1>6

LEMMA FilterLogIsLoop ==
  ASSUME NEW L \in Seq(Entry)
  PROVE  \E f : FilterLoop(L, f, Len(L)) /\ FilterLog(L) = f[Len(L)]
<1>1. \E f : FilterLoop(L, f, Len(L))
  BY FilterLoopRuns
<1>2. QED
  BY <1>1, Zenon DEF FilterLog, FilterLoop

\* R is what is kept of the first n entries of L: all relevant, and with the last
\* of the entries that name the shared label.
Kept(L, R, n) ==
  /\ R \in Seq(Entry)
  /\ \A k \in 1..Len(R) : Relevant(R[k]) /\ \E j \in 1..n : R[k] = L[j]
  /\ \A h : LatestIs(L, n, shared, h) => LatestIs(R, Len(R), shared, h)

LEMMA KeepsOne ==
  ASSUME NEW L \in Seq(Entry), NEW n \in Nat, n < Len(L), NEW R, Kept(L, R, n)
  PROVE  Kept(L, IF Relevant(L[n + 1]) THEN Append(R, L[n + 1]) ELSE R, n + 1)
<1> DEFINE e == L[n + 1]
<1>1. n + 1 \in 1..Len(L) /\ e \in Entry /\ R \in Seq(Entry)
  BY LenProperties, ElementOfSeq DEF Kept
<1>2. e.op = "name" /\ e.label = shared => Relevant(e)
  BY DEF Relevant
<1>3. ASSUME NEW h, LatestIs(L, n + 1, shared, h), ~(e.op = "name" /\ e.label = shared)
      PROVE  LatestIs(R, Len(R), shared, h)
  <2>1. PICK k \in 1..(n + 1) :
          /\ L[k].op = "name" /\ L[k].label = shared /\ L[k].hash = h
          /\ \A j \in (k + 1)..(n + 1) : ~(L[j].op = "name" /\ L[j].label = shared)
    BY <1>3 DEF LatestIs
  <2>2. k # n + 1
    BY <1>3, <2>1
  <2>3. k \in 1..n /\ \A j \in (k + 1)..n : ~(L[j].op = "name" /\ L[j].label = shared)
    BY <2>1, <2>2
  <2>4. LatestIs(L, n, shared, h)
    BY <2>1, <2>3 DEF LatestIs
  <2>5. QED
    BY <2>4 DEF Kept
<1>4. CASE ~Relevant(e)
  <2>1. \A k \in 1..Len(R) : Relevant(R[k]) /\ \E j \in 1..(n + 1) : R[k] = L[j]
    BY DEF Kept
  <2>2. QED
    BY <1>1, <1>2, <1>3, <1>4, <2>1 DEF Kept
<1>5. CASE Relevant(e)
  <2> DEFINE M == Append(R, e)
  <2>1. /\ M \in Seq(Entry) /\ Len(M) = Len(R) + 1 /\ Len(R) \in Nat
        /\ M[Len(R) + 1] = e /\ \A k \in 1..Len(R) : M[k] = R[k]
    BY <1>1, AppendProperties, LenProperties
  <2> HIDE DEF M
  <2>2. ASSUME NEW k \in 1..Len(M)
        PROVE  Relevant(M[k]) /\ \E j \in 1..(n + 1) : M[k] = L[j]
    <3>1. CASE k \in 1..Len(R)
      <4>1. Relevant(R[k]) /\ \E j \in 1..n : R[k] = L[j]
        BY <3>1 DEF Kept
      <4>2. M[k] = R[k] /\ 1..n \subseteq 1..(n + 1)
        BY <2>1, <3>1
      <4>3. QED
        BY <4>1, <4>2
    <3>2. CASE k = Len(R) + 1
      BY <1>5, <2>1, <3>2
    <3>3. QED
      BY <2>1, <3>1, <3>2
  <2>3. ASSUME NEW h, LatestIs(L, n + 1, shared, h)
        PROVE  LatestIs(M, Len(M), shared, h)
    <3>1. CASE e.op = "name" /\ e.label = shared
      <4>1. PICK k \in 1..(n + 1) :
              /\ L[k].op = "name" /\ L[k].label = shared /\ L[k].hash = h
              /\ \A j \in (k + 1)..(n + 1) : ~(L[j].op = "name" /\ L[j].label = shared)
        BY <2>3 DEF LatestIs
      <4>2. k = n + 1
        BY <3>1, <4>1
      <4>3. Len(M) \in 1..Len(M) /\ (Len(M) + 1)..Len(M) = {}
        BY <2>1
      <4>4. M[Len(M)].op = "name" /\ M[Len(M)].label = shared /\ M[Len(M)].hash = h
        BY <2>1, <4>1, <4>2
      <4>5. QED
        BY <4>3, <4>4 DEF LatestIs
    <3>2. CASE ~(e.op = "name" /\ e.label = shared)
      <4>1. PICK k \in 1..Len(R) :
              /\ R[k].op = "name" /\ R[k].label = shared /\ R[k].hash = h
              /\ \A j \in (k + 1)..Len(R) : ~(R[j].op = "name" /\ R[j].label = shared)
        BY <1>3, <2>3, <3>2 DEF LatestIs
      <4>2. ASSUME NEW j \in (k + 1)..Len(M)
            PROVE  ~(M[j].op = "name" /\ M[j].label = shared)
        <5>1. (j \in (k + 1)..Len(R) /\ M[j] = R[j]) \/ (j = Len(R) + 1 /\ M[j] = e)
          BY <2>1
        <5>2. QED
          BY <3>2, <4>1, <5>1
      <4>3. QED
        BY <2>1, <4>1, <4>2 DEF LatestIs
    <3>3. QED
      BY <3>1, <3>2
  <2>4. Kept(L, M, n + 1)
    BY <2>1, <2>2, <2>3 DEF Kept
  <2>5. QED
    BY <1>5, <2>4 DEF M
<1>6. QED
  BY <1>4, <1>5

\* What filterLog returns.
LEMMA FilterLogKeeps ==
  ASSUME NEW L \in Seq(Entry)
  PROVE  Kept(L, FilterLog(L), Len(L))
<1>1. PICK f : FilterLoop(L, f, Len(L)) /\ FilterLog(L) = f[Len(L)]
  BY FilterLogIsLoop
<1>2. Len(L) \in Nat
  BY LenProperties
<1>3. /\ f[0] = <<>>
      /\ \A k \in 1..Len(L) : f[k] = IF Relevant(L[k]) THEN Append(f[k - 1], L[k]) ELSE f[k - 1]
  <2>1. \A k \in 0..Len(L) : f[k] = IF k = 0 THEN <<>>
           ELSE IF Relevant(L[k]) THEN Append(f[k - 1], L[k]) ELSE f[k - 1]
    BY <1>1, Zenon DEF FilterLoop
  <2>2. 0 \in 0..Len(L) /\ \A k \in 1..Len(L) : k \in 0..Len(L) /\ k # 0
    BY <1>2
  <2>3. QED
    BY <2>1, <2>2
<1> DEFINE Bad == {n \in 0..Len(L) : ~Kept(L, f[n], n)}
<1>4. SUFFICES ASSUME Bad # {}
               PROVE  FALSE
  BY <1>1, <1>2
<1>5. PICK n \in Bad : \A m \in Bad : n <= m
  <2>1. Bad \in SUBSET Nat
    BY <1>2
  <2> HIDE DEF Bad
  <2>2. QED
    BY <1>4, <2>1, LeastNatural
<1>6. n \in Nat /\ n <= Len(L) /\ ~Kept(L, f[n], n)
  BY <1>2
<1>7. CASE n = 0
  <2>1. 1..0 = {} /\ <<>> \in Seq(Entry) /\ Len(<<>>) = 0
    OBVIOUS
  <2>2. Kept(L, <<>>, 0)
    BY <2>1 DEF Kept, LatestIs
  <2>3. QED
    BY <1>3, <1>6, <1>7, <2>2
<1>8. CASE n > 0
  <2>1. PICK m \in Nat : n = m + 1 /\ m < Len(L) /\ m \in 0..Len(L) /\ m \notin Bad
    <3>1. n - 1 \in Nat /\ n - 1 \in 0..Len(L) /\ n = (n - 1) + 1 /\ n - 1 < Len(L) /\ ~(n <= n - 1)
      BY <1>2, <1>6, <1>8
    <3>2. QED
      BY <1>5, <3>1
  <2>2. Kept(L, f[m], m)
    BY <2>1
  <2>3. f[n] = IF Relevant(L[m + 1]) THEN Append(f[m], L[m + 1]) ELSE f[m]
    <3>1. n \in 1..Len(L) /\ n - 1 = m
      BY <1>2, <1>6, <1>8, <2>1
    <3>2. QED
      BY <1>3, <2>1, <3>1
  <2>4. Kept(L, f[n], n)
    BY <2>1, <2>2, <2>3, KeepsOne
  <2>5. QED
    BY <1>6, <2>4
<1>9. QED
  BY <1>6, <1>7, <1>8

-----------------------------------------------------------------------------
(* The last entry of a name.                                               *)

LEMMA LatestIsLatest ==
  ASSUME NEW L \in Seq(Entry), NEW l, NEW h, LatestIs(L, Len(L), l, h)
  PROVE  NameEntries(L, l) # {} /\ Latest(L, l) = h
<1>1. PICK k \in 1..Len(L) :
        /\ L[k].op = "name" /\ L[k].label = l /\ L[k].hash = h
        /\ \A j \in (k + 1)..Len(L) : ~(L[j].op = "name" /\ L[j].label = l)
  BY DEF LatestIs
<1>2. k \in NameEntries(L, l)
  BY <1>1 DEF NameEntries
<1>3. \A j \in NameEntries(L, l) : j <= k
  BY <1>1, LenProperties DEF NameEntries
<1>4. ASSUME NEW m \in NameEntries(L, l), \A j \in NameEntries(L, l) : j <= m
      PROVE  m = k
  <2>1. m <= k /\ k <= m /\ m \in Nat /\ k \in Nat
    BY <1>2, <1>3, <1>4 DEF NameEntries
  <2>2. QED
    BY <2>1
<1>5. (CHOOSE m \in NameEntries(L, l) : \A j \in NameEntries(L, l) : j <= m) = k
  BY <1>2, <1>3, <1>4
<1>6. QED
  BY <1>1, <1>2, <1>5 DEF Latest

LEMMA NamedHasLatest ==
  ASSUME NEW L \in Seq(Entry), NEW l, NameEntries(L, l) # {}
  PROVE  /\ \E k \in NameEntries(L, l) : L[k].hash = Latest(L, l)
         /\ Latest(L, l) \in Hashes
         /\ LatestIs(L, Len(L), l, Latest(L, l))
<1>1. Len(L) \in Nat /\ NameEntries(L, l) \in SUBSET (0..Len(L))
  BY LenProperties DEF NameEntries
<1>2. PICK k \in NameEntries(L, l) : \A j \in NameEntries(L, l) : j <= k
  BY <1>1, GreatestNatural
<1>3. k \in 1..Len(L) /\ L[k].op = "name" /\ L[k].label = l
  BY DEF NameEntries
<1>4. L[k].hash \in Hashes
  BY <1>3, ElementOfSeq DEF Entry, NameEntry, ObjectEntry
<1>5. \A j \in (k + 1)..Len(L) : ~(L[j].op = "name" /\ L[j].label = l)
  <2> SUFFICES ASSUME NEW j \in (k + 1)..Len(L), L[j].op = "name", L[j].label = l
               PROVE  FALSE
    OBVIOUS
  <2>1. j \in NameEntries(L, l) /\ j > k /\ j \in Nat /\ k \in Nat
    BY <1>1, <1>3 DEF NameEntries
  <2>2. QED
    BY <1>2, <2>1
<1>6. LatestIs(L, Len(L), l, L[k].hash)
  BY <1>3, <1>5 DEF LatestIs
<1>7. Latest(L, l) = L[k].hash
  BY <1>6, LatestIsLatest
<1>8. QED
  BY <1>4, <1>6, <1>7

\* Entries that come before do not matter.
LEMMA LatestIsOfSuffix ==
  ASSUME NEW D \in Seq(Entry), NEW P \in Seq(Entry), NEW l, NEW h, LatestIs(P, Len(P), l, h)
  PROVE  LatestIs(D \o P, Len(D \o P), l, h)
<1> DEFINE M == D \o P
<1>1. /\ Len(D) \in Nat /\ Len(P) \in Nat /\ Len(M) = Len(D) + Len(P)
      /\ \A k \in 1..Len(P) : M[Len(D) + k] = P[k]
  <2>1. /\ Len(D) \in Nat /\ Len(P) \in Nat /\ Len(M) = Len(D) + Len(P)
        /\ \A j \in 1..(Len(D) + Len(P)) : M[j] = IF j <= Len(D) THEN D[j] ELSE P[j - Len(D)]
    BY ConcatProperties, LenProperties
  <2> HIDE DEF M
  <2>2. ASSUME NEW k \in 1..Len(P)
        PROVE  M[Len(D) + k] = P[k]
    <3>1. Len(D) + k \in 1..(Len(D) + Len(P)) /\ ~(Len(D) + k <= Len(D)) /\ (Len(D) + k) - Len(D) = k
      BY <2>1
    <3>2. QED
      BY <2>1, <3>1
  <2>3. QED
    BY <2>1, <2>2
<1> HIDE DEF M
<1>2. PICK k \in 1..Len(P) :
        /\ P[k].op = "name" /\ P[k].label = l /\ P[k].hash = h
        /\ \A j \in (k + 1)..Len(P) : ~(P[j].op = "name" /\ P[j].label = l)
  BY DEF LatestIs
<1>3. Len(D) + k \in 1..Len(M)
  BY <1>1
<1>4. ASSUME NEW j \in ((Len(D) + k) + 1)..Len(M)
      PROVE  ~(M[j].op = "name" /\ M[j].label = l)
  <2>1. PICK i \in (k + 1)..Len(P) : j = Len(D) + i /\ i \in 1..Len(P)
    <3>1. j - Len(D) \in (k + 1)..Len(P) /\ j = Len(D) + (j - Len(D)) /\ j - Len(D) \in 1..Len(P)
      BY <1>1
    <3>2. QED
      BY <3>1
  <2>2. QED
    BY <1>1, <1>2, <2>1
<1>5. LatestIs(M, Len(M), l, h)
  BY <1>1, <1>2, <1>3, <1>4 DEF LatestIs
<1>6. QED
  BY <1>5 DEF M

\* What mergeLog appends: the entries of the archive under the label of the source.
LEMMA PrefixedKeepsNames ==
  ASSUME NEW L \in Seq(Entry), \A k \in 1..Len(L) : L[k].op = "name" => L[k].label \in Labels
  PROVE  LET P == [k \in 1..Len(L) |-> Prefixed(L[k])]
         IN /\ P \in Seq(Entry)
            /\ \A l, h : LatestIs(L, Len(L), l, h) => LatestIs(P, Len(P), <<"source", l>>, h)
<1> DEFINE P == [k \in 1..Len(L) |-> Prefixed(L[k])]
<1>1. Len(L) \in Nat /\ \A k \in 1..Len(L) : L[k] \in Entry
  BY LenProperties, ElementOfSeq
<1>2. ASSUME NEW k \in 1..Len(L), L[k].op = "name"
      PROVE  /\ P[k] \in Entry /\ P[k].op = "name"
             /\ P[k].label = <<"source", L[k].label>> /\ P[k].hash = L[k].hash
  <2>1. L[k] \in [op : {"name"}, label : Labels, hash : Hashes]
    BY <1>1, <1>2 DEF Entry, NameEntry, ObjectEntry
  <2>2. P[k] = [L[k] EXCEPT !.label = <<"source", L[k].label>>]
    BY <1>2 DEF Prefixed
  <2>3. QED
    BY <2>1, <2>2 DEF Entry, NameEntry
<1>3. ASSUME NEW k \in 1..Len(L), L[k].op # "name"
      PROVE  P[k] \in Entry /\ P[k].op # "name"
  BY <1>1, <1>3 DEF Prefixed
<1>4. \A k \in 1..Len(L) : P[k] \in Entry
  BY <1>2, <1>3
<1>5. P \in Seq(Entry) /\ Len(P) = Len(L)
  BY <1>1, <1>4
<1>6. ASSUME NEW l, NEW h, LatestIs(L, Len(L), l, h)
      PROVE  LatestIs(P, Len(P), <<"source", l>>, h)
  <2>1. PICK k \in 1..Len(L) :
          /\ L[k].op = "name" /\ L[k].label = l /\ L[k].hash = h
          /\ \A j \in (k + 1)..Len(L) : ~(L[j].op = "name" /\ L[j].label = l)
    BY <1>6 DEF LatestIs
  <2>2. ASSUME NEW j \in (k + 1)..Len(L), P[j].op = "name", P[j].label = <<"source", l>>
        PROVE  FALSE
    <3>1. j \in 1..Len(L)
      BY <1>1
    <3>2. L[j].op = "name"
      BY <1>3, <2>2, <3>1
    <3>3. <<"source", L[j].label>> = <<"source", l>>
      BY <1>2, <2>2, <3>1, <3>2
    <3>4. L[j].label = l
      BY <3>3
    <3>5. QED
      BY <2>1, <3>2, <3>4
  <2>3. P[k].op = "name" /\ P[k].label = <<"source", l>> /\ P[k].hash = h
    BY <1>2, <2>1
  <2> HIDE DEF P
  <2>4. QED
    BY <1>5, <2>2, <2>3 DEF LatestIs
<1>7. QED
  BY <1>5, <1>6

-----------------------------------------------------------------------------
(* Reachability.                                                           *)

LEMMA ReachableFacts ==
  ASSUME NEW root \in Hashes
  PROVE  /\ Reachable(root) \subseteq Hashes
         /\ root \in Reachable(root)
         /\ \A h \in Reachable(root) : \A k \in 1..Len(Content[h]) : Content[h][k] \in Reachable(root)
         /\ \A S \in SUBSET Hashes : root \in S /\ Closed(S) => Reachable(root) \subseteq S
<1>1. ASSUME NEW h \in Reachable(root), NEW k \in 1..Len(Content[h])
      PROVE  Content[h][k] \in Reachable(root)
  <2>1. h \in Hashes /\ Content[h] \in Seq(Hashes)
    BY <1>1, ContentAssumption DEF Reachable
  <2>2. Content[h][k] \in Hashes
    BY <2>1, ElementOfSeq
  <2>3. ASSUME NEW S \in SUBSET Hashes, root \in S, Closed(S)
        PROVE  Content[h][k] \in S
    <3>1. h \in S
      BY <1>1, <2>3 DEF Reachable
    <3>2. QED
      BY <2>3, <3>1 DEF Closed
  <2>4. QED
    BY <2>2, <2>3 DEF Reachable
<1>2. QED
  BY <1>1 DEF Reachable

\* What is seen when the next hash is taken from the stack.
LEMMA StackElements ==
  ASSUME NEW s \in Seq(Hashes)
  PROVE  /\ ToSet(s) \subseteq Hashes
         /\ \A t \in Seq(Hashes) : s \o t \in Seq(Hashes) /\ ToSet(s \o t) = ToSet(s) \cup ToSet(t)
         /\ s # <<>> => /\ Head(s) \in Hashes /\ Tail(s) \in Seq(Hashes)
                        /\ ToSet(s) = {Head(s)} \cup ToSet(Tail(s))
<1>0. Len(s) \in Nat /\ DOMAIN s = 1..Len(s)
  BY LenProperties
<1>1. ToSet(s) \subseteq Hashes
  BY <1>0, ElementOfSeq DEF ToSet
<1>2. ASSUME NEW t \in Seq(Hashes)
      PROVE  s \o t \in Seq(Hashes) /\ ToSet(s \o t) = ToSet(s) \cup ToSet(t)
  <2> DEFINE u == s \o t
  <2>1. /\ Len(t) \in Nat /\ DOMAIN t = 1..Len(t)
        /\ u \in Seq(Hashes) /\ Len(u) = Len(s) + Len(t)
        /\ \A j \in 1..(Len(s) + Len(t)) : u[j] = IF j <= Len(s) THEN s[j] ELSE t[j - Len(s)]
    BY ConcatProperties, LenProperties
  <2> HIDE DEF u
  <2>2. DOMAIN u = 1..(Len(s) + Len(t))
    BY <2>1, LenProperties
  <2>3. ASSUME NEW j \in 1..(Len(s) + Len(t))
        PROVE  u[j] \in ToSet(s) \cup ToSet(t)
    <3>1. CASE j <= Len(s)
      <4>1. u[j] = s[j] /\ j \in DOMAIN s
        BY <1>0, <2>1, <3>1
      <4>2. QED
        BY <4>1 DEF ToSet
    <3>2. CASE ~(j <= Len(s))
      <4>1. j - Len(s) \in 1..Len(t)
        BY <1>0, <2>1, <3>2
      <4>2. QED
        BY <2>1, <3>2, <4>1 DEF ToSet
    <3>3. QED
      BY <3>1, <3>2
  <2>4. ASSUME NEW j \in 1..Len(s)
        PROVE  s[j] \in ToSet(u)
    <3>1. j \in 1..(Len(s) + Len(t)) /\ j <= Len(s)
      BY <1>0, <2>1
    <3>2. QED
      BY <2>1, <2>2, <3>1 DEF ToSet
  <2>5. ASSUME NEW j \in 1..Len(t)
        PROVE  t[j] \in ToSet(u)
    <3>1. /\ Len(s) + j \in 1..(Len(s) + Len(t)) /\ ~(Len(s) + j <= Len(s))
          /\ (Len(s) + j) - Len(s) = j
      BY <1>0, <2>1
    <3>2. u[Len(s) + j] = t[j]
      BY <2>1, <3>1
    <3>3. QED
      BY <2>2, <3>1, <3>2 DEF ToSet
  <2>6. ToSet(u) \subseteq ToSet(s) \cup ToSet(t)
    BY <2>2, <2>3 DEF ToSet
  <2>7. ToSet(s) \subseteq ToSet(u) /\ ToSet(t) \subseteq ToSet(u)
    BY <1>0, <2>1, <2>4, <2>5 DEF ToSet
  <2>8. QED
    BY <2>1, <2>6, <2>7 DEF u
<1>3. ASSUME s # <<>>
      PROVE  /\ Head(s) \in Hashes /\ Tail(s) \in Seq(Hashes)
             /\ ToSet(s) = {Head(s)} \cup ToSet(Tail(s))
  <2> DEFINE t == Tail(s)
  <2>1. /\ Head(s) = s[1] /\ t \in Seq(Hashes) /\ Len(t) = Len(s) - 1 /\ Len(s) # 0
        /\ \A j \in 1..Len(t) : t[j] = s[j + 1]
    BY <1>3, HeadTailProperties, EmptySeq
  <2> HIDE DEF t
  <2>2. DOMAIN t = 1..(Len(s) - 1)
    BY <2>1, LenProperties
  <2>3. \A j \in DOMAIN t : j + 1 \in DOMAIN s /\ t[j] = s[j + 1]
    BY <1>0, <2>1, <2>2
  <2>4. \A j \in DOMAIN s : j = 1 \/ (j - 1 \in DOMAIN t /\ t[j - 1] = s[j])
    BY <1>0, <2>1, <2>2
  <2>5. 1 \in DOMAIN s
    BY <1>0, <2>1
  <2>6. ToSet(s) = {s[1]} \cup ToSet(t)
    BY <2>3, <2>4, <2>5 DEF ToSet
  <2>7. QED
    BY <1>1, <2>1, <2>5, <2>6 DEF t, ToSet
<1>4. QED
  BY <1>1, <1>2, <1>3

-----------------------------------------------------------------------------
(* The steps of the source.                                                *)

\* A file is truncated or written while the source's server stashes.
LEMMA StashKeeps ==
  ASSUME ShareInv, step \notin {"done", "failed"}, NEW h \in Hashes, Truncate(h) \/ Stashed(h)
  PROVE  ShareInv'
<1>0. /\ log' = log /\ step' = step /\ shared' = shared /\ stack' = stack /\ visited' = visited
      /\ walked' = walked /\ archive' = archive
      /\ import' = import /\ imports' = imports /\ destFiles' = destFiles /\ destLog' = destLog
      /\ step # "done"
  BY DEF Truncate, Stashed, exportVars, destVars
<1>1. /\ files \in [Hashes -> States] /\ files' \in [Hashes -> States]
      /\ \A q \in Hashes : q # h => files'[q] = files[q]
      /\ files'[h] # "absent"
      /\ Stashed(h) => files'[h] = "whole" /\ disturbed' = disturbed
  BY DEF Truncate, Stashed, ShareInv, TypeOK, States
<1>2. \A q \in Hashes : files[q] # "absent" => files'[q] # "absent"
  BY <1>1
<1>3. Truncate(h) => disturbed' = IF Exporting THEN disturbed \cup {"stash"} ELSE disturbed
  BY DEF Truncate, Notes
<1>4. disturbed \subseteq disturbed' /\ disturbed' \subseteq {"stash", "object", "name"}
  BY <1>1, <1>3 DEF ShareInv, TypeOK
<1>5. TypeOK'
  BY <1>0, <1>1, <1>4 DEF ShareInv, TypeOK
<1>6. SourceIsOrderly'
  <2>1. \A k \in 1..Len(log) : log[k] \in Entry
    BY ElementOfSeq DEF ShareInv, TypeOK
  <2>2. \A k \in 1..Len(log) : log[k].op = "object" => log[k].hash \in Hashes
    BY <2>1 DEF Entry, ObjectEntry, NameEntry
  <2>3. Exporting' /\ "stash" \notin disturbed' => Stashed(h) /\ Exporting /\ "stash" \notin disturbed
    BY <1>0, <1>1, <1>3 DEF Exporting
  <2>4. Exporting' /\ "stash" \notin disturbed' => \A q \in Hashes : files'[q] # "partial"
    BY <1>1, <2>3 DEF ShareInv, SourceIsOrderly
  <2>5. QED
    BY <1>0, <1>2, <2>2, <2>4 DEF ShareInv, SourceIsOrderly
<1>7. ExportIsOrderly' /\ ImportIsOrderly' /\ ArchivedLog'
  BY <1>0 DEF ShareInv, ExportIsOrderly, ImportIsOrderly, ArchivedLog, LatestIs
<1>8. VisitedIsWalked'
  <2>1. visited \subseteq Hashes
    BY DEF ShareInv, TypeOK
  <2>2. \A q \in visited : files'[q] # "absent"
    BY <1>2, <2>1 DEF ShareInv, VisitedIsWalked
  <2>3. QED
    BY <1>0, <1>4, <2>2 DEF ShareInv, VisitedIsWalked
<1>9. TraversalIsSound'
  <2>1. Seen' = Seen
    BY <1>0 DEF Seen
  <2>2. \A root : SeenFrom(root)' <=> SeenFrom(root)
    BY <1>0, <2>1 DEF SeenFrom
  <2>3. QED
    BY <1>0, <1>4, <2>2 DEF ShareInv, TraversalIsSound, Sharing, LatestIs
<1>10. QED
  BY <1>5, <1>6, <1>7, <1>8, <1>9 DEF ShareInv

\* The source logs an object it has stored, or a name.
LEMMA LogKeeps ==
  ASSUME ShareInv, step \notin {"done", "failed"}, NEW e \in Entry, NEW what \in {"object", "name"},
         log' = Append(log, e), Notes(what), UNCHANGED <<files, exportVars, destVars>>,
         e.op = "name" => e.label \in Labels,
         e.op = "object" => files[e.hash] # "absent"
  PROVE  ShareInv'
<1>0. /\ files' = files /\ step' = step /\ shared' = shared /\ stack' = stack /\ visited' = visited
      /\ walked' = walked /\ archive' = archive
      /\ import' = import /\ imports' = imports /\ destFiles' = destFiles /\ destLog' = destLog
      /\ step # "done"
  BY DEF exportVars, destVars
<1>1. /\ log \in Seq(Entry) /\ log' \in Seq(Entry)
      /\ Len(log) \in Nat /\ Len(log') = Len(log) + 1 /\ log'[Len(log) + 1] = e
      /\ \A k \in 1..Len(log) : log'[k] = log[k]
  <2>1. log \in Seq(Entry)
    BY DEF ShareInv, TypeOK
  <2>2. QED
    BY <2>1, AppendProperties, LenProperties
<1>2. disturbed' = IF Exporting THEN disturbed \cup {what} ELSE disturbed
  BY DEF Notes
<1>3. disturbed \subseteq disturbed' /\ disturbed' \subseteq {"stash", "object", "name"}
  BY <1>2 DEF ShareInv, TypeOK
<1>4. step \in {"traverse", "walk", "copy"} => disturbed' # {}
  BY <1>2 DEF Exporting
<1>5. TypeOK'
  BY <1>0, <1>1, <1>3 DEF ShareInv, TypeOK
<1>6. SourceIsOrderly'
  <2>1. \A k \in 1..Len(log') : k \in 1..Len(log) \/ log'[k] = e
    BY <1>1
  <2>2. Exporting' /\ "stash" \notin disturbed' => Exporting /\ "stash" \notin disturbed
    BY <1>0, <1>3 DEF Exporting
  <2>3. QED
    BY <1>0, <1>1, <2>1, <2>2 DEF ShareInv, SourceIsOrderly
<1>7. ExportIsOrderly' /\ ImportIsOrderly' /\ ArchivedLog'
  BY <1>0 DEF ShareInv, ExportIsOrderly, ImportIsOrderly, ArchivedLog, LatestIs
<1>8. VisitedIsWalked'
  BY <1>0, <1>3, <1>4 DEF ShareInv, VisitedIsWalked
<1>9. TraversalIsSound'
  <2>1. Seen' = Seen
    BY <1>0 DEF Seen
  <2>2. \A root : SeenFrom(root)' <=> SeenFrom(root)
    BY <1>0, <2>1 DEF SeenFrom
  <2>3. SUFFICES ASSUME Sharing', "stash" \notin disturbed'
                 PROVE  \E root \in Hashes :
                          /\ \E k \in 1..Len(log') : /\ log'[k].op = "name" /\ log'[k].label = shared'
                                                     /\ log'[k].hash = root
                          /\ SeenFrom(root)'
                          /\ disturbed' = {} => LatestIs(log, Len(log), shared, root)'
    BY DEF TraversalIsSound
  <2>4. Sharing /\ "stash" \notin disturbed
    BY <1>0, <1>3, <2>3 DEF Sharing
  <2>5. PICK root \in Hashes :
          /\ \E k \in 1..Len(log) : log[k].op = "name" /\ log[k].label = shared /\ log[k].hash = root
          /\ SeenFrom(root)
    BY <2>4 DEF ShareInv, TraversalIsSound
  <2>6. \E k \in 1..Len(log') : log'[k].op = "name" /\ log'[k].label = shared' /\ log'[k].hash = root
    BY <1>0, <1>1, <2>5
  <2>7. disturbed' # {}
    BY <1>0, <1>4, <2>4 DEF Sharing
  <2>8. QED
    BY <2>2, <2>5, <2>6, <2>7
<1>10. QED
  BY <1>5, <1>6, <1>7, <1>8, <1>9 DEF ShareInv

LEMMA SourceKeeps ==
  ASSUME ShareInv, Source
  PROVE  ShareInv'
<1>1. PICK h \in Hashes : Truncate(h) \/ Stashed(h) \/ AppendObject(h) \/ \E l \in Labels : AppendName(l, h)
  BY DEF Source
<1>2. CASE AppendObject(h)
  <2>1. PICK e : e = [op |-> "object", hash |-> h]
    OBVIOUS
  <2>2. e \in Entry /\ e.op = "object" /\ e.hash = h
    BY <2>1 DEF Entry, ObjectEntry
  <2>3. /\ log' = Append(log, e) /\ Notes("object") /\ files[h] # "absent"
        /\ UNCHANGED <<files, exportVars, destVars>>
    BY <1>2, <2>1 DEF AppendObject
  <2>4. QED
    BY <2>2, <2>3, LogKeeps DEF Source
<1>3. ASSUME NEW l \in Labels, AppendName(l, h)
      PROVE  ShareInv'
  <2>1. PICK e : e = [op |-> "name", label |-> l, hash |-> h]
    OBVIOUS
  <2>2. e \in Entry /\ e.op = "name" /\ e.label = l
    BY <2>1 DEF Entry, NameEntry
  <2>3. log' = Append(log, e) /\ Notes("name") /\ UNCHANGED <<files, exportVars, destVars>>
    BY <1>3, <2>1 DEF AppendName
  <2>4. QED
    BY <2>2, <2>3, LogKeeps DEF Source
<1>4. QED
  BY <1>1, <1>2, <1>3, StashKeeps DEF Source

-----------------------------------------------------------------------------
(* The steps of the export.                                                *)

\* An export starts, with all objects or with a name.
LEMMA StartKeeps ==
  ASSUME ShareInv, StartFull \/ \E l \in Labels : Resolve(l)
  PROVE  ShareInv'
<1>0. /\ files' = files /\ log' = log /\ visited' = visited /\ walked' = walked /\ archive' = archive
      /\ import' = import /\ imports' = imports /\ destFiles' = destFiles /\ destLog' = destLog
      /\ step = "idle" /\ NotesStart
  BY DEF StartFull, Resolve, sourceVars, destVars
<1>1. /\ visited = {} /\ stack = <<>> /\ shared = NoLabel /\ walked = NoFiles
      /\ archive = [objects |-> NoFiles, log |-> <<>>]
      /\ import = "idle" /\ destFiles = NoFiles
      /\ log \in Seq(Entry)
  BY <1>0 DEF ShareInv, ExportIsOrderly, ImportIsOrderly, TypeOK
<1>2. /\ disturbed' \in {{}, {"stash"}}
      /\ "stash" \notin disturbed' => \A h \in Hashes : files[h] # "partial"
  BY <1>0 DEF NotesStart
<1>3. \/ step' = "walk" /\ shared' = NoLabel /\ stack' = <<>>
      \/ step' = "failed" /\ shared' \in Labels /\ stack' = <<>>
      \/ /\ step' = "traverse" /\ shared' \in Labels /\ NameEntries(log, shared') # {}
         /\ stack' = <<Latest(log, shared')>>
  BY <1>1 DEF StartFull, Resolve
<1>4. step' = "traverse" => Latest(log, shared') \in Hashes
  BY <1>1, <1>3, NamedHasLatest
<1>5. TypeOK'
  <2>0. \A h \in Hashes : <<h>> \in Seq(Hashes)
    OBVIOUS
  <2>1. stack' \in Seq(Hashes) /\ shared' \in Labels \cup {NoLabel}
    <3>1. stack' = <<>> \/ stack' \in Seq(Hashes)
      BY <1>3, <1>4, <2>0
    <3>2. <<>> \in Seq(Hashes)
      OBVIOUS
    <3>3. QED
      BY <1>3, <3>1, <3>2
  <2>2. disturbed' \subseteq {"stash", "object", "name"}
    BY <1>2
  <2>3. step' \in {"idle", "traverse", "walk", "copy", "done", "failed"}
    BY <1>3
  <2>4. QED
    BY <1>0, <2>1, <2>2, <2>3 DEF ShareInv, TypeOK
<1>6. SourceIsOrderly'
  BY <1>0, <1>2 DEF ShareInv, SourceIsOrderly
<1>7. ExportIsOrderly'
  BY <1>0, <1>1, <1>3 DEF ShareInv, ExportIsOrderly
<1>8. VisitedIsWalked' /\ ArchivedLog'
  BY <1>0, <1>1, <1>3 DEF VisitedIsWalked, ArchivedLog
<1>9. ImportIsOrderly'
  BY <1>0, <1>1, <1>3 DEF ShareInv, ImportIsOrderly, LatestIs
<1>10. TraversalIsSound'
  <2>1. SUFFICES ASSUME Sharing', "stash" \notin disturbed'
                 PROVE  \E root \in Hashes :
                          /\ \E k \in 1..Len(log') : /\ log'[k].op = "name" /\ log'[k].label = shared'
                                                     /\ log'[k].hash = root
                          /\ SeenFrom(root)'
                          /\ disturbed' = {} => LatestIs(log, Len(log), shared, root)'
    BY DEF TraversalIsSound
  <2>2. step' = "traverse" /\ NameEntries(log, shared') # {} /\ stack' = <<Latest(log, shared')>>
    BY <1>3, <2>1 DEF Sharing
  <2>3. PICK root \in Hashes : root = Latest(log, shared')
    BY <1>4, <2>2
  <2>4. \E k \in NameEntries(log, shared') : log[k].hash = root
    BY <1>1, <2>2, <2>3, NamedHasLatest
  <2>5. LatestIs(log, Len(log), shared', root)
    BY <1>1, <2>2, <2>3, NamedHasLatest
  <2>6. Seen' = {root}
    <3>1. ToSet(<<root>>) = {root}
      BY DEF ToSet
    <3>2. QED
      BY <1>0, <1>1, <2>2, <2>3, <3>1 DEF Seen
  <2>7. SeenFrom(root)'
    BY <1>0, <1>1, <2>6, ReachableFacts DEF SeenFrom
  <2>8. QED
    BY <1>0, <2>4, <2>5, <2>7 DEF NameEntries, LatestIs
<1>11. QED
  BY <1>5, <1>6, <1>7, <1>8, <1>9, <1>10 DEF ShareInv

\* traverse goes on.
LEMMA TraverseKeeps ==
  ASSUME ShareInv, Traverse
  PROVE  ShareInv'
<1>0. /\ files' = files /\ log' = log /\ shared' = shared /\ walked' = walked /\ archive' = archive
      /\ import' = import /\ imports' = imports /\ destFiles' = destFiles /\ destLog' = destLog
      /\ disturbed' = disturbed
      /\ step = "traverse" /\ stack # <<>>
  BY DEF Traverse, sourceVars, destVars
<1>1. /\ stack \in Seq(Hashes) /\ visited \subseteq Hashes /\ files \in [Hashes -> States]
  BY DEF ShareInv, TypeOK
<1>2. PICK h \in Hashes :
        /\ h = Head(stack) /\ Tail(stack) \in Seq(Hashes)
        /\ ToSet(stack) = {h} \cup ToSet(Tail(stack))
  BY <1>0, <1>1, StackElements
<1>3. \/ h \in visited /\ stack' = Tail(stack) /\ step' = step /\ visited' = visited
      \/ step' = "failed" /\ stack' = stack /\ visited' = visited
      \/ /\ h \notin visited /\ files[h] # "absent" /\ step' = step
         /\ visited' = visited \cup {h} /\ stack' = Refs(h) \o Tail(stack)
  BY <1>2 DEF Traverse
<1>4. /\ Refs(h) \in Seq(Hashes)
      /\ Refs(h) \o Tail(stack) \in Seq(Hashes)
      /\ ToSet(Refs(h) \o Tail(stack)) = ToSet(Refs(h)) \cup ToSet(Tail(stack))
  <2>1. Refs(h) \in Seq(Hashes)
    BY ContentAssumption DEF Refs
  <2>2. QED
    BY <1>2, <2>1, StackElements
<1>5. TypeOK'
  <2>1. stack' \in Seq(Hashes) /\ visited' \subseteq Hashes
    BY <1>1, <1>2, <1>3, <1>4
  <2>2. step' \in {"idle", "traverse", "walk", "copy", "done", "failed"}
    BY <1>0, <1>3
  <2>3. QED
    BY <1>0, <2>1, <2>2 DEF ShareInv, TypeOK
<1>6. SourceIsOrderly'
  <2>1. Exporting
    BY <1>0 DEF Exporting
  <2>2. QED
    BY <1>0, <2>1 DEF ShareInv, SourceIsOrderly
<1>7. ExportIsOrderly' /\ ArchivedLog' /\ ImportIsOrderly'
  BY <1>0, <1>3 DEF ShareInv, ExportIsOrderly, ArchivedLog, ImportIsOrderly, LatestIs
<1>8. VisitedIsWalked'
  BY <1>0, <1>3 DEF ShareInv, VisitedIsWalked
<1>9. TraversalIsSound'
  <2>1. SUFFICES ASSUME Sharing', "stash" \notin disturbed'
                 PROVE  \E root \in Hashes :
                          /\ \E k \in 1..Len(log') : /\ log'[k].op = "name" /\ log'[k].label = shared'
                                                     /\ log'[k].hash = root
                          /\ SeenFrom(root)'
                          /\ disturbed' = {} => LatestIs(log, Len(log), shared, root)'
    BY DEF TraversalIsSound
  <2>2. Sharing /\ "stash" \notin disturbed /\ step' # "failed"
    BY <1>0, <2>1 DEF Sharing
  <2>3. PICK root \in Hashes :
          /\ \E k \in 1..Len(log) : log[k].op = "name" /\ log[k].label = shared /\ log[k].hash = root
          /\ SeenFrom(root)
          /\ disturbed = {} => LatestIs(log, Len(log), shared, root)
    BY <2>2 DEF ShareInv, TraversalIsSound
  <2>4. h \in Seen
    BY <1>2 DEF Seen
  <2>5. CASE h \in visited
    <3>1. Seen' = Seen /\ visited' = visited
      BY <1>2, <1>3, <2>2, <2>5 DEF Seen
    <3>2. SeenFrom(root)'
      BY <2>3, <3>1 DEF SeenFrom
    <3>3. QED
      BY <1>0, <2>3, <3>2 DEF LatestIs
  <2>6. CASE h \notin visited
    <3>1. /\ files[h] # "absent" /\ visited' = visited \cup {h}
          /\ stack' = Refs(h) \o Tail(stack)
      BY <1>3, <2>2, <2>6
    <3>2. files[h] = "whole"
      <4>1. Exporting
        BY <1>0 DEF Exporting
      <4>2. files[h] # "partial"
        BY <2>2, <4>1 DEF ShareInv, SourceIsOrderly
      <4>3. QED
        BY <1>1, <3>1, <4>2 DEF States
    <3>3. Refs(h) = Content[h]
      BY <3>2 DEF Refs
    <3>4. Seen' = Seen \cup ToSet(Content[h])
      BY <1>2, <1>4, <3>1, <3>3 DEF Seen
    <3>5. ToSet(Content[h]) = {Content[h][k] : k \in 1..Len(Content[h])}
      <4>1. DOMAIN Content[h] = 1..Len(Content[h])
        BY ContentAssumption, LenProperties
      <4>2. QED
        BY <4>1 DEF ToSet
    <3>6. h \in Reachable(root)
      BY <2>3, <2>4 DEF SeenFrom
    <3>7. ToSet(Content[h]) \subseteq Reachable(root)
      BY <3>5, <3>6, ReachableFacts
    <3>8. SeenFrom(root)'
      BY <2>3, <3>1, <3>4, <3>5, <3>7 DEF SeenFrom
    <3>9. QED
      BY <1>0, <2>3, <3>8 DEF LatestIs
  <2>7. QED
    BY <2>5, <2>6
<1>10. QED
  BY <1>5, <1>6, <1>7, <1>8, <1>9 DEF ShareInv

\* The steps after it leave what has been seen as it is.
LEMMA SoundStays ==
  ASSUME ShareInv, Sharing' => Sharing,
         UNCHANGED <<log, shared, stack, visited, disturbed>>
  PROVE  TraversalIsSound'
<1>1. Seen' = Seen
  BY DEF Seen
<1>2. \A root : SeenFrom(root)' <=> SeenFrom(root)
  BY <1>1 DEF SeenFrom
<1>3. QED
  BY <1>2 DEF ShareInv, TraversalIsSound, LatestIs

\* traverse returns, and Walk records what is to be copied.
LEMMA WalkKeeps ==
  ASSUME ShareInv, Traversed \/ Walk
  PROVE  ShareInv'
<1>0. /\ files' = files /\ log' = log /\ shared' = shared /\ stack' = stack /\ visited' = visited
      /\ archive' = archive /\ disturbed' = disturbed
      /\ import' = import /\ imports' = imports /\ destFiles' = destFiles /\ destLog' = destLog
  BY DEF Traversed, Walk, sourceVars, destVars
<1>1. \/ step = "traverse" /\ stack = <<>> /\ step' = "walk" /\ walked' = walked
      \/ /\ step = "walk" /\ step' = "copy"
         /\ walked' = [h \in Hashes |-> IF h \in Wanted THEN files[h] ELSE "absent"]
  BY DEF Traversed, Walk
<1>2. /\ files \in [Hashes -> States] /\ visited \subseteq Hashes /\ walked = NoFiles
      /\ archive = [objects |-> NoFiles, log |-> <<>>]
      /\ \A k \in 1..Len(log) : log[k] \in Entry
  BY <1>1, ElementOfSeq DEF ShareInv, TypeOK, ExportIsOrderly
<1>3. TypeOK'
  <2>1. walked' \in [Hashes -> States]
    BY <1>1, <1>2 DEF ShareInv, TypeOK, States
  <2>2. step' \in {"idle", "traverse", "walk", "copy", "done", "failed"}
    BY <1>1
  <2>3. QED
    BY <1>0, <2>1, <2>2 DEF ShareInv, TypeOK
<1>4. Exporting /\ Exporting'
  BY <1>1 DEF Exporting
<1>5. SourceIsOrderly'
  BY <1>0, <1>4 DEF ShareInv, SourceIsOrderly
<1>6. ExportIsOrderly'
  <2>1. \A h \in Hashes : archive.objects[h] = "absent"
    BY <1>2 DEF NoFiles
  <2>2. QED
    BY <1>0, <1>1, <1>2, <2>1 DEF ShareInv, ExportIsOrderly
<1>7. VisitedIsWalked'
  <2>1. CASE step' = "walk"
    BY <1>0, <2>1 DEF ShareInv, VisitedIsWalked
  <2>2. CASE step' = "copy"
    <3>1. \A h \in visited : files[h] # "absent" /\ h \in Hashes
      BY <1>2 DEF ShareInv, VisitedIsWalked
    <3>2. ASSUME shared # NoLabel, NEW h \in visited
          PROVE  walked'[h] # "absent" /\ ("stash" \notin disturbed => walked'[h] = "whole")
      <4>1. walked'[h] = files[h] /\ files[h] \in States
        BY <1>1, <1>2, <2>2, <3>1, <3>2 DEF Wanted
      <4>2. "stash" \notin disturbed => files[h] # "partial"
        BY <1>4, <3>1 DEF ShareInv, SourceIsOrderly
      <4>3. QED
        BY <3>1, <4>1, <4>2 DEF States
    <3>3. ASSUME shared = NoLabel, NEW k \in 1..Len(log), log[k].op = "object"
          PROVE  walked'[log[k].hash] # "absent"
      <4>1. log[k].hash \in Hashes /\ files[log[k].hash] # "absent"
        BY <1>2, <3>3 DEF Entry, ObjectEntry, NameEntry, ShareInv, SourceIsOrderly
      <4>2. QED
        BY <1>1, <2>2, <3>3, <4>1 DEF Wanted
    <3>4. QED
      BY <1>0, <3>1, <3>2, <3>3 DEF VisitedIsWalked
  <2>3. QED
    BY <1>1, <2>1, <2>2
<1>8. ArchivedLog' /\ ImportIsOrderly'
  BY <1>0, <1>1 DEF ShareInv, ArchivedLog, ImportIsOrderly, LatestIs
<1>9. TraversalIsSound'
  BY <1>0, <1>1, SoundStays DEF Sharing
<1>10. QED
  BY <1>3, <1>5, <1>6, <1>7, <1>8, <1>9 DEF ShareInv

\* An object is copied, or has changed since Walk.
LEMMA CopyKeeps ==
  ASSUME ShareInv, NEW h \in Hashes, Copy(h)
  PROVE  ShareInv'
<1>0. /\ files' = files /\ log' = log /\ shared' = shared /\ stack' = stack /\ visited' = visited
      /\ walked' = walked /\ disturbed' = disturbed
      /\ import' = import /\ imports' = imports /\ destFiles' = destFiles /\ destLog' = destLog
      /\ step = "copy"
  BY DEF Copy, sourceVars, destVars
<1>1. \/ step' = "copy" /\ archive' = [archive EXCEPT !.objects[h] = walked[h]]
      \/ step' = "failed" /\ archive' = archive
  BY <1>0 DEF Copy
<1>2. /\ archive \in [objects : [Hashes -> States], log : Seq(Entry)]
      /\ walked \in [Hashes -> States]
  BY DEF ShareInv, TypeOK
<1>3. /\ archive' \in [objects : [Hashes -> States], log : Seq(Entry)]
      /\ archive'.log = archive.log
      /\ \A q \in Hashes : archive'.objects[q] \in {archive.objects[q], walked[q]}
  BY <1>1, <1>2
<1>4. TypeOK'
  <2>1. step' \in {"idle", "traverse", "walk", "copy", "done", "failed"}
    BY <1>1
  <2>2. QED
    BY <1>0, <1>3, <2>1 DEF ShareInv, TypeOK
<1>5. SourceIsOrderly'
  <2>1. Exporting
    BY <1>0 DEF Exporting
  <2>2. QED
    BY <1>0, <2>1 DEF ShareInv, SourceIsOrderly
<1>6. ExportIsOrderly'
  <2>1. step' \in {"copy", "failed"}
    BY <1>1
  <2>2. \A q \in Hashes : archive'.objects[q] \in {"absent", walked[q]}
    BY <1>3 DEF ShareInv, ExportIsOrderly
  <2>3. QED
    BY <1>0, <1>3, <2>1, <2>2 DEF ShareInv, ExportIsOrderly
<1>7. VisitedIsWalked'
  BY <1>0, <1>1 DEF ShareInv, VisitedIsWalked
<1>8. ArchivedLog' /\ ImportIsOrderly'
  <2>1. step' # "done" /\ import = "idle" /\ destFiles = NoFiles
    BY <1>0, <1>1 DEF ShareInv, ImportIsOrderly
  <2>2. \A q \in Hashes : destFiles[q] = "absent"
    BY <2>1 DEF NoFiles
  <2>3. QED
    BY <1>0, <2>1, <2>2 DEF ArchivedLog, ImportIsOrderly
<1>9. TraversalIsSound'
  BY <1>0, <1>1, SoundStays DEF Sharing
<1>10. QED
  BY <1>4, <1>5, <1>6, <1>7, <1>8, <1>9 DEF ShareInv

\* The log is archived, whole or filtered.
LEMMA ReadLogKeeps ==
  ASSUME ShareInv, ReadLog
  PROVE  ShareInv'
<1>0. /\ files' = files /\ log' = log /\ shared' = shared /\ stack' = stack /\ visited' = visited
      /\ walked' = walked /\ disturbed' = disturbed
      /\ import' = import /\ imports' = imports /\ destFiles' = destFiles /\ destLog' = destLog
      /\ step = "copy" /\ step' = "done"
      /\ \A h \in Hashes : walked[h] # "absent" => archive.objects[h] # "absent"
  BY DEF ReadLog, sourceVars, destVars
<1>1. /\ archive \in [objects : [Hashes -> States], log : Seq(Entry)] /\ log \in Seq(Entry)
  BY DEF ShareInv, TypeOK
<1>2. Kept(log, FilterLog(log), Len(log))
  BY <1>1, FilterLogKeeps
<1>3. PICK L \in Seq(Entry) : L = IF shared = NoLabel THEN log ELSE FilterLog(log)
  BY <1>1, <1>2 DEF Kept
<1>4. /\ archive' \in [objects : [Hashes -> States], log : Seq(Entry)]
      /\ archive'.log = L /\ archive'.objects = archive.objects
  BY <1>1, <1>3 DEF ReadLog
<1>5. \A k \in 1..Len(L) : \E j \in 1..Len(log) : L[k] = log[j]
  BY <1>2, <1>3 DEF Kept
<1>6. TypeOK'
  BY <1>0, <1>4 DEF ShareInv, TypeOK
<1>7. SourceIsOrderly'
  <2>1. ~Exporting'
    BY <1>0 DEF Exporting
  <2>2. QED
    BY <1>0, <2>1 DEF ShareInv, SourceIsOrderly
<1>8. ExportIsOrderly'
  <2>1. \A k \in 1..Len(L) : L[k].op = "name" => L[k].label \in Labels
    BY <1>5 DEF ShareInv, SourceIsOrderly
  <2>2. QED
    BY <1>0, <1>4, <2>1 DEF ShareInv, ExportIsOrderly
<1>9. VisitedIsWalked'
  BY <1>0 DEF ShareInv, VisitedIsWalked
<1>10. ArchivedLog'
  <2>1. CASE shared = NoLabel
    BY <1>0, <1>3, <1>4, <2>1 DEF ArchivedLog
  <2>2. CASE shared # NoLabel
    <3>1. \A k \in 1..Len(L) : Relevant(L[k])
      BY <1>2, <1>3, <2>2 DEF Kept
    <3>2. \A h : LatestIs(log, Len(log), shared, h) => LatestIs(L, Len(L), shared, h)
      BY <1>2, <1>3, <2>2 DEF Kept
    <3>3. \A k \in 1..Len(archive'.log) : Relevant(archive.log[k])'
      BY <1>0, <1>4, <3>1 DEF Relevant
    <3>4. \A h \in Hashes : LatestIs(log, Len(log), shared, h)' =>
                             LatestIs(archive.log, Len(archive.log), shared, h)'
      BY <1>0, <1>4, <3>2 DEF LatestIs
    <3>5. QED
      BY <1>0, <2>2, <3>3, <3>4 DEF ArchivedLog
  <2>3. QED
    BY <2>1, <2>2
<1>11. ImportIsOrderly'
  <2>1. import = "idle" /\ destFiles = NoFiles
    BY <1>0 DEF ShareInv, ImportIsOrderly
  <2>2. \A q \in Hashes : destFiles[q] = "absent"
    BY <2>1 DEF NoFiles
  <2>3. QED
    BY <1>0, <2>1, <2>2 DEF ImportIsOrderly
<1>12. TraversalIsSound'
  BY <1>0, SoundStays DEF Sharing
<1>13. QED
  BY <1>6, <1>7, <1>8, <1>9, <1>10, <1>11, <1>12 DEF ShareInv

LEMMA ExportKeeps ==
  ASSUME ShareInv, Export
  PROVE  ShareInv'
BY StartKeeps, TraverseKeeps, WalkKeeps, CopyKeeps, ReadLogKeeps DEF Export

-----------------------------------------------------------------------------
(* The steps of the destination.                                           *)

\* The archive is complete and stays as it is, and so does the source.
LEMMA DestinationKeeps ==
  ASSUME ShareInv, Destination
  PROVE  ShareInv'
<1>0. /\ files' = files /\ log' = log /\ step' = step /\ shared' = shared /\ stack' = stack
      /\ visited' = visited /\ walked' = walked /\ archive' = archive /\ disturbed' = disturbed
  BY DEF Destination, Import, DestStash, StartImport, ImportObject, ImportFails, MergeLog,
         sourceVars, exportVars
<1>1. step = "done"
  <2>1. step # "done" => import = "idle"
    BY DEF ShareInv, ImportIsOrderly
  <2>2. QED
    BY <2>1 DEF Destination, Import, DestStash, StartImport, ImportObject, ImportFails, MergeLog
<1>2. /\ archive \in [objects : [Hashes -> States], log : Seq(Entry)]
      /\ destFiles \in [Hashes -> States] /\ destLog \in Seq(Entry) /\ imports \in 0..MaxImports
      /\ \A k \in 1..Len(archive.log) : archive.log[k].op = "name" => archive.log[k].label \in Labels
  BY DEF ShareInv, TypeOK, ExportIsOrderly
<1>3. /\ SourceIsOrderly' /\ ExportIsOrderly' /\ VisitedIsWalked'
  BY <1>0 DEF ShareInv, SourceIsOrderly, ExportIsOrderly, VisitedIsWalked, Exporting
<1>4. ArchivedLog'
  BY <1>0 DEF ShareInv, ArchivedLog, Relevant, LatestIs
<1>5. TraversalIsSound'
  BY <1>0, SoundStays DEF Sharing
<1>6. SUFFICES TypeOK' /\ ImportIsOrderly'
  BY <1>3, <1>4, <1>5 DEF ShareInv
<1>7. ASSUME NEW h \in Hashes, DestStash(h) \/ ImportObject(h)
      PROVE  TypeOK' /\ ImportIsOrderly'
  <2>1. /\ import' = import /\ imports' = imports /\ destLog' = destLog
        /\ destFiles[h] = "absent"
        /\ \/ destFiles' = [destFiles EXCEPT ![h] = "whole"]
           \/ /\ destFiles' = [destFiles EXCEPT ![h] = archive.objects[h]]
              /\ archive.objects[h] # "absent"
    BY <1>7 DEF DestStash, ImportObject
  <2>2. /\ destFiles' \in [Hashes -> States] /\ destFiles'[h] # "absent"
        /\ destFiles'[h] = "partial" => archive.objects[h] = "partial"
        /\ \A q \in Hashes : q # h => destFiles'[q] = destFiles[q]
    BY <1>2, <2>1 DEF States
  <2>3. TypeOK'
    BY <1>0, <2>1, <2>2 DEF ShareInv, TypeOK
  <2>4. ImportIsOrderly'
    <3>1. \A q \in Hashes : destFiles'[q] = "partial" => archive.objects[q] = "partial"
      BY <2>2 DEF ShareInv, ImportIsOrderly
    <3>2. \A q \in Hashes : destFiles[q] # "absent" => destFiles'[q] # "absent"
      BY <2>2
    <3>3. \A l, q : /\ LatestIs(archive.log, Len(archive.log), l, q)'
                         <=> LatestIs(archive.log, Len(archive.log), l, q)
                    /\ LatestIs(destLog, Len(destLog), <<"source", l>>, q)'
                         <=> LatestIs(destLog, Len(destLog), <<"source", l>>, q)
      BY <1>0, <2>1 DEF LatestIs
    <3>4. QED
      BY <1>0, <1>1, <2>1, <3>1, <3>2, <3>3 DEF ShareInv, ImportIsOrderly
  <2>5. QED
    BY <2>3, <2>4
<1>8. ASSUME StartImport \/ ImportFails
      PROVE  TypeOK' /\ ImportIsOrderly'
  <2>1. /\ import' \in {"objects", "failed"} /\ imports' \in 0..MaxImports
        /\ destFiles' = destFiles /\ destLog' = destLog
    BY <1>2, <1>8, BoundsAssumption DEF StartImport, ImportFails
  <2>2. QED
    BY <1>0, <1>1, <2>1 DEF ShareInv, TypeOK, ImportIsOrderly
<1>9. ASSUME MergeLog
      PROVE  TypeOK' /\ ImportIsOrderly'
  <2>1. PICK P : P = [k \in 1..Len(archive.log) |-> Prefixed(archive.log[k])]
    OBVIOUS
  <2>2. /\ import' = "done" /\ imports' = imports /\ destFiles' = destFiles
        /\ destLog' = destLog \o P
        /\ \A h \in Hashes : archive.objects[h] # "absent" => destFiles[h] # "absent"
    BY <1>9, <2>1 DEF MergeLog
  <2>3. archive.log \in Seq(Entry)
    BY <1>2
  <2>4. /\ P \in Seq(Entry)
        /\ \A l, h : LatestIs(archive.log, Len(archive.log), l, h)
             => LatestIs(P, Len(P), <<"source", l>>, h)
    BY <1>2, <2>1, <2>3, PrefixedKeepsNames
  <2>5. PICK D \in Seq(Entry) : D = destLog \o P
    BY <1>2, <2>4, ConcatProperties
  <2>6. \A l, h : LatestIs(archive.log, Len(archive.log), l, h)
          => LatestIs(D, Len(D), <<"source", l>>, h)
    BY <1>2, <2>4, <2>5, LatestIsOfSuffix
  <2>7. TypeOK'
    BY <1>0, <2>2, <2>5 DEF ShareInv, TypeOK
  <2>8. \A l \in Labels, h \in Hashes : LatestIs(archive.log, Len(archive.log), l, h)'
          => LatestIs(destLog, Len(destLog), <<"source", l>>, h)'
    <3>1. destLog' = D
      BY <2>2, <2>5
    <3>2. \A l, h : /\ LatestIs(archive.log, Len(archive.log), l, h)'
                         <=> LatestIs(archive.log, Len(archive.log), l, h)
                    /\ LatestIs(destLog, Len(destLog), <<"source", l>>, h)'
                         <=> LatestIs(D, Len(D), <<"source", l>>, h)
      BY <1>0, <3>1 DEF LatestIs
    <3>3. QED
      BY <2>6, <3>2
  <2>9. ImportIsOrderly'
    BY <1>0, <1>1, <2>2, <2>8 DEF ShareInv, ImportIsOrderly
  <2>10. QED
    BY <2>7, <2>9
<1>10. QED
  BY <1>7, <1>8, <1>9 DEF Destination, Import

LEMMA InitShare == Init => ShareInv
<1> SUFFICES ASSUME Init
             PROVE  ShareInv
  OBVIOUS
<1>0. /\ NoFiles \in [Hashes -> States] /\ <<>> \in Seq(Entry) /\ <<>> \in Seq(Hashes)
      /\ Len(<<>>) = 0 /\ 1..0 = {} /\ \A h \in Hashes : NoFiles[h] = "absent"
  BY DEF NoFiles, States
<1>1. TypeOK
  BY <1>0, BoundsAssumption DEF Init, TypeOK
<1>2. SourceIsOrderly /\ ExportIsOrderly
  BY <1>0 DEF Init, SourceIsOrderly, ExportIsOrderly, Exporting
<1>3. VisitedIsWalked /\ ArchivedLog /\ ImportIsOrderly
  BY <1>0 DEF Init, VisitedIsWalked, ArchivedLog, ImportIsOrderly
<1>4. TraversalIsSound
  BY DEF Init, TraversalIsSound, Sharing
<1>5. QED
  BY <1>1, <1>2, <1>3, <1>4 DEF ShareInv

LEMMA NextShare == ShareInv /\ [Next]_vars => ShareInv'
<1> SUFFICES ASSUME ShareInv, [Next]_vars
             PROVE  ShareInv'
  OBVIOUS
<1>1. CASE UNCHANGED vars
  <2>1. Sharing' => Sharing
    BY <1>1 DEF Sharing, vars, exportVars
  <2>2. TraversalIsSound'
    BY <1>1, <2>1, SoundStays DEF vars, sourceVars, exportVars
  <2>3. TypeOK' /\ SourceIsOrderly' /\ ExportIsOrderly' /\ VisitedIsWalked'
    BY <1>1 DEF vars, sourceVars, exportVars, destVars, ShareInv, TypeOK, SourceIsOrderly, Exporting,
                ExportIsOrderly, VisitedIsWalked
  <2>4. ArchivedLog' /\ ImportIsOrderly'
    <3>1. \A l, h : /\ LatestIs(log, Len(log), l, h)' <=> LatestIs(log, Len(log), l, h)
                    /\ LatestIs(archive.log, Len(archive.log), l, h)'
                         <=> LatestIs(archive.log, Len(archive.log), l, h)
                    /\ LatestIs(destLog, Len(destLog), <<"source", l>>, h)'
                         <=> LatestIs(destLog, Len(destLog), <<"source", l>>, h)
      BY <1>1 DEF vars, sourceVars, exportVars, destVars, LatestIs
    <3>2. /\ log' = log /\ archive' = archive /\ step' = step /\ shared' = shared /\ visited' = visited
          /\ import' = import /\ destFiles' = destFiles
      BY <1>1 DEF vars, sourceVars, exportVars, destVars
    <3>3. ArchivedLog'
      <4>1. \A h \in Hashes : LatestIs(log, Len(log), shared, h)' <=> LatestIs(log, Len(log), shared, h)
        BY <3>2 DEF LatestIs
      <4>2. \A h \in Hashes : LatestIs(archive.log, Len(archive.log), shared, h)'
                                <=> LatestIs(archive.log, Len(archive.log), shared, h)
        BY <3>2 DEF LatestIs
      <4>3. \A k \in 1..Len(archive.log) : Relevant(archive.log[k])' <=> Relevant(archive.log[k])
        BY <3>2 DEF Relevant
      <4>4. QED
        BY <3>2, <4>1, <4>2, <4>3 DEF ShareInv, ArchivedLog
    <3>4. ImportIsOrderly'
      BY <3>1, <3>2 DEF ShareInv, ImportIsOrderly
    <3>5. QED
      BY <3>3, <3>4
  <2>5. QED
    BY <2>2, <2>3, <2>4 DEF ShareInv
<1>2. QED
  BY <1>1, SourceKeeps, ExportKeeps, DestinationKeeps DEF Next

-----------------------------------------------------------------------------
(* The theorems.                                                           *)

\* The inductive invariant holds in every reachable state, whatever the objects
\* refer to, and whatever the source does while it is exported.
THEOREM ShareInvariant == Spec => []ShareInv
BY InitShare, NextShare, PTL DEF Spec

\* The variables of the two programs keep their types.
THEOREM ShareTypes == Spec => []TypeOK
BY ShareInvariant, PTL DEF ShareInv

\* When every root has been followed to the end, what has been visited is what the
\* root reaches.
LEMMA VisitedIsReachable ==
  ASSUME ShareInv, NEW root \in Hashes, SeenFrom(root), stack = <<>>
  PROVE  visited = Reachable(root)
<1>1. Seen = visited /\ visited \in SUBSET Hashes
  BY DEF Seen, ToSet, ShareInv, TypeOK
<1>2. root \in visited /\ Closed(visited)
  BY <1>1 DEF SeenFrom, Closed
<1>3. Reachable(root) \subseteq visited
  BY <1>1, <1>2, ReachableFacts
<1>4. QED
  BY <1>1, <1>3 DEF SeenFrom

\* traverse visits what can be reached from an object the name had, no more and no
\* less, however the objects refer to each other, in circles too, unless a stash
\* rewrites a file meanwhile.
THEOREM TraversalIsReachability == Spec => []TraverseIsReachability
<1>1. ShareInv => TraverseIsReachability
  <2> SUFFICES ASSUME ShareInv, step \in {"walk", "copy", "done"}, shared # NoLabel,
                      "stash" \notin disturbed
               PROVE  \E k \in NameEntries(log, shared) : visited = Reachable(log[k].hash)
    BY DEF TraverseIsReachability
  <2>1. stack = <<>> /\ Sharing
    BY DEF ShareInv, ExportIsOrderly, Sharing
  <2>2. PICK root \in Hashes :
          /\ \E k \in 1..Len(log) : log[k].op = "name" /\ log[k].label = shared /\ log[k].hash = root
          /\ SeenFrom(root)
    BY <2>1 DEF ShareInv, TraversalIsSound
  <2>3. visited = Reachable(root)
    BY <2>1, <2>2, VisitedIsReachable
  <2>4. QED
    BY <2>2, <2>3 DEF NameEntries
<1>2. QED
  BY <1>1, ShareInvariant, PTL

\* Every object that the archived log records is in the archive: always when a name
\* is shared, and in a full export when nothing was stashed or logged meanwhile.
THEOREM ArchivesCoverLogs == Spec => []ArchiveCoversLog
<1>1. ShareInv => ArchiveCoversLog
  <2> SUFFICES ASSUME ShareInv, step = "done", shared # NoLabel \/ disturbed = {},
                      NEW k \in 1..Len(archive.log), archive.log[k].op = "object"
               PROVE  archive.objects[archive.log[k].hash] # "absent"
    BY DEF ArchiveCoversLog
  <2>1. archive.log[k].hash \in Hashes
    <3>1. archive.log \in Seq(Entry)
      BY DEF ShareInv, TypeOK
    <3>2. archive.log[k] \in Entry
      BY <3>1, ElementOfSeq
    <3>3. QED
      BY <3>2 DEF Entry, ObjectEntry, NameEntry
  <2>2. walked[archive.log[k].hash] # "absent"
    <3>1. CASE shared = NoLabel
      BY <3>1 DEF ShareInv, ArchivedLog, VisitedIsWalked
    <3>2. CASE shared # NoLabel
      BY <3>2 DEF ShareInv, ArchivedLog, VisitedIsWalked, Relevant
    <3>3. QED
      BY <3>1, <3>2
  <2>3. QED
    BY <2>1, <2>2 DEF ShareInv, ExportIsOrderly
<1>2. QED
  BY <1>1, ShareInvariant, PTL

\* The name that an archive shares leads only to whole objects of the archive, when
\* nothing was stashed or logged during the export.
THEOREM QuietArchivesResolve == Spec => []QuietArchiveResolves
<1>1. ShareInv => QuietArchiveResolves
  <2> SUFFICES ASSUME ShareInv, step = "done", shared # NoLabel, disturbed = {}
               PROVE  \A h \in Reachable(Latest(archive.log, shared)) : archive.objects[h] = "whole"
    BY DEF QuietArchiveResolves, Resolves
  <2>1. stack = <<>> /\ Sharing
    BY DEF ShareInv, ExportIsOrderly, Sharing
  <2>2. PICK root \in Hashes : SeenFrom(root) /\ LatestIs(log, Len(log), shared, root)
    BY <2>1 DEF ShareInv, TraversalIsSound
  <2>3. LatestIs(archive.log, Len(archive.log), shared, root)
    BY <2>2 DEF ShareInv, ArchivedLog
  <2>4. Latest(archive.log, shared) = root
    <3>1. archive.log \in Seq(Entry)
      BY DEF ShareInv, TypeOK
    <3>2. QED
      BY <2>3, <3>1, LatestIsLatest
  <2>5. visited = Reachable(root)
    BY <2>1, <2>2, VisitedIsReachable
  <2>6. ASSUME NEW h \in visited
        PROVE  archive.objects[h] = "whole"
    <3>1. h \in Hashes /\ walked[h] = "whole"
      BY DEF ShareInv, TypeOK, VisitedIsWalked
    <3>2. QED
      BY <3>1 DEF ShareInv, ExportIsOrderly
  <2>7. QED
    BY <2>4, <2>5, <2>6
<1>2. QED
  BY <1>1, ShareInvariant, PTL

\* After an import that succeeded, whatever was imported before and whatever failed,
\* a name leads where it leads in the archive, to whole objects if they were whole
\* there.
THEOREM ImportedNamesLead == Spec => []ImportedNamesResolve
<1>1. ShareInv => ImportedNamesResolve
  <2> SUFFICES ASSUME ShareInv, import = "done", NEW l \in Labels, NameEntries(archive.log, l) # {}
               PROVE  /\ Latest(destLog, <<"source", l>>) = Latest(archive.log, l)
                      /\ Resolves(archive.log, l, archive.objects)
                           => Resolves(destLog, <<"source", l>>, destFiles)
    BY DEF ImportedNamesResolve
  <2>1. /\ archive.log \in Seq(Entry) /\ destLog \in Seq(Entry)
        /\ destFiles \in [Hashes -> States]
    BY DEF ShareInv, TypeOK
  <2>2. PICK h \in Hashes : h = Latest(archive.log, l) /\ LatestIs(archive.log, Len(archive.log), l, h)
    BY <2>1, NamedHasLatest
  <2>3. LatestIs(destLog, Len(destLog), <<"source", l>>, h)
    BY <2>2 DEF ShareInv, ImportIsOrderly
  <2>4. Latest(destLog, <<"source", l>>) = h
    BY <2>1, <2>3, LatestIsLatest
  <2>5. ASSUME NEW q \in Reachable(h), archive.objects[q] = "whole"
        PROVE  destFiles[q] = "whole"
    <3>1. q \in Hashes
      BY DEF Reachable
    <3>2. destFiles[q] # "absent" /\ destFiles[q] # "partial"
      BY <2>5, <3>1 DEF ShareInv, ImportIsOrderly
    <3>3. QED
      BY <2>1, <3>1, <3>2 DEF States
  <2>6. QED
    BY <2>2, <2>4, <2>5 DEF Resolves
<1>2. QED
  BY <1>1, ShareInvariant, PTL
=============================================================================
