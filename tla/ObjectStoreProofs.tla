------------------------- MODULE ObjectStoreProofs -------------------------
(***************************************************************************)
(* Proofs about ObjectStore, for every set of hashes and of concurrent     *)
(* calls and any number of failing writers.                                *)
(***************************************************************************)
EXTENDS ObjectStore, TLAPS

\* A call is only in the steps of its own kind.
CallsKeepToTheirKind ==
  /\ \A c \in Calls : pc[c] = "missing" => c \in Importers
  /\ \A c \in Calls : pc[c] = "writing" => c \in Writers
  /\ \A c \in Calls : pc[c] = "open" => c \in Fetchers

\* Nothing deletes a file: the one a call has open is there.
OpenFilesExist ==
  \A c \in Calls : pc[c] \in {"writing", "open"} => file[hash[c]] # "absent"

\* What a failed writer left behind is incomplete until somebody writes it again.
TornIsPartial == \A h \in torn : file[h] = "partial"

\* A fetch that nothing has disturbed since it opened the file has a whole one.
UndisturbedIsWhole ==
  \A c \in Fetchers : pc[c] = "open" /\ c \notin overlap => file[hash[c]] = "whole"

\* The inductive invariant: what is true of a file follows from who is writing it,
\* and what a fetch returns from what the file was like while it was open.
ObjectInv ==
  /\ TypeOK
  /\ CallsKeepToTheirKind
  /\ OpenFilesExist
  /\ TornIsPartial
  /\ PartialIsExplained
  /\ UndisturbedIsWhole
  /\ FetchIsWhole

LEMMA InitObjects == Init => ObjectInv
BY FaultsAssumption
   DEF Init, ObjectInv, TypeOK, CallsKeepToTheirKind, OpenFilesExist, TornIsPartial,
       PartialIsExplained, UndisturbedIsWhole, FetchIsWhole, Calls

\* One writer or reader takes a step.
LEMMA StepObjects ==
  ASSUME ObjectInv, NEW c \in Calls,
         \/ Create(c) \/ Skip(c) \/ StatMissing(c) \/ CreateMissing(c)
         \/ Write(c) \/ WriteFails(c) \/ Open(c) \/ Read(c) \/ Again(c)
  PROVE  ObjectInv'
<1> USE FaultsAssumption, ActorsAssumption
    DEF ObjectInv, Calls, Writers, WritersOf, Disturbed
<1>1. CASE Create(c)
  <2>1. TypeOK'
    BY <1>1 DEF Create, TypeOK
  <2>2. CallsKeepToTheirKind' /\ OpenFilesExist' /\ TornIsPartial'
    BY <1>1 DEF Create, TypeOK, CallsKeepToTheirKind, OpenFilesExist, TornIsPartial
  <2>3. PartialIsExplained'
    BY <1>1 DEF Create, TypeOK, PartialIsExplained
  <2>4. UndisturbedIsWhole' /\ FetchIsWhole'
    BY <1>1 DEF Create, TypeOK, UndisturbedIsWhole, FetchIsWhole
  <2>5. QED
    BY <2>1, <2>2, <2>3, <2>4
<1>2. CASE Skip(c)
  BY <1>2 DEF Skip, TypeOK, CallsKeepToTheirKind, OpenFilesExist, TornIsPartial,
              PartialIsExplained, UndisturbedIsWhole, FetchIsWhole
<1>3. CASE StatMissing(c)
  BY <1>3 DEF StatMissing, TypeOK, CallsKeepToTheirKind, OpenFilesExist, TornIsPartial,
              PartialIsExplained, UndisturbedIsWhole, FetchIsWhole
<1>4. CASE CreateMissing(c)
  <2>1. TypeOK'
    BY <1>4 DEF CreateMissing, TypeOK
  <2>2. CallsKeepToTheirKind' /\ OpenFilesExist' /\ TornIsPartial'
    BY <1>4 DEF CreateMissing, TypeOK, CallsKeepToTheirKind, OpenFilesExist, TornIsPartial
  <2>3. PartialIsExplained'
    BY <1>4 DEF CreateMissing, TypeOK, PartialIsExplained, CallsKeepToTheirKind
  <2>4. UndisturbedIsWhole' /\ FetchIsWhole'
    BY <1>4 DEF CreateMissing, TypeOK, UndisturbedIsWhole, FetchIsWhole, CallsKeepToTheirKind
  <2>5. QED
    BY <2>1, <2>2, <2>3, <2>4
<1>5. CASE Write(c)
  <2>1. TypeOK'
    BY <1>5 DEF Write, TypeOK
  <2>2. CallsKeepToTheirKind' /\ OpenFilesExist' /\ TornIsPartial'
    BY <1>5 DEF Write, TypeOK, CallsKeepToTheirKind, OpenFilesExist, TornIsPartial
  <2>3. PartialIsExplained'
    BY <1>5 DEF Write, TypeOK, PartialIsExplained
  <2>4. UndisturbedIsWhole' /\ FetchIsWhole'
    BY <1>5 DEF Write, TypeOK, UndisturbedIsWhole, FetchIsWhole, CallsKeepToTheirKind
  <2>5. QED
    BY <2>1, <2>2, <2>3, <2>4
<1>6. CASE WriteFails(c)
  <2>1. TypeOK'
    BY <1>6 DEF WriteFails, TypeOK
  <2>2. CallsKeepToTheirKind' /\ OpenFilesExist' /\ TornIsPartial'
    BY <1>6 DEF WriteFails, TypeOK, CallsKeepToTheirKind, OpenFilesExist, TornIsPartial
  <2>3. PartialIsExplained'
    BY <1>6 DEF WriteFails, TypeOK, PartialIsExplained
  <2>4. UndisturbedIsWhole' /\ FetchIsWhole'
    BY <1>6 DEF WriteFails, TypeOK, UndisturbedIsWhole, FetchIsWhole, CallsKeepToTheirKind
  <2>5. QED
    BY <2>1, <2>2, <2>3, <2>4
<1>7. CASE Open(c)
  <2>1. TypeOK'
    BY <1>7 DEF Open, TypeOK
  <2>2. CallsKeepToTheirKind' /\ OpenFilesExist' /\ TornIsPartial' /\ PartialIsExplained'
    BY <1>7 DEF Open, TypeOK, CallsKeepToTheirKind, OpenFilesExist, TornIsPartial,
                PartialIsExplained
  <2>3. UndisturbedIsWhole' /\ FetchIsWhole'
    BY <1>7 DEF Open, TypeOK, UndisturbedIsWhole, FetchIsWhole, PartialIsExplained
  <2>4. QED
    BY <2>1, <2>2, <2>3
<1>8. CASE Read(c)
  <2>1. c \in Fetchers /\ file[hash[c]] # "absent"
    BY <1>8 DEF Read, CallsKeepToTheirKind, OpenFilesExist
  <2>2. TypeOK'
    BY <1>8, <2>1 DEF Read, TypeOK
  <2>3. CallsKeepToTheirKind' /\ OpenFilesExist' /\ TornIsPartial' /\ PartialIsExplained'
    BY <1>8 DEF Read, TypeOK, CallsKeepToTheirKind, OpenFilesExist, TornIsPartial,
                PartialIsExplained
  <2>4. UndisturbedIsWhole' /\ FetchIsWhole'
    BY <1>8, <2>1 DEF Read, TypeOK, UndisturbedIsWhole, FetchIsWhole
  <2>5. QED
    BY <2>2, <2>3, <2>4
<1>9. CASE Again(c)
  <2>1. TypeOK'
    BY <1>9 DEF Again, TypeOK
  <2>2. CallsKeepToTheirKind' /\ OpenFilesExist' /\ TornIsPartial' /\ PartialIsExplained'
    BY <1>9 DEF Again, TypeOK, CallsKeepToTheirKind, OpenFilesExist, TornIsPartial,
                PartialIsExplained
  <2>3. UndisturbedIsWhole' /\ FetchIsWhole'
    BY <1>9 DEF Again, TypeOK, UndisturbedIsWhole, FetchIsWhole
  <2>4. QED
    BY <2>1, <2>2, <2>3
<1>10. QED
  BY <1>1, <1>2, <1>3, <1>4, <1>5, <1>6, <1>7, <1>8, <1>9

LEMMA NextObjects == ObjectInv /\ [Next]_vars => ObjectInv'
<1> SUFFICES ASSUME ObjectInv, [Next]_vars
             PROVE  ObjectInv'
  OBVIOUS
<1>1. CASE Next
  BY <1>1, StepObjects DEF Next
<1>2. CASE UNCHANGED vars
  BY <1>2 DEF vars, ObjectInv, TypeOK, CallsKeepToTheirKind, OpenFilesExist, TornIsPartial,
              PartialIsExplained, UndisturbedIsWhole, FetchIsWhole, WritersOf
<1>3. QED
  BY <1>1, <1>2

\* The inductive invariant holds in every reachable state.
THEOREM ObjectInvariant == Spec => []ObjectInv
BY InitObjects, NextObjects, PTL DEF Spec

\* The variables of the store keep their types.
THEOREM ObjectTypes == Spec => []TypeOK
BY ObjectInvariant, PTL DEF ObjectInv

\* However many stashes and imports of one object overlap, none of them leaves the
\* file incomplete except by failing.
THEOREM PartialOnlyByFailure == Spec => []PartialIsExplained
BY ObjectInvariant, PTL DEF ObjectInv

\* A fetch returns the whole object unless a writer of it was at work, or had
\* failed, while the fetch had the file open.
THEOREM UndisturbedFetchIsWhole == Spec => []FetchIsWhole
BY ObjectInvariant, PTL DEF ObjectInv
=============================================================================
