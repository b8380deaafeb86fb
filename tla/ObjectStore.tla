---------------------------- MODULE ObjectStore ----------------------------
(***************************************************************************)
(* The content addressed store (internal/cas) and the other code that      *)
(* creates its files, Import.  The store has no lock.  The name of a file  *)
(* is the hash of its content, so that all the writers of a file write the *)
(* same bytes; what can differ is how many of them are there.              *)
(***************************************************************************)
EXTENDS Naturals

CONSTANTS
  Hashes,
  Stashers,     \* calls of Stash
  Fetchers,     \* calls of Fetch
  Importers,    \* runs of Import, with one object each
  MaxFaults     \* bound on killed or failing writers

ASSUME ActorsAssumption ==
  /\ Stashers \cap Fetchers = {}
  /\ Stashers \cap Importers = {}
  /\ Fetchers \cap Importers = {}
ASSUME FaultsAssumption == MaxFaults \in Nat

Writers == Stashers \cup Importers
Calls   == Writers \cup Fetchers

VARIABLES
  file,     \* what is under each hash: absent, partial (created or truncated), whole
  pc,       \* what each call is doing
  hash,     \* the hash each call is about
  seen,     \* what each fetch has read
  faults,   \* how many writers have failed
  stored,   \* history: hashes whose stash or import was reported as a success
  torn,     \* history: hashes that a failed writer left behind
  overlap   \* history: fetches that overlapped a writer of the file or followed a failed one

vars == <<file, pc, hash, seen, faults, stored, torn, overlap>>

Init ==
  /\ file = [h \in Hashes |-> "absent"]
  /\ pc = [c \in Calls |-> "idle"]
  /\ hash \in [Calls -> Hashes]
  /\ seen = [c \in Fetchers |-> "nothing"]
  /\ faults = 0
  /\ stored = {}
  /\ torn = {}
  /\ overlap = {}

WritersOf(h) == {c \in Writers : pc[c] = "writing" /\ hash[c] = h}

\* Fetches that have the file open while it is truncated.
Disturbed(h) == {c \in Fetchers : pc[c] = "open" /\ hash[c] = h}

-----------------------------------------------------------------------------
\* Mutant: Stash returns once the file exists.
CreateOnly(c) ==
  /\ c \in Stashers
  /\ pc[c] = "idle"
  /\ file' = [file EXCEPT ![hash[c]] = "partial"]
  /\ pc' = [pc EXCEPT ![c] = "done"]
  /\ overlap' = overlap \cup Disturbed(hash[c])
  /\ UNCHANGED <<hash, seen, faults, stored, torn>>

\* Stash: os.Create truncates a file that is there already.
Create(c) ==
  /\ c \in Stashers
  /\ pc[c] = "idle"
  /\ file' = [file EXCEPT ![hash[c]] = "partial"]
  /\ pc' = [pc EXCEPT ![c] = "writing"]
  /\ overlap' = overlap \cup Disturbed(hash[c])
  /\ UNCHANGED <<hash, seen, faults, stored, torn>>

\* Import: an object whose file exists is skipped, and counts as imported.
Skip(c) ==
  /\ c \in Importers
  /\ pc[c] = "idle"
  /\ file[hash[c]] # "absent"
  /\ pc' = [pc EXCEPT ![c] = "done"]
  /\ stored' = stored \cup {hash[c]}
  /\ UNCHANGED <<file, hash, seen, faults, torn, overlap>>

StatMissing(c) ==
  /\ c \in Importers
  /\ pc[c] = "idle"
  /\ file[hash[c]] = "absent"
  /\ pc' = [pc EXCEPT ![c] = "missing"]
  /\ UNCHANGED <<file, hash, seen, faults, stored, torn, overlap>>

\* os.WriteFile creates the file, or truncates the one created since the Stat.
CreateMissing(c) ==
  /\ pc[c] = "missing"
  /\ file' = [file EXCEPT ![hash[c]] = "partial"]
  /\ pc' = [pc EXCEPT ![c] = "writing"]
  /\ overlap' = overlap \cup Disturbed(hash[c])
  /\ UNCHANGED <<hash, seen, faults, stored, torn>>

\* Mutant: the content stays in a buffer that is never flushed.
WriteUnflushed(c) ==
  /\ pc[c] = "writing"
  /\ pc' = [pc EXCEPT ![c] = "done"]
  /\ stored' = stored \cup {hash[c]}
  /\ torn' = torn \ {hash[c]}
  /\ UNCHANGED <<file, hash, seen, faults, overlap>>

\* Mutant: a writer waits until no other has the file open.
WriteAlone(c) ==
  /\ pc[c] = "writing"
  /\ WritersOf(hash[c]) = {c}
  /\ file' = [file EXCEPT ![hash[c]] = "whole"]
  /\ pc' = [pc EXCEPT ![c] = "done"]
  /\ stored' = stored \cup {hash[c]}
  /\ torn' = torn \ {hash[c]}
  /\ UNCHANGED <<hash, seen, faults, overlap>>

\* WriteString wrote everything: Stash returns the hash.
Write(c) ==
  /\ pc[c] = "writing"
  /\ file' = [file EXCEPT ![hash[c]] = "whole"]
  /\ pc' = [pc EXCEPT ![c] = "done"]
  /\ stored' = stored \cup {hash[c]}
  /\ torn' = torn \ {hash[c]}
  /\ UNCHANGED <<hash, seen, faults, overlap>>

\* The write fails or the process is killed: nothing removes the file.
WriteFails(c) ==
  /\ pc[c] = "writing"
  /\ faults < MaxFaults
  /\ faults' = faults + 1
  /\ pc' = [pc EXCEPT ![c] = "failed"]
  /\ torn' = IF file[hash[c]] = "partial" THEN torn \cup {hash[c]} ELSE torn
  /\ UNCHANGED <<file, hash, seen, stored, overlap>>

\* A caller comes back with other content, or with the same.
Again(c) ==
  /\ pc[c] \in {"done", "failed"}
  /\ \E h \in Hashes : hash' = [hash EXCEPT ![c] = h]
  /\ pc' = [pc EXCEPT ![c] = "idle"]
  /\ seen' = IF c \in Fetchers THEN [seen EXCEPT ![c] = "nothing"] ELSE seen
  /\ overlap' = overlap \ {c}
  /\ UNCHANGED <<file, faults, stored, torn>>

\* Mutant: a missing file is not an error.
OpenAnything(c) ==
  /\ c \in Fetchers
  /\ pc[c] = "idle"
  /\ pc' = [pc EXCEPT ![c] = "open"]
  /\ UNCHANGED <<file, hash, seen, faults, stored, torn, overlap>>

\* Fetch: os.ReadFile opens the file ...
Open(c) ==
  /\ c \in Fetchers
  /\ pc[c] = "idle"
  /\ pc' = [pc EXCEPT ![c] = IF file[hash[c]] = "absent" THEN "failed" ELSE "open"]
  /\ overlap' = IF WritersOf(hash[c]) # {} \/ hash[c] \in torn
                   THEN overlap \cup {c} ELSE overlap
  /\ UNCHANGED <<file, hash, seen, faults, stored, torn>>

\* ... and reads what is in it by then; nothing compares it with the hash.
Read(c) ==
  /\ pc[c] = "open"
  /\ seen' = [seen EXCEPT ![c] = file[hash[c]]]
  /\ pc' = [pc EXCEPT ![c] = "done"]
  /\ UNCHANGED <<file, hash, faults, stored, torn, overlap>>

Next ==
  \E c \in Calls :
    \/ Create(c) \/ Skip(c) \/ StatMissing(c) \/ CreateMissing(c)
    \/ Write(c) \/ WriteFails(c)
    \/ Open(c) \/ Read(c)
    \/ Again(c)

\* A call that has begun is run to its end by the Go scheduler; nothing makes a
\* caller call.
Fairness == \A c \in Calls : WF_vars(CreateMissing(c) \/ Write(c)) /\ WF_vars(Read(c))

Spec == Init /\ [][Next]_vars /\ Fairness

-----------------------------------------------------------------------------
(* Properties.                                                             *)

TypeOK ==
  /\ file \in [Hashes -> {"absent", "partial", "whole"}]
  /\ pc \in [Calls -> {"idle", "missing", "writing", "open", "done", "failed"}]
  /\ hash \in [Calls -> Hashes]
  /\ seen \in [Fetchers -> {"nothing", "partial", "whole"}]
  /\ faults \in 0..MaxFaults
  /\ stored \subseteq Hashes
  /\ torn \subseteq Hashes
  /\ overlap \subseteq Fetchers

\* A file is incomplete only while somebody is writing it, or because the last
\* one who was failed: writers that overlap never leave it so between them.
PartialIsExplained ==
  \A h \in Hashes : file[h] = "partial" => WritersOf(h) # {} \/ h \in torn

\* A fetch that returns less than the object overlapped a writer of the same
\* object or followed a failed one: otherwise what was stashed is what is read.
FetchIsWhole ==
  \A c \in Fetchers :
    pc[c] = "done" /\ seen[c] # "whole" => c \in overlap

\* A truncated file becomes whole again once its writers get to run, when none
\* of them fails.
BecomesWhole ==
  [](faults = 0) => \A h \in Hashes : file[h] = "partial" ~> file[h] = "whole"
=============================================================================
