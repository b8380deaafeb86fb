----------------------------- MODULE SharedLog -----------------------------
(***************************************************************************)
(* Several programs on one metadata directory.  The server keeps the log   *)
(* in memory and rewrites log.json on every append (metadata.Store); each  *)
(* run of the command line tool loads the file, appends and rewrites it;   *)
(* Import, run by the tool or by the server's /import handler, appends its *)
(* entries to the file and to nothing else (share.mergeLog).  No lock is   *)
(* shared between them: Store.mu orders the appends of one process only.   *)
(*                                                                         *)
(* MetadataStore has the inside of one store; here an entry is told apart  *)
(* from another only by who appended it and by its number.                 *)
(***************************************************************************)
EXTENDS Naturals, Sequences

CONSTANTS
  Server,       \* the server process
  Commands,     \* runs of the command line tool that append through a Store
  Imports,      \* runs of "hatcheck import"
  Uploads,      \* requests to the server's /import
  BatchSize,    \* number of log entries in an imported archive
  MaxAppends,   \* bound on the server's appends
  MaxStarts,    \* bound on the server's starts
  Absent,       \* log.json does not exist
  Empty,        \* log.json was truncated and not yet written again
  Garbled       \* log.json holds parts of two writes

Writers   == {Server} \cup Commands \cup Imports \cup Uploads
Importers == Imports \cup Uploads

ASSUME WritersAssumption ==
  /\ Server \notin Commands \cup Imports \cup Uploads
  /\ Commands \cap Importers = {} /\ Imports \cap Uploads = {}
ASSUME BoundsAssumption ==
  {BatchSize, MaxAppends, MaxStarts} \subseteq Nat

Entry == Writers \X (Nat \ {0})

ASSUME FilesAssumption == \A f \in {Absent, Empty, Garbled} : f \notin Seq(Entry)

VARIABLES
  disk,     \* log.json
  pc,       \* what each program is doing
  memory,   \* the log each program has read and added to
  appends,  \* how many entries each program has appended
  starts,   \* how often the server was started
  acked,    \* history: the entries whose append was reported as a success
  overlap   \* history: two programs have run at the same time

vars == <<disk, pc, memory, appends, starts, acked, overlap>>

Complete(f) == f \notin {Absent, Empty, Garbled}

Busy == {"up", "saving", "writing"}

\* The entries of a file or of a log.
EntriesOf(f) == {f[k] : k \in DOMAIN f}

Init ==
  /\ disk = Absent
  /\ pc = [p \in Writers |-> "off"]
  /\ memory = [p \in Writers |-> <<>>]
  /\ appends = [p \in Writers |-> 0]
  /\ starts = 0
  /\ acked = {}
  /\ overlap = FALSE

\* The program may start, whatever else runs; an upload is a handler of a server
\* that is up.
MayStart(p) ==
  /\ pc[p] = "off"
  /\ p \in Uploads => pc[Server] \in Busy
  /\ p = Server => starts < MaxStarts

\* Mutant: a missing file is not taken for an empty log.
LoadUnchecked(p) ==
  /\ MayStart(p)
  /\ disk \notin {Empty, Garbled}
  /\ pc' = [pc EXCEPT ![p] = "up"]
  /\ memory' = [memory EXCEPT ![p] = disk]
  /\ starts' = IF p = Server THEN starts + 1 ELSE starts
  /\ overlap' = (overlap \/ \E q \in Writers : pc[q] \in Busy)
  /\ UNCHANGED <<disk, appends, acked>>

\* Mutant: a program starts from an empty log.
LoadNothing(p) ==
  /\ MayStart(p)
  /\ disk \notin {Empty, Garbled}
  /\ pc' = [pc EXCEPT ![p] = "up"]
  /\ memory' = [memory EXCEPT ![p] = <<>>]
  /\ starts' = IF p = Server THEN starts + 1 ELSE starts
  /\ overlap' = (overlap \/ \E q \in Writers : pc[q] \in Busy)
  /\ UNCHANGED <<disk, appends, acked>>

\* metadata.New, or the read at the beginning of mergeLog: a missing file is an
\* empty log.
Load(p) ==
  /\ MayStart(p)
  /\ disk \notin {Empty, Garbled}
  /\ pc' = [pc EXCEPT ![p] = "up"]
  /\ memory' = [memory EXCEPT ![p] = IF disk = Absent THEN <<>> ELSE disk]
  /\ starts' = IF p = Server THEN starts + 1 ELSE starts
  /\ overlap' = (overlap \/ \E q \in Writers : pc[q] \in Busy)
  /\ UNCHANGED <<disk, appends, acked>>

\* The file is not a JSON document: the server and the tool exit, the import
\* returns the error.
LoadFails(p) ==
  /\ MayStart(p)
  /\ disk \in {Empty, Garbled}
  /\ pc' = [pc EXCEPT ![p] = "failed"]
  /\ UNCHANGED <<disk, memory, appends, starts, acked, overlap>>

\* One append of p adds one entry, or the whole archive for an import.
Batch(p) == IF p \in Importers THEN BatchSize ELSE 1

NextEntries(p) == [k \in 1..Batch(p) |-> <<p, appends[p] + k>>]

\* Mutant: the entries are appended twice.
AddTwice(p) ==
  /\ pc[p] = "up"
  /\ p = Server => appends[p] < MaxAppends
  /\ memory' = [memory EXCEPT ![p] = @ \o NextEntries(p) \o NextEntries(p)]
  /\ appends' = [appends EXCEPT ![p] = @ + Batch(p)]
  /\ pc' = [pc EXCEPT ![p] = "saving"]
  /\ UNCHANGED <<disk, starts, acked, overlap>>

Add(p) ==
  /\ pc[p] = "up"
  /\ p = Server => appends[p] < MaxAppends
  /\ memory' = [memory EXCEPT ![p] = @ \o NextEntries(p)]
  /\ appends' = [appends EXCEPT ![p] = @ + Batch(p)]
  /\ pc' = [pc EXCEPT ![p] = "saving"]
  /\ UNCHANGED <<disk, starts, acked, overlap>>

\* os.WriteFile truncates the file ...
Truncate(p) ==
  /\ pc[p] = "saving"
  /\ disk' = Empty
  /\ pc' = [pc EXCEPT ![p] = "writing"]
  /\ UNCHANGED <<memory, appends, starts, acked, overlap>>

\* ... and writes from its start.  Over bytes another program has written since,
\* the result may be a mix of the two.
Overwritten(p) == IF disk = Empty THEN {memory[p]} ELSE {memory[p], Garbled}

\* Mutant: the last entry is not written.
WriteShort(p) ==
  /\ pc[p] = "writing"
  /\ disk' = SubSeq(memory[p], 1, Len(memory[p]) - 1)
  /\ pc' = [pc EXCEPT ![p] = IF p = Server THEN "up" ELSE "done"]
  /\ acked' = acked \cup {<<p, k>> : k \in (appends[p] - Batch(p) + 1)..appends[p]}
  /\ UNCHANGED <<memory, appends, starts, overlap>>

\* save or mergeLog returns nil.  The server goes on, everything else is done.
Write(p) ==
  /\ pc[p] = "writing"
  /\ \E f \in Overwritten(p) : disk' = f
  /\ pc' = [pc EXCEPT ![p] = IF p = Server THEN "up" ELSE "done"]
  /\ acked' = acked \cup {<<p, k>> : k \in (appends[p] - Batch(p) + 1)..appends[p]}
  /\ UNCHANGED <<memory, appends, starts, overlap>>

\* The program is killed; the server's handlers go with it, and the server can
\* be started again.
Kill(p) ==
  /\ pc[p] \in Busy
  /\ pc' = [q \in Writers |->
              IF q = Server /\ p = Server THEN "off"
              ELSE IF q = p \/ (p = Server /\ q \in Uploads /\ pc[q] \in Busy) THEN "failed"
              ELSE pc[q]]
  /\ memory' = [memory EXCEPT ![p] = <<>>]
  /\ UNCHANGED <<disk, appends, starts, acked, overlap>>

Next ==
  \E p \in Writers :
    \/ Load(p) \/ LoadFails(p)
    \/ Add(p) \/ Truncate(p) \/ Write(p)
    \/ p \notin Uploads /\ Kill(p)

Spec == Init /\ [][Next]_vars

-----------------------------------------------------------------------------
(* Properties.                                                             *)

TypeOK ==
  /\ disk \in Seq(Entry) \cup {Absent, Empty, Garbled}
  /\ pc \in [Writers -> Busy \cup {"off", "done", "failed"}]
  /\ memory \in [Writers -> Seq(Entry)]
  /\ appends \in [Writers -> Nat]
  /\ starts \in Nat
  /\ acked \subseteq Entry
  /\ overlap \in BOOLEAN

\* "The metadata log is an append-only event log" (SETUP.md:115): an entry whose
\* append was reported as a success is in every complete log.json from then on.
AckedSurvive ==
  disk \notin {Empty, Garbled} =>
    acked \subseteq IF disk = Absent THEN {} ELSE EntriesOf(disk)

\* It is, over kills at any step and any number of starts, as long as no program
\* started while another was running.
AckedSurviveAlone == ~overlap => AckedSurvive

\* What a serving process answers from includes every acknowledged entry, of
\* whichever program, under the same condition: a revocation made from the
\* command line holds in the server that is started after it.
ServerKnowsAcked ==
  ~overlap /\ pc[Server] \in Busy => acked \subseteq EntriesOf(memory[Server])

\* However the programs overlap, a complete file holds an append at most once
\* and the appends of one program in the order it made them.
InOrder(f) ==
  \A i, j \in 1..Len(f) : i < j /\ f[i][1] = f[j][1] => f[i][2] < f[j][2]

LogInOrder ==
  /\ Complete(disk) => InOrder(disk)
  /\ \A p \in Writers : InOrder(memory[p])

\* An import is merged as a whole: a complete file has all of its entries or none.
ImportIsWhole ==
  Complete(disk) =>
    \A p \in Importers : \A k \in 1..appends[p] :
      <<p, k>> \in EntriesOf(disk) => \A j \in 1..BatchSize : <<p, j>> \in EntriesOf(disk)
=============================================================================
