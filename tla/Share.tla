------------------------------- MODULE Share -------------------------------
(***************************************************************************)
(* Export and Import (internal/share): an archive is made from one store,  *)
(* whose server goes on stashing, naming and rewriting files meanwhile,    *)
(* and unpacked in another.  Neither side takes a lock; Export reads the   *)
(* log twice and each object up to three times (traverse, Walk, copy).     *)
(*                                                                         *)
(* What an object refers to is a constant, because its content never       *)
(* changes; a file that a stash has truncated reads as an empty, plain     *)
(* object (see ObjectStore).                                               *)
(***************************************************************************)
EXTENDS Naturals, Sequences, SequencesExt

CONSTANTS
  Hashes,
  Content,      \* what each object refers to: a sequence of hashes
  Labels,
  NoLabel,      \* instead of a label: a full export
  MaxLog,       \* bound on the source's log
  MaxImports    \* bound on the runs of Import

ASSUME ContentAssumption == Content \in [Hashes -> Seq(Hashes)]
ASSUME LabelsAssumption == NoLabel \notin Labels
ASSUME BoundsAssumption == MaxLog \in Nat /\ MaxImports \in Nat

ObjectEntry == [op : {"object"}, hash : Hashes]
NameEntry   == [op : {"name"}, label : Labels \cup ({"source"} \X Labels), hash : Hashes]
Entry       == ObjectEntry \cup NameEntry

VARIABLES
  files,      \* the source's objects: absent, partial, whole
  log,        \* the source's log
  step,       \* where Export is
  shared,     \* the label it exports, or NoLabel
  stack,      \* hashes traverse still has to visit, in its order
  visited,    \* traverse's visited set
  walked,     \* what Walk found under each hash: nothing, partial, whole
  archive,    \* the archive: its objects and its log
  import,     \* where Import is
  imports,    \* how often Import has been run
  destFiles,  \* the destination's objects
  destLog,    \* the destination's log
  disturbed   \* history: what the source did while Export was running

sourceVars == <<files, log>>
exportVars == <<step, shared, stack, visited, walked, archive>>
destVars   == <<import, imports, destFiles, destLog>>
vars == <<sourceVars, exportVars, destVars, disturbed>>

NoFiles == [h \in Hashes |-> "absent"]

\* The entries of a name in a log, and the hash the last of them gives.
NameEntries(L, l) == {k \in 1..Len(L) : L[k].op = "name" /\ L[k].label = l}
Latest(L, l) == L[CHOOSE k \in NameEntries(L, l) : \A j \in NameEntries(L, l) : j <= k].hash

Init ==
  /\ files = NoFiles
  /\ log = <<>>
  /\ step = "idle"
  /\ shared = NoLabel
  /\ stack = <<>>
  /\ visited = {}
  /\ walked = NoFiles
  /\ archive = [objects |-> NoFiles, log |-> <<>>]
  /\ import = "idle"
  /\ imports = 0
  /\ destFiles = NoFiles
  /\ destLog = <<>>
  /\ disturbed = {}

Exporting == step \notin {"idle", "done", "failed"}
Notes(what) == disturbed' = IF Exporting THEN disturbed \cup {what} ELSE disturbed

-----------------------------------------------------------------------------
(* The source's server.                                                    *)

\* cas.Stash, of new content or again of old.  Nothing asks whether the members
\* of a collection or the ends of a relation exist.
Truncate(h) ==
  /\ files[h] # "partial"
  /\ files' = [files EXCEPT ![h] = "partial"]
  /\ Notes("stash")
  /\ UNCHANGED <<log, exportVars, destVars>>

\* The content is written, then the entry is appended (in two calls; a reader
\* of the log that comes between sees the entry late, as after a failed append).
Stashed(h) ==
  /\ files[h] = "partial"
  /\ files' = [files EXCEPT ![h] = "whole"]
  /\ UNCHANGED <<log, exportVars, destVars, disturbed>>

AppendObject(h) ==
  /\ Len(log) < MaxLog
  /\ files[h] = "whole"
  /\ log' = Append(log, [op |-> "object", hash |-> h])
  /\ Notes("object")
  /\ UNCHANGED <<files, exportVars, destVars>>

\* Nor does nameHandler ask whether the object exists.
AppendName(l, h) ==
  /\ Len(log) < MaxLog
  /\ log' = Append(log, [op |-> "name", label |-> l, hash |-> h])
  /\ Notes("name")
  /\ UNCHANGED <<files, exportVars, destVars>>

\* Once the archive is complete nothing depends on the source any more; what it
\* does from then on is left out.
Source ==
  step \notin {"done", "failed"} /\ \E h \in Hashes :
    \/ Truncate(h)
    \/ Stashed(h)
    \/ AppendObject(h)
    \/ \E l \in Labels : AppendName(l, h)

-----------------------------------------------------------------------------
(* Export.                                                                 *)

\* A stash may be in progress when Export starts.
NotesStart ==
  disturbed' = IF \E h \in Hashes : files[h] = "partial" THEN {"stash"} ELSE {}

\* A full export has no set of hashes to compute.
StartFull ==
  /\ step = "idle"
  /\ step' = "walk"
  /\ NotesStart
  /\ UNCHANGED <<sourceVars, shared, stack, visited, walked, archive, destVars>>

\* Mutant: the log is walked forwards, to the oldest entry of the name.
ResolveOldest(l) ==
  /\ step = "idle"
  /\ NameEntries(log, l) # {}
  /\ shared' = l
  /\ step' = "traverse"
  /\ \E k \in NameEntries(log, l) :
       /\ \A j \in NameEntries(log, l) : k <= j
       /\ stack' = <<log[k].hash>>
  /\ NotesStart
  /\ UNCHANGED <<sourceVars, visited, walked, archive, destVars>>

\* reachableHashes: the most recent entry of the name, or an error.
Resolve(l) ==
  /\ step = "idle"
  /\ shared' = l
  /\ IF NameEntries(log, l) = {}
       THEN step' = "failed" /\ UNCHANGED stack
       ELSE step' = "traverse" /\ stack' = <<Latest(log, l)>>
  /\ NotesStart
  /\ UNCHANGED <<sourceVars, visited, walked, archive, destVars>>

\* Mutant: only the first member of a collection is followed.
FirstRef(h) == IF files[h] = "whole" /\ Content[h] # <<>> THEN <<Head(Content[h])>> ELSE <<>>

\* What traverse reads of a file.
Refs(h) == IF files[h] = "whole" THEN Content[h] ELSE <<>>

\* One call of traverse: it returns at once on a visited hash, fails on a
\* missing object, and otherwise goes on with what the object refers to.
Traverse ==
  /\ step = "traverse"
  /\ stack # <<>>
  /\ LET h == Head(stack) IN
       CASE h \in visited ->
              stack' = Tail(stack) /\ UNCHANGED <<step, visited>>
         [] h \notin visited /\ files[h] = "absent" ->
              step' = "failed" /\ UNCHANGED <<stack, visited>>
         [] OTHER ->
              /\ visited' = visited \cup {h}
              /\ stack' = Refs(h) \o Tail(stack)
              /\ UNCHANGED step
  /\ UNCHANGED <<sourceVars, shared, walked, archive, destVars, disturbed>>

Traversed ==
  /\ step = "traverse"
  /\ stack = <<>>
  /\ step' = "walk"
  /\ UNCHANGED <<sourceVars, shared, stack, visited, walked, archive, destVars, disturbed>>

Wanted == IF shared = NoLabel THEN Hashes ELSE visited

\* filepath.Walk records every wanted object with the size of its file.
Walk ==
  /\ step = "walk"
  /\ walked' = [h \in Hashes |-> IF h \in Wanted THEN files[h] ELSE "absent"]
  /\ step' = "copy"
  /\ UNCHANGED <<sourceVars, shared, stack, visited, archive, destVars, disturbed>>

\* writeFile: the header has the size Walk saw; a file of another size by now
\* makes the tar writer fail.
Copy(h) ==
  /\ step = "copy"
  /\ walked[h] # "absent"
  /\ archive.objects[h] = "absent"
  /\ IF files[h] = walked[h]
       THEN archive' = [archive EXCEPT !.objects[h] = files[h]] /\ UNCHANGED step
       ELSE step' = "failed" /\ UNCHANGED archive
  /\ UNCHANGED <<sourceVars, shared, stack, visited, walked, destVars, disturbed>>

\* Mutant: object entries are not filtered.
RelevantNames(e) == e.op = "object" \/ e.label = shared

\* What filterLog keeps: the entries of exported objects and of the exported name.
Relevant(e) ==
  IF e.op = "object" THEN e.hash \in visited ELSE e.label = shared

\* The result of filterLog's loop over the entries.
FilterLog(L) ==
  LET result[k \in 0..Len(L)] ==
        IF k = 0 THEN <<>>
        ELSE IF Relevant(L[k]) THEN Append(result[k - 1], L[k]) ELSE result[k - 1]
  IN result[Len(L)]

\* The log is read a second time, after the objects were copied.
ReadLog ==
  /\ step = "copy"
  /\ \A h \in Hashes : walked[h] # "absent" => archive.objects[h] # "absent"
  /\ archive' = [archive EXCEPT !.log =
       IF shared = NoLabel THEN log ELSE FilterLog(log)]
  /\ step' = "done"
  /\ UNCHANGED <<sourceVars, shared, stack, visited, walked, destVars, disturbed>>

Export ==
  \/ StartFull \/ (\E l \in Labels : Resolve(l))
  \/ Traverse \/ Traversed
  \/ Walk \/ (\E h \in Hashes : Copy(h))
  \/ ReadLog

-----------------------------------------------------------------------------
(* Import, at a destination with objects of its own.                       *)

\* A stash at the destination, by a server that is not interrupted.
DestStash(h) ==
  /\ step = "done"
  /\ destFiles[h] = "absent"
  /\ destFiles' = [destFiles EXCEPT ![h] = "whole"]
  /\ UNCHANGED <<sourceVars, exportVars, import, imports, destLog, disturbed>>

StartImport ==
  /\ step = "done"
  /\ import \in {"idle", "done", "failed"}
  /\ imports < MaxImports
  /\ imports' = imports + 1
  /\ import' = "objects"
  /\ UNCHANGED <<sourceVars, exportVars, destFiles, destLog, disturbed>>

\* An object whose file exists is skipped, so it is copied at most once.
ImportObject(h) ==
  /\ import = "objects"
  /\ archive.objects[h] # "absent"
  /\ destFiles[h] = "absent"
  /\ destFiles' = [destFiles EXCEPT ![h] = archive.objects[h]]
  /\ UNCHANGED <<sourceVars, exportVars, import, imports, destLog, disturbed>>

\* A write fails; the objects unpacked so far stay, the log is not merged.
ImportFails ==
  /\ import = "objects"
  /\ import' = "failed"
  /\ UNCHANGED <<sourceVars, exportVars, imports, destFiles, destLog, disturbed>>

\* prefixNameLabels: names move to the namespace of the source.
Prefixed(e) == IF e.op = "name" THEN [e EXCEPT !.label = <<"source", @>>] ELSE e

\* Mutant: the imported log becomes one element of the log.
MergeNested ==
  /\ import = "objects"
  /\ \A h \in Hashes : archive.objects[h] # "absent" => destFiles[h] # "absent"
  /\ destLog' = Append(destLog, archive.log)
  /\ import' = "done"
  /\ UNCHANGED <<sourceVars, exportVars, imports, destFiles, disturbed>>

\* Mutant: the log is merged before the objects are unpacked.
MergeEarly ==
  /\ import = "objects"
  /\ destLog' = destLog \o [k \in 1..Len(archive.log) |-> Prefixed(archive.log[k])]
  /\ import' = "done"
  /\ UNCHANGED <<sourceVars, exportVars, imports, destFiles, disturbed>>

\* mergeLog appends what the archive has, again if it is imported again.
MergeLog ==
  /\ import = "objects"
  /\ \A h \in Hashes : archive.objects[h] # "absent" => destFiles[h] # "absent"
  /\ destLog' = destLog \o [k \in 1..Len(archive.log) |-> Prefixed(archive.log[k])]
  /\ import' = "done"
  /\ UNCHANGED <<sourceVars, exportVars, imports, destFiles, disturbed>>

Import == StartImport \/ (\E h \in Hashes : ImportObject(h)) \/ ImportFails \/ MergeLog

Destination == Import \/ \E h \in Hashes : DestStash(h)

Next == Source \/ Export \/ Destination

Spec == Init /\ [][Next]_vars

-----------------------------------------------------------------------------
(* Properties.                                                             *)

States == {"absent", "partial", "whole"}

TypeOK ==
  /\ files \in [Hashes -> States]
  /\ log \in Seq(Entry)
  /\ step \in {"idle", "traverse", "walk", "copy", "done", "failed"}
  /\ shared \in Labels \cup {NoLabel}
  /\ stack \in Seq(Hashes)
  /\ visited \subseteq Hashes
  /\ walked \in [Hashes -> States]
  /\ archive \in [objects : [Hashes -> States], log : Seq(Entry)]
  /\ import \in {"idle", "objects", "done", "failed"}
  /\ imports \in 0..MaxImports
  /\ destFiles \in [Hashes -> States]
  /\ destLog \in Seq(Entry)
  /\ disturbed \subseteq {"stash", "object", "name"}

\* What can be reached from a hash: the smallest set that has it and is closed
\* under references.
Closed(S) == \A h \in S : \A k \in 1..Len(Content[h]) : Content[h][k] \in S
Reachable(root) == {h \in Hashes : \A S \in SUBSET Hashes : root \in S /\ Closed(S) => h \in S}

\* A name in log L leads only to objects that are whole in F.
Resolves(L, l, F) == \A h \in Reachable(Latest(L, l)) : F[h] = "whole"

\* traverse computes reachability, cycles and shared members included, as long
\* as no file is rewritten under it: visited is a subset of what the root
\* reaches and, with what the stack still leads to, all of it.
TraverseIsReachability ==
  step \in {"walk", "copy", "done"} /\ shared # NoLabel /\ "stash" \notin disturbed =>
    \E k \in NameEntries(log, shared) : visited = Reachable(log[k].hash)

\* Every object the archived log records is in the archive: in a partial one
\* whatever the server does during the export, and in a full one ("Full export:
\* bundles all CAS objects and metadata log", docs/Hatcheck Development
\* Summary.md:119) when nothing was stashed or logged during the export, which
\* reads the log last.
ArchiveCoversLog ==
  step = "done" /\ (shared # NoLabel \/ disturbed = {}) =>
    \A k \in 1..Len(archive.log) :
      archive.log[k].op = "object" => archive.objects[archive.log[k].hash] # "absent"

\* "Partial export by name: traverses reachable objects from a named root"
\* (docs/Hatcheck Development Summary.md:120): the name the archive carries leads
\* only to objects the archive carries, when nothing was stashed or named during
\* the export, which reads the log once to resolve the name and once to copy it.
QuietArchiveResolves ==
  step = "done" /\ shared # NoLabel /\ disturbed = {}
    => Resolves(archive.log, shared, archive.objects)

\* After an import that succeeded, and after any number of repeated and of
\* interrupted ones, each imported name leads where it led in the archive, and
\* to objects that are whole if they were in the archive.
ImportedNamesResolve ==
  import = "done" =>
    \A l \in Labels : NameEntries(archive.log, l) # {} =>
      /\ Latest(destLog, <<"source", l>>) = Latest(archive.log, l)
      /\ Resolves(archive.log, l, archive.objects)
           => Resolves(destLog, <<"source", l>>, destFiles)
=============================================================================
