------------------------------ MODULE EventLog ------------------------------
(***************************************************************************)
(* What the metadata store promises its callers (SETUP.md, "Metadata Log"):*)
(* an append-only sequence of events.  An event whose append was           *)
(* acknowledged is at its position for good; events that were only         *)
(* attempted may disappear when the process dies, and only from the end.   *)
(* The promise ends when the log is lost, which the store cannot rule out  *)
(* because it rewrites the file in place.                                  *)
(***************************************************************************)
EXTENDS Naturals, Sequences

CONSTANT Event

VARIABLES
  events,   \* the log
  kept,     \* <<position, event>> of the acknowledged events
  lost      \* the file cannot be loaded any more

vars == <<events, kept, lost>>

Init ==
  /\ events = <<>>
  /\ kept = {}
  /\ lost = FALSE

\* An append is attempted.
Attempt ==
  /\ ~lost
  /\ \E e \in Event : events' = Append(events, e)
  /\ UNCHANGED <<kept, lost>>

\* The caller of the latest append is told that it succeeded.
Keep ==
  /\ ~lost
  /\ events # <<>>
  /\ kept' = kept \cup {<<Len(events), events[Len(events)]>>}
  /\ UNCHANGED <<events, lost>>

\* The process dies: events at the end that were not acknowledged may go.
Forget ==
  /\ ~lost
  /\ \E n \in 0..Len(events) :
       /\ \A k \in kept : k[1] <= n
       /\ events' = SubSeq(events, 1, n)
  /\ UNCHANGED <<kept, lost>>

\* The process dies while the file is truncated.
Lose ==
  /\ ~lost
  /\ events' = <<>>
  /\ lost' = TRUE
  /\ UNCHANGED kept

Next == Attempt \/ Keep \/ Forget \/ Lose

Spec == Init /\ [][Next]_vars

-----------------------------------------------------------------------------
\* An acknowledged event stays where it was put until the log is lost.
KeptForGood ==
  ~lost => \A k \in kept : k[1] \in 1..Len(events) /\ events[k[1]] = k[2]
=============================================================================
