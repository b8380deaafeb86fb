-------------------------- MODULE MCMetadataStore --------------------------
(* Small instances of MetadataStore and of its queries for TLC. *)
EXTENDS MetadataQueries, TLC

CONSTANTS h1, h2, l1, l2, t1, c1, c2, p1

\* Two payloads with one ID, the same grant issued twice within a second, and a
\* bearer capability.
MCCapabilities == {[id |-> "i", principal |-> p1, seq |-> c1],
                   [id |-> "i", principal |-> p1, seq |-> c2],
                   [id |-> "j", principal |-> Nobody, seq |-> c1]}

MCTagsOf == (h1 :> {t1}) @@ (h2 :> {})

MCToLower == [s \in {"idea", "Idea"} |-> t1]

\* One label is in a namespace, the other in a namespace of that namespace.
MCPathOf == (l1 :> <<"bob", "doc">>) @@ (l2 :> <<"bob", "alice", "doc">>)
=============================================================================
