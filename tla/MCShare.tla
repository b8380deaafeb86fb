------------------------------ MODULE MCShare ------------------------------
(* Small instances of Share for TLC. *)
EXTENDS Share

CONSTANTS leaf, list, link

\* A collection with its member twice, and a relation from the member to the
\* collection: shared references, three levels deep.
MCContent == leaf :> <<>> @@ list :> <<leaf, leaf>> @@ link :> <<leaf, list>>
MCHashes  == {leaf, list, link}
=============================================================================
