----------------------------- MODULE MCPathCopy -----------------------------
(* Small instances of PathCopy for TLC. *)
EXTENDS PathCopy, TLC

CONSTANTS a, b, note, book, home, other

\* A book of a chapter and a text, and in another namespace a document of one text.
MCNames == [n \in Spaces |-> [l \in Labels |->
  CASE n = other /\ l = note -> Text(a)
    [] n = home /\ l = book -> Collection(<<Collection(<<Text(a), Text(b)>>), Text(b)>>)
    [] OTHER -> NoObject]]

\* A text that has a name in one of the namespaces.
MCLinked == {Text(a)}

SaveSymmetry == Permutations(Saves)
=============================================================================
