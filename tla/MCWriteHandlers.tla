-------------------------- MODULE MCWriteHandlers --------------------------
(* Small instances of WriteHandlers for TLC. *)
EXTENDS WriteHandlers

CONSTANTS alice

\* Each object is recorded for one creator.
MCCapabilities == {[id |-> h, hash |-> h, principal |-> alice] : h \in Hashes}

NoTagsOf == [h \in Hashes |-> {}]
=============================================================================
