------------------------ MODULE MCCapabilityService ------------------------
(* Small instances of CapabilityService for TLC. *)
EXTENDS CapabilityService, TLC

CONSTANTS h1, alice, root

UserGrant  == [hash |-> h1, perm |-> "write", principal |-> alice]
LoginGrant == [hash |-> AnyHash, perm |-> "read", principal |-> alice]
AdminGrant == [hash |-> AnyHash, perm |-> "admin", principal |-> root]

OneUser       == {UserGrant}
AdminAndLogin == {LoginGrant, AdminGrant}

\* No content has a tag.
NoTagsOf == [h \in Hashes |-> {}]

\* Requests are told apart by nothing but what they are doing.
RequestSymmetry == Permutations(Requests)
=============================================================================
