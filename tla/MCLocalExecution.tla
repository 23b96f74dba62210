-------------------------- MODULE MCLocalExecution --------------------------
(***************************************************************************)
(* LocalExecution for TLC. The restart identities and the snapshot         *)
(* identities are interchangeable: the code only compares them.            *)
(***************************************************************************)
EXTENDS LocalExecution, TLC

IdentitySymmetry ==
    Permutations(OperationIds \ {CreationId}) \cup Permutations(SnapshotIds)

=============================================================================
