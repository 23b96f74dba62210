------------------------- MODULE MCSandboxControl -------------------------
(* Instances of SandboxControl for TLC. *)
EXTENDS SandboxControl, TLC

\* Requests are interchangeable.
RequestSymmetry == Permutations(Requests)
===========================================================================
