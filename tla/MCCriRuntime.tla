---------------------------- MODULE MCCriRuntime ----------------------------
(* CriRuntime for TLC: containers and calls are interchangeable.           *)
EXTENDS CriRuntime, TLC

CriSymmetry == Permutations(Containers) \cup Permutations(Handlers)
=============================================================================
