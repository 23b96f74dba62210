--------------------------- MODULE MCCliLifecycle ---------------------------
(* CliLifecycle for TLC: processes and shim identities are interchangeable. *)
EXTENDS CliLifecycle, TLC

\* A limit of one restart and the limit of none.
PolicyChoices == {[kind |-> "always", max |-> 1], [kind |-> "on-failure:N", max |-> 0]}

CliSymmetry == Permutations(Users) \cup Permutations(Pids)
=============================================================================
