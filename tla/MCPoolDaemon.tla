---------------------------- MODULE MCPoolDaemon ----------------------------
(* TLC instance of PoolDaemon: tasks, leases and VMs are interchangeable.  *)
EXTENDS PoolDaemon

PoolSymmetry ==
    Permutations(Tasks) \cup Permutations(LeaseIds) \cup Permutations(VMs)
=============================================================================
