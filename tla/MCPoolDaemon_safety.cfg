SPECIFICATION Spec
CONSTANTS
  VMs = {v1, v2, v3}
  MaxSize = 2
  MinIdle = 1
  MaxMinIdle = 2
  Losses = {"unready", "disconnect"}
  Tasks = {t1, t2}
  LeaseIds = {l1, l2}
  NoVm = NoVm
  NoLease = NoLease
SYMMETRY PoolSymmetry
INVARIANTS
  TypeOK
  VmHasOneOwner
  InUseWithinPermits
  CommandsOutliveReaper
  DrainedPoolStaysEmpty
CHECK_DEADLOCK FALSE
