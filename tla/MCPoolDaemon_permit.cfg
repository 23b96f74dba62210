SPECIFICATION Spec
CONSTANTS
  VMs = {v1, v2, v3}
  MaxSize = 1
  MinIdle = 0
  MaxMinIdle = 1
  Losses = {"disconnect"}
  Tasks = {t1, t2}
  LeaseIds = {l1}
  NoVm = NoVm
  NoLease = NoLease
INVARIANT
  InUseWithinMax
CHECK_DEADLOCK FALSE
