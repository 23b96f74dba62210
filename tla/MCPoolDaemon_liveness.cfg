SPECIFICATION FairSpec
CONSTANTS
  VMs = {v1, v2}
  MaxSize = 1
  MinIdle = 0
  MaxMinIdle = 1
  Losses = {}
  Tasks = {t1, t2}
  LeaseIds = {l1}
  NoVm = NoVm
  NoLease = NoLease
PROPERTIES
  AbandonedLeasesReclaimed
  RequestsGetPermits
CHECK_DEADLOCK FALSE
