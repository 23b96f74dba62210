SPECIFICATION FairSpec
CONSTANTS
  OperationIds = {c, r1}
  CreationId = c
  RestartOptions = {o1}
  SnapshotIds = {s1}
  PausePolicies = {TRUE, FALSE}
  FaultKinds = {"crash", "error", "slow"}
  MaxFaults = 2
  MaxGeneration = 3
PROPERTIES
  OperationsReturn
  ClaimsResolve
CHECK_DEADLOCK FALSE
