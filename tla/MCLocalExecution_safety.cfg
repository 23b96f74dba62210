SPECIFICATION Spec
CONSTANTS
  OperationIds = {c, r1, r2}
  CreationId = c
  RestartOptions = {o1, o2}
  SnapshotIds = {s1, s2}
  PausePolicies = {TRUE, FALSE}
  FaultKinds = {"crash", "error", "slow"}
  MaxFaults = 3
  MaxGeneration = 3
SYMMETRY IdentitySymmetry
INVARIANTS
  TypeOK
  RecordConsistent
  DecisionsAreLegal
  TrackedRuntimeHasLiveRecord
  RemoveNeverKills
  StoppedReleasesResources
  RecordAgreesWithRuntime
PROPERTIES
  RestartReplacesRuntime
  ImplementsLifecycle
  ColdPauseKeepsRootfs
CHECK_DEADLOCK FALSE
