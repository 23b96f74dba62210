SPECIFICATION Spec
CONSTANTS
  Users = {u1, u2}
  Monitor = Monitor
  Nobody = Nobody
  Pids = {p1, p2}
  NoPid = NoPid
  Commands = {"start", "stop", "term", "pause", "unpause", "restart", "rm_force"}
  Policies <- PolicyChoices
  Retries = 1
  Faults = {"write"}
SYMMETRY CliSymmetry
INVARIANTS
  TypeOK
  OneVm
  LiveVmIsTracked
  TeardownSparesLiveVm
  RestartBudget
  NobodyWaitsForItself
CHECK_DEADLOCK FALSE
