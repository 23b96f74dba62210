SPECIFICATION Spec
CONSTANTS
  Requests = {r1, r2}
  Supervisor = supervisor
  Free = free
  NoRecord = none
  Ops = {"create", "connect", "pause", "timeout", "kill"}
  Faults = {"crash", "cancel", "exit", "envd", "slow", "error", "stuck"}
  MaxGeneration = 5
SYMMETRY RequestSymmetry
INVARIANTS
  TypeOK
  RecordsReadBack
  KilledDoesNotRun
  FencedStateIsTrue
  TerminalLeavesNoRuntime
PROPERTIES
  ManagerKeepsItsPromise
CHECK_DEADLOCK FALSE
