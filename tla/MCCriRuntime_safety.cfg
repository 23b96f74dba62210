SPECIFICATION Spec
CONSTANTS
  Containers = {c1, c2}
  NoContainer = NoContainer
  Handlers = {h1, h2}
  Faults = {"cancel", "crash", "destroy", "exit", "load", "spawn"}
  MaxRemains = 1
SYMMETRY CriSymmetry
INVARIANTS
  TypeOK
  OneStarter
  RunningIsBacked
  ReadySandboxHasVm
  StartableHasRootfs
  RemovedLeavesNothing
  LiveVmHasHolder
PROPERTY ExitedIsFinal
CHECK_DEADLOCK FALSE
