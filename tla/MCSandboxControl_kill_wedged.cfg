SPECIFICATION FairSpec
CONSTANTS
  Requests = {r1, r2}
  Supervisor = supervisor
  Free = free
  NoRecord = none
  Ops = {"create", "pause", "kill"}
  Faults = {"crash"}
  MaxGeneration = 4
PROPERTIES
  InterruptedWorkIsFinished
CHECK_DEADLOCK FALSE
