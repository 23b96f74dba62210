SPECIFICATION FairSpec
CONSTANTS
  Requests = {r1}
  Supervisor = supervisor
  Free = free
  NoRecord = none
  Ops = {"create", "connect", "pause", "timeout"}
  Faults = {"crash", "envd", "slow"}
  MaxGeneration = 6
PROPERTIES
  InterruptedWorkIsFinished
CHECK_DEADLOCK FALSE
