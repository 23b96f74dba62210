SPECIFICATION Spec
CONSTANTS
  Users = {u1}
  Monitor = Monitor
  Nobody = Nobody
  Pids = {p1, p2}
  NoPid = NoPid
  Commands = {"start", "stop", "term", "pause", "unpause", "restart", "rm_force"}
  Policies <- PolicyChoices
  Retries = 1
  Faults = {}
PROPERTY MonitorRespectsStop
CHECK_DEADLOCK FALSE
