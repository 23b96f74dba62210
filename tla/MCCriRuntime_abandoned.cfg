SPECIFICATION Spec
CONSTANTS
  Containers = {c1}
  NoContainer = NoContainer
  Handlers = {h1, h2}
  Faults = {"cancel"}
  MaxRemains = 1
INVARIANT AbandonedRunIsUndone
CHECK_DEADLOCK FALSE
