SPECIFICATION Spec
CONSTANTS
  N = 2
  simQuantum = 2
  WorkDelay = 3
  StartTick = 0
  Limits = {3, 5}
  MaxCalls = 2
  MaxOps = 1
CHECK_DEADLOCK FALSE
INVARIANT TotalOrder
