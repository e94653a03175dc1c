SPECIFICATION FairSpec
CONSTANTS
  N = 2
  simQuantum = 2
  WorkDelay = 2
  StartTick = 0
  Limits = {1, 5}
  MaxCalls = 2
  MaxOps = 1
CHECK_DEADLOCK FALSE
INVARIANTS TotalOrder ProcessAlone InTime QuietReturn
PROPERTY SimulateReturns
