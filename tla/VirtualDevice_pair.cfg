CONSTANTS
  Dev = {d1, d2}
  ClockPeriod = 2
  TickPerCycle = 3
  DelaySet = 3
  DelayCpuInterrupt = 3
  DataBandwidth = 1
  PacketSizes = {1, 4}
  RunCycles = {0, 1, 4}
  Counters = {0, 10}
  OutputCounter = 10
  Drains = FALSE
SPECIFICATION FairSpec
INVARIANTS TypeOK WorkingConsistent FinishTruthful InterruptSafe HandlerTimePaid
PROPERTIES JobCompletes JobFairSpec
