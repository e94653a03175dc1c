CONSTANTS
  Dev = {d1}
  ClockPeriod = 3
  TickPerCycle = 2
  DelaySet = 0
  DelayCpuInterrupt = 4
  DataBandwidth = 2
  PacketSizes = {4}
  RunCycles = {0, 2}
  Counters = {0}
  OutputCounter = 10
  Drains = TRUE
SPECIFICATION Spec
INVARIANT InterruptSafe
