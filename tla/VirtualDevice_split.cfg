CONSTANTS
  Dev = {d1}
  ClockPeriod = 2
  TickPerCycle = 2
  DelaySet = 3
  DelayCpuInterrupt = 3
  DataBandwidth = 2
  PacketSizes = {4}
  RunCycles = {0, 2}
  Counters = {0}
  OutputCounter = 10
  Drains = FALSE
SPECIFICATION Spec
INVARIANT BandwidthPaid
