\* The devices share the clock of the CPU, and DelaySet is no multiple of its
\* period: no interrupt falls on a clock edge of the CPU (see the README).
CONSTANTS
  Dev = {d1, d2}
  ClockPeriod = 3
  TickPerCycle = 3
  DelaySet = 4
  DelayCpuInterrupt = 4
  DataBandwidth = 2
  PacketSizes = {4}
  RunCycles = {0, 2}
  Counters = {0, 10}
  OutputCounter = 10
  Drains = TRUE
SPECIFICATION FairSpec
INVARIANT InterruptSafe
PROPERTIES JobCompletes CpuTicksAgain
