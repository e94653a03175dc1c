\* The devices share the clock of the CPU, and DelaySet is no multiple of its
\* period: no interrupt falls on a clock edge of the CPU (see the README).
CONSTANTS
  Dev = {d1}
  Peri = d1
  ClockPeriod = 3
  TickPerCycle = 3
  DelaySet = 4
  DelayCpuInterrupt = 4
  DataBandwidth = 2
  PacketSizes = {2, 4}
  RunCycles = {1, 3}
  Counters = {0, 1, 2, 3, 4, 5, 6, 7, 8, 9, 10}
  OutputCounter = 10
  Drains = TRUE
  Batch = 2
  CopyAccesses = 2
SPECIFICATION DriverFairSpec
INVARIANTS DriverTypeOK QuietDevice ResultsCorrect ProgramSafe
PROPERTY Terminates
CHECK_DEADLOCK FALSE
