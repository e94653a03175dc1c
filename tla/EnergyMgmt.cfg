SPECIFICATION Spec
CONSTANTS
  Objects = {cpu, vdev}
  Machines = {"Simple", "TwoThres", "DVFS", "DFS_LRY"}
  Energies <- EnergyLevels
  Consumptions = {50}
  Thres <- Thresholds
  MaxConsumed = 100
  MaxPending = 3
INVARIANTS ChainIntact EventIffPending Settles
PROPERTY ToldInTick
