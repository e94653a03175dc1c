SPECIFICATION Spec
CONSTANTS
  Objects = {cpu, vdev}
  Machines = {"Simple"}
  Energies = {}
  Consumptions = {60}
  Thres <- Thresholds
  MaxConsumed = 120
  MaxPending = 3
INVARIANT Informed
