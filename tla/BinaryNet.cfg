SPECIFICATION Spec
CONSTANTS
  Size = 5
  Inputs = 4
  Hidden1 = 1
  Hidden2 = 2
  Classes = 2
  Fc1Row = 2
  Fc2Row = 3
  Models <- SomeModels
  Pictures <- Binary
  BatchNorms <- Norms
  NoNorm <- Zeros
  Output <- DotProduct
INVARIANTS ActivationsRight LabelRight
