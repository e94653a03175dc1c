SPECIFICATION Spec
CONSTANTS
  a = a
  b = b
  c = c
  d = d
  Events = {a, b, c, d}
  NULL = NULL
  Priority <- Priorities
  AutoDelete = {d}
  MaxTick = 1
SYMMETRY Alike
INVARIANTS ScheduledOnce NeverPanics NothingLate
PROPERTY ListSpec
