CONSTANT
  MAXQUEENS = 6
SPECIFICATION FairSpec
INVARIANTS TypeOK OwnersExact SearchExact CountExact Answer
PROPERTY Terminates
CHECK_DEADLOCK FALSE
