SPECIFICATION Spec
CONSTANTS
  Tids = {1, 2, 3, 4}
  MaxBorn = 3
INVARIANT MatchedByCreationOrder
CHECK_DEADLOCK FALSE
