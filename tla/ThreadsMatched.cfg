SPECIFICATION Spec
CONSTANTS
  Tids = {1, 2, 3, 4}
  MaxBorn = 3
INVARIANTS TypeOK CapturesAreOwn NoContextTwice MatchedUnlessDisturbed
CHECK_DEADLOCK FALSE
