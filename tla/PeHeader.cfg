SPECIFICATION Spec
CONSTANTS
  Files <- MCFiles
  Usize = 2000000000
  Lengths = {0, 63, 64, 66, 90, 91, 100, 158, 159, 160, 200}
  Lfanews = {0, 1, 60, 61, 64, 65, 104, 105, 160, 196, 197, 40000}
  Flags = {0, 63, 64, 96, 255}
INVARIANTS TypeOK IndexesInRange OnlyTheFlagChanges PatchedAgainIsTheSame
CHECK_DEADLOCK FALSE
