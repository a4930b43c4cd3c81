SPECIFICATION Spec
CONSTANTS
  Tools = {t1, t2}
  MaxVersion = 2
  MayStop = TRUE
INVARIANTS TypeOK LostOnlyWhenSpoiled
PROPERTY RestoreGivesBack
CHECK_DEADLOCK FALSE
