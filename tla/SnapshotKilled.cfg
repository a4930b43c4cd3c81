SPECIFICATION Spec
CONSTANTS
  Tools = {t1}
  NRegions = 2
  NThreads = 1
  MaxVersion = 1
  MaxKills = 1
INVARIANT NeverLeftFrozen
CHECK_DEADLOCK FALSE
