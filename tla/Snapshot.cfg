SPECIFICATION FairSpec
CONSTANTS
  Tools = {t1, t2, t3}
  NRegions = 1
  NThreads = 1
  MaxVersion = 1
  MaxKills = 1
INVARIANTS TypeOK CountMatchesGuards ConsistentCut WrittenIsComplete
PROPERTIES Thawed ImplementsAtomicSnapshot
CHECK_DEADLOCK FALSE
