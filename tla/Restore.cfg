SPECIFICATION FairSpec
CONSTANTS
  Rounds = 3
  MaxWorkers = 2
  MaxOthers = 1
  MaxFaults = 2
INVARIANTS TypeOK CountIsShared FaultsShiftCount
PROPERTIES MainStandsStill RestoreEnds DoneRuns ImplementsHandOver
CHECK_DEADLOCK FALSE
