SPECIFICATION FairSpec
CONSTANTS
  Pids = {1, 2}
  Top = 3
  MaxStarts = 2
INVARIANTS TypeOK OneProcess ReportIsWhole
PROPERTY ProfileEnds
CHECK_DEADLOCK FALSE
