SPECIFICATION Spec
CONSTANTS
  short = short
  long = long
  Writers = {w1}
  Restorers = {r1}
  Peekers = {}
  Payloads = {short, long}
  RawLen <- MCRawLen
  Length <- MCLength
  MaxLen = 6
  SizeMod = 4
  Foreign = Foreign
  OldVersion = OldVersion
  Garbage = Garbage
  NoPayload = NoPayload
INVARIANT CompleteSnapshotIsReadable
CHECK_DEADLOCK FALSE
