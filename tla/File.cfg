SPECIFICATION Spec
CONSTANTS
  short = short
  long = long
  Writers = {w1, w2}
  Restorers = {r1}
  Peekers = {k1}
  Payloads = {short, long}
  RawLen <- MCRawLen
  Length <- MCLength
  MaxLen = 6
  SizeMod = 8
  Foreign = Foreign
  OldVersion = OldVersion
  Garbage = Garbage
  NoPayload = NoPayload
CONSTRAINT OneReader
SYMMETRY WriterSymmetry
INVARIANTS TypeOK DoneIsOnDisk UndisturbedRead PeekSizeIsSound
PROPERTY ImplementsSafeRegister
CHECK_DEADLOCK FALSE
