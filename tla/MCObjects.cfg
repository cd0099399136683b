CONSTANTS
  Nodes = {n1}
  n1 = n1
  MaxFd = 2
  FdSize = 2
  PtrSize = 4
  ExtraSizes <- MCExtraSizes
  Lengths <- MCLengths
  Offsets <- MCOffsets
  Counts <- MCCounts
  MaxObjects = 3
  MaxKept = 2
SPECIFICATION Spec
CHECK_DEADLOCK FALSE
INVARIANTS
  NothingLeaks
  FixupsStand
PROPERTY
  OwnFilesAreKept
