CONSTANTS
  Thread = {o1, o2}
  Holder = {h1, h2}
  Mortal = {h2}
  Unruly = {}
  NoThread = NoThread
  MaxSends = 2
  MaxPasses = 1
  SendsMayFail = TRUE
  OwnerMayDie = TRUE
SPECIFICATION FairSpec
CHECK_DEADLOCK FALSE
INVARIANTS
  RemoteKeepsObject
  CountsAgree
PROPERTIES
  ObjectIsReleased
