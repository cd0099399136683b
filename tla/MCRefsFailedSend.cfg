CONSTANTS
  Thread = {o1, o2}
  Holder = {h1, h2}
  Mortal = {}
  Unruly = {}
  NoThread = NoThread
  MaxSends = 2
  MaxPasses = 1
  SendsMayFail = TRUE
  OwnerMayDie = FALSE
SPECIFICATION Spec
CHECK_DEADLOCK FALSE
INVARIANTS
  AcquireFindsObject
