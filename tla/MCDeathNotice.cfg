CONSTANTS
  Thread = {l1, l2, c1}
  Loopers = {l1, l2}
  Exiting = {}
  NoThread = NoThread
  MaxLinks = 3
  MayExit = FALSE
SPECIFICATION FairSpec
CHECK_DEADLOCK FALSE
INVARIANTS
  WeakCountExact
PROPERTIES
  ImplementsDeathNotice
  DroppedProxyIsDestroyed
