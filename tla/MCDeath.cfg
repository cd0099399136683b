CONSTANTS
  Thread = {l1, l2, c1}
  Loopers = {l1, l2}
  Exiting = {l2}
  NoThread = NoThread
  MaxLinks = 4
  MayExit = TRUE
SPECIFICATION Spec
CHECK_DEADLOCK FALSE
INVARIANTS
  NoBugOn
  DriverAgrees
  ProxyOutlivesItsDeaths
  DeathFreedOnce
  DoneFindsItsDeath
