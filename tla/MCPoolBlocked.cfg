CONSTANTS
  Mains = {m1}
  Pooled = {p1, p2}
  Volunteers = {}
  Clients = {c1}
  MaxThreads = 2
  Resizes = {}
  JoinsFirst = FALSE
  MaxWork = 3
SPECIFICATION FairSpec
INVARIANTS RequestsMatch PoolGrows
PROPERTIES EveryWorkIsRead
