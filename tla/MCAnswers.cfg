CONSTANTS
  A = A
  B = B
  C = C
  a1 = a1
  b1 = b1
  b2 = b2
  c1 = c1
  NoThread = NoThread
  NoProc = NoProc
  ProcOf <- MCProcOf
  Proc = {A, B}
  Thread = {a1, b1, b2}
  Handles <- Pair
  MaxCalls = 3
  Kinds = {"sync", "oneway"}
  Mortal = {B}
  Exiting = {}
  Unruly = {}
  Loopers = {b1, b2}
SPECIFICATION FairSpec
CHECK_DEADLOCK FALSE
INVARIANTS
  OneAsyncAtATime
PROPERTIES
  OnewayInOrder
  EveryOnewayArrives
  EveryCallIsAnswered
