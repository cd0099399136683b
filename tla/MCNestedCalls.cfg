CONSTANTS
  A = A
  B = B
  C = C
  a1 = a1
  b1 = b1
  b2 = b2
  c1 = c1
  NoThread = NoThread
  NoProc = NoProc
  ProcOf <- MCProcOf
  Proc = {A, B, C}
  Thread = {a1, b1, c1}
  Handles <- Ring
  MaxCalls = 3
  Kinds = {"sync"}
  Mortal = {C}
  Exiting = {b1}
  Unruly = {c1}
  Loopers = {}
SPECIFICATION Spec
CHECK_DEADLOCK FALSE
INVARIANTS
  NoBugOn
  EveryCallHasAnAnswerer
  NoDanglingPointer
  SleepersAreIdle
PROPERTIES
  CallerIsTold
