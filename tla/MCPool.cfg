CONSTANTS
  Mains = {m1}
  Pooled = {p1, p2}
  Volunteers = {v1}
  Clients = {c1}
  MaxThreads = 1
  Resizes = {0, 2}
  JoinsFirst = TRUE
  MaxWork = 3
SPECIFICATION Spec
SYMMETRY PooledSymmetry
INVARIANTS TypeOK ReadyIsExact CountersBounded NoLostWakeup
