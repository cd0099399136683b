CONSTANTS
  Thread = {t1, t2}
  Node = {n1, n2}
  Proxy = {p1, p2}
  None = None
  MaxHandle = 2
  MaxSends = 2
  MaxOut = 2
SPECIFICATION Spec
SYMMETRY Symmetry
CHECK_DEADLOCK FALSE
INVARIANTS
  OneProxyPerHandle
  ReferencesAgree
