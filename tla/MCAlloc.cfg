CONSTANTS
  Size = 40
  PageSize = 8
  Header = 6
  Word = 2
  Slack = 1
  Wrap = 64
  Requests <- MCRequests
SPECIFICATION Spec
CHECK_DEADLOCK FALSE
INVARIANTS
  BuffersFit
  PagesExact
  AsyncSpaceExact
  TreeIsOrdered
  NoBugOn
