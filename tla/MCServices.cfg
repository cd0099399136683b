CONSTANTS
  s1 = s1
  s2 = s2
  a = a
  b = b
  Name = {a, b}
  Service = {s1, s2}
  Client = {c1}
  Units <- MCUnits
  Permitted <- MCPermitted
  NoName = NoName
  NoService = NoService
  MaxAdds = 3
  MaxTries = 2
  MaxLists = 1
SPECIFICATION FairSpec
CHECK_DEADLOCK FALSE
INVARIANTS
  RegistryHoldsItsHandles
  ListingIsComplete
PROPERTIES
  DeadServiceIsForgotten
