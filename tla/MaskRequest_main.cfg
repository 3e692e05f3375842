SPECIFICATION MaskSpec
CONSTANTS
  p1 = p1
  p2 = p2
  v1 = v1
  v2 = v2
  garbled = garbled
  Paths = {p1, p2}
  Values <- MCValues
  Garbled = garbled
  Contents <- MCContents
  Requests <- MCRequests
  Period = 1
  MaxEdits = 2
INVARIANTS
  NothingUnmasked
  PromisedNotSent
  CountsMatch
PROPERTIES
  CatchesUp
