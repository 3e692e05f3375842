SPECIFICATION FairSpec
CONSTANTS
  p1 = p1
  p2 = p2
  k1 = k1
  k2 = k2
  garbled = garbled
  Paths <- MCPaths
  Values <- MCValues
  Garbled = garbled
  Contents <- MCContents
  Period = 2
  MaxEdits = 2
PROPERTY Refreshes
