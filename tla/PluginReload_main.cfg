SPECIFICATION PluginSpec
CONSTANTS
  v1 = v1
  v2 = v2
  broken = broken
  cut = cut
  gone = gone
  Good <- MCGood
  Bad <- MCBad
  Cut = cut
  Absent = gone
  Initial = v1
  BuiltIn = builtin
  Debounce = 1
  Period = 1
  MaxEdits = 4
  MaxExports = 2
INVARIANTS
  LastGoodStays
  UpToDate
PROPERTIES
  Converges
