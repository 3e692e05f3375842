SPECIFICATION Spec
CONSTANTS
  s1 = s1
  s2 = s2
  key = key
  maker = maker
  reseller = reseller
  NoBase = nobase
  NoRow = norow
  Sessions <- MCSessions
  Keys = {key}
  Bases = {maker, reseller}
  FirstParty = {maker}
  Windows = {0, 1}
  Margin = 1
  MaxTime = 2
  MaxRequests = 3
INVARIANTS
  NamesNextUpstream
  NoFalseAlarm
CHECK_DEADLOCK FALSE
SYMMETRY MCSymmetry
