SPECIFICATION Spec
CONSTANTS
  c0 = c0
  usage = usage
  none = none
  echo = echo
  ChoiceIds = {c0}
  NoChoice = usage
  NoArg = none
  Echo = echo
  Indices <- MCIndices
  Pieces <- MCPieces
  BlockedArgs <- MCBlockedArgs
  FlaggedArgs <- MCFlaggedArgs
  Shapes <- ParallelShapes
  MaxChunks = 3
  MaxKeepalives = 0
INVARIANT BlockedStaysBlocked
