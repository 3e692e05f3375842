SPECIFICATION Spec
CONSTANTS
  tool = tool
  echo = echo
  nothing = nothing
  Tool = tool
  Echo = echo
  NoItem = nothing
  Pieces <- MCPieces
  BlockedArgs <- MCBlockedArgs
  FlaggedArgs <- MCFlaggedArgs
  Replies <- MainReplies
  Overlapping = FALSE
INVARIANTS
  Inv
  OthersInOrder
  ClientViewsAgree
  CompletedAgrees
  RowsComplete
PROPERTIES
  GateSpec
