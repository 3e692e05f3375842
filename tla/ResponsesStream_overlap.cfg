SPECIFICATION Spec
CONSTANTS
  tool = tool
  echo = echo
  nothing = nothing
  Tool = tool
  Echo = echo
  NoItem = nothing
  Pieces <- MCPieces
  BlockedArgs <- MCBlockedArgs
  FlaggedArgs <- MCFlaggedArgs
  Replies <- PairReplies
  Overlapping = TRUE
INVARIANTS
  JudgedIndependently
