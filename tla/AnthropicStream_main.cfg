SPECIFICATION FairSpec
CONSTANTS
  none = none
  echo = echo
  nothing = nothing
  NoArg = none
  Echo = echo
  NoBlock = nothing
  Pieces <- MCPieces
  BlockedArgs <- MCBlockedArgs
  FlaggedArgs <- MCFlaggedArgs
  Events <- MainEvents
  Straddling = {"tool_start", "stop"}
  MaxBlocks = 2
  MaxEvents = 5
  MaxPings = 1
INVARIANTS
  Inv
  NoBlockedCallDelivered
  ClientAssemblesVerdict
  BlocksWellFormed
  StopReason
  PassThrough
PROPERTIES
  GateSpec
  Terminates
