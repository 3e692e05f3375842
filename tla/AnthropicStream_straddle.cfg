SPECIFICATION Spec
CONSTANTS
  none = none
  echo = echo
  nothing = nothing
  NoArg = none
  Echo = echo
  NoBlock = nothing
  Pieces <- MCPieces
  BlockedArgs <- MCBlockedArgs
  FlaggedArgs <- MCFlaggedArgs
  Events <- TextEvents
  Straddling = {"delta"}
  MaxBlocks = 2
  MaxEvents = 4
  MaxPings = 1
INVARIANT BytesPassThrough
