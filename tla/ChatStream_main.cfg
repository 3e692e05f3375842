SPECIFICATION FairSpec
CONSTANTS
  c0 = c0
  usage = usage
  none = none
  echo = echo
  ChoiceIds = {c0}
  NoChoice = usage
  NoArg = none
  Echo = echo
  Indices <- MCIndices
  Pieces <- MCPieces
  BlockedArgs <- MCBlockedArgs
  FlaggedArgs <- MCFlaggedArgs
  Shapes <- MainShapes
  MaxChunks = 3
  MaxKeepalives = 1
INVARIANTS
  Inv
  NoBlockedCallDelivered
  ClientAssemblesVerdict
  TextKept
  FinishDelivered
  FinishMatchesCalls
  NoteDelivered
  LedgerComplete
PROPERTIES
  ClosedStaysClosed
  GateSpec
  Terminates
