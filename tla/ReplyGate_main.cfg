SPECIFICATION Spec
CONSTANTS
  Text = Text
  Echo = Echo
  Calls <- MCCalls
  BlockedArgs <- MCBlocked
  FlaggedArgs <- MCFlagged
  Replies <- MCReplies
INVARIANTS
  CallsAsJudged
  FinishFits
  OtherKept
  Inv
