SPECIFICATION ScanSpec
CONSTANTS
  Tokens <- MCTokens
  Secrets <- MCSecrets
  RuleLists <- MCRuleLists
  BuiltIn <- MCBuiltIn
  ToolCalls <- MCToolCalls
INVARIANTS
  FirstBlockWins
  
