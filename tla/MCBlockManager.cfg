CONSTANTS
  NumBlocks = 4
  BlockSize = 2
  MaxTokens <- MCMaxTokens
  r1 = r1
  r2 = r2
  RequestIds <- MCRequestIds
  NoRequest = NoRequest
SPECIFICATION Spec
INVARIANTS
  EveryBlockInOnePlace
  KvSlotsNeverAlias
PROPERTIES
  KvSlotsStay
  ImplementsPool
