\* Calls of up to two rows, every answer shorter than, equal to or longer than the limit,
\* on a pool that two long prompts do not fit.
CONSTANTS
  NumBlocks = 6
  BlockSize = 2
  AudioToken = 2
  PadToken = 1
  EosIds = {0, 9}
  EosFill = 0
  Junk = 7
  MinPrefix = 1
  MaxCalls = 2
  Window = 100
  WindowInfer = 800
  AudioPad = 2
  MaxBatch = 2
  Stops <- MCStops
  Limits = {0, 2}
  Sides = {"right"}
  Builds <- MCBuilds
  Batches <- MCBatches
  NextToken <- MCNextToken
  Tokens <- MCTokens
  RequestIds <- MCRequestIds
SPECIFICATION Spec
INVARIANTS
  EachRowAsIfAlone
  CachesHoldTheirRows
  BlocksLeftByFailuresOnly
  PlaceholdersMatchAudio
CHECK_DEADLOCK FALSE
