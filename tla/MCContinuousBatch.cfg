\* Two runs on a pool of six blocks, in which two sequences cannot both grow to the
\* limit, a prompt of 10 tokens fits only with nothing else in the pool, and one of
\* 11 tokens leaves no headroom at all.
CONSTANTS
  NumBlocks = 7
  BlockSize = 2
  MaxSeqs = 2
  MaxNew = 4
  MaxRuns = 2
  MaxBatch = 2
  Prompts = {3, 4, 10, 11}
  ShortPrompts = {3, 4}
  Stops = {0, 2, 5}
  ShortStops = {0, 2}
  RequestIds <- MCRequestIds
  Batches <- MCBatches
SPECIFICATION FairSpec
INVARIANTS
  EveryClientKeepsItsPlace
  BlocksFollowTheirSlots
  AdmissionIsExact
  WholeUnlessRefused
PROPERTIES
  RunsEndUnlessStarved
\* After the last run nobody calls.
CHECK_DEADLOCK FALSE
