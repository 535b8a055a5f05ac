SPECIFICATION DecodeSpec
CONSTANTS
    NumBlocks = 10
    BlockSize = 2
    RequestIds <- MCRequests
    Prompts = {3, 4}
    MaxLen = 6
    Prewarms = {0, 1, 4, 5}
    BucketTokens = 2
    CaptureLimit = 32
    MaxGraphs = 7
    MaxErrors = 1
INVARIANTS
    RowsSeeThemselves
    CacheSound
    BucketsCover
CHECK_DEADLOCK FALSE
