SPECIFICATION AsyncSpec
CONSTANTS
    Pad = 1
    CoverGap = 1
    MergeGap = 2
    MergeMax = 6
    StageBuffer = 1
    MaxBatch = 2
    WaveCalls <- MCCalls
INVARIANTS
    RangesCoverSpeech
PROPERTIES
    AsCalled
    Returns
CHECK_DEADLOCK FALSE
