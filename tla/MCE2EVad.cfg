SPECIFICATION VadSpec
CONSTANTS
    Window = 3
    ToSpeech = 2
    ToSilence = 2
    Lookback = 1
    Lookahead = 1
    EndSilence = 3
    MaxSegment = 6
    Shift = 2
    Length = 5
    ChunkSize = 6
    FeatChunk = 5
    PushSizes = {3, 6, 12}
    MaxFrames = 12
INVARIANTS
    SegmentsInOrder
    ChunkingInvisible
    SegmentsFollowSpeech
CHECK_DEADLOCK FALSE
