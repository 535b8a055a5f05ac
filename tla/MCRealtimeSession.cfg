SPECIFICATION Spec
CONSTANTS
    ChunkBytes = 4
    AppendSizes = {1, 5, 8}
    MaxBytes = 14
    MaxMessages = 4
INVARIANTS
    ChunksAreTheAudio
    FinalTextOnce
CHECK_DEADLOCK FALSE
