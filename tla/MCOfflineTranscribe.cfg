SPECIFICATION OfflineSpec
CONSTANTS
    MaxAsr = 6
    MaxAlign = 4
    SearchExpand = 3
    Win = 2
    MinLen = 3
    PromptBase = 2
    MaxSpread = 4
    Calls <- MCCalls
    Raws <- MCRaws
    Stampings <- MCStampings
INVARIANTS
    ChunksTileAudio
    GroupsWithinBudget
    AnswersInOrder
    StampsRepaired
CHECK_DEADLOCK FALSE
