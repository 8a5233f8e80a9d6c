CONSTANTS
    ALIGNMENT = 2
    SIZEOF_SIZE_T = 1
    MAX_HEAP = 16
    SizeMod = 64
    IntMod = 64
    JUNK = JUNK
    NULL = NULL
    Indices = {0, 128}
    TraceSizes = {1, 5}
    MaxOps = 3
    Setups <- TestSetups
    Answers <- TestAnswers
    Breaks <- TestBreaks
SPECIFICATION Spec
INVARIANTS LaterPassesAgree OnlyOutOfMemory HwmIsPeakDemand RangesTrackBlocks OverlapOnlyByContainment
