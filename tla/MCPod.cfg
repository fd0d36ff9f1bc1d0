CONSTANTS
    Bases <- MCBases
    Top <- MCTop
    Sizes = {0, 1, 5}
    Aligns = {1, 4}
    InitialCapacity = 4
    MinTotal = 0
    MaxRanges = 2
    ZeroInit = TRUE
    MallocMayFail = TRUE
    ResetAfterFailure = FALSE
SPECIFICATION Spec
INVARIANTS RangesAligned OwnedAndUnshared
PROPERTIES RefinesAllocator
