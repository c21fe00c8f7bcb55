SPECIFICATION FairSpec
CONSTANTS
    Slices <- MCSlices
    NameLength <- MCNameLength
    Jump = 2
    Shift = 64
    Mask = 16
    Cap = 40
    Blocks = 4
    TwoSeconds = 3
    Compare <- MCCompare
    Garbled = "garbled"
    Tracks = {"short", "long", "empty", "two words"}
    FpCount <- MCFpCount
    Spaced = {"two words"}
    Distances = {1, 3}
    Limit = 1
    Unset = {0, 9}
    Calls <- MCCalls
    MaxRuns = 3
INVARIANTS
    PlaceTold
    AnswerExact
    LoadedIsStored
PROPERTIES
    ImplAddsWholeTracks
    ProgramEnds
CHECK_DEADLOCK FALSE
