SPECIFICATION SoundFairSpec
CONSTANTS
    N = 3
    Pieces = 2
    MinMatch = 1
    MaxLen = 13
    MaxExtra = 1
    Rate = 1
    Sixty = 2
INVARIANTS
    PrintedAcross
    ResultsInside
    OverrunCause
PROPERTIES
    SoundEnds
CHECK_DEADLOCK FALSE
