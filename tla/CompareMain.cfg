SPECIFICATION MainFairSpec
CONSTANTS
    Spb = 4
    MinOverlap = 2
    MaxShift = 1
    One = 2
    Threshold = 1
    MaxSamples = 11
    MaxChannels = 2
INVARIANTS
    VerdictExact
    SuccessLooked
    BlocksComparable
PROPERTIES
    MainEnds
CHECK_DEADLOCK FALSE
