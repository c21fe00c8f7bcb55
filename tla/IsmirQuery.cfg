SPECIFICATION QueryFairSpec
CONSTANTS
    BufLen = 16
    Macro = 9
    Near = 5
    Step = 2
    Debounce = 4
    MaxTotal = 36
    Advance = 3
    SampleRate = 4
    Sixty = 3
    Unknown = Unknown
    Sizes = {0, 20, 36}
    FirstEnds = {10, 12}
    MaxTracks = 3
    Spaced = {}
    NoName = NoName
    Cut = Cut
INVARIANTS
    BufferIsStream
    PosDrift
    NoGap
    RightTrack
PROPERTIES
    MatchesApart
    QueryEnds
CHECK_DEADLOCK FALSE
