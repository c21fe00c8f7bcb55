SPECIFICATION Spec
CONSTANTS
    Sounds <- MCSounds
    Like <- MCLike
    Stray = {0, 3}
    Half = 2
    Beyond = 1
    MinHits = 2
    Near = 2
    Quoted <- MCQuoted
    Unread <- MCUnread
    MaxStale = 1
    Starts <- MCStarts
    MaxRuns = 2
INVARIANTS
    RowsWhole
    MatchSupported
    MatchFound
CHECK_DEADLOCK FALSE
