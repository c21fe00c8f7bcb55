SPECIFICATION Spec
CONSTANTS
    Dbs = {"a"}
    InDir = {}
    Tracks = {short, long}
    BufCap = 2
    Writers = {w1, w2}
    Readers = {}
    MaxJobs = 4
    MaxCrashes = 1
    Spaced = {spaced}
    NoName = unnamed
    Cut = Cut
    short = short
    long = long
    empty = empty
    spaced = spaced
    unnamed = unnamed
    w1 = w1
    w2 = w2
    FpCount <- MCCount
    MergeJobs <- MCNoMerge
INVARIANTS
    NothingLost
    EndsCovered
CHECK_DEADLOCK FALSE
