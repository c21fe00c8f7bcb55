SPECIFICATION Spec
CONSTANTS
    Dbs = {"a"}
    InDir = {}
    Tracks = {short, long, spaced, unnamed, 7}
    BufCap = 2
    Writers = {w1}
    Readers = {}
    MaxJobs = 5
    MaxCrashes = 2
    Spaced = {spaced}
    NoName = unnamed
    Cut = Cut
    short = short
    long = long
    empty = empty
    spaced = spaced
    unnamed = unnamed
    w1 = w1
    FpCount <- MCCount
    MergeJobs <- MCNoMerge
INVARIANTS
    OwnSuffix
CHECK_DEADLOCK FALSE
