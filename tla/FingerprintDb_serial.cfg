SPECIFICATION Spec
CONSTANTS
    Dbs = {"a", "b", "c"}
    InDir = {}
    Tracks = {short, long}
    BufCap = 2
    Writers = {w1}
    Readers = {r1}
    MaxJobs = 4
    MaxCrashes = 0
    Spaced = {spaced}
    NoName = unnamed
    Cut = Cut
    short = short
    long = long
    empty = empty
    spaced = spaced
    unnamed = unnamed
    w1 = w1
    r1 = r1
    FpCount <- MCCount
    MergeJobs <- MCMerges
INVARIANTS
    TypeOK
    Attribution
    SnapshotTrue
PROPERTIES
    AddsWholeTracks
CHECK_DEADLOCK FALSE
