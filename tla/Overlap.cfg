SPECIFICATION OverlapSpec
CONSTANTS
    BufSize = 2
    FileBuf = 5
    P = 433
    Inputs <- MCInputs
    Pads = {0, 1}
INVARIANTS
    LogComplete
    BestOverlap
    TransformsAgree
CHECK_DEADLOCK FALSE
