SPECIFICATION Spec
CONSTANTS
    N = 3
    Pieces = 2
    MinMatch = 1
    MaxLen = 9
    MaxExtra = 0
INVARIANTS
    FindsNeedle
CHECK_DEADLOCK FALSE
