SPECIFICATION BuildFairSpec
CONSTANTS
    Field = 2
    PipeSize = 4
    Garbled = {3, 18, 99}
    None = None
    Noise = 9
    FrameLength = 3
    Advance = 2
    Bands = 2
    Macro = 2
    FpSkip = 1
    Often = 1
    Energy <- MCEnergy
    Piped <- MCPiped
    Invocations <- MCInvocations
INVARIANTS
    SameEitherWay
    ExcerptFound
PROPERTIES
    BuildEnds
CHECK_DEADLOCK FALSE
