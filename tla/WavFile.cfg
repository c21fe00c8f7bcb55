SPECIFICATION WavSpec
CONSTANTS
    BufSize = 8
    MaxChannels = 3
    MaxBytes = 26
    MaxSamples = 4
    MaxCalls = 4
    Window = 1024
    ShortMax <- MCShortMax
    IntMax <- MCIntMax
    SizeMax <- MCSizeMax
    Files <- MCFiles
INVARIANTS
    ExactSamples
    ShortIsEnd
    HeaderTrue
    AnnouncedDelivered
    ReadersAgree
CHECK_DEADLOCK FALSE
