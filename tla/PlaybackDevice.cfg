SPECIFICATION MCSpec
CONSTANTS
    MaxChannels = 2
    FirstChannels = 1
    LoopTimes = {1, 2}
    MaxTime = 3
    Sizes <- ChunkSizes
    MaxBytes = 3
    MaxFiles = 2
INVARIANTS
    ChannelsMatchProperty
    CollectedTogether
    ChunksFitTogether
PROPERTIES
    QuietAfterStop
    DestroyEnds
    NothingIfOff
    DownloadEnds
