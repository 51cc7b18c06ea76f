SPECIFICATION MCSpec
CONSTANTS
    Cameras = {"cam0", "cam1"}
    FrameSizes = {1, 2}
    MaxFrames = 4
    MaxChanges = 2
    Drivers = {"d1", "d2"}
    Receivers = 2
    MayFail = TRUE
    Counts = {1, 2}
    Rates = {1000, 10000}
    MaxPackets = 2
    MaxWrites = 1
CHECK_DEADLOCK FALSE
INVARIANTS
    StopWaitsForAll
    TimesContiguous
PROPERTIES
    TimesNeverOverlap
    DestroyEnds
