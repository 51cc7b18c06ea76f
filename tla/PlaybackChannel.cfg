SPECIFICATION FairSpec
CONSTANTS
    Clock = 4
    EpochToStart = 5
    DefaultDeltaT = 2
    DefaultArray <- MCDefaultArray
    Arrays <- MCArrays
    CsvFiles <- FasterFiles
    BadCsvMayThrow = TRUE
    Targets = {1}
    Word = 128
    MaxRate = 8
    MaxTime = 2
CHECK_DEADLOCK FALSE
INVARIANTS
    IndexInBuffer
    SignalsDescribeData
    CollectSurvives
    ZeroHitsTarget
PROPERTIES
    TimesNeverOverlap
    SamplesKeepUp
