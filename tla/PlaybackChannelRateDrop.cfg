SPECIFICATION Spec
CONSTANTS
    Clock = 4
    EpochToStart = 5
    DefaultDeltaT = 2
    DefaultArray <- MCDefaultArray
    Arrays <- MCArrays
    CsvFiles <- SlowerFiles
    BadCsvMayThrow = TRUE
    Targets = {1}
    Word = 128
    MaxRate = 8
    MaxTime = 4
CHECK_DEADLOCK FALSE
INVARIANTS
    CollectSurvives
