SPECIFICATION Spec
CONSTANTS
    t1 = t1
    t2 = t2
    Threads <- ThreadPair
    INDEX_EVERY = 2
    Payloads = {1, 2}
    TornLengths <- MCTornLengths
    MayFail = TRUE
    Serialised = TRUE
    MaxCalls = 4
    MaxGroup = 2
SYMMETRY ThreadSymmetry
CHECK_DEADLOCK FALSE
INVARIANTS
    IndexAccurateUntilDamaged
    EveryBlockIndexedOnce
PROPERTIES
    ImplementsIndexedLog
