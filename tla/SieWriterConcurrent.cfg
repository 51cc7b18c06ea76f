SPECIFICATION Spec
CONSTANTS
    t1 = t1
    t2 = t2
    Threads <- ThreadPair
    INDEX_EVERY = 2
    Payloads = {1, 2}
    TornLengths <- MCTornLengths
    MayFail = FALSE
    Serialised = FALSE
    MaxCalls = 3
    MaxGroup = 2
CHECK_DEADLOCK FALSE
INVARIANTS
    IndexIsAccurate
