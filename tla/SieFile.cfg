SPECIFICATION MCSpec
CONSTANTS
    s1 = s1
    s2 = s2
    Signals <- SignalPair
    VariableNames <- MCVariableNames
    Descriptors <- MCDescriptors
    Offsets = {0, 90}
    Counts = {0, 2}
    DIGITS = 2
    MaxPackets = 2
    MaxHandlers = 3
    Characters <- MCCharacters
    Texts <- MCTexts
    Names = {"ch", "tag"}
    Ids = {"id"}
    MaxDepth = 3
    MaxCalls = 6
    MayFail = TRUE
    Calls <- MCCalls
CHECK_DEADLOCK FALSE
INVARIANTS
    SamplesReadBack
    TicksReadBack
    ReadsBack
    WritesInOrder
PROPERTIES
    BytesEnd
