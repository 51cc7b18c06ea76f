SPECIFICATION RSpec
CONSTANTS
    s1 = s1
    s2 = s2
    Threads <- SignalPair
    INDEX_EVERY = 2
    Payloads = {1}
    TornLengths = {0}
    MayFail = TRUE
    Serialised = FALSE
    MaxCalls = 3
    MaxGroup = 4
    MaxPackets = 3
    Descriptors <- MCDescriptors
SYMMETRY SignalSymmetry
CHECK_DEADLOCK FALSE
INVARIANTS
    DeclaredBeforeData
    GroupsAreOwn
    DataMatchesDeclaration
