SPECIFICATION HSpec
CONSTANTS
    u1 = u1
    u2 = u2
    src1 = src1
    src2 = src2
    NoSource = NoSource
    Nobody = Nobody
    Users <- TwoUsers
    Senders = {snd1}
    Sources <- TwoSources
    Files = {"f1"}
    OpenMayFail = TRUE
    PreambleMayFail = TRUE
    MaxPorts = 4
    MaxWriters = 2
SYMMETRY Symmetry
CHECK_DEADLOCK FALSE
INVARIANTS
    LastPortFree
    SignalsUseCurrentWriter
    StoppedFileIsClosed
    RecordingMatchesState
PROPERTIES
    OneFreePortAfterDisconnect
    Undisturbed
    ImplementsRecorderFiles
