SPECIFICATION HSpec
CONSTANTS
    u1 = u1
    u2 = u2
    src1 = src1
    src2 = src2
    NoSource = NoSource
    Nobody = Nobody
    Users = {u1}
    Senders = {snd1}
    Sources = {src1}
    Files = {"f1"}
    OpenMayFail = FALSE
    PreambleMayFail = FALSE
    MaxPorts = 4
    MaxWriters = 1
CHECK_DEADLOCK FALSE
INVARIANTS
    OneFreePortAtEnd
