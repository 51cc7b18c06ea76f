SPECIFICATION ModuleFairSpec
CONSTANTS
    t1 = t1
    t2 = t2
    d1 = d1
    d2 = d2
    Null = Null
    BadId = BadId
    Threads <- ThreadPair
    Devices <- TwoDevices
    MaxNumberOfDevices = 2
    SerialNumberOption = FALSE
CHECK_DEADLOCK FALSE
INVARIANTS
    OneDevicePerNumber
    RefusedOnlyIfTaken
PROPERTIES
    CallReturns
