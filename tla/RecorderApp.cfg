SPECIFICATION AppSpec
CONSTANTS
    Main = Main
    AI0 = AI0
    AI1 = AI1
    CAN = CAN
    NoName = NoName
    TestFile = TestFile
    Users = {Main}
    Senders = {snd1, snd2}
    Sources = {AI0, AI1, CAN}
    Files = {NoName, TestFile}
    NoSource = NoSource
    Nobody = Nobody
    OpenMayFail = TRUE
    PreambleMayFail = TRUE
    MaxPorts = 4
    MaxWriters = 2
CHECK_DEADLOCK FALSE
INVARIANTS
    RecordsAllThree
PROPERTIES
    EndsWithClosedFile
