SPECIFICATION FairSpec
CONSTANTS
    ui = ui
    ble = ble
    Users <- MCUsers
    BleUsers <- MCBleUsers
    MaxSpawns = 2
    MaxCommands = 4
    Threshold = 2
    PromptExit = TRUE
INVARIANTS
    OneStack
    NoOrphan
    StatusTruthful
PROPERTIES
    QuitFlushes
    StopReaches
    CallsReturn
CHECK_DEADLOCK FALSE
