SPECIFICATION FairSpec
CONSTANTS
    Identities = {alice}
    NoIdentity = none
    MaxAttempts = 1
    MaxAge = 1
    NormalDelays <- NoDelay
    EmergencyDelays <- NoDelay
    SoftCap = 2
    Paced = TRUE
    Receipts = FALSE
    Upgraded <- OneLegacy
    PanelKinds = {"report"}
    AppKinds = {}
    MaxRows = 2
    MaxTime = 0
    MaxQueue = 2
    MaxFaults = 1
    MaxCrashes = 0
    SlowIPC = TRUE
    PanelLife = "remounts"
PROPERTIES
    RemovedOnlyWhenDelivered
    BlockedStaysBlocked
    PanelDrainEnds
CHECK_DEADLOCK FALSE
