SPECIFICATION Spec
CONSTANTS
    Identities = {alice, bob}
    NoIdentity = none
    MaxAttempts = 1
    MaxAge = 1
    NormalDelays <- MCNormalDelays
    EmergencyDelays <- MCEmergencyDelays
    SoftCap = 2
    Paced = FALSE
    Receipts = FALSE
    Upgraded <- NoLeftovers
    PanelKinds = {}
    AppKinds = {"mayday", "ack"}
    MaxRows = 2
    MaxTime = 1
    MaxQueue = 2
    MaxFaults = 0
    MaxCrashes = 1
    SlowIPC = TRUE
    PanelLife = "never"
SYMMETRY Symmetry
INVARIANTS AppRowIsDrained AppRetryArmed
CHECK_DEADLOCK FALSE
