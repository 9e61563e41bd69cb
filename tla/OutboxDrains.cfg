SPECIFICATION Spec
CONSTANTS
    Identities = {alice}
    NoIdentity = none
    MaxAttempts = 2
    MaxAge = 1
    NormalDelays <- NoDelay
    EmergencyDelays <- NoDelay
    SoftCap = 1
    Paced = FALSE
    Receipts = TRUE
    Upgraded <- NoLeftovers
    PanelKinds = {"report", "text"}
    AppKinds = {}
    MaxRows = 2
    MaxTime = 0
    MaxQueue = 2
    MaxFaults = 0
    MaxCrashes = 0
    SlowIPC = TRUE
    PanelLife = "once"
INVARIANTS OneSenderPerRow CancelledStaysGone AttemptBudget
PROPERTY NeverSentAfterRemoval
CHECK_DEADLOCK FALSE
