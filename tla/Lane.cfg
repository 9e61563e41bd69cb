SPECIFICATION Spec
CONSTANTS
    Passes = {"pass"}
    Targets = {"target"}
    Composers = {"live"}
    Count <- MCCount
    Acked <- MCAcked
    Gap = 2
    None = None
PROPERTIES
    ChainsAreLocks
    SendSpacing
    EveryoneServed
CHECK_DEADLOCK FALSE
