SPECIFICATION FairSpec
CONSTANTS
    MaxTries = 2
    Sessions = {1, 2, 3, 4}
    Attempts = {1, 2, 3}
    Losses = {1, 2, 3}
    Connects = {1, 2}
    MaxEvents = 5
INVARIANTS
    NothingWedged
    NoLateSuccess
    OneOwner
    OneSession
    StatusTruthful
PROPERTIES
    LinkKept
    CycleEnds
CHECK_DEADLOCK FALSE
