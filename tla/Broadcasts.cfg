SPECIFICATION Spec
CONSTANTS
    Rules <- MCRules
    MaxCandidates = 10
    SlotCount = 2
    Stored <- MCStored
    MaxTime = 4
    MaxReplies = 2
    MaxEvents = 3
    MaxSleeps = 1
INVARIANTS OneRun OneFate ResumeSkips StoreMirrorsTable AlarmSet
CHECK_DEADLOCK FALSE
