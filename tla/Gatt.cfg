SPECIFICATION FairSpec
CONSTANTS
    Addrs = {a1}
    Profiles = {meshtastic, meshcore}
    Connects = {c1, c2}
    Deletes = {}
    Pairs = {p1}
    Recovers = FALSE
    None = None
INVARIANTS OneUser NothingLeaks
PROPERTY LostLinkIsForgotten
CHECK_DEADLOCK FALSE
