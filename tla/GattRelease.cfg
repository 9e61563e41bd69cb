SPECIFICATION Spec
CONSTANTS
    Addrs = {a1}
    Profiles = {meshtastic}
    Connects = {c1, c2}
    Deletes = {d1}
    Pairs = {}
    Recovers = TRUE
    None = None
SYMMETRY Symmetry
INVARIANTS ReleasedAreForgotten
CHECK_DEADLOCK FALSE
