SPECIFICATION Spec
CONSTANTS
    Sessions = {s1, s2}
    Streams = {t1}
    MaxAdmin = 1
    MaxExpiries = 2
    None = None
SYMMETRY SessionSymmetry
CHECK_DEADLOCK FALSE
INVARIANTS
    StatusMatchesHub
    CleanupSparesServed
