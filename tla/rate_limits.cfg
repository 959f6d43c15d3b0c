SPECIFICATION Spec
CONSTANTS
    Caller = {c1, c2}
    Limits = {0, 1, 2}
    FixedWindow = 2
    FixedMaxClock = 4
    Window = 4
    MaxClock = 5
    Offsets = {0, 1}
    MaxDelay = 1
    None = None
SYMMETRY CallerSymmetry
INVARIANTS
    FixedWindowLimit
    BurstsAreBounded
CHECK_DEADLOCK FALSE
