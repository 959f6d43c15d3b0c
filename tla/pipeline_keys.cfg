SPECIFICATION Spec
CONSTANTS
    Request = {r1, r2, r3}
    Key = {k1}
    Fingerprint = {f1, f2}
    Scope = {s1}
    Limits = {1}
    FirstResponseWins = TRUE
    Faults = {"audit", "panic", "cancel", "expiry"}
    None = None
SYMMETRY Symmetry
INVARIANTS
    ExclusiveExecution
    ReplayFaithful
    AnsweredMeansSettled
    AnsweredHoldsNoSlot
CHECK_DEADLOCK FALSE
