SPECIFICATION Spec
CONSTANTS
    Request = {r1, r2, r3}
    Key = {}
    Fingerprint = {}
    Scope = {s1}
    Limits = {1}
    FirstResponseWins = TRUE
    Faults = {}
    None = None
INVARIANT TenantLimit
CHECK_DEADLOCK FALSE
