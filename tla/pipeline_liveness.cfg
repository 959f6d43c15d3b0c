SPECIFICATION FairSpec
CONSTANTS
    Request = {r1, r2}
    Key = {k1}
    Fingerprint = {f1}
    Scope = {s1}
    Limits = {0, 1}
    FirstResponseWins = FALSE
    Faults = {"store", "audit", "panic", "cancel", "expiry", "counter_ttl"}
    None = None
INVARIANTS
    SlotAccounting
    AnsweredMeansSettled
PROPERTIES
    RequestsEnd
    HandlersSettleTheirKey
CHECK_DEADLOCK FALSE
