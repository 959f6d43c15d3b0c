SPECIFICATION StoresSpec
CONSTANTS
    Caller = {c1, c2}
    Key = {k1, k2}
    SharedKey = {k1}
    Fingerprint = {f1, f2}
    Body = {1, 2}
    None = None
    FirstResponseWins = FALSE
    AckUnrecorded = TRUE
    MemoryTtl = 1
    MaxEntries = 1
    MaxBytes = 1
    MemoryMaxClock = 2
    ExpiryDuringGet = FALSE
    SqlxTtl = 1
    Interval = 1
    SqlxMaxClock = 2
SYMMETRY StoresSymmetry
INVARIANTS
    EveryReplayMatches
PROPERTIES
    MemoryImplementsContract
    RedisImplementsContract
    SqlxImplementsContract
    RetentionKept
