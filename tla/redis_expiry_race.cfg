SPECIFICATION Spec
CONSTANTS
    Caller = {c1, c2}
    Key = {k1}
    Fingerprint = {f1, f2}
    Body = {b1}
    None = None
    Expiry = TRUE
    ExpiryDuringGet = TRUE
    Failures = FALSE
INVARIANT ReplayMatchesFingerprint
