SPECIFICATION Spec
CONSTANTS
    t1 = t1
    tier1 = tier1
    Tenant = {t1, platform}
    Platform = platform
    Tier = {tier1, default}
    Default = default
    Key <- MCKey
    Resolver = {r1, r2}
    Admin = {a1}
    Ttl = 1
    MaxRead = 1
    MaxVersion = 1
    MaxClock = 2
    Client = {c1}
    PageSize = 1
    MaxId = 3
    Caller = {n1, n2, n3}
    BaseUrl = {u1}
    MaxDelay = 1
    NodeMaxClock = 2
    MaxLives = 2
    Reader = {l1}
    ListSize = 1
    NodeCount = 2
    MaxRow = 4
    Subject <- MCSubject
    ScopeRequest = {q1, q2}
    MaxRevision = 2
    None = None
SYMMETRY ControlPlaneSymmetry
INVARIANTS
    TenantIsolation
    CompleteListing
    CreatedOnce
    HeartbeatsStayFresh
    BoundedStaleness
    InvalidationReachesTenant
    OffsetListingComplete
    ScopesAreOwnAndRecent
CHECK_DEADLOCK FALSE
