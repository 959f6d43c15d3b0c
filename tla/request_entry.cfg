SPECIFICATION Spec
CONSTANTS
    t1 = t1
    t2 = t2
    NoEntry = NoEntry
    NoClaim = NoClaim
    NoToken = NoToken
    NoPrincipal = NoPrincipal
    NoError = NoError
    NoRoute = NoRoute
    NoOrigin = NoOrigin
    NoHosts = NoHosts
    NoKey = NoKey
    NoPermission = NoPermission
    NoRequest = NoEntry
    NoOverlay = NoOverlay
    TenantLevel = "0"
    SigningKey <- MCSigningKey
    ClaimPolicy <- MCClaimPolicy
    EnforceSession = TRUE
    RegisteredBase = {"corp"}
    ClientOrigin = {}
    Request <- MCRequest
    Routes <- MCRoutes
    Profile <- MCProfile
    Cors <- MCCors
    Overlays <- MCOverlays
    AllowedMethods <- Methods
    MaxContentLength = 5
    EnforcePrincipal = FALSE
    LoginSelectionPath <- MCLoginSelectionPath
    Now = 5
    Sessions <- MCSessions
    MaxRequests = 2
INVARIANTS
    ServedIdentityIsProven
    AnonymousOnlyWhereDeclared
    StaysInTenant
    CookieWritesFromTrustedSource
    KeyScopeSeparates
CHECK_DEADLOCK FALSE
