SPECIFICATION Spec
CONSTANTS
    Request = {r1, r2, r3}
    Scopes <- MCScopes
    ApiKey = {k1}
    Client <- MCClients
    Defaults <- MCDefaults
    GlobalLayer <- MCGlobalLayers
    KeyLayer <- MCKeyLayers
    StoreFailures = TRUE
    HookFailures = TRUE
    None = None
CHECK_DEADLOCK FALSE
INVARIANTS
    LeaseAccounting
    InFlightBound
    EndedHoldsNothing
    AdmittedClientsArePermitted
SYMMETRY Symmetry
