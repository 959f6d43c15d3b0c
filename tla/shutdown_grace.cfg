SPECIFICATION Spec
CONSTANTS
    Part = {"service"}
    Absent = Absent
    Unset = Unset
    Presets <- MCPresets
    Resolvers <- MCResolvers
    Profiles <- MCProfiles
    Policies <- MCPolicies
    Manifests <- MCManifests
    AdminRoutes <- MCAdminRoutes
    EnvNames = {"unset", "demo", "production"}
    ConsoleEnvs <- MCConsoleEnvs
    EnvOrigins <- MCEnvOrigins
    MaxCalls = 3
    NoOrigin = NoOrigin
    NoHosts = NoHosts
    RegisteredBase <- MCRegisteredBase
    ClientOrigin <- MCClientOrigin
    Origins <- MCOrigins
    NoRoute = NoRoute
    NoOwner = NoOwner
    NoMode = NoMode
    NoDocument = NoDocument
    Conflict = Conflict
    Panicked = Panicked
    ContractPrefix <- MCContractPrefix
    Longer <- MCLonger
    BraceForm <- MCBraceForm
    Modules <- MCModules
    Dependencies <- MCDependencies
    KebabOwner <- MCKebabOwner
    Infrastructure <- MCInfrastructure
    MaxModules = 3
    Refused = Refused
    RequestPaths <- MCRequestPaths
    Conn = {c1, c2}
    HookCount = 2
    CheckCount = 2
    Grace = 2
    NoGrace = NoGrace
    MaxTime = 2
    Registrar = {p1, p2, p3}
    Code <- MCCode
    NoCode = NoCode
    Global <- MCGlobal
    MaxMessages = 2
    Window = 2
    NoWindow = NoWindow
    MaxFrames = 6
    SocketMaxTime = 6
    Module <- MCModule
    ModuleOrder <- MCModuleOrder
    Registries <- MCRegistries
    AppTables <- MCAppTables
    Require = FALSE
    Fragments <- MCFragments
    MaxFragments = 2
    MissingFile = MissingFile
    Invalid = Invalid
INVARIANT
    ServesUntilSignal
CHECK_DEADLOCK FALSE
