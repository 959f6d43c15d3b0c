------------------------------ MODULE Deployment ------------------------------
(***************************************************************************)
(* From code to a running service: the framework is configured and built,   *)
(* an API profile is composed from its modules, the process runs until it   *)
(* is stopped, its region is registered, WebSocket connections are served   *)
(* and schema registries are composed.  The parts share no state, so each   *)
(* behaviour exercises one of them.                                         *)
(***************************************************************************)
EXTENDS Integers, Sequences

CONSTANTS
    Unset, Presets, Resolvers, Profiles, Policies, Manifests, AdminRoutes,      \* see FrameworkBuilder
    EnvNames, ConsoleEnvs, EnvOrigins, MaxCalls,
    NoOrigin, NoHosts, RegisteredBase, ClientOrigin, Origins,                   \* see OriginPolicy
    NoRoute, NoOwner, NoMode, NoDocument, Conflict, Panicked, ContractPrefix,   \* see OpenApiDocument
    Longer, BraceForm,
    Modules, Dependencies, KebabOwner, Infrastructure, MaxModules, Refused,     \* see ApiAssembly
    RequestPaths,
    Conn, HookCount, CheckCount, Grace, NoGrace, MaxTime,                       \* see ServiceLifecycle
    Registrar, Code, NoCode, Global,                                            \* see RuntimeRegion
    MaxMessages, Window, NoWindow, MaxFrames, SocketMaxTime,                    \* see WebSocketSession
    Module, ModuleOrder, Registries, AppTables, Require, Fragments,             \* see SchemaRegistry
    MaxFragments, MissingFile, Invalid,
    Part, Absent

ASSUME DeploymentAssumption ==
    /\ {MaxCalls, MaxModules, HookCount, CheckCount, MaxTime} \subseteq Nat
    /\ {MaxMessages, Window, MaxFrames, SocketMaxTime} \subseteq Nat
    /\ Grace = NoGrace \/ Grace \in 0..MaxTime

\* What stands for nothing is none of the values (Option::None).
ASSUME NothingAssumption ==
    /\ NoCode \notin Code \cup {Global}
    /\ NoWindow \notin Nat

VARIABLES
    part,  \* the part that is exercised
    process, resolver, builder, phase, calls,
    registry, profile, assembling,
    server, started, cleanup, signal, open, dropped, time, up, probe,
    region, registrar,
    connection, principal, call, now, echoed, closes,
    files, app, composed, index, frontend

builderVars == <<process, resolver, builder, phase, calls>>
assemblyVars == <<registry, profile, assembling>>
serviceVars == <<server, started, cleanup, signal, open, dropped, time, up, probe>>
regionVars == <<region, registrar>>
socketVars == <<connection, principal, call, now, echoed, closes>>
schemaVars == <<files, app, composed, index, frontend>>
vars == <<part, builderVars, assemblyVars, serviceVars, regionVars, socketVars, schemaVars>>

Builder == INSTANCE FrameworkBuilder
Assembly == INSTANCE ApiAssembly
Service == INSTANCE ServiceLifecycle
Region == INSTANCE RuntimeRegion
Socket == INSTANCE WebSocketSession WITH MaxTime <- SocketMaxTime
Schema == INSTANCE SchemaRegistry

\* The origins a policy lists are origins or one of the fixed patterns (security.rs
\* origin_matches_allowed).
ASSUME PolicyAssumption == \A p \in Policies : \A e \in p.cors.entries : Builder!IsEntry(e)

\* What modules bring are sequences of routes and finite documents; a segment of a
\* template is spelled as what it is (route_manifest.rs, inventory.rs).
ASSUME AssemblyAssumption ==
    /\ \A m \in Modules : m.sources \in Seq(Assembly!Sources)
    /\ \A s \in Assembly!Sources : Assembly!IsSource(s)
    /\ \A d \in Assembly!AuthoredDocuments : Assembly!IsDocument(d)
    /\ Assembly!IsVersion(Assembly!GeneratedVersion)
    /\ \A r \in Assembly!ManifestRoutes : r.auth \in Assembly!RouteAuth /\ r.path \in Seq(Assembly!TemplateSegments)
    /\ \A s \in Assembly!TemplateSegments : Assembly!IsSegment(s)
    /\ \A s, t \in Assembly!TemplateSegments : Assembly!SpellTheirForm(s, t)

\* Registries are lists of tables, a section that is merged as a list is one, and
\* no module has the name of a missing file (composer.rs, frontend.rs).
ASSUME SchemaAssumption ==
    /\ Module \in Seq(Schema!Range(Module))
    /\ \A m \in Schema!Range(Module) : m # MissingFile /\ ModuleOrder[m] \in Int
    /\ \A r \in Registries \cup AppTables : r \in Seq(Schema!Range(r))
    /\ MaxFragments \in Nat
    /\ \A f \in Fragments : \A s \in Schema!ListSections \cap DOMAIN f : f[s] \in Seq(Schema!Range(f[s]))

\* A part that is not exercised does not exist.
Init ==
    /\ part \in Part
    /\ IF part = "builder" THEN Builder!Init
       ELSE /\ process = Absent /\ resolver = Absent /\ builder = Absent /\ phase = Absent /\ calls = Absent
    /\ IF part = "assembly" THEN Assembly!Init
       ELSE /\ registry = Absent /\ profile = Absent /\ assembling = Absent
    /\ IF part = "service" THEN Service!Init
       ELSE /\ server = Absent /\ started = Absent /\ cleanup = Absent /\ signal = Absent /\ open = Absent
            /\ dropped = Absent /\ time = Absent /\ up = Absent /\ probe = Absent
    /\ IF part = "region" THEN Region!Init
       ELSE /\ region = Absent /\ registrar = Absent
    /\ IF part = "socket" THEN Socket!Init
       ELSE /\ connection = Absent /\ principal = Absent /\ call = Absent /\ now = Absent /\ echoed = Absent
            /\ closes = Absent
    /\ IF part = "schema" THEN Schema!Init
       ELSE /\ files = Absent /\ app = Absent /\ composed = Absent /\ index = Absent /\ frontend = Absent

Next ==
    \/ /\ part = "builder" /\ Builder!Next
       /\ UNCHANGED <<part, assemblyVars, serviceVars, regionVars, socketVars, schemaVars>>
    \/ /\ part = "assembly" /\ Assembly!Next
       /\ UNCHANGED <<part, builderVars, serviceVars, regionVars, socketVars, schemaVars>>
    \/ /\ part = "service" /\ Service!Next
       /\ UNCHANGED <<part, builderVars, assemblyVars, regionVars, socketVars, schemaVars>>
    \/ /\ part = "region" /\ Region!Next
       /\ UNCHANGED <<part, builderVars, assemblyVars, serviceVars, socketVars, schemaVars>>
    \/ /\ part = "socket" /\ Socket!Next
       /\ UNCHANGED <<part, builderVars, assemblyVars, serviceVars, regionVars, schemaVars>>
    \/ /\ part = "schema" /\ Schema!Next
       /\ UNCHANGED <<part, builderVars, assemblyVars, serviceVars, regionVars, socketVars>>

others == <<part, builderVars, assemblyVars, regionVars, socketVars, schemaVars>>

\* Hooks return, timers fire, and time passes; requests need not end, and no
\* signal need come.
Fairness ==
    /\ WF_vars(part = "service" /\ Service!Progress /\ UNCHANGED others)
    /\ WF_vars(part = "service" /\ Service!Tick /\ UNCHANGED others)

Spec == Init /\ [][Next]_vars /\ Fairness

-------------------------------------------------------------------------------
\* In a process declared as production nothing the framework itself falls back to
\* is a test double, whatever the order of the setters: the double runs only if
\* the application wired it, requests are rate limited, tokens are bound to
\* tenants, without the standalone profile a second replica shares the stores,
\* and of browser origins only named ones are accepted, not the wildcards an
\* earlier setter left behind (framework.rs build, production_assembly.rs,
\* security.rs validate_for_production).
ProductionRunsNoFallback ==
    part = "builder" => Builder!ProductionRunsNoFallback /\ Builder!ProductionOriginsAreNamed(Origins)

\* "production assembly must not use AllowAllAuthorizationPolicy", and the same
\* of the other test doubles (production_assembly.rs).
NoTestDoubleInProduction == part = "builder" => Builder!NoTestDoubleInProduction

\* However modules of several owners are registered, a request is held to the
\* authentication declared by the route whose handler runs, also where a literal
\* template of one owner and a template with parameters of another both match
\* (route_manifest.rs match_route).
HandlerKeepsItsAuth == part = "assembly" => Assembly!HandlerKeepsItsAuth(RequestPaths)

\* The combined document of a composed profile has one operation per route, and
\* it belongs to the owner whose manifest declares the route, even when an owner
\* writes its documents by hand or spells a parameter another way: it is the
\* operation of that owner's document, with the authentication the route declares
\* as its mode (api_assembly.rs).
DocumentSpeaksForOwners == part = "assembly" => Assembly!DocumentSpeaksForOwners

\* Whatever the order in which the contributions of a composed profile are handed
\* to the merge, they merge, and into the same keys, the same operations and a
\* version of the same line and patch; the text of the version is the first of
\* those with the highest patch (openapi_merge.rs).
MergeIsOrderFree == part = "assembly" => Assembly!MergeIsOrderFree

\* Nothing is served before every startup hook succeeded; shutdown hooks run
\* after a signal and only of a service that started; and a connection is cut
\* only at the end of the grace period (serve.rs, lifecycle.rs).
DrainDropsNothing == part = "service" => Service!DrainDropsNothing

\* After a signal the process ends although requests may never answer, as long
\* as a grace period is configured (serve.rs).
StopsAfterSignal ==
    (part = "service" /\ signal = TRUE /\ Grace # NoGrace) ~> (server \in {"stopped", "failed"})

\* The grace period is "the longest wait for the connections to drain" after
\* SIGTERM or Ctrl+C (TECH-21 section 6): a server does not stop without a signal
\* (serve.rs serve_with_lifecycle).
ServesUntilSignal == part = "service" => Service!ServesUntilSignal

\* No message of a caller without a principal is echoed, and in no stretch as
\* long as the window more than twice the limit, wherever the frames fall
\* relative to the windows and however many were refused (ws_interceptors.rs).
MessageBurstBounded == part = "socket" => Socket!MessageBurstBounded

\* The tables this project generates and those its dependencies own are told
\* apart: whatever the application declares itself, a table of a registry that is
\* there appears in the composed registry as its module defines it, marked as
\* imported from it, and never as generated here; and a compiled contract has
\* every list entry of its fragments (composer.rs, frontend.rs).
OwnersKeepTheirTables == part = "schema" => Schema!OwnersKeepTheirTables

\* A /readyz that says ready found every dependency up at some time between the
\* request and the answer (health.rs CompositeReadinessCheck).
ReadyWasReady == part = "service" => Service!ReadyWasReady

\* Every framework that was built runs in the region the process reports, however
\* the first registrations race (runtime_region.rs register_runtime_region).
OneRegion == part = "region" => Region!OneRegion

\* The inductive invariant, of the parts with one.
IInv ==
    /\ part = "builder" => Builder!IInv
    /\ part = "assembly" => Assembly!IInv
    /\ part = "service" => Service!IInv
    /\ part = "region" => Region!IInv
    /\ part = "socket" => Socket!IInv
    /\ part = "schema" => Schema!IInv

===============================================================================
