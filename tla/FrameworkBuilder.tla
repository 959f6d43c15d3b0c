--------------------------- MODULE FrameworkBuilder ---------------------------
(***************************************************************************)
(* WebFrameworkBuilder: an application calls setters in any order, some of  *)
(* which overwrite what others set, and build() refuses what is unsafe for  *)
(* the deployment (bootstrap framework.rs and env_config.rs, core           *)
(* production_assembly.rs and runtime_options.rs).                          *)
(*                                                                         *)
(* A wired part is the name of its kind: "allowAll", "passThrough", "noop"  *)
(* and "memory" are the test doubles the layer also falls back to.          *)
(***************************************************************************)
EXTENDS OriginPolicy, RouteManifest

CONSTANTS
    Unset,        \* a part the application has not wired
    Presets,      \* what assembly code has wired before: functions from Slot
    Resolvers,    \* [profile, shared, defaultLookup, allowlist]
    Profiles,     \* WebRequestContextProfile: [env, app, backend, ..., public]
    Policies,     \* SecurityPolicy: [rateLimit, cors]
    Manifests,    \* HttpRouteManifest
    AdminRoutes,  \* the manifest of the admin API
    EnvNames,     \* values of SDKWORK_WEB_FRAMEWORK_ENV
    ConsoleEnvs,  \* values of the console host keys
    EnvOrigins,   \* values of SDKWORK_CORS_ALLOWED_ORIGINS, as sets of origins
    MaxCalls

VARIABLES
    process,   \* SDKWORK_WEB_FRAMEWORK_ENV
    resolver,
    builder,   \* WebFrameworkBuilder
    phase,     \* "building", "built" or "panicked"
    calls      \* setters called so far

vars == <<process, resolver, builder, phase, calls>>

Slot == {"authorization", "tenant_isolation", "rate_limit_store", "idempotency_store",
    "concurrent_admission_store", "audit_emitter", "security_event_emitter", "readiness_check"}

Kinds(slot) ==
    CASE slot = "authorization" -> {"denyAll", "manifest", "allowAll"}
      [] slot = "tenant_isolation" -> {"enforce", "passThrough"}
      [] slot \in {"rate_limit_store", "idempotency_store"} -> {"memory", "sqlite", "postgres", "redis"}
      [] slot = "concurrent_admission_store" -> {"memory", "redis"}
      [] slot \in {"audit_emitter", "security_event_emitter"} -> {"noop", "sqlx"}
      [] slot = "readiness_check" -> {"probe"}

\* What WebFrameworkLayer::new puts in a slot; without a probe /readyz fails.
LayerDefault(slot) ==
    CASE slot = "authorization" -> "allowAll"
      [] slot = "tenant_isolation" -> "passThrough"
      [] slot \in {"rate_limit_store", "idempotency_store", "concurrent_admission_store"} -> "memory"
      [] slot \in {"audit_emitter", "security_event_emitter"} -> "noop"
      [] slot = "readiness_check" -> "notReady"

-------------------------------------------------------------------------------
\* Security policies.

DefaultCors == [all |-> FALSE, entries |-> {}, hosts |-> NoHosts, anyHeader |-> FALSE, headers |-> {"standard"}]

DefaultSecurityPolicy == [rateLimit |-> FALSE, cors |-> DefaultCors]

ProductionSecurityPolicy == [rateLimit |-> TRUE, cors |-> DefaultCors]

WebEnvironmentFromEnv(raw) ==
    CASE raw \in {"unset", "development", "dev", "local"} -> "Dev"
      [] raw \in {"test", "testing", "demo"} -> "Test"
      [] OTHER -> "Prod"

\* Rate limiting stays as it is by default, off.
SecurityPolicyForEnvironment(env, origins) ==
    LET base == IF env \in {"Dev", "Test"} THEN DevelopmentPrivateNetwork ELSE DefaultCors
    IN [rateLimit |-> FALSE,
        cors |-> WithRegisteredClientOrigins(
                    [base EXCEPT !.entries = @ \cup {[kind |-> "exact", origin |-> o] : o \in origins}])]

-------------------------------------------------------------------------------
\* Setters.

NewBuilder(wired) ==
    [profile |-> CHOOSE p \in Profiles : p.env = "Dev", policy |-> DefaultSecurityPolicy,
     defaults |-> FALSE, standalone |-> FALSE, wired |-> wired, manifest |-> <<>>, admin |-> FALSE]

Call(newBuilder) ==
    /\ phase = "building" /\ calls < MaxCalls
    /\ builder' = newBuilder /\ calls' = calls + 1
    /\ UNCHANGED <<process, resolver, phase>>

Profile == \E p \in Profiles : Call([builder EXCEPT !.profile = p])

SetSecurityPolicy == \E p \in Policies : Call([builder EXCEPT !.policy = p])

OptionalFeatures == \E d, s \in BOOLEAN : Call([builder EXCEPT !.defaults = d, !.standalone = s])

Wire == \E slot \in Slot : \E kind \in Kinds(slot) : Call([builder EXCEPT !.wired[slot] = kind])

SetRouteManifest == \E m \in Manifests : Call([builder EXCEPT !.manifest = m])

\* Overwrites the features, the policy and the environment, and keeps the
\* authorization and isolation the application wired.
ProductionDefaults ==
    LET Or(slot, kind) == IF builder.wired[slot] = Unset THEN kind ELSE builder.wired[slot] IN
    Call([builder EXCEPT
        !.defaults = TRUE, !.standalone = FALSE,
        !.policy = ProductionSecurityPolicy,
        !.profile.env = "Prod",
        !.wired["authorization"] = Or("authorization", "denyAll"),
        !.wired["tenant_isolation"] = Or("tenant_isolation", "enforce")])

EnableAdminApi ==
    Call([builder EXCEPT !.admin = TRUE,
        !.wired["readiness_check"] = IF @ = Unset THEN "probe" ELSE @])

\* The application takes environment, origins and console hosts from the
\* process; a misconfigured console pattern stops it.
ApplicationSecurityPolicyFromEnv ==
    \E console \in ConsoleEnvs, origins \in EnvOrigins :
        LET env == WebEnvironmentFromEnv(process)
            policy == SecurityPolicyForEnvironment(env, origins)
        IN \/ \E hosts \in ConsoleHostsFromEnv(console) :
                Call([builder EXCEPT !.profile.env = env,
                        !.policy = IF hosts = NoHosts THEN policy ELSE [policy EXCEPT !.cors.hosts = hosts]])
           \/ /\ ConsoleHostsFromEnv(console) = {}
              /\ phase = "building" /\ calls < MaxCalls
              /\ phase' = "panicked" /\ calls' = calls + 1
              /\ UNCHANGED <<process, resolver, builder>>

-------------------------------------------------------------------------------
\* build()

RequiresProductionAssembly(env, defaults) == defaults \/ env = "Prod"

\* Broken variant: one of the two names of the production environment is missed.
ValidateShortNameOnly(b) ==
    process = "prod" =>
        RequiresProductionAssembly(b.profile.env, b.defaults) /\ b.profile.env = "Prod"

ValidateDeploymentEnvironment(b) ==
    process \in {"prod", "production"} =>
        RequiresProductionAssembly(b.profile.env, b.defaults) /\ b.profile.env = "Prod"

\* The comparisons of a trait object's type with AllowAllAuthorizationPolicy and
\* the other test doubles never hold: only a part that is missing is noticed.
Missing(b, slot) == b.wired[slot] = Unset

UsesMemoryStore(b, slot) == b.wired[slot] \in {Unset, "memory"}

IsDistributedHa(b, slot) == b.wired[slot] \in {"postgres", "redis"}

ValidateSaasAssembly(b) ==
    /\ resolver.profile = "TenantBoundSaaS"
    /\ ~Missing(b, "readiness_check")
    /\ \A slot \in {"rate_limit_store", "idempotency_store", "concurrent_admission_store"} :
        ~UsesMemoryStore(b, slot) /\ IsDistributedHa(b, slot)
    /\ ~resolver.defaultLookup /\ resolver.allowlist

ValidateProductionAssembly(b) ==
    RequiresProductionAssembly(b.profile.env, b.defaults) =>
        /\ b.policy.rateLimit
        /\ ValidateForProduction(b.policy.cors)
        /\ \A slot \in {"audit_emitter", "security_event_emitter", "authorization", "tenant_isolation"} :
            ~Missing(b, slot)
        /\ ~resolver.shared  \* dev-only, payload-only and shared-secret resolvers
        /\ resolver.profile \in {"TenantBoundBootstrap", "TenantBoundSaaS"}
        /\ ~b.standalone => ValidateSaasAssembly(b)

\* The manifest that build() binds.
BoundManifest(b) == IF b.manifest = <<>> /\ b.admin THEN AdminRoutes ELSE b.manifest

ValidateManifest(b) ==
    LET routes == BoundManifest(b) IN
    /\ ValidatePublicPathPrefixes(routes, b.profile.public)
    /\ ValidateRouteAuthForSurfaces(routes, b.profile)
    /\ ValidateNoAmbientContextPathMarkers(routes, b.profile)

Build ==
    /\ phase = "building"
    /\ phase' = IF ValidateManifest(builder) /\ ValidateDeploymentEnvironment(builder)
                   /\ ValidateProductionAssembly(builder)
                THEN "built" ELSE "panicked"
    /\ UNCHANGED <<process, resolver, builder, calls>>

Init ==
    /\ process \in EnvNames /\ resolver \in Resolvers
    /\ \E wired \in Presets : builder = NewBuilder(wired)
    /\ phase = "building" /\ calls = 0

Next ==
    \/ Profile \/ SetSecurityPolicy \/ OptionalFeatures \/ Wire \/ SetRouteManifest
    \/ ProductionDefaults \/ EnableAdminApi \/ ApplicationSecurityPolicyFromEnv \/ Build

-------------------------------------------------------------------------------
\* Properties.

\* What runs in a slot of the built layer.
Runtime(slot) == IF builder.wired[slot] = Unset THEN LayerDefault(slot) ELSE builder.wired[slot]

\* In a process declared as production nothing the framework itself falls back to
\* is a test double, whatever the order of the setters: the double runs only if
\* the application wired it, requests are rate limited, tokens are bound to
\* tenants, and without the standalone profile a second replica shares the
\* stores (layer defaults of WebCallRuntime::development).
ProductionRunsNoFallback ==
    phase = "built" /\ process \in {"prod", "production"} =>
        /\ builder.policy.rateLimit
        /\ resolver.profile # "Unspecified"
        /\ \A slot \in {"authorization", "tenant_isolation", "audit_emitter", "security_event_emitter"} :
            Runtime(slot) \in {"allowAll", "passThrough", "noop"} => builder.wired[slot] # Unset
        /\ builder.standalone \/ \A slot \in {"rate_limit_store", "idempotency_store", "concurrent_admission_store"} :
            Runtime(slot) \notin {"memory", "sqlite"}

\* A framework built for production accepts a browser origin only if it was
\* configured exactly, belongs to a registered client or a desktop shell, or is a
\* console on a registered base domain; the development wildcards an earlier
\* setter left behind are refused (security.rs validate_for_production).
ProductionOriginsAreNamed(origins) ==
    phase = "built" /\ RequiresProductionAssembly(builder.profile.env, builder.defaults) =>
        \A o \in origins : AllowsOrigin(builder.policy.cors, o) =>
            \/ [kind |-> "exact", origin |-> o] \in builder.policy.cors.entries
            \/ o.scheme \notin {"http", "https"}
            \/ o.host.kind = "name" /\ o.host.base \in RegisteredBase /\ ~o.host.nested

\* "production assembly must not use AllowAllAuthorizationPolicy", and the same
\* of the other test doubles (production_assembly.rs).
NoTestDoubleInProduction ==
    phase = "built" /\ RequiresProductionAssembly(builder.profile.env, builder.defaults) =>
        \A slot \in {"authorization", "tenant_isolation", "audit_emitter", "security_event_emitter"} :
            Runtime(slot) # LayerDefault(slot)

-------------------------------------------------------------------------------
(* The inductive invariant. *)

\* A builder has its fields, and its policy's origins are entries of an allowlist.
BuilderOK(b) ==
    /\ b = [profile |-> b.profile, policy |-> b.policy, defaults |-> b.defaults, standalone |-> b.standalone,
            wired |-> b.wired, manifest |-> b.manifest, admin |-> b.admin]
    /\ \A e \in b.policy.cors.entries : IsEntry(e)

\* What was built passed every check of build(), and no setter changes it any more.
BuiltWasValidated ==
    phase = "built" =>
        ValidateManifest(builder) /\ ValidateDeploymentEnvironment(builder) /\ ValidateProductionAssembly(builder)

IInv == BuilderOK(builder) /\ BuiltWasValidated

===============================================================================
