--------------------------- MODULE OpenApiDocument ----------------------------
(***************************************************************************)
(* The OpenAPI document of one owner: generated from its routes, or written *)
(* by hand and enriched with what the routes declare; and the inventories   *)
(* that must agree (sdkwork-web-contract openapi.rs, inventory.rs).         *)
(*                                                                         *)
(* A route is the RouteManifest record with [id, list, alternates, external,*)
(* upstream, retention] besides: list when its operation id ends in .list,  *)
(* upstream the context selectors the upstream operation of a compatibility *)
(* route declares, external when it mirrors a vendor's wire.  An operation  *)
(* is [id, surface, mode, owner, authority, security, selectors]; security  *)
(* is a set of alternatives, each the headers its schemes name.             *)
(***************************************************************************)
EXTENDS RouteManifest, OpenApiMerge, FiniteSets

CONSTANTS
    NoOwner, NoMode,  \* extensions an authored operation does not carry
    Panicked,         \* a generated document that violates its own rules
    ContractPrefix,   \* [app, backend, internal, gateway]: the reserved prefixes
    Longer,           \* <<a, b>>: the text a starts with the text b
    BraceForm         \* ":name" |-> "{name}"

-------------------------------------------------------------------------------
\* Surfaces.

\* str::starts_with: the last segment may go on.
StartsWith(path, prefix) ==
    /\ Len(path) >= Len(prefix)
    /\ \A i \in 1..Len(prefix) - 1 : path[i] = prefix[i]
    /\ LET n == Len(prefix) IN path[n] = prefix[n] \/ <<path[n].text, prefix[n].text>> \in Longer

\* Whatever is under no reserved prefix is open.
InferApiSurfaceFromPath(path) ==
    CASE StartsWith(path, ContractPrefix.app) -> "app"
      [] StartsWith(path, ContractPrefix.backend) -> "backend"
      [] StartsWith(path, ContractPrefix.internal) -> "internal"
      [] StartsWith(path, ContractPrefix.gateway) -> "gateway"
      [] OTHER -> "open"

-------------------------------------------------------------------------------
\* Operations.

CompatibilitySecurityRequirements(route) == {route.schemes[i] : i \in DOMAIN route.schemes}

\* The headers of each security alternative; Authorization carries AuthToken and
\* OAuthBearer.  An optional credential is documented as a required one.
OperationSecurity(route) ==
    CASE route.auth \in {"Public", "BootstrapBody", "RefreshToken"} -> {}
      [] route.auth = "CredentialEntryBootstrap" -> {{"access-token"}}
      [] route.auth \in {"DualToken", "DualTokenOrAnonymous"} -> {{"authorization", "access-token"}}
      [] route.auth = "ApiKey" -> {{"x-api-key"}}
      [] route.auth \in {"OAuth", "OpenApiBearerFlexible"} -> {{"authorization"}}
      [] route.auth = "OpenApiFlexible" -> {{"x-api-key"}, {"authorization"}}
      [] route.auth = "ApiKeyOrDualToken" -> {{"x-api-key"}, {"authorization", "access-token"}}
      [] route.auth = "IngressToken" -> {{"x-sdkwork-ingress-token", "access-token"}}
      [] route.auth = "AgentToken" -> {{"x-sdkwork-agent-token", "access-token"}}
      [] route.auth = "Compatibility" -> CompatibilitySecurityRequirements(route)

\* The context selectors among the parameters of a list: an administrator with an
\* alternate permission may name a tenant.
OpenApiParametersForRoute(route) ==
    IF route.method = "GET" /\ route.list /\ route.alternates # {} THEN {"tenant_id"} ELSE {}

OpenApiExtensionsForRoute(route, operation) ==
    [operation EXCEPT !.surface = InferApiSurfaceFromPath(TemplateText(route.path)), !.mode = route.auth]

NoAuthority == [owner |-> NoOwner, surface |-> NoMode]

ApiAuthorityForRoute(owner, route) ==
    [owner |-> owner, surface |-> InferApiSurfaceFromPath(TemplateText(route.path))]

\* The operation of a compatibility route is the upstream's own, but for its
\* security.
BuildCompatibilityOpenApiOperation(route) ==
    [id |-> route.id, surface |-> NoMode, mode |-> NoMode, owner |-> NoOwner, authority |-> NoAuthority,
     security |-> CompatibilitySecurityRequirements(route), selectors |-> route.upstream]

BuildOpenApiOperation(route) ==
    OpenApiExtensionsForRoute(route,
        IF route.auth = "Compatibility" THEN BuildCompatibilityOpenApiOperation(route)
        ELSE [id |-> route.id, surface |-> NoMode, mode |-> NoMode, owner |-> NoOwner, authority |-> NoAuthority,
              security |-> OperationSecurity(route), selectors |-> OpenApiParametersForRoute(route)])

OperationKey(route) == [section |-> "operation", path |-> TemplateText(route.path), name |-> route.method]

-------------------------------------------------------------------------------
\* Client context selectors.

\* The first segments of mirrored wires; a one-segment path has none to give.
ExternalPrefixes(routes) ==
    {<<TemplateText(routes[i].path)[1]>> : i \in {j \in DOMAIN routes : routes[j].external /\ Len(routes[j].path) > 1}}

IsUnderExternalPrefix(path, prefixes) == \E p \in prefixes : p # <<>> /\ IsPrefix(p, path)

\* A guarded path: no vendor prefix covers it.
ContextSelectorsGuarded(path, prefixes) ==
    RequiresClientContextSelectorGuard(InferApiSurfaceFromPath(path)) /\ ~IsUnderExternalPrefix(path, prefixes)

AmbientMarkerForbidden(path) == HasAmbientContextMarker(path) /\ ~IsCanonicalIamContextResourcePath(path)

ValidateRoutesContextSelectors(routes, prefixes) ==
    \A i \in DOMAIN routes :
        LET path == TemplateText(routes[i].path) IN
        ContextSelectorsGuarded(path, prefixes) /\ ~routes[i].external => ~AmbientMarkerForbidden(path)

\* No parameter and no property of the request body, however nested, selects a
\* context.
ValidateOpenApiParameters(operation) == operation.selectors = {}

ValidateDocumentContextSelectors(entries, prefixes) ==
    \A k \in DOMAIN entries :
        k.section = "operation" /\ ContextSelectorsGuarded(k.path, prefixes)
            => ~AmbientMarkerForbidden(k.path) /\ ValidateOpenApiParameters(entries[k])

-------------------------------------------------------------------------------
\* Documents.

\* Every generated document has the security schemes and envelope schemas.
CommonComponents == [k \in {[section |-> "component", path |-> <<>>, name |-> "schemas"]} |-> "envelopes"]

GeneratedVersion == [text |-> "3.1.2", line |-> "3.1", patch |-> 2]

\* Of two routes with the same method and path the later one is documented.
BuildOpenApiDocument(routes) ==
    LET keys == {OperationKey(routes[i]) : i \in DOMAIN routes}
        Of(k) == routes[CHOOSE i \in DOMAIN routes : OperationKey(routes[i]) = k
                            /\ \A j \in DOMAIN routes : OperationKey(routes[j]) = k => j <= i]
        operations == [k \in keys |-> BuildOpenApiOperation(Of(k))]
        prefixes == ExternalPrefixes(routes)
    IN IF ValidateRoutesContextSelectors(routes, prefixes) /\ ValidateDocumentContextSelectors(operations, prefixes)
       THEN [version |-> GeneratedVersion, shaped |-> TRUE, entries |-> FirstOf(operations, CommonComponents)]
       ELSE Panicked

\* Every generated operation belongs to the owner.
BuildOwnedOpenApiDocument(owner, routes) ==
    LET document == BuildOpenApiDocument(routes)
        Owned(k) == [document.entries[k] EXCEPT !.owner = owner,
                        !.authority = [owner |-> owner, surface |-> InferApiSurfaceFromPath(k.path)]]
    IN IF document = Panicked THEN Panicked
       ELSE [document EXCEPT !.entries = [k \in DOMAIN @ |-> IF k.section = "operation" THEN Owned(k) ELSE @[k]]]

\* The operations found under a route's own path and method are stamped with what
\* the route declares and with their owner.
EnrichOwnedOpenApiDocument(document, owner, routes) ==
    LET Declared(k) == {i \in DOMAIN routes : OperationKey(routes[i]) = k}
        Stamp(operation, route) ==
            [OpenApiExtensionsForRoute(route, operation) EXCEPT !.owner = owner,
                !.authority = ApiAuthorityForRoute(owner, route)]
    IN [document EXCEPT !.entries = [k \in DOMAIN @ |->
            IF Declared(k) = {} THEN @[k]
            ELSE Stamp(@[k], routes[CHOOSE i \in Declared(k) : \A j \in Declared(k) : j <= i])]]

-------------------------------------------------------------------------------
\* Inventories, as sets of rows with the number of rows they were made from; an
\* inventory that could not be taken is not ok.

NormalizeRoutePath(path) ==
    [i \in DOMAIN path |->
        IF path[i].text \in DOMAIN BraceForm THEN [path[i] EXCEPT !.text = BraceForm[path[i].text]] ELSE path[i]]

InventoryEntry(surface, method, path, id, mode) ==
    [surface |-> surface, method |-> method, path |-> NormalizeRoutePath(path), id |-> id, mode |-> mode]

RouteInventoryFromRoutes(routes) ==
    [ok |-> TRUE, count |-> Len(routes),
     rows |-> {InventoryEntry(InferApiSurfaceFromPath(TemplateText(routes[i].path)), routes[i].method,
                    TemplateText(routes[i].path), routes[i].id, routes[i].auth) : i \in DOMAIN routes}]

\* An operation without the extensions has no row; it is an error.
RouteInventoryFromOpenApi(document) ==
    LET operations == {k \in DOMAIN document.entries :
                        k.section = "operation" /\ k.name \in {"DELETE", "GET", "PATCH", "POST", "PUT"}}
    IN [ok |-> \A k \in operations : document.entries[k].mode # NoMode,
        count |-> Cardinality(operations),
        rows |-> {InventoryEntry(document.entries[k].surface, k.name, k.path,
                        document.entries[k].id, document.entries[k].mode) : k \in operations}]

===============================================================================
