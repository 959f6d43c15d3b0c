----------------------------- MODULE ApiAssembly ------------------------------
(***************************************************************************)
(* Composition of one gateway profile: owners contribute a router, a route  *)
(* manifest and an OpenAPI document, modules of contributions are           *)
(* registered in any order, and the selected ones are validated and merged  *)
(* (bootstrap api_assembly.rs).  A contribution is                          *)
(* [owner, routes, document, permissions]; its router serves its routes.    *)
(***************************************************************************)
EXTENDS OpenApiDocument

CONSTANTS
    Modules,       \* [owner, sources]: sources is a sequence of [owner, routes, documents]
    Dependencies,  \* <<host, dependency>>: sources a host mounts under its own origin
    KebabOwner,    \* the owners with an sdkwork- identity
    Infrastructure,\* INFRASTRUCTURE_PATHS
    MaxModules,
    Refused        \* an Err or a panic

VARIABLES
    registry,  \* ApiModuleRegistry: [modules, ignored]
    profile,   \* ComposedApiAssembly, Refused, or NoDocument before the composition
    assembling

vars == <<registry, profile, assembling>>

Init ==
    /\ registry = [modules |-> <<>>, ignored |-> <<>>]
    /\ profile = NoDocument /\ assembling = TRUE

-------------------------------------------------------------------------------
\* Contributions.

PermissionCatalog(routes) ==
    UNION {routes[i].alternates \cup
            (IF routes[i].permission = NoMode THEN {} ELSE {routes[i].permission}) : i \in DOMAIN routes}

CollisionKey(route) == <<route.method, NormalizedTemplatePath(route.path)>>

ValidateManifest(routes) ==
    \A i \in DOMAIN routes :
        /\ ValidateCompatibilityContract(routes[i]) /\ routes[i].retention
        /\ NormalizeRoutePath(TemplateText(routes[i].path)) \notin Infrastructure
        /\ \A j \in 1..i - 1 : CollisionKey(routes[i]) # CollisionKey(routes[j])

\* Broken variant: an operation may belong to somebody else.
OwnershipUnchecked(owner, document) == TRUE

ValidateOpenApiOwnership(owner, document) ==
    \A k \in DOMAIN document.entries :
        k.section = "operation" /\ k.name \in {"DELETE", "GET", "PATCH", "POST", "PUT"} =>
            document.entries[k].owner = owner /\ document.entries[k].authority.owner \in KebabOwner

Validate(c) ==
    /\ c.owner \in KebabOwner
    /\ ValidateManifest(c.routes)
    /\ RouteInventoryFromOpenApi(c.document) = RouteInventoryFromRoutes(c.routes)
    /\ ValidateOpenApiOwnership(c.owner, c.document)
    /\ c.permissions = PermissionCatalog(c.routes)

TryNew(owner, routes, document) ==
    LET c == [owner |-> owner, routes |-> routes, permissions |-> PermissionCatalog(routes),
              document |-> EnrichOwnedOpenApiDocument(document, owner, routes)]
    IN IF Validate(c) THEN c ELSE Refused

FromManifest(s) ==
    LET document == BuildOwnedOpenApiDocument(s.owner, s.routes)
    IN IF document = Panicked THEN Refused ELSE TryNew(s.owner, s.routes, document)

\* Authored documents are enriched one by one, merged, and enriched again.
FromOpenApiDocuments(s) ==
    LET merged == MergeOpenApiDocuments([i \in DOMAIN s.documents |->
                    [owner |-> <<s.owner, i>>,
                     document |-> EnrichOwnedOpenApiDocument(s.documents[i], s.owner, s.routes)]])
    IN IF merged = Conflict THEN Refused ELSE TryNew(s.owner, s.routes, merged)

Contribute(s) == IF s.documents = <<>> THEN FromManifest(s) ELSE FromOpenApiDocuments(s)

-------------------------------------------------------------------------------
\* Mounted dependencies.

\* The routes must be new, and be found with the authentication they declare.
MergeRouteManifestMounts(routes, mounted) ==
    LET composed == routes \o mounted IN
    IF \/ \E i \in DOMAIN mounted : Collides(routes, mounted[i])
       \/ ~ValidateIncludesDependency(composed, mounted)
    THEN Refused ELSE composed

\* Router, manifest, permissions and readiness are merged; the document is not.
MergeDependencyContribution(host, dependency) ==
    LET routes == MergeRouteManifestMounts(host.routes, dependency.routes)
    IN IF routes = Refused \/ ~ValidateManifest(routes) THEN Refused
       ELSE [host EXCEPT !.routes = routes, !.permissions = PermissionCatalog(routes)]

Mount(host, dependency) ==
    LET left == Contribute(host)
        right == Contribute(dependency)
    IN IF left = Refused \/ right = Refused THEN Refused ELSE MergeDependencyContribution(left, right)

-------------------------------------------------------------------------------
\* Registration.

Fail == assembling' = FALSE /\ profile' = Refused /\ UNCHANGED registry

\* The first registration of an owner stays.
Register(owner, contributions) ==
    /\ registry' = IF \E i \in DOMAIN registry.modules : registry.modules[i].owner = owner
                   THEN [registry EXCEPT !.ignored = Append(@, owner)]
                   ELSE [registry EXCEPT !.modules = Append(@, [owner |-> owner, contributions |-> contributions])]
    /\ UNCHANGED <<profile, assembling>>

Room == assembling /\ Len(registry.modules) + Len(registry.ignored) < MaxModules

AddModule(m) ==
    LET contributions == [i \in DOMAIN m.sources |-> Contribute(m.sources[i])] IN
    /\ Room
    /\ IF \E i \in DOMAIN contributions : contributions[i] = Refused THEN Fail
       ELSE Register(m.owner, contributions)

\* A host that mounts a dependency and registers the result.
AddHost(host, dependency) ==
    /\ Room
    /\ IF Mount(host, dependency) = Refused THEN Fail
       ELSE Register(host.owner, <<Mount(host, dependency)>>)

-------------------------------------------------------------------------------
\* Composition.

\* Contributions in the order of registration.  An owner an earlier module
\* contributed is skipped; the same module may contribute it twice.
MountedEarlier(modules, m, owner) ==
    \E e \in 1..m - 1 : \E i \in DOMAIN modules[e].contributions : modules[e].contributions[i].owner = owner

KeptUpTo(modules, m) ==
    LET contributions == modules[m].contributions
        kept[i \in 0..Len(contributions)] ==
            IF i = 0 THEN <<>>
            ELSE IF MountedEarlier(modules, m, contributions[i].owner) THEN kept[i - 1]
            ELSE Append(kept[i - 1], contributions[i])
    IN kept

Kept(modules, m) == KeptUpTo(modules, m)[Len(modules[m].contributions)]

FlattenedUpTo(modules) ==
    LET flattened[m \in 0..Len(modules)] ==
            IF m = 0 THEN <<>> ELSE flattened[m - 1] \o Kept(modules, m)
    IN flattened

Flatten(modules) == FlattenedUpTo(modules)[Len(modules)]

Documents(contributions) ==
    [i \in DOMAIN contributions |-> [owner |-> contributions[i].owner, document |-> contributions[i].document]]

\* The routes of the first contributions.
RoutesUpTo(contributions) ==
    LET routes[c \in 0..Len(contributions)] ==
            IF c = 0 THEN <<>> ELSE routes[c - 1] \o contributions[c].routes
    IN routes

TryCompose(contributions) ==
    LET routes == RoutesUpTo(contributions)[Len(contributions)]
        document == MergeOpenApiDocuments(Documents(contributions))
    IN IF /\ contributions # <<>>
          /\ \A i \in DOMAIN contributions : Validate(contributions[i])
          /\ \A i, j \in DOMAIN contributions : i # j => contributions[i].owner # contributions[j].owner
          /\ ValidateManifest(routes)
          /\ document # Conflict
          /\ RouteInventoryFromOpenApi(document) = RouteInventoryFromRoutes(routes)
       THEN [contributions |-> contributions, routes |-> routes, document |-> document,
             permissions |-> UNION {contributions[i].permissions : i \in DOMAIN contributions}]
       ELSE Refused

Compose ==
    /\ assembling
    /\ profile' = TryCompose(Flatten(registry.modules))
    /\ assembling' = FALSE
    /\ UNCHANGED registry

Next ==
    \/ \E m \in Modules : AddModule(m)
    \/ \E d \in Dependencies : AddHost(d[1], d[2])
    \/ Compose

-------------------------------------------------------------------------------
\* Properties.

Composed == profile \notin {NoDocument, Refused}

\* External: the handler the router of a profile picks.  Of two templates that
\* match, the one with a literal where they first differ is served.
RoutedTo(routes, method, path) ==
    LET matching == {i \in DOMAIN routes : routes[i].method = method /\ RoutePathMatches(routes[i].path, path)}
        Literal(i, n) == routes[i].path[n].form = "lit"
        Before(i, j) == \E n \in DOMAIN routes[i].path : /\ Literal(i, n) /\ ~Literal(j, n)
                                                         /\ \A k \in 1..n - 1 : Literal(i, k) = Literal(j, k)
    IN IF matching = {} THEN NoRoute ELSE routes[CHOOSE i \in matching : \A j \in matching \ {i} : Before(i, j)]

\* However modules of several owners are registered, a request is held to the
\* authentication declared by the route whose handler runs, also where a literal
\* template of one owner and a template with parameters of another both match
\* (route_manifest.rs match_route).  Left out: two templates with parameters that
\* both match, which nothing refuses and registration order decides.
HandlerKeepsItsAuth(paths) ==
    Composed => \A method \in {"GET", "POST"}, path \in paths :
        LET matched == MatchRoute(profile.routes, method, path)
            templates == {i \in DOMAIN profile.routes : /\ profile.routes[i].method = method
                            /\ TemplateHasParameters(profile.routes[i].path)
                            /\ RoutePathMatches(profile.routes[i].path, path)}
        IN Cardinality(templates) <= 1 => matched = RoutedTo(profile.routes, method, path)

\* The combined document of a composed profile has one operation per route, and
\* it belongs to the owner whose manifest declares the route, even when an owner
\* writes its documents by hand or spells a parameter another way: it is the
\* operation of that owner's document, with the authentication the route declares
\* as its mode.  Left out: the security an owner wrote by hand, which nothing
\* compares with what the route lets through (enrich_owned_openapi_document).
DocumentSpeaksForOwners ==
    Composed => \A c \in DOMAIN profile.contributions : \A r \in DOMAIN profile.contributions[c].routes :
        LET route == profile.contributions[c].routes[r]
            path == NormalizeRoutePath(TemplateText(route.path))
            operations == {k \in DOMAIN profile.document.entries : /\ k.section = "operation"
                            /\ k.name = route.method /\ NormalizeRoutePath(k.path) = path}
        IN /\ Cardinality(operations) = 1
           /\ \A k \in operations :
                /\ profile.document.entries[k].owner = profile.contributions[c].owner
                /\ profile.document.entries[k].mode = route.auth
                /\ profile.document.entries[k] = profile.contributions[c].document.entries[k]

\* Whatever the order in which the contributions of a composed profile are handed
\* to the merge, they merge, and into the same keys, the same operations and a
\* version of the same line and patch (openapi_merge.rs).  What does depend on the
\* order: which contribution of an owner is among them, decided by registration
\* before (api_assembly.rs try_compose); and the text of the version, the component
\* or the server that stays where the first one does.
MergeIsOrderFree ==
    Composed => \A order \in Bijection(DOMAIN profile.contributions, DOMAIN profile.contributions) :
        LET merged == MergeOwnedDocuments([i \in DOMAIN profile.contributions |->
                        Documents(profile.contributions)[order[i]]])
        IN /\ merged.ok
           /\ merged.version.line = profile.document.version.line
           /\ merged.version.patch = profile.document.version.patch
           /\ DOMAIN merged.entries = DOMAIN profile.document.entries
           /\ \A k \in DOMAIN merged.entries :
                k.section = "operation" => merged.entries[k].value = profile.document.entries[k]

-------------------------------------------------------------------------------
\* What can be registered, and the inductive invariant.

Sources == UNION ({Range(m.sources) : m \in Modules} \cup {{d[1], d[2]} : d \in Dependencies})

ManifestRoutes == UNION {Range(s.routes) : s \in Sources}

TemplateSegments == UNION {Range(r.path) : r \in ManifestRoutes}

AuthoredDocuments == UNION {Range(s.documents) : s \in Sources}

Contributions ==
    ({Contribute(s) : s \in Sources} \cup {Mount(d[1], d[2]) : d \in Dependencies}) \ {Refused}

IsVersion(v) == v.patch \in Nat /\ v # NoDocument

IsDocument(d) ==
    /\ d = [version |-> d.version, shaped |-> d.shaped, entries |-> d.entries]
    /\ IsVersion(d.version) /\ d.shaped \in BOOLEAN
    /\ IsFiniteSet(DOMAIN d.entries)

IsSource(s) ==
    /\ s.routes \in Seq(ManifestRoutes)
    /\ s.documents \in Seq(AuthoredDocuments)

\* Every parameter is written as one: the form of a segment is told by its text
\* and suffix, ":name" is what NormalizeRoutePath rewrites, and what it writes is a
\* whole-segment parameter.
IsSegment(s) ==
    /\ s.form \in {"lit", "param", "colon", "action"}
    /\ s.form \in {"param", "colon"} => s.suffix = ""
    /\ s.form = "action" => s.suffix # ""
    /\ s.form = "colon" <=> s.text \in DOMAIN BraceForm

SpellTheirForm(s, t) ==
    s.suffix = t.suffix =>
        /\ s.text = t.text => s.form = t.form
        /\ s.form = "colon" /\ t.text = BraceForm[s.text] => t.form = "param"

Owners == {m.owner : m \in Modules} \cup {d[1].owner : d \in Dependencies}

TypeOK ==
    /\ registry \in [modules : Seq([owner : Owners, contributions : Seq(Contributions)]), ignored : Seq(Owners)]
    /\ assembling \in BOOLEAN

ProfileIsComposed == Composed => profile = TryCompose(Flatten(registry.modules)) /\ ~assembling

IInv == TypeOK /\ ProfileIsComposed

===============================================================================
