---------------------------- MODULE RouteManifest -----------------------------
(***************************************************************************)
(* Route manifests: which declared route a request is, which API surface    *)
(* its path lies on, whether it is public, and what a manifest must satisfy *)
(* (route_manifest.rs, surface.rs, sdkwork-web-contract lib.rs).            *)
(*                                                                         *)
(* A path is a sequence of segments [text, suffix]: suffix is the ":action" *)
(* a value may end with.  An empty segment stands for a doubled slash.  A   *)
(* template segment has a form: a literal, a whole-segment {parameter}, a   *)
(* parameter followed by an action, or the ":name" of other routers, which  *)
(* only the identity of a route treats as a parameter.                      *)
(***************************************************************************)
EXTENDS Naturals, Sequences, SequencesExt

CONSTANT NoRoute  \* match_route found nothing

Surface == {"open", "app", "backend", "internal", "gateway", "unknown"}

RouteAuth == {"Public", "BootstrapBody", "CredentialEntryBootstrap", "RefreshToken", "DualToken",
    "DualTokenOrAnonymous", "ApiKey", "IngressToken", "OAuth", "OpenApiFlexible",
    "OpenApiBearerFlexible", "ApiKeyOrDualToken", "AgentToken", "Compatibility"}

SkipsCredentialResolution(auth) == auth \in {"Public", "BootstrapBody", "RefreshToken"}

\* The credential headers a route of each profile lets through.
AllowedCredentialHeaders(auth) ==
    CASE auth \in {"Public", "BootstrapBody", "RefreshToken"} -> {}
      [] auth = "CredentialEntryBootstrap" -> {"access-token"}
      [] auth \in {"DualToken", "DualTokenOrAnonymous"} -> {"authorization", "access-token"}
      [] auth = "ApiKey" -> {"x-api-key"}
      [] auth = "OAuth" -> {"authorization"}
      [] auth \in {"OpenApiFlexible", "OpenApiBearerFlexible"} -> {"authorization", "x-api-key"}
      [] auth = "ApiKeyOrDualToken" -> {"authorization", "access-token", "x-api-key"}
      [] auth = "IngressToken" -> {"x-sdkwork-ingress-token", "access-token"}
      [] auth = "AgentToken" -> {"x-sdkwork-agent-token", "access-token"}

-------------------------------------------------------------------------------
\* Matching.

PathSegments(path) == SelectSeq(path, LAMBDA s : s.text # "" \/ s.suffix # "")

TemplateSegmentMatches(template, actual) ==
    CASE template.form = "param" -> TRUE
      [] template.form = "action" -> actual.text # "" /\ actual.suffix = template.suffix
      [] OTHER -> template.text = actual.text /\ template.suffix = actual.suffix

RoutePathMatches(template, path) ==
    LET actual == PathSegments(path) IN
    /\ Len(template) = Len(actual)
    /\ \A i \in DOMAIN template : TemplateSegmentMatches(template[i], actual[i])

TemplateHasParameters(template) == \E i \in DOMAIN template : template[i].form \in {"param", "action"}

\* The positions of the routes that match.
Candidates(routes, method, path) ==
    {i \in DOMAIN routes : routes[i].method = method /\ RoutePathMatches(routes[i].path, path)}

\* Broken variant: the first route that matches, in the order of registration.
FirstMatch(routes, method, path) ==
    LET candidates == Candidates(routes, method, path)
    IN IF candidates # {} THEN routes[Min(candidates)] ELSE NoRoute

\* A template without parameters goes before one with parameters; within each
\* class the order of registration decides.
MatchRoute(routes, method, path) ==
    LET candidates == Candidates(routes, method, path)
        literal == {i \in candidates : ~TemplateHasParameters(routes[i].path)}
    IN IF literal # {} THEN routes[Min(literal)]
       ELSE IF candidates # {} THEN routes[Min(candidates)] ELSE NoRoute

-------------------------------------------------------------------------------
\* Surfaces.  The prefix "/" covers the root only.

MatchesPrefix(path, prefix) == path = prefix \/ (prefix # <<>> /\ IsPrefix(prefix, path))

\* The first surface, in this order, with a prefix of the path.
ClassifyApiSurface(path, profile) ==
    LET Under(prefixes) == \E p \in prefixes : MatchesPrefix(path, p) IN
    IF Under({profile.app}) THEN "app"
    ELSE IF Under({profile.backend}) THEN "backend"
    ELSE IF Under({profile.internal}) THEN "internal"
    ELSE IF Under(profile.gateway) THEN "gateway"
    ELSE IF Under(profile.open) THEN "open" ELSE "unknown"

IsPublicPath(path, profile) == \E p \in profile.public : MatchesPrefix(path, p)

\* A matched route decides; the public prefixes are for paths no route matches.
ResolvePublicPath(routes, method, path, profile) ==
    LET route == MatchRoute(routes, method, path) IN
    IF route # NoRoute THEN SkipsCredentialResolution(route.auth) ELSE IsPublicPath(path, profile)

-------------------------------------------------------------------------------
\* What a manifest must satisfy.

\* A template seen as the path it is written as.
TemplateText(template) == [i \in DOMAIN template |-> [text |-> template[i].text, suffix |-> template[i].suffix]]

ValidatePublicPathPrefixes(routes, prefixes) ==
    \A i \in DOMAIN routes :
        SkipsCredentialResolution(routes[i].auth)
            \/ \A p \in prefixes : ~MatchesPrefix(TemplateText(routes[i].path), p)

\* The authentication profiles a surface admits.
AdmittedAuth(surface) ==
    CASE surface = "app" ->
            {"Public", "RefreshToken", "DualTokenOrAnonymous", "DualToken", "CredentialEntryBootstrap"}
      [] surface = "gateway" -> {"DualToken", "CredentialEntryBootstrap"}
      [] surface = "backend" ->
            {"Public", "DualToken", "CredentialEntryBootstrap", "BootstrapBody", "AgentToken"}
      [] surface = "internal" -> {"IngressToken"}
      [] surface = "open" -> {"Public", "Compatibility", "ApiKey", "OAuth", "OpenApiFlexible", "ApiKeyOrDualToken"}
      [] OTHER -> RouteAuth

\* A compatibility contract is declared by compatibility routes and only by them.
ValidateCompatibilityContract(route) == (route.auth = "Compatibility") <=> route.contract

ValidateRouteAuthForSurfaces(routes, profile) ==
    \A i \in DOMAIN routes :
        /\ ValidateCompatibilityContract(routes[i])
        /\ routes[i].auth \in AdmittedAuth(ClassifyApiSurface(TemplateText(routes[i].path), profile))

\* The surfaces whose requests must not select a tenant themselves.
RequiresClientContextSelectorGuard(surface) == surface \in {"app", "open", "internal", "gateway"}

\* "/iam/tenants" or "/iam/organizations" anywhere in the path.
IsCanonicalIamContextResourcePath(path) ==
    \E i \in 1..Len(path) - 1 :
        path[i].text = "iam" /\ path[i + 1].text \in {"tenants", "organizations"} /\ path[i + 1].suffix = ""

\* "/tenants/" or "/organizations/" inside the path.
HasAmbientContextMarker(path) ==
    \E i \in 1..Len(path) - 1 : path[i].text \in {"tenants", "organizations"} /\ path[i].suffix = ""

ValidateNoAmbientContextPathMarkers(routes, profile) ==
    \A i \in DOMAIN routes :
        LET path == TemplateText(routes[i].path) IN
        \/ ~RequiresClientContextSelectorGuard(ClassifyApiSurface(path, profile))
        \/ IsCanonicalIamContextResourcePath(path)
        \/ ~HasAmbientContextMarker(path)

-------------------------------------------------------------------------------
\* Composition of manifests.

\* Whole-segment parameters are alike; a parameter with an action keeps its name.
NormalizedTemplatePath(template) ==
    [i \in DOMAIN template |->
        IF template[i].form \in {"param", "colon"} THEN [text |-> "{}", suffix |-> ""]
        ELSE TemplateText(template)[i]]

ManifestRouteIdentity(route) == <<route.method, NormalizedTemplatePath(route.path)>>

\* Whether a route may join the ones already there.
Collides(routes, route) ==
    \E i \in DOMAIN routes : ManifestRouteIdentity(routes[i]) = ManifestRouteIdentity(route)

\* Every route of a dependency is found in the composed manifest, by its own
\* template, with the authentication it declares.
ValidateIncludesDependency(composed, routes) ==
    \A i \in DOMAIN routes :
        LET found == MatchRoute(composed, routes[i].method, TemplateText(routes[i].path)) IN
        found # NoRoute /\ found.auth = routes[i].auth

===============================================================================
