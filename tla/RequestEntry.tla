----------------------------- MODULE RequestEntry -----------------------------
(***************************************************************************)
(* The decisions the interceptor chain takes for one request after another: *)
(* classification, origin checks, body guards, the scope of the idempotency *)
(* key, credential resolution, authentication, authorization and tenant     *)
(* isolation (interceptors.rs, api_chain.rs, security.rs,                   *)
(* client_context_guard.rs, path_resource_guard.rs, policies.rs).           *)
(*                                                                         *)
(* RequestPipeline models what concurrent requests share; here the stages   *)
(* run to the end of one request and the next one starts, and what stays is *)
(* which principal used which idempotency scope.  A route manifest is bound *)
(* and its routes are admitted on their surfaces.                           *)
(***************************************************************************)
EXTENDS Credentials, RouteManifest, OriginPolicy, FiniteSets, FiniteSetsExt

CONSTANTS
    Request,            \* the requests clients send
    Routes, Profile,    \* HttpRouteManifest, WebRequestContextProfile
    Cors, Overlays,     \* the configured CORS policy and the dynamic ones
    AllowedMethods, MaxContentLength,
    EnforcePrincipal,   \* EnforcePrincipalTenantIsolationPolicy is wired
    LoginSelectionPath, \* the path that may select an organization
    NoKey, NoPermission, NoRequest, NoOverlay,
    Now, Sessions, MaxRequests

VARIABLES
    request,   \* the request in the chain, or NoRequest
    stage,     \* the interceptor to run next, "served" or "refused"
    call,      \* WebCallState
    error,     \* why it was refused
    owners,    \* <<store key, principal>> of the served requests with a key
    revoked,   \* revoked sessions
    known,     \* the sessions revoked when the request arrived
    handled    \* requests that left the chain

vars == <<request, stage, call, error, owners, revoked, known, handled>>

CredentialHeader == {"authorization", "access-token", "x-api-key", "x-sdkwork-ingress-token",
    "x-sdkwork-agent-token"}

Stages == <<"SurfaceClassification", "Cors", "MethodGuard", "CrossSiteRequest", "SqlInjectionGuard",
    "RequestSizeLimit", "RateLimit", "Idempotency", "RequestContextResolution", "Authentication",
    "Authorization", "TenantIsolation", "served">>

-------------------------------------------------------------------------------
\* WebCallState

NewCall == [surface |-> "unknown", public |-> FALSE, route |-> NoRoute, cors |-> NoOverlay,
            key |-> NoKey, mode |-> "Public", principal |-> NoPrincipal]

\* bearer_token: Authorization counts only with the Bearer prefix.
AuthToken(r) ==
    LET raw == r.headers["authorization"] IN
    IF raw # NoToken /\ raw.shape # "basic" THEN raw ELSE NoToken

AccessToken(r) == r.headers["access-token"]

OAuthBearer(r) == IF AccessToken(r) = NoToken THEN AuthToken(r) ELSE NoToken

IsCorsPreflight(r) == r.method = "OPTIONS" /\ r.origin # NoOrigin /\ r.asked # NoRequest

CredentialsPresent(r) ==
    AuthToken(r) # NoToken \/ \E h \in CredentialHeader \ {"authorization"} : r.headers[h] # NoToken

\* Broken variant: every credential is taken for a pair of tokens.
TokenPairKey(r, public) ==
    IF public THEN <<"public">> ELSE <<"tokens", AuthToken(r), AccessToken(r)>>

\* The credential that scopes the key, by its kind and value.  No principal is
\* resolved yet when the key is scoped.
ScopedIdempotencyStoreKey(r, public) ==
    LET Sent(h) == r.headers[h] # NoToken IN
    CASE public -> <<"public">>
      [] ~public /\ Sent("x-api-key") -> <<"api_key", r.headers["x-api-key"]>>
      [] ~public /\ ~Sent("x-api-key") /\ Sent("x-sdkwork-ingress-token") ->
            <<"ingress_token", r.headers["x-sdkwork-ingress-token"]>>
      [] ~public /\ ~Sent("x-api-key") /\ ~Sent("x-sdkwork-ingress-token") /\ Sent("x-sdkwork-agent-token") ->
            <<"agent_token", r.headers["x-sdkwork-agent-token"]>>
      [] OTHER -> IF OAuthBearer(r) # NoToken THEN <<"oauth", OAuthBearer(r)>>
                  ELSE <<"tokens", AuthToken(r), AccessToken(r)>>

EffectiveCors == IF call.cors # NoOverlay THEN call.cors ELSE Cors

-------------------------------------------------------------------------------
\* Leaving a stage.

At(name) == request # NoRequest /\ stage = name

NextStage == Stages[(CHOOSE i \in DOMAIN Stages : Stages[i] = stage) + 1]

Pass(newCall) ==
    /\ stage' = NextStage
    /\ call' = newCall
    /\ UNCHANGED <<request, error, owners, revoked, known, handled>>

Refuse(kind) ==
    /\ stage' = "refused" /\ error' = kind
    /\ UNCHANGED <<request, call, owners, revoked, known, handled>>

\* A refusal that emits a security event.  The default emitter records nothing,
\* and the SQLx one logs a failed write and goes on; an emitter of the
\* deployment's own that returns its error replaces the refusal.
EmitSecurityEvent(kind) == Refuse(kind) \/ Refuse("DependencyUnavailable")

-------------------------------------------------------------------------------
\* SurfaceClassification

ValidateStandardRouteAuthCredentials(auth, r) ==
    LET sent == {h \in CredentialHeader : r.headers[h] # NoToken} IN
    /\ sent \subseteq AllowedCredentialHeaders(auth)
    /\ auth = "ApiKeyOrDualToken" =>
        /\ "x-api-key" \in sent => sent = {"x-api-key"}
        /\ "authorization" \in sent <=> "access-token" \in sent

\* A compatibility route receives the headers its schemes name.
ValidateRouteAuthCredentials(route, r) ==
    IF route.auth = "Compatibility"
    THEN \A h \in CredentialHeader : r.headers[h] # NoToken => \E i \in DOMAIN route.schemes : h \in route.schemes[i]
    ELSE ValidateStandardRouteAuthCredentials(route.auth, r)

RejectClientContextSelectors(r, surface) ==
    RequiresClientContextSelectorGuard(surface) =>
        /\ IsCanonicalIamContextResourcePath(r.path) \/ ~HasAmbientContextMarker(r.path)
        /\ ~r.query

IsExternalProtocolPath(path) == \E p \in Profile.external : MatchesPrefix(path, p)

SurfaceClassification ==
    /\ At("SurfaceClassification")
    /\ LET surface == ClassifyApiSurface(request.path, Profile)
           route == MatchRoute(Routes, request.method, request.path)
           public == ResolvePublicPath(Routes, request.method, request.path, Profile)
       IN IF \/ route # NoRoute /\ ~ValidateRouteAuthCredentials(route, request)
             \/ surface \notin {"unknown", "gateway"} /\
                   \/ request.projection
                   \/ ~IsExternalProtocolPath(request.path) /\ ~RejectClientContextSelectors(request, surface)
          THEN Refuse("BadRequest")
          ELSE \/ Pass([call EXCEPT !.surface = surface, !.public = public, !.route = route])
               \/ Refuse("DependencyUnavailable")  \* refresh_tenant_runtime_profile

-------------------------------------------------------------------------------
\* Origin checks.

CorsStage ==
    /\ At("Cors")
    /\ \/ /\ call.surface = "open"
          /\ Pass(call)
       \/ /\ call.surface # "open"
          /\ \E overlay \in Overlays \cup {NoOverlay} :
                LET cors == IF overlay # NoOverlay THEN overlay ELSE Cors
                    checked == ~call.public \/ IsCorsPreflight(request)
                IN IF checked /\ ~( /\ ValidateOrigin(cors, request.origin)
                                    /\ IsCorsPreflight(request) =>
                                        ValidatePreflight(cors, AllowedMethods, request.asked) )
                   THEN EmitSecurityEvent("Forbidden")
                   ELSE Pass([call EXCEPT !.cors = overlay])
       \/ call.surface # "open" /\ Refuse("DependencyUnavailable")

MethodGuard ==
    /\ At("MethodGuard")
    /\ IF request.method \in AllowedMethods THEN Pass(call) ELSE Refuse("MethodNotAllowed")

\* Broken variant: public paths need no trusted source even with a cookie.
CrossSiteSkippingPublic ==
    /\ At("CrossSiteRequest")
    /\ IF IsCorsPreflight(request) \/ call.surface = "open" \/ call.public
       THEN Pass(call)
       ELSE IF ValidateCrossSiteRequest(EffectiveCors, request, call.public)
            THEN Pass(call) ELSE EmitSecurityEvent("Forbidden")

CrossSiteRequest ==
    /\ At("CrossSiteRequest")
    /\ IF \/ IsCorsPreflight(request) \/ call.surface = "open"
          \/ ValidateCrossSiteRequest(EffectiveCors, request, call.public)
       THEN Pass(call)
       ELSE EmitSecurityEvent("Forbidden")

-------------------------------------------------------------------------------
\* Guards on the request line and the body.

SqlInjectionGuard ==
    /\ At("SqlInjectionGuard")
    /\ IF request.suspicious THEN Refuse("BadRequest") ELSE Pass(call)

\* A body of unknown length is refused where its size has a limit.
ValidateContentLength(r) ==
    IF r.body.length = NoKey
    THEN ~(r.method \in {"POST", "PUT", "PATCH"} /\ r.body.chunked)
    ELSE r.body.length <= MaxContentLength

HasBody(r) == r.body.chunked \/ (r.body.length # NoKey /\ r.body.length > 0)

ValidateJsonContentType(r) == IsStateChangingMethod(r.method) /\ HasBody(r) => r.body.json

\* The keys of a JSON body must not select a tenant; one path selects an organization.
InspectJsonBodyContextSelectors(r, surface) ==
    RequiresClientContextSelectorGuard(surface) /\ r.method \in {"POST", "PUT", "PATCH"} /\ HasBody(r) /\ r.body.json =>
        \/ r.body.selector = "none"
        \/ r.body.selector = "organization" /\ r.path = LoginSelectionPath

RequestSizeLimit ==
    /\ At("RequestSizeLimit")
    /\ IF ~ValidateContentLength(request)
       THEN Refuse(IF request.body.length = NoKey THEN "BadRequest" ELSE "PayloadTooLarge")
       ELSE IF \/ ~ValidateJsonContentType(request)
               \/ ~IsExternalProtocolPath(request.path) /\ ~InspectJsonBodyContextSelectors(request, call.surface)
            THEN Refuse("BadRequest") ELSE Pass(call)

\* The stores decide (RateLimiters); monitoring paths and preflights are not charged.
ApplyRateLimit(newCall) ==
    Pass(newCall) \/ EmitSecurityEvent("RateLimitExceeded") \/ Refuse("DependencyUnavailable")

IsHealthOrMetrics(path) ==
    path \in {<<[text |-> name, suffix |-> ""]>> : name \in {"healthz", "readyz", "livez", "metrics", "favicon.ico"}}

RateLimit ==
    /\ At("RateLimit")
    /\ IF IsCorsPreflight(request) \/ IsHealthOrMetrics(request.path) THEN Pass(call) ELSE ApplyRateLimit(call)

-------------------------------------------------------------------------------
\* Idempotency.  The store decides who leads (IdempotencyContract); the key it is
\* asked about is what matters here.

IdempotencyRequired == call.route # NoRoute /\ call.route.idempotent

Idempotency ==
    /\ At("Idempotency")
    /\ IF \/ ~IdempotencyRequired \/ ~IsStateChangingMethod(request.method) \/ IsCorsPreflight(request)
          \/ ~call.public /\ ~CredentialsPresent(request)
       THEN Pass(call)
       ELSE IF request.key = NoKey \/ (HasBody(request) /\ ~request.body.hash)
            THEN Refuse("BadRequest")
            ELSE \/ Pass([call EXCEPT !.key = <<ScopedIdempotencyStoreKey(request, call.public), request.key>>])
                 \/ \E kind \in {"Conflict", "DependencyUnavailable"} : Refuse(kind)

-------------------------------------------------------------------------------
\* RequestContextResolution.  A resolution is [error, principal, mode].

As(mode, result) == [error |-> result.error, principal |-> result.principal, mode |-> mode]

NoContext(mode) == As(mode, Resolved(NoPrincipal))

FinishAccessTokenOnlyContext(r, mode) ==
    IF AccessToken(r) = NoToken THEN As(mode, Failed("MissingCredentials"))
    ELSE As(mode, ResolveAccessToken(AccessToken(r), Now, revoked))

DualTokenContext(r) ==
    IF AuthToken(r) = NoToken \/ AccessToken(r) = NoToken THEN As("DualToken", Failed("MissingCredentials"))
    ELSE As("DualToken", ResolveDualToken(AuthToken(r), AccessToken(r), Now, revoked))

\* An ingress or agent token with an access token: the access token must be
\* good, and the principal is the key's.
KeyWithAccessToken(r, header, mode) ==
    IF r.headers[header] = NoToken \/ AccessToken(r) = NoToken THEN As(mode, Failed("MissingCredentials"))
    ELSE LET access == ResolveAccessToken(AccessToken(r), Now, revoked) IN
         IF access.error # NoError THEN As(mode, access) ELSE As(mode, ResolveApiKey(r.headers[header]))

ApiKeyContext(r) == As("ApiKey", ResolveApiKey(r.headers["x-api-key"]))
OAuthContext(r) == As("OAuth", ResolveOAuthBearer(OAuthBearer(r), Now, revoked))

\* A single bearer, or else the key header, classified by its prefix.
ResolveOpenApiBearerFlexible(r) ==
    LET raw == IF OAuthBearer(r) # NoToken THEN OAuthBearer(r) ELSE r.headers["x-api-key"] IN
    CASE raw = NoToken -> As("OAuth", Failed("MissingCredentials"))
      [] raw # NoToken /\ raw.shape = "key" -> As("ApiKey", ResolveApiKey(raw))
      [] OTHER -> As("OAuth", ResolveOAuthBearer(raw, Now, revoked))

\* DefaultOpenApiCredentialSchemeDetector: the scheme of the headers, "none" when
\* nothing it knows is sent, "mixed" when profiles contaminate each other.
DetectScheme(r, auth) ==
    LET key == r.headers["x-api-key"] # NoToken
        token == AuthToken(r) # NoToken
        access == AccessToken(r) # NoToken
        oauth == OAuthBearer(r) # NoToken
    IN CASE auth = "ApiKey" -> IF ~key THEN "none" ELSE IF oauth THEN "mixed" ELSE "ApiKey"
         [] auth = "OAuth" -> IF ~oauth THEN "none" ELSE IF key THEN "mixed" ELSE "OAuth"
         [] auth = "ApiKeyOrDualToken" ->
                IF (key /\ (token \/ access)) \/ token # access THEN "mixed"
                ELSE IF key THEN "ApiKey" ELSE IF token THEN "DualToken" ELSE "none"
         [] auth \in {"DualToken", "DualTokenOrAnonymous"} -> IF token /\ access THEN "DualToken" ELSE "none"
         [] OTHER -> IF key THEN "ApiKey" ELSE IF oauth THEN "OAuth" ELSE "none"

ResolveOpenApiRequestContext(r, auth) ==
    LET scheme == DetectScheme(r, auth) IN
    CASE scheme = "ApiKey" -> ApiKeyContext(r)
      [] scheme = "OAuth" -> OAuthContext(r)
      [] scheme = "DualToken" -> DualTokenContext(r)
      [] scheme = "none" -> As("Public", Failed("MissingCredentials"))
      [] scheme = "mixed" -> As("Public", Failed("InvalidCredentials"))

\* The alternatives of a compatibility route whose every header is sent.
CompleteAlternatives(route, r) ==
    LET Value(h) == IF h = "authorization" THEN AuthToken(r) ELSE r.headers[h]
    IN {i \in DOMAIN route.schemes : \A h \in route.schemes[i] : Value(h) # NoToken}

\* The protocol adapter: it knows every credential, and they belong to one user.
ResolveCompatibility(credentials) ==
    IF /\ \A c \in credentials : c.known
       /\ \A c, d \in credentials : c.tenant = d.tenant /\ c.user = d.user
    THEN ResolveRecord(CHOOSE c \in credentials : TRUE, "compatibility")
    ELSE Failed("InvalidCredentials")

\* Exactly one alternative must be complete.
ExtractCompatibilityCredentials(route, r) ==
    LET complete == CompleteAlternatives(route, r) IN
    CASE complete = {} -> As("Compatibility", Failed("MissingCredentials"))
      [] Cardinality(complete) > 1 -> As("Compatibility", Failed("BadRequest"))
      [] OTHER -> As("Compatibility", ResolveCompatibility(
                        {r.headers[h] : h \in route.schemes[CHOOSE i \in complete : TRUE]}))

OpenApiContext(r) ==
    LET auth == IF call.route # NoRoute THEN call.route.auth
                ELSE IF AccessToken(r) # NoToken THEN "ApiKeyOrDualToken" ELSE "OpenApiFlexible"
    IN CASE auth = "Public" -> NoContext("Public")
         [] auth = "RefreshToken" -> As("Public", Failed("BadRequest"))
         [] auth = "CredentialEntryBootstrap" -> FinishAccessTokenOnlyContext(r, auth)
         [] auth = "Compatibility" -> ExtractCompatibilityCredentials(call.route, r)
         [] auth = "OpenApiBearerFlexible" -> ResolveOpenApiBearerFlexible(r)
         [] OTHER -> ResolveOpenApiRequestContext(r, auth)

InternalApiContext(r) ==
    IF call.route = NoRoute \/ call.route.auth # "IngressToken"
    THEN As("Public", Failed("MissingCredentials"))
    ELSE KeyWithAccessToken(r, "x-sdkwork-ingress-token", "IngressToken")

\* App, backend and gateway surfaces.  The surface of each profile is the one
\* that admits it; elsewhere it is refused.
TokenApiContext(r) ==
    LET auth == IF call.route # NoRoute THEN call.route.auth ELSE "none"
        On(surfaces, result) ==
            IF call.surface \in surfaces THEN result
            ELSE As("Public", Failed(IF auth = "RefreshToken" THEN "BadRequest" ELSE "MissingCredentials"))
    IN CASE auth = "none" -> As("Public", Failed("NotFound"))
         [] auth = "Public" -> On({"app", "backend"}, NoContext("Public"))
         [] auth = "DualTokenOrAnonymous" ->
                On({"app"}, IF AuthToken(r) # NoToken /\ AccessToken(r) # NoToken
                            THEN DualTokenContext(r) ELSE NoContext("Public"))
         [] auth = "BootstrapBody" -> On({"backend"}, NoContext(auth))
         [] auth = "RefreshToken" -> On({"app"}, NoContext(auth))
         [] auth = "CredentialEntryBootstrap" -> FinishAccessTokenOnlyContext(r, auth)
         [] auth = "AgentToken" -> KeyWithAccessToken(r, "x-sdkwork-agent-token", auth)
         [] OTHER -> DualTokenContext(r)

\* Broken variant: a public prefix is enough on every surface.
ResolvePublicAnywhere(r) ==
    CASE IsCorsPreflight(r) \/ call.public -> NoContext("Public")
      [] OTHER -> IF call.surface = "open" THEN OpenApiContext(r)
                  ELSE IF call.surface = "internal" THEN InternalApiContext(r)
                  ELSE IF call.surface = "unknown" THEN As("Public", Failed("MissingCredentials"))
                  ELSE TokenApiContext(r)

ResolveRequestContext(r) ==
    CASE IsCorsPreflight(r) \/ (call.surface = "unknown" /\ call.public) -> NoContext("Public")
      [] ~IsCorsPreflight(r) /\ call.surface = "open" -> OpenApiContext(r)
      [] ~IsCorsPreflight(r) /\ call.surface = "internal" -> InternalApiContext(r)
      [] ~IsCorsPreflight(r) /\ call.surface \in {"app", "backend", "gateway"} -> TokenApiContext(r)
      [] OTHER -> As("Public", Failed("MissingCredentials"))

RequestContextResolution ==
    /\ At("RequestContextResolution")
    /\ LET context == ResolveRequestContext(request) IN
       IF context.error # NoError THEN Refuse(context.error)
       ELSE Pass([call EXCEPT !.mode = context.mode, !.principal = context.principal])

-------------------------------------------------------------------------------
\* Authentication, authorization and tenant isolation.

OnOptionalRoute == call.route # NoRoute /\ call.route.auth = "DualTokenOrAnonymous"

RequireAuthenticatedContext ==
    \/ call.public \/ IsCorsPreflight(request)
    \/ OnOptionalRoute /\ call.mode = "Public" /\ ~CredentialsPresent(request)
    \/ call.principal # NoPrincipal

Authentication ==
    /\ At("Authentication")
    /\ IF RequireAuthenticatedContext THEN Pass(call)
       ELSE EmitSecurityEvent("MissingCredentials")

\* ManifestAuthorizationPolicy: the permission of an app-api route is left to the
\* service layer.
Authorize ==
    \/ call.route # NoRoute /\ (SkipsCredentialResolution(call.route.auth) \/ OnOptionalRoute)
    \/ /\ call.principal # NoPrincipal
       /\ \/ call.route = NoRoute \/ call.surface = "app"
          \/ call.route.permission = NoPermission
          \/ HasPermission(call.principal, call.route.permission)

\* The tenant is charged once it is known.
Authorization ==
    /\ At("Authorization")
    /\ IF call.public \/ IsCorsPreflight(request) THEN Pass(call)
       ELSE IF Authorize THEN ApplyRateLimit(call) ELSE EmitSecurityEvent("Forbidden")

\* The values of the whole-segment parameters with one of these names; the last
\* one counts.
PathResourceId(route, path, names) ==
    LET actual == PathSegments(path)
        at == {i \in DOMAIN route.path : route.path[i].form = "param" /\ route.path[i].text \in names}
    IN IF at = {} THEN NoClaim ELSE actual[Max(at)].text

TenantParameters == {"{tenantId}"}
OrganizationParameters == {"{organizationId}"}

AllowsCrossTenantResourceAccess ==
    /\ call.surface = "backend"
    /\ call.route.permission # NoPermission
    /\ HasPermission(call.principal, call.route.permission)

\* Broken variant: a tenant that matches ends the check.
VerifyTenantOfPath ==
    LET tenant == PathResourceId(call.route, request.path, TenantParameters) IN
    \/ call.principal = NoPrincipal
    \/ tenant \in {NoClaim, call.principal.tenant}
    \/ AllowsCrossTenantResourceAccess

VerifyPathResourceIdsMatchPrincipal ==
    LET tenant == PathResourceId(call.route, request.path, TenantParameters)
        org == PathResourceId(call.route, request.path, OrganizationParameters)
    IN \/ call.principal = NoPrincipal
       \/ /\ tenant \in {NoClaim, call.principal.tenant}
          /\ org \in {NoClaim, TenantLevel, call.principal.org}
       \/ AllowsCrossTenantResourceAccess

TenantIsolation ==
    /\ At("TenantIsolation")
    /\ IF \/ call.public \/ IsCorsPreflight(request)
          \/ /\ call.route = NoRoute \/ call.route.external \/ VerifyPathResourceIdsMatchPrincipal
             /\ EnforcePrincipal => call.principal # NoPrincipal
       THEN Pass(call)
       ELSE EmitSecurityEvent("Forbidden")

-------------------------------------------------------------------------------
\* Requests one after another, and the owner of the sessions.

Init ==
    /\ request = NoRequest /\ stage = "idle" /\ call = NewCall /\ error = NoError
    /\ owners = {} /\ revoked = {} /\ known = {} /\ handled = 0

Arrive ==
    /\ request = NoRequest /\ handled < MaxRequests
    /\ \E r \in Request :
        /\ request' = r
        /\ stage' = Head(Stages) /\ call' = NewCall /\ error' = NoError
        /\ known' = revoked /\ handled' = handled + 1
        /\ UNCHANGED <<owners, revoked>>

\* A preflight is answered without the handler; a response ends the rest.
Served == stage = "served" /\ ~IsCorsPreflight(request)

Finish ==
    /\ request # NoRequest /\ stage \in {"served", "refused"}
    /\ request' = NoRequest /\ stage' = "idle" /\ call' = NewCall /\ error' = NoError
    /\ known' = {}
    /\ owners' = IF Served /\ call.key # NoKey /\ call.principal # NoPrincipal
                 THEN owners \cup {[key |-> call.key, tenant |-> call.principal.tenant,
                                    app |-> call.principal.app, user |-> call.principal.user]}
                 ELSE owners
    /\ UNCHANGED <<revoked, handled>>

\* The session store marks a session as ended, between or during requests.
RevokeSession ==
    /\ \E s \in Sessions \ revoked : revoked' = revoked \cup {s}
    /\ UNCHANGED <<request, stage, call, error, owners, known, handled>>

Next ==
    \/ Arrive \/ SurfaceClassification \/ CorsStage \/ MethodGuard \/ CrossSiteRequest
    \/ SqlInjectionGuard \/ RequestSizeLimit \/ RateLimit \/ Idempotency
    \/ RequestContextResolution \/ Authentication \/ Authorization \/ TenantIsolation
    \/ Finish \/ RevokeSession

Spec == Init /\ [][Next]_vars

-------------------------------------------------------------------------------
\* Properties.

\* What the tokens of a request say of the principal made from them.
TokensProveIdentity ==
    LET tokens == {AuthToken(request), AccessToken(request)} \ {NoToken} IN
    /\ call.principal # NoPrincipal
    /\ \A t \in tokens :
        /\ SigningKey[t.signer].tenant = call.principal.tenant
        /\ NormalizeOrganizationScope(t.org) = call.principal.org
        /\ t.user \in {NoClaim, call.principal.user}
        /\ EnforceSession => t.session \notin known

\* A handler that runs for a token principal runs for the tenant, organization
\* and user of every token the principal was made from: each token was signed by
\* that tenant's own key, none names another organization scope, and no session
\* revoked before the request arrived is behind it (resolvers.rs dual token
\* merge, TenantBoundJwtVerifier).
ServedIdentityIsProven ==
    Served /\ call.mode \in {"DualToken", "CredentialEntryBootstrap"} => TokensProveIdentity

\* A handler runs without a principal only on a route declared public, for a
\* visitor without any credential on an optional route, or on a public prefix
\* outside every API surface.
AnonymousOnlyWhereDeclared ==
    Served /\ call.principal = NoPrincipal =>
        IF call.route = NoRoute THEN call.surface = "unknown" /\ IsPublicPath(request.path, Profile)
        ELSE \/ SkipsCredentialResolution(call.route.auth)
             \/ OnOptionalRoute /\ ~CredentialsPresent(request)

\* A principal never reaches a handler for a path that names another tenant or
\* another organization, except on the backend surface with the permission the
\* route requires (path_resource_guard.rs); a vendor's own path vocabulary is
\* not read as SDKWork identifiers.
StaysInTenant ==
    Served /\ call.principal # NoPrincipal /\ call.route # NoRoute /\ ~call.route.external =>
        \A i \in DOMAIN call.route.path :
            LET named == PathSegments(request.path)[i].text IN
            \/ call.route.path[i].form # "param"
            \/ /\ (call.route.path[i].text = "{tenantId}") => (named = call.principal.tenant)
               /\ (call.route.path[i].text = "{organizationId}") => (named \in {TenantLevel, call.principal.org})
            \/ AllowsCrossTenantResourceAccess

\* A state-changing request that carries a cookie reaches a handler outside the
\* open surface only from an origin the policy in force for it allows, on public
\* routes too (CrossSiteRequest stage, dynamic CORS overlay included).
CookieWritesFromTrustedSource ==
    Served /\ request.cookie /\ IsStateChangingMethod(request.method) /\ call.surface # "open" =>
        LET source == IF request.origin # NoOrigin THEN request.origin ELSE request.referer
        IN source # NoOrigin /\ AllowsOrigin(EffectiveCors, source)

\* Two served commands that used the same idempotency store key were sent by the
\* same user of the same tenant and application, although the key is scoped
\* before a principal is known (scoped_idempotency_store_key).
KeyScopeSeparates ==
    \A a, b \in owners : a.key = b.key => a = b

-------------------------------------------------------------------------------
\* The credentials clients send, and the principals they can stand for.
Token == (UNION {{r.headers[h] : h \in CredentialHeader} : r \in Request}) \ {NoToken}

Principals ==
    [tenant : {t.tenant : t \in Token}, org : {NormalizeOrganizationScope(t.org) : t \in Token},
     user : {t.user : t \in Token}, app : {t.app : t \in Token}, scope : {t.scope : t \in Token},
     session : {NoClaim} \cup {t.session : t \in {u \in Token : RequireSdkworkJwt(u)}},
     level : {"session", "anonymous", "apiKey", "compatibility"}]

\* The marks of absent values are not values; a signing key belongs to a tenant.
ASSUME NothingAssumption ==
    /\ NoRequest \notin Request
    /\ NoPrincipal \notin Principals
    /\ NoError \notin {"MissingCredentials", "InvalidCredentials", "BadRequest", "NotFound"}
    /\ \A k \in DOMAIN SigningKey : SigningKey[k].tenant # NoClaim

\* The builder refuses a manifest with a route that its surface does not admit
\* (framework.rs build).
ASSUME ManifestAssumption == ValidateRouteAuthForSurfaces(Routes, Profile)

\* A manifest is a sequence of routes, a template one of segments, and what a
\* segment of a path says is a value; a route has finitely many schemes.
ASSUME TemplateAssumption ==
    /\ Routes \in Seq(Range(Routes))
    /\ \A n \in DOMAIN Routes : /\ Routes[n].path \in Seq(Range(Routes[n].path))
                               /\ IsFiniteSet(DOMAIN Routes[n].schemes)
    /\ \A r \in Request : \A i \in 1..Len(PathSegments(r.path)) : PathSegments(r.path)[i].text # NoClaim

-------------------------------------------------------------------------------
\* The invariant of a request on its way through the stages.

Authenticated == {"Authorization", "TenantIsolation", "served"}
Identified == Authenticated \cup {"Authentication"}
Trusted == Identified \cup {"SqlInjectionGuard", "RequestSizeLimit", "RateLimit", "Idempotency",
    "RequestContextResolution"}
Classified == Trusted \cup {"Cors", "MethodGuard", "CrossSiteRequest"}

WellFormed ==
    /\ stage \in Classified \cup {"idle", "SurfaceClassification", "refused"}
    /\ stage # "idle" => request \in Request
    /\ stage = "idle" => request = NoRequest
    /\ call = [surface |-> call.surface, public |-> call.public, route |-> call.route, cors |-> call.cors,
               key |-> call.key, mode |-> call.mode, principal |-> call.principal]
    /\ stage \in {"idle", "SurfaceClassification"} => call = NewCall
    /\ known \subseteq revoked

\* The credentials a classified request carries are ones its route declares.
ClassifiedByManifest ==
    stage \in Classified =>
        /\ call.surface = ClassifyApiSurface(request.path, Profile)
        /\ call.public = ResolvePublicPath(Routes, request.method, request.path, Profile)
        /\ call.route = MatchRoute(Routes, request.method, request.path)
        /\ call.route # NoRoute => ValidateRouteAuthCredentials(call.route, request)

SourceIsTrusted ==
    stage \in Trusted =>
        \/ IsCorsPreflight(request) \/ call.surface = "open"
        \/ ValidateCrossSiteRequest(EffectiveCors, request, call.public)

\* A key is used by a declared command whose sender is public or has credentials.
KeyIsScoped ==
    call.key # NoKey =>
        /\ stage \in Identified \cup {"RequestContextResolution", "refused"}
        /\ call.key = <<ScopedIdempotencyStoreKey(request, call.public), request.key>>
        /\ call.route # NoRoute
        /\ call.public \/ CredentialsPresent(request)

\* Public requests stay anonymous, and without a route anonymous requests are
\* outside every API surface.
IdentifiedByCredentials ==
    stage \in Identified =>
        /\ call.mode \in {"DualToken", "CredentialEntryBootstrap"} => TokensProveIdentity
        /\ call.public /\ call.route # NoRoute => call.principal = NoPrincipal
        /\ call.route = NoRoute /\ call.principal = NoPrincipal =>
            IsCorsPreflight(request) \/ call.surface = "unknown"

AuthenticationHeld == stage \in Authenticated => RequireAuthenticatedContext

IsolationHeld ==
    stage = "served" =>
        \/ call.public \/ IsCorsPreflight(request) \/ call.route = NoRoute \/ call.route.external
        \/ VerifyPathResourceIdsMatchPrincipal

IInv ==
    /\ WellFormed /\ ClassifiedByManifest /\ SourceIsTrusted /\ KeyIsScoped /\ IdentifiedByCredentials
    /\ AuthenticationHeld /\ IsolationHeld

-------------------------------------------------------------------------------
\* Manifests for which more is proved.

\* A template names its parameters apart.
ParametersAreUnique ==
    \A n \in DOMAIN Routes :
        LET Parameters == {i \in DOMAIN Routes[n].path : Routes[n].path[i].form = "param"} IN
        \A i, j \in Parameters : Routes[n].path[i].text = Routes[n].path[j].text => i = j

\* A template matches paths of its own surface only (one that starts with a
\* parameter may match a path of another one), and every scheme of a
\* compatibility route is one header.
RoutesAreAdmitted ==
    \A n \in DOMAIN Routes :
        /\ \A r \in Request : RoutePathMatches(Routes[n].path, r.path) =>
            ClassifyApiSurface(r.path, Profile) = ClassifyApiSurface(TemplateText(Routes[n].path), Profile)
        /\ \A i \in DOMAIN Routes[n].schemes :
            \E h \in Routes[n].schemes[i] : Routes[n].schemes[i] = {h}

\* Whom a scope stands for: the owner of its key or token, or of its pair of tokens.
ScopeOwner(scope) ==
    IF scope[1] # "tokens"
    THEN [tenant |-> scope[2].tenant, app |-> scope[2].app, user |-> scope[2].user]
    ELSE IF scope[2] = NoToken
    THEN [tenant |-> scope[3].tenant, app |-> scope[3].app, user |-> scope[3].user]
    ELSE [tenant |-> IF scope[2].tenant # NoClaim THEN scope[2].tenant ELSE scope[3].tenant,
          app |-> scope[3].app, user |-> scope[2].user]

Owned(key, principal) ==
    LET owner == ScopeOwner(key[1]) IN
    principal.tenant = owner.tenant /\ principal.app = owner.app /\ principal.user = owner.user

\* The principal a key is used by is the one its scope stands for.
KeysHaveTheirOwner ==
    /\ stage \in Identified /\ call.key # NoKey /\ call.principal # NoPrincipal => Owned(call.key, call.principal)
    /\ \A o \in owners :
        Owned(o.key, o) /\ o = [key |-> o.key, tenant |-> o.tenant, app |-> o.app, user |-> o.user]

===============================================================================
