-------------------------- MODULE RequestEntry_proofs -------------------------
(***************************************************************************)
(* RequestEntry for every set of requests, routes, tokens and policies: who *)
(* a handler runs for, from where, in which tenant, and under whose key.    *)
(***************************************************************************)
EXTENDS RequestEntry, FiniteSetTheorems, WellFoundedInduction, TLAPS

\* The stages run in the order of the chain (interceptors.rs).
LEMMA StageOrder ==
    /\ stage = "SurfaceClassification" => NextStage = "Cors"
    /\ stage = "Cors" => NextStage = "MethodGuard"
    /\ stage = "MethodGuard" => NextStage = "CrossSiteRequest"
    /\ stage = "CrossSiteRequest" => NextStage = "SqlInjectionGuard"
    /\ stage = "SqlInjectionGuard" => NextStage = "RequestSizeLimit"
    /\ stage = "RequestSizeLimit" => NextStage = "RateLimit"
    /\ stage = "RateLimit" => NextStage = "Idempotency"
    /\ stage = "Idempotency" => NextStage = "RequestContextResolution"
    /\ stage = "RequestContextResolution" => NextStage = "Authentication"
    /\ stage = "Authentication" => NextStage = "Authorization"
    /\ stage = "Authorization" => NextStage = "TenantIsolation"
    /\ stage = "TenantIsolation" => NextStage = "served"
<1>1. DOMAIN Stages = 1..13
  BY DEF Stages
<1>2. \A i \in 1..12 : stage = Stages[i] => NextStage = Stages[i + 1]
  <2> SUFFICES ASSUME NEW i \in 1..12, stage = Stages[i] PROVE NextStage = Stages[i + 1]
    OBVIOUS
  <2>1. \A j \in 1..13 : Stages[j] = Stages[i] => j = i
    BY DEF Stages
  <2>2. (CHOOSE j \in DOMAIN Stages : Stages[j] = stage) = i
    BY <1>1, <2>1
  <2> QED
    BY <2>2 DEF NextStage
<1> QED
  BY <1>2 DEF Stages

-------------------------------------------------------------------------------
(* Steps that end a request. *)

\* A refusal keeps what is known of the request (interceptors.rs, every stage).
LEMMA RefusalKeeps ==
    ASSUME IInv, request # NoRequest, stage' = "refused", UNCHANGED <<request, call, revoked, known>>
    PROVE  IInv'
<1>1. WellFormed'
  BY DEF IInv, WellFormed
<1>2. KeyIsScoped'
  BY DEF IInv, KeyIsScoped
<1>3. stage' \notin Classified /\ stage' \notin Trusted /\ stage' \notin Identified /\ stage' \notin Authenticated
  BY DEF Classified, Trusted, Identified, Authenticated
<1>4. ClassifiedByManifest' /\ SourceIsTrusted' /\ IdentifiedByCredentials' /\ AuthenticationHeld' /\ IsolationHeld'
  BY <1>3 DEF ClassifiedByManifest, SourceIsTrusted, IdentifiedByCredentials, AuthenticationHeld, IsolationHeld
<1> QED
  BY <1>1, <1>2, <1>4 DEF IInv

\* A stage that refuses the request keeps what is known of it (interceptors.rs).
LEMMA RefuseKeeps ==
    ASSUME IInv, request # NoRequest, NEW kind, Refuse(kind)
    PROVE  IInv'
BY RefusalKeeps DEF Refuse

\* A refusal that emits an event keeps it too, whatever the emitter does
\* (emit_security_event).
LEMMA EmitKeeps ==
    ASSUME IInv, request # NoRequest, NEW kind, EmitSecurityEvent(kind)
    PROVE  IInv'
BY RefuseKeeps DEF EmitSecurityEvent

-------------------------------------------------------------------------------
(* Steps that pass a request on. *)

\* What the cross-site and the tenant isolation stages establish.
CrossSiteChecked ==
    \/ IsCorsPreflight(request) \/ call.surface = "open"
    \/ ValidateCrossSiteRequest(EffectiveCors, request, call.public)

IsolationChecked ==
    \/ call.public \/ IsCorsPreflight(request) \/ call.route = NoRoute \/ call.route.external
    \/ VerifyPathResourceIdsMatchPrincipal

\* What is known of a request depends on its call state, which a stage that only
\* checks leaves alone.
LEMMA Frame ==
    ASSUME UNCHANGED <<request, call, known>>
    PROVE  /\ CrossSiteChecked' <=> CrossSiteChecked
           /\ IsolationChecked' <=> IsolationChecked
           /\ RequireAuthenticatedContext' <=> RequireAuthenticatedContext
           /\ TokensProveIdentity' <=> TokensProveIdentity
<1>1. CrossSiteChecked' <=> CrossSiteChecked
  BY DEF CrossSiteChecked, EffectiveCors
<1>2. IsolationChecked' <=> IsolationChecked
  BY DEF IsolationChecked, VerifyPathResourceIdsMatchPrincipal, AllowsCrossTenantResourceAccess
<1>3. RequireAuthenticatedContext' <=> RequireAuthenticatedContext
  BY DEF RequireAuthenticatedContext, OnOptionalRoute
<1>4. TokensProveIdentity' <=> TokensProveIdentity
  BY DEF TokensProveIdentity
<1> QED
  BY <1>1, <1>2, <1>3, <1>4

\* A stage that only checks hands on what the stages before it established, and
\* what it checked itself (WebCallChain).
LEMMA CheckedPassKeeps ==
    ASSUME IInv, request # NoRequest, Pass(call),
           stage \in Classified \ {"RequestContextResolution", "served"},
           stage = "CrossSiteRequest" => CrossSiteChecked,
           stage = "Authentication" => RequireAuthenticatedContext,
           stage = "TenantIsolation" => IsolationChecked
    PROVE  IInv'
<1>1. /\ stage' = NextStage
      /\ UNCHANGED <<request, call, error, owners, revoked, known>>
  BY DEF Pass
<1>2. /\ stage' \in Classified /\ stage' \notin {"idle", "SurfaceClassification", "refused"}
      /\ stage' \in Trusted => stage \in Trusted \/ stage = "CrossSiteRequest"
      /\ stage' \in Identified => stage \in Identified
      /\ stage' \in Authenticated => stage \in Authenticated \/ stage = "Authentication"
      /\ stage' = "served" => stage = "TenantIsolation"
      /\ stage \in Identified => stage' \in Identified
  BY <1>1, StageOrder DEF Classified, Trusted, Identified, Authenticated
<1>3. WellFormed'
  BY <1>1, <1>2 DEF IInv, WellFormed, Classified, Trusted, Identified, Authenticated
<1>4. ClassifiedByManifest'
  BY <1>1, <1>2 DEF IInv, ClassifiedByManifest
<1>5. SourceIsTrusted'
  BY <1>1, <1>2, Frame DEF IInv, SourceIsTrusted, CrossSiteChecked
<1>6. KeyIsScoped'
  BY <1>1, <1>2 DEF IInv, KeyIsScoped, Classified, Trusted, Identified, Authenticated
<1>7. IdentifiedByCredentials'
  BY <1>1, <1>2, Frame DEF IInv, IdentifiedByCredentials
<1>8. AuthenticationHeld'
  BY <1>1, <1>2, Frame DEF IInv, AuthenticationHeld
<1>9. IsolationHeld'
  BY <1>1, <1>2, Frame DEF IInv, IsolationHeld, IsolationChecked
<1> QED
  BY <1>3, <1>4, <1>5, <1>6, <1>7, <1>8, <1>9 DEF IInv

\* Classification records the surface and route of the path, with the credentials
\* the route lets through (validate_route_auth_credentials).
LEMMA ClassificationKeeps ==
    ASSUME IInv, SurfaceClassification
    PROVE  IInv'
<1>0. request # NoRequest /\ stage = "SurfaceClassification"
  BY DEF SurfaceClassification, At
<1>1. PICK surface, route, public :
        /\ surface = ClassifyApiSurface(request.path, Profile)
        /\ route = MatchRoute(Routes, request.method, request.path)
        /\ public = ResolvePublicPath(Routes, request.method, request.path, Profile)
  OBVIOUS
<1>2. \/ Refuse("BadRequest") \/ Refuse("DependencyUnavailable")
      \/ /\ route # NoRoute => ValidateRouteAuthCredentials(route, request)
         /\ Pass([call EXCEPT !.surface = surface, !.public = public, !.route = route])
  BY <1>1 DEF SurfaceClassification
<1>3. CASE Refuse("BadRequest") \/ Refuse("DependencyUnavailable")
  BY <1>0, <1>3, RefuseKeeps
<1>4. CASE /\ route # NoRoute => ValidateRouteAuthCredentials(route, request)
           /\ Pass([call EXCEPT !.surface = surface, !.public = public, !.route = route])
  <2>1. call = [surface |-> "unknown", public |-> FALSE, route |-> NoRoute, cors |-> NoOverlay,
                key |-> NoKey, mode |-> "Public", principal |-> NoPrincipal]
    BY <1>0 DEF IInv, WellFormed, NewCall
  <2>2. PICK c1 : c1 = [call EXCEPT !.surface = surface]
    OBVIOUS
  <2>3. PICK no : no = FALSE
    OBVIOUS
  <2>4. c1 = [surface |-> surface, public |-> no, route |-> NoRoute, cors |-> NoOverlay,
                key |-> NoKey, mode |-> "Public", principal |-> NoPrincipal]
    BY <2>1, <2>2, <2>3
  <2>5. PICK c2 : c2 = [c1 EXCEPT !.public = public]
    OBVIOUS
  <2>6. c2 = [surface |-> surface, public |-> public, route |-> NoRoute, cors |-> NoOverlay,
                key |-> NoKey, mode |-> "Public", principal |-> NoPrincipal]
    BY <2>4, <2>5
  <2>7. PICK c3 : c3 = [c2 EXCEPT !.route = route]
    OBVIOUS
  <2>8. c3 = [surface |-> surface, public |-> public, route |-> route, cors |-> NoOverlay,
                key |-> NoKey, mode |-> "Public", principal |-> NoPrincipal]
    BY <2>6, <2>7
  <2>9. [call EXCEPT !.surface = surface, !.public = public, !.route = route] = c3
    BY <2>2, <2>5, <2>7
  <2>10. /\ stage' = "Cors" /\ call' = c3
         /\ UNCHANGED <<request, error, owners, revoked, known>>
    BY <1>0, <1>4, <2>9, StageOrder DEF Pass
  <2>11. /\ call'.surface = surface /\ call'.public = public /\ call'.route = route /\ call'.key = NoKey
         /\ call' = [surface |-> call'.surface, public |-> call'.public, route |-> call'.route, cors |-> call'.cors,
                     key |-> call'.key, mode |-> call'.mode, principal |-> call'.principal]
    BY <2>8, <2>10
  <2>12. WellFormed'
    BY <1>0, <2>10, <2>11 DEF IInv, WellFormed, Classified
  <2>13. ClassifiedByManifest'
    BY <1>1, <1>4, <2>10, <2>11 DEF ClassifiedByManifest
  <2>14. /\ SourceIsTrusted' /\ KeyIsScoped' /\ IdentifiedByCredentials' /\ AuthenticationHeld'
         /\ IsolationHeld'
    BY <2>10, <2>11 DEF SourceIsTrusted, KeyIsScoped, IdentifiedByCredentials, AuthenticationHeld, IsolationHeld,
        Trusted, Identified, Authenticated
  <2> QED
    BY <2>12, <2>13, <2>14 DEF IInv
<1> QED
  BY <1>2, <1>3, <1>4

\* The policy in force is settled before anything is checked against it
\* (CorsInterceptor, dynamic overlay).
LEMMA CorsKeeps ==
    ASSUME IInv, CorsStage
    PROVE  IInv'
<1>0. request # NoRequest /\ stage = "Cors"
  BY DEF CorsStage, At
<1>1. \/ Pass(call) \/ EmitSecurityEvent("Forbidden") \/ Refuse("DependencyUnavailable")
      \/ \E overlay : Pass([call EXCEPT !.cors = overlay])
  BY DEF CorsStage
<1>2. CASE Pass(call)
  BY <1>0, <1>2, CheckedPassKeeps DEF Classified, Trusted, Identified, Authenticated
<1>3. CASE EmitSecurityEvent("Forbidden") \/ Refuse("DependencyUnavailable")
  BY <1>0, <1>3, EmitKeeps, RefuseKeeps
<1>4. ASSUME NEW overlay, Pass([call EXCEPT !.cors = overlay])
      PROVE  IInv'
  <2>1. PICK c : c = [call EXCEPT !.cors = overlay]
    OBVIOUS
  <2>2. c = [surface |-> call.surface, public |-> call.public, route |-> call.route, cors |-> overlay,
             key |-> call.key, mode |-> call.mode, principal |-> call.principal]
    BY <2>1 DEF IInv, WellFormed
  <2>3. /\ stage' = "MethodGuard" /\ call' = c
        /\ UNCHANGED <<request, error, owners, revoked, known>>
    BY <1>0, <1>4, <2>1, StageOrder DEF Pass
  <2>4. /\ call'.surface = call.surface /\ call'.public = call.public /\ call'.route = call.route
        /\ call'.key = call.key
        /\ call' = [surface |-> call'.surface, public |-> call'.public, route |-> call'.route, cors |-> call'.cors,
                    key |-> call'.key, mode |-> call'.mode, principal |-> call'.principal]
    BY <2>2, <2>3
  <2>5. call.key = NoKey
    BY <1>0 DEF IInv, KeyIsScoped, Identified, Authenticated
  <2>6. WellFormed'
    BY <1>0, <2>3, <2>4 DEF IInv, WellFormed, Classified
  <2>7. ClassifiedByManifest'
    BY <1>0, <2>3, <2>4 DEF IInv, ClassifiedByManifest, Classified
  <2>8. /\ SourceIsTrusted' /\ KeyIsScoped' /\ IdentifiedByCredentials' /\ AuthenticationHeld'
        /\ IsolationHeld'
    BY <2>3, <2>4, <2>5 DEF SourceIsTrusted, KeyIsScoped, IdentifiedByCredentials, AuthenticationHeld,
        IsolationHeld, Trusted, Identified, Authenticated
  <2> QED
    BY <2>6, <2>7, <2>8 DEF IInv
<1> QED
  BY <1>1, <1>2, <1>3, <1>4

\* A key is scoped by the credentials of the request, before anyone knows its
\* principal (scoped_idempotency_store_key).
LEMMA IdempotencyKeeps ==
    ASSUME IInv, Idempotency
    PROVE  IInv'
<1>0. request # NoRequest /\ stage = "Idempotency"
  BY DEF Idempotency, At
<1>1. PICK key : key = <<ScopedIdempotencyStoreKey(request, call.public), request.key>>
  OBVIOUS
<1>2. \/ Pass(call) \/ Refuse("BadRequest") \/ Refuse("Conflict") \/ Refuse("DependencyUnavailable")
      \/ /\ call.route # NoRoute /\ (call.public \/ CredentialsPresent(request))
         /\ Pass([call EXCEPT !.key = key])
  BY <1>1 DEF Idempotency, IdempotencyRequired
<1>3. CASE Pass(call)
  BY <1>0, <1>3, CheckedPassKeeps DEF Classified, Trusted, Identified, Authenticated
<1>4. CASE Refuse("BadRequest") \/ Refuse("Conflict") \/ Refuse("DependencyUnavailable")
  BY <1>0, <1>4, RefuseKeeps
<1>5. CASE /\ call.route # NoRoute /\ (call.public \/ CredentialsPresent(request))
           /\ Pass([call EXCEPT !.key = key])
  <2>1. PICK c : c = [call EXCEPT !.key = key]
    OBVIOUS
  <2>2. c = [surface |-> call.surface, public |-> call.public, route |-> call.route, cors |-> call.cors,
             key |-> key, mode |-> call.mode, principal |-> call.principal]
    BY <2>1 DEF IInv, WellFormed
  <2>3. /\ stage' = "RequestContextResolution" /\ call' = c
        /\ UNCHANGED <<request, error, owners, revoked, known>>
    BY <1>0, <1>5, <2>1, StageOrder DEF Pass
  <2>4. /\ call'.surface = call.surface /\ call'.public = call.public /\ call'.route = call.route
        /\ call'.cors = call.cors /\ call'.key = key
        /\ call' = [surface |-> call'.surface, public |-> call'.public, route |-> call'.route, cors |-> call'.cors,
                    key |-> call'.key, mode |-> call'.mode, principal |-> call'.principal]
    BY <2>2, <2>3
  <2>5. WellFormed'
    BY <1>0, <2>3, <2>4 DEF IInv, WellFormed, Classified, Trusted
  <2>6. ClassifiedByManifest'
    BY <1>0, <2>3, <2>4 DEF IInv, ClassifiedByManifest, Classified, Trusted
  <2>7. SourceIsTrusted'
    BY <1>0, <2>3, <2>4 DEF IInv, SourceIsTrusted, Trusted, EffectiveCors
  <2>8. KeyIsScoped'
    BY <1>1, <1>5, <2>3, <2>4 DEF KeyIsScoped
  <2>9. /\ IdentifiedByCredentials' /\ AuthenticationHeld' /\ IsolationHeld'
    BY <2>3, <2>4 DEF IdentifiedByCredentials, AuthenticationHeld, IsolationHeld,
        Identified, Authenticated
  <2> QED
    BY <2>5, <2>6, <2>7, <2>8, <2>9 DEF IInv
<1> QED
  BY <1>2, <1>3, <1>4, <1>5

-------------------------------------------------------------------------------
(* Credentials. *)

\* A pair of tokens that resolves names one tenant, the one whose keys signed
\* both, one organization scope and one user, and no revoked session
\* (TenantBoundJwtVerifier, resolvers.rs dual token merge).
LEMMA DualTokenProves ==
    ASSUME NEW auth, NEW access, NEW ended, ResolveDualToken(auth, access, Now, ended).error = NoError
    PROVE  LET p == ResolveDualToken(auth, access, Now, ended).principal IN
           /\ RequireSdkworkJwt(auth) /\ RequireSdkworkJwt(access)
           /\ p = Principal(IF auth.tenant # NoClaim THEN auth.tenant ELSE access.tenant, auth.org, auth.user,
                            IF auth.session # NoClaim THEN auth.session ELSE access.session, access.app,
                            "session", IF access.scope = {} THEN auth.scope ELSE access.scope)
           /\ \A t \in {auth, access} :
                /\ SigningKey[t.signer].tenant = p.tenant
                /\ NormalizeOrganizationScope(t.org) = p.org
                /\ t.user \in {NoClaim, p.user}
                /\ EnforceSession => t.session \notin ended
<1>1. /\ ParseAuthToken(auth, Now, ended) /\ ParseAccessToken(access, Now, ended)
      /\ ContextsMatch(auth, access) /\ OrganizationScopesMatch(auth, access)
  BY NothingAssumption DEF ResolveDualToken, Failed
<1>2. PICK p : p = Principal(IF auth.tenant # NoClaim THEN auth.tenant ELSE access.tenant, auth.org, auth.user,
                            IF auth.session # NoClaim THEN auth.session ELSE access.session, access.app,
                            "session", IF access.scope = {} THEN auth.scope ELSE access.scope)
  OBVIOUS
<1>3. ResolveDualToken(auth, access, Now, ended).principal = p
  BY <1>1, <1>2 DEF ResolveDualToken, Resolved
<1>4. /\ p.tenant = (IF auth.tenant # NoClaim THEN auth.tenant ELSE access.tenant)
      /\ p.org = NormalizeOrganizationScope(auth.org) /\ p.user = auth.user
  BY <1>2 DEF Principal
<1>5. \A t \in {auth, access} :
        /\ RequireSdkworkJwt(t)
        /\ t.tenant = SigningKey[t.signer].tenant /\ t.tenant # NoClaim
        /\ EnforceSession => t.session \notin ended
  BY <1>1, NothingAssumption DEF ParseAuthToken, ParseAccessToken, VerifyAndDecodeClaims, ResolveSigningKey,
     ValidateJwtSessionRevocation
<1>6. auth.tenant = access.tenant /\ (access.user = NoClaim \/ access.user = auth.user)
  BY <1>1, <1>5 DEF ContextsMatch, RequireOptionalMatch, ParseAuthToken
<1>7. NormalizeOrganizationScope(auth.org) = NormalizeOrganizationScope(access.org)
  BY <1>1 DEF OrganizationScopesMatch
<1> QED
  BY <1>2, <1>3, <1>4, <1>5, <1>6, <1>7

\* An access token alone stands for what it says (bootstrap of credentials).
LEMMA AccessTokenProves ==
    ASSUME NEW access, NEW ended, ResolveAccessToken(access, Now, ended).error = NoError
    PROVE  LET p == ResolveAccessToken(access, Now, ended).principal IN
           /\ RequireSdkworkJwt(access)
           /\ p = Principal(access.tenant, access.org, access.user, access.session, access.app,
                            "anonymous", access.scope)
           /\ SigningKey[access.signer].tenant = p.tenant
           /\ NormalizeOrganizationScope(access.org) = p.org
           /\ access.user = p.user
           /\ EnforceSession => access.session \notin ended
<1>1. ParseAccessToken(access, Now, ended)
  BY NothingAssumption DEF ResolveAccessToken, Failed
<1>2. PICK p : p = Principal(access.tenant, access.org, access.user, access.session, access.app,
                             "anonymous", access.scope)
  OBVIOUS
<1>3. ResolveAccessToken(access, Now, ended).principal = p
  BY <1>1, <1>2 DEF ResolveAccessToken, Resolved
<1>4. p.tenant = access.tenant /\ p.org = NormalizeOrganizationScope(access.org) /\ p.user = access.user
  BY <1>2 DEF Principal
<1>5. /\ RequireSdkworkJwt(access)
      /\ access.tenant = SigningKey[access.signer].tenant
      /\ EnforceSession => access.session \notin ended
  BY <1>1 DEF ParseAccessToken, VerifyAndDecodeClaims, ValidateJwtSessionRevocation
<1> QED
  BY <1>2, <1>3, <1>4, <1>5

\* A key or bearer stands for its record in the owner's store.
LEMMA RecordProves ==
    ASSUME NEW key, NEW level, ResolveRecord(key, level).error = NoError
    PROVE  ResolveRecord(key, level).principal =
               Principal(key.tenant, key.org, key.user, NoClaim, key.app, level, key.scope)
BY NothingAssumption DEF ResolveRecord, Failed, Resolved

\* A principal made from credentials is not the absence of one.
LEMMA PrincipalsExist ==
    ASSUME NEW t \in Token, NEW o \in Token, NEW u \in Token, NEW a \in Token, NEW c \in Token,
           NEW session \in {NoClaim} \cup {j.session : j \in {k \in Token : RequireSdkworkJwt(k)}},
           NEW level \in {"session", "anonymous", "apiKey", "compatibility"}
    PROVE  Principal(t.tenant, o.org, u.user, session, a.app, level, c.scope) # NoPrincipal
<1>1. Principal(t.tenant, o.org, u.user, session, a.app, level, c.scope) \in Principals
  BY DEF Principal, Principals
<1> QED
  BY <1>1, NothingAssumption

\* Every credential a request presents is one of the clients' tokens.
LEMMA Presented ==
    ASSUME NEW r \in Request
    PROVE  /\ \A h \in CredentialHeader : r.headers[h] # NoToken => r.headers[h] \in Token
           /\ AuthToken(r) # NoToken => AuthToken(r) \in Token /\ AuthToken(r) = r.headers["authorization"]
           /\ AccessToken(r) # NoToken => AccessToken(r) \in Token
           /\ OAuthBearer(r) # NoToken => OAuthBearer(r) \in Token /\ OAuthBearer(r) = AuthToken(r)
<1>1. \A h \in CredentialHeader : r.headers[h] # NoToken => r.headers[h] \in Token
  <2> SUFFICES ASSUME NEW h \in CredentialHeader, r.headers[h] # NoToken PROVE r.headers[h] \in Token
    OBVIOUS
  <2>1. r.headers[h] \in {r.headers[k] : k \in CredentialHeader}
    OBVIOUS
  <2>2. {r.headers[k] : k \in CredentialHeader} \in {{q.headers[k] : k \in CredentialHeader} : q \in Request}
    OBVIOUS
  <2>3. r.headers[h] \in UNION {{q.headers[k] : k \in CredentialHeader} : q \in Request}
    BY <2>1, <2>2, Zenon
  <2> QED
    BY <2>3, Zenon DEF Token
<1>2. "authorization" \in CredentialHeader /\ "access-token" \in CredentialHeader
  BY DEF CredentialHeader
<1> QED
  BY <1>1, <1>2 DEF AuthToken, AccessToken, OAuthBearer

-------------------------------------------------------------------------------
(* What a request resolves to. *)

\* A context that is resolved without an error was resolved in one of these ways,
\* each with the routes that lead to it (DefaultWebRequestContextResolver).
LEMMA Outcomes ==
    ASSUME NEW r, NEW context, context = ResolveRequestContext(r), context.error = NoError
    PROVE  \/ /\ IsCorsPreflight(r) \/ call.surface = "unknown" \/ call.route # NoRoute
              /\ \E mode \in {"Public", "BootstrapBody", "RefreshToken"} : context = NoContext(mode)
           \/ /\ call.surface \in {"app", "backend", "gateway"} /\ call.route # NoRoute
              /\ call.route.auth \notin {"Public", "BootstrapBody", "RefreshToken"}
              /\ context = DualTokenContext(r)
           \/ /\ call.route # NoRoute /\ call.route.auth = "CredentialEntryBootstrap"
              /\ context = FinishAccessTokenOnlyContext(r, "CredentialEntryBootstrap")
           \/ /\ call.route # NoRoute /\ call.route.auth = "AgentToken"
              /\ context = KeyWithAccessToken(r, "x-sdkwork-agent-token", "AgentToken")
           \/ /\ call.route # NoRoute /\ call.route.auth = "IngressToken"
              /\ context = KeyWithAccessToken(r, "x-sdkwork-ingress-token", "IngressToken")
           \/ /\ call.surface = "open"
              /\ \E auth : /\ \/ /\ call.route # NoRoute /\ auth = call.route.auth
                                 /\ auth \notin {"RefreshToken", "Compatibility", "OpenApiBearerFlexible"}
                              \/ call.route = NoRoute /\ auth \in {"ApiKeyOrDualToken", "OpenApiFlexible"}
                           /\ context = ResolveOpenApiRequestContext(r, auth)
           \/ /\ call.surface = "open" /\ call.route # NoRoute /\ call.route.auth = "OpenApiBearerFlexible"
              /\ context = ResolveOpenApiBearerFlexible(r)
           \/ /\ call.surface = "open" /\ call.route # NoRoute /\ call.route.auth = "Compatibility"
              /\ context = ExtractCompatibilityCredentials(call.route, r)
<1>0. \A mode, kind : kind \in {"MissingCredentials", "InvalidCredentials", "BadRequest", "NotFound"} =>
        As(mode, Failed(kind)).error # NoError
  BY NothingAssumption DEF As, Failed
<1>1. CASE IsCorsPreflight(r) \/ (call.surface = "unknown" /\ call.public)
  <2>1. context = NoContext("Public")
    BY <1>1 DEF ResolveRequestContext
  <2> QED
    BY <1>1, <2>1
<1>2. CASE ~IsCorsPreflight(r) /\ call.surface = "open"
  <2>1. context = OpenApiContext(r)
    BY <1>2 DEF ResolveRequestContext
  <2>2. CASE call.route = NoRoute
    <3>1. PICK auth : auth = IF AccessToken(r) # NoToken THEN "ApiKeyOrDualToken" ELSE "OpenApiFlexible"
      OBVIOUS
    <3>2. context = ResolveOpenApiRequestContext(r, auth)
      BY <2>1, <2>2, <3>1 DEF OpenApiContext
    <3> QED
      BY <1>2, <2>2, <3>1, <3>2
  <2>3. CASE call.route # NoRoute
    <3>1. PICK auth : auth = call.route.auth
      OBVIOUS
    <3>2. CASE auth = "Public"
      <4>1. context = NoContext("Public")
        BY <2>1, <2>3, <3>1, <3>2 DEF OpenApiContext
      <4> QED
        BY <2>3, <4>1
    <3>3. CASE auth = "RefreshToken"
      BY <1>0, <2>1, <2>3, <3>1, <3>3 DEF OpenApiContext
    <3>4. CASE auth = "CredentialEntryBootstrap"
      BY <2>1, <2>3, <3>1, <3>4 DEF OpenApiContext
    <3>5. CASE auth = "Compatibility"
      BY <1>2, <2>1, <2>3, <3>1, <3>5 DEF OpenApiContext
    <3>6. CASE auth = "OpenApiBearerFlexible"
      BY <1>2, <2>1, <2>3, <3>1, <3>6 DEF OpenApiContext
    <3>7. CASE auth \notin {"Public", "RefreshToken", "CredentialEntryBootstrap", "Compatibility", "OpenApiBearerFlexible"}
      <4>1. context = ResolveOpenApiRequestContext(r, auth)
        BY <2>1, <2>3, <3>1, <3>7 DEF OpenApiContext
      <4> QED
        BY <1>2, <2>3, <3>1, <3>7, <4>1
    <3> QED
      BY <3>2, <3>3, <3>4, <3>5, <3>6, <3>7
  <2> QED
    BY <2>2, <2>3
<1>3. CASE ~IsCorsPreflight(r) /\ call.surface = "internal"
  <2>1. context = InternalApiContext(r)
    BY <1>3 DEF ResolveRequestContext
  <2> QED
    BY <1>0, <2>1 DEF InternalApiContext
<1>4. CASE ~IsCorsPreflight(r) /\ call.surface \in {"app", "backend", "gateway"}
  <2>1. context = TokenApiContext(r)
    BY <1>4 DEF ResolveRequestContext
  <2>2. CASE call.route = NoRoute
    BY <1>0, <2>1, <2>2 DEF TokenApiContext
  <2>3. CASE call.route # NoRoute
    <3>1. PICK auth : auth = call.route.auth
      OBVIOUS
    <3>2. CASE auth = "none"
      BY <1>0, <2>1, <2>3, <3>1, <3>2 DEF TokenApiContext
    <3>3. CASE auth \in {"Public", "BootstrapBody", "RefreshToken"}
      <4>1. context = NoContext(auth)
        BY <1>0, <2>1, <2>3, <3>1, <3>3 DEF TokenApiContext
      <4> QED
        BY <2>3, <3>3, <4>1
    <3>4. CASE auth = "DualTokenOrAnonymous"
      <4>1. context = NoContext("Public") \/ context = DualTokenContext(r)
        BY <1>0, <2>1, <2>3, <3>1, <3>4 DEF TokenApiContext
      <4> QED
        BY <1>4, <2>3, <3>1, <3>4, <4>1
    <3>5. CASE auth = "CredentialEntryBootstrap"
      BY <2>1, <2>3, <3>1, <3>5 DEF TokenApiContext
    <3>6. CASE auth = "AgentToken"
      BY <2>1, <2>3, <3>1, <3>6 DEF TokenApiContext
    <3>7. CASE auth \notin {"none", "Public", "BootstrapBody", "RefreshToken", "DualTokenOrAnonymous",
                            "CredentialEntryBootstrap", "AgentToken"}
      <4>1. context = DualTokenContext(r)
        BY <2>1, <2>3, <3>1, <3>7 DEF TokenApiContext
      <4> QED
        BY <1>4, <2>3, <3>1, <3>7, <4>1
    <3> QED
      BY <3>2, <3>3, <3>4, <3>5, <3>6, <3>7
  <2> QED
    BY <2>2, <2>3
<1>5. CASE /\ ~IsCorsPreflight(r) /\ ~(call.surface = "unknown" /\ call.public)
           /\ call.surface \notin {"open", "internal", "app", "backend", "gateway"}
  BY <1>0, <1>5 DEF ResolveRequestContext
<1> QED
  BY <1>1, <1>2, <1>3, <1>4, <1>5

\* A resolved pair of tokens (finish_dual_token_context).
LEMMA DualTokenContextProves ==
    ASSUME NEW r \in Request, NEW c, c = DualTokenContext(r), c.error = NoError
    PROVE  /\ c.mode = "DualToken"
           /\ AuthToken(r) # NoToken /\ AccessToken(r) # NoToken
           /\ c.principal # NoPrincipal
           /\ \A t \in {AuthToken(r), AccessToken(r)} :
                /\ SigningKey[t.signer].tenant = c.principal.tenant
                /\ NormalizeOrganizationScope(t.org) = c.principal.org
                /\ t.user \in {NoClaim, c.principal.user}
                /\ EnforceSession => t.session \notin revoked
           /\ c.principal.tenant = IF AuthToken(r).tenant # NoClaim THEN AuthToken(r).tenant ELSE AccessToken(r).tenant
           /\ c.principal.app = AccessToken(r).app /\ c.principal.user = AuthToken(r).user
<1>1. PICK a, x : a = AuthToken(r) /\ x = AccessToken(r)
  OBVIOUS
<1>2. a # NoToken /\ x # NoToken
  BY <1>1, NothingAssumption DEF DualTokenContext, As, Failed
<1>3. PICK d : d = ResolveDualToken(a, x, Now, revoked)
  OBVIOUS
<1>4. c.mode = "DualToken" /\ c.error = d.error /\ c.principal = d.principal
  BY <1>1, <1>2, <1>3 DEF DualTokenContext, As
<1>5. /\ RequireSdkworkJwt(a) /\ RequireSdkworkJwt(x)
      /\ d.principal = Principal(IF a.tenant # NoClaim THEN a.tenant ELSE x.tenant, a.org, a.user,
                            IF a.session # NoClaim THEN a.session ELSE x.session, x.app,
                            "session", IF x.scope = {} THEN a.scope ELSE x.scope)
      /\ \A t \in {a, x} :
                /\ SigningKey[t.signer].tenant = d.principal.tenant
                /\ NormalizeOrganizationScope(t.org) = d.principal.org
                /\ t.user \in {NoClaim, d.principal.user}
                /\ EnforceSession => t.session \notin revoked
  BY <1>3, <1>4, DualTokenProves
<1>6. a \in Token /\ x \in Token
  BY <1>1, <1>2, Presented
<1>7. PICK t \in Token, u \in Token : /\ t.tenant = IF a.tenant # NoClaim THEN a.tenant ELSE x.tenant
                                      /\ u.scope = IF x.scope = {} THEN a.scope ELSE x.scope
  BY <1>6
<1>8. PICK s : s = IF a.session # NoClaim THEN a.session ELSE x.session
  OBVIOUS
<1>9. s \in {NoClaim} \cup {j.session : j \in {k \in Token : RequireSdkworkJwt(k)}}
  BY <1>5, <1>6, <1>8
<1>10. Principal(t.tenant, a.org, a.user, s, x.app, "session", u.scope) # NoPrincipal
  BY <1>6, <1>9, PrincipalsExist
<1>11. d.principal = Principal(t.tenant, a.org, a.user, s, x.app, "session", u.scope)
  BY <1>5, <1>7, <1>8
<1>12. d.principal.tenant = t.tenant /\ d.principal.app = x.app /\ d.principal.user = a.user
  BY <1>11 DEF Principal
<1> QED
  BY <1>1, <1>2, <1>4, <1>5, <1>7, <1>10, <1>11, <1>12

\* An access token that resolves by itself (finish_access_token_only_context).
LEMMA AccessTokenContextProves ==
    ASSUME NEW r \in Request, NEW mode, NEW c, c = FinishAccessTokenOnlyContext(r, mode), c.error = NoError
    PROVE  LET x == AccessToken(r) IN
           /\ c.mode = mode /\ x # NoToken /\ c.principal # NoPrincipal
           /\ SigningKey[x.signer].tenant = c.principal.tenant
           /\ NormalizeOrganizationScope(x.org) = c.principal.org
           /\ EnforceSession => x.session \notin revoked
           /\ c.principal.tenant = x.tenant /\ c.principal.app = x.app /\ c.principal.user = x.user
<1>1. PICK x : x = AccessToken(r)
  OBVIOUS
<1>2. x # NoToken
  BY <1>1, NothingAssumption DEF FinishAccessTokenOnlyContext, As, Failed
<1>3. PICK d : d = ResolveAccessToken(x, Now, revoked)
  OBVIOUS
<1>4. c.mode = mode /\ c.error = d.error /\ c.principal = d.principal
  BY <1>1, <1>2, <1>3 DEF FinishAccessTokenOnlyContext, As
<1>5. /\ RequireSdkworkJwt(x)
      /\ d.principal = Principal(x.tenant, x.org, x.user, x.session, x.app, "anonymous", x.scope)
      /\ SigningKey[x.signer].tenant = d.principal.tenant
      /\ NormalizeOrganizationScope(x.org) = d.principal.org
      /\ EnforceSession => x.session \notin revoked
  BY <1>3, <1>4, AccessTokenProves
<1>6. x \in Token
  BY <1>1, <1>2, Presented
<1>7. x.session \in {NoClaim} \cup {j.session : j \in {k \in Token : RequireSdkworkJwt(k)}}
  BY <1>5, <1>6
<1>8. d.principal # NoPrincipal
  BY <1>5, <1>6, <1>7, PrincipalsExist
<1>9. d.principal.tenant = x.tenant /\ d.principal.app = x.app /\ d.principal.user = x.user
  BY <1>5 DEF Principal
<1> QED
  BY <1>1, <1>2, <1>4, <1>5, <1>8, <1>9

\* A key that resolves stands for its record (api keys and bearers).
LEMMA RecordContextProves ==
    ASSUME NEW key \in Token, NEW level \in {"session", "apiKey", "compatibility"}, NEW mode, NEW c,
           c = As(mode, ResolveRecord(key, level)), c.error = NoError
    PROVE  /\ c.mode = mode /\ c.principal # NoPrincipal
           /\ c.principal.tenant = key.tenant /\ c.principal.app = key.app /\ c.principal.user = key.user
<1>1. ResolveRecord(key, level).error = NoError /\ c.mode = mode /\ c.principal = ResolveRecord(key, level).principal
  BY DEF As
<1>2. PICK p : p = Principal(key.tenant, key.org, key.user, NoClaim, key.app, level, key.scope)
  OBVIOUS
<1>3. c.principal = p
  BY <1>1, <1>2, RecordProves
<1>4. p # NoPrincipal
  BY <1>2, PrincipalsExist
<1>5. p.tenant = key.tenant /\ p.app = key.app /\ p.user = key.user
  BY <1>2 DEF Principal
<1> QED
  BY <1>1, <1>3, <1>4, <1>5

\* The detector of the open surface: a scheme is chosen only when its own
\* credential is there (DefaultOpenApiCredentialSchemeDetector).
LEMMA OpenApiOutcomes ==
    ASSUME NEW r \in Request, NEW auth, NEW c, c = ResolveOpenApiRequestContext(r, auth), c.error = NoError
    PROVE  \/ /\ c = ApiKeyContext(r) /\ r.headers["x-api-key"] # NoToken
              /\ c.mode = "ApiKey" /\ c.principal # NoPrincipal
              /\ c.principal.tenant = r.headers["x-api-key"].tenant
              /\ c.principal.app = r.headers["x-api-key"].app /\ c.principal.user = r.headers["x-api-key"].user
           \/ /\ OAuthBearer(r) # NoToken /\ r.headers["x-api-key"] = NoToken
              /\ c.mode = "OAuth" /\ c.principal # NoPrincipal
              /\ c.principal.tenant = OAuthBearer(r).tenant
              /\ c.principal.app = OAuthBearer(r).app /\ c.principal.user = OAuthBearer(r).user
           \/ c = DualTokenContext(r) /\ auth \in {"ApiKeyOrDualToken", "DualToken", "DualTokenOrAnonymous"}
<1>0. \A kind \in {"MissingCredentials", "InvalidCredentials"} : As("Public", Failed(kind)).error # NoError
  BY NothingAssumption DEF As, Failed
<1>1. PICK scheme : scheme = DetectScheme(r, auth)
  OBVIOUS
<1>2. scheme \in {"ApiKey", "OAuth", "DualToken", "none", "mixed"}
  BY <1>1 DEF DetectScheme
<1>3. scheme \notin {"none", "mixed"}
  BY <1>0, <1>1 DEF ResolveOpenApiRequestContext
<1>4. CASE scheme = "ApiKey"
  <2>1. c = ApiKeyContext(r)
    BY <1>1, <1>4 DEF ResolveOpenApiRequestContext
  <2>2. r.headers["x-api-key"] # NoToken
    BY <1>1, <1>4 DEF DetectScheme
  <2>3. r.headers["x-api-key"] \in Token
    BY <2>2, Presented DEF CredentialHeader
  <2>4. c = As("ApiKey", ResolveRecord(r.headers["x-api-key"], "apiKey"))
    BY <2>1 DEF ApiKeyContext, ResolveApiKey
  <2> QED
    BY <2>1, <2>2, <2>3, <2>4, RecordContextProves
<1>5. CASE scheme = "OAuth"
  <2>1. c = OAuthContext(r)
    BY <1>1, <1>5 DEF ResolveOpenApiRequestContext
  <2>2. OAuthBearer(r) # NoToken /\ r.headers["x-api-key"] = NoToken
    BY <1>1, <1>5 DEF DetectScheme
  <2>3. OAuthBearer(r) \in Token
    BY <2>2, Presented
  <2>4. VerifyAndDecodeClaims(OAuthBearer(r), Now, revoked)
    BY <2>1, NothingAssumption DEF OAuthContext, As, ResolveOAuthBearer, Failed
  <2>5. c = As("OAuth", ResolveRecord(OAuthBearer(r), "session"))
    BY <2>1, <2>4 DEF OAuthContext, ResolveOAuthBearer
  <2> QED
    BY <2>2, <2>3, <2>5, RecordContextProves
<1>6. CASE scheme = "DualToken"
  <2>1. c = DualTokenContext(r)
    BY <1>1, <1>6 DEF ResolveOpenApiRequestContext
  <2>2. auth \in {"ApiKeyOrDualToken", "DualToken", "DualTokenOrAnonymous"}
    BY <1>1, <1>6 DEF DetectScheme
  <2> QED
    BY <2>1, <2>2
<1> QED
  BY <1>2, <1>3, <1>4, <1>5, <1>6

\* A route lets through only the headers its profile declares
\* (validate_standard_route_auth_credentials).
LEMMA SentIsDeclared ==
    ASSUME NEW r, NEW route, ValidateRouteAuthCredentials(route, r), route.auth # "Compatibility",
           NEW h \in CredentialHeader, h \notin AllowedCredentialHeaders(route.auth)
    PROVE  r.headers[h] = NoToken
BY DEF ValidateRouteAuthCredentials, ValidateStandardRouteAuthCredentials

\* No credential reaches a public route, and the bootstrap of credentials takes an
\* access token only.
LEMMA BareRoutes ==
    ASSUME NEW r, NEW route, ValidateRouteAuthCredentials(route, r)
    PROVE  /\ SkipsCredentialResolution(route.auth) => \A h \in CredentialHeader : r.headers[h] = NoToken
           /\ route.auth = "CredentialEntryBootstrap" =>
                \A h \in CredentialHeader \ {"access-token"} : r.headers[h] = NoToken
<1>1. ASSUME SkipsCredentialResolution(route.auth), NEW h \in CredentialHeader PROVE r.headers[h] = NoToken
  <2>1. AllowedCredentialHeaders(route.auth) = {} /\ route.auth # "Compatibility"
    BY <1>1 DEF SkipsCredentialResolution, AllowedCredentialHeaders
  <2> QED
    BY <1>1, <2>1, SentIsDeclared
<1>2. ASSUME route.auth = "CredentialEntryBootstrap", NEW h \in CredentialHeader \ {"access-token"}
      PROVE  r.headers[h] = NoToken
  <2>1. AllowedCredentialHeaders(route.auth) = {"access-token"}
    BY <1>2 DEF AllowedCredentialHeaders
  <2> QED
    BY <1>2, <2>1, SentIsDeclared
<1> QED
  BY <1>1, <1>2

\* What a resolved context says of the principal, for any credentials and routes.
LEMMA ResolvedIdentity ==
    ASSUME request \in Request, ClassifiedByManifest, stage \in Classified, known \subseteq revoked,
           NEW c, c = ResolveRequestContext(request), c.error = NoError
    PROVE  /\ c.mode \in {"DualToken", "CredentialEntryBootstrap"} =>
                LET tokens == {AuthToken(request), AccessToken(request)} \ {NoToken} IN
                /\ c.principal # NoPrincipal
                /\ \A t \in tokens :
                    /\ SigningKey[t.signer].tenant = c.principal.tenant
                    /\ NormalizeOrganizationScope(t.org) = c.principal.org
                    /\ t.user \in {NoClaim, c.principal.user}
                    /\ EnforceSession => t.session \notin known
           /\ call.public /\ call.route # NoRoute => c.principal = NoPrincipal
           /\ call.route = NoRoute /\ c.principal = NoPrincipal =>
                IsCorsPreflight(request) \/ call.surface = "unknown"
<1> DEFINE Proven == LET tokens == {AuthToken(request), AccessToken(request)} \ {NoToken} IN
                /\ c.principal # NoPrincipal
                /\ \A t \in tokens :
                    /\ SigningKey[t.signer].tenant = c.principal.tenant
                    /\ NormalizeOrganizationScope(t.org) = c.principal.org
                    /\ t.user \in {NoClaim, c.principal.user}
                    /\ EnforceSession => t.session \notin known
<1>0. call.public /\ call.route # NoRoute => SkipsCredentialResolution(call.route.auth)
  BY DEF ClassifiedByManifest, ResolvePublicPath
<1>1. call.route # NoRoute => ValidateRouteAuthCredentials(call.route, request)
  BY DEF ClassifiedByManifest
<1>2. c = DualTokenContext(request) => c.mode = "DualToken" /\ c.principal # NoPrincipal /\ Proven
  BY DualTokenContextProves
<1>3. ASSUME NEW mode \in {"Public", "BootstrapBody", "RefreshToken"}, c = NoContext(mode)
      PROVE  c.principal = NoPrincipal /\ c.mode \notin {"DualToken", "CredentialEntryBootstrap"}
  BY <1>3 DEF NoContext, As, Resolved
<1>4. ASSUME call.route # NoRoute, call.route.auth = "CredentialEntryBootstrap",
             c = FinishAccessTokenOnlyContext(request, "CredentialEntryBootstrap")
      PROVE  Proven /\ ~call.public
  <2>1. AuthToken(request) = NoToken
    BY <1>1, <1>4, BareRoutes DEF AuthToken, CredentialHeader
  <2>2. Proven
    BY <1>4, <2>1, AccessTokenContextProves
  <2>3. ~call.public
    BY <1>0, <1>4 DEF SkipsCredentialResolution
  <2> QED
    BY <2>2, <2>3
<1>5. ASSUME NEW h, NEW m \in {"AgentToken", "IngressToken"}, c = KeyWithAccessToken(request, h, m)
      PROVE  c.mode = m
  BY <1>5 DEF KeyWithAccessToken, As
<1>6. ASSUME call.surface = "open", NEW auth, c = ResolveOpenApiRequestContext(request, auth),
             call.route # NoRoute => auth = call.route.auth
      PROVE  /\ c.principal # NoPrincipal
             /\ c.mode \in {"DualToken", "CredentialEntryBootstrap"} => Proven
             /\ ~(call.public /\ call.route # NoRoute)
  <2>1. \/ request.headers["x-api-key"] # NoToken /\ c.mode = "ApiKey" /\ c.principal # NoPrincipal
        \/ OAuthBearer(request) # NoToken /\ c.mode = "OAuth" /\ c.principal # NoPrincipal
        \/ c = DualTokenContext(request) /\ auth \in {"ApiKeyOrDualToken", "DualToken", "DualTokenOrAnonymous"}
    BY <1>6, OpenApiOutcomes
  <2>2. call.public /\ call.route # NoRoute =>
          /\ \A h \in CredentialHeader : request.headers[h] = NoToken
          /\ auth \in {"Public", "BootstrapBody", "RefreshToken"}
    BY <1>0, <1>1, <1>6, BareRoutes DEF SkipsCredentialResolution
  <2>3. ~(call.public /\ call.route # NoRoute)
    BY <2>1, <2>2 DEF CredentialHeader, OAuthBearer, AuthToken
  <2> HIDE DEF Proven
  <2> QED
    BY <1>2, <2>1, <2>3
<1>7. c = ResolveOpenApiBearerFlexible(request) => c.mode \in {"ApiKey", "OAuth"}
  BY DEF ResolveOpenApiBearerFlexible, As
<1>8. c = ExtractCompatibilityCredentials(call.route, request) => c.mode = "Compatibility"
  BY DEF ExtractCompatibilityCredentials, As
<1> HIDE DEF Proven
<1>9. /\ c.mode \in {"DualToken", "CredentialEntryBootstrap"} => Proven
      /\ call.public /\ call.route # NoRoute => c.principal = NoPrincipal
      /\ call.route = NoRoute /\ c.principal = NoPrincipal => IsCorsPreflight(request) \/ call.surface = "unknown"
  <2>1. CASE /\ IsCorsPreflight(request) \/ call.surface = "unknown" \/ call.route # NoRoute
             /\ \E mode \in {"Public", "BootstrapBody", "RefreshToken"} : c = NoContext(mode)
    BY <1>3, <2>1
  <2>2. CASE /\ call.route # NoRoute
             /\ call.route.auth \notin {"Public", "BootstrapBody", "RefreshToken"}
             /\ c = DualTokenContext(request)
    BY <1>0, <1>2, <2>2 DEF SkipsCredentialResolution
  <2>3. CASE \/ /\ call.route # NoRoute /\ call.route.auth = "AgentToken"
                /\ c = KeyWithAccessToken(request, "x-sdkwork-agent-token", "AgentToken")
             \/ /\ call.route # NoRoute /\ call.route.auth = "IngressToken"
                /\ c = KeyWithAccessToken(request, "x-sdkwork-ingress-token", "IngressToken")
    BY <1>0, <1>5, <2>3 DEF SkipsCredentialResolution
  <2>4. CASE /\ call.surface = "open"
             /\ \E auth : /\ \/ /\ call.route # NoRoute /\ auth = call.route.auth
                                /\ auth \notin {"RefreshToken", "Compatibility", "OpenApiBearerFlexible"}
                             \/ call.route = NoRoute /\ auth \in {"ApiKeyOrDualToken", "OpenApiFlexible"}
                          /\ c = ResolveOpenApiRequestContext(request, auth)
    BY <1>6, <2>4
  <2>5. CASE /\ call.surface = "open" /\ call.route # NoRoute /\ call.route.auth = "OpenApiBearerFlexible"
             /\ c = ResolveOpenApiBearerFlexible(request)
    BY <1>0, <1>7, <2>5 DEF SkipsCredentialResolution
  <2>6. CASE /\ call.surface = "open" /\ call.route # NoRoute /\ call.route.auth = "Compatibility"
             /\ c = ExtractCompatibilityCredentials(call.route, request)
    BY <1>0, <1>8, <2>6 DEF SkipsCredentialResolution
  <2>7. CASE /\ call.route # NoRoute /\ call.route.auth = "CredentialEntryBootstrap"
             /\ c = FinishAccessTokenOnlyContext(request, "CredentialEntryBootstrap")
    BY <1>4, <2>7
  <2> QED
    BY <2>1, <2>2, <2>3, <2>4, <2>5, <2>6, <2>7, Outcomes
<1> QED
  BY <1>9 DEF Proven

\* Resolution fails as a matter of credentials, never as a decision of a policy.
LEMMA ResolutionErrors ==
    ASSUME request \in Request, ResolveRequestContext(request).error # NoError
    PROVE  ResolveRequestContext(request).error \in {"MissingCredentials", "InvalidCredentials", "BadRequest", "NotFound"}
<1> DEFINE Kinds == {"MissingCredentials", "InvalidCredentials", "BadRequest", "NotFound"}
           Sound(result) == result.error = NoError \/ result.error \in Kinds
<1>1. \A mode, kind : kind \in Kinds => Sound(As(mode, Failed(kind)))
  BY DEF As, Failed
<1>2. \A mode, result : Sound(result) => Sound(As(mode, result))
  BY DEF As
<1>3. \A mode : Sound(NoContext(mode))
  BY DEF NoContext, As, Resolved
<1>4. \A a, x : Sound(ResolveDualToken(a, x, Now, revoked)) /\ Sound(ResolveAccessToken(x, Now, revoked))
  BY DEF ResolveDualToken, ResolveAccessToken, Resolved, Failed
<1>5. \A k, level : Sound(ResolveRecord(k, level))
  BY DEF ResolveRecord, Resolved, Failed
<1>6. \A k : Sound(ResolveApiKey(k)) /\ Sound(ResolveOAuthBearer(k, Now, revoked))
  <2>1. \A k : Sound(Failed("InvalidCredentials"))
    BY DEF Failed
  <2> HIDE DEF Sound
  <2> QED
    BY <1>5, <2>1 DEF ResolveApiKey, ResolveOAuthBearer
<1>7. \A s : Sound(ResolveCompatibility(s))
  <2>1. Sound(Failed("InvalidCredentials"))
    BY DEF Failed
  <2> HIDE DEF Sound
  <2> QED
    BY <1>5, <2>1 DEF ResolveCompatibility
<1> HIDE DEF Sound
<1>8. Kinds = {"MissingCredentials", "InvalidCredentials", "BadRequest", "NotFound"}
  OBVIOUS
<1> HIDE DEF Kinds
<1>9. /\ Sound(DualTokenContext(request))
      /\ \A mode : Sound(FinishAccessTokenOnlyContext(request, mode))
      /\ \A header, mode : Sound(KeyWithAccessToken(request, header, mode))
      /\ Sound(ApiKeyContext(request)) /\ Sound(OAuthContext(request))
  BY <1>1, <1>2, <1>4, <1>6, <1>8 DEF DualTokenContext, FinishAccessTokenOnlyContext, KeyWithAccessToken,
     ApiKeyContext, OAuthContext
<1>10. Sound(ResolveOpenApiBearerFlexible(request)) /\ Sound(ExtractCompatibilityCredentials(call.route, request))
  BY <1>1, <1>2, <1>6, <1>7, <1>8 DEF ResolveOpenApiBearerFlexible, ExtractCompatibilityCredentials
<1>11. \A auth : Sound(ResolveOpenApiRequestContext(request, auth))
  <2>1. \A auth : DetectScheme(request, auth) \in {"ApiKey", "OAuth", "DualToken", "none", "mixed"}
    BY DEF DetectScheme
  <2> QED
    BY <1>1, <1>8, <1>9, <2>1 DEF ResolveOpenApiRequestContext
<1>12. Sound(OpenApiContext(request))
  BY <1>1, <1>3, <1>8, <1>9, <1>10, <1>11 DEF OpenApiContext
<1>13. Sound(InternalApiContext(request))
  BY <1>1, <1>8, <1>9 DEF InternalApiContext
<1>14. Sound(TokenApiContext(request))
  BY <1>1, <1>3, <1>8, <1>9 DEF TokenApiContext
<1>15. Sound(ResolveRequestContext(request))
  BY <1>1, <1>3, <1>8, <1>12, <1>13, <1>14 DEF ResolveRequestContext
<1> QED
  BY <1>15 DEF Sound, Kinds

\* A request that has just arrived, or is gone, has an empty call state.
LEMMA FreshCall ==
    ASSUME call' = [surface |-> "unknown", public |-> FALSE, route |-> NoRoute, cors |-> NoOverlay,
                    key |-> NoKey, mode |-> "Public", principal |-> NoPrincipal],
           call' = NewCall, known' \subseteq revoked',
           \/ stage' = "idle" /\ request' = NoRequest
           \/ stage' = "SurfaceClassification" /\ request' \in Request
    PROVE  IInv'
<1>1. WellFormed'
  BY DEF WellFormed
<1>2. call'.key = NoKey
  OBVIOUS
<1>3. /\ ClassifiedByManifest' /\ SourceIsTrusted' /\ KeyIsScoped' /\ IdentifiedByCredentials'
      /\ AuthenticationHeld' /\ IsolationHeld'
  BY <1>2 DEF ClassifiedByManifest, SourceIsTrusted, KeyIsScoped, IdentifiedByCredentials,
     AuthenticationHeld, IsolationHeld, Classified, Trusted, Identified, Authenticated
<1> QED
  BY <1>1, <1>3 DEF IInv

\* Sessions are revoked while a request is in the chain; what was checked before
\* stays checked against the sessions revoked when it arrived.
LEMMA Unmoved ==
    ASSUME IInv, UNCHANGED <<request, stage, call, error, known>>, revoked \subseteq revoked'
    PROVE  IInv'
<1>1. WellFormed' /\ ClassifiedByManifest' /\ KeyIsScoped'
  BY DEF IInv, WellFormed, ClassifiedByManifest, KeyIsScoped
<1>2. SourceIsTrusted' /\ AuthenticationHeld' /\ IsolationHeld'
  BY Frame DEF IInv, SourceIsTrusted, AuthenticationHeld, IsolationHeld, CrossSiteChecked, IsolationChecked
<1>3. IdentifiedByCredentials'
  BY Frame DEF IInv, IdentifiedByCredentials
<1> QED
  BY <1>1, <1>2, <1>3 DEF IInv

\* Resolution sets the principal once, and everything scoped or checked before
\* stays (RequestContextResolutionInterceptor).
LEMMA ResolutionKeeps ==
    ASSUME IInv, RequestContextResolution
    PROVE  IInv'
<1>0. request # NoRequest /\ stage = "RequestContextResolution" /\ request \in Request
  BY DEF RequestContextResolution, At, IInv, WellFormed
<1>1. PICK context : context = ResolveRequestContext(request)
  OBVIOUS
<1>2. CASE context.error # NoError
  <2>1. Refuse(context.error)
    BY <1>1, <1>2 DEF RequestContextResolution
  <2>2. context.error \in {"MissingCredentials", "InvalidCredentials", "BadRequest", "NotFound"}
    BY <1>0, <1>1, <1>2, ResolutionErrors
  <2>3. context.error \notin {"Forbidden", "RateLimitExceeded"}
    BY <2>2
  <2> QED
    BY <1>0, <2>1, <2>3, RefuseKeeps
<1>3. CASE context.error = NoError
  <2>1. PICK m, p : m = context.mode /\ p = context.principal
    OBVIOUS
  <2>2. Pass([call EXCEPT !.mode = m, !.principal = p])
    BY <1>1, <1>3, <2>1 DEF RequestContextResolution
  <2>3. PICK c1 : c1 = [call EXCEPT !.mode = m]
    OBVIOUS
  <2>4. c1 = [surface |-> call.surface, public |-> call.public, route |-> call.route, cors |-> call.cors,
              key |-> call.key, mode |-> m, principal |-> call.principal]
    BY <2>3 DEF IInv, WellFormed
  <2>5. PICK c : c = [c1 EXCEPT !.principal = p]
    OBVIOUS
  <2>6. c = [surface |-> call.surface, public |-> call.public, route |-> call.route, cors |-> call.cors,
             key |-> call.key, mode |-> m, principal |-> p]
    BY <2>4, <2>5
  <2>7. [call EXCEPT !.mode = m, !.principal = p] = c
    BY <2>3, <2>5
  <2>8. /\ stage' = "Authentication" /\ call' = c
        /\ UNCHANGED <<request, error, owners, revoked, known>>
    BY <1>0, <2>2, <2>7, StageOrder DEF Pass
  <2>9. /\ call'.surface = call.surface /\ call'.public = call.public /\ call'.route = call.route
        /\ call'.cors = call.cors /\ call'.key = call.key /\ call'.mode = m /\ call'.principal = p
        /\ call' = [surface |-> call'.surface, public |-> call'.public, route |-> call'.route, cors |-> call'.cors,
                    key |-> call'.key, mode |-> call'.mode, principal |-> call'.principal]
    BY <2>6, <2>8
  <2>10. WellFormed'
    BY <1>0, <2>8, <2>9 DEF IInv, WellFormed, Classified, Trusted, Identified
  <2>11. ClassifiedByManifest'
    BY <1>0, <2>8, <2>9 DEF IInv, ClassifiedByManifest, Classified, Trusted
  <2>12. SourceIsTrusted'
    BY <1>0, <2>8, <2>9 DEF IInv, SourceIsTrusted, Trusted, EffectiveCors
  <2>13. KeyIsScoped'
    BY <1>0, <2>8, <2>9 DEF IInv, KeyIsScoped, Identified
  <2>14. IdentifiedByCredentials'
    <3>1. stage \in Classified /\ known \subseteq revoked /\ ClassifiedByManifest
      BY <1>0 DEF IInv, WellFormed, Classified, Trusted
    <3>2. /\ m \in {"DualToken", "CredentialEntryBootstrap"} =>
                LET tokens == {AuthToken(request), AccessToken(request)} \ {NoToken} IN
                /\ p # NoPrincipal
                /\ \A t \in tokens :
                    /\ SigningKey[t.signer].tenant = p.tenant
                    /\ NormalizeOrganizationScope(t.org) = p.org
                    /\ t.user \in {NoClaim, p.user}
                    /\ EnforceSession => t.session \notin known
          /\ call.public /\ call.route # NoRoute => p = NoPrincipal
          /\ call.route = NoRoute /\ p = NoPrincipal => IsCorsPreflight(request) \/ call.surface = "unknown"
      BY <1>0, <1>1, <1>3, <2>1, <3>1, ResolvedIdentity
    <3> QED
      BY <2>8, <2>9, <3>2 DEF IdentifiedByCredentials, TokensProveIdentity
  <2>15. AuthenticationHeld' /\ IsolationHeld'
    BY <2>8 DEF AuthenticationHeld, IsolationHeld, Authenticated
  <2> QED
    BY <2>10, <2>11, <2>12, <2>13, <2>14, <2>15 DEF IInv
<1> QED
  BY <1>2, <1>3

-------------------------------------------------------------------------------
(* The chain. *)

\* What the chain knows of a request holds at every stage of it, for any
\* manifest, policies and credentials.
THEOREM Invariance == Spec => []IInv
<1>1. Init => IInv
  <2> SUFFICES ASSUME Init PROVE IInv
    OBVIOUS
  <2>1. call = [surface |-> "unknown", public |-> FALSE, route |-> NoRoute, cors |-> NoOverlay,
                key |-> NoKey, mode |-> "Public", principal |-> NoPrincipal]
    BY DEF Init, NewCall
  <2>2. WellFormed
    BY <2>1 DEF Init, WellFormed
  <2>3. call.key = NoKey
    BY <2>1
  <2>4. /\ ClassifiedByManifest /\ SourceIsTrusted /\ KeyIsScoped /\ IdentifiedByCredentials
        /\ AuthenticationHeld /\ IsolationHeld
    BY <2>3 DEF Init, ClassifiedByManifest, SourceIsTrusted, KeyIsScoped, IdentifiedByCredentials,
        AuthenticationHeld, IsolationHeld, Classified, Trusted, Identified, Authenticated
  <2> QED
    BY <2>2, <2>4 DEF IInv
<1>2. ASSUME IInv, [Next]_vars
      PROVE  IInv'
  <2>1. CASE Arrive
    <3>1. PICK r \in Request : request' = r
      BY <2>1 DEF Arrive
    <3>2. stage' = "SurfaceClassification" /\ call' = NewCall /\ revoked' = revoked /\ known' = revoked
      BY <2>1 DEF Arrive, Stages
    <3>3. call' = [surface |-> "unknown", public |-> FALSE, route |-> NoRoute, cors |-> NoOverlay,
                   key |-> NoKey, mode |-> "Public", principal |-> NoPrincipal]
      BY <3>2 DEF NewCall
    <3> QED
      BY <3>1, <3>2, <3>3, FreshCall
  <2>2. CASE Finish
    <3>1. request' = NoRequest /\ stage' = "idle" /\ call' = NewCall /\ revoked' = revoked /\ known' = {}
      BY <2>2 DEF Finish
    <3>2. call' = [surface |-> "unknown", public |-> FALSE, route |-> NoRoute, cors |-> NoOverlay,
                   key |-> NoKey, mode |-> "Public", principal |-> NoPrincipal]
      BY <3>1 DEF NewCall
    <3> QED
      BY <3>1, <3>2, FreshCall
  <2>3. CASE MethodGuard
    BY <1>2, <2>3, CheckedPassKeeps, RefuseKeeps DEF MethodGuard, At, Classified, Trusted
  <2>4. CASE CrossSiteRequest
    BY <1>2, <2>4, CheckedPassKeeps, EmitKeeps DEF CrossSiteRequest, At, Classified, CrossSiteChecked
  <2>5. CASE SqlInjectionGuard
    BY <1>2, <2>5, CheckedPassKeeps, RefuseKeeps DEF SqlInjectionGuard, At, Classified, Trusted
  <2>6. CASE RequestSizeLimit
    <3>1. Pass(call) \/ Refuse("BadRequest") \/ Refuse("PayloadTooLarge")
      BY <2>6 DEF RequestSizeLimit
    <3> QED
      BY <1>2, <2>6, <3>1, CheckedPassKeeps, RefuseKeeps DEF RequestSizeLimit, At, Classified, Trusted
  <2>7. CASE RateLimit
    <3>1. Pass(call) \/ EmitSecurityEvent("RateLimitExceeded") \/ Refuse("DependencyUnavailable")
      BY <2>7 DEF RateLimit, ApplyRateLimit
    <3> QED
      BY <1>2, <2>7, <3>1, CheckedPassKeeps, EmitKeeps, RefuseKeeps DEF RateLimit, At, Classified, Trusted
  <2>8. CASE Authentication
    <3>1. \/ RequireAuthenticatedContext /\ Pass(call)
          \/ EmitSecurityEvent("MissingCredentials")
      BY <2>8 DEF Authentication
    <3> QED
      BY <1>2, <2>8, <3>1, CheckedPassKeeps, EmitKeeps DEF Authentication, At, Classified, Trusted, Identified
  <2>9. CASE Authorization
    <3>1. \/ Pass(call) \/ EmitSecurityEvent("RateLimitExceeded")
          \/ Refuse("DependencyUnavailable") \/ EmitSecurityEvent("Forbidden")
      BY <2>9 DEF Authorization, ApplyRateLimit
    <3> QED
      BY <1>2, <2>9, <3>1, CheckedPassKeeps, EmitKeeps, RefuseKeeps
         DEF Authorization, At, Classified, Trusted, Identified, Authenticated
  <2>10. CASE TenantIsolation
    <3>1. (IsolationChecked /\ Pass(call)) \/ EmitSecurityEvent("Forbidden")
      BY <2>10 DEF TenantIsolation, IsolationChecked
    <3> QED
      BY <1>2, <2>10, <3>1, CheckedPassKeeps, EmitKeeps
         DEF TenantIsolation, At, Classified, Trusted, Identified, Authenticated
  <2>11. CASE RevokeSession
    <3>1. /\ UNCHANGED <<request, stage, call, error, known>>
          /\ revoked \subseteq revoked'
      BY <2>11 DEF RevokeSession
    <3> QED
      BY <1>2, <3>1, Unmoved
  <2>12. CASE UNCHANGED vars
    <3>1. /\ UNCHANGED <<request, stage, call, error, known>>
          /\ revoked \subseteq revoked'
      BY <2>12 DEF vars
    <3> QED
      BY <1>2, <3>1, Unmoved
  <2> QED
    BY <1>2, <2>1, <2>2, <2>3, <2>4, <2>5, <2>6, <2>7, <2>8, <2>9, <2>10, <2>11, <2>12,
       ClassificationKeeps, CorsKeeps, IdempotencyKeeps, ResolutionKeeps DEF Next
<1> QED
  BY <1>1, <1>2, PTL DEF Spec

\* For any credentials: a handler runs for a token principal only when every token
\* was signed by that tenant's own key and agrees on organization and user, and no
\* session behind it had ended when the request arrived (TenantBoundJwtVerifier).
THEOREM IdentityIsProven == Spec => []ServedIdentityIsProven
<1>1. IInv => ServedIdentityIsProven
  BY DEF IInv, IdentifiedByCredentials, ServedIdentityIsProven, Served, Identified, Authenticated
<1> QED
  BY <1>1, Invariance, PTL

\* For any manifest and profile: an anonymous handler is on a route declared
\* public, an optional route without credentials, or a public prefix outside every
\* API surface (require_authenticated_context).
THEOREM AnonymousIsDeclared == Spec => []AnonymousOnlyWhereDeclared
<1>1. ASSUME IInv PROVE AnonymousOnlyWhereDeclared
  <2> SUFFICES ASSUME Served, call.principal = NoPrincipal
               PROVE  IF call.route = NoRoute THEN call.surface = "unknown" /\ IsPublicPath(request.path, Profile)
                      ELSE \/ SkipsCredentialResolution(call.route.auth)
                           \/ OnOptionalRoute /\ ~CredentialsPresent(request)
    BY DEF AnonymousOnlyWhereDeclared
  <2>1. stage = "served" /\ ~IsCorsPreflight(request)
    BY DEF Served
  <2>2. stage \in Classified /\ stage \in Identified /\ stage \in Authenticated
    BY <2>1 DEF Classified, Trusted, Identified, Authenticated
  <2>3. call.public \/ (OnOptionalRoute /\ ~CredentialsPresent(request))
    BY <1>1, <2>1, <2>2 DEF IInv, AuthenticationHeld, RequireAuthenticatedContext
  <2>4. call.public => IF call.route # NoRoute THEN SkipsCredentialResolution(call.route.auth)
                       ELSE IsPublicPath(request.path, Profile)
    BY <1>1, <2>2 DEF IInv, ClassifiedByManifest, ResolvePublicPath
  <2>5. call.route = NoRoute => call.surface = "unknown"
    BY <1>1, <2>1, <2>2 DEF IInv, IdentifiedByCredentials
  <2> QED
    BY <2>3, <2>4, <2>5 DEF OnOptionalRoute
<1> QED
  BY <1>1, Invariance, PTL

\* For any CORS policy and overlay: a write that carries a cookie comes from an
\* origin the policy in force allows (CrossSiteRequestInterceptor).
THEOREM CookieWritesAreTrusted == Spec => []CookieWritesFromTrustedSource
<1>1. IInv => CookieWritesFromTrustedSource
  BY DEF IInv, SourceIsTrusted, CookieWritesFromTrustedSource, Served, Trusted, Identified, Authenticated,
     ValidateCrossSiteRequest, ValidateCookieAuthenticatedSource
<1> QED
  BY <1>1, Invariance, PTL

\* The least-number principle, from the well-foundedness of < on Nat.
LEMMA LeastNat ==
    ASSUME NEW T \in SUBSET Nat, T # {}
    PROVE  \E x \in T : \A y \in T : x <= y
<1> DEFINE R == {ss \in Nat \X Nat : ss[1] < ss[2]}
<1>1. IsWellFoundedOn(R, Nat)
  BY NatLessThanWellFounded DEF OpToRel
<1>2. PICK x \in T : \A y \in T : ~(<<y, x>> \in R)
  BY <1>1, WFMin
<1>3. ASSUME NEW y \in T PROVE x <= y
  <2>1. <<y, x>> \in Nat \X Nat /\ <<y, x>>[1] = y /\ <<y, x>>[2] = x
    OBVIOUS
  <2>2. ~(<<y, x>>[1] < <<y, x>>[2])
    BY <1>2, <2>1
  <2> QED
    BY <2>1, <2>2
<1> QED
  BY <1>3

\* The least of a set of positions.
LEMMA LeastPosition ==
    ASSUME NEW S \in SUBSET Nat, S # {}
    PROVE  Min(S) \in S
<1>1. PICK x \in S : \A y \in S : x <= y
  BY LeastNat
<1> QED BY <1>1 DEF Min

\* What match_route finds is a route of the manifest, and its template matches.
LEMMA MatchIsDeclared ==
    ASSUME NEW method, NEW path, MatchRoute(Routes, method, path) # NoRoute
    PROVE  \E n \in DOMAIN Routes : /\ MatchRoute(Routes, method, path) = Routes[n]
                                    /\ RoutePathMatches(Routes[n].path, path)
<1> DEFINE C == Candidates(Routes, method, path)
           L == {i \in C : ~TemplateHasParameters(Routes[i].path)}
<1>1. C \subseteq DOMAIN Routes /\ C \in SUBSET Nat /\ L \in SUBSET Nat
  BY TemplateAssumption DEF Candidates
<1>2. \A i \in C : RoutePathMatches(Routes[i].path, path)
  BY DEF Candidates
<1>3. \/ L # {} /\ MatchRoute(Routes, method, path) = Routes[Min(L)]
      \/ C # {} /\ MatchRoute(Routes, method, path) = Routes[Min(C)]
  BY DEF MatchRoute
<1> QED
  BY <1>1, <1>2, <1>3, LeastPosition

\* For any manifest whose routes name a parameter once: a principal reaches a
\* handler only for its own tenant and organization, or with the permission the
\* backend route requires (verify_path_resource_ids_match_principal).
THEOREM TenantsStayApart == ParametersAreUnique => (Spec => []StaysInTenant)
<1> SUFFICES ASSUME ParametersAreUnique PROVE Spec => []StaysInTenant
  OBVIOUS
<1>1. IInv => StaysInTenant
  <2> HAVE IInv
  <2> SUFFICES ASSUME Served, call.principal # NoPrincipal, call.route # NoRoute, ~call.route.external,
                      ~AllowsCrossTenantResourceAccess,
                      NEW i \in DOMAIN call.route.path, call.route.path[i].form = "param"
               PROVE  LET named == PathSegments(request.path)[i].text IN
                      /\ (call.route.path[i].text = "{tenantId}") => (named = call.principal.tenant)
                      /\ (call.route.path[i].text = "{organizationId}") =>
                            (named \in {TenantLevel, call.principal.org})
    BY DEF StaysInTenant
  <2>1. stage = "served" /\ ~IsCorsPreflight(request) /\ request \in Request
    BY DEF Served, IInv, WellFormed
  <2>2. call.route = MatchRoute(Routes, request.method, request.path)
    BY <2>1 DEF IInv, ClassifiedByManifest, Classified, Trusted, Identified, Authenticated
  <2>6. PICK n \in DOMAIN Routes : call.route = Routes[n] /\ RoutePathMatches(Routes[n].path, request.path)
    BY <2>2, MatchIsDeclared
  <2>7. DOMAIN Routes[n].path = 1..Len(Routes[n].path) /\ Len(Routes[n].path) = Len(PathSegments(request.path))
    BY <2>6, TemplateAssumption DEF RoutePathMatches
  <2>0. i \in Nat /\ PathSegments(request.path)[i].text # NoClaim
    BY <2>1, <2>6, <2>7, TemplateAssumption
  <2>3. ~call.public
    BY <2>1 DEF IInv, IdentifiedByCredentials, Identified, Authenticated
  <2>4. /\ PathResourceId(call.route, request.path, TenantParameters) \in {NoClaim, call.principal.tenant}
        /\ PathResourceId(call.route, request.path, OrganizationParameters) \in
                {NoClaim, TenantLevel, call.principal.org}
    BY <2>1, <2>3 DEF IInv, IsolationHeld, VerifyPathResourceIdsMatchPrincipal
  <2>5. ASSUME NEW name, call.route.path[i].text = name
        PROVE  PathResourceId(call.route, request.path, {name}) = PathSegments(request.path)[i].text
    <3>1. {j \in DOMAIN call.route.path : call.route.path[j].form = "param" /\ call.route.path[j].text \in {name}} = {i}
      BY <2>6, <2>5 DEF ParametersAreUnique
    <3>2. Max({i}) = i
      BY <2>0 DEF Max
    <3> QED
      BY <3>1, <3>2 DEF PathResourceId
  <2> QED
    BY <2>0, <2>4, <2>5 DEF TenantParameters, OrganizationParameters
<1> QED
  BY <1>1, Invariance, PTL

-------------------------------------------------------------------------------
(* The owner of an idempotency key. *)

\* Which credential scopes a key (scoped_idempotency_store_key).
LEMMA ScopeKinds ==
    ASSUME NEW r
    PROVE  LET key == r.headers["x-api-key"]
               ingress == r.headers["x-sdkwork-ingress-token"]
               agent == r.headers["x-sdkwork-agent-token"]
               scope == ScopedIdempotencyStoreKey(r, FALSE)
           IN /\ key # NoToken => scope = <<"api_key", key>>
              /\ key = NoToken /\ ingress # NoToken => scope = <<"ingress_token", ingress>>
              /\ key = NoToken /\ ingress = NoToken /\ agent # NoToken => scope = <<"agent_token", agent>>
              /\ key = NoToken /\ ingress = NoToken /\ agent = NoToken =>
                    /\ OAuthBearer(r) # NoToken => scope = <<"oauth", OAuthBearer(r)>>
                    /\ OAuthBearer(r) = NoToken => scope = <<"tokens", AuthToken(r), AccessToken(r)>>
BY DEF ScopedIdempotencyStoreKey

\* The owner of a key that is scoped by one credential.
LEMMA OwnedByOne ==
    ASSUME NEW kind \in {"api_key", "ingress_token", "agent_token", "oauth"}, NEW t, NEW k, NEW p,
           p.tenant = t.tenant, p.app = t.app, p.user = t.user
    PROVE  Owned(<< <<kind, t>>, k>>, p)
BY DEF Owned, ScopeOwner

\* The owner of a key that is scoped by a pair of tokens, or by an access token.
LEMMA OwnedByTokens ==
    ASSUME NEW a, NEW x, NEW k, NEW p, p.app = x.app,
           a = NoToken => p.tenant = x.tenant /\ p.user = x.user,
           a # NoToken => /\ p.tenant = IF a.tenant # NoClaim THEN a.tenant ELSE x.tenant
                          /\ p.user = a.user
    PROVE  Owned(<< <<"tokens", a, x>>, k>>, p)
<1>1. PICK scope : scope = <<"tokens", a, x>>
  OBVIOUS
<1>2. scope[1] = "tokens" /\ scope[2] = a /\ scope[3] = x
  BY <1>1
<1>3. p.tenant = ScopeOwner(scope).tenant /\ p.app = ScopeOwner(scope).app /\ p.user = ScopeOwner(scope).user
  BY <1>2 DEF ScopeOwner
<1>4. <<scope, k>>[1] = scope
  OBVIOUS
<1> QED
  BY <1>1, <1>3, <1>4 DEF Owned

\* A key with an access token stands for the key (ingress and agent tokens).
LEMMA KeyContextProves ==
    ASSUME NEW r \in Request, NEW header \in CredentialHeader, NEW mode, NEW c,
           c = KeyWithAccessToken(r, header, mode), c.error = NoError
    PROVE  /\ r.headers[header] # NoToken
           /\ c.principal.tenant = r.headers[header].tenant /\ c.principal.app = r.headers[header].app
           /\ c.principal.user = r.headers[header].user
<1>1. PICK t : t = r.headers[header]
  OBVIOUS
<1>2. t # NoToken /\ AccessToken(r) # NoToken
  BY <1>1, NothingAssumption DEF KeyWithAccessToken, As, Failed
<1>3. c = As(mode, ResolveRecord(t, "apiKey"))
  BY <1>1, <1>2 DEF KeyWithAccessToken, ResolveApiKey, As
<1>4. t \in Token
  BY <1>1, <1>2, Presented
<1> QED
  BY <1>1, <1>2, <1>3, <1>4, RecordContextProves

\* A finite set with two members has more than one.
LEMMA TwoMembers ==
    ASSUME NEW S, IsFiniteSet(S), NEW x \in S, NEW y \in S, x # y
    PROVE  Cardinality(S) > 1
<1>1. Cardinality(S) \in Nat
  BY FS_CardinalityType
<1>2. IsFiniteSet({x}) /\ Cardinality({x}) = 1
  BY FS_Singleton
<1>3. Cardinality({x} \cup {y}) = 2
  BY <1>2, FS_AddElement
<1>4. Cardinality({x} \cup {y}) <= Cardinality(S)
  BY FS_Subset
<1> QED
  BY <1>1, <1>3, <1>4

\* On a compatibility route whose schemes are single headers, exactly one of the
\* credentials is presented, and it is the one that resolves
\* (extract_compatibility_credentials).
LEMMA CompatibilityOwner ==
    ASSUME NEW r \in Request, NEW route, route.auth = "Compatibility", ValidateRouteAuthCredentials(route, r),
           IsFiniteSet(DOMAIN route.schemes),
           \A i \in DOMAIN route.schemes : \E h \in route.schemes[i] : route.schemes[i] = {h},
           CredentialsPresent(r),
           NEW c, c = ExtractCompatibilityCredentials(route, r), c.error = NoError
    PROVE  \E h \in CredentialHeader :
             /\ r.headers[h] # NoToken /\ (h = "authorization" => AuthToken(r) # NoToken)
             /\ \A k \in CredentialHeader \ {h} :
                    IF k = "authorization" THEN AuthToken(r) = NoToken ELSE r.headers[k] = NoToken
             /\ c.principal.tenant = r.headers[h].tenant /\ c.principal.app = r.headers[h].app
             /\ c.principal.user = r.headers[h].user
<1> DEFINE Value(h) == IF h = "authorization" THEN AuthToken(r) ELSE r.headers[h]
<1>0. \A mode, kind : kind \in {"MissingCredentials", "InvalidCredentials", "BadRequest", "NotFound"} =>
        As(mode, Failed(kind)).error # NoError
  BY NothingAssumption DEF As, Failed
<1>1. PICK complete : complete = CompleteAlternatives(route, r)
  OBVIOUS
<1>2. complete = {i \in DOMAIN route.schemes : \A h \in route.schemes[i] : Value(h) # NoToken}
  BY <1>1 DEF CompleteAlternatives
<1> HIDE DEF Value
<1>3. complete # {} /\ ~(Cardinality(complete) > 1)
  BY <1>0, <1>1 DEF ExtractCompatibilityCredentials
<1>4. PICK i : i = CHOOSE j \in complete : TRUE
  OBVIOUS
<1>5. i \in complete
  BY <1>3, <1>4
<1>6. \A j \in complete : j = i
  <2> SUFFICES ASSUME NEW j \in complete, j # i PROVE FALSE
    OBVIOUS
  <2>1. IsFiniteSet(complete)
    BY <1>2, FS_Subset
  <2> QED
    BY <1>3, <1>5, <2>1, TwoMembers
<1>7. c = As("Compatibility", ResolveCompatibility({r.headers[h] : h \in route.schemes[i]}))
  BY <1>1, <1>3, <1>4 DEF ExtractCompatibilityCredentials
<1>8. PICK h : route.schemes[i] = {h}
  BY <1>2, <1>5
<1>9. PICK v : v = r.headers[h]
  OBVIOUS
<1>10. c = As("Compatibility", ResolveCompatibility({v}))
  BY <1>7, <1>8, <1>9
<1>11. ResolveCompatibility({v}).error = NoError /\ c.principal = ResolveCompatibility({v}).principal
  BY <1>10 DEF As
<1>12. ResolveCompatibility({v}) = ResolveRecord(v, "compatibility")
  <2>1. (CHOOSE d \in {v} : TRUE) = v
    OBVIOUS
  <2> QED
    BY <1>11, <2>1, NothingAssumption DEF ResolveCompatibility, Failed
<1>13. c.principal.tenant = v.tenant /\ c.principal.app = v.app /\ c.principal.user = v.user
  <2>1. PICK p : p = Principal(v.tenant, v.org, v.user, NoClaim, v.app, "compatibility", v.scope)
    OBVIOUS
  <2>2. c.principal = p
    BY <1>11, <1>12, <2>1, RecordProves
  <2>3. p.tenant = v.tenant /\ p.app = v.app /\ p.user = v.user
    BY <2>1 DEF Principal
  <2> QED
    BY <2>2, <2>3
<1>14. ASSUME NEW k \in CredentialHeader, Value(k) # NoToken
       PROVE  k = h
  <2>1. r.headers[k] # NoToken
    BY <1>14 DEF Value, AuthToken
  <2>2. PICK j \in DOMAIN route.schemes : k \in route.schemes[j]
    BY <1>14, <2>1 DEF ValidateRouteAuthCredentials
  <2>3. route.schemes[j] = {k}
    BY <2>2
  <2>4. j \in complete
    BY <1>2, <1>14, <2>2, <2>3
  <2> QED
    BY <1>6, <1>8, <2>3, <2>4
<1>15. \E k \in CredentialHeader : Value(k) # NoToken
  BY DEF CredentialsPresent, CredentialHeader, Value
<1>16. h \in CredentialHeader /\ Value(h) # NoToken
  BY <1>14, <1>15
<1>17. r.headers[h] # NoToken /\ (h = "authorization" => AuthToken(r) # NoToken)
  BY <1>16 DEF Value, AuthToken
<1>18. \A k \in CredentialHeader \ {h} :
         IF k = "authorization" THEN AuthToken(r) = NoToken ELSE r.headers[k] = NoToken
  BY <1>14 DEF Value
<1> QED
  BY <1>9, <1>13, <1>16, <1>17, <1>18

\* The principal a request resolves to is the one its key is scoped by, whatever
\* the profile of its route.
LEMMA OwnerResolved ==
    ASSUME RoutesAreAdmitted, request \in Request, ClassifiedByManifest, stage \in Classified,
           call.route # NoRoute, ~call.public, CredentialsPresent(request),
           NEW c, c = ResolveRequestContext(request), c.error = NoError, c.principal # NoPrincipal, NEW k
    PROVE  Owned(<<ScopedIdempotencyStoreKey(request, FALSE), k>>, c.principal)
<1>1. PICK auth : auth = call.route.auth
  OBVIOUS
<1>2. /\ call.route = MatchRoute(Routes, request.method, request.path)
      /\ ValidateRouteAuthCredentials(call.route, request)
      /\ call.surface = ClassifyApiSurface(request.path, Profile)
      /\ ~SkipsCredentialResolution(auth)
  BY <1>1 DEF ClassifiedByManifest, ResolvePublicPath
<1>18. PICK n \in DOMAIN Routes : call.route = Routes[n] /\ RoutePathMatches(Routes[n].path, request.path)
  BY <1>2, MatchIsDeclared
<1>3. /\ auth \in AdmittedAuth(call.surface)
      /\ \A i \in DOMAIN call.route.schemes : \E h \in call.route.schemes[i] : call.route.schemes[i] = {h}
  BY <1>1, <1>2, <1>18, ManifestAssumption DEF RoutesAreAdmitted, ValidateRouteAuthForSurfaces
<1>4. ASSUME NEW h \in CredentialHeader, h \notin AllowedCredentialHeaders(auth), auth # "Compatibility"
      PROVE  request.headers[h] = NoToken
  BY <1>1, <1>2, <1>4, SentIsDeclared
<1>5. PICK scope : scope = ScopedIdempotencyStoreKey(request, FALSE)
  OBVIOUS
<1>6. PICK ak, it, gt, a, x : /\ ak = request.headers["x-api-key"]
                              /\ it = request.headers["x-sdkwork-ingress-token"]
                              /\ gt = request.headers["x-sdkwork-agent-token"]
                              /\ a = AuthToken(request) /\ x = AccessToken(request)
  OBVIOUS
<1>7. /\ ak # NoToken => scope = <<"api_key", ak>>
      /\ ak = NoToken /\ it # NoToken => scope = <<"ingress_token", it>>
      /\ ak = NoToken /\ it = NoToken /\ gt # NoToken => scope = <<"agent_token", gt>>
      /\ ak = NoToken /\ it = NoToken /\ gt = NoToken =>
            /\ a # NoToken /\ x = NoToken => scope = <<"oauth", a>>
            /\ a = NoToken \/ x # NoToken => scope = <<"tokens", a, x>>
  BY <1>5, <1>6, ScopeKinds DEF OAuthBearer
<1>8. /\ "x-api-key" \in CredentialHeader /\ "x-sdkwork-ingress-token" \in CredentialHeader
      /\ "x-sdkwork-agent-token" \in CredentialHeader /\ "authorization" \in CredentialHeader
      /\ "access-token" \in CredentialHeader
  BY DEF CredentialHeader
<1>9. \A mode : c # NoContext(mode)
  BY DEF NoContext, As, Resolved
<1>10. ASSUME c = DualTokenContext(request), auth \in {"DualToken", "DualTokenOrAnonymous", "ApiKeyOrDualToken"}
       PROVE  Owned(<<scope, k>>, c.principal)
  <2>1. /\ a # NoToken /\ x # NoToken
        /\ c.principal.tenant = IF a.tenant # NoClaim THEN a.tenant ELSE x.tenant
        /\ c.principal.app = x.app /\ c.principal.user = a.user
    BY <1>6, <1>10, DualTokenContextProves
  <2>2. request.headers["authorization"] # NoToken
    BY <1>6, <2>1 DEF AuthToken
  <2>3. it = NoToken /\ gt = NoToken
    BY <1>4, <1>6, <1>8, <1>10 DEF AllowedCredentialHeaders
  <2>4. ak = NoToken
    <3>1. CASE auth \in {"DualToken", "DualTokenOrAnonymous"}
      BY <1>4, <1>6, <1>8, <3>1 DEF AllowedCredentialHeaders
    <3>2. CASE auth = "ApiKeyOrDualToken"
      BY <1>1, <1>2, <1>6, <1>8, <2>2, <3>2 DEF ValidateRouteAuthCredentials, ValidateStandardRouteAuthCredentials
    <3> QED
      BY <1>10, <3>1, <3>2
  <2>5. scope = <<"tokens", a, x>>
    BY <1>7, <2>1, <2>3, <2>4
  <2> QED
    BY <2>1, <2>5, OwnedByTokens
<1>11. CASE /\ call.surface \in {"app", "backend", "gateway"}
            /\ c = DualTokenContext(request)
  <2>1. a # NoToken
    BY <1>6, <1>11, DualTokenContextProves
  <2>2. request.headers["authorization"] # NoToken
    BY <1>6, <2>1 DEF AuthToken
  <2>3. auth \in {"DualToken", "DualTokenOrAnonymous", "CredentialEntryBootstrap", "AgentToken"}
    BY <1>2, <1>3, <1>11 DEF AdmittedAuth, SkipsCredentialResolution
  <2>4. auth \notin {"CredentialEntryBootstrap", "AgentToken"}
    BY <1>4, <1>8, <2>2 DEF AllowedCredentialHeaders
  <2> QED
    BY <1>5, <1>10, <1>11, <2>3, <2>4
<1>12. CASE auth = "CredentialEntryBootstrap" /\ c = FinishAccessTokenOnlyContext(request, auth)
  <2>1. ak = NoToken /\ it = NoToken /\ gt = NoToken /\ a = NoToken
    BY <1>4, <1>6, <1>8, <1>12 DEF AllowedCredentialHeaders, AuthToken
  <2>2. c.principal.tenant = x.tenant /\ c.principal.app = x.app /\ c.principal.user = x.user
    BY <1>6, <1>12, AccessTokenContextProves
  <2>3. scope = <<"tokens", a, x>>
    BY <1>7, <2>1
  <2>4. Owned(<< <<"tokens", a, x>>, k>>, c.principal)
    BY <2>1, <2>2, OwnedByTokens
  <2> QED
    BY <1>5, <2>3, <2>4
<1>13. CASE auth = "AgentToken" /\ c = KeyWithAccessToken(request, "x-sdkwork-agent-token", auth)
  <2>1. ak = NoToken /\ it = NoToken
    BY <1>4, <1>6, <1>8, <1>13 DEF AllowedCredentialHeaders
  <2>2. gt # NoToken /\ c.principal.tenant = gt.tenant /\ c.principal.app = gt.app /\ c.principal.user = gt.user
    BY <1>6, <1>8, <1>13, KeyContextProves
  <2>3. Owned(<< <<"agent_token", gt>>, k>>, c.principal)
    BY <2>2, OwnedByOne
  <2> QED
    BY <1>5, <1>7, <2>1, <2>2, <2>3
<1>14. CASE auth = "IngressToken" /\ c = KeyWithAccessToken(request, "x-sdkwork-ingress-token", auth)
  <2>1. ak = NoToken
    BY <1>4, <1>6, <1>8, <1>14 DEF AllowedCredentialHeaders
  <2>2. it # NoToken /\ c.principal.tenant = it.tenant /\ c.principal.app = it.app /\ c.principal.user = it.user
    BY <1>6, <1>8, <1>14, KeyContextProves
  <2>3. Owned(<< <<"ingress_token", it>>, k>>, c.principal)
    BY <2>2, OwnedByOne
  <2> QED
    BY <1>5, <1>7, <2>1, <2>2, <2>3
<1>15. CASE /\ call.surface = "open" /\ auth \notin {"RefreshToken", "Compatibility", "OpenApiBearerFlexible"}
            /\ c = ResolveOpenApiRequestContext(request, auth)
  <2>1. auth \in {"ApiKey", "OAuth", "OpenApiFlexible", "ApiKeyOrDualToken"}
    BY <1>2, <1>3, <1>15 DEF AdmittedAuth, SkipsCredentialResolution
  <2>2. it = NoToken /\ gt = NoToken
    BY <1>4, <1>6, <1>8, <2>1 DEF AllowedCredentialHeaders
  <2>3. \/ /\ ak # NoToken
           /\ c.principal.tenant = ak.tenant /\ c.principal.app = ak.app /\ c.principal.user = ak.user
        \/ /\ OAuthBearer(request) # NoToken /\ ak = NoToken
           /\ c.principal.tenant = OAuthBearer(request).tenant
           /\ c.principal.app = OAuthBearer(request).app /\ c.principal.user = OAuthBearer(request).user
        \/ c = DualTokenContext(request) /\ auth \in {"ApiKeyOrDualToken", "DualToken", "DualTokenOrAnonymous"}
    BY <1>6, <1>15, OpenApiOutcomes
  <2>4. CASE /\ ak # NoToken
             /\ c.principal.tenant = ak.tenant /\ c.principal.app = ak.app /\ c.principal.user = ak.user
    <3>1. Owned(<< <<"api_key", ak>>, k>>, c.principal)
      BY <2>4, OwnedByOne
    <3> QED
      BY <1>5, <1>7, <2>4, <3>1
  <2>5. CASE /\ OAuthBearer(request) # NoToken /\ ak = NoToken
             /\ c.principal.tenant = OAuthBearer(request).tenant
             /\ c.principal.app = OAuthBearer(request).app /\ c.principal.user = OAuthBearer(request).user
    <3>1. a # NoToken /\ x = NoToken /\ OAuthBearer(request) = a
      BY <1>6, <2>5 DEF OAuthBearer
    <3>2. Owned(<< <<"oauth", a>>, k>>, c.principal)
      BY <2>5, <3>1, OwnedByOne
    <3> QED
      BY <1>5, <1>7, <2>2, <2>5, <3>1, <3>2
  <2> QED
    BY <1>5, <1>10, <2>3, <2>4, <2>5
<1>16. CASE call.surface = "open" /\ auth = "OpenApiBearerFlexible"
  BY <1>3, <1>16 DEF AdmittedAuth
<1>17. CASE auth = "Compatibility" /\ c = ExtractCompatibilityCredentials(call.route, request)
  <2>1. IsFiniteSet(DOMAIN call.route.schemes)
    BY <1>18, TemplateAssumption
  <2>2. PICK h \in CredentialHeader :
             /\ request.headers[h] # NoToken /\ (h = "authorization" => AuthToken(request) # NoToken)
             /\ \A j \in CredentialHeader \ {h} :
                    IF j = "authorization" THEN AuthToken(request) = NoToken ELSE request.headers[j] = NoToken
             /\ c.principal.tenant = request.headers[h].tenant /\ c.principal.app = request.headers[h].app
             /\ c.principal.user = request.headers[h].user
    BY <1>1, <1>2, <1>3, <1>17, <2>1, CompatibilityOwner
  <2>3. CASE h \in {"x-api-key", "x-sdkwork-ingress-token", "x-sdkwork-agent-token"}
    <3>1. PICK kind \in {"api_key", "ingress_token", "agent_token"} : scope = <<kind, request.headers[h]>>
      BY <1>6, <1>7, <1>8, <2>2, <2>3
    <3>2. Owned(<< <<kind, request.headers[h]>>, k>>, c.principal)
      BY <2>2, OwnedByOne
    <3> QED
      BY <1>5, <3>1, <3>2
  <2>4. CASE h = "authorization"
    <3>1. ak = NoToken /\ it = NoToken /\ gt = NoToken /\ x = NoToken /\ a = request.headers[h] /\ a # NoToken
      BY <1>6, <1>8, <2>2, <2>4 DEF AuthToken, AccessToken
    <3>2. Owned(<< <<"oauth", a>>, k>>, c.principal)
      BY <2>2, <3>1, OwnedByOne
    <3> QED
      BY <1>5, <1>7, <3>1, <3>2
  <2>5. CASE h = "access-token"
    <3>1. ak = NoToken /\ it = NoToken /\ gt = NoToken /\ a = NoToken /\ x = request.headers[h]
      BY <1>6, <1>8, <2>2, <2>5 DEF AccessToken
    <3>2. Owned(<< <<"tokens", a, x>>, k>>, c.principal)
      BY <2>2, <3>1, OwnedByTokens
    <3> QED
      BY <1>5, <1>7, <3>1, <3>2
  <2> QED
    BY <2>2, <2>3, <2>4, <2>5 DEF CredentialHeader
<1> QED
  BY <1>1, <1>9, <1>11, <1>12, <1>13, <1>14, <1>15, <1>16, <1>17, Outcomes

\* Once a request is identified, its key and its principal are settled.
LEMMA IdentifiedIsSettled ==
    ASSUME IInv, [Next]_vars, ~RequestContextResolution, stage' \in Identified
    PROVE  stage \in Identified /\ call' = call
<1> USE DEF Identified, Authenticated
<1>1. ASSUME NEW kind, Refuse(kind) PROVE FALSE
  BY <1>1 DEF Refuse
<1>2. ASSUME NEW kind, EmitSecurityEvent(kind) PROVE FALSE
  BY <1>2 DEF EmitSecurityEvent, Refuse
<1>3. ASSUME NEW new, Pass(new),
             stage \in {"SurfaceClassification", "Cors", "MethodGuard", "CrossSiteRequest", "SqlInjectionGuard",
                        "RequestSizeLimit", "RateLimit", "Idempotency"}
      PROVE  FALSE
  BY <1>3, StageOrder DEF Pass
<1>4. CASE SurfaceClassification
  BY <1>1, <1>3, <1>4 DEF SurfaceClassification, At
<1>5. CASE CorsStage
  BY <1>1, <1>2, <1>3, <1>5 DEF CorsStage, At
<1>6. CASE MethodGuard \/ CrossSiteRequest \/ SqlInjectionGuard \/ RequestSizeLimit \/ RateLimit
  BY <1>1, <1>2, <1>3, <1>6
     DEF MethodGuard, CrossSiteRequest, SqlInjectionGuard, RequestSizeLimit, RateLimit, ApplyRateLimit, At
<1>7. CASE Idempotency
  BY <1>1, <1>3, <1>7 DEF Idempotency, At
<1>8. CASE Authentication \/ Authorization \/ TenantIsolation
  BY <1>1, <1>2, <1>8 DEF Authentication, Authorization, TenantIsolation, ApplyRateLimit, At, Pass
<1>9. CASE Arrive \/ Finish
  BY <1>9 DEF Arrive, Finish, Stages
<1>10. CASE RevokeSession \/ UNCHANGED vars
  BY <1>10 DEF RevokeSession, vars
<1> QED
  BY <1>4, <1>5, <1>6, <1>7, <1>8, <1>9, <1>10 DEF Next

\* Only a request that ends adds an owner, and the one whose principal it is
\* (Finish).
LEMMA OwnersAreSettled ==
    ASSUME [Next]_vars
    PROVE  \/ owners' = owners
           \/ /\ stage = "served" /\ call.key # NoKey /\ call.principal # NoPrincipal
              /\ owners' = owners \cup {[key |-> call.key, tenant |-> call.principal.tenant,
                                         app |-> call.principal.app, user |-> call.principal.user]}
<1>1. \A c : Pass(c) => owners' = owners
  BY DEF Pass
<1>2. \A kind : EmitSecurityEvent(kind) \/ Refuse(kind) => owners' = owners
  BY DEF EmitSecurityEvent, Refuse
<1>3. CASE Finish
  BY <1>3 DEF Finish, Served
<1>4. CASE SurfaceClassification \/ Idempotency
  BY <1>1, <1>2, <1>4 DEF SurfaceClassification, Idempotency
<1>5. CASE CorsStage
  BY <1>1, <1>2, <1>5 DEF CorsStage
<1>6. CASE MethodGuard \/ CrossSiteRequest \/ SqlInjectionGuard \/ RequestSizeLimit \/ RateLimit
  BY <1>1, <1>2, <1>6 DEF MethodGuard, CrossSiteRequest, SqlInjectionGuard, RequestSizeLimit, RateLimit, ApplyRateLimit
<1>7. CASE RequestContextResolution \/ Authentication \/ Authorization \/ TenantIsolation
  BY <1>1, <1>2, <1>7 DEF RequestContextResolution, Authentication, Authorization, TenantIsolation, ApplyRateLimit
<1>8. CASE Arrive \/ RevokeSession \/ UNCHANGED vars
  BY <1>8 DEF Arrive, RevokeSession, vars
<1> QED
  BY <1>3, <1>4, <1>5, <1>6, <1>7, <1>8 DEF Next

\* Whether a path is public is a truth value.
LEMMA ResolvePublicType ==
    ASSUME NEW routes, NEW method, NEW path, NEW profile
    PROVE  ResolvePublicPath(routes, method, path, profile) \in BOOLEAN
<1>1. PICK route : route = MatchRoute(routes, method, path)
  OBVIOUS
<1>2. CASE route # NoRoute
  <2>1. ResolvePublicPath(routes, method, path, profile) = (route.auth \in {"Public", "BootstrapBody", "RefreshToken"})
    BY <1>1, <1>2 DEF ResolvePublicPath, SkipsCredentialResolution
  <2> QED
    BY <2>1
<1>3. CASE route = NoRoute
  <2>1. ResolvePublicPath(routes, method, path, profile) = (\E p \in profile.public : MatchesPrefix(path, p))
    BY <1>1, <1>3 DEF ResolvePublicPath, IsPublicPath
  <2> QED
    BY <2>1
<1> QED
  BY <1>2, <1>3

\* A scope stands for one principal from the moment the request is identified.
LEMMA OwnerStep ==
    ASSUME RoutesAreAdmitted, IInv, KeysHaveTheirOwner, [Next]_vars
    PROVE  KeysHaveTheirOwner'
<1>1. ASSUME stage' \in Identified, call'.key # NoKey, call'.principal # NoPrincipal
      PROVE  Owned(call'.key, call'.principal)
  <2>1. CASE ~RequestContextResolution
    <3>1. stage \in Identified /\ call' = call
      BY <1>1, <2>1, IdentifiedIsSettled
    <3>2. call.key # NoKey /\ call.principal # NoPrincipal
      BY <1>1, <3>1
    <3>3. Owned(call.key, call.principal)
      BY <3>1, <3>2 DEF KeysHaveTheirOwner
    <3> QED
      BY <3>1, <3>3
  <2>2. CASE RequestContextResolution
    <3>1. PICK context : context = ResolveRequestContext(request)
      OBVIOUS
    <3>2. stage = "RequestContextResolution"
      BY <2>2 DEF RequestContextResolution, At
    <3>3. request \in Request /\ stage \in Classified /\ ClassifiedByManifest /\ known \subseteq revoked
      BY <3>2 DEF IInv, WellFormed, Classified, Trusted
    <3>4. /\ context.error = NoError
          /\ Pass([call EXCEPT !.mode = context.mode, !.principal = context.principal])
      BY <1>1, <2>2, <3>1 DEF RequestContextResolution, Refuse, Identified, Authenticated
    <3>5. PICK m, p : m = context.mode /\ p = context.principal
      OBVIOUS
    <3>6. PICK c1 : c1 = [call EXCEPT !.mode = m]
      OBVIOUS
    <3>7. c1 = [surface |-> call.surface, public |-> call.public, route |-> call.route, cors |-> call.cors,
                key |-> call.key, mode |-> m, principal |-> call.principal]
      BY <3>6 DEF IInv, WellFormed
    <3>8. PICK c : c = [c1 EXCEPT !.principal = p]
      OBVIOUS
    <3>9. c = [surface |-> call.surface, public |-> call.public, route |-> call.route, cors |-> call.cors,
               key |-> call.key, mode |-> m, principal |-> p]
      BY <3>7, <3>8
    <3>10. [call EXCEPT !.mode = m, !.principal = p] = c
      BY <3>6, <3>8
    <3>11. call' = c
      BY <3>4, <3>5, <3>10 DEF Pass
    <3>12. call'.key = call.key /\ call'.principal = p
      BY <3>9, <3>11
    <3>13. /\ call.key = <<ScopedIdempotencyStoreKey(request, call.public), request.key>>
           /\ call.route # NoRoute /\ (call.public \/ CredentialsPresent(request))
      BY <1>1, <3>12 DEF IInv, KeyIsScoped
    <3>14. ~call.public
      BY <1>1, <3>1, <3>3, <3>4, <3>5, <3>12, <3>13, ResolvedIdentity
    <3>15. call.public = FALSE
      <4>1. call.public = ResolvePublicPath(Routes, request.method, request.path, Profile)
        BY <3>3 DEF ClassifiedByManifest
      <4>2. ResolvePublicPath(Routes, request.method, request.path, Profile) \in BOOLEAN
        BY ResolvePublicType
      <4> QED
        BY <3>14, <4>1, <4>2
    <3>16. Owned(<<ScopedIdempotencyStoreKey(request, FALSE), request.key>>, p)
      BY <1>1, <3>1, <3>3, <3>4, <3>5, <3>12, <3>13, <3>14, OwnerResolved
    <3> QED
      BY <3>12, <3>13, <3>15, <3>16
  <2> QED
    BY <2>1, <2>2
<1>2. ASSUME NEW o \in owners'
      PROVE  Owned(o.key, o) /\ o = [key |-> o.key, tenant |-> o.tenant, app |-> o.app, user |-> o.user]
  <2>1. CASE o \in owners
    BY <2>1 DEF KeysHaveTheirOwner
  <2>2. CASE o \notin owners
    <3>1. /\ stage = "served" /\ call.key # NoKey /\ call.principal # NoPrincipal
          /\ o = [key |-> call.key, tenant |-> call.principal.tenant,
                  app |-> call.principal.app, user |-> call.principal.user]
      BY <1>2, <2>2, OwnersAreSettled
    <3>2. Owned(call.key, call.principal)
      BY <3>1 DEF KeysHaveTheirOwner, Identified, Authenticated
    <3>3. /\ o.key = call.key /\ o.tenant = call.principal.tenant /\ o.app = call.principal.app
          /\ o.user = call.principal.user
      BY <3>1
    <3> QED
      BY <3>1, <3>2, <3>3 DEF Owned
  <2> QED
    BY <2>1, <2>2
<1> QED
  BY <1>1, <1>2 DEF KeysHaveTheirOwner

\* For any routes that are reached on the surface that admitted them, with
\* compatibility schemes of one header each: two served commands under one store
\* key were sent by one user of one tenant and application, although the key is
\* scoped before the principal is known (scoped_idempotency_store_key).
THEOREM KeysSeparatePrincipals == RoutesAreAdmitted => (Spec => []KeyScopeSeparates)
<1> SUFFICES ASSUME RoutesAreAdmitted PROVE Spec => []KeyScopeSeparates
  OBVIOUS
<1>1. Init => KeysHaveTheirOwner
  BY DEF Init, KeysHaveTheirOwner, Identified, Authenticated
<1>2. IInv /\ KeysHaveTheirOwner /\ [Next]_vars => KeysHaveTheirOwner'
  BY OwnerStep
<1>3. KeysHaveTheirOwner => KeyScopeSeparates
  BY DEF KeysHaveTheirOwner, KeyScopeSeparates, Owned
<1> QED
  BY <1>1, <1>2, <1>3, Invariance, PTL DEF Spec

===============================================================================
