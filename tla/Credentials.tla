----------------------------- MODULE Credentials ------------------------------
(***************************************************************************)
(* Who a request is: verification of tenant-bound tokens, the mapping of    *)
(* their claims, and the principals that tokens, keys and bearers resolve   *)
(* to (jwt.rs, jwt_claims.rs, jwt_tenant.rs, token_version.rs, parsers.rs,  *)
(* resolvers.rs, request_context.rs, open_api_auth.rs).                     *)
(*                                                                         *)
(* A token is a record of its header (alg, kid), the key that really signed *)
(* it (signer), its shape and its claims; NoClaim is an absent claim.  A    *)
(* signature is an equality of keys.  A resolution is a record              *)
(* [error, principal] with NoError or NoPrincipal in the field not used.    *)
(***************************************************************************)
EXTENDS Integers, Sequences, SequencesExt

CONSTANTS
    NoClaim, NoToken, NoPrincipal, NoError,
    TenantLevel,     \* TENANT_LEVEL_ORGANIZATION_ID, the "0" of an organization scope
    SigningKey,      \* key id |-> [tenant, alg]: the tenant signing keys
    ClaimPolicy,     \* JwtProductionClaimPolicy: [requireExp, skew, issuers, audiences]
    EnforceSession   \* with_session_revocation_checker was called

Failed(kind) == [error |-> kind, principal |-> NoPrincipal]
Resolved(principal) == [error |-> NoError, principal |-> principal]

-------------------------------------------------------------------------------
\* token_version.rs

\* TokenVersionPolicy::standard
TokenVersionPolicy == [minimum |-> 1, maximum |-> 1]

ValidateTokenVersionClaims(version, policy) == version # NoClaim /\ version \in policy.minimum..policy.maximum

-------------------------------------------------------------------------------
\* Organization scopes (request_context.rs, parsers.rs)

NormalizeOrganizationScope(org) == IF org = NoClaim THEN TenantLevel ELSE org

FromOrganizationId(org) == IF NormalizeOrganizationScope(org) = TenantLevel THEN "TENANT" ELSE "ORGANIZATION"

\* The claim, or what the organization implies; the two must agree.
LoginScope(claim, org) == IF claim = NoClaim THEN FromOrganizationId(org) ELSE claim

ParseLoginScope(claim, org) == LoginScope(claim, org) = FromOrganizationId(org)

-------------------------------------------------------------------------------
\* TenantBoundJwtVerifier

\* The clock skew shortens the life of a token at both ends.
ValidateJwtTemporalClaims(token, now) ==
    /\ ClaimPolicy.requireExp => token.exp # NoClaim /\ now + ClaimPolicy.skew < token.exp
    /\ token.nbf # NoClaim =>
        (IF now > ClaimPolicy.skew THEN now - ClaimPolicy.skew ELSE 0) >= token.nbf

ValidateJwtIssuerAudienceClaims(token) ==
    /\ ClaimPolicy.issuers # {} => token.iss \in ClaimPolicy.issuers
    /\ ClaimPolicy.audiences # {} => token.aud \in ClaimPolicy.audiences

ValidateJwtSessionRevocation(token, revoked) ==
    IF token.session = NoClaim THEN ~EnforceSession ELSE ~EnforceSession \/ token.session \notin revoked

ResolveSigningKey(token) ==
    /\ token.alg \in {"HS256", "RS256"}
    /\ token.kid \in DOMAIN SigningKey
    /\ SigningKey[token.kid].alg = token.alg

RequireSdkworkJwt(token) == token.shape = "jwt"

VerifyAndDecodeClaims(token, now, revoked) ==
    /\ RequireSdkworkJwt(token)
    /\ ResolveSigningKey(token)
    /\ token.signer = token.kid
    /\ ValidateTokenVersionClaims(token.version, TokenVersionPolicy)
    /\ ValidateJwtTemporalClaims(token, now)
    /\ ValidateJwtIssuerAudienceClaims(token)
    /\ ValidateJwtSessionRevocation(token, revoked)
    /\ token.tenant = SigningKey[token.kid].tenant

-------------------------------------------------------------------------------
\* VerifyingAuthTokenParser and VerifyingAccessTokenParser: the claims a token
\* of each type must have besides.

ParseAuthToken(token, now, revoked) ==
    /\ VerifyAndDecodeClaims(token, now, revoked)
    /\ token.type = "auth"
    /\ ParseLoginScope(token.loginScope, token.org)
    /\ token.user # NoClaim

ParseAccessToken(token, now, revoked) ==
    /\ VerifyAndDecodeClaims(token, now, revoked)
    /\ token.type = "access"
    /\ ParseLoginScope(token.loginScope, token.org)
    /\ token.tenant # NoClaim /\ token.app # NoClaim

Principal(tenant, org, user, session, app, level, scope) ==
    [tenant |-> tenant, org |-> NormalizeOrganizationScope(org), user |-> user, session |-> session,
     app |-> app, level |-> level, scope |-> scope]

\* An overlapping claim must not contradict; an absent one says nothing.
RequireOptionalMatch(left, right) == left = NoClaim \/ right = NoClaim \/ left = right

ContextsMatch(auth, access) ==
    /\ RequireOptionalMatch(auth.tenant, access.tenant)
    /\ RequireOptionalMatch(auth.user, access.user)
    /\ RequireOptionalMatch(auth.session, access.session)
    /\ RequireOptionalMatch(auth.app, access.app)
    /\ RequireOptionalMatch(auth.subject, access.subject)

\* Broken variant: the organizations are compared as claims, so an absent one
\* agrees with any.
ClaimedOrganizationsMatch(auth, access) == RequireOptionalMatch(auth.org, access.org)

OrganizationScopesMatch(auth, access) ==
    LET org == NormalizeOrganizationScope(auth.org) IN
    /\ org = NormalizeOrganizationScope(access.org)
    /\ LoginScope(auth.loginScope, auth.org) = FromOrganizationId(org)
    /\ LoginScope(access.loginScope, access.org) = FromOrganizationId(org)

ResolveDualToken(auth, access, now, revoked) ==
    IF /\ ParseAuthToken(auth, now, revoked) /\ ParseAccessToken(access, now, revoked)
       /\ ContextsMatch(auth, access) /\ OrganizationScopesMatch(auth, access)
    THEN Resolved(Principal(IF auth.tenant # NoClaim THEN auth.tenant ELSE access.tenant, auth.org, auth.user,
                            IF auth.session # NoClaim THEN auth.session ELSE access.session, access.app,
                            "session", IF access.scope = {} THEN auth.scope ELSE access.scope))
    ELSE Failed("InvalidCredentials")

ResolveAccessToken(access, now, revoked) ==
    IF ParseAccessToken(access, now, revoked)
    THEN Resolved(Principal(access.tenant, access.org, access.user, access.session, access.app,
                            "anonymous", access.scope))
    ELSE Failed("InvalidCredentials")

\* The record a key or bearer stands for in the owner's store, when it is known.
ResolveRecord(key, level) ==
    IF key.known
    THEN Resolved(Principal(key.tenant, key.org, key.user, NoClaim, key.app, level, key.scope))
    ELSE Failed("InvalidCredentials")

ResolveApiKey(key) == ResolveRecord(key, "apiKey")

\* OpenApiWebRequestParserResolver: the bearer is a token of any type, verified
\* and then looked up.
ResolveOAuthBearer(bearer, now, revoked) ==
    IF VerifyAndDecodeClaims(bearer, now, revoked) THEN ResolveRecord(bearer, "session")
    ELSE Failed("InvalidCredentials")

-------------------------------------------------------------------------------
\* Permissions (request_context.rs).  A code is its sequence of segments.

PermissionCodeMatches(granted, required) ==
    \/ granted = <<"*">> \/ granted = required
    \/ granted # <<>> /\ Last(granted) = "*" /\ Len(granted) > 1 /\ IsPrefix(Front(granted), required)
    \/ Len(granted) = 2 /\ granted[1] = "*" /\ granted[2] # "*" /\ required # <<>> /\ Last(required) = granted[2]

HasPermission(principal, required) ==
    principal # NoPrincipal /\ \E granted \in principal.scope : PermissionCodeMatches(granted, required)

===============================================================================
