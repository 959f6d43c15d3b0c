---------------------------- MODULE MCRequestEntry ----------------------------
(* RequestEntry over one manifest with a route of every profile surfaces admit,  *)
(* and the requests of three slices: credentials, browsers and bodies.           *)
EXTENDS RequestEntry, TLC

CONSTANTS t1, t2, NoEntry

Seg(text) == [text |-> text, suffix |-> ""]
Template(form, text) == [form |-> form, text |-> text, suffix |-> ""]
Lit(text) == Template("lit", text)
Param(text) == Template("param", text)

MCProfile == [app |-> <<Seg("app")>>, backend |-> <<Seg("backend")>>, internal |-> <<Seg("internal")>>,
    gateway |-> {<<Seg("gateway")>>}, open |-> {<<Seg("open")>>},
    public |-> {<<Seg("healthz")>>, <<Seg("app"), Seg("login")>>, <<Seg("open"), Seg("docs")>>},
    external |-> {<<Seg("open"), Seg("vendor")>>}]

Route(method, path, auth) ==
    [method |-> method, path |-> path, auth |-> auth, contract |-> auth = "Compatibility",
     permission |-> NoPermission, idempotent |-> method = "POST", external |-> FALSE, schemes |-> <<>>]

MCRoutes == <<
    Route("POST", <<Lit("app"), Lit("orders")>>, "DualToken"),
    Route("POST", <<Lit("app"), Lit("catalog")>>, "DualTokenOrAnonymous"),
    Route("POST", <<Lit("app"), Lit("login")>>, "Public"),
    Route("POST", <<Lit("app"), Lit("refresh")>>, "RefreshToken"),
    Route("POST", <<Lit("app"), Lit("enter")>>, "CredentialEntryBootstrap"),
    [Route("GET", <<Lit("backend"), Param("{tenantId}")>>, "DualToken") EXCEPT !.permission = <<"tenant", "read">>],
    Route("GET", <<Lit("backend"), Lit("users"), Param("{tenantId}"), Param("{organizationId}")>>, "DualToken"),
    Route("POST", <<Lit("backend"), Lit("agents")>>, "AgentToken"),
    Route("POST", <<Lit("backend"), Lit("setup")>>, "BootstrapBody"),
    Route("POST", <<Lit("internal"), Lit("jobs")>>, "IngressToken"),
    Route("GET", <<Lit("gateway"), Lit("models")>>, "DualToken"),
    Route("POST", <<Lit("open"), Lit("keys")>>, "ApiKey"),
    Route("POST", <<Lit("open"), Lit("bearer")>>, "OAuth"),
    Route("POST", <<Lit("open"), Lit("any")>>, "OpenApiFlexible"),
    Route("POST", <<Lit("open"), Lit("both")>>, "ApiKeyOrDualToken"),
    [Route("POST", <<Lit("open"), Lit("vendor")>>, "Compatibility")
        EXCEPT !.schemes = <<{"vendor"}, {"authorization"}>>, !.external = TRUE]>>

MCSigningKey == [k \in {"k1", "k2"} |-> [tenant |-> IF k = "k1" THEN t1 ELSE t2, alg |-> "RS256"]]
MCClaimPolicy == [requireExp |-> TRUE, skew |-> 1, issuers |-> {}, audiences |-> {}]

-------------------------------------------------------------------------------
\* Tokens: good ones of two users, and ones that are wrong in one way.

Jwt(type, user) == [shape |-> "jwt", alg |-> "RS256", kid |-> "k1", signer |-> "k1", type |-> type,
    tenant |-> t1, org |-> NoClaim, loginScope |-> NoClaim, user |-> user, session |-> "s1",
    app |-> "web", subject |-> NoClaim, version |-> 1, exp |-> 9, nbf |-> NoClaim, iss |-> NoClaim,
    aud |-> NoClaim, scope |-> {<<"tenant", "*">>}, known |-> TRUE]

Auth == Jwt("auth", "u1")
Access == [Jwt("access", NoClaim) EXCEPT !.org = TenantLevel]

AuthTokens == {Auth, [Auth EXCEPT !.user = "u2"], [Auth EXCEPT !.tenant = t2, !.signer = "k2", !.kid = "k2"],
    [Auth EXCEPT !.tenant = t2], [Auth EXCEPT !.org = "o1"], [Auth EXCEPT !.signer = "k2"],
    [Auth EXCEPT !.exp = 5], [Auth EXCEPT !.version = 2], [Auth EXCEPT !.session = NoClaim],
    [Auth EXCEPT !.shape = "basic"]}

AccessTokens == {Access, [Access EXCEPT !.tenant = t2], [Access EXCEPT !.org = "o1"],
    [Access EXCEPT !.org = "o1", !.loginScope = "TENANT"], [Access EXCEPT !.scope = {}],
    [Access EXCEPT !.user = "u2", !.session = NoClaim], [Access EXCEPT !.type = "auth"]}

ApiKey(name, tenant, user) == [shape |-> "key", kid |-> name, tenant |-> tenant, org |-> NoClaim, user |-> user,
    app |-> "web", scope |-> {<<"*">>}, known |-> name # "unknown"]

Keys == {ApiKey("a1", t1, "u1"), ApiKey("a2", t2, "u2"), ApiKey("unknown", t1, "u1")}

-------------------------------------------------------------------------------
\* Requests.

NoHeaders == [h \in CredentialHeader \cup {"vendor"} |-> NoToken]
EmptyBody == [length |-> 0, chunked |-> FALSE, json |-> TRUE, selector |-> "none", hash |-> FALSE]
JsonBody == [EmptyBody EXCEPT !.length = 1, !.hash = TRUE]

Plain(method, path) == [method |-> method, path |-> path, origin |-> NoOrigin, referer |-> NoOrigin,
    cookie |-> FALSE, asked |-> NoEntry, headers |-> NoHeaders, projection |-> FALSE, query |-> FALSE,
    suspicious |-> FALSE, body |-> EmptyBody, key |-> "c1"]

Concrete(template) ==
    [i \in DOMAIN template |->
        CASE template[i].text = "{tenantId}" -> Seg(t1)
          [] template[i].text = "{organizationId}" -> Seg("o1")
          [] OTHER -> Seg(template[i].text)]

Paths(auths) == {Concrete(MCRoutes[i].path) : i \in {j \in DOMAIN MCRoutes : MCRoutes[j].auth \in auths}}

Calls == {Plain(MCRoutes[i].method, Concrete(MCRoutes[i].path)) : i \in DOMAIN MCRoutes}
    \cup {Plain("GET", <<Seg("backend"), Seg(t2)>>), Plain("GET", <<Seg("healthz")>>),
          Plain("GET", <<Seg("app"), Seg("login"), Seg("x")>>), Plain("GET", <<Seg("open"), Seg("docs")>>),
          Plain("POST", <<Seg("open"), Seg("other")>>),
          Plain("GET", <<Seg("elsewhere")>>), Plain("GET", <<Seg("internal"), Seg("x")>>)}

HeaderSets ==
    {NoHeaders}
    \cup {[NoHeaders EXCEPT !["authorization"] = a] : a \in AuthTokens}
    \cup {[NoHeaders EXCEPT !["access-token"] = x] : x \in AccessTokens}
    \cup {[NoHeaders EXCEPT !["authorization"] = a, !["access-token"] = Access] : a \in AuthTokens}
    \cup {[NoHeaders EXCEPT !["authorization"] = Auth, !["access-token"] = x] : x \in AccessTokens}
    \cup {[NoHeaders EXCEPT ![h] = k] : h \in {"x-api-key", "vendor"}, k \in Keys}
    \cup {[NoHeaders EXCEPT !["authorization"] = Auth, ![h] = k] : h \in {"x-api-key", "vendor"}, k \in Keys}
    \cup {[NoHeaders EXCEPT ![h] = k, !["access-token"] = x] :
            h \in {"x-sdkwork-ingress-token", "x-sdkwork-agent-token"}, k \in Keys,
            x \in {Access, NoToken, [Access EXCEPT !.tenant = t2]}}

CredentialSlice == {[c EXCEPT !.headers = h] : c \in Calls, h \in HeaderSets}

Origin(host) == [scheme |-> "https", host |-> host, port |-> "none", shape |-> "plain"]
Console == Origin([kind |-> "name", label |-> "console", suffix |-> "", base |-> "corp", nested |-> FALSE])
Desktop == Origin([kind |-> "name", label |-> "desktop", suffix |-> "", base |-> "corp", nested |-> FALSE])
Elsewhere == Origin([kind |-> "publicIp", label |-> "x", suffix |-> "", base |-> "other", nested |-> FALSE])

MCCors == [all |-> FALSE, entries |-> {[kind |-> "exact", origin |-> Console]}, hosts |-> NoHosts,
    anyHeader |-> FALSE, headers |-> {"authorization"}]
MCOverlays == {[MCCors EXCEPT !.entries = {[kind |-> "exact", origin |-> Desktop]}]}

Pair == [NoHeaders EXCEPT !["authorization"] = Auth, !["access-token"] = Access]

BrowserSlice ==
    {[Plain("POST", p) EXCEPT !.origin = o, !.referer = f, !.cookie = c, !.headers = h, !.body = b] :
        p \in Paths({"DualTokenOrAnonymous", "Public", "ApiKey"}), o \in {NoOrigin, Console, Desktop, Elsewhere},
        f \in {NoOrigin, Console, Elsewhere}, c \in BOOLEAN, h \in {NoHeaders, Pair}, b \in {EmptyBody}}
    \cup {[Plain("OPTIONS", p) EXCEPT !.origin = o, !.asked = [method |-> m, headers |-> s]] :
        p \in Paths({"DualToken", "ApiKey"}), o \in {Console, Elsewhere},
        m \in {"POST", "TRACE"}, s \in {{"authorization"}, {"x-other"}}}
    \cup {Plain("TRACE", p) : p \in Paths({"Public"})}

Bodies == {EmptyBody, JsonBody, [JsonBody EXCEPT !.hash = FALSE], [JsonBody EXCEPT !.json = FALSE],
    [JsonBody EXCEPT !.length = 9], [EmptyBody EXCEPT !.length = NoKey, !.chunked = TRUE],
    [JsonBody EXCEPT !.selector = "organization"], [JsonBody EXCEPT !.selector = "other"]}

BodySlice ==
    {[Plain("POST", p) EXCEPT !.headers = h, !.body = b, !.key = k] :
        p \in Paths({"DualToken", "DualTokenOrAnonymous", "Public", "ApiKey"}),
        h \in {NoHeaders, Pair}, b \in Bodies, k \in {NoKey, "c1"}}
    \cup {[Plain("POST", p) EXCEPT !.projection = TRUE] : p \in Paths({"Public"})}
    \cup {[Plain("POST", p) EXCEPT !.query = TRUE] : p \in Paths({"Public"})}
    \cup {[Plain("POST", p) EXCEPT !.suspicious = TRUE] : p \in Paths({"Public"})}

MCRequest == CredentialSlice \cup BrowserSlice \cup BodySlice
MCLoginSelectionPath == <<Seg("app"), Seg("login")>>

Methods == {"GET", "POST", "OPTIONS"}
MCSessions == {"s1"}

\* A manifest the framework builder would refuse would show nothing.
ASSUME ManifestAdmitted ==
    ValidatePublicPathPrefixes(MCRoutes, MCProfile.public) /\ ParametersAreUnique /\ RoutesAreAdmitted

===============================================================================
