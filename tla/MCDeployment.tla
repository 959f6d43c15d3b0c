---------------------------- MODULE MCDeployment ------------------------------
(* Deployment over small applications, profiles, processes and registries.       *)
EXTENDS Deployment, Sequences

Seg(text) == [text |-> text, suffix |-> ""]
Lit(text) == [form |-> "lit", text |-> text, suffix |-> ""]
Param(text) == [form |-> "param", text |-> text, suffix |-> ""]
Colon(text) == [form |-> "colon", text |-> text, suffix |-> ""]

-------------------------------------------------------------------------------
\* Origins and policies.

Name(label, base, nested) == [kind |-> "name", label |-> label, suffix |-> "", base |-> base, nested |-> nested]
Ip(kind) == [kind |-> kind, label |-> "", suffix |-> "", base |-> "", nested |-> FALSE]
Origin(scheme, host) == [scheme |-> scheme, host |-> host, port |-> "none", shape |-> "plain"]

Shop == Origin("https", Name("shop", "partner.example", FALSE))
Shell == Origin("tauri", Ip("localhost"))
MCRegisteredBase == {"sdkwork.com"}
MCClientOrigin == {Shell}
MCEnvOrigins == {{}, {Shop}}
MCOrigins == {Shop, Shell, Origin("https", Name("console", "sdkwork.com", FALSE)),
    Origin("https", Name("console", "sdkwork.com", TRUE)), Origin("https", Name("console", "other.example", FALSE)),
    Origin("http", Ip("privateIp")), Origin("http", Ip("localhost")),
    [Origin("http", Ip("localhost")) EXCEPT !.port = "digits"]}

Label(text, valid) == [text |-> text, valid |-> valid]
Console == [labels |-> {Label("console", TRUE)}, suffix |-> Label("", TRUE), schemes |-> {"https"}, bases |-> NoHosts]
MCConsoleEnvs == {Console, [Console EXCEPT !.bases = {"other.example"}],
    [Console EXCEPT !.labels = {}, !.suffix = NoHosts, !.schemes = {}]}

Wildcards == [all |-> FALSE, hosts |-> NoHosts, anyHeader |-> FALSE, headers |-> {"standard"},
    entries |-> {[kind |-> "private", scheme |-> "http"]}]
MCPolicies == {[rateLimit |-> TRUE, cors |-> Wildcards],
    [rateLimit |-> TRUE, cors |-> [Wildcards EXCEPT !.entries = {[kind |-> "exact", origin |-> Shop]}]],
    [rateLimit |-> FALSE, cors |-> [Wildcards EXCEPT !.all = TRUE]]}

-------------------------------------------------------------------------------
\* Applications.

Surfaces(env) == [env |-> env, app |-> <<Seg("app")>>, backend |-> <<Seg("backend")>>,
    internal |-> <<Seg("internal")>>, gateway |-> {<<Seg("v1")>>}, open |-> {<<Seg("open")>>},
    public |-> {<<Seg("healthz")>>, <<Seg("app"), Seg("login")>>}]
MCProfiles == {Surfaces("Dev"), Surfaces("Prod")}

Route(method, path, id, auth) ==
    [method |-> method, path |-> path, auth |-> auth, contract |-> auth = "Compatibility", id |-> id,
     permission |-> NoMode, alternates |-> {}, list |-> FALSE, external |-> FALSE, upstream |-> {},
     retention |-> TRUE, schemes |-> <<>>]

Orders == Route("POST", <<Lit("app"), Lit("orders")>>, "orders.create", "DualToken")
Login == Route("POST", <<Lit("app"), Lit("login")>>, "login", "Public")
MCAdminRoutes == <<Route("GET", <<Lit("backend"), Lit("policies")>>, "policies.list", "DualToken")>>
MCManifests == {<<Orders, Login>>, <<[Login EXCEPT !.auth = "DualToken"]>>, <<[Orders EXCEPT !.auth = "ApiKey"]>>}

Resolver(kind, shared) == [profile |-> kind, shared |-> shared, defaultLookup |-> shared, allowlist |-> ~shared]
MCResolvers == {Resolver("TenantBoundSaaS", FALSE), Resolver("TenantBoundBootstrap", FALSE), Resolver("Unspecified", TRUE)}

\* Nothing wired, everything for a cluster, everything for one node.
Cluster == [authorization |-> "manifest", tenant_isolation |-> "enforce", rate_limit_store |-> "redis",
    idempotency_store |-> "postgres", concurrent_admission_store |-> "redis", audit_emitter |-> "sqlx",
    security_event_emitter |-> "sqlx", readiness_check |-> "probe"]
MCPresets == {[slot \in DOMAIN Cluster |-> Unset], Cluster,
    [Cluster EXCEPT !.rate_limit_store = "sqlite", !.idempotency_store = "memory"]}

-------------------------------------------------------------------------------
\* API modules.

MCContractPrefix == [app |-> <<Seg("app")>>, backend |-> <<Seg("backend")>>, internal |-> <<Seg("internal")>>,
    gateway |-> <<Seg("v1")>>]
MCLonger == {<<"v1beta", "v1">>}
MCBraceForm == [t \in {":id"} |-> "{id}"]
MCInfrastructure == {<<Seg(t)>> : t \in {"healthz", "livez", "metrics", "readyz"}}

Wallet == Route("GET", <<Lit("app"), Lit("coupons"), Lit("wallet")>>, "coupons.wallet", "DualToken")
Coupon == Route("GET", <<Lit("app"), Lit("coupons"), Param("{id}")>>, "coupons.get", "DualTokenOrAnonymous")
ColonCoupon == [Coupon EXCEPT !.path = <<Lit("app"), Lit("coupons"), Colon(":id")>>]
CouponItem == Route("GET", <<Lit("app"), Lit("coupons"), Param("{id}"), Lit("items")>>, "coupons.items", "Public")
Tenants == [Route("GET", <<Lit("backend"), Lit("tenants")>>, "tenants.list", "DualToken")
    EXCEPT !.list = TRUE, !.alternates = {"platform.read"}, !.permission = "tenants.read"]
AppTenants == [Tenants EXCEPT !.path = <<Lit("app"), Lit("tenants")>>]
Models == Route("POST", <<Lit("v1beta"), Lit("models")>>, "models.run", "ApiKey")
Vendor == [Route("POST", <<Lit("vendor"), Lit("memories")>>, "memories.add", "Compatibility")
    EXCEPT !.external = TRUE, !.upstream = {"user_id"}, !.schemes = <<{"vendor"}, {"authorization"}>>]
Health == Route("GET", <<Lit("healthz")>>, "healthz", "Public")

Source(owner, routes) == [owner |-> owner, routes |-> routes, documents |-> <<>>]

\* Authored documents; one spells the parameter its own way, one names an owner.
Operation(id, mode, owner) == [id |-> id, surface |-> IF mode = NoMode THEN NoMode ELSE "app", mode |-> mode,
    owner |-> owner, authority |-> [owner |-> owner, surface |-> NoMode], security |-> {{"authorization", "access-token"}}, selectors |-> {}]
OperationKeyOf(path, method) == [section |-> "operation", path |-> path, name |-> method]
Shared(name) == [section |-> "component", path |-> <<>>, name |-> name]
Tag == [section |-> "tag", path |-> <<>>, name |-> "coupons"]
BracePath == <<Seg("app"), Seg("coupons"), Seg("{id}")>>
Version(text, patch) == [text |-> text, line |-> "3.1", patch |-> patch]
Authored(version, op, tag) == [version |-> version, shaped |-> TRUE,
    entries |-> [k \in {OperationKeyOf(BracePath, "GET"), Shared("schemas"), Tag} |->
                    CASE k = Shared("schemas") -> "handwritten" [] k = Tag -> tag [] OTHER -> op]]
TagOnly(text, tag) == [version |-> Version(text, 0), shaped |-> TRUE, entries |-> [k \in {Tag} |-> tag]]

Handwritten == [owner |-> "sdkwork-b", routes |-> <<Coupon>>,
    documents |-> <<Authored(Version("3.1.3", 3), Operation("coupons.get", NoMode, NoOwner), "t1"), TagOnly("3.1", "t1")>>]

\* Two texts for one version.
Tags(owner, text) == [owner |-> owner, routes |-> <<>>, documents |-> <<TagOnly(text, "t2")>>]

MCModules == {
    [owner |-> "sdkwork-a", sources |-> <<Source("sdkwork-a", <<Wallet, Tenants>>)>>],
    [owner |-> "sdkwork-a", sources |-> <<Source("sdkwork-a", <<Orders>>), Source("sdkwork-a-open", <<Models>>)>>],
    [owner |-> "sdkwork-b", sources |-> <<Handwritten>>],
    [owner |-> "sdkwork-b2", sources |-> <<[Handwritten EXCEPT !.routes = <<ColonCoupon>>,
        !.documents = <<Authored(Version("3.1.1", 1), Operation("coupons.get", "DualTokenOrAnonymous", "sdkwork-a"), "t2")>>]>>],
    [owner |-> "sdkwork-b3", sources |-> <<[Handwritten EXCEPT !.documents = @ \o <<TagOnly("3.1", "t2")>>]>>],
    [owner |-> "sdkwork-c", sources |-> <<Source("sdkwork-c", <<CouponItem, Vendor>>), Source("sdkwork-b", <<Orders>>)>>],
    [owner |-> "sdkwork-d", sources |-> <<Tags("sdkwork-d", "3.1"), Tags("sdkwork-d-open", "3.1.0")>>],
    [owner |-> "sdkwork-e", sources |-> <<Source("sdkwork-e", <<AppTenants>>)>>],
    [owner |-> "sdkwork-f", sources |-> <<Source("sdkwork-f", <<Health>>)>>],
    [owner |-> "other", sources |-> <<Source("other", <<Orders>>)>>]}
MCDependencies == {<<Source("sdkwork-h", <<Orders>>), Source("sdkwork-c", <<CouponItem>>)>>,
    <<Source("sdkwork-h", <<Coupon>>), Handwritten>>}
MCKebabOwner == {"sdkwork-a", "sdkwork-a-open", "sdkwork-b", "sdkwork-c", "sdkwork-d", "sdkwork-d-open", "sdkwork-e",
    "sdkwork-f", "sdkwork-h"}

MCRequestPaths == {<<Seg("app"), Seg("coupons"), Seg("wallet")>>, <<Seg("app"), Seg("coupons"), Seg("c1")>>,
    <<Seg("app"), Seg("coupons"), Seg("c1"), Seg("items")>>, <<Seg("app"), Seg("orders")>>,
    <<Seg("v1beta"), Seg("models")>>, <<Seg("backend"), Seg("tenants")>>}

-------------------------------------------------------------------------------
\* Regions and schema registries.

MCCode == {[text |-> "cn", valid |-> TRUE], [text |-> "eu", valid |-> TRUE], [text |-> "?", valid |-> FALSE]}
MCGlobal == [text |-> "global", valid |-> TRUE]

Table(name, columns) == [k \in {"table", "columns"} |-> IF k = "table" THEN name ELSE columns]
Reference(name) == [k \in {"table", "columns", "generated_by_this_project", "system_of_record"} |->
    CASE k = "table" -> name [] k = "columns" -> "other" [] OTHER -> FALSE]
Owned(name) == [k \in {"table", "columns", "system_of_record"} |->
    CASE k = "table" -> name [] k = "columns" -> "theirs" [] OTHER -> TRUE]

MCModule == <<"iam", "mall">>
MCModuleOrder == [m \in {"iam", "mall"} |-> IF m = "mall" THEN 1 ELSE 2]
MCRegistries == {<<Owned("users")>>, <<Owned("orders"), Table("carts", "theirs")>>}
MCAppTables == {<<Table("notes", "ours")>>, <<Table("notes", "ours"), Reference("users")>>, <<Table("users", "ours")>>}

Fragment(routes, entity) == [s \in {"schema", "rule", "routes", "frontend_models", "x_response_entities"} |->
    CASE s \in {"schema", "rule"} -> 1 [] s = "routes" -> routes [] s = "frontend_models" -> <<entity>>
      [] OTHER -> [e \in {entity} |-> "fields"]]
Views(view) == [s \in {"source", "frontend_models", "views"} |-> IF s = "frontend_models" THEN <<"view">> ELSE view]
MCFragments == {Fragment(<<"r1">>, "user"), Fragment(<<"r2", "r3">>, "order"), Fragment(<<>>, "user"),
    Views("v"), Views("w"), [s \in {"source", "rule", "routes"} |-> IF s = "routes" THEN <<"r4">> ELSE "s"]}

===============================================================================
