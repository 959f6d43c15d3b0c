----------------------------- MODULE OriginPolicy -----------------------------
(***************************************************************************)
(* Which browser origins an API accepts: CORS allowlists, the registered    *)
(* console host pattern, the production gate over both, and the check of    *)
(* state-changing requests (security.rs, registered_console_hosts.rs,       *)
(* registered_client_origins.rs).                                           *)
(*                                                                         *)
(* An origin is [scheme, host, port, shape].  host is a record: kind "name" *)
(* with a label, an environment suffix and a base domain (nested when a     *)
(* further label precedes them), or kind "localhost", "loopbackIp",         *)
(* "privateIp", "publicIp".  port is "none", "digits" or "text"; shape is   *)
(* "plain", "userinfo" or "path" for what follows or precedes the host.     *)
(***************************************************************************)
CONSTANTS
    NoOrigin,        \* no Origin header, or a blank one
    NoHosts,         \* no console host pattern is configured
    RegisteredBase,  \* SDKWORK_REGISTERED_SERVICE_BASE_DOMAINS
    ClientOrigin     \* the origins of registered desktop shells and mini programs

-------------------------------------------------------------------------------
\* RegisteredConsoleHosts: [labels, suffix, schemes, bases]; a label or suffix
\* is [text, valid], where valid abstracts the DNS label syntax.

ConsoleHostsValid(hosts) ==
    /\ hosts.labels # {} /\ hosts.schemes # {} /\ hosts.bases # {}
    /\ hosts.schemes \subseteq {"http", "https"}
    /\ hosts.suffix.valid
    /\ \A l \in hosts.labels : l.valid
    /\ hosts.bases \subseteq RegisteredBase

ConsoleHostsMatch(hosts, origin) ==
    /\ origin.scheme \in hosts.schemes
    /\ origin.shape = "plain" /\ origin.port = "none"
    /\ origin.host.kind = "name" /\ ~origin.host.nested
    /\ origin.host.base \in hosts.bases
    /\ \E l \in hosts.labels : l.text = origin.host.label
    /\ origin.host.suffix = hosts.suffix.text

\* The pattern the environment configures, as a set of one; half a configuration,
\* or an invalid one, is an error and gives the empty set.
ConsoleHostsFromEnv(env) ==
    IF env.labels = {}
    THEN IF env.suffix # NoHosts \/ env.schemes # {} THEN {} ELSE {NoHosts}
    ELSE LET hosts == [labels |-> env.labels, suffix |-> env.suffix, schemes |-> env.schemes,
                       bases |-> IF env.bases = NoHosts THEN RegisteredBase ELSE env.bases]
         IN IF env.suffix = NoHosts \/ env.schemes = {} \/ ~ConsoleHostsValid(hosts) THEN {} ELSE {hosts}

-------------------------------------------------------------------------------
\* CorsPolicy: [all, entries, hosts, anyHeader, headers].  An entry is
\* [kind |-> "exact", origin], or a pattern: "loopback" of a scheme and host
\* with any port, "private" network of a scheme, "shell" of a custom scheme.

\* What an entry can be: the patterns are a fixed list.
IsEntry(e) ==
    \/ e.kind = "exact" /\ e = [kind |-> "exact", origin |-> e.origin]
    \/ e.kind = "shell" /\ e.scheme \in {"app", "tauri"}
    \/ e.kind \in {"loopback", "private"}

IsDevelopmentPrivateNetworkOrigin(origin, scheme) ==
    /\ origin.scheme = scheme
    /\ origin.shape # "path" /\ origin.port # "text"
    /\ origin.host.kind \in {"privateIp", "loopbackIp"}

OriginMatchesAllowed(entry, origin) ==
    CASE entry.kind = "exact" -> entry.origin = origin
      [] entry.kind = "private" -> IsDevelopmentPrivateNetworkOrigin(origin, entry.scheme)
      [] entry.kind = "shell" -> origin.scheme = entry.scheme /\ origin.shape = "plain"
      [] entry.kind = "loopback" ->
            /\ origin.scheme = entry.scheme /\ origin.host.kind = entry.host
            /\ origin.shape = "plain" /\ origin.port # "text"

AllowsOrigin(cors, origin) ==
    \/ cors.all
    \/ \E e \in cors.entries : OriginMatchesAllowed(e, origin)
    \/ cors.hosts # NoHosts /\ ConsoleHostsMatch(cors.hosts, origin)

\* Registered client origins are added to whatever is configured.
WithRegisteredClientOrigins(cors) ==
    [cors EXCEPT !.entries = @ \cup {[kind |-> "exact", origin |-> o] : o \in ClientOrigin}]

\* Entries that end in ":*", the port wildcards of development.
IsPortWildcard(entry) == entry.kind \in {"loopback", "private"}

ValidateForProduction(cors) ==
    /\ ~cors.all
    /\ cors.hosts # NoHosts => ConsoleHostsValid(cors.hosts)
    /\ \A e \in cors.entries : ~IsPortWildcard(e)
    /\ ~cors.anyHeader

HasOriginConfiguration(cors) == cors.entries # {} \/ cors.hosts # NoHosts

DevelopmentLoopback ==
    [all |-> FALSE, hosts |-> NoHosts, anyHeader |-> TRUE, headers |-> {},
     entries |-> [kind : {"loopback"}, scheme : {"http", "https"}, host : {"localhost", "loopbackIp"}]]

DevelopmentPrivateNetwork ==
    [DevelopmentLoopback EXCEPT !.entries = @ \cup [kind : {"private"}, scheme : {"http", "https"}]]

-------------------------------------------------------------------------------
\* Requests: [method, origin, referer, cookie, ...]; referer is the origin of
\* the referring page, of an http or https scheme.

ValidateOrigin(cors, origin) == origin = NoOrigin \/ AllowsOrigin(cors, origin)

\* A preflight asks for a method and headers; NoOrigin also stands for a method
\* that does not parse.
ValidatePreflight(cors, methods, asked) ==
    /\ asked.method \in methods
    /\ cors.anyHeader \/ asked.headers \subseteq cors.headers

IsStateChangingMethod(method) == method \in {"POST", "PUT", "PATCH", "DELETE"}

\* Origin, or else the origin of the Referer, is known and allowed.
ValidateCookieAuthenticatedSource(cors, request) ==
    LET source == IF request.origin # NoOrigin THEN request.origin ELSE request.referer
    IN source # NoOrigin /\ AllowsOrigin(cors, source)

\* Both switches of CrossSiteRequestPolicy are on, as in every policy the
\* framework builds.  A public path skips the origin check unless a cookie is sent.
ValidateCrossSiteRequest(cors, request, skipOriginRejection) ==
    IsStateChangingMethod(request.method) =>
        /\ ~skipOriginRejection \/ request.cookie => ValidateOrigin(cors, request.origin)
        /\ request.cookie => ValidateCookieAuthenticatedSource(cors, request)

\* The origin that a response names in Access-Control-Allow-Origin.
AllowOriginHeader(cors, origin) ==
    IF origin # NoOrigin /\ AllowsOrigin(cors, origin) THEN origin ELSE NoOrigin

===============================================================================
