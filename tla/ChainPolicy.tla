----------------------------- MODULE ChainPolicy -----------------------------
(***************************************************************************)
(* The policy a run of the guard chain obeys (sdkwork-web-chain policy.rs)  *)
(* and the verdict of the IP access stage (ip_access.rs).                   *)
(*                                                                         *)
(* An IP address is its family and a host: "mapped" is the IPv4 host        *)
(* written as an IPv6 address (::ffff:a.b.c.d).  A list entry is an exact   *)
(* address or a CIDR block, with the hosts it spans, or is not an address.  *)
(***************************************************************************)
CONSTANT None

\* Broken variant: an IPv4-mapped address keeps its IPv6 form.
AsWritten(ip) == ip

CanonicalIp(ip) == [ip EXCEPT !.family = IF @ = "mapped" THEN "v4" ELSE @]

\* A CIDR block is parsed as written, an exact entry is brought to canonical form.
IpMatchesEntry(ip, entry) ==
    LET client == CanonicalIp(ip) IN
    CASE entry.form = "invalid" -> FALSE
      [] entry.form = "cidr"  -> client.family = entry.family /\ client.host \in entry.hosts
      [] entry.form = "exact" ->
            \E h \in entry.hosts : CanonicalIp([family |-> entry.family, host |-> h]) = client

Listed(ip, entries) == ip # None /\ \E entry \in entries : IpMatchesEntry(ip, entry)

\* The denylist wins; a non-empty allowlist gates in mode AllowlistOnly, and a
\* missing address is on no list.
Evaluate(ip, access) ==
    /\ ~Listed(ip, access.denylist)
    /\ (access.mode = "AllowlistOnly" /\ access.allowlist # {}) => Listed(ip, access.allowlist)

-----------------------------------------------------------------------------
(* The layers. *)

\* The override of the scope, else the limit of every scope; None is no limit.
LimitFor(concurrency, scope) ==
    IF concurrency.per_scope[scope] # None THEN concurrency.per_scope[scope] ELSE concurrency.max_inflight

IsEnabled(stages, name) ==
    /\ stages.enabled_only # None => name \in stages.enabled_only
    /\ stages.disabled # None => name \notin stages.disabled

Pick(perKey, global, defaults) ==
    IF perKey # None THEN perKey ELSE IF global # None THEN global ELSE defaults

\* Field by field the most specific layer that says something wins, as a whole:
\* the lists of an API key's own IP policy replace the global ones.
MergeChainPolicies(defaults, global, perKey) ==
    LET empty == [concurrency |-> None, ip_access |-> None, enabled_only |-> None, disabled |-> None]
        key == IF perKey = None THEN empty ELSE perKey
        Field(f) == Pick(key[f], global[f], defaults[f]) IN
    [concurrency |-> Field("concurrency"), ip_access |-> Field("ip_access"),
     enabled_only |-> Field("enabled_only"), disabled |-> Field("disabled")]

-----------------------------------------------------------------------------
(* What an IP policy means, by hosts and not by how addresses are written. *)

SameNetwork(f, g) == f = g \/ {f, g} = {"v4", "mapped"}

Covers(entry, ip) ==
    /\ ip # None
    /\ entry.form # "invalid"
    /\ SameNetwork(entry.family, ip.family)
    /\ ip.host \in entry.hosts

\* No exact or IPv4 block on the denylist covers the client, and some entry of a
\* gating allowlist does.
Permits(access, ip) ==
    /\ \A entry \in access.denylist :
          Covers(entry, ip) => entry.form = "cidr" /\ entry.family = "mapped"
    /\ (access.mode = "AllowlistOnly" /\ access.allowlist # {})
          => \E entry \in access.allowlist : Covers(entry, ip)

=============================================================================
