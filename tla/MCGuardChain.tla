----------------------------- MODULE MCGuardChain -----------------------------
(* Instances of GuardChain for TLC. *)
EXTENDS GuardChain, TLC

MCScopes == <<"global", "apiKey">>

V4(h) == [family |-> "v4", host |-> h]
Mapped(h) == [family |-> "mapped", host |-> h]
MCClients == {None, V4("h1"), Mapped("h1"), V4("h2"), Mapped("h2"), [family |-> "v6", host |-> "h1"]}

Entry(form, family, hosts) == [form |-> form, family |-> family, hosts |-> hosts]
Concurrency(max, apiKey) ==
    [max_inflight |-> max, per_scope |-> [s \in {"global", "apiKey"} |-> IF s = "apiKey" THEN apiKey ELSE None]]

Layer == [concurrency |-> None, ip_access |-> None, enabled_only |-> None, disabled |-> None]

MCDefaults == [Layer EXCEPT !.concurrency = Concurrency(2, 1)]

\* The operator denies a network.
MCGlobalLayers ==
    {[Layer EXCEPT !.ip_access = [mode |-> "Open", allowlist |-> {},
         denylist |-> {Entry("cidr", "v4", {"h1"}), Entry("invalid", None, {}), Entry("cidr", "mapped", {"h2"})}]]}

\* A key with limit 0 and its own allowlist, and a key without the concurrency stage.
MCKeyLayers ==
    {None,
     [Layer EXCEPT !.concurrency = Concurrency(2, 0), !.disabled = {"custom"},
         !.ip_access = [mode |-> "AllowlistOnly", allowlist |-> {Entry("exact", "mapped", {"h2"})}, denylist |-> {}]],
     [Layer EXCEPT !.enabled_only = {"ip_access", "custom"}]}

\* Runs and API keys are only compared for equality.
Symmetry == Permutations(Request) \cup Permutations(ApiKey)

===============================================================================
