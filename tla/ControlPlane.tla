----------------------------- MODULE ControlPlane -----------------------------
(***************************************************************************)
(* The control plane of one server: the event lists, the offset lists, the  *)
(* control node registry, the policies the admin API writes and every       *)
(* request resolves, and the authorization scopes requests are enriched     *)
(* with.  They share no state, so each behaviour exercises one of them.     *)
(***************************************************************************)
EXTENDS Integers

CONSTANTS
    Tenant, Platform,                                        \* see PolicyCache
    Tier, Default, Key, Resolver, Admin, Ttl, MaxRead, MaxVersion, MaxClock,
    Client, PageSize, MaxId,                                 \* see AdminEventList
    Caller, BaseUrl, MaxDelay, NodeMaxClock, MaxLives,       \* see ControlNodeRegistry
    Reader, ListSize, NodeCount, MaxRow,                     \* see AdminPolicyList
    Subject, ScopeRequest, MaxRevision,                      \* see AuthorizationScope
    None

ASSUME ControlPlaneAssumption ==
    /\ Platform \in Tenant /\ Default \in Tier
    /\ Key \subseteq [tenant : Tenant, tier : Tier]
    /\ {Ttl, MaxRead, MaxVersion, MaxClock} \subseteq Nat
    /\ PageSize \in Nat \ {0} /\ MaxId \in Nat
    /\ ListSize \in Nat \ {0} /\ NodeCount \in Nat \ {0} /\ MaxRow \in Nat /\ MaxRevision \in Nat \ {0}
    /\ {MaxDelay, NodeMaxClock, MaxLives} \subseteq Nat

ASSUME NoneAssumption == None \notin [tenant : Tenant, tier : Tier]

\* A subject is what its cache key is made of (AuthorizationScopeSubject::cache_key).
ASSUME SubjectAssumption ==
    \A s \in Subject : s = [tenant |-> s.tenant, organization |-> s.organization,
                            user |-> s.user, context |-> s.context]

\* Entries live at least one unit of the clock (default_scope_cache_ttl).
ASSUME TtlAssumption == Ttl > 0

VARIABLES
    part,  \* the part that is exercised
    lastId, writing, events, session,
    row, request, nodeClock, created, acked,
    kind, rows, since, cache, task, upsert, clock,
    owner, table, listing,
    source, fallback, revision, revisedAt, scopeCache, enrichment, scopeClock

eventVars == <<lastId, writing, events, session>>
nodeVars == <<row, request, nodeClock, created, acked>>
policyVars == <<kind, rows, since, cache, task, upsert, clock>>
listVars == <<owner, table, listing>>
scopeVars == <<source, fallback, revision, revisedAt, scopeCache, enrichment, scopeClock>>
vars == <<part, eventVars, nodeVars, policyVars, listVars, scopeVars>>

Events == INSTANCE AdminEventList
Nodes == INSTANCE ControlNodeRegistry
         WITH clock <- nodeClock, MaxClock <- NodeMaxClock, Failures <- TRUE
Policies == INSTANCE PolicyCache
Lists == INSTANCE AdminPolicyList
Scopes == INSTANCE AuthorizationScope WITH cache <- scopeCache, clock <- scopeClock

\* The choices a part makes initially are made only when it is exercised.
Init ==
    /\ part \in {"events", "nodes", "policies", "lists", "scopes"}
    /\ Events!Init /\ Nodes!Init
    /\ Policies!Init /\ (part # "policies" => kind = "single")
    /\ Lists!Init /\ (part # "lists" => owner = "nodes")
    /\ Scopes!Init /\ (part # "scopes" => fallback = "Deny" /\ source)

Next ==
    /\ UNCHANGED part
    /\ \/ part = "events" /\ Events!Next /\ UNCHANGED <<nodeVars, policyVars, listVars, scopeVars>>
       \/ part = "nodes" /\ Nodes!Next /\ UNCHANGED <<eventVars, policyVars, listVars, scopeVars>>
       \/ part = "policies" /\ Policies!Next /\ UNCHANGED <<eventVars, nodeVars, listVars, scopeVars>>
       \/ part = "lists" /\ Lists!Next /\ UNCHANGED <<eventVars, nodeVars, policyVars, scopeVars>>
       \/ part = "scopes" /\ Scopes!Next /\ UNCHANGED <<eventVars, nodeVars, policyVars, listVars>>

Spec == Init /\ [][Next]_vars

-------------------------------------------------------------------------------
\* A tenant admin without platform read never receives rows of another tenant
\* or of none, and nobody receives security events without the control-plane
\* permission (tenant_scope.rs, AuditEventListScope and SecurityEventListScope).
TenantIsolation == Events!TenantIsolation

\* A listing that came to its end returned every row that was in its scope at
\* the first page and still exists, and no listing returns a row twice, although
\* events were committed, out of id order, and purged between the pages
\* (pagination.rs RepoKeysetPage).
CompleteListing == Events!CompleteListing

\* A listing that came to its end has every row that was there at its first page,
\* although upserts, and nodes registered again in an earlier region, move rows to
\* later pages between the requests.  Left out are the nodes that moved, and the
\* listings in which a row overtook the COUNT of the last page and pushed one off
\* it, or a node that was deleted or registered again, in a later region or
\* another environment, moved one to a page already read (repository.rs
\* list_cors_policies_postgres, list_control_nodes_postgres and the other lists).
OffsetListingComplete == Lists!OffsetListingComplete

\* However registrations race with each other and with deletions, each life of
\* a node is announced as created at most once (repository.rs
\* register_control_node, "eliminates the TOCTOU window").
CreatedOnce == Nodes!CreatedOnce

\* The heartbeat time of a live node never falls behind an acknowledged
\* heartbeat or registration by more than a request lasts, although overlapping
\* requests write their clock readings in any order (repository.rs
\* heartbeat_control_node_postgres).
HeartbeatsStayFresh == Nodes!HeartbeatsStayFresh

\* However resolutions, upserts and invalidations interleave, and wherever the
\* upsert ran, no answer from the cache rests on a row version, or on the
\* absence of a row, that ended Ttl and one resolution ago (policy_cache.rs
\* TtlCache).
BoundedStaleness == Policies!BoundedStaleness

\* Once an upsert has invalidated the cache, no entry rests on an older version
\* of the tenant's own rows, in whatever tier, unless its resolution overlapped
\* an upsert (admin_service.rs invalidate_policy_cache).
InvalidationReachesTenant == Policies!InvalidationReachesTenant

\* Whatever was revised, invalidated or resolved meanwhile, a request is granted
\* or refused on the record of its own subject, session and surface included, as
\* it was at most one TTL and one resolution ago (authz_scope.rs, "a context
\* switch ... can never read another context's cached scope").
ScopesAreOwnAndRecent == Scopes!ScopesAreOwnAndRecent

\* The inductive invariant: each part has its own.
IInv == Events!IInv /\ Nodes!IInv /\ Policies!IInv /\ Lists!IInv /\ Scopes!IInv

===============================================================================
