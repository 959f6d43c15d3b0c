----------------------------- MODULE PolicyCache -----------------------------
(***************************************************************************)
(* Dynamic policies: rows an administrator upserts in the database, and the *)
(* TTL cache each process keeps of what it resolved from them               *)
(* (policy_cache.rs, the SQLx policy sources, admin_service.rs).  One       *)
(* environment and one process's cache; the other processes only show up as *)
(* upserts that do not invalidate this cache.  A rate-limit policy falls    *)
(* back from the tenant to the platform and from its tier to the default;   *)
(* CORS policies and tenant profiles are the case of a single candidate.    *)
(***************************************************************************)
EXTENDS Integers, Sequences

CONSTANTS
    Tenant,      \* tenants, the platform "0" included
    Platform,    \* the platform tenant
    Tier,        \* rate limit tiers, "default" included
    Default,
    Key,         \* the tenant and tier of the policies that requests ask for
    Resolver,    \* requests that resolve a policy
    Admin,       \* upserts running in this process
    Ttl,         \* lifetime of a cache entry
    MaxRead,     \* how long one resolution may take
    MaxVersion,  \* bound of the model: versions of a row
    MaxClock,    \* bound of the model
    None

VARIABLES
    kind,     \* which policies are looked at: rate-limit policies, or CORS policies and profiles
    rows,     \* the version of each row, 0 while it does not exist
    since,    \* history: when each version of a row was written
    cache,    \* what the cache holds for each key
    task,     \* the resolution each request is in
    upsert,   \* the row each admin wrote and has yet to invalidate
    clock

vars == <<kind, rows, since, cache, task, upsert, clock>>

RowId == [tenant : Tenant, tier : Tier]
Version == 0..MaxVersion

\* What a resolution read, in the order of its candidates; `raced` is history:
\* an upsert of the tenant was written or invalidated while it ran.
Reading == Seq([row : RowId, version : Version])
Entry == [read : Reading, expires : Nat, raced : BOOLEAN]
Task == [key : Key, read : Reading, started : Nat, raced : BOOLEAN]

TypeOK ==
    /\ kind \in {"rate_limit", "single"}
    /\ rows \in [RowId -> Version]
    /\ since \in [RowId -> [Version -> 0..MaxClock]]
    /\ cache \in [Key -> Entry \cup {None}]
    /\ task \in [Resolver -> Task \cup {None}]
    /\ upsert \in [Admin -> RowId \cup {None}]
    /\ clock \in 0..MaxClock

Init ==
    /\ kind \in {"rate_limit", "single"}
    /\ rows = [r \in RowId |-> 0]
    /\ since = [r \in RowId |-> [v \in Version |-> 0]]
    /\ cache = [k \in Key |-> None]
    /\ task = [r \in Resolver |-> None]
    /\ upsert = [a \in Admin |-> None]
    /\ clock = 0

Candidates(k) ==
    IF kind = "rate_limit"
    THEN <<k, [k EXCEPT !.tier = Default],
           [tenant |-> Platform, tier |-> k.tier], [tenant |-> Platform, tier |-> Default]>>
    ELSE <<k>>

-------------------------------------------------------------------------------
(* Caching...PolicySource::resolve *)

\* Broken variant: an entry is valid in the instant it expires.
ValidInclusive(k) == cache[k] # None /\ cache[k].expires >= clock

Valid(k) == cache[k] # None /\ cache[k].expires > clock

\* A valid entry answers at once (no state changes); otherwise it is removed
\* and the rows are read.
StartResolve(r, k) ==
    /\ task[r] = None
    /\ ~Valid(k)
    /\ cache' = [cache EXCEPT ![k] = None]
    /\ task' = [task EXCEPT ![r] = [key |-> k, read |-> <<>>, started |-> clock, raced |-> FALSE]]
    /\ UNCHANGED <<rows, since, upsert, clock>>

\* The candidates are over, or the last one read exists.
Resolved(t) ==
    \/ Len(t.read) = Len(Candidates(t.key))
    \/ t.read # <<>> /\ t.read[Len(t.read)].version # 0

ReadRow(r) ==
    LET t == task[r] IN
    /\ t # None
    /\ ~Resolved(t)
    /\ LET row == Candidates(t.key)[Len(t.read) + 1]
       IN task' = [task EXCEPT ![r].read = Append(@, [row |-> row, version |-> rows[row]])]
    /\ UNCHANGED <<rows, since, cache, upsert, clock>>

\* The result is cached even when an upsert overtook the reading.
StoreEntry(r) ==
    LET t == task[r] IN
    /\ t # None /\ Resolved(t)
    /\ cache' = [cache EXCEPT ![t.key] = [read |-> t.read, raced |-> t.raced, expires |-> clock + Ttl]]
    /\ task' = [task EXCEPT ![r] = None]
    /\ UNCHANGED <<rows, since, upsert, clock>>

\* A SELECT fails, or the request is dropped: nothing is cached.
FailResolve(r) ==
    /\ task[r] # None
    /\ task' = [task EXCEPT ![r] = None]
    /\ UNCHANGED <<rows, since, cache, upsert, clock>>

-------------------------------------------------------------------------------
(* WebFrameworkAdminService::upsert_* *)

\* INSERT ... ON CONFLICT DO UPDATE ... version + 1
WriteRow(row) ==
    /\ rows[row] < MaxVersion
    /\ rows' = [rows EXCEPT ![row] = @ + 1]
    /\ since' = [since EXCEPT ![row][rows[row] + 1] = clock]

\* The running resolutions of a tenant are overtaken by one of its upserts.
Raced(tenant) ==
    [r \in Resolver |-> IF task[r] # None /\ task[r].key.tenant = tenant
                        THEN [task[r] EXCEPT !.raced = TRUE] ELSE task[r]]

Upsert(a, row) ==
    /\ upsert[a] = None
    /\ WriteRow(row)
    /\ upsert' = [upsert EXCEPT ![a] = row]
    /\ task' = Raced(row.tenant)
    /\ UNCHANGED <<cache, clock>>

\* Broken variant: only the key of the row itself is dropped.
WithoutKey(row) == [k \in Key |-> IF k = row THEN None ELSE cache[k]]

\* invalidate_tenant_environment: every key of the tenant, whatever its tier.
WithoutTenant(row) == [k \in Key |-> IF k.tenant = row.tenant THEN None ELSE cache[k]]

Invalidate(a) ==
    /\ upsert[a] # None
    /\ cache' = WithoutTenant(upsert[a])
    /\ upsert' = [upsert EXCEPT ![a] = None]
    /\ task' = Raced(upsert[a].tenant)
    /\ UNCHANGED <<rows, since, clock>>

\* An upsert in another process, or one whose task is dropped before the
\* invalidation: this cache hears nothing of it.
UpsertElsewhere(row) ==
    /\ WriteRow(row)
    /\ task' = Raced(row.tenant)
    /\ cache' = [k \in Key |-> IF cache[k] # None /\ k.tenant = row.tenant
                               THEN [cache[k] EXCEPT !.raced = TRUE] ELSE cache[k]]
    /\ UNCHANGED <<upsert, clock>>

Tick ==
    /\ clock < MaxClock
    /\ \A r \in Resolver : task[r] # None => clock - task[r].started < MaxRead
    /\ clock' = clock + 1
    /\ UNCHANGED <<rows, since, cache, task, upsert>>

Next ==
    /\ \/ \E r \in Resolver :
             ReadRow(r) \/ StoreEntry(r) \/ FailResolve(r) \/ \E k \in Key : StartResolve(r, k)
       \/ \E a \in Admin : Invalidate(a) \/ \E row \in RowId : Upsert(a, row)
       \/ \E row \in RowId : UpsertElsewhere(row)
       \/ Tick
    /\ UNCHANGED kind

Spec == Init /\ [][Next]_vars

-------------------------------------------------------------------------------
\* The version was still the row's at some instant not before t.
CurrentAfter(row, version, t) ==
    rows[row] = version \/ (rows[row] > version /\ since[row][version + 1] >= t)

\* However resolutions, upserts and invalidations interleave, and wherever the
\* upsert ran, no answer from the cache rests on a row version, or on the
\* absence of a row, that ended Ttl and one resolution ago (policy_cache.rs
\* TtlCache).
BoundedStaleness ==
    \A k \in Key : Valid(k) =>
        \A i \in DOMAIN cache[k].read :
            CurrentAfter(cache[k].read[i].row, cache[k].read[i].version, clock - Ttl - MaxRead + 1)

\* A reading is up to date as far as the tenant of the key writes its own rows
\* itself and has invalidated what it wrote.
OwnRowsAreCurrent(k, read) ==
    \A i \in DOMAIN read :
        \/ read[i].row.tenant # k.tenant
        \/ read[i].version = rows[read[i].row]
        \/ \E a \in Admin : upsert[a] # None /\ upsert[a].tenant = k.tenant

\* Once an upsert has invalidated the cache, no entry rests on an older version
\* of the tenant's own rows, in whatever tier, unless its resolution overlapped
\* an upsert (admin_service.rs invalidate_policy_cache).
InvalidationReachesTenant ==
    \A k \in Key : (cache[k] # None /\ ~cache[k].raced) => OwnRowsAreCurrent(k, cache[k].read)

-------------------------------------------------------------------------------
(* The inductive invariant. *)

\* Every version read was the row's at some instant not before t.
ReadingIsCurrent(read, t) ==
    \A i \in DOMAIN read : CurrentAfter(read[i].row, read[i].version, t)

\* What a running resolution has read was there since it started.
TaskIsCurrent(t) ==
    /\ t.started <= clock /\ clock - t.started <= MaxRead
    /\ Len(t.read) <= Len(Candidates(t.key))
    /\ ReadingIsCurrent(t.read, t.started)
    /\ ~t.raced => OwnRowsAreCurrent(t.key, t.read)

\* The resolution of an entry started at most MaxRead before the entry was made.
EntryIsCurrent(k, e) ==
    /\ e.expires <= clock + Ttl
    /\ ReadingIsCurrent(e.read, e.expires - Ttl - MaxRead)
    /\ ~e.raced => OwnRowsAreCurrent(k, e.read)

IInv ==
    /\ TypeOK
    /\ \A r \in Resolver : task[r] # None => TaskIsCurrent(task[r])
    /\ \A k \in Key : cache[k] # None => EntryIsCurrent(k, cache[k])

===============================================================================
