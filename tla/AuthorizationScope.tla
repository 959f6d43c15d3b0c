-------------------------- MODULE AuthorizationScope --------------------------
(***************************************************************************)
(* Server-side authorization scopes (authz_scope.rs): a request's principal *)
(* is enriched with the scope the owning domain records for its subject,    *)
(* through a TTL cache that explicit invalidations shorten.  The source is  *)
(* an await, so changes of the record and invalidations run while a         *)
(* resolution has read the record and not cached it yet.                    *)
(***************************************************************************)
EXTENDS Integers, Sequences

CONSTANTS
    Subject,      \* AuthorizationScopeSubjects; `context` is app, session, environment, mode and surface
    ScopeRequest, \* requests that enrich their principal
    Ttl,          \* default_scope_cache_ttl
    MaxRead,      \* how long the source may take
    MaxRevision,  \* bound of the model: revisions of a record, the first one included
    MaxClock,     \* bound of the model
    None

VARIABLES
    source,      \* the provider has a DynamicAuthorizationScopeSource
    fallback,    \* what the provider does without a record
    revision,    \* the authoritative record of each subject: an odd revision has a scope
    revisedAt,   \* history: when each revision was written
    cache,       \* the TtlCache, by cache key
    enrichment,  \* what each request is doing or was answered
    clock

vars == <<source, fallback, revision, revisedAt, cache, enrichment, clock>>

Revision == 1..MaxRevision

\* Broken variant: the session, app and surface are not part of the key.
UserKey(s) == <<s.tenant, s.organization, s.user>>

CacheKey(s) == <<s.tenant, s.organization, s.user, s.context>>

Keys == {CacheKey(s) : s \in Subject}

\* What the source says about a subject: Some(scope) for an odd revision, else None.
Scope == [subject : Subject, revision : Revision]
Exists(scope) == scope.revision % 2 = 1

Enrichment == [phase : {"resolve", "insert", "granted", "claims", "denied"},
               subject : Subject, scope : Scope \cup {None}, started : Nat]

TypeOK ==
    /\ source \in BOOLEAN
    /\ fallback \in {"Deny", "CredentialClaims"}
    /\ revision \in [Subject -> Revision]
    /\ revisedAt \in [Subject -> [Revision -> 0..MaxClock]]
    /\ cache \in [Keys -> [scope : Scope, expires : Nat] \cup {None}]
    /\ enrichment \in [ScopeRequest -> Enrichment \cup {None}]
    /\ clock \in 0..MaxClock

Init ==
    /\ source \in BOOLEAN
    /\ fallback \in {"Deny", "CredentialClaims"}
    /\ revision = [s \in Subject |-> 1]
    /\ revisedAt = [s \in Subject |-> [n \in Revision |-> 0]]
    /\ cache = [k \in Keys |-> None]
    /\ enrichment = [r \in ScopeRequest |-> None]
    /\ clock = 0

-------------------------------------------------------------------------------
(* AuthorizationScopeProvider::materialize *)

Valid(k) == cache[k] # None /\ cache[k].expires > clock

Running(r) == enrichment[r] # None /\ enrichment[r].phase \in {"resolve", "insert"}

\* A record answers with its scope, no record with the fallback.
ApplyFallback == IF fallback = "Deny" THEN "denied" ELSE "claims"
Answered(s, scope) ==
    [phase |-> IF scope # None /\ Exists(scope) THEN "granted" ELSE ApplyFallback, subject |-> s, scope |-> scope,
     started |-> clock]

\* A valid entry, negative ones included, answers at once; else it is removed
\* and the source is asked.  Without a source the fallback answers, uncached.
Materialize(r, s) ==
    LET k == CacheKey(s) IN
    /\ ~Running(r)
    /\ \/ /\ Valid(k)
          /\ enrichment' = [enrichment EXCEPT ![r] = Answered(s, cache[k].scope)]
          /\ UNCHANGED cache
       \/ /\ ~Valid(k) /\ ~source
          /\ enrichment' = [enrichment EXCEPT ![r] = Answered(s, None)]
          /\ cache' = [cache EXCEPT ![k] = None]
       \/ /\ ~Valid(k) /\ source
          /\ enrichment' = [enrichment EXCEPT ![r] =
                [phase |-> "resolve", subject |-> s, scope |-> None, started |-> clock]]
          /\ cache' = [cache EXCEPT ![k] = None]
    /\ UNCHANGED <<revision, revisedAt, clock>>

\* The source reads the record of the subject.
ReadRecord(r) ==
    /\ Running(r) /\ enrichment[r].phase = "resolve"
    /\ LET s == enrichment[r].subject
       IN enrichment' = [enrichment EXCEPT ![r].phase = "insert",
                                           ![r].scope = [subject |-> s, revision |-> revision[s]]]
    /\ UNCHANGED <<revision, revisedAt, cache, clock>>

\* The source fails, which rejects the request, or the request is dropped.
SourceFails(r) ==
    /\ Running(r)
    /\ enrichment' = [enrichment EXCEPT ![r] = None]
    /\ UNCHANGED <<revision, revisedAt, cache, clock>>

ExpiresAt(r) == clock + Ttl

\* The result is cached after the await, whatever was invalidated during it.
InsertScope(r) ==
    LET e == enrichment[r] IN
    /\ Running(r) /\ e.phase = "insert"
    /\ cache' = [cache EXCEPT ![CacheKey(e.subject)] = [scope |-> e.scope, expires |-> ExpiresAt(r)]]
    /\ enrichment' = [enrichment EXCEPT ![r] = Answered(e.subject, e.scope)]
    /\ UNCHANGED <<revision, revisedAt, clock>>

-------------------------------------------------------------------------------
(* The owning domain: roles change, and caches are told, or are not. *)

Revise(s) ==
    /\ revision[s] < MaxRevision
    /\ revision' = [revision EXCEPT ![s] = @ + 1]
    /\ revisedAt' = [revisedAt EXCEPT ![s][revision[s] + 1] = clock]
    /\ UNCHANGED <<cache, enrichment, clock>>

InvalidatePrefix(prefix) ==
    cache' = [k \in Keys |-> IF SubSeq(k, 1, Len(prefix)) = prefix THEN None ELSE cache[k]]

\* invalidate_tenant, invalidate_user and invalidate_subject
Invalidate(s) ==
    /\ \/ InvalidatePrefix(<<s.tenant>>)
       \/ InvalidatePrefix(<<s.tenant, s.organization, s.user>>)
       \/ InvalidatePrefix(CacheKey(s))
    /\ UNCHANGED <<revision, revisedAt, enrichment, clock>>

Tick ==
    /\ clock < MaxClock
    /\ \A r \in ScopeRequest : Running(r) => clock - enrichment[r].started < MaxRead
    /\ clock' = clock + 1
    /\ UNCHANGED <<revision, revisedAt, cache, enrichment>>

Next ==
    /\ \/ \E r \in ScopeRequest :
             ReadRecord(r) \/ SourceFails(r) \/ InsertScope(r) \/ \E s \in Subject : Materialize(r, s)
       \/ \E s \in Subject : Revise(s) \/ Invalidate(s)
       \/ Tick
    /\ UNCHANGED <<source, fallback>>

Spec == Init /\ [][Next]_vars

-------------------------------------------------------------------------------
\* The scope was still the subject's record at some instant not before t.
InForceAfter(scope, t) ==
    LET s == scope.subject IN
    revision[s] = scope.revision \/ revisedAt[s][scope.revision + 1] >= t

\* Whatever was revised, invalidated or resolved meanwhile, a request is granted
\* or refused on the record of its own subject, session and surface included, as
\* it was at most one TTL and one resolution ago, and never granted without a
\* record (authz_scope.rs, "a context switch ... can never read another
\* context's cached scope").
ScopesAreOwnAndRecent ==
    \A r \in ScopeRequest :
        (enrichment[r] # None /\ enrichment[r].phase \in {"granted", "claims", "denied"}) =>
            LET e == enrichment[r] IN
            \/ ~source /\ e.scope = None /\ e.phase # "granted"
            \/ e.scope.subject = e.subject /\ InForceAfter(e.scope, e.started - Ttl - MaxRead + 1)

-------------------------------------------------------------------------------
(* The inductive invariant. *)

\* No revision is known before it is written.
InForce(scope, t) == scope.revision <= revision[scope.subject] /\ InForceAfter(scope, t)

\* A running resolution has read its own subject's record since it started; an
\* answer rests on the subject's record as ScopesAreOwnAndRecent says.
EnrichmentIsSound(e) ==
    /\ e.started <= clock
    /\ e.phase \in {"resolve", "insert"} => clock - e.started <= MaxRead
    /\ e.phase = "insert" =>
          e.scope \in Scope /\ e.scope.subject = e.subject /\ InForce(e.scope, e.started)
    /\ e.phase \in {"granted", "claims", "denied"} =>
          \/ ~source /\ e.scope = None /\ e.phase # "granted"
          \/ /\ e.scope \in Scope /\ e.scope.subject = e.subject
             /\ InForce(e.scope, e.started - Ttl - MaxRead + 1)

\* An entry is its key's, and its resolution started at most MaxRead before it was made.
EntryIsSound(k, entry) ==
    /\ entry.expires <= clock + Ttl
    /\ CacheKey(entry.scope.subject) = k
    /\ InForce(entry.scope, entry.expires - Ttl - MaxRead)

IInv ==
    /\ TypeOK
    /\ \A r \in ScopeRequest : enrichment[r] # None => EnrichmentIsSound(enrichment[r])
    /\ \A k \in Keys : cache[k] # None => EntryIsSound(k, cache[k])

===============================================================================
