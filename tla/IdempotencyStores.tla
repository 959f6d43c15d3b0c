--------------------------- MODULE IdempotencyStores ---------------------------
(***************************************************************************)
(* A deployment assembles one idempotency store (framework.rs,              *)
(* idempotency_store): the memory, Redis or SQLx store of the framework, or *)
(* one of its own, of which only the trait's contract is known.  The stores *)
(* share no state, so each behaviour exercises the one that was chosen.     *)
(***************************************************************************)
EXTENDS IdempotencyContract, Integers

CONSTANTS
    SharedKey,  \* the keys asked of the stores that do not relate keys by eviction
    MemoryTtl, MaxEntries, MaxBytes, MemoryMaxClock,
    ExpiryDuringGet,
    SqlxTtl, Interval, SqlxMaxClock

\* A body is abstracted to its length, all the memory store looks at.
ASSUME StoresAssumption ==
    /\ Body \subseteq Nat /\ SharedKey \subseteq Key
    /\ {MemoryTtl, MaxEntries, MaxBytes, MemoryMaxClock} \subseteq Nat
    /\ {SqlxTtl, Interval, SqlxMaxClock} \subseteq Nat \ {0}
    /\ ExpiryDuringGet \in BOOLEAN

VARIABLES
    backend,  \* the store the deployment assembled
    memoryCall, memoryEntries, memoryClock,
    redisCall, db, fetching,
    sqlxCall, rows, sqlxClock, lastPurge, step, seen

contractVars == <<call, table>>
memoryVars == <<memoryCall, memoryEntries, memoryClock>>
redisVars == <<redisCall, db, fetching>>
sqlxVars == <<sqlxCall, rows, sqlxClock, lastPurge, step, seen>>
storeVars == <<backend, contractVars, memoryVars, redisVars, sqlxVars>>

Memory == INSTANCE MemoryIdempotencyStore
          WITH call <- memoryCall, entries <- memoryEntries, clock <- memoryClock,
               Ttl <- MemoryTtl, MaxClock <- MemoryMaxClock

Redis == INSTANCE RedisIdempotencyStore
         WITH call <- redisCall, Expiry <- TRUE, Failures <- TRUE

Sqlx == INSTANCE SqlxIdempotencyStore
        WITH call <- sqlxCall, clock <- sqlxClock, Ttl <- SqlxTtl, MaxClock <- SqlxMaxClock,
             Failures <- TRUE

\* A row that is absent is told apart from every row.
ASSUME RowAssumption == None \notin Sqlx!Row

StoresInit ==
    /\ backend \in {"own", "memory", "redis", "sqlx"}
    /\ Init /\ Memory!Init /\ Redis!Init /\ Sqlx!Init

\* Bound of the model: the calls in flight are about keys of the set.
About(calls, keys) == \A c \in Caller : calls[c] # None => calls[c].operation.key \in keys

StoresNext ==
    \/ /\ backend = "own" /\ Next /\ About(call', SharedKey)
       /\ UNCHANGED <<backend, memoryVars, redisVars, sqlxVars>>
    \/ backend = "memory" /\ Memory!Next /\ UNCHANGED <<backend, contractVars, redisVars, sqlxVars>>
    \/ /\ backend = "redis" /\ Redis!Next /\ About(redisCall', SharedKey)
       /\ UNCHANGED <<backend, contractVars, memoryVars, sqlxVars>>
    \/ /\ backend = "sqlx" /\ Sqlx!Next /\ About(sqlxCall', SharedKey)
       /\ UNCHANGED <<backend, contractVars, memoryVars, redisVars>>

StoresSpec == StoresInit /\ [][StoresNext]_storeVars

-------------------------------------------------------------------------------
\* TECH-13 D6, the same key with another body is a conflict, for whichever store a
\* deployment assembles: a replay answers a request with the fingerprint whose
\* response was recorded, although the fingerprint is compared in one statement or
\* command and the response recorded, purged or read in others (stores.rs
\* IdempotencyStore, sdkwork-web-store-redis lib.rs, idempotency.rs).
EveryReplayMatches ==
    /\ ReplayMatchesFingerprint
    /\ Memory!ReplayMatchesFingerprint
    /\ Redis!ReplayMatchesFingerprint
    /\ Sqlx!ReplayMatchesFingerprint

\* Every call of the memory store behaves as one atomic call of the trait,
\* whatever was purged or evicted on the way (stores.rs MemoryIdempotencyStore).
MemoryImplementsContract == Memory!ImplementsContract

\* Although begin reads the response with a command of its own, every call of
\* the Redis store behaves as one atomic call of the trait, with lost replies
\* and expiring keys, as long as no key expires between the two commands
\* (sdkwork-web-store-redis lib.rs RedisIdempotencyStore).
RedisImplementsContract == Redis!ImplementsContract

\* Although a call is several statements without a transaction, and purges run
\* in between, every call of the SQLx store behaves as one atomic call of the
\* trait (idempotency.rs sqlite_begin, pg_begin).
SqlxImplementsContract == Sqlx!ImplementsContract

\* Retention is respected at both ends: the memory store never replays a response
\* past it, although rows are purged only when a call happens to run, and no SQLx
\* purge, however late it runs after reading the clock, takes a row before its time
\* is over (stores.rs purge_expired, purge.rs, idempotency.rs).
RetentionKept == Memory!ReplaysAreRecent /\ Sqlx!LiveRowsStay

(* The inductive invariant of the replays, store by store. *)
MemoryReplaysInv == Memory!IInv /\ Memory!RecordsAreOwn /\ Memory!ReplayMatchesFingerprint
RedisReplaysInv == Redis!IInv /\ Redis!RecordsAreOwn /\ Redis!ReplayMatchesFingerprint
SqlxReplaysInv == Sqlx!IInv /\ Sqlx!RecordsAreOwn /\ Sqlx!ReplayMatchesFingerprint

===============================================================================
