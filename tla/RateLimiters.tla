----------------------------- MODULE RateLimiters -----------------------------
(***************************************************************************)
(* A deployment assembles one rate limit store (framework.rs,               *)
(* rate_limit_store): the memory or SQLx store with its fixed window, or    *)
(* the Redis store with its sliding window.  The stores share no state, so  *)
(* each behaviour exercises the one that was chosen.                        *)
(***************************************************************************)
EXTENDS Integers, FiniteSets

CONSTANTS
    Caller,                      \* requests being checked
    Limits,                      \* values of max_requests
    FixedWindow, FixedMaxClock,  \* of the fixed windows
    Window, MaxClock,            \* of the sliding window
    Offsets, MaxDelay,           \* see SlidingWindowLimiter
    None

ASSUME LimitersAssumption ==
    /\ Limits \subseteq Nat /\ IsFiniteSet(Limits)
    /\ Offsets \subseteq Nat /\ IsFiniteSet(Offsets)
    /\ {FixedWindow, Window} \subseteq Nat \ {0}
    /\ {FixedMaxClock, MaxClock, MaxDelay} \subseteq Nat

\* An absent bucket is told apart from every bucket.
ASSUME NoneAssumption == None \notin [count : Nat, start : Nat, expires : Nat]

VARIABLES
    backend,  \* the store the deployment assembled
    memoryBucket, memoryClock, memoryPending, memoryGranted, memoryAdmitted,
    bucket, sqliteClock, sqlitePending, granted, sqliteAdmitted,
    members, expires, clock, pending, admitted

memoryVars == <<memoryBucket, memoryClock, memoryPending, memoryGranted, memoryAdmitted>>
sqliteVars == <<bucket, sqliteClock, sqlitePending, granted, sqliteAdmitted>>
redisVars == <<members, expires, clock, pending, admitted>>
vars == <<backend, memoryVars, sqliteVars, redisVars>>

Memory == INSTANCE FixedWindowLimiter
          WITH bucket <- memoryBucket, clock <- memoryClock, pending <- memoryPending,
               granted <- memoryGranted, admitted <- memoryAdmitted,
               Isolation <- "mutex", Window <- FixedWindow, MaxClock <- FixedMaxClock

Sqlite == INSTANCE FixedWindowLimiter
          WITH clock <- sqliteClock, pending <- sqlitePending, admitted <- sqliteAdmitted,
               Isolation <- "snapshot", Window <- FixedWindow, MaxClock <- FixedMaxClock

Redis == INSTANCE SlidingWindowLimiter

Init ==
    /\ backend \in {"memory", "sqlite", "redis"}
    /\ Memory!Init /\ Sqlite!Init /\ Redis!Init

Next ==
    \/ backend = "memory" /\ Memory!Next /\ UNCHANGED <<backend, sqliteVars, redisVars>>
    \/ backend = "sqlite" /\ Sqlite!Next /\ UNCHANGED <<backend, memoryVars, redisVars>>
    \/ backend = "redis" /\ Redis!Next /\ UNCHANGED <<backend, memoryVars, sqliteVars>>

Spec == Init /\ [][Next]_vars

-------------------------------------------------------------------------------
\* No fixed window admits more requests than the largest limit asked for, nor
\* refuses one for the sake of a request it never admitted: not in the memory
\* store, where refusals open windows too, nor on SQLite, where clock readings
\* are old by the time they are written (stores.rs and rate_limit.rs
\* check_and_record).
FixedWindowLimit ==
    /\ Memory!LimitPerWindow /\ Sqlite!LimitPerWindow
    /\ Memory!CountIsExact /\ Sqlite!CountIsExact

\* What an interval that straddles a window boundary can see: in memory at most
\* twice the limit; on Redis, if it is shorter than the window by the clock skew
\* of the servers, at most the limit, so that with equal clocks there is no burst
\* (stores.rs MemoryRateLimitStore::check_and_record, sdkwork-web-store-redis
\* lib.rs RATE_LIMIT_SCRIPT).
BurstsAreBounded == Memory!BoundaryBurst /\ Redis!NoBoundaryBurst

\* The inductive invariant of the three stores.
IInv == Memory!IInv /\ Sqlite!IInv /\ Redis!IInv

===============================================================================
