------------------------- MODULE SlidingWindowLimiter -------------------------
(***************************************************************************)
(* RedisRateLimitStore (sdkwork-web-store-redis lib.rs): a sorted set of    *)
(* admitted requests scored by the clock of the server process that admits  *)
(* them.  The script is atomic; its clock argument was read before the      *)
(* connection was awaited, on a machine whose clock may be ahead.  Sets of  *)
(* different keys do not touch, so one is modelled.                         *)
(***************************************************************************)
EXTENDS Integers, FiniteSetsExt

CONSTANTS
    Caller,    \* requests being checked
    Limits,    \* values of max_requests
    Window,    \* window_secs in clock units
    Offsets,   \* how far the clocks of the server processes are ahead
    MaxDelay,  \* how long a clock reading is used after it was taken
    MaxClock,  \* bound of the model
    None

VARIABLES
    members,   \* the sorted set: score and, as a history, the instant of insertion
    expires,   \* when Redis deletes the key
    clock,     \* the clock of Redis
    pending,   \* the clock reading, its age and the limit of each call
    admitted   \* history: requests admitted, with instant and rank

vars == <<members, expires, clock, pending, admitted>>

Member == [score : Nat, at : 0..MaxClock, n : Nat]
Call == [limit : Limits, stamp : Nat, taken : 0..MaxClock]

TypeOK ==
    /\ members \subseteq Member /\ IsFiniteSet(members)
    /\ expires \in Nat
    /\ clock \in 0..MaxClock
    /\ pending \in [Caller -> Call \cup {None}]
    /\ admitted \subseteq [at : 0..MaxClock, n : Nat] /\ IsFiniteSet(admitted)

Init ==
    /\ members = {}
    /\ expires = 0
    /\ clock = 0
    /\ pending = [c \in Caller |-> None]
    /\ admitted = {}

\* now_epoch_ms on the server of the request.
StartCheck(c, limit, offset) ==
    /\ pending[c] = None
    /\ pending' = [pending EXCEPT ![c] = [limit |-> limit, stamp |-> clock + offset, taken |-> clock]]
    /\ UNCHANGED <<members, expires, clock, admitted>>

\* What ZREMRANGEBYSCORE leaves.
InWindow(now) == {m \in members : m.score > now - Window}

Rank == Cardinality({a \in admitted : a.at = clock})

\* Broken variant: the limit is compared too late.
RunScriptOneMore(c) ==
    LET call == pending[c]
        rest == InWindow(call.stamp) IN
    /\ call # None
    /\ Cardinality(rest) <= call.limit
    /\ members' = rest \cup {[score |-> call.stamp, at |-> clock, n |-> Rank]}
    /\ expires' = clock + Window
    /\ admitted' = admitted \cup {[at |-> clock, n |-> Rank]}
    /\ pending' = [pending EXCEPT ![c] = None]
    /\ UNCHANGED clock

\* RATE_LIMIT_SCRIPT: members carry a fresh nonce, here their rank at that instant.
RunScript(c) ==
    LET call == pending[c]
        rest == InWindow(call.stamp) IN
    /\ call # None
    /\ \/ /\ Cardinality(rest) < call.limit
          /\ members' = rest \cup {[score |-> call.stamp, at |-> clock, n |-> Rank]}
          /\ expires' = clock + Window
          /\ admitted' = admitted \cup {[at |-> clock, n |-> Rank]}
       \/ /\ Cardinality(rest) >= call.limit
          /\ members' = rest
          /\ UNCHANGED <<expires, admitted>>
    /\ pending' = [pending EXCEPT ![c] = None]
    /\ UNCHANGED clock

\* Redis deletes the key at the end of the EXPIRE of the last admission.
KeyExpires ==
    /\ members # {}
    /\ clock >= expires
    /\ members' = {}
    /\ UNCHANGED <<expires, clock, pending, admitted>>

\* Time passes, but no call outlives its clock reading by more than MaxDelay.
Tick ==
    /\ clock < MaxClock
    /\ \A c \in Caller : pending[c] # None => clock - pending[c].taken < MaxDelay
    /\ clock' = clock + 1
    /\ UNCHANGED <<members, expires, pending, admitted>>

Next ==
    \/ \E c \in Caller :
          RunScript(c) \/ \E limit \in Limits, offset \in Offsets : StartCheck(c, limit, offset)
    \/ KeyExpires
    \/ Tick

Spec == Init /\ [][Next]_vars

-------------------------------------------------------------------------------
LargestLimit == Max(Limits \cup {0})
Skew == Max(Offsets \cup {0}) + MaxDelay

AdmittedIn(lo, hi) == {a \in admitted : lo < a.at /\ a.at <= hi}

\* In any interval shorter than the window by the clock skew of the servers,
\* at most the limit is admitted: with equal clocks there is no burst at a
\* window boundary (lib.rs, comment on RATE_LIMIT_SCRIPT).
NoBoundaryBurst ==
    Skew < Window =>
        \A hi \in 0..MaxClock : Cardinality(AdmittedIn(hi - (Window - Skew), hi)) <= LargestLimit

(* The inductive invariant: what bounds a burst is that the sorted set still
   holds every request admitted within the shortened window. *)
ReadingsAreRecent ==
    \A c \in Caller : pending[c] # None =>
        /\ pending[c].taken <= clock /\ clock - pending[c].taken <= MaxDelay
        /\ pending[c].stamp - pending[c].taken \in 0..Max(Offsets \cup {0})

ScoresAreRecent == \A m \in members : m.at - m.score <= MaxDelay

\* The EXPIRE of the last admission keeps the key for a window.
KeyOutlivesWindow == \A a \in admitted : a.at <= clock /\ a.at + Window <= expires

RecentIsKept ==
    \A a \in AdmittedIn(clock - (Window - Skew), clock) :
        \E m \in members : m.at = a.at /\ m.n = a.n

\* Every admission is a new element of the history.
RanksAreFresh ==
    \A a \in admitted : a.n < Cardinality({b \in admitted : b.at = a.at})

IInv ==
    /\ TypeOK
    /\ ReadingsAreRecent
    /\ ScoresAreRecent
    /\ KeyOutlivesWindow
    /\ RecentIsKept
    /\ RanksAreFresh
    /\ NoBoundaryBurst

===============================================================================
