-------------------------- MODULE FixedWindowLimiter --------------------------
(***************************************************************************)
(* check_and_record of the two fixed-window rate limiters: the memory store *)
(* (stores.rs), whose mutex makes a call one step, and the SQLx store       *)
(* (rate_limit.rs), which reads and writes its row in one transaction.      *)
(* Buckets of different keys do not touch, so one bucket is modelled.       *)
(***************************************************************************)
EXTENDS Integers, FiniteSetsExt

CONSTANTS
    Caller,     \* requests being checked
    Limits,     \* values of max_requests
    Window,     \* window length in clock units, at least 1
    MaxClock,   \* bound of the model
    Isolation,  \* of the read and the write of one call, see below
    None

(* Isolation is "mutex": the memory store; "snapshot": SQLite, where a
   transaction that read an older state of the database cannot write; or
   "read_committed": the default level of PostgreSQL, at which
   pg_check_and_record runs. *)

VARIABLES
    bucket,    \* the count and window start of the bucket, and when its row expires
    clock,
    pending,   \* what each call has read: its limit, clock and row
    granted,   \* history: requests admitted in the window the bucket stands for
    admitted   \* history: requests the memory store admitted, with instant, window and rank

vars == <<bucket, clock, pending, granted, admitted>>

Bucket == [count : Nat, start : Nat, expires : Nat]
Call == [limit : Limits, now : Nat, read : BOOLEAN, row : Bucket \cup {None}]

TypeOK ==
    /\ bucket \in Bucket \cup {None}
    /\ clock \in 0..MaxClock
    /\ pending \in [Caller -> Call \cup {None}]
    /\ granted \in Nat
    /\ admitted \subseteq [at : Nat, start : Nat, n : Nat] /\ IsFiniteSet(admitted)

Init ==
    /\ bucket = None
    /\ clock = 0
    /\ pending = [c \in Caller |-> None]
    /\ granted = 0
    /\ admitted = {}

\* A bucket that is absent or whose window is over starts a new window.
Opens(row, now) == row # None => now - row.start >= Window

\* Broken variants: the limit is not compared; the window start is not moved.
NextUnlimited(row, now, limit) ==
    IF Opens(row, now) THEN [count |-> 1, start |-> now, expires |-> now + Window]
    ELSE [count |-> row.count + 1, start |-> row.start, expires |-> now + Window]

NextKeepsStart(row, now, limit) ==
    LET count == IF Opens(row, now) THEN 0 ELSE row.count
    IN IF count >= limit THEN None
       ELSE [count |-> count + 1, start |-> IF row = None THEN now ELSE row.start,
             expires |-> now + Window]

\* The bucket after one more request, None if the limit refuses it.
NextBucket(row, now, limit) ==
    LET count == IF Opens(row, now) THEN 0 ELSE row.count
        start == IF Opens(row, now) THEN now ELSE row.start
    IN IF count >= limit THEN None
       ELSE [count |-> count + 1, start |-> start, expires |-> now + Window]

\* The request is admitted with the new bucket b.
Admit(b) ==
    /\ bucket' = b
    /\ granted' = IF bucket # None /\ bucket.start = b.start THEN granted + 1 ELSE 1

Refuse == UNCHANGED <<bucket, granted>>

-------------------------------------------------------------------------------
\* Memory: the mutex is held from the clock reading to the answer.
CheckMemory(limit) ==
    LET b == NextBucket(bucket, clock, limit) IN
    /\ Isolation = "mutex"
    /\ b # None
    /\ Admit(b)
    /\ admitted' = admitted \cup {[at |-> clock, start |-> b.start, n |-> b.count]}
    /\ UNCHANGED <<clock, pending>>

\* A refusal starts a new window all the same when the old one is over (limit 0).
RefuseMemory(limit) ==
    /\ Isolation = "mutex"
    /\ NextBucket(bucket, clock, limit) = None
    /\ Opens(bucket, clock)
    /\ bucket' = [count |-> 0, start |-> clock, expires |-> clock + Window]
    /\ granted' = 0
    /\ UNCHANGED <<clock, pending, admitted>>

\* SQLx: the clock is read before the transaction begins.
StartCheck(c, limit) ==
    /\ Isolation # "mutex"
    /\ pending[c] = None
    /\ pending' = [pending EXCEPT ![c] = [limit |-> limit, now |-> clock, read |-> FALSE, row |-> None]]
    /\ UNCHANGED <<bucket, clock, granted, admitted>>

SelectBucket(c) ==
    /\ pending[c] # None /\ ~pending[c].read
    /\ pending' = [pending EXCEPT ![c].read = TRUE, ![c].row = bucket]
    /\ UNCHANGED <<bucket, clock, granted, admitted>>

\* A snapshot transaction fails to write once the row it read has changed.
CanWrite(c) == Isolation = "read_committed" \/ bucket = pending[c].row

\* The upsert is committed; or the limit refuses the request (ROLLBACK), or a
\* statement fails and the store reports a failed dependency.
UpsertBucket(c) ==
    LET call == pending[c]
        b == NextBucket(call.row, call.now, call.limit) IN
    /\ call # None
    /\ call.read
    /\ \/ b # None /\ CanWrite(c) /\ Admit(b)
       \/ Refuse
    /\ pending' = [pending EXCEPT ![c] = None]
    /\ UNCHANGED <<clock, admitted>>

\* The throttled purge deletes the row once no request was admitted for a window.
PurgeBucket ==
    /\ Isolation # "mutex"
    /\ bucket # None
    /\ bucket.expires <= clock
    /\ bucket' = None
    /\ UNCHANGED <<clock, pending, granted, admitted>>

Tick ==
    /\ clock < MaxClock
    /\ clock' = clock + 1
    /\ UNCHANGED <<bucket, pending, granted, admitted>>

Next ==
    \/ \E limit \in Limits : CheckMemory(limit) \/ RefuseMemory(limit) \/ \E c \in Caller : StartCheck(c, limit)
    \/ \E c \in Caller : SelectBucket(c) \/ UpsertBucket(c)
    \/ PurgeBucket
    \/ Tick

Spec == Init /\ [][Next]_vars

-------------------------------------------------------------------------------
LargestLimit == Max(Limits \cup {0})

\* No window admits more requests than the largest limit asked for, however
\* calls interleave and however old their clock reading is.
LimitPerWindow == granted <= LargestLimit

\* The count of the bucket is the number of requests admitted in its window.
CountIsExact == bucket # None => bucket.count = granted

AdmittedFrom(t) == {a \in admitted : t <= a.at /\ a.at < t + Window}

\* Memory: any interval of one window's length, wherever it starts, sees at
\* most twice the limit, the burst of a fixed window at its boundary.
BoundaryBurst ==
    Isolation = "mutex" => \A t \in 0..MaxClock : Cardinality(AdmittedFrom(t)) <= 2 * LargestLimit

(* The inductive invariant.  A limit per window follows from the exact count
   alone; for the burst, the windows of the admitted requests are kept apart
   and their requests told apart by rank. *)
Apart(s, t) == s = t \/ s + Window <= t \/ t + Window <= s

AdmittedInWindows ==
    \A a \in admitted :
        /\ 1 <= a.n /\ a.n <= LargestLimit
        /\ a.start <= a.at /\ a.at < a.start + Window

WindowsAreApart == \A a, b \in admitted : Apart(a.start, b.start)

RanksAreUnique == \A a, b \in admitted : a.start = b.start /\ a.n = b.n => a = b

\* The bucket stands for the last window, and its count is the last rank.
BucketIsLast ==
    IF bucket = None THEN admitted = {}
    ELSE /\ bucket.start <= clock
         /\ \A a \in admitted : \/ a.start = bucket.start /\ a.n <= bucket.count
                                \/ a.start + Window <= bucket.start

IInv ==
    /\ TypeOK
    /\ LimitPerWindow
    /\ CountIsExact
    /\ Isolation = "mutex" =>
          /\ AdmittedInWindows /\ WindowsAreApart /\ RanksAreUnique /\ BucketIsLast
          /\ pending = [c \in Caller |-> None]

===============================================================================
