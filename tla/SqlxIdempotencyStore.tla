------------------------- MODULE SqlxIdempotencyStore -------------------------
(***************************************************************************)
(* SqlxIdempotencyStore (sdkwork-web-store-sqlx idempotency.rs) with its    *)
(* throttled purge (purge.rs), for SQLite and PostgreSQL alike.  A call is  *)
(* a sequence of SQL statements without a transaction, so the statements of *)
(* different calls interleave.  Rows carry an expiry time which only the    *)
(* purge reads.                                                             *)
(***************************************************************************)
EXTENDS StoreCalls, Integers

CONSTANTS
    Ttl,       \* policy.idempotency.retention_secs, at least 1
    Interval,  \* DEFAULT_PURGE_INTERVAL_SECS
    MaxClock,  \* bound of the model
    Failures   \* TRUE: statements fail or lose their reply

VARIABLES
    rows,       \* framework_idempotency_record
    clock,      \* now_epoch_secs()
    lastPurge,  \* last_purge_secs of this process
    step,       \* the next statement of each caller
    seen        \* the clock and last_purge_secs a caller loaded in maybe_run

vars == <<call, rows, clock, lastPurge, step, seen>>

Row == [fingerprint : Fingerprint, response : Record \cup {None}, expires : Nat]
Step == {"start", "swap", "purge", "select", "insert", "check"}

TypeOK ==
    /\ CallType
    /\ rows \in [Key -> Row \cup {None}]
    /\ clock \in Nat /\ lastPurge \in Nat
    /\ step \in [Caller -> Step]
    /\ seen \in [Caller -> [now : Nat, last : Nat] \cup {None}]

\* The process starts long after the epoch and has not purged yet.
Init ==
    /\ CallInit
    /\ rows = [k \in Key |-> None]
    /\ clock = Interval
    /\ lastPurge = 0
    /\ step = [c \in Caller |-> "start"]
    /\ seen = [c \in Caller |-> None]

At(c, op, s) == Pending(c) /\ Op(c).op = op /\ step[c] = s

Continue(c, s) == step' = [step EXCEPT ![c] = s] /\ UNCHANGED call

\* The call ends with this result, unless the reply to its statement is lost.
Finish(c, result) ==
    /\ Respond(c, result) \/ (Failures /\ Respond(c, Plain("unavailable")))
    /\ step' = [step EXCEPT ![c] = "start"]

Matching(o) == rows[o.key] # None /\ rows[o.key].fingerprint = o.fingerprint

-------------------------------------------------------------------------------
(* begin: maybe_run, SELECT, INSERT. *)

LoadPurge(c) ==
    /\ At(c, "begin", "start")
    /\ IF clock - lastPurge < Interval
       THEN Continue(c, "select") /\ UNCHANGED seen
       ELSE /\ Continue(c, "swap")
            /\ seen' = [seen EXCEPT ![c] = [now |-> clock, last |-> lastPurge]]
    /\ UNCHANGED <<rows, clock, lastPurge>>

\* compare_exchange: one caller of the process runs the purge.
SwapPurge(c) ==
    /\ At(c, "begin", "swap")
    /\ IF lastPurge = seen[c].last
       THEN lastPurge' = seen[c].now /\ Continue(c, "purge")
       ELSE Continue(c, "select") /\ UNCHANGED lastPurge
    /\ UNCHANGED <<rows, clock, seen>>

Unexpired(now) == [k \in Key |-> IF rows[k] # None /\ rows[k].expires <= now THEN None ELSE rows[k]]

RunPurge(c) ==
    /\ At(c, "begin", "purge")
    /\ rows' = Unexpired(seen[c].now)
    /\ Continue(c, "select")
    /\ UNCHANGED <<clock, lastPurge, seen>>

\* Broken variant: the fingerprint of the row is not compared.
SelectAnyFingerprint(c) ==
    LET row == rows[Op(c).key] IN
    /\ At(c, "begin", "select")
    /\ \/ row = None /\ Continue(c, "insert")
       \/ /\ row # None
          /\ Finish(c, IF row.response = None THEN Plain("conflict") ELSE Replay(row.response))
    /\ UNCHANGED <<rows, clock, lastPurge, seen>>

\* SELECT ignores expires_at: a row past its time answers until a purge.
SelectRow(c) ==
    LET row == rows[Op(c).key] IN
    /\ At(c, "begin", "select")
    /\ \/ row = None /\ Continue(c, "insert")
       \/ /\ row # None
          /\ Finish(c, IF Matching(Op(c)) /\ row.response # None
                       THEN Replay(row.response) ELSE Plain("conflict"))
    /\ UNCHANGED <<rows, clock, lastPurge, seen>>

\* INSERT OR IGNORE / ON CONFLICT DO NOTHING: no row affected is a conflict.
InsertRow(c) ==
    LET o == Op(c) IN
    /\ At(c, "begin", "insert")
    /\ \/ /\ rows[o.key] = None
          /\ rows' = [rows EXCEPT ![o.key] = [fingerprint |-> o.fingerprint, response |-> None,
                                               expires |-> clock + Ttl]]
          /\ Finish(c, Plain("leader"))
       \/ /\ rows[o.key] # None
          /\ Finish(c, Plain("conflict"))
          /\ UNCHANGED rows
    /\ UNCHANGED <<clock, lastPurge, seen>>

-------------------------------------------------------------------------------
(* complete: UPDATE, and a SELECT when no row was affected; release: DELETE. *)

UpdateRow(c) ==
    LET o == Op(c) IN
    /\ At(c, "complete", "start")
    /\ \/ /\ Matching(o) /\ rows[o.key].response = None
          /\ rows' = [rows EXCEPT ![o.key].response = o.record, ![o.key].expires = clock + Ttl]
          /\ Finish(c, Plain("ok"))
       \/ /\ ~(Matching(o) /\ rows[o.key].response = None)
          /\ Continue(c, "check")
          /\ UNCHANGED rows
    /\ UNCHANGED <<clock, lastPurge, seen>>

CheckRow(c) ==
    LET o == Op(c) IN
    /\ At(c, "complete", "check")
    /\ Finish(c, Plain(IF rows[o.key] = None THEN "unreserved"
                       ELSE IF Matching(o) THEN "ok" ELSE "conflict"))
    /\ UNCHANGED <<rows, clock, lastPurge, seen>>

DeleteRow(c) ==
    LET o == Op(c) IN
    /\ At(c, "release", "start")
    /\ rows' = IF Matching(o) /\ rows[o.key].response = None
               THEN [rows EXCEPT ![o.key] = None] ELSE rows
    /\ Finish(c, Plain("ok"))
    /\ UNCHANGED <<clock, lastPurge, seen>>

\* A statement fails: the call ends, whatever it was about to do.
Fail(c) ==
    /\ Failures
    /\ Respond(c, Plain("unavailable"))
    /\ step' = [step EXCEPT ![c] = "start"]
    /\ UNCHANGED <<rows, clock, lastPurge, seen>>

\* The purge of another process on the same database.
PurgeElsewhere ==
    /\ rows' = Unexpired(clock)
    /\ UNCHANGED <<call, clock, lastPurge, step, seen>>

Tick ==
    /\ clock < MaxClock
    /\ clock' = clock + 1
    /\ UNCHANGED <<call, rows, lastPurge, step, seen>>

Next ==
    \/ \E c \in Caller :
          \/ LoadPurge(c) \/ SwapPurge(c) \/ RunPurge(c) \/ SelectRow(c) \/ InsertRow(c)
          \/ UpdateRow(c) \/ CheckRow(c) \/ DeleteRow(c) \/ Fail(c)
          \/ /\ Return(c) \/ \E o \in Operation : Invoke(c, o)
             /\ UNCHANGED <<rows, clock, lastPurge, step, seen>>
    \/ PurgeElsewhere
    \/ Tick

Spec == Init /\ [][Next]_vars

-------------------------------------------------------------------------------
Table == [k \in Key |-> IF rows[k] = None THEN None
                        ELSE [fingerprint |-> rows[k].fingerprint, response |-> rows[k].response]]

Contract == INSTANCE IdempotencyContract
            WITH table <- Table, FirstResponseWins <- TRUE, AckUnrecorded <- TRUE

\* Although a call is several statements without a transaction, and purges run
\* in between, every call behaves as one atomic call of the trait
\* (idempotency.rs, sqlite_begin and pg_begin).
ImplementsContract == Contract!Spec

\* A row disappears only when its time is over or when its reservation is
\* released: no purge, however late it runs, takes a live row.
LiveRowsStay ==
    [][\A k \in Key :
          (rows[k] # None /\ rows'[k] = None)
              => \/ rows[k].expires <= clock
                 \/ rows[k].response = None /\ \E c \in Caller : DeleteRow(c)]_vars

(* The inductive invariant: a purge uses a clock reading of the past. *)
PurgesReadTheClock ==
    \A c \in Caller : step[c] \in {"swap", "purge"} => seen[c] \in [now : 0..clock, last : Nat]

IInv == TypeOK /\ PurgesReadTheClock

\* A recorded response is one to the fingerprint the row was inserted under.
RecordsAreOwn ==
    \A k \in Key : rows[k] # None /\ rows[k].response # None => rows[k].response.of = rows[k].fingerprint

===============================================================================
