------------------------ MODULE MemoryIdempotencyStore ------------------------
(***************************************************************************)
(* MemoryIdempotencyStore (sdkwork-web-core stores.rs).  One mutex covers   *)
(* every call, so a call is one step.  Rows expire by their creation time   *)
(* and the oldest rows are evicted when the store is over its budget of     *)
(* entries or of cached bytes.  A body is abstracted to its length, so here *)
(* Body is a set of numbers.                                                *)
(***************************************************************************)
EXTENDS StoreCalls, Integers, FiniteSetsExt

CONSTANTS
    Ttl,         \* policy.idempotency.retention_secs
    MaxEntries,  \* MEMORY_IDEMPOTENCY_MAX_ENTRIES
    MaxBytes,    \* MEMORY_IDEMPOTENCY_MAX_CACHED_BYTES
    MaxClock     \* bound of the model

VARIABLES
    entries,  \* the rows, as a set
    clock     \* Instant::now()

vars == <<call, entries, clock>>

Entry == [key : Key, fingerprint : Fingerprint, response : Record \cup {None}, created : 0..MaxClock]

TypeOK ==
    /\ CallType
    /\ entries \subseteq Entry
    /\ clock \in 0..MaxClock

Init == CallInit /\ entries = {} /\ clock = 0

Bytes(e) == IF e.response = None THEN 0 ELSE e.response.body
CachedBytes(E) == MapThenSumSet(Bytes, E)

WithinBudget(E) == Cardinality(E) <= MaxEntries /\ CachedBytes(E) <= MaxBytes

\* evict_over_budget removes rows oldest first, in any order among rows of the
\* same instant, until the rest is within budget.
EvictOverBudget(E) ==
    {kept \in SUBSET E :
        /\ WithinBudget(kept)
        /\ \A gone \in E \ kept, e \in kept : gone.created <= e.created
        /\ kept = E \/ \E last \in E \ kept :
              /\ ~WithinBudget(kept \cup {last})
              /\ \A gone \in E \ kept : gone.created <= last.created}

\* Broken variant: a row lives one instant longer than its TTL.
UnexpiredOrDue(E) == {e \in E : clock - e.created <= Ttl}

Unexpired(E) == {e \in E : clock - e.created < Ttl}

PurgeExpired(E) == EvictOverBudget(Unexpired(E))

Of(E, k) == {e \in E : e.key = k}

Begin(c) ==
    LET o == Op(c) IN
    /\ Pending(c) /\ o.op = "begin"
    /\ \E E \in PurgeExpired(entries) :
          \/ /\ Of(E, o.key) = {}
             /\ entries' = E \cup {[key |-> o.key, fingerprint |-> o.fingerprint,
                                    response |-> None, created |-> clock]}
             /\ Respond(c, Plain("leader"))
          \/ \E e \in Of(E, o.key) :
             /\ entries' = E
             /\ Respond(c, IF e.fingerprint # o.fingerprint \/ e.response = None
                           THEN Plain("conflict") ELSE Replay(e.response))
    /\ UNCHANGED clock

\* Broken variant: the fingerprint of the row is not compared.
CompleteAnyFingerprint(c) ==
    LET o == Op(c) IN
    /\ Pending(c) /\ o.op = "complete"
    /\ \E E \in PurgeExpired(entries) :
          \/ /\ Of(E, o.key) = {}
             /\ entries' = E
             /\ Respond(c, Plain("unreserved"))
          \/ \E e \in Of(E, o.key) :
             /\ entries' \in EvictOverBudget((E \ {e}) \cup {[e EXCEPT !.response = o.record]})
             /\ Respond(c, Plain("ok"))
    /\ UNCHANGED clock

\* The response replaces any earlier one; the row keeps its creation time, and
\* may be evicted at once.
Complete(c) ==
    LET o == Op(c) IN
    /\ Pending(c) /\ o.op = "complete"
    /\ \E E \in PurgeExpired(entries) :
          \/ /\ Of(E, o.key) = {}
             /\ entries' = E
             /\ Respond(c, Plain("unreserved"))
          \/ \E e \in Of(E, o.key) :
             \/ /\ e.fingerprint # o.fingerprint
                /\ entries' = E
                /\ Respond(c, Plain("conflict"))
             \/ /\ e.fingerprint = o.fingerprint
                /\ entries' \in EvictOverBudget((E \ {e}) \cup {[e EXCEPT !.response = o.record]})
                /\ Respond(c, Plain("ok"))
    /\ UNCHANGED clock

\* release does not purge.
Release(c) ==
    LET o == Op(c) IN
    /\ Pending(c) /\ o.op = "release"
    /\ entries' = {e \in entries :
                      ~(e.key = o.key /\ e.fingerprint = o.fingerprint /\ e.response = None)}
    /\ Respond(c, Plain("ok"))
    /\ UNCHANGED clock

Tick ==
    /\ clock < MaxClock
    /\ clock' = clock + 1
    /\ UNCHANGED <<call, entries>>

Next ==
    \/ \E c \in Caller :
          \/ Begin(c) \/ Complete(c) \/ Release(c)
          \/ (Return(c) \/ \E o \in Operation : Invoke(c, o)) /\ UNCHANGED <<entries, clock>>
    \/ Tick

Spec == Init /\ [][Next]_vars

-------------------------------------------------------------------------------
\* The contract's table: the row of each key.
TableOf(E) == [k \in Key |->
                 IF Of(E, k) = {} THEN None
                 ELSE LET e == CHOOSE e \in Of(E, k) : TRUE
                      IN [fingerprint |-> e.fingerprint, response |-> e.response]]

Table == TableOf(entries)

Contract == INSTANCE IdempotencyContract
            WITH table <- Table, FirstResponseWins <- FALSE, AckUnrecorded <- FALSE

\* Every call behaves as one atomic call of the trait, whatever was purged or
\* evicted on the way (stores.rs, IdempotencyStore).
ImplementsContract == Contract!Spec

\* A replay is never older than the retention time: the row that answers a
\* begin was created less than Ttl ago.
ReplaysAreRecent ==
    [][\A c \in Caller :
          (Pending(c) /\ Op(c).op = "begin" /\ call'[c] # None /\ call'[c].result # None
              /\ call'[c].result.status = "replay")
          => \E e \in entries : e.key = Op(c).key /\ clock - e.created < Ttl]_vars

(* The inductive invariant: a key has one row. *)
Unique(E) == \A e, f \in E : e.key = f.key => e = f

IInv == TypeOK /\ Unique(entries)

\* A recorded response is one to the fingerprint the row was inserted under.
RecordsAreOwn == \A e \in entries : e.response # None => e.response.of = e.fingerprint

===============================================================================
