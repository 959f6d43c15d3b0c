--------------------------- MODULE RequestPipeline ---------------------------
(***************************************************************************)
(* The request pipeline of the HTTP middleware (sdkwork-web-axum            *)
(* middleware.rs) over the standard interceptor chain (sdkwork-web-core     *)
(* interceptors.rs), with the two shared stores it reserves from:           *)
(*   - the idempotency store: one reservation or cached response per key;   *)
(*   - the concurrent admission store: one counter per scope.               *)
(*                                                                         *)
(* A request is an asynchronous task.  Every await of the middleware ends   *)
(* a step, so requests interleave between two store calls, and a client     *)
(* that disconnects drops the task at any of them.                          *)
(***************************************************************************)
EXTENDS Integers, FiniteSets

CONSTANTS
    Request,            \* the request tasks, each used once
    Key,                \* scoped idempotency store keys
    Fingerprint,        \* request fingerprints
    Scope,              \* scope keys of the concurrent admission counters
    Limits,             \* values max_concurrent_requests takes in tenant profiles
    FirstResponseWins,  \* TRUE: Redis and SQLx keep a recorded response; FALSE: memory overwrites
    Faults,             \* which faults the environment produces
    None                \* the absent value

FaultKinds == {"store", "audit", "panic", "cancel", "expiry", "counter_ttl"}

ASSUME LimitsAssumption == Limits \subseteq Nat
ASSUME RequestAssumption == IsFiniteSet(Request)
ASSUME FaultsAssumption == Faults \subseteq FaultKinds
ASSUME FirstResponseWinsAssumption == FirstResponseWins \in BOOLEAN
ASSUME NoneAssumption == None \notin Request \cup Key \cup Fingerprint \cup Scope

VARIABLES
    pc,        \* where each request stands in the middleware
    key,       \* its scoped store key, None if idempotency does not apply
    fp,        \* its fingerprint
    leaders,   \* the requests whose state.idempotency_leader is set
    replay,    \* state.idempotency_replay: the request that produced the cached response
    slot,      \* state.concurrent_admission_key
    response,  \* the response the middleware holds for the request
    entries,   \* the idempotency store
    active,    \* the concurrent admission counters
    drops      \* leaders whose guard was dropped and whose release task is still to run

\* History variables: nothing in the code reads them.
VARIABLES
    holder,       \* the leader for which the entry of a key was inserted
    bereft,       \* leaders whose entry was removed by something else than their own release
    failed,       \* leaders one of whose calls of release or complete failed
    counted,      \* requests whose slot is counted in active
    skewed        \* scopes whose counter no longer counts the slots handed out

state == <<key, fp, leaders, replay, slot, response>>
rows == <<entries, holder, bereft>>
idempotency == <<entries, holder, bereft, failed>>
admission == <<active, counted, skewed>>
vars == <<pc, state, idempotency, admission, drops>>

Phase == {"idle", "admit", "authorize", "handler", "unwind",
          "undo_slot", "undo_key", "after", "give_back", "done", "gone"}

\* 2xx buffered, event stream, body over max_cached_response_bytes, 4xx, 5xx
HandlerResponse == {"success", "stream", "oversize", "refused", "unavailable"}

\* ... or a replayed one, the 413 that replaces an oversize body, the 503 of a failed audit
Answer == HandlerResponse \cup {"replayed", "too_large", "audit_failed"}

\* One row of the store: an in-progress reservation has no response yet.
Entry == [fingerprint : Fingerprint, response : Request \cup {None}]

ASSUME VacantAssumption == None \notin Entry

TypeOK ==
    /\ pc \in [Request -> Phase]
    /\ key \in [Request -> Key \cup {None}]
    /\ fp \in [Request -> Fingerprint \cup {None}]
    /\ leaders \subseteq Request
    /\ replay \in [Request -> Request \cup {None}]
    /\ slot \in [Request -> Scope \cup {None}]
    /\ response \in [Request -> Answer \cup {None}]
    /\ entries \in [Key -> Entry \cup {None}]
    /\ active \in [Scope -> Nat]
    /\ drops \subseteq Request
    /\ holder \in [Key -> Request \cup {None}]
    /\ bereft \subseteq Request
    /\ failed \subseteq Request
    /\ counted \subseteq Request
    /\ skewed \subseteq Scope

Init ==
    /\ pc = [r \in Request |-> "idle"]
    /\ key = [r \in Request |-> None]
    /\ fp = [r \in Request |-> None]
    /\ leaders = {}
    /\ replay = [r \in Request |-> None]
    /\ slot = [r \in Request |-> None]
    /\ response = [r \in Request |-> None]
    /\ entries = [k \in Key |-> None]
    /\ active = [s \in Scope |-> 0]
    /\ drops = {}
    /\ holder = [k \in Key |-> None]
    /\ bereft = {}
    /\ failed = {}
    /\ counted = {}
    /\ skewed = {}

-----------------------------------------------------------------------------
(* The idempotency store as its callers see it. *)

InProgress(k) == entries[k] # None /\ entries[k].response = None

\* release: only an in-progress row with the caller's fingerprint is removed.
Releasable(r) ==
    /\ InProgress(key[r])
    /\ entries[key[r]].fingerprint = fp[r]

\* Whoever removes a row takes it away from the leader it was inserted for.
RemoveEntry(k, actor) ==
    /\ entries' = [entries EXCEPT ![k] = None]
    /\ holder' = [holder EXCEPT ![k] = None]
    /\ bereft' = IF holder[k] = actor THEN bereft ELSE bereft \cup {holder[k]}
    /\ UNCHANGED failed

\* A call that settles r's key fails before it takes effect; its error is dropped.
CallFails(r) ==
    /\ "store" \in Faults
    /\ failed' = failed \cup {r}
    /\ UNCHANGED rows

Release(r) ==
    \/ Releasable(r) /\ RemoveEntry(key[r], r)
    \/ ~Releasable(r) /\ UNCHANGED idempotency
    \/ CallFails(r)

\* complete: an absent row or another fingerprint is an error, which is only logged.
Completable(r) ==
    /\ entries[key[r]] # None
    /\ entries[key[r]].fingerprint = fp[r]
    /\ FirstResponseWins => entries[key[r]].response = None

Complete(r) ==
    \/ /\ Completable(r)
       /\ entries' = [entries EXCEPT ![key[r]] = [fingerprint |-> fp[r], response |-> r]]
       /\ UNCHANGED <<holder, bereft, failed>>
    \/ ~Completable(r) /\ UNCHANGED idempotency
    \/ CallFails(r)

\* The row's TTL ends, or the memory store evicts it.
Expire(k) ==
    /\ "expiry" \in Faults
    /\ entries[k] # None
    /\ RemoveEntry(k, None)
    /\ UNCHANGED <<pc, state, admission, drops>>

-----------------------------------------------------------------------------
(* The concurrent admission store. *)

Lowered(n) == IF n > 0 THEN n - 1 ELSE 0

\* Broken variant: release forgets the whole counter.
ReleaseAdmissionAll(r) ==
    \/ slot[r] = None /\ UNCHANGED admission
    \/ /\ slot[r] # None
       /\ active' = [active EXCEPT ![slot[r]] = 0]
       /\ counted' = counted \ {r}
       /\ UNCHANGED skewed

\* release of the slot recorded in the request's state, whether or not it was
\* counted and however often it was released before.
ReleaseAdmission(r) ==
    \/ slot[r] = None /\ UNCHANGED admission
    \/ /\ slot[r] # None
       /\ active' = [active EXCEPT ![slot[r]] = Lowered(@)]
       /\ counted' = counted \ {r}
       /\ skewed' = IF r \in counted \/ active[slot[r]] = 0
                    THEN skewed
                    ELSE skewed \cup {slot[r]}
    \/ slot[r] # None /\ "store" \in Faults /\ UNCHANGED admission

\* Redis gives a counter a TTL when it creates it and never renews it.
CounterExpires(s) ==
    /\ "counter_ttl" \in Faults
    /\ active[s] > 0
    /\ active' = [active EXCEPT ![s] = 0]
    /\ skewed' = skewed \cup {s}
    /\ UNCHANGED <<pc, state, idempotency, counted, drops>>

-----------------------------------------------------------------------------
(* call_chain.before: the stages that change shared state. *)

Goto(r, phase) == pc' = [pc EXCEPT ![r] = phase]

\* Any stage may fail: the middleware then gives back what the request holds.
FailBefore(r) ==
    /\ \E answer \in {"refused", "unavailable"} :
          response' = [response EXCEPT ![r] = answer]
    /\ Goto(r, "undo_slot")

\* Stages 1 to 8 refuse the request, or the idempotency stage refuses its key.
RefuseEarly(r) ==
    /\ pc[r] = "idle"
    /\ FailBefore(r)
    /\ UNCHANGED <<key, fp, leaders, replay, slot, idempotency, admission, drops>>

\* The command is not idempotent: stage 9 lets it pass.
PassIdempotency(r) ==
    /\ pc[r] = "idle"
    /\ Goto(r, "admit")
    /\ UNCHANGED <<state, idempotency, admission, drops>>

\* Broken variant: a reservation in progress does not stop a second leader.
BeginLeaderUnchecked(r, k, f) ==
    /\ pc[r] = "idle"
    /\ entries[k] = None \/ InProgress(k)
    /\ entries' = [entries EXCEPT ![k] = [fingerprint |-> f, response |-> None]]
    /\ holder' = [holder EXCEPT ![k] = r]
    /\ key' = [key EXCEPT ![r] = k]
    /\ fp' = [fp EXCEPT ![r] = f]
    /\ leaders' = leaders \cup {r}
    /\ Goto(r, "admit")
    /\ UNCHANGED <<replay, slot, response, bereft, failed, admission, drops>>

\* begin on a vacant key reserves it; a lost reply reserves it and fails the stage.
BeginLeader(r, k, f) ==
    /\ pc[r] = "idle"
    /\ entries[k] = None
    /\ entries' = [entries EXCEPT ![k] = [fingerprint |-> f, response |-> None]]
    /\ holder' = [holder EXCEPT ![k] = r]
    /\ key' = [key EXCEPT ![r] = k]
    /\ fp' = [fp EXCEPT ![r] = f]
    /\ \/ /\ leaders' = leaders \cup {r}
          /\ Goto(r, "admit")
          /\ UNCHANGED response
       \/ /\ "store" \in Faults
          /\ FailBefore(r)
          /\ UNCHANGED leaders
    /\ UNCHANGED <<replay, slot, bereft, failed, admission, drops>>

\* Broken variant: the stored fingerprint is not compared.
BeginReplayAnyFingerprint(r, k, f) ==
    /\ pc[r] = "idle"
    /\ entries[k] # None
    /\ entries[k].response # None
    /\ key' = [key EXCEPT ![r] = k]
    /\ fp' = [fp EXCEPT ![r] = f]
    /\ replay' = [replay EXCEPT ![r] = entries[k].response]
    /\ Goto(r, "admit")
    /\ UNCHANGED <<leaders, slot, response, idempotency, admission, drops>>

\* begin on a completed row with the same fingerprint replays its response.
BeginReplay(r, k, f) ==
    /\ pc[r] = "idle"
    /\ entries[k] # None
    /\ entries[k].fingerprint = f
    /\ entries[k].response # None
    /\ key' = [key EXCEPT ![r] = k]
    /\ fp' = [fp EXCEPT ![r] = f]
    /\ replay' = [replay EXCEPT ![r] = entries[k].response]
    /\ Goto(r, "admit")
    /\ UNCHANGED <<leaders, slot, response, idempotency, admission, drops>>

\* begin on a row in progress, or of another fingerprint, is a conflict.
BeginConflict(r, k, f) ==
    /\ pc[r] = "idle"
    /\ entries[k] # None
    /\ entries[k].fingerprint # f \/ entries[k].response = None
    /\ FailBefore(r)
    /\ UNCHANGED <<key, fp, leaders, replay, slot, idempotency, admission, drops>>

\* try_acquire: a limit of zero admits without counting.
Acquire(r, s, limit) ==
    \/ /\ limit = 0
       /\ UNCHANGED admission
    \/ /\ limit > 0
       /\ active[s] < limit
       /\ active' = [active EXCEPT ![s] = @ + 1]
       /\ counted' = counted \cup {r}
       /\ UNCHANGED skewed

\* Context resolution and authentication pass and the tenant has a slot.
Admit(r, s, limit) ==
    /\ pc[r] = "admit"
    /\ Acquire(r, s, limit)
    /\ slot' = [slot EXCEPT ![r] = s]
    /\ Goto(r, "authorize")
    /\ UNCHANGED <<key, fp, leaders, replay, response, idempotency, drops>>

\* The counter was raised but the reply is lost: no request holds the slot.
AcquireReplyLost(r, s, limit) ==
    /\ "store" \in Faults
    /\ pc[r] = "admit"
    /\ limit > 0
    /\ active[s] < limit
    /\ active' = [active EXCEPT ![s] = @ + 1]
    /\ skewed' = skewed \cup {s}
    /\ FailBefore(r)
    /\ UNCHANGED <<key, fp, leaders, replay, slot, idempotency, counted, drops>>

\* The request has no scope or its tenant no limit: no slot is taken.
AdmitUnlimited(r) ==
    /\ pc[r] = "admit"
    /\ Goto(r, "authorize")
    /\ UNCHANGED <<state, idempotency, admission, drops>>

\* Resolution or authentication fails, or the tenant is at its limit.
RefuseAdmission(r) ==
    /\ pc[r] = "admit"
    /\ FailBefore(r)
    /\ UNCHANGED <<key, fp, leaders, replay, slot, idempotency, admission, drops>>

\* Authorization or tenant isolation denies the request.
Deny(r) ==
    /\ pc[r] = "authorize"
    /\ FailBefore(r)
    /\ UNCHANGED <<key, fp, leaders, replay, slot, idempotency, admission, drops>>

\* A CORS preflight that passed the chain is answered 204 without a handler.
AnswerPreflight(r) ==
    /\ pc[r] = "authorize"
    /\ key[r] = None
    /\ response' = [response EXCEPT ![r] = "success"]
    /\ Goto(r, "after")
    /\ UNCHANGED <<key, fp, leaders, replay, slot, idempotency, admission, drops>>

\* The chain accepted the request: a cached response answers it, a handler runs otherwise.
Dispatch(r) ==
    /\ pc[r] = "authorize"
    /\ \/ /\ replay[r] # None
          /\ response' = [response EXCEPT ![r] = "replayed"]
          /\ Goto(r, "after")
       \/ /\ replay[r] = None
          /\ Goto(r, "handler")
          /\ UNCHANGED response
    /\ UNCHANGED <<key, fp, leaders, replay, slot, idempotency, admission, drops>>

-----------------------------------------------------------------------------
(* The handler and the ways it ends. *)

\* It returns; a timeout returns a 408, which is a refusal.
HandlerReturns(r, answer) ==
    /\ pc[r] = "handler"
    /\ response' = [response EXCEPT ![r] = answer]
    /\ Goto(r, "after")
    /\ UNCHANGED <<key, fp, leaders, replay, slot, idempotency, admission, drops>>

HandlerPanics(r) ==
    /\ "panic" \in Faults
    /\ pc[r] = "handler"
    /\ response' = [response EXCEPT ![r] = "unavailable"]
    /\ Goto(r, "unwind")
    /\ UNCHANGED <<key, fp, leaders, replay, slot, idempotency, admission, drops>>

ReleaseAfterPanic(r) ==
    /\ pc[r] = "unwind"
    /\ IF r \in leaders THEN Release(r) ELSE UNCHANGED idempotency
    /\ Goto(r, "after")
    /\ UNCHANGED <<state, admission, drops>>

\* Broken variant: the guard is disarmed before the handler runs.
CancelUnguarded(r) ==
    /\ "cancel" \in Faults
    /\ pc[r] \notin {"idle", "done", "gone"}
    /\ Goto(r, "gone")
    /\ UNCHANGED <<state, idempotency, admission, drops>>

\* The client disconnects and the task is dropped at an await.  Only the guard
\* that lives while the handler runs does anything: it spawns a release.
Cancel(r) ==
    /\ "cancel" \in Faults
    /\ pc[r] \notin {"idle", "done", "gone"}
    /\ drops' = IF pc[r] = "handler" /\ r \in leaders THEN drops \cup {r} ELSE drops
    /\ Goto(r, "gone")
    /\ UNCHANGED <<state, idempotency, admission>>

SpawnedRelease(r) ==
    /\ r \in drops
    /\ Release(r)
    /\ drops' = drops \ {r}
    /\ UNCHANGED <<pc, state, admission>>

-----------------------------------------------------------------------------
(* Giving back after a failed before, and finalize_response. *)

\* Broken variant: waits for a slot the request may not have.
UndoAdmissionOfHolder(r) ==
    /\ pc[r] = "undo_slot"
    /\ slot[r] # None
    /\ ReleaseAdmission(r)
    /\ Goto(r, "undo_key")
    /\ UNCHANGED <<state, idempotency, drops>>

UndoAdmission(r) ==
    /\ pc[r] = "undo_slot"
    /\ ReleaseAdmission(r)
    /\ Goto(r, "undo_key")
    /\ UNCHANGED <<state, idempotency, drops>>

UndoIdempotency(r) ==
    /\ pc[r] = "undo_key"
    /\ IF r \in leaders THEN Release(r) ELSE UNCHANGED idempotency
    /\ Goto(r, "after")
    /\ UNCHANGED <<state, admission, drops>>

\* Broken variant: only a 5xx frees the key.
FinalizeKeepsRefused(r) ==
    IF response[r] = "unavailable" THEN Release(r) /\ UNCHANGED response
    ELSE IF response[r] = "success" THEN Complete(r) /\ UNCHANGED response
    ELSE UNCHANGED <<response, idempotency>>

\* The idempotency stage of call_chain.after, by the response it finds.
Finalize(r) ==
    CASE response[r] = "success" ->
            Complete(r) /\ UNCHANGED response
      [] response[r] = "oversize" ->
            response' = [response EXCEPT ![r] = "too_large"] /\ UNCHANGED idempotency
      [] OTHER ->
            Release(r) /\ UNCHANGED response

After(r) ==
    /\ pc[r] = "after"
    /\ IF r \in leaders THEN Finalize(r) ELSE UNCHANGED <<response, idempotency>>
    /\ Goto(r, "give_back")
    /\ UNCHANGED <<key, fp, leaders, replay, slot, admission, drops>>

\* The audit stage runs before the idempotency stage on the way out; its error
\* ends the chain and replaces the response.
AuditFails(r) ==
    /\ "audit" \in Faults
    /\ pc[r] = "after"
    /\ response' = [response EXCEPT ![r] = "audit_failed"]
    /\ Goto(r, "give_back")
    /\ UNCHANGED <<key, fp, leaders, replay, slot, idempotency, admission, drops>>

\* Broken variant: the slot is given back only after a 2xx.
GiveBackAfterSuccess(r) ==
    /\ pc[r] = "give_back"
    /\ IF response[r] = "success" THEN ReleaseAdmission(r) ELSE UNCHANGED admission
    /\ Goto(r, "done")
    /\ UNCHANGED <<state, idempotency, drops>>

GiveBack(r) ==
    /\ pc[r] = "give_back"
    /\ ReleaseAdmission(r)
    /\ Goto(r, "done")
    /\ UNCHANGED <<state, idempotency, drops>>

-----------------------------------------------------------------------------
Arrive(r) ==
    \/ RefuseEarly(r)
    \/ PassIdempotency(r)
    \/ \E k \in Key, f \in Fingerprint :
          BeginLeader(r, k, f) \/ BeginReplay(r, k, f) \/ BeginConflict(r, k, f)

\* What a started request does next when nothing disturbs it.
Proceed(r) ==
    \/ \E s \in Scope, limit \in Limits : Admit(r, s, limit) \/ AcquireReplyLost(r, s, limit)
    \/ AdmitUnlimited(r) \/ RefuseAdmission(r) \/ Deny(r) \/ AnswerPreflight(r) \/ Dispatch(r)
    \/ \E answer \in HandlerResponse : HandlerReturns(r, answer)
    \/ ReleaseAfterPanic(r) \/ UndoAdmission(r) \/ UndoIdempotency(r)
    \/ After(r) \/ AuditFails(r) \/ GiveBack(r)

Next ==
    \/ \E r \in Request : Arrive(r) \/ Proceed(r) \/ HandlerPanics(r) \/ Cancel(r) \/ SpawnedRelease(r)
    \/ \E k \in Key : Expire(k)
    \/ \E s \in Scope : CounterExpires(s)

Spec == Init /\ [][Next]_vars

(* The executor polls every task that can make progress and a request timeout
   ends a handler that does not return; spawned tasks run.  Arrivals, panics
   and disconnects are the environment's choice, and so is the end of a TTL:
   the memory and SQLx stores purge only when they are called again. *)
Fairness ==
    \A r \in Request : WF_vars(Proceed(r)) /\ WF_vars(SpawnedRelease(r))

FairSpec == Spec /\ Fairness

-----------------------------------------------------------------------------
(* Properties. *)

Executing(r) == pc[r] = "handler" /\ r \in leaders

\* Two handlers never run for one idempotency key at the same time, unless the
\* reservation of one of them was taken away by expiry, eviction or the
\* release of a request that no longer owned the key (middleware.rs, leader path).
ExclusiveExecution ==
    \A r, q \in Request :
        (r # q /\ Executing(r) /\ Executing(q) /\ key[r] = key[q])
            => r \in bereft \/ q \in bereft

\* A replayed response is the recorded 2xx response of an earlier request with
\* the same key and the same fingerprint, whatever expired, was released or
\* was reserved again in between (interceptors.rs, Idempotency stage).
ReplayFaithful ==
    \A r \in Request : replay[r] # None =>
        LET q == replay[r] IN
        /\ q # r
        /\ key[q] = key[r] /\ fp[q] = fp[r]
        /\ response[q] = "success"
        /\ pc[q] \in {"give_back", "done", "gone"}

\* The reservation that r made is still in the store.
Unsettled(r) == r \in leaders /\ holder[key[r]] = r /\ InProgress(key[r])

\* A leader that was answered, and none of whose calls to the store failed, has
\* settled its key: a 2xx is on record for retries, anything else has freed the key,
\* and only a response too large to cache or a failed audit leaves the reservation
\* behind (interceptors.rs after).
AnsweredMeansSettled ==
    \A r \in leaders \ (bereft \cup failed) :
        pc[r] = "done" =>
            \/ /\ response[r] = "success"
               /\ entries[key[r]] # None
               /\ entries[key[r]].fingerprint = fp[r]
               /\ entries[key[r]].response # None
            \/ response[r] # "success" /\ ~Unsettled(r)
            \/ response[r] \in {"too_large", "audit_failed"}

Slots(s) == {r \in counted : slot[r] = s}

\* As long as no slot was released twice, uncounted or by the counter's TTL,
\* nor taken by a call whose reply was lost, a counter is exactly the number of
\* slots taken and not given back.
SlotAccounting ==
    \A s \in Scope \ skewed : active[s] = Cardinality(Slots(s))

\* As long as no slot was released twice, uncounted or by the counter's TTL,
\* the requests of one tenant in flight never exceed the largest limit its
\* profile had (interceptors.rs try_acquire_tenant_concurrency).
InFlightBound ==
    \A s \in Scope \ skewed :
        \E limit \in Limits \cup {0} :
            Cardinality({r \in Slots(s) : pc[r] \notin {"done", "gone"}}) <= limit

\* A request that was answered gave its slot back, on every path through the
\* middleware (finalize_response).
AnsweredHoldsNoSlot ==
    "store" \notin Faults => \A r \in Request : pc[r] = "done" => r \notin counted

\* Redis and SQLx: once a response is recorded every replay returns it until
\* the row expires, even if a second leader of the key completes later.
FirstResponseKept ==
    [][FirstResponseWins =>
        \A k \in Key :
            (entries[k] # None /\ entries[k].response # None)
                => entries'[k] \in {entries[k], None}]_vars

\* Every request the server starts is answered or was abandoned by its client.
RequestsEnd ==
    \A r \in Request : pc[r] # "idle" ~> pc[r] \in {"done", "gone"}

\* A handler that runs does not leave its key to the TTL: whether it answers,
\* panics, times out or is dropped with its connection, the request settles the
\* key, or the release its guard spawned does, without any row expiring.  Left
\* behind are the keys of responses too large to cache, of failed audits, of
\* failed calls to the store, and of requests dropped after their handler ended,
\* when no guard is armed any more (middleware.rs, IdempotencyReleaseGuard).
HandlersSettleTheirKey ==
    \A r \in Request :
        Executing(r) ~> \/ ~Unsettled(r)
                        \/ r \in failed
                        \/ response[r] \in {"too_large", "audit_failed"}
                        \/ pc[r] = "gone" /\ response[r] # None

-----------------------------------------------------------------------------
(* The inductive invariant behind ExclusiveExecution and ReplayFaithful. *)

\* A leader knows its key; a request that has not arrived knows nothing.
LeadersKnowTheirKey ==
    /\ drops \subseteq leaders
    /\ \A r \in leaders : pc[r] # "idle" /\ key[r] \in Key /\ fp[r] \in Fingerprint
    /\ \A r \in drops : pc[r] = "gone"

\* Every row was inserted for one request, under that request's key and fingerprint.
RowHasHolder(k) ==
    /\ entries[k] = None <=> holder[k] = None
    /\ entries[k] # None =>
          /\ key[holder[k]] = k
          /\ fp[holder[k]] = entries[k].fingerprint
          /\ pc[holder[k]] # "idle"

RowsHaveHolders == \A k \in Key : RowHasHolder(k)

\* Until its handler ends, a leader that was not robbed holds its row.
LeadersHold ==
    \A r \in leaders \ bereft :
        pc[r] \in {"admit", "authorize", "handler"} => holder[key[r]] = r

\* q is a finished request that led k with fingerprint f and returned a 2xx.
Recorded(q, k, f) ==
    /\ q \in Request
    /\ key[q] = k /\ fp[q] = f
    /\ response[q] = "success"
    /\ pc[q] \in {"give_back", "done", "gone"}

RecordsAreGenuine ==
    \A k \in Key :
        (entries[k] # None /\ entries[k].response # None)
            => Recorded(entries[k].response, k, entries[k].fingerprint)

ReplaysAreGenuine ==
    \A r \in Request : replay[r] # None =>
        replay[r] # r /\ pc[r] # "idle" /\ Recorded(replay[r], key[r], fp[r])

IInv ==
    /\ TypeOK
    /\ LeadersKnowTheirKey
    /\ RowsHaveHolders
    /\ LeadersHold
    /\ RecordsAreGenuine
    /\ ReplaysAreGenuine

(* What AnsweredMeansSettled needs on top of it, for a leader that still owns its row. *)

\* A leader that is about to record a 2xx holds its row, a leader whose request
\* failed holds no 2xx, and one that has passed finalize_response has settled.
SettlesItsKey(r) ==
    /\ pc[r] \in {"unwind", "undo_slot", "undo_key"} => response[r] # "success"
    /\ pc[r] = "after" /\ response[r] = "success" => holder[key[r]] = r
    /\ pc[r] \in {"give_back", "done"} =>
          IF response[r] = "success" THEN holder[key[r]] = r /\ entries[key[r]].response # None
          ELSE \/ ~(holder[key[r]] = r /\ InProgress(key[r]))
               \/ response[r] \in {"too_large", "audit_failed"}

LeadersSettle == \A r \in leaders \ (bereft \cup failed) : SettlesItsKey(r)

(* The inductive invariant behind SlotAccounting and InFlightBound. *)

\* A counted request has passed the admission stage and knows its scope.
CountedKnowTheirScope ==
    \A r \in counted : slot[r] \in Scope /\ pc[r] \notin {"idle", "admit"}

\* No counter exceeds the largest limit there is.
CountersBounded ==
    \A s \in Scope : \E limit \in Limits \cup {0} : active[s] <= limit

SlotInv == CountedKnowTheirScope /\ CountersBounded /\ SlotAccounting

-----------------------------------------------------------------------------
(* What comments and documents say, and the code does not keep. *)

\* TECH-13 D9: the profile limits the concurrent requests of a tenant.
TenantLimit ==
    \A s \in Scope :
        \E limit \in Limits \cup {0} :
            Cardinality({r \in Request : slot[r] = s /\ pc[r] \in {"authorize", "handler"}}) <= limit

=============================================================================
