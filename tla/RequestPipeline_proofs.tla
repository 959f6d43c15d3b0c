------------------------ MODULE RequestPipeline_proofs ------------------------
(* Theorems about RequestPipeline, for every set of requests, keys,          *)
(* fingerprints and scopes, every set of limits and every set of faults.     *)
EXTENDS RequestPipeline, FiniteSetTheorems, TLAPS

Leading == {"admit", "authorize", "handler"}
Finished == {"give_back", "done", "gone"}

\* The initial states satisfy the inductive invariant.
LEMMA InvInit == Init => IInv
BY NoneAssumption DEF Init, IInv, TypeOK, Phase, LeadersKnowTheirKey, RowsHaveHolders, RowHasHolder, LeadersHold,
    RecordsAreGenuine, ReplaysAreGenuine

\* A step of one request that touches neither its idempotency state nor the
\* store keeps the invariant, if the request does not step back into the part
\* of the pipeline a leader holds its row in, nor out of the finished part.
LEMMA RowsQuietStep ==
    ASSUME IInv, TypeOK',
           NEW r \in Request, NEW phase \in Phase \ {"idle"},
           pc' = [pc EXCEPT ![r] = phase],
           UNCHANGED <<key, fp, leaders, replay, drops, rows>>,
           pc[r] # "gone",
           \A q \in Request \ {r} : response'[q] = response[q],
           phase \in Leading => pc[r] \in Leading \cup {"idle"},
           pc[r] \in Finished => phase \in Finished /\ response'[r] = response[r]
    PROVE  IInv'
<1> USE DEF IInv
<1>1. LeadersKnowTheirKey'
    BY DEF LeadersKnowTheirKey, TypeOK
<1>2. RowsHaveHolders'
    BY NoneAssumption DEF RowsHaveHolders, RowHasHolder, TypeOK, rows, Entry
<1>3. LeadersHold'
    BY DEF LeadersHold, LeadersKnowTheirKey, TypeOK, rows, Leading
<1>4. RecordsAreGenuine'
    BY DEF RecordsAreGenuine, Recorded, TypeOK, rows, Finished
<1>5. ReplaysAreGenuine'
    BY DEF ReplaysAreGenuine, Recorded, TypeOK, Finished
<1> QED BY <1>1, <1>2, <1>3, <1>4, <1>5

\* The same for a step none of whose calls to the store failed.
LEMMA QuietStep ==
    ASSUME IInv, TypeOK',
           NEW r \in Request, NEW phase \in Phase \ {"idle"},
           pc' = [pc EXCEPT ![r] = phase],
           UNCHANGED <<key, fp, leaders, replay, drops, idempotency>>,
           pc[r] # "gone",
           \A q \in Request \ {r} : response'[q] = response[q],
           phase \in Leading => pc[r] \in Leading \cup {"idle"},
           pc[r] \in Finished => phase \in Finished /\ response'[r] = response[r]
    PROVE  IInv'
BY RowsQuietStep DEF idempotency, rows

\* Removing a row keeps the invariant when the request that removes it, if it
\* is the row's holder, has left the part of the pipeline it holds the row in.
LEMMA RemoveStep ==
    ASSUME IInv, NEW k \in Key, entries[k] # None, NEW actor \in Request \cup {None},
           RemoveEntry(k, actor),
           actor \in Request => pc[actor] \notin Leading \cup {"idle"},
           drops' \subseteq drops,
           \/ UNCHANGED pc
           \/ /\ actor \in Request
              /\ pc[actor] \in {"unwind", "undo_key", "after"}
              /\ pc' \in {[pc EXCEPT ![actor] = "after"], [pc EXCEPT ![actor] = "give_back"]},
           UNCHANGED <<state, admission>>
    PROVE  IInv'
<1> USE DEF IInv, RemoveEntry, state
<1>1. TypeOK'
    BY NoneAssumption DEF TypeOK, RowsHaveHolders, RowHasHolder, admission, Phase
<1>2. LeadersKnowTheirKey'
    BY DEF LeadersKnowTheirKey, TypeOK
<1>3. RowsHaveHolders'
    BY NoneAssumption DEF RowsHaveHolders, RowHasHolder, TypeOK, Entry
<1>4. LeadersHold'
    BY NoneAssumption DEF LeadersHold, LeadersKnowTheirKey, RowsHaveHolders, RowHasHolder, TypeOK, Leading
<1>5. RecordsAreGenuine'
    BY DEF RecordsAreGenuine, Recorded, TypeOK
<1>6. ReplaysAreGenuine'
    BY DEF ReplaysAreGenuine, Recorded, TypeOK
<1> QED BY <1>1, <1>2, <1>3, <1>4, <1>5, <1>6

\* Giving a slot back, or failing to, keeps the counters in their types.
LEMMA ReleaseAdmissionType ==
    ASSUME TypeOK, NEW r \in Request, ReleaseAdmission(r)
    PROVE  active' \in [Scope -> Nat] /\ counted' \subseteq Request /\ skewed' \subseteq Scope
BY DEF TypeOK, ReleaseAdmission, Lowered, admission

\* The release of a leader that is past its handler, and that moves on to
\* `phase`, keeps the invariant.
LEMMA ReleaseStep ==
    ASSUME IInv, NEW r \in leaders, Release(r),
           pc[r] \in {"unwind", "undo_key", "after"},
           NEW phase \in {"after", "give_back"}, Goto(r, phase),
           UNCHANGED <<state, admission, drops>>
    PROVE  IInv'
<1>1. r \in Request /\ key[r] \in Key
    BY DEF IInv, TypeOK, LeadersKnowTheirKey
<1>2. CASE Releasable(r) /\ RemoveEntry(key[r], r)
    BY <1>1, <1>2, RemoveStep DEF Goto, Releasable, InProgress, Leading
<1>3. CASE UNCHANGED rows /\ failed' \in {failed, failed \cup {r}}
    <2>1. TypeOK'
        BY <1>1, <1>3 DEF IInv, TypeOK, Goto, Phase, rows, state, admission
    <2> QED
        BY <1>1, <1>3, <2>1, RowsQuietStep DEF Goto, Phase, Leading, Finished, state
<1> QED BY <1>2, <1>3 DEF Release, CallFails, idempotency, rows

\* A failing stage before the handler keeps the invariant.
LEMMA FailStep ==
    ASSUME IInv, NEW r \in Request, pc[r] \in {"idle", "admit", "authorize"}, FailBefore(r),
           UNCHANGED <<key, fp, leaders, replay, slot, idempotency, admission, drops>>
    PROVE  IInv'
<1>1. TypeOK'
    BY DEF IInv, TypeOK, FailBefore, Goto, Phase, Answer, HandlerResponse, idempotency, admission
<1> QED
    BY <1>1, QuietStep DEF IInv, TypeOK, FailBefore, Goto, Phase, Leading, Finished

\* The arrival of a request keeps the invariant: a row is inserted only for a
\* vacant key, and only a genuine record is replayed.
LEMMA ArriveStep ==
    ASSUME IInv, NEW r \in Request, Arrive(r)
    PROVE  IInv'
<1>1. CASE RefuseEarly(r)
    BY <1>1, FailStep DEF RefuseEarly
<1>2. CASE PassIdempotency(r)
    <2>1. TypeOK'
        BY <1>2 DEF IInv, TypeOK, PassIdempotency, Goto, Phase, state, idempotency, admission
    <2> QED
        BY <1>2, <2>1, QuietStep DEF PassIdempotency, Goto, Phase, Leading, Finished, state
<1>3. ASSUME NEW k \in Key, NEW f \in Fingerprint, BeginLeader(r, k, f)
      PROVE  IInv'
    <2> USE <1>3 DEF IInv, BeginLeader, Goto, FailBefore
    <2>0. r \notin leaders /\ holder[k] = None
        BY DEF LeadersKnowTheirKey, RowsHaveHolders, RowHasHolder
    <2>1. TypeOK'
        BY DEF TypeOK, Phase, Entry, Answer, HandlerResponse, admission
    <2>2. LeadersKnowTheirKey'
        BY DEF LeadersKnowTheirKey, TypeOK
    <2>3. RowsHaveHolders'
        <3> SUFFICES ASSUME NEW j \in Key PROVE RowHasHolder(j)'
            BY DEF RowsHaveHolders
        <3>1. CASE j = k
            BY <3>1, NoneAssumption, VacantAssumption DEF RowHasHolder, TypeOK, Entry
        <3>2. CASE j # k
            BY <3>2, NoneAssumption DEF RowsHaveHolders, RowHasHolder, TypeOK, Entry
        <3> QED BY <3>1, <3>2
    <2>4. LeadersHold'
        BY <2>0, NoneAssumption DEF LeadersHold, LeadersKnowTheirKey, TypeOK
    <2>5. RecordsAreGenuine'
        BY NoneAssumption DEF RecordsAreGenuine, Recorded, TypeOK, Entry
    <2>6. ReplaysAreGenuine'
        BY DEF ReplaysAreGenuine, Recorded, TypeOK
    <2> QED BY <2>1, <2>2, <2>3, <2>4, <2>5, <2>6
<1>4. ASSUME NEW k \in Key, NEW f \in Fingerprint, BeginReplay(r, k, f)
      PROVE  IInv'
    <2> USE <1>4 DEF IInv, BeginReplay, Goto, idempotency, admission
    <2>0. Recorded(entries[k].response, k, f) /\ r \notin leaders
        BY DEF RecordsAreGenuine, LeadersKnowTheirKey
    <2>1. TypeOK'
        BY <2>0 DEF TypeOK, Phase, Recorded
    <2>2. LeadersKnowTheirKey'
        BY <2>0 DEF LeadersKnowTheirKey, TypeOK
    <2>3. RowsHaveHolders'
        BY NoneAssumption DEF RowsHaveHolders, RowHasHolder, TypeOK
    <2>4. LeadersHold'
        BY <2>0 DEF LeadersHold, TypeOK
    <2>5. RecordsAreGenuine'
        BY DEF RecordsAreGenuine, Recorded, TypeOK
    <2>6. ReplaysAreGenuine'
        BY <2>0 DEF ReplaysAreGenuine, Recorded, TypeOK
    <2> QED BY <2>1, <2>2, <2>3, <2>4, <2>5, <2>6
<1>5. ASSUME NEW k \in Key, NEW f \in Fingerprint, BeginConflict(r, k, f)
      PROVE  IInv'
    BY <1>5, FailStep DEF BeginConflict
<1> QED BY <1>1, <1>2, <1>3, <1>4, <1>5 DEF Arrive

\* A started request that proceeds keeps the invariant.
LEMMA ProceedStep ==
    ASSUME IInv, NEW r \in Request, Proceed(r)
    PROVE  IInv'
<1>1. ASSUME NEW s \in Scope, NEW limit \in Limits, Admit(r, s, limit) PROVE IInv'
    <2>1. TypeOK'
        BY <1>1, LimitsAssumption
        DEF IInv, TypeOK, Admit, Acquire, Goto, Phase, idempotency, admission
    <2> QED BY <1>1, <2>1, QuietStep DEF Admit, Goto, Phase, Leading, Finished
<1>10. ASSUME NEW s \in Scope, NEW limit \in Limits, AcquireReplyLost(r, s, limit) PROVE IInv'
    <2> USE <1>10 DEF AcquireReplyLost, FailBefore, Goto
    <2>1. TypeOK'
        BY DEF IInv, TypeOK, Phase, Answer, HandlerResponse, idempotency
    <2> QED BY <2>1, QuietStep DEF IInv, TypeOK, Phase, Leading, Finished
<1>2. CASE AdmitUnlimited(r)
    <2>1. TypeOK'
        BY <1>2 DEF IInv, TypeOK, AdmitUnlimited, Goto, Phase, state, idempotency, admission
    <2> QED BY <1>2, <2>1, QuietStep DEF AdmitUnlimited, Goto, Phase, Leading, Finished, state
<1>3. CASE RefuseAdmission(r) \/ Deny(r)
    BY <1>3, FailStep DEF RefuseAdmission, Deny
<1>4. CASE AnswerPreflight(r) \/ Dispatch(r)
    <2> USE <1>4 DEF AnswerPreflight, Dispatch, Goto
    <2>1. TypeOK'
        BY DEF IInv, TypeOK, Phase, Answer, HandlerResponse, idempotency, admission
    <2> QED BY <2>1, QuietStep DEF IInv, TypeOK, Phase, Leading, Finished
<1>5. ASSUME NEW answer \in HandlerResponse, HandlerReturns(r, answer) PROVE IInv'
    <2>1. TypeOK'
        BY <1>5 DEF IInv, TypeOK, HandlerReturns, Goto, Phase, Answer, idempotency, admission
    <2> QED BY <1>5, <2>1, QuietStep DEF IInv, TypeOK, HandlerReturns, Goto, Phase, Leading, Finished
<1>6. CASE ReleaseAfterPanic(r) \/ UndoIdempotency(r)
    <2>1. CASE r \in leaders
        BY <1>6, <2>1, ReleaseStep DEF ReleaseAfterPanic, UndoIdempotency
    <2>2. CASE r \notin leaders
        <3> USE <1>6, <2>2 DEF ReleaseAfterPanic, UndoIdempotency, Goto, state
        <3>1. TypeOK'
            BY DEF IInv, TypeOK, Phase, idempotency, admission
        <3> QED BY <3>1, QuietStep DEF Phase, Leading, Finished
    <2> QED BY <2>1, <2>2
<1>7. CASE UndoAdmission(r) \/ GiveBack(r)
    <2> USE <1>7 DEF UndoAdmission, GiveBack, Goto, state
    <2>1. TypeOK'
        BY ReleaseAdmissionType DEF IInv, TypeOK, Phase, idempotency
    <2> QED BY <2>1, QuietStep DEF Phase, Leading, Finished
<1>8. CASE AuditFails(r)
    <2> USE <1>8 DEF AuditFails, Goto
    <2>1. TypeOK'
        BY DEF IInv, TypeOK, Phase, Answer, idempotency, admission
    <2> QED BY <2>1, QuietStep DEF IInv, TypeOK, Phase, Leading, Finished
<1>9. CASE After(r)
    <2> USE <1>9 DEF After, Goto
    <2>1. CASE UNCHANGED idempotency /\ response' \in {response, [response EXCEPT ![r] = "too_large"]}
        <3>1. TypeOK'
            BY <2>1 DEF IInv, TypeOK, Phase, Answer, idempotency, admission
        <3> QED BY <2>1, <3>1, QuietStep DEF IInv, TypeOK, Phase, Leading, Finished
    <2>2. CASE r \in leaders /\ Release(r) /\ UNCHANGED response
        BY <2>2, ReleaseStep DEF state
    <2>4. CASE r \in leaders /\ CallFails(r) /\ UNCHANGED response
        <3>1. TypeOK'
            BY <2>4 DEF CallFails, IInv, TypeOK, Phase, rows, admission
        <3> QED BY <2>4, <3>1, RowsQuietStep DEF CallFails, IInv, TypeOK, Phase, Leading, Finished
    <2>3. ASSUME r \in leaders, response[r] = "success", Completable(r),
                 entries' = [entries EXCEPT ![key[r]] = [fingerprint |-> fp[r], response |-> r]],
                 UNCHANGED <<holder, bereft, failed, response>>
          PROVE  IInv'
        <3> USE <2>3 DEF IInv, Completable
        <3>0. key[r] \in Key /\ entries[key[r]] \in Entry
            BY DEF LeadersKnowTheirKey, TypeOK
        <3>2. TypeOK'
            BY <3>0 DEF TypeOK, Phase, Entry, admission, LeadersKnowTheirKey
        <3>3. LeadersKnowTheirKey'
            BY DEF LeadersKnowTheirKey, TypeOK
        <3>4. RowsHaveHolders'
            BY <3>0, NoneAssumption, VacantAssumption DEF RowsHaveHolders, RowHasHolder, TypeOK, Entry
        <3>5. LeadersHold'
            BY DEF LeadersHold, TypeOK
        <3>6. RecordsAreGenuine'
            BY <3>0, NoneAssumption DEF RecordsAreGenuine, Recorded, TypeOK
        <3>7. ReplaysAreGenuine'
            BY DEF ReplaysAreGenuine, Recorded, TypeOK
        <3> QED BY <3>2, <3>3, <3>4, <3>5, <3>6, <3>7
    <2> QED
        BY <2>1, <2>2, <2>3, <2>4 DEF Finalize, Complete, idempotency
<1> QED BY <1>1, <1>10, <1>2, <1>3, <1>4, <1>5, <1>6, <1>7, <1>8, <1>9 DEF Proceed

\* The invariant is inductive.
LEMMA InvStep == IInv /\ [Next]_vars => IInv'
<1> SUFFICES ASSUME IInv, [Next]_vars PROVE IInv'
    OBVIOUS
<1>1. ASSUME NEW r \in Request, Arrive(r) \/ Proceed(r) PROVE IInv'
    BY <1>1, ArriveStep, ProceedStep
<1>2. ASSUME NEW r \in Request, HandlerPanics(r) PROVE IInv'
    <2> USE <1>2 DEF HandlerPanics, Goto
    <2>1. TypeOK'
        BY DEF IInv, TypeOK, Phase, Answer, HandlerResponse, idempotency, admission
    <2> QED BY <2>1, QuietStep DEF IInv, TypeOK, Phase, Leading, Finished
<1>3. ASSUME NEW r \in Request, Cancel(r) PROVE IInv'
    <2> USE <1>3 DEF Cancel, Goto, IInv, state, idempotency
    <2>1. TypeOK'
        BY DEF TypeOK, Phase, admission
    <2>2. LeadersKnowTheirKey'
        BY DEF LeadersKnowTheirKey, TypeOK
    <2>3. RowsHaveHolders'
        BY NoneAssumption DEF RowsHaveHolders, RowHasHolder, TypeOK
    <2>4. LeadersHold'
        BY DEF LeadersHold, TypeOK
    <2>5. RecordsAreGenuine'
        BY DEF RecordsAreGenuine, Recorded, TypeOK
    <2>6. ReplaysAreGenuine'
        BY DEF ReplaysAreGenuine, Recorded, TypeOK
    <2> QED BY <2>1, <2>2, <2>3, <2>4, <2>5, <2>6
<1>4. ASSUME NEW r \in Request, SpawnedRelease(r) PROVE IInv'
    <2>1. r \in leaders /\ pc[r] = "gone" /\ key[r] \in Key
        BY <1>4 DEF IInv, LeadersKnowTheirKey, SpawnedRelease
    <2>2. CASE Releasable(r) /\ RemoveEntry(key[r], r)
        BY <1>4, <2>1, <2>2, RemoveStep DEF SpawnedRelease, Releasable, InProgress, Leading
    <2>3. CASE UNCHANGED rows /\ failed' \in {failed, failed \cup {r}}
        BY <1>4, <2>3 DEF SpawnedRelease, IInv, TypeOK, LeadersKnowTheirKey, RowsHaveHolders,
            RowHasHolder, LeadersHold, RecordsAreGenuine, ReplaysAreGenuine, Recorded, state,
            rows, admission
    <2> QED BY <1>4, <2>2, <2>3 DEF SpawnedRelease, Release, CallFails, idempotency, rows
<1>5. ASSUME NEW k \in Key, Expire(k) PROVE IInv'
    BY <1>5, NoneAssumption, RemoveStep DEF Expire
<1>6. ASSUME NEW s \in Scope, CounterExpires(s) PROVE IInv'
    BY <1>6 DEF CounterExpires, IInv, TypeOK, LeadersKnowTheirKey, RowsHaveHolders, RowHasHolder,
        LeadersHold, RecordsAreGenuine, ReplaysAreGenuine, Recorded, state, idempotency
<1>7. CASE UNCHANGED vars
    BY <1>7 DEF vars, IInv, TypeOK, LeadersKnowTheirKey, RowsHaveHolders, RowHasHolder,
        LeadersHold, RecordsAreGenuine, ReplaysAreGenuine, Recorded, state, idempotency, admission
<1> QED BY <1>1, <1>2, <1>3, <1>4, <1>5, <1>6, <1>7 DEF Next

\* The inductive invariant holds in every reachable state of the pipeline.
THEOREM Invariance == Spec => []IInv
BY InvInit, InvStep, PTL DEF Spec

\* The variables of the middleware, the store and the counters keep their
\* types through every interleaving and fault.
THEOREM TypeCorrect == Spec => []TypeOK
<1>1. IInv => TypeOK
    BY DEF IInv
<1> QED BY <1>1, Invariance, PTL

\* Two handlers run for one idempotency key at the same time only if the
\* reservation of one of them was taken from it (middleware.rs, leader path).
THEOREM Exclusion == Spec => []ExclusiveExecution
<1>1. IInv => ExclusiveExecution
    BY DEF IInv, ExclusiveExecution, Executing, LeadersHold
<1> QED BY <1>1, Invariance, PTL

\* A replayed response is the recorded 2xx of a finished request with the same
\* key and fingerprint (interceptors.rs, Idempotency stage).
THEOREM ReplayIsFaithful == Spec => []ReplayFaithful
<1>1. IInv => ReplayFaithful
    BY DEF IInv, ReplayFaithful, ReplaysAreGenuine, Recorded
<1> QED BY <1>1, Invariance, PTL

\* A recorded response is never replaced while its row lives, when the store
\* keeps the first one (redis lib.rs and sqlx idempotency.rs, complete).
THEOREM RecordIsKept == Spec => FirstResponseKept
<1> DEFINE Kept == FirstResponseWins =>
        \A k \in Key :
            (entries[k] # None /\ entries[k].response # None)
                => entries'[k] \in {entries[k], None}
<1>1. ASSUME IInv, [Next]_vars PROVE [Kept]_vars
    <2> SUFFICES ASSUME Next PROVE Kept
        BY <1>1
    <2> USE DEF IInv, TypeOK
    <2>1. CASE UNCHANGED entries
        BY <2>1
    <2>2. ASSUME NEW k \in Key, entries' = [entries EXCEPT ![k] = None] PROVE Kept
        BY <1>1, <2>2
    <2>3. ASSUME NEW r \in leaders, Release(r) PROVE Kept
        <3>1. key[r] \in Key
            BY <1>1 DEF LeadersKnowTheirKey
        <3> QED BY <2>1, <2>2, <2>3, <3>1 DEF Release, RemoveEntry, CallFails, rows, idempotency
    <2>4. ASSUME NEW r \in leaders, Complete(r) PROVE Kept
        <3>1. CASE Completable(r) /\ entries' = [entries EXCEPT ![key[r]] = [fingerprint |-> fp[r], response |-> r]]
            BY <1>1, <3>1 DEF Completable
        <3> QED BY <2>1, <2>4, <3>1 DEF Complete, CallFails, rows, idempotency
    <2>5. ASSUME NEW r \in Request, Arrive(r) PROVE Kept
        <3>1. ASSUME NEW k \in Key, NEW f \in Fingerprint, BeginLeader(r, k, f) PROVE Kept
            BY <1>1, <3>1 DEF BeginLeader
        <3> QED BY <2>1, <2>5, <3>1
            DEF Arrive, RefuseEarly, PassIdempotency, BeginReplay, BeginConflict, idempotency
    <2>6. ASSUME NEW r \in Request, Proceed(r) PROVE Kept
        <3>1. CASE After(r)
            BY <2>1, <2>3, <2>4, <3>1 DEF After, Finalize, idempotency
        <3>2. CASE ReleaseAfterPanic(r) \/ UndoIdempotency(r)
            BY <2>1, <2>3, <3>2 DEF ReleaseAfterPanic, UndoIdempotency, idempotency
        <3> QED BY <2>1, <2>6, <3>1, <3>2
            DEF Proceed, Admit, AcquireReplyLost, AdmitUnlimited, RefuseAdmission, Deny, AnswerPreflight, Dispatch,
                HandlerReturns, UndoAdmission, AuditFails, GiveBack, idempotency
    <2>7. ASSUME NEW r \in Request, HandlerPanics(r) \/ Cancel(r) \/ SpawnedRelease(r) PROVE Kept
        <3>1. CASE SpawnedRelease(r)
            BY <1>1, <2>3, <3>1 DEF SpawnedRelease, LeadersKnowTheirKey
        <3> QED BY <2>1, <2>7, <3>1 DEF HandlerPanics, Cancel, idempotency
    <2>8. ASSUME NEW k \in Key, Expire(k) PROVE Kept
        BY <2>2, <2>8 DEF Expire, RemoveEntry
    <2>9. ASSUME NEW s \in Scope, CounterExpires(s) PROVE Kept
        BY <2>1, <2>9 DEF CounterExpires, idempotency
    <2> QED BY <2>5, <2>6, <2>7, <2>8, <2>9 DEF Next
<1> QED BY <1>1, Invariance, PTL DEF Spec, FirstResponseKept

-----------------------------------------------------------------------------
(* The admission counters. *)

\* Slots are finite sets.
LEMMA SlotsFinite ==
    ASSUME TypeOK, NEW s \in Scope
    PROVE  IsFiniteSet(Slots(s)) /\ Cardinality(Slots(s)) \in Nat
<1>1. Slots(s) \subseteq Request
    BY DEF TypeOK, Slots
<1> QED BY <1>1, RequestAssumption, FS_Subset, FS_CardinalityType

\* Giving a slot back keeps the account of every scope that is still exact.
LEMMA ReleaseAdmissionStep ==
    ASSUME TypeOK, SlotInv, NEW r \in Request, ReleaseAdmission(r),
           NEW phase \in Phase \ {"idle", "admit"}, Goto(r, phase), UNCHANGED slot
    PROVE  SlotInv'
<1> USE DEF SlotInv
<1>1. CountedKnowTheirScope'
    BY DEF CountedKnowTheirScope, ReleaseAdmission, Goto, TypeOK, admission
<1>2. CountersBounded'
    <2> SUFFICES ASSUME NEW s \in Scope PROVE \E limit \in Limits \cup {0} : active'[s] <= limit
        BY DEF CountersBounded
    <2>1. active'[s] <= active[s] /\ active'[s] \in Nat /\ active[s] \in Nat
        BY DEF ReleaseAdmission, Lowered, TypeOK, admission
    <2>2. PICK limit \in Limits \cup {0} : active[s] <= limit
        BY DEF CountersBounded
    <2>3. active'[s] <= limit
        BY <2>1, <2>2, LimitsAssumption
    <2> QED BY <2>3
<1>3. SlotAccounting'
    <2> SUFFICES ASSUME NEW s \in Scope, s \notin skewed'
                 PROVE  active'[s] = Cardinality(Slots(s)')
        BY DEF SlotAccounting
    <2>1. CASE slot[r] = s /\ r \in counted /\ counted' = counted \ {r}
                 /\ active' = [active EXCEPT ![slot[r]] = Lowered(@)] /\ s \notin skewed
        <3>1. Slots(s)' = Slots(s) \ {r} /\ r \in Slots(s)
            BY <2>1 DEF Slots
        <3>2. Cardinality(Slots(s)') = Cardinality(Slots(s)) - 1
            BY <3>1, SlotsFinite, FS_RemoveElement
        <3>3. active[s] = Cardinality(Slots(s)) /\ active[s] \in Nat
            BY <2>1 DEF SlotAccounting, TypeOK
        <3>4. Cardinality(Slots(s)) # 0
            BY <3>1, SlotsFinite, FS_EmptySet
        <3>5. active'[s] = active[s] - 1
            BY <2>1, <3>3, <3>4 DEF Lowered, TypeOK
        <3> QED BY <3>2, <3>3, <3>5
    <2>2. CASE Slots(s)' = Slots(s) /\ active'[s] = active[s] /\ s \notin skewed
        BY <2>2 DEF SlotAccounting
    <2>3. CASE slot[r] = s /\ r \notin counted /\ counted' = counted
        BY <2>2, <2>3 DEF ReleaseAdmission, Lowered, TypeOK, admission, Slots
    <2>4. CASE slot[r] # s
        <3>1. Slots(s)' = Slots(s)
            BY <2>4 DEF ReleaseAdmission, Slots, admission
        <3>2. active'[s] = active[s] /\ s \notin skewed
            BY <2>4 DEF ReleaseAdmission, TypeOK, admission
        <3> QED BY <2>2, <3>1, <3>2
    <2>5. CASE UNCHANGED admission
        BY <2>2, <2>5 DEF admission, Slots
    <2> QED BY <2>1, <2>3, <2>4, <2>5 DEF ReleaseAdmission
<1> QED BY <1>1, <1>2, <1>3

\* A step that leaves the counters, the slots and every request's being past
\* admission alone keeps the accounts.
LEMMA SlotQuietStep ==
    ASSUME SlotInv, UNCHANGED <<admission, slot>>,
           \A r \in counted : pc'[r] = pc[r] \/ pc'[r] \notin {"idle", "admit"}
    PROVE  SlotInv'
BY DEF SlotInv, CountedKnowTheirScope, CountersBounded, SlotAccounting, Slots, admission

\* Taking a slot keeps the accounts and the bound.
LEMMA AdmitStep ==
    ASSUME TypeOK, SlotInv, NEW r \in Request, NEW s \in Scope, NEW limit \in Limits,
           Admit(r, s, limit)
    PROVE  SlotInv'
<1> USE DEF SlotInv, Admit, Acquire, Goto
<1>0. r \notin counted
    BY DEF CountedKnowTheirScope
<1>1. CountedKnowTheirScope'
    BY <1>0 DEF CountedKnowTheirScope, TypeOK, admission
<1>2. CountersBounded'
    <2> SUFFICES ASSUME NEW t \in Scope PROVE \E l \in Limits \cup {0} : active'[t] <= l
        BY DEF CountersBounded
    <2>1. CASE active'[t] = active[t]
        BY <2>1 DEF CountersBounded
    <2>2. CASE t = s /\ active[s] < limit /\ active'[s] = active[s] + 1
        BY <2>2, LimitsAssumption DEF TypeOK
    <2> QED BY <2>1, <2>2 DEF TypeOK, admission
<1>3. SlotAccounting'
    <2> SUFFICES ASSUME NEW t \in Scope \ skewed, UNCHANGED skewed
                 PROVE  active'[t] = Cardinality(Slots(t)')
        BY DEF SlotAccounting, admission
    <2>1. CASE t = s /\ counted' = counted \cup {r}
        <3>1. Slots(t)' = Slots(t) \cup {r} /\ r \notin Slots(t)
            BY <1>0, <2>1 DEF Slots, TypeOK
        <3>2. Cardinality(Slots(t)') = Cardinality(Slots(t)) + 1
            BY <3>1, SlotsFinite, FS_AddElement
        <3>3. active'[t] = active[t] + 1
            BY <1>0, <2>1 DEF TypeOK, admission
        <3> QED BY <3>2, <3>3 DEF SlotAccounting
    <2>2. CASE t # s \/ counted' = counted
        <3>1. Slots(t)' = Slots(t)
            BY <1>0, <2>2 DEF Slots, TypeOK, admission
        <3>2. active'[t] = active[t]
            BY <1>0, <2>2 DEF TypeOK, admission
        <3> QED BY <3>1, <3>2 DEF SlotAccounting
    <2> QED BY <2>1, <2>2 DEF admission
<1> QED BY <1>1, <1>2, <1>3

\* The accounts are kept by every step.
LEMMA SlotStep == TypeOK /\ SlotInv /\ [Next]_vars => SlotInv'
<1> SUFFICES ASSUME TypeOK, SlotInv, [Next]_vars PROVE SlotInv'
    OBVIOUS
<1>1. ASSUME NEW r \in Request, NEW s \in Scope, NEW limit \in Limits, Admit(r, s, limit)
      PROVE  SlotInv'
    BY <1>1, AdmitStep
<1>10. ASSUME NEW r \in Request, NEW s \in Scope, NEW limit \in Limits, AcquireReplyLost(r, s, limit)
       PROVE  SlotInv'
    <2> USE <1>10 DEF AcquireReplyLost, FailBefore, Goto, SlotInv
    <2>1. CountedKnowTheirScope'
        BY DEF CountedKnowTheirScope, TypeOK
    <2>2. CountersBounded'
        <3> SUFFICES ASSUME NEW t \in Scope PROVE \E l \in Limits \cup {0} : active'[t] <= l
            BY DEF CountersBounded
        <3>1. CASE t = s
            BY <3>1, LimitsAssumption DEF TypeOK
        <3>2. CASE t # s
            BY <3>2 DEF CountersBounded, TypeOK
        <3> QED BY <3>1, <3>2
    <2>3. SlotAccounting'
        BY DEF SlotAccounting, Slots, TypeOK
    <2> QED BY <2>1, <2>2, <2>3
<1>2. ASSUME NEW r \in Request, UndoAdmission(r) \/ GiveBack(r) PROVE SlotInv'
    BY <1>2, ReleaseAdmissionStep DEF UndoAdmission, GiveBack, Phase, state
<1>3. ASSUME NEW s \in Scope, CounterExpires(s) PROVE SlotInv'
    <2> USE <1>3 DEF CounterExpires, SlotInv, state
    <2>1. CountedKnowTheirScope'
        BY DEF CountedKnowTheirScope
    <2>2. CountersBounded'
        <3> SUFFICES ASSUME NEW t \in Scope PROVE \E limit \in Limits \cup {0} : active'[t] <= limit
            BY DEF CountersBounded
        <3>1. CASE t = s
            BY <3>1, 0 <= 0 DEF TypeOK
        <3>2. CASE t # s
            BY <3>2 DEF CountersBounded, TypeOK
        <3> QED BY <3>1, <3>2
    <2>3. SlotAccounting'
        BY DEF SlotAccounting, Slots, TypeOK
    <2> QED BY <2>1, <2>2, <2>3
<1>4. ASSUME NEW r \in Request, Arrive(r) PROVE SlotInv'
    <2>1. r \notin counted /\ UNCHANGED <<admission, slot>>
          /\ \A q \in Request \ {r} : pc'[q] = pc[q]
        BY <1>4 DEF Arrive, RefuseEarly, PassIdempotency, BeginLeader, BeginReplay, BeginConflict,
            FailBefore, Goto, SlotInv, CountedKnowTheirScope, TypeOK, state
    <2> QED BY <2>1, SlotQuietStep DEF TypeOK
<1>5. ASSUME NEW r \in Request, NEW phase \in Phase \ {"idle", "admit"}, Goto(r, phase),
             UNCHANGED <<admission, slot>>
      PROVE  SlotInv'
    BY <1>5, SlotQuietStep DEF TypeOK, Goto
<1>6. ASSUME NEW r \in Request,
             \/ AdmitUnlimited(r) \/ RefuseAdmission(r) \/ Deny(r) \/ AnswerPreflight(r) \/ Dispatch(r)
             \/ (\E answer \in HandlerResponse : HandlerReturns(r, answer))
             \/ ReleaseAfterPanic(r) \/ UndoIdempotency(r) \/ After(r) \/ AuditFails(r)
             \/ HandlerPanics(r) \/ Cancel(r)
      PROVE  SlotInv'
    BY <1>5, <1>6 DEF AdmitUnlimited, RefuseAdmission, Deny, AnswerPreflight, Dispatch,
        HandlerReturns, ReleaseAfterPanic, UndoIdempotency, After, AuditFails, HandlerPanics, Cancel,
        FailBefore, Phase, state
<1>7. ASSUME NEW r \in Request, SpawnedRelease(r) PROVE SlotInv'
    BY <1>7, SlotQuietStep DEF SpawnedRelease, state
<1>8. ASSUME NEW k \in Key, Expire(k) PROVE SlotInv'
    BY <1>8, SlotQuietStep DEF Expire, state
<1>9. CASE UNCHANGED vars
    BY <1>9, SlotQuietStep DEF vars, state
<1> QED BY <1>1, <1>2, <1>3, <1>4, <1>6, <1>7, <1>8, <1>9, <1>10 DEF Next, Proceed

\* The accounts hold in every reachable state.
THEOREM SlotInvariance == Spec => []SlotInv
<1>1. Init => SlotInv
    <2> SUFFICES ASSUME Init PROVE SlotInv
        OBVIOUS
    <2>1. \A s \in Scope : Cardinality(Slots(s)) = 0
        <3>1. \A s \in Scope : Slots(s) = {}
            BY DEF Init, Slots
        <3> QED BY <3>1, FS_EmptySet
    <2> QED BY <2>1 DEF Init, SlotInv, CountedKnowTheirScope, CountersBounded, SlotAccounting
<1> QED BY <1>1, SlotStep, TypeCorrect, PTL DEF Spec

\* A counter is the number of slots taken and not given back, until a slot is
\* released twice, uncounted, or by the counter's own TTL.
THEOREM CountersCountSlots == Spec => []SlotAccounting
<1>1. SlotInv => SlotAccounting
    BY DEF SlotInv
<1> QED BY <1>1, SlotInvariance, PTL

\* Up to the same events, the requests of a tenant in flight stay within the
\* largest limit of its profile (interceptors.rs try_acquire_tenant_concurrency).
THEOREM InFlightIsBounded == Spec => []InFlightBound
<1>1. ASSUME TypeOK, SlotInv PROVE InFlightBound
    <2> SUFFICES ASSUME NEW s \in Scope \ skewed
                 PROVE  \E limit \in Limits \cup {0} :
                            Cardinality({r \in Slots(s) : pc[r] \notin {"done", "gone"}}) <= limit
        BY DEF InFlightBound
    <2> DEFINE F == {r \in Slots(s) : pc[r] \notin {"done", "gone"}}
    <2>1. IsFiniteSet(F) /\ Cardinality(F) <= Cardinality(Slots(s))
        BY <1>1, SlotsFinite, FS_Subset, F \subseteq Slots(s)
    <2>2. PICK limit \in Limits \cup {0} : active[s] <= limit
        BY <1>1 DEF SlotInv, CountersBounded
    <2>3. Cardinality(F) \in Nat /\ Cardinality(Slots(s)) = active[s] /\ active[s] \in Nat
        BY <1>1, <2>1, FS_CardinalityType DEF SlotInv, SlotAccounting, TypeOK
    <2>4. Cardinality(F) <= limit
        BY <2>1, <2>2, <2>3, LimitsAssumption
    <2> QED BY <2>4
<1> QED BY <1>1, SlotInvariance, TypeCorrect, PTL

-----------------------------------------------------------------------------
(* What a request that was answered leaves behind. *)

\* A request keeps its slot uncounted once it is answered: only the admission
\* stage counts one, and the last step of the middleware gives it back.
LEMMA AnsweredStep == TypeOK /\ SlotInv /\ AnsweredHoldsNoSlot /\ [Next]_vars => AnsweredHoldsNoSlot'
<1> SUFFICES ASSUME TypeOK, SlotInv, AnsweredHoldsNoSlot, [Next]_vars, "store" \notin Faults,
                    NEW q \in Request, pc'[q] = "done", q \in counted'
             PROVE  FALSE
    BY DEF AnsweredHoldsNoSlot
<1> USE DEF TypeOK
<1>1. ASSUME NEW r \in Request, NEW s \in Scope, NEW limit \in Limits, Admit(r, s, limit) PROVE FALSE
    BY <1>1 DEF Admit, Acquire, Goto, admission, AnsweredHoldsNoSlot
<1>2. ASSUME NEW r \in Request, GiveBack(r) \/ UndoAdmission(r) PROVE FALSE
    <2>1. slot[r] = None => r \notin counted
        BY NoneAssumption DEF SlotInv, CountedKnowTheirScope
    <2>2. r \notin counted' /\ counted' \subseteq counted
        BY <1>2, <2>1 DEF GiveBack, UndoAdmission, ReleaseAdmission, admission
    <2> QED BY <1>2, <2>2 DEF GiveBack, UndoAdmission, Goto, AnsweredHoldsNoSlot
<1>3. CASE /\ counted' \subseteq counted
           /\ UNCHANGED pc \/ \E r \in Request, phase \in Phase \ {"done"} : Goto(r, phase)
    BY <1>3 DEF Goto, AnsweredHoldsNoSlot
<1>4. ASSUME NEW r \in Request, Arrive(r) PROVE FALSE
    BY <1>3, <1>4 DEF Arrive, RefuseEarly, PassIdempotency, BeginLeader, BeginReplay, BeginConflict,
        FailBefore, Phase, admission
<1>5. ASSUME NEW r \in Request, Proceed(r) PROVE FALSE
    BY <1>1, <1>2, <1>3, <1>5 DEF Proceed, AcquireReplyLost, AdmitUnlimited, RefuseAdmission, Deny,
        AnswerPreflight, Dispatch, HandlerReturns, ReleaseAfterPanic, UndoIdempotency, After,
        AuditFails, FailBefore, Phase, admission
<1>6. ASSUME NEW r \in Request, HandlerPanics(r) \/ Cancel(r) \/ SpawnedRelease(r) PROVE FALSE
    BY <1>3, <1>6 DEF HandlerPanics, Cancel, SpawnedRelease, Phase, admission
<1>7. CASE \/ \E k \in Key : Expire(k)
           \/ \E s \in Scope : CounterExpires(s)
           \/ UNCHANGED vars
    BY <1>3, <1>7 DEF Expire, CounterExpires, vars, admission
<1> QED BY <1>4, <1>5, <1>6, <1>7 DEF Next

\* A request that was answered gave its slot back, on every path through the
\* middleware, as long as the calls to the store succeed (finalize_response).
THEOREM AnsweredGaveBack == Spec => []AnsweredHoldsNoSlot
<1>1. Init => AnsweredHoldsNoSlot
    BY DEF Init, AnsweredHoldsNoSlot
<1> QED BY <1>1, AnsweredStep, TypeCorrect, SlotInvariance, PTL DEF Spec

\* The changes that the step of another request, or of no request, makes to a
\* row leave a leader settled or rob it of its row.
LEMMA OthersSettle ==
    ASSUME IInv, NEW r \in leaders \ bereft, SettlesItsKey(r),
           key'[r] = key[r], fp'[r] = fp[r], pc'[r] = pc[r], response'[r] = response[r],
           r \notin bereft',
           \/ UNCHANGED rows
           \/ \E k \in Key, actor \in (Request \cup {None}) \ {r} : RemoveEntry(k, actor)
           \/ \E k \in Key, q \in Request \ {r} :
                 /\ entries[k] = None
                 /\ holder' = [holder EXCEPT ![k] = q]
                 /\ entries' \in [Key -> Entry \cup {None}]
                 /\ \A j \in Key \ {k} : entries'[j] = entries[j]
           \/ \E k \in Key, q \in Request, f \in Fingerprint :
                 /\ entries[k] # None
                 /\ entries' = [entries EXCEPT ![k] = [fingerprint |-> f, response |-> q]]
                 /\ UNCHANGED holder
    PROVE  SettlesItsKey(r)'
<1> USE DEF IInv, TypeOK
<1>0. key[r] \in Key /\ r \in Request
    BY DEF LeadersKnowTheirKey
<1>1. CASE UNCHANGED rows
    BY <1>1 DEF SettlesItsKey, InProgress, rows
<1>2. ASSUME NEW k \in Key, NEW actor \in (Request \cup {None}) \ {r}, RemoveEntry(k, actor)
      PROVE  SettlesItsKey(r)'
    <2>1. holder[k] # r
        BY <1>2 DEF RemoveEntry
    <2>2. CASE key[r] = k
        <3>1. holder'[k] # r
            BY <1>2, NoneAssumption DEF RemoveEntry
        <3> QED BY <2>1, <2>2, <3>1 DEF SettlesItsKey
    <2>3. CASE key[r] # k
        <3>1. holder'[key[r]] = holder[key[r]] /\ entries'[key[r]] = entries[key[r]]
            BY <1>0, <1>2, <2>3 DEF RemoveEntry
        <3> QED BY <3>1 DEF SettlesItsKey, InProgress
    <2> QED BY <2>2, <2>3
<1>3. ASSUME NEW k \in Key, NEW q \in Request \ {r}, entries[k] = None,
             holder' = [holder EXCEPT ![k] = q],
             \A j \in Key \ {k} : entries'[j] = entries[j]
      PROVE  SettlesItsKey(r)'
    <2>1. holder[k] # r
        BY <1>0, <1>3, NoneAssumption DEF RowsHaveHolders, RowHasHolder
    <2>2. CASE key[r] = k
        BY <1>3, <2>1, <2>2 DEF SettlesItsKey
    <2>3. CASE key[r] # k
        <3>1. holder'[key[r]] = holder[key[r]] /\ entries'[key[r]] = entries[key[r]]
            BY <1>0, <1>3, <2>3
        <3> QED BY <3>1 DEF SettlesItsKey, InProgress
    <2> QED BY <2>2, <2>3
<1>4. ASSUME NEW k \in Key, NEW q \in Request, NEW f \in Fingerprint, entries[k] # None,
             entries' = [entries EXCEPT ![k] = [fingerprint |-> f, response |-> q]],
             UNCHANGED holder
      PROVE  SettlesItsKey(r)'
    <2>1. CASE key[r] = k
        <3>1. entries'[k].response = q /\ q # None
            BY <1>4, NoneAssumption
        <3> QED BY <1>4, <2>1, <3>1 DEF SettlesItsKey, InProgress
    <2>2. CASE key[r] # k
        <3>1. entries'[key[r]] = entries[key[r]]
            BY <1>0, <1>4, <2>2
        <3> QED BY <1>4, <3>1 DEF SettlesItsKey, InProgress
    <2> QED BY <2>1, <2>2
<1> QED BY <1>1, <1>2, <1>3, <1>4

\* What a leader's own release leaves behind when the store answers: its row,
\* if it is still its own, is no longer in progress.
LEMMA OwnReleaseSettles ==
    ASSUME IInv, NEW r \in leaders, Release(r), r \notin failed'
    PROVE  ~(holder'[key[r]] = r /\ entries'[key[r]] # None /\ entries'[key[r]].response = None)
<1> USE DEF IInv, TypeOK
<1>0. key[r] \in Key /\ r \in Request
    BY DEF LeadersKnowTheirKey
<1>1. CASE Releasable(r) /\ RemoveEntry(key[r], r)
    BY <1>0, <1>1 DEF RemoveEntry
<1>2. CASE ~Releasable(r) /\ UNCHANGED idempotency
    BY <1>0, <1>2, NoneAssumption DEF Releasable, InProgress, idempotency, RowsHaveHolders, RowHasHolder
<1> QED BY <1>1, <1>2 DEF Release, CallFails

\* What a leader's own complete leaves behind when it still holds its row and
\* the store answers: a response on that row.
LEMMA OwnCompleteSettles ==
    ASSUME IInv, NEW r \in leaders, holder[key[r]] = r, Complete(r), r \notin failed'
    PROVE  holder'[key[r]] = r /\ entries'[key[r]].response # None
<1> USE DEF IInv, TypeOK
<1>0. key[r] \in Key /\ r \in Request
    BY DEF LeadersKnowTheirKey
<1>1. entries[key[r]] # None /\ entries[key[r]].fingerprint = fp[r]
    BY <1>0, NoneAssumption DEF RowsHaveHolders, RowHasHolder
<1>2. CASE /\ Completable(r)
           /\ entries' = [entries EXCEPT ![key[r]] = [fingerprint |-> fp[r], response |-> r]]
           /\ UNCHANGED holder
    BY <1>0, <1>2, NoneAssumption
<1>3. CASE ~Completable(r) /\ UNCHANGED idempotency
    BY <1>1, <1>3, NoneAssumption DEF Completable, idempotency
<1> QED BY <1>2, <1>3 DEF Complete, CallFails

\* Leaders keep settling, or having settled, their keys.
LEMMA SettleStep == IInv /\ LeadersSettle /\ [Next]_vars => LeadersSettle'
<1> SUFFICES ASSUME IInv, LeadersSettle, [Next]_vars,
                    NEW q \in leaders', q \notin bereft', q \notin failed'
             PROVE  SettlesItsKey(q)'
    BY DEF LeadersSettle
<1> USE DEF IInv, TypeOK
<1>0. IInv'
    BY InvStep
<1>b. failed \subseteq failed'
    <2>1. ASSUME NEW r \in Request, Arrive(r) PROVE UNCHANGED failed
        BY <2>1 DEF Arrive, RefuseEarly, PassIdempotency, BeginLeader, BeginReplay, BeginConflict, idempotency
    <2>2. ASSUME NEW r \in Request, Release(r) \/ Complete(r) PROVE failed \subseteq failed'
        BY <2>2 DEF Release, Complete, RemoveEntry, CallFails, idempotency
    <2>3. ASSUME NEW r \in Request, ReleaseAfterPanic(r) \/ UndoIdempotency(r) \/ After(r) \/ SpawnedRelease(r)
          PROVE  failed \subseteq failed'
        BY <2>2, <2>3 DEF ReleaseAfterPanic, UndoIdempotency, After, Finalize, SpawnedRelease, idempotency
    <2>4. ASSUME NEW r \in Request, NEW s \in Scope, NEW limit \in Limits,
                 Admit(r, s, limit) \/ AcquireReplyLost(r, s, limit)
          PROVE  UNCHANGED failed
        BY <2>4 DEF Admit, AcquireReplyLost, idempotency
    <2>5. ASSUME NEW r \in Request,
                 \/ AdmitUnlimited(r) \/ RefuseAdmission(r) \/ Deny(r) \/ AnswerPreflight(r) \/ Dispatch(r)
                 \/ (\E answer \in HandlerResponse : HandlerReturns(r, answer))
                 \/ UndoAdmission(r) \/ AuditFails(r) \/ GiveBack(r) \/ HandlerPanics(r) \/ Cancel(r)
          PROVE  UNCHANGED failed
        BY <2>5 DEF AdmitUnlimited, RefuseAdmission, Deny, AnswerPreflight, Dispatch, HandlerReturns,
            UndoAdmission, AuditFails, GiveBack, HandlerPanics, Cancel, idempotency
    <2>6. ASSUME \/ \E k \in Key : Expire(k)
                 \/ \E s \in Scope : CounterExpires(s)
                 \/ UNCHANGED vars
          PROVE  UNCHANGED failed
        BY <2>6 DEF Expire, RemoveEntry, CounterExpires, vars, idempotency
    <2> QED BY <2>1, <2>3, <2>4, <2>5, <2>6 DEF Next, Proceed
<1>a. q \in leaders \ bereft => SettlesItsKey(q) /\ q \in Request /\ key[q] \in Key /\ pc[q] # "idle"
    BY <1>b DEF LeadersSettle, LeadersKnowTheirKey
\* a step that leaves the store alone
<1>1. ASSUME NEW r \in Request, UNCHANGED <<key, leaders, idempotency>>, NEW phase \in Phase, Goto(r, phase),
             \A p \in Request \ {r} : response'[p] = response[p] /\ fp'[p] = fp[p],
             r = q => SettlesItsKey(q)'
      PROVE  SettlesItsKey(q)'
    <2>1. CASE r # q
        BY <1>1, <1>a, <2>1, OthersSettle DEF Goto, idempotency, rows
    <2> QED BY <1>1, <2>1
<1>2. ASSUME NEW r \in Request, Arrive(r) PROVE SettlesItsKey(q)'
    <2>1. ASSUME NEW k \in Key, NEW f \in Fingerprint, BeginLeader(r, k, f) PROVE SettlesItsKey(q)'
        <3> USE <2>1 DEF BeginLeader
        <3>1. CASE r = q
            BY <3>1, <1>a DEF FailBefore, Goto, SettlesItsKey
        <3>2. CASE r # q
            <4>1. q \in leaders \ bereft
                BY <3>2
            <4>2. pc'[q] = pc[q] /\ response'[q] = response[q] /\ key'[q] = key[q] /\ fp'[q] = fp[q]
                BY <1>a, <3>2, <4>1 DEF FailBefore, Goto
            <4>3. entries' \in [Key -> Entry \cup {None}]
                BY <1>0
            <4> QED BY <1>a, <3>2, <4>1, <4>2, <4>3, OthersSettle
        <3> QED BY <3>1, <3>2
    <2>2. ASSUME NEW k \in Key, NEW f \in Fingerprint, BeginReplay(r, k, f) PROVE SettlesItsKey(q)'
        <3> USE <2>2 DEF BeginReplay
        <3>1. q # r /\ q \in leaders \ bereft
            BY <1>a DEF LeadersKnowTheirKey, idempotency
        <3> QED BY <1>a, <3>1, OthersSettle DEF Goto, idempotency, rows
    <2>3. q # r \/ q \notin leaders
        BY <1>2 DEF Arrive, RefuseEarly, PassIdempotency, BeginLeader, BeginReplay, BeginConflict,
            LeadersKnowTheirKey
    <2> QED BY <1>1, <1>2, <2>1, <2>2, <2>3
        DEF Arrive, RefuseEarly, PassIdempotency, BeginConflict, FailBefore, Phase, state
\* a step before, or away from, the idempotency stage of the way out
<1>3. ASSUME NEW r \in Request,
             \/ \E s \in Scope, limit \in Limits : Admit(r, s, limit) \/ AcquireReplyLost(r, s, limit)
             \/ AdmitUnlimited(r) \/ RefuseAdmission(r) \/ Deny(r) \/ AnswerPreflight(r) \/ Dispatch(r)
             \/ (\E answer \in HandlerResponse : HandlerReturns(r, answer)) \/ HandlerPanics(r)
             \/ UndoAdmission(r) \/ AuditFails(r) \/ GiveBack(r) \/ Cancel(r)
      PROVE  SettlesItsKey(q)'
    <2> USE <1>3 DEF Goto, state, FailBefore, idempotency, InProgress
    <2>1. CASE \E s \in Scope, limit \in Limits : Admit(r, s, limit)
        BY <1>1, <1>a, <2>1 DEF Admit, SettlesItsKey, Phase
    <2>2. CASE RefuseAdmission(r) \/ Deny(r) \/ \E s \in Scope, limit \in Limits : AcquireReplyLost(r, s, limit)
        BY <1>1, <1>a, <2>2 DEF RefuseAdmission, Deny, AcquireReplyLost, SettlesItsKey, Phase
    <2>3. CASE AdmitUnlimited(r) \/ HandlerPanics(r) \/ UndoAdmission(r) \/ Cancel(r)
        BY <1>1, <1>a, <2>3 DEF AdmitUnlimited, HandlerPanics, UndoAdmission, Cancel, SettlesItsKey, Phase
    <2>4. CASE AnswerPreflight(r) \/ Dispatch(r)
        BY <1>1, <1>a, <2>4, NoneAssumption DEF AnswerPreflight, Dispatch, SettlesItsKey, Phase
    <2>5. CASE \E answer \in HandlerResponse : HandlerReturns(r, answer)
        <3>1. PICK answer \in HandlerResponse : HandlerReturns(r, answer)
            BY <2>5
        <3>2. CASE q = r
            BY <1>1, <1>a, <3>1, <3>2 DEF HandlerReturns, SettlesItsKey, Phase, LeadersHold
        <3>3. CASE q # r
            BY <1>1, <1>a, <3>1, <3>3 DEF HandlerReturns, SettlesItsKey, Phase, LeadersHold
        <3> QED BY <3>2, <3>3
    <2>6. CASE AuditFails(r) \/ GiveBack(r)
        BY <1>1, <1>a, <2>6 DEF AuditFails, GiveBack, SettlesItsKey, Phase
    <2> QED BY <2>1, <2>2, <2>3, <2>4, <2>5, <2>6
\* the release of another leader
<1>4. ASSUME NEW r \in leaders, r # q, Release(r), UNCHANGED state, pc'[q] = pc[q]
      PROVE  SettlesItsKey(q)'
    <2>1. q \in leaders \ bereft /\ r \in Request /\ key[r] \in Key
        BY <1>4 DEF Release, RemoveEntry, CallFails, rows, idempotency, state, LeadersKnowTheirKey
    <2>2. UNCHANGED rows \/ RemoveEntry(key[r], r)
        BY <1>4 DEF Release, CallFails, rows, idempotency
    <2> QED BY <1>4, <1>a, <2>1, <2>2, OthersSettle DEF state
<1>5. ASSUME NEW r \in Request, ReleaseAfterPanic(r) \/ UndoIdempotency(r) PROVE SettlesItsKey(q)'
    <2> USE <1>5 DEF ReleaseAfterPanic, UndoIdempotency
    <2>1. CASE r \notin leaders
        BY <1>1, <2>1 DEF Phase, state
    <2>2. CASE r \in leaders /\ r # q
        BY <1>4, <2>2 DEF Goto, state
    <2>3. CASE r \in leaders /\ r = q
        <3>1. r \notin bereft
            BY <2>3 DEF Release, RemoveEntry, CallFails, rows, idempotency
        <3> QED BY <1>a, <2>3, <3>1 DEF Goto, SettlesItsKey, state
    <2> QED BY <2>1, <2>2, <2>3
<1>6. ASSUME NEW r \in Request, After(r) PROVE SettlesItsKey(q)'
    <2> USE <1>6 DEF After
    <2>1. CASE r \notin leaders
        BY <1>1, <2>1 DEF Phase, idempotency
    <2>2. CASE r \in leaders /\ Release(r) /\ UNCHANGED response /\ response[r] # "success"
        <3>1. CASE r # q
            BY <1>4, <2>2, <3>1 DEF Goto, state
        <3>2. CASE r = q
            BY <2>2, <3>2, OwnReleaseSettles DEF Goto, SettlesItsKey, InProgress
        <3> QED BY <3>1, <3>2
    <2>3. CASE r \in leaders /\ Complete(r) /\ UNCHANGED response /\ response[r] = "success"
        <3>0. UNCHANGED bereft /\ q \in leaders \ bereft
            BY <2>3 DEF Complete, CallFails, rows, idempotency
        <3>1. CASE r # q
            <4>1. CASE UNCHANGED rows
                BY <1>a, <2>3, <3>0, <3>1, <4>1, OthersSettle DEF Goto
            <4>2. CASE /\ Completable(r)
                       /\ entries' = [entries EXCEPT ![key[r]] = [fingerprint |-> fp[r], response |-> r]]
                       /\ UNCHANGED holder
                <5>1. key[r] \in Key /\ fp[r] \in Fingerprint /\ entries[key[r]] # None
                    BY <2>3, <4>2 DEF LeadersKnowTheirKey, Completable
                <5> QED BY <1>a, <2>3, <3>0, <3>1, <4>2, <5>1, OthersSettle DEF Goto
            <4> QED BY <2>3, <4>1, <4>2 DEF Complete, CallFails, rows, idempotency
        <3>2. CASE r = q
            <4>1. holder[key[r]] = r
                BY <1>a, <2>3, <3>0, <3>2 DEF SettlesItsKey
            <4> QED BY <2>3, <3>2, <4>1, OwnCompleteSettles DEF Goto, SettlesItsKey
        <3> QED BY <3>1, <3>2
    <2>4. CASE r \in leaders /\ response' = [response EXCEPT ![r] = "too_large"] /\ UNCHANGED idempotency
        BY <1>1, <2>4 DEF Goto, SettlesItsKey, Phase
    <2> QED BY <2>1, <2>2, <2>3, <2>4 DEF Finalize
<1>7. ASSUME NEW r \in Request, SpawnedRelease(r) PROVE SettlesItsKey(q)'
    <2>1. r \in leaders /\ pc[r] = "gone"
        BY <1>7 DEF SpawnedRelease, LeadersKnowTheirKey
    <2>2. CASE r = q
        BY <1>7, <2>1, <2>2 DEF SpawnedRelease, SettlesItsKey
    <2> QED BY <1>4, <1>7, <2>1, <2>2 DEF SpawnedRelease
<1>8. ASSUME NEW k \in Key, Expire(k) PROVE SettlesItsKey(q)'
    <2>1. q \in leaders \ bereft
        BY <1>8 DEF Expire, RemoveEntry, state
    <2> QED BY <1>8, <1>a, <2>1, NoneAssumption, OthersSettle DEF Expire, state
<1>9. CASE UNCHANGED vars \/ \E s \in Scope : CounterExpires(s)
    BY <1>9, <1>a DEF CounterExpires, vars, state, idempotency, SettlesItsKey, InProgress
<1> QED BY <1>2, <1>3, <1>5, <1>6, <1>7, <1>8, <1>9 DEF Next, Proceed

\* A leader that was answered, was not robbed of its row, and none of whose
\* calls to the store failed, has settled its key: a 2xx is on record for
\* retries, anything else has freed the key, and only a response too large to
\* cache or a failed audit leaves the reservation behind (interceptors.rs, the idempotency stage of after).
THEOREM AnsweredSettled == Spec => []AnsweredMeansSettled
<1>1. Init => LeadersSettle
    BY DEF Init, LeadersSettle
<1>2. IInv /\ LeadersSettle => AnsweredMeansSettled
    <2> SUFFICES ASSUME IInv, LeadersSettle,
                        NEW r \in leaders \ (bereft \cup failed), pc[r] = "done"
                 PROVE  \/ /\ response[r] = "success"
                           /\ entries[key[r]] # None
                           /\ entries[key[r]].fingerprint = fp[r]
                           /\ entries[key[r]].response # None
                        \/ response[r] # "success" /\ ~(holder[key[r]] = r /\ InProgress(key[r]))
                        \/ response[r] \in {"too_large", "audit_failed"}
        BY DEF AnsweredMeansSettled, Unsettled
    <2>1. SettlesItsKey(r) /\ key[r] \in Key /\ r \in Request
        BY DEF LeadersSettle, IInv, TypeOK, LeadersKnowTheirKey
    <2> QED BY <2>1, NoneAssumption DEF SettlesItsKey, IInv, RowsHaveHolders, RowHasHolder
<1> QED BY <1>1, <1>2, SettleStep, Invariance, PTL DEF Spec

=============================================================================
