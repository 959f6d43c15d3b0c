------------------------ MODULE IdempotencyStores_proofs ------------------------
(***************************************************************************)
(* The three stores of the framework implement the contract of the          *)
(* IdempotencyStore trait: every step of a store is a step the contract     *)
(* allows, or leaves the calls and the table of rows alone.  And whatever   *)
(* implements the contract replays a response only to a request with the    *)
(* fingerprint it was recorded for.  For any callers, keys, fingerprints,   *)
(* bodies, budgets and retention times.                                     *)
(***************************************************************************)
EXTENDS IdempotencyStores, TLAPS

-------------------------------------------------------------------------------
(* The contract. *)

\* What the proof carries from step to step: rows hold records of their own
\* fingerprint, so that what begin replays has the caller's fingerprint.
ContractInv == TypeOK /\ RecordsMatchRows /\ ReplayMatchesFingerprint

MatchingTable(t) ==
    \A k \in Key : (t[k] # None /\ t[k].response # None) => t[k].response.of = t[k].fingerprint

\* Every outcome of a call leaves a well-typed table whose records match their
\* rows, and replays only a record of the caller's fingerprint.
LEMMA OutcomesAreGood ==
    ASSUME NEW t \in [Key -> Row \cup {None}], MatchingTable(t),
           NEW o \in Operation, NEW x \in Outcomes(t, o)
    PROVE  /\ x.table \in [Key -> Row \cup {None}]
           /\ MatchingTable(x.table)
           /\ x.result \in Result
           /\ x.result.status = "replay" => x.result.record.of = o.fingerprint
<1>1. CASE o.op = "begin"
  <2>1. x \in BeginOutcomes(t, o)
    BY <1>1 DEF Outcomes
  <2>2. CASE t[o.key] = None
    BY <2>1, <2>2, NoneAssumption DEF BeginOutcomes, Outcome, Plain, Operation, Row, Result, Status, MatchingTable
  <2>3. CASE t[o.key] # None
    BY <2>1, <2>3, NoneAssumption DEF BeginOutcomes, Outcome, Plain, Replay, Operation, Row, Result, Status, MatchingTable, Recorded, Matches
  <2> QED BY <2>2, <2>3
<1>2. CASE o.op = "complete"
  <2>1. x \in CompleteOutcomes(t, o)
    BY <1>2 DEF Outcomes
  <2>2. o.record \in Record /\ o.record.of = o.fingerprint /\ o.key \in Key
    BY <1>2 DEF Operation
  <2>3. CASE x.table = t
    BY <2>1, <2>3 DEF CompleteOutcomes, Outcome, Plain, Result, Status
  <2>4. CASE x.table # t
    <3>1. /\ Matches(t, o) /\ x.result = Plain("ok")
          /\ x.table = [t EXCEPT ![o.key].response = o.record]
      <4>1. t[o.key] # None /\ Matches(t, o)
        BY <2>1, <2>4 DEF CompleteOutcomes, Outcome
      <4>2. PICK u \in (IF Recorded(t, o) /\ FirstResponseWins
                        THEN {} ELSE {[t EXCEPT ![o.key].response = o.record]})
                       \cup (IF Recorded(t, o) \/ AckUnrecorded THEN {t} ELSE {}) :
                   x = Outcome(Plain("ok"), u)
        BY <2>1, <4>1 DEF CompleteOutcomes
      <4>3. x.table = u /\ x.result = Plain("ok")
        BY <4>2 DEF Outcome
      <4>4. u = [t EXCEPT ![o.key].response = o.record]
        BY <4>2, <4>3, <2>4
      <4> QED BY <4>1, <4>3, <4>4
    <3>2. t[o.key] \in Row
      BY <3>1, <2>2 DEF Matches
    <3>3. x.table[o.key] = [fingerprint |-> t[o.key].fingerprint, response |-> o.record]
      BY <3>1, <3>2, <2>2 DEF Row
    <3>4. x.table \in [Key -> Row \cup {None}]
      BY <3>1, <3>2, <2>2 DEF Row
    <3>5. x.table[o.key].response.of = x.table[o.key].fingerprint
      BY <3>1, <3>3, <2>2 DEF Matches
    <3>6. \A k \in Key \ {o.key} : x.table[k] = t[k]
      BY <3>1
    <3>7. MatchingTable(x.table)
      BY <3>5, <3>6 DEF MatchingTable
    <3> QED BY <3>1, <3>4, <3>7 DEF Plain, Result, Status
  <2> QED BY <2>3, <2>4
<1>3. CASE o.op = "release"
  <2>1. x \in ReleaseOutcomes(t, o)
    BY <1>3 DEF Outcomes
  <2> QED BY <2>1 DEF ReleaseOutcomes, Outcome, Plain, Result, Status, MatchingTable, Operation
<1> QED BY <1>1, <1>2, <1>3 DEF Operation

\* Losing rows keeps the table well typed and its records matching.
LEMMA WithoutIsGood ==
    ASSUME NEW t \in [Key -> Row \cup {None}], MatchingTable(t), NEW lost \in SUBSET Key
    PROVE  Without(t, lost) \in [Key -> Row \cup {None}] /\ MatchingTable(Without(t, lost))
BY DEF Without, MatchingTable

\* Responding keeps the calls well typed when the result is one, and keeps
\* ReplayMatchesFingerprint when the result is not a mismatched replay.
LEMMA RespondIsGood ==
    ASSUME CallType, ReplayMatchesFingerprint, NEW c \in Caller, NEW result \in Result,
           result.status = "replay" => result.record.of = Op(c).fingerprint,
           Respond(c, result)
    PROVE  CallType' /\ ReplayMatchesFingerprint'
<1>1. call[c] \in [operation : Operation, result : Result \cup {None}]
  BY DEF CallType, Respond, Pending
<1>2. CallType'
  BY <1>1 DEF CallType, Respond
<1>3. call'[c].result = result /\ call'[c].operation = call[c].operation
  BY <1>1 DEF CallType, Respond
<1>4. \A d \in Caller \ {c} : call'[d] = call[d]
  BY DEF CallType, Respond
<1>5. ReplayMatchesFingerprint'
  BY <1>3, <1>4 DEF ReplayMatchesFingerprint, Returned, Op
<1> QED BY <1>2, <1>5

\* ContractInv holds in every reachable state of the contract.
THEOREM ContractInvariance == Spec => []ContractInv
<1>1. Init => ContractInv
  BY NoneAssumption DEF Init, ContractInv, TypeOK, CallType, CallInit, RecordsMatchRows, ReplayMatchesFingerprint, Returned
<1>2. ContractInv /\ [Next]_<<call, table>> => ContractInv'
  <2> SUFFICES ASSUME ContractInv, [Next]_<<call, table>> PROVE ContractInv'
    OBVIOUS
  <2> MatchingTable(table) /\ table \in [Key -> Row \cup {None}]
    BY DEF ContractInv, RecordsMatchRows, MatchingTable, TypeOK
  <2>1. ASSUME NEW c \in Caller, Perform(c) PROVE ContractInv'
    <3>1. PICK early, late \in SUBSET Key :
             \E outcome \in Outcomes(Without(table, early), Op(c)) :
                /\ table' = Without(outcome.table, late)
                /\ Respond(c, outcome.result) \/ Respond(c, Plain("unavailable"))
      BY <2>1 DEF Perform
    <3>2. PICK outcome \in Outcomes(Without(table, early), Op(c)) :
                /\ table' = Without(outcome.table, late)
                /\ Respond(c, outcome.result) \/ Respond(c, Plain("unavailable"))
      BY <3>1
    <3>3. Op(c) \in Operation
      BY <2>1 DEF Perform, Pending, Op, ContractInv, TypeOK, CallType
    <3>4. /\ outcome.table \in [Key -> Row \cup {None}]
          /\ MatchingTable(outcome.table)
          /\ outcome.result \in Result
          /\ outcome.result.status = "replay" => outcome.result.record.of = Op(c).fingerprint
      <4>1. Without(table, early) \in [Key -> Row \cup {None}] /\ MatchingTable(Without(table, early))
        BY WithoutIsGood
      <4> QED BY <4>1, <3>3, OutcomesAreGood
    <3>5. table' \in [Key -> Row \cup {None}] /\ MatchingTable(table')
      BY <3>2, <3>4, WithoutIsGood
    <3>6. Plain("unavailable") \in Result /\ Plain("unavailable").status # "replay"
      BY DEF Plain, Result, Status
    <3>7. CallType /\ ReplayMatchesFingerprint
      BY DEF ContractInv, TypeOK
    <3>8. CallType' /\ ReplayMatchesFingerprint'
      BY <3>2, <3>4, <3>6, <3>7, RespondIsGood
    <3> QED BY <3>5, <3>8 DEF ContractInv, TypeOK, RecordsMatchRows, MatchingTable
  <2>2. ASSUME NEW c \in Caller, Fail(c) PROVE ContractInv'
    <3>1. Plain("unavailable") \in Result /\ Plain("unavailable").status # "replay"
      BY DEF Plain, Result, Status
    <3>2. CallType' /\ ReplayMatchesFingerprint'
      BY <2>2, <3>1, RespondIsGood DEF Fail, ContractInv, TypeOK
    <3> QED BY <3>2, <2>2 DEF Fail, ContractInv, TypeOK, RecordsMatchRows
  <2>3. ASSUME NEW c \in Caller, NEW o \in Operation, Invoke(c, o), UNCHANGED table PROVE ContractInv'
    BY <2>3, NoneAssumption DEF Invoke, ContractInv, TypeOK, CallType, RecordsMatchRows, ReplayMatchesFingerprint, Returned, Op
  <2>4. ASSUME NEW c \in Caller, Return(c), UNCHANGED table PROVE ContractInv'
    BY <2>4 DEF Return, ContractInv, TypeOK, CallType, RecordsMatchRows, ReplayMatchesFingerprint, Returned, Op
  <2>5. ASSUME NEW lost \in SUBSET Key, Lose(lost) PROVE ContractInv'
    <3>1. table' \in [Key -> Row \cup {None}] /\ MatchingTable(table')
      BY <2>5, WithoutIsGood DEF Lose
    <3> QED BY <3>1, <2>5 DEF Lose, ContractInv, TypeOK, CallType, RecordsMatchRows, MatchingTable, ReplayMatchesFingerprint, Returned, Op
  <2>6. CASE UNCHANGED <<call, table>>
    BY <2>6 DEF ContractInv, TypeOK, CallType, RecordsMatchRows, ReplayMatchesFingerprint, Returned, Op
  <2> QED BY <2>1, <2>2, <2>3, <2>4, <2>5, <2>6 DEF Next
<1> QED BY <1>1, <1>2, PTL DEF Spec

\* TECH-13 D6: a replay answers only a request with the recorded fingerprint,
\* in a deployment with a store of its own too, of which only the trait is known.
THEOREM ReplaysMatch == StoresSpec => []ReplayMatchesFingerprint
<1>1. StoresInit => Init
  BY DEF StoresInit
<1>2. [StoresNext]_storeVars => [Next]_<<call, table>>
  BY DEF StoresNext, storeVars, contractVars
<1>3. ContractInv => ReplayMatchesFingerprint
  BY DEF ContractInv
<1> QED BY <1>1, <1>2, <1>3, ContractInvariance, PTL DEF StoresSpec, Spec

-------------------------------------------------------------------------------
(* The Redis store. *)

\* The callers of the store are the callers of the contract.
LEMMA RedisCalls ==
    ASSUME NEW c, NEW r
    PROVE  /\ Redis!Contract!Pending(c) <=> Redis!Pending(c)
           /\ Redis!Contract!Op(c) = Redis!Op(c)
           /\ Redis!Respond(c, r) => Redis!Contract!Respond(c, r)
           /\ Redis!Contract!Plain(r) = Redis!Plain(r) /\ Redis!Contract!Replay(r) = Redis!Replay(r)
<1>1. Redis!Contract!Pending(c) <=> Redis!Pending(c)
  BY DEF Redis!Pending, Redis!Contract!Pending
<1>2. Redis!Contract!Op(c) = Redis!Op(c)
  BY DEF Redis!Op, Redis!Contract!Op
<1>3. Redis!Respond(c, r) => Redis!Contract!Respond(c, r)
  BY <1>1, Zenon DEF Redis!Respond, Redis!Contract!Respond
<1>4. Redis!Contract!Plain(r) = Redis!Plain(r) /\ Redis!Contract!Replay(r) = Redis!Replay(r)
  BY DEF Redis!Plain, Redis!Contract!Plain, Redis!Replay, Redis!Contract!Replay
<1> QED
  BY <1>1, <1>2, <1>3, <1>4

\* A script whose result is an outcome of the call is the instant at which the
\* call takes effect, whether its reply arrives or not.
LEMMA RedisPerforms ==
    ASSUME Redis!TypeOK, NEW c \in Caller, NEW result, NEW t,
           Redis!Contract!Outcome(result, t) \in Redis!Contract!Outcomes(db, Redis!Op(c)),
           db' = t, t \in [Key -> Redis!Payload \cup {None}], Redis!Reply(c, result)
    PROVE  Redis!Contract!Next
<1>1. PICK x : x = Redis!Contract!Outcome(result, t)
  OBVIOUS
<1>2. x.result = result /\ x.table = t
  BY <1>1 DEF Redis!Contract!Outcome
<1>3. Redis!Contract!Without(db, {}) = db /\ Redis!Contract!Without(t, {}) = t
  BY DEF Redis!TypeOK, Redis!Contract!Without
<1>4. Redis!Respond(c, result) \/ Redis!Respond(c, Redis!Plain("unavailable"))
  BY DEF Redis!Reply
<1>5. Redis!Contract!Respond(c, result) \/ Redis!Contract!Respond(c, Redis!Contract!Plain("unavailable"))
  BY <1>4, RedisCalls
<1>6. Redis!Contract!Pending(c)
  BY <1>4, RedisCalls DEF Redis!Respond
<1>7. x \in Redis!Contract!Outcomes(Redis!Contract!Without(db, {}), Redis!Contract!Op(c))
  BY <1>1, <1>3, RedisCalls
<1>8. db' = Redis!Contract!Without(x.table, {})
  BY <1>2, <1>3
<1>9. Redis!Contract!Respond(c, x.result) \/ Redis!Contract!Respond(c, Redis!Contract!Plain("unavailable"))
  BY <1>2, <1>5
<1>10. \E early, late \in SUBSET Key :
          \E outcome \in Redis!Contract!Outcomes(Redis!Contract!Without(db, early), Redis!Contract!Op(c)) :
             /\ db' = Redis!Contract!Without(outcome.table, late)
             /\ \/ Redis!Contract!Respond(c, outcome.result)
                \/ Redis!Contract!Respond(c, Redis!Contract!Plain("unavailable"))
  <2> WITNESS {} \in SUBSET Key, {} \in SUBSET Key
  <2> WITNESS x \in Redis!Contract!Outcomes(Redis!Contract!Without(db, {}), Redis!Contract!Op(c))
  <2> QED
    BY <1>8, <1>9
<1>11. Redis!Contract!Perform(c)
  BY <1>6, <1>10 DEF Redis!Contract!Perform
<1> QED
  BY <1>11 DEF Redis!Contract!Next

\* A pending call is an operation, and the table's rows are payloads.
LEMMA RedisTypes ==
    ASSUME Redis!TypeOK, NEW c \in Caller, Redis!Pending(c), NEW o, o = Redis!Op(c)
    PROVE  /\ o \in Redis!Operation /\ o.key \in Key /\ o.fingerprint \in Fingerprint
           /\ o.op = "complete" => o.record \in Redis!Record
           /\ db \in [Key -> Redis!Payload \cup {None}]
           /\ redisCall[c] \in [operation : Redis!Operation, result : Redis!Result \cup {None}]
<1>1. redisCall[c] \in [operation : Redis!Operation, result : Redis!Result \cup {None}]
  BY DEF Redis!TypeOK, Redis!CallType, Redis!Pending
<1>2. o \in Redis!Operation
  BY <1>1 DEF Redis!Op
<1>3. o.key \in Key /\ o.fingerprint \in Fingerprint /\ (o.op = "complete" => o.record \in Redis!Record)
  BY <1>2 DEF Redis!Operation
<1> QED
  BY <1>1, <1>2, <1>3 DEF Redis!TypeOK

\* The outcomes the contract allows, in the words of the store.
LEMMA RedisOutcomes ==
    ASSUME NEW o
    PROVE  /\ (o.op = "begin" /\ db[o.key] = None) =>
                Redis!Contract!Outcome(Redis!Plain("leader"),
                    [db EXCEPT ![o.key] = [fingerprint |-> o.fingerprint, response |-> None]])
                    \in Redis!Contract!Outcomes(db, o)
           /\ (o.op = "begin" /\ db[o.key] # None) =>
                Redis!Contract!Outcome(Redis!Plain("conflict"), db) \in Redis!Contract!Outcomes(db, o)
           /\ (o.op = "begin" /\ Redis!Matching(o) /\ db[o.key].response # None) =>
                Redis!Contract!Outcome(Redis!Replay(db[o.key].response), db) \in Redis!Contract!Outcomes(db, o)
           /\ (o.op = "complete" /\ db[o.key] = None) =>
                Redis!Contract!Outcome(Redis!Plain("unreserved"), db) \in Redis!Contract!Outcomes(db, o)
           /\ (o.op = "complete" /\ db[o.key] # None /\ ~Redis!Matching(o)) =>
                Redis!Contract!Outcome(Redis!Plain("conflict"), db) \in Redis!Contract!Outcomes(db, o)
           /\ (o.op = "complete" /\ Redis!Matching(o) /\ db[o.key].response = None) =>
                Redis!Contract!Outcome(Redis!Plain("ok"), [db EXCEPT ![o.key].response = o.record])
                    \in Redis!Contract!Outcomes(db, o)
           /\ (o.op = "complete" /\ Redis!Matching(o) /\ db[o.key].response # None) =>
                Redis!Contract!Outcome(Redis!Plain("ok"), db) \in Redis!Contract!Outcomes(db, o)
           /\ (o.op = "release" /\ Redis!Matching(o) /\ db[o.key].response = None) =>
                Redis!Contract!Outcome(Redis!Plain("ok"), [db EXCEPT ![o.key] = None])
                    \in Redis!Contract!Outcomes(db, o)
           /\ (o.op = "release" /\ ~(Redis!Matching(o) /\ db[o.key].response = None)) =>
                Redis!Contract!Outcome(Redis!Plain("ok"), db) \in Redis!Contract!Outcomes(db, o)
<1> USE RedisCalls DEF Redis!Matching, Redis!Contract!Matches, Redis!Contract!Recorded
<1>1. ASSUME o.op = "begin" PROVE Redis!Contract!Outcomes(db, o) = Redis!Contract!BeginOutcomes(db, o)
  BY <1>1 DEF Redis!Contract!Outcomes
<1>2. ASSUME o.op = "complete" PROVE Redis!Contract!Outcomes(db, o) = Redis!Contract!CompleteOutcomes(db, o)
  BY <1>2 DEF Redis!Contract!Outcomes
<1>3. ASSUME o.op = "release" PROVE Redis!Contract!Outcomes(db, o) = Redis!Contract!ReleaseOutcomes(db, o)
  BY <1>3 DEF Redis!Contract!Outcomes
<1>4. CASE o.op = "begin"
  <2>1. CASE db[o.key] = None
    BY <1>1, <1>4, <2>1 DEF Redis!Contract!BeginOutcomes
  <2>2. CASE db[o.key] # None
    BY <1>1, <1>4, <2>2 DEF Redis!Contract!BeginOutcomes
  <2> QED
    BY <2>1, <2>2
<1>5. CASE o.op = "complete"
  <2>1. CASE ~Redis!Matching(o)
    BY <1>2, <1>5, <2>1 DEF Redis!Contract!CompleteOutcomes
  <2>2. CASE Redis!Matching(o) /\ db[o.key].response = None
    BY <1>2, <1>5, <2>2 DEF Redis!Contract!CompleteOutcomes
  <2>3. CASE Redis!Matching(o) /\ db[o.key].response # None
    BY <1>2, <1>5, <2>3 DEF Redis!Contract!CompleteOutcomes
  <2> QED
    BY <2>1, <2>2, <2>3
<1>6. CASE o.op = "release"
  BY <1>3, <1>6 DEF Redis!Contract!ReleaseOutcomes
<1> QED
  BY <1>4, <1>5, <1>6

\* Each command of the store is a step of the contract: the begin script reserves,
\* refuses or is not yet the effect of its call, and the GET replays a record of
\* the caller's fingerprint, unless the key expired meanwhile (lib.rs begin).
LEMMA RedisRefines ==
    ASSUME ~ExpiryDuringGet, Redis!IInv, Redis!Next
    PROVE  Redis!Contract!Next \/ UNCHANGED <<redisCall, db>>
<1>1. Redis!TypeOK /\ Redis!FetchesItsRecord
  BY DEF Redis!IInv
<1>2. ASSUME NEW c \in Caller, Redis!BeginScript(c) PROVE Redis!Contract!Next \/ UNCHANGED <<redisCall, db>>
  <2>1. PICK o : o = Redis!Op(c)
    OBVIOUS
  <2>2. Redis!Pending(c) /\ o.op = "begin"
    BY <1>2, <2>1 DEF Redis!BeginScript, Redis!InScript
  <2>3. o.key \in Key /\ o.fingerprint \in Fingerprint /\ db \in [Key -> Redis!Payload \cup {None}]
    BY <1>1, <2>1, <2>2, RedisTypes
  <2>4. CASE UNCHANGED <<redisCall, db>>
    BY <2>4
  <2>5. CASE /\ db[o.key] = None
             /\ db' = [db EXCEPT ![o.key] = [fingerprint |-> o.fingerprint, response |-> None]]
             /\ Redis!Reply(c, Redis!Plain("leader"))
    <3>1. db' \in [Key -> Redis!Payload \cup {None}]
      BY <2>3, <2>5 DEF Redis!Payload
    <3> QED
      BY <1>1, <2>1, <2>2, <2>5, <3>1, RedisOutcomes, RedisPerforms
  <2>6. CASE db[o.key] # None /\ Redis!Reply(c, Redis!Plain("conflict")) /\ UNCHANGED db
    BY <1>1, <2>1, <2>2, <2>3, <2>6, RedisOutcomes, RedisPerforms
  <2> QED
    BY <1>2, <2>1, <2>4, <2>5, <2>6 DEF Redis!BeginScript
<1>3. ASSUME NEW c \in Caller, Redis!Get(c) PROVE Redis!Contract!Next
  <2>1. PICK o : o = Redis!Op(c)
    OBVIOUS
  <2>2. Redis!Pending(c) /\ o.op = "begin" /\ Redis!Matching(o) /\ db[o.key].response # None
    BY <1>1, <1>3, <2>1 DEF Redis!Get, Redis!FetchesItsRecord
  <2>3. db \in [Key -> Redis!Payload \cup {None}]
    BY <1>1 DEF Redis!TypeOK
  <2>4. Redis!Reply(c, Redis!Replay(db[o.key].response)) /\ UNCHANGED db
    BY <1>3, <2>1, <2>2 DEF Redis!Get, Redis!Matching
  <2> QED
    BY <1>1, <2>1, <2>2, <2>3, <2>4, RedisOutcomes, RedisPerforms
<1>4. ASSUME NEW c \in Caller, Redis!CompleteScript(c) PROVE Redis!Contract!Next
  <2>1. PICK o : o = Redis!Op(c)
    OBVIOUS
  <2>2. Redis!Pending(c) /\ o.op = "complete"
    BY <1>4, <2>1 DEF Redis!CompleteScript, Redis!InScript
  <2>3. o.key \in Key /\ o.record \in Redis!Record /\ db \in [Key -> Redis!Payload \cup {None}]
    BY <1>1, <2>1, <2>2, RedisTypes
  <2>4. CASE Redis!Matching(o) /\ db[o.key].response = None
    <3>1. db' = [db EXCEPT ![o.key].response = o.record] /\ Redis!Reply(c, Redis!Plain("ok"))
      BY <1>4, <2>1, <2>4 DEF Redis!CompleteScript
    <3>2. db[o.key] \in Redis!Payload
      BY <2>3, <2>4 DEF Redis!Matching
    <3>3. db' \in [Key -> Redis!Payload \cup {None}]
      BY <2>3, <3>1, <3>2 DEF Redis!Payload
    <3> QED
      BY <1>1, <2>1, <2>2, <2>4, <3>1, <3>3, RedisOutcomes, RedisPerforms
  <2>5. CASE Redis!Matching(o) /\ db[o.key].response # None
    <3>1. UNCHANGED db /\ Redis!Reply(c, Redis!Plain("ok"))
      BY <1>4, <2>1, <2>5 DEF Redis!CompleteScript
    <3> QED
      BY <1>1, <2>1, <2>2, <2>3, <2>5, <3>1, RedisOutcomes, RedisPerforms
  <2>6. CASE ~Redis!Matching(o)
    <3>1. UNCHANGED db /\ Redis!Reply(c, Redis!Plain(IF db[o.key] = None THEN "unreserved" ELSE "conflict"))
      BY <1>4, <2>1, <2>6 DEF Redis!CompleteScript
    <3>2. CASE db[o.key] = None
      BY <1>1, <2>1, <2>2, <2>3, <3>1, <3>2, RedisOutcomes, RedisPerforms
    <3>3. CASE db[o.key] # None
      BY <1>1, <2>1, <2>2, <2>3, <2>6, <3>1, <3>3, RedisOutcomes, RedisPerforms
    <3> QED
      BY <3>2, <3>3
  <2> QED
    BY <2>4, <2>5, <2>6
<1>5. ASSUME NEW c \in Caller, Redis!ReleaseScript(c) PROVE Redis!Contract!Next
  <2>1. PICK o : o = Redis!Op(c)
    OBVIOUS
  <2>2. Redis!Pending(c) /\ o.op = "release" /\ Redis!Reply(c, Redis!Plain("ok"))
    BY <1>5, <2>1 DEF Redis!ReleaseScript, Redis!InScript
  <2>3. o.key \in Key /\ db \in [Key -> Redis!Payload \cup {None}]
    BY <1>1, <2>1, <2>2, RedisTypes
  <2>4. CASE Redis!Matching(o) /\ db[o.key].response = None
    <3>1. db' = [db EXCEPT ![o.key] = None]
      BY <1>5, <2>1, <2>4 DEF Redis!ReleaseScript
    <3>2. db' \in [Key -> Redis!Payload \cup {None}]
      BY <2>3, <3>1
    <3> QED
      BY <1>1, <2>1, <2>2, <2>4, <3>1, <3>2, RedisOutcomes, RedisPerforms
  <2>5. CASE ~(Redis!Matching(o) /\ db[o.key].response = None)
    <3>1. UNCHANGED db
      BY <1>5, <2>1, <2>5 DEF Redis!ReleaseScript
    <3> QED
      BY <1>1, <2>1, <2>2, <2>3, <2>5, <3>1, RedisOutcomes, RedisPerforms
  <2> QED
    BY <2>4, <2>5
<1>6. ASSUME NEW c \in Caller, Redis!Fail(c) PROVE Redis!Contract!Next
  BY <1>6, RedisCalls DEF Redis!Fail, Redis!Contract!Next, Redis!Contract!Fail
<1>7. ASSUME NEW c \in Caller, Redis!Return(c), UNCHANGED db PROVE Redis!Contract!Next
  <2>1. Redis!Contract!Return(c)
    BY <1>7 DEF Redis!Return, Redis!Contract!Return, Redis!Returned, Redis!Contract!Returned
  <2> QED
    BY <1>7, <2>1 DEF Redis!Contract!Next
<1>8. ASSUME NEW c \in Caller, NEW o \in Redis!Operation, Redis!Invoke(c, o), UNCHANGED db PROVE Redis!Contract!Next
  <2>1. Redis!Contract!Invoke(c, o)
    BY <1>8 DEF Redis!Invoke, Redis!Contract!Invoke
  <2>2. o \in Redis!Contract!Operation
    BY DEF Redis!Operation, Redis!Contract!Operation, Redis!Record, Redis!Contract!Record
  <2> QED
    BY <1>8, <2>1, <2>2 DEF Redis!Contract!Next
<1>9. ASSUME NEW k \in Key, Redis!Expire(k) PROVE Redis!Contract!Next
  <2>1. db' = [db EXCEPT ![k] = None] /\ UNCHANGED redisCall
    BY <1>9 DEF Redis!Expire
  <2>2. db' = Redis!Contract!Without(db, {k})
    BY <1>1, <2>1 DEF Redis!TypeOK, Redis!Contract!Without
  <2>3. Redis!Contract!Lose({k})
    BY <2>1, <2>2 DEF Redis!Contract!Lose
  <2> QED
    BY <2>3 DEF Redis!Contract!Next
<1> QED
  BY <1>2, <1>3, <1>4, <1>5, <1>6, <1>7, <1>8, <1>9 DEF Redis!Next

\* Answering a call leaves the calls well typed and every other call as it was.
LEMMA RedisResponds ==
    ASSUME Redis!CallType, NEW c \in Caller, NEW r \in Redis!Result, Redis!Respond(c, r)
    PROVE  Redis!CallType' /\ \A d \in Caller \ {c} : redisCall'[d] = redisCall[d]
<1>1. redisCall[c] \in [operation : Redis!Operation, result : Redis!Result \cup {None}]
  BY DEF Redis!CallType, Redis!Respond, Redis!Pending
<1>2. redisCall' = [redisCall EXCEPT ![c].result = r]
  BY DEF Redis!Respond
<1>3. PICK x : x = [redisCall[c] EXCEPT !.result = r]
  OBVIOUS
<1>4. x \in [operation : Redis!Operation, result : Redis!Result \cup {None}]
  BY <1>1, <1>3
<1>5. redisCall' = [redisCall EXCEPT ![c] = x]
  BY <1>2, <1>3, Zenon
<1> QED
  BY <1>4, <1>5 DEF Redis!CallType

\* The answers of the scripts are results of the trait.
LEMMA RedisResults ==
    /\ \A s \in Redis!Status : Redis!Plain(s) \in Redis!Result
    /\ \A r \in Redis!Record : Redis!Replay(r) \in Redis!Result
BY DEF Redis!Plain, Redis!Replay, Redis!Result

\* A begin that waits for its GET keeps its record as long as the callers that
\* wait are pending as before and no record is taken from under them.
LEMMA RedisFetches ==
    ASSUME Redis!FetchesItsRecord, fetching \subseteq Caller, fetching' \subseteq fetching,
           \A d \in fetching' : redisCall'[d] = redisCall[d],
           \A d \in fetching' : (~ExpiryDuringGet /\ db[Redis!Op(d).key] # None
                                   /\ db[Redis!Op(d).key].response # None)
                                  => db'[Redis!Op(d).key] = db[Redis!Op(d).key]
    PROVE  Redis!FetchesItsRecord'
<1>1. SUFFICES ASSUME NEW d \in fetching'
               PROVE  /\ Redis!Pending(d)' /\ Redis!Op(d)'.op = "begin"
                      /\ ExpiryDuringGet \/ (Redis!Matching(Redis!Op(d))' /\ db'[Redis!Op(d)'.key].response # None)
  BY DEF Redis!FetchesItsRecord
<1>2. d \in fetching /\ redisCall'[d] = redisCall[d]
  OBVIOUS
<1>3. Redis!Pending(d) /\ Redis!Op(d).op = "begin" /\ Redis!Op(d)' = Redis!Op(d) /\ Redis!Pending(d)'
  BY <1>2 DEF Redis!FetchesItsRecord, Redis!Pending, Redis!Op
<1>4. ASSUME ~ExpiryDuringGet
      PROVE  Redis!Matching(Redis!Op(d))' /\ db'[Redis!Op(d)'.key].response # None
  <2>1. Redis!Matching(Redis!Op(d)) /\ db[Redis!Op(d).key].response # None
    BY <1>2, <1>4 DEF Redis!FetchesItsRecord
  <2>2. db'[Redis!Op(d).key] = db[Redis!Op(d).key]
    BY <1>1, <1>4, <2>1 DEF Redis!Matching
  <2> QED
    BY <1>3, <2>1, <2>2 DEF Redis!Matching
<1> QED
  BY <1>3, <1>4

\* Every command keeps the store's invariant: the scripts write records of the
\* reservation's fingerprint only, and never over a record.
LEMMA RedisStep ==
    ASSUME Redis!IInv, [Redis!Next]_redisVars
    PROVE  Redis!IInv'
<1> USE DEF Redis!IInv
<1>1. Redis!CallType /\ db \in [Key -> Redis!Payload \cup {None}] /\ fetching \subseteq Caller /\ Redis!FetchesItsRecord
  BY DEF Redis!TypeOK
<1>2. ASSUME NEW c \in Caller, NEW r \in Redis!Result, Redis!Reply(c, r)
      PROVE  Redis!CallType' /\ \A d \in Caller \ {c} : redisCall'[d] = redisCall[d]
  <2>1. PICK q \in Redis!Result : Redis!Respond(c, q)
    BY <1>2, RedisResults DEF Redis!Reply, Redis!Status
  <2> QED
    BY <1>1, <2>1, RedisResponds
<1>a. \A d \in fetching : Redis!Op(d).key \in Key
  BY <1>1, RedisTypes DEF Redis!FetchesItsRecord
<1>3. ASSUME NEW c \in Caller, Redis!BeginScript(c) PROVE Redis!IInv'
  <2>1. PICK o : o = Redis!Op(c)
    OBVIOUS
  <2>2. Redis!Pending(c) /\ c \notin fetching /\ o.op = "begin"
    BY <1>3, <2>1 DEF Redis!BeginScript, Redis!InScript
  <2>3. o.key \in Key /\ o.fingerprint \in Fingerprint
    BY <1>1, <2>1, <2>2, RedisTypes
  <2>4. CASE /\ db[o.key] = None
             /\ db' = [db EXCEPT ![o.key] = [fingerprint |-> o.fingerprint, response |-> None]]
             /\ Redis!Reply(c, Redis!Plain("leader"))
             /\ UNCHANGED fetching
    <3>1. Redis!CallType' /\ \A d \in Caller \ {c} : redisCall'[d] = redisCall[d]
      BY <1>2, <2>4, RedisResults DEF Redis!Status
    <3>2. db' \in [Key -> Redis!Payload \cup {None}]
      BY <1>1, <2>3, <2>4 DEF Redis!Payload
    <3>3. \A d \in fetching' : db[Redis!Op(d).key] # None => db'[Redis!Op(d).key] = db[Redis!Op(d).key]
      BY <1>1, <2>4
    <3>4. Redis!FetchesItsRecord'
      BY <1>1, <2>2, <2>4, <3>1, <3>3, RedisFetches
    <3> QED
      BY <1>1, <2>4, <3>1, <3>2, <3>4 DEF Redis!TypeOK
  <2>5. CASE /\ Redis!Matching(o) /\ db[o.key].response # None
             /\ fetching' = fetching \cup {c}
             /\ UNCHANGED <<redisCall, db>>
    <3>1. Redis!TypeOK'
      BY <1>1, <2>5 DEF Redis!TypeOK, Redis!CallType
    <3>2. Redis!FetchesItsRecord'
      BY <1>1, <2>1, <2>2, <2>5 DEF Redis!FetchesItsRecord, Redis!Pending, Redis!Op, Redis!Matching
    <3> QED
      BY <3>1, <3>2
  <2>6. CASE Redis!Reply(c, Redis!Plain("conflict")) /\ UNCHANGED <<db, fetching>>
    <3>1. Redis!CallType' /\ \A d \in Caller \ {c} : redisCall'[d] = redisCall[d]
      BY <1>2, <2>6, RedisResults DEF Redis!Status
    <3>2. Redis!FetchesItsRecord'
      BY <1>1, <2>2, <2>6, <3>1, RedisFetches
    <3> QED
      BY <1>1, <2>6, <3>1, <3>2 DEF Redis!TypeOK
  <2> QED
    BY <1>3, <2>1, <2>4, <2>5, <2>6 DEF Redis!BeginScript
<1>4. ASSUME NEW c \in Caller, Redis!Get(c) PROVE Redis!IInv'
  <2>1. PICK p : p = db[Redis!Op(c).key]
    OBVIOUS
  <2>2. Redis!Pending(c) /\ fetching' = fetching \ {c} /\ UNCHANGED db
    BY <1>1, <1>4 DEF Redis!Get, Redis!FetchesItsRecord
  <2>3. p \in Redis!Payload \cup {None}
    BY <1>1, <2>1, <2>2, RedisTypes
  <2>4. PICK r : /\ Redis!Reply(c, r)
                 /\ r = IF p = None THEN Redis!Plain("unavailable")
                        ELSE IF p.response = None THEN Redis!Plain("conflict")
                        ELSE Redis!Replay(p.response)
    BY <1>4, <2>1 DEF Redis!Get
  <2>5. r \in Redis!Result
    <3>1. CASE p = None
      BY <2>4, <3>1, RedisResults DEF Redis!Status
    <3>2. CASE p # None /\ p.response = None
      BY <2>4, <3>2, RedisResults DEF Redis!Status
    <3>3. CASE p # None /\ p.response # None
      <4>1. p.response \in Redis!Record
        BY <2>3, <3>3 DEF Redis!Payload
      <4> QED
        BY <2>4, <3>3, <4>1, RedisResults
    <3> QED
      BY <3>1, <3>2, <3>3
  <2>6. Redis!CallType' /\ \A d \in Caller \ {c} : redisCall'[d] = redisCall[d]
    BY <1>2, <2>4, <2>5
  <2>7. Redis!FetchesItsRecord'
    BY <1>1, <2>2, <2>6, RedisFetches
  <2> QED
    BY <1>1, <2>2, <2>6, <2>7 DEF Redis!TypeOK
<1>5. ASSUME NEW c \in Caller, Redis!CompleteScript(c) PROVE Redis!IInv'
  <2>1. PICK o : o = Redis!Op(c)
    OBVIOUS
  <2>2. Redis!Pending(c) /\ c \notin fetching /\ o.op = "complete" /\ UNCHANGED fetching
    BY <1>5, <2>1 DEF Redis!CompleteScript, Redis!InScript
  <2>3. o.key \in Key /\ o.record \in Redis!Record
    BY <1>1, <2>1, <2>2, RedisTypes
  <2>4. PICK s \in Redis!Status : Redis!Reply(c, Redis!Plain(s))
    BY <1>5 DEF Redis!CompleteScript, Redis!Status
  <2>5. Redis!CallType' /\ \A d \in Caller \ {c} : redisCall'[d] = redisCall[d]
    BY <1>2, <2>4, RedisResults
  <2>6. \/ UNCHANGED db
        \/ Redis!Matching(o) /\ db[o.key].response = None /\ db' = [db EXCEPT ![o.key].response = o.record]
    BY <1>5, <2>1 DEF Redis!CompleteScript
  <2>7. ASSUME Redis!Matching(o), db[o.key].response = None, db' = [db EXCEPT ![o.key].response = o.record]
        PROVE  /\ db' \in [Key -> Redis!Payload \cup {None}]
               /\ \A k \in Key : (db[k] # None /\ db[k].response # None) => db'[k] = db[k]
    <3>1. db[o.key] \in Redis!Payload
      BY <1>1, <2>3, <2>7 DEF Redis!Matching
    <3>2. PICK x : x = [db[o.key] EXCEPT !.response = o.record]
      OBVIOUS
    <3>3. x \in Redis!Payload
      BY <2>3, <3>1, <3>2 DEF Redis!Payload
    <3>4. db' = [db EXCEPT ![o.key] = x]
      BY <2>7, <3>2, Zenon
    <3> QED
      BY <1>1, <2>3, <2>7, <3>3, <3>4
  <2>8. /\ db' \in [Key -> Redis!Payload \cup {None}]
        /\ \A k \in Key : (db[k] # None /\ db[k].response # None) => db'[k] = db[k]
    BY <1>1, <2>6, <2>7
  <2>9. Redis!FetchesItsRecord'
    BY <1>1, <1>a, <2>2, <2>5, <2>8, RedisFetches
  <2> QED
    BY <1>1, <2>2, <2>5, <2>8, <2>9 DEF Redis!TypeOK
<1>6. ASSUME NEW c \in Caller, Redis!ReleaseScript(c) PROVE Redis!IInv'
  <2>1. PICK o : o = Redis!Op(c)
    OBVIOUS
  <2>2. Redis!Pending(c) /\ c \notin fetching /\ UNCHANGED fetching /\ Redis!Reply(c, Redis!Plain("ok"))
    BY <1>6, <2>1 DEF Redis!ReleaseScript, Redis!InScript
  <2>3. o.key \in Key
    BY <1>1, <2>1, <2>2, RedisTypes
  <2>4. Redis!CallType' /\ \A d \in Caller \ {c} : redisCall'[d] = redisCall[d]
    BY <1>2, <2>2, RedisResults DEF Redis!Status
  <2>5. UNCHANGED db \/ (db[o.key].response = None /\ db' = [db EXCEPT ![o.key] = None])
    BY <1>6, <2>1 DEF Redis!ReleaseScript
  <2>6. /\ db' \in [Key -> Redis!Payload \cup {None}]
        /\ \A k \in Key : (db[k] # None /\ db[k].response # None) => db'[k] = db[k]
    BY <1>1, <2>3, <2>5
  <2>7. Redis!FetchesItsRecord'
    BY <1>1, <1>a, <2>2, <2>4, <2>6, RedisFetches
  <2> QED
    BY <1>1, <2>2, <2>4, <2>6, <2>7 DEF Redis!TypeOK
<1>7. ASSUME NEW c \in Caller, Redis!Fail(c) PROVE Redis!IInv'
  <2>1. fetching' = fetching \ {c} /\ UNCHANGED db /\ Redis!Reply(c, Redis!Plain("unavailable"))
    BY <1>7 DEF Redis!Fail, Redis!Reply
  <2>2. Redis!CallType' /\ \A d \in Caller \ {c} : redisCall'[d] = redisCall[d]
    BY <1>2, <2>1, RedisResults DEF Redis!Status
  <2>3. Redis!FetchesItsRecord'
    BY <1>1, <2>1, <2>2, RedisFetches
  <2> QED
    BY <1>1, <2>1, <2>2, <2>3 DEF Redis!TypeOK
<1>8. ASSUME NEW c \in Caller, Redis!Return(c) \/ \E o \in Redis!Operation : Redis!Invoke(c, o),
             UNCHANGED <<db, fetching>>
      PROVE  Redis!IInv'
  <2>1. PICK x \in [operation : Redis!Operation, result : Redis!Result \cup {None}] \cup {None} :
           redisCall' = [redisCall EXCEPT ![c] = x]
    BY <1>8 DEF Redis!Return, Redis!Invoke
  <2>2. ~Redis!Pending(c)
    BY <1>8 DEF Redis!Return, Redis!Invoke, Redis!Returned, Redis!Pending
  <2>3. c \notin fetching
    BY <1>1, <2>2 DEF Redis!FetchesItsRecord
  <2>4. Redis!CallType' /\ \A d \in Caller \ {c} : redisCall'[d] = redisCall[d]
    BY <1>1, <2>1 DEF Redis!CallType
  <2>5. Redis!FetchesItsRecord'
    BY <1>1, <1>8, <2>3, <2>4, RedisFetches
  <2> QED
    BY <1>1, <1>8, <2>4, <2>5 DEF Redis!TypeOK
<1>9. ASSUME NEW k \in Key, Redis!Expire(k) PROVE Redis!IInv'
  <2>1. /\ db' = [db EXCEPT ![k] = None] /\ UNCHANGED <<redisCall, fetching>>
        /\ ExpiryDuringGet \/ \A c \in fetching : Redis!Op(c).key # k
    BY <1>9 DEF Redis!Expire
  <2>2. \A d \in fetching' : ~ExpiryDuringGet => db'[Redis!Op(d).key] = db[Redis!Op(d).key]
    BY <1>1, <2>1
  <2>3. Redis!FetchesItsRecord'
    BY <1>1, <2>1, <2>2, RedisFetches
  <2> QED
    BY <1>1, <2>1, <2>3 DEF Redis!TypeOK, Redis!CallType
<1>10. CASE UNCHANGED redisVars
  BY <1>1, <1>10 DEF redisVars, Redis!TypeOK, Redis!CallType, Redis!FetchesItsRecord, Redis!Pending,
                     Redis!Op, Redis!Matching
<1> QED
  BY <1>3, <1>4, <1>5, <1>6, <1>7, <1>8, <1>9, <1>10 DEF Redis!Next

\* An answer that replays nothing, or a record of the caller's fingerprint, keeps
\* the promise, whether it arrives or not.
LEMMA RedisAnswers ==
    ASSUME Redis!CallType, Redis!ReplayMatchesFingerprint, NEW c \in Caller,
           NEW r \in Redis!Result, Redis!Reply(c, r),
           r.status = "replay" => r.record.of = Redis!Op(c).fingerprint
    PROVE  Redis!ReplayMatchesFingerprint'
<1>1. PICK q \in Redis!Result : /\ Redis!Respond(c, q)
                                /\ q.status = "replay" => q.record.of = Redis!Op(c).fingerprint
  BY RedisResults DEF Redis!Reply, Redis!Status, Redis!Plain
<1>2. \A d \in Caller \ {c} : redisCall'[d] = redisCall[d]
  BY <1>1, RedisResponds
<1>3. redisCall[c] \in [operation : Redis!Operation, result : Redis!Result \cup {None}]
  BY <1>1 DEF Redis!CallType, Redis!Respond, Redis!Pending
<1>4. redisCall'[c].result = q /\ redisCall'[c].operation = redisCall[c].operation
  BY <1>1, <1>3 DEF Redis!CallType, Redis!Respond
<1> QED
  BY <1>1, <1>2, <1>4 DEF Redis!ReplayMatchesFingerprint, Redis!Returned, Redis!Op

\* While no key expires between the two commands of a begin, every command keeps
\* records under their own fingerprint and replays them to no other.
LEMMA RedisReplays ==
    ASSUME ~ExpiryDuringGet, Redis!IInv, Redis!RecordsAreOwn, Redis!ReplayMatchesFingerprint,
           [Redis!Next]_redisVars
    PROVE  Redis!RecordsAreOwn' /\ Redis!ReplayMatchesFingerprint'
<1>1. Redis!TypeOK /\ Redis!CallType /\ db \in [Key -> Redis!Payload \cup {None}] /\ fetching \subseteq Caller /\ Redis!FetchesItsRecord
  BY DEF Redis!IInv, Redis!TypeOK
<1>2. ASSUME NEW c \in Caller, NEW s \in Redis!Status, Redis!Reply(c, Redis!Plain(s))
      PROVE  Redis!ReplayMatchesFingerprint'
  <2>1. Redis!Plain(s) \in Redis!Result /\ Redis!Plain(s).status # "replay"
    BY RedisResults DEF Redis!Plain, Redis!Status
  <2> QED
    BY <1>1, <1>2, <2>1, RedisAnswers
<1>3. ASSUME NEW c \in Caller, Redis!BeginScript(c)
      PROVE  Redis!RecordsAreOwn' /\ Redis!ReplayMatchesFingerprint'
  <2>1. PICK o : o = Redis!Op(c)
    OBVIOUS
  <2>2. o.key \in Key
    BY <1>1, <1>3, <2>1, RedisTypes DEF Redis!BeginScript, Redis!InScript
  <2>3. CASE /\ db' = [db EXCEPT ![o.key] = [fingerprint |-> o.fingerprint, response |-> None]]
             /\ Redis!Reply(c, Redis!Plain("leader"))
    <3>1. Redis!RecordsAreOwn'
      BY <1>1, <2>2, <2>3 DEF Redis!RecordsAreOwn
    <3> QED
      BY <1>2, <2>3, <3>1 DEF Redis!Status
  <2>4. CASE UNCHANGED <<redisCall, db>>
    BY <2>4 DEF Redis!RecordsAreOwn, Redis!ReplayMatchesFingerprint, Redis!Returned, Redis!Op
  <2>5. CASE Redis!Reply(c, Redis!Plain("conflict")) /\ UNCHANGED db
    BY <1>2, <2>5 DEF Redis!RecordsAreOwn, Redis!Status
  <2> QED
    BY <1>3, <2>1, <2>3, <2>4, <2>5 DEF Redis!BeginScript
<1>4. ASSUME NEW c \in Caller, Redis!Get(c)
      PROVE  Redis!RecordsAreOwn' /\ Redis!ReplayMatchesFingerprint'
  <2>1. PICK o : o = Redis!Op(c)
    OBVIOUS
  <2>2. /\ Redis!Pending(c) /\ UNCHANGED db
        /\ db[o.key] # None /\ db[o.key].fingerprint = o.fingerprint /\ db[o.key].response # None
    BY <1>1, <1>4, <2>1 DEF Redis!Get, Redis!FetchesItsRecord, Redis!Matching
  <2>3. o.key \in Key
    BY <1>1, <2>1, <2>2, RedisTypes
  <2>4. db[o.key].response \in Redis!Record /\ db[o.key].response.of = o.fingerprint
    <3>1. db[o.key] \in Redis!Payload
      BY <1>1, <2>2, <2>3
    <3> QED
      BY <2>2, <2>3, <3>1 DEF Redis!RecordsAreOwn, Redis!Payload
  <2>5. PICK r : r = Redis!Replay(db[o.key].response) /\ Redis!Reply(c, r)
    BY <1>4, <2>1, <2>2 DEF Redis!Get
  <2>6. r \in Redis!Result /\ r.record.of = Redis!Op(c).fingerprint
    BY <2>1, <2>4, <2>5, RedisResults DEF Redis!Replay
  <2>7. Redis!ReplayMatchesFingerprint'
    BY <1>1, <2>5, <2>6, RedisAnswers
  <2> QED
    BY <2>2, <2>7 DEF Redis!RecordsAreOwn
<1>5. ASSUME NEW c \in Caller, Redis!CompleteScript(c)
      PROVE  Redis!RecordsAreOwn' /\ Redis!ReplayMatchesFingerprint'
  <2>1. PICK o : o = Redis!Op(c)
    OBVIOUS
  <2>2. Redis!Pending(c) /\ o.op = "complete"
    BY <1>5, <2>1 DEF Redis!CompleteScript, Redis!InScript
  <2>3. o \in Redis!Operation /\ o.key \in Key
    BY <1>1, <2>1, <2>2, RedisTypes
  <2>4. o.record.of = o.fingerprint
    BY <2>2, <2>3 DEF Redis!Operation
  <2>5. PICK s \in Redis!Status : Redis!Reply(c, Redis!Plain(s))
    BY <1>5 DEF Redis!CompleteScript, Redis!Status
  <2>6. ASSUME UNCHANGED db PROVE Redis!RecordsAreOwn'
    BY <2>6 DEF Redis!RecordsAreOwn
  <2>7. ASSUME Redis!Matching(o), db' = [db EXCEPT ![o.key].response = o.record]
        PROVE  Redis!RecordsAreOwn'
    <3>1. db[o.key] \in Redis!Payload /\ db[o.key].fingerprint = o.fingerprint
      BY <1>1, <2>3, <2>7 DEF Redis!Matching
    <3>2. db'[o.key].response = o.record /\ db'[o.key].fingerprint = o.fingerprint
      BY <1>1, <2>3, <2>7, <3>1 DEF Redis!Payload
    <3>3. \A k \in Key \ {o.key} : db'[k] = db[k]
      BY <1>1, <2>7
    <3> QED
      BY <2>4, <3>2, <3>3 DEF Redis!RecordsAreOwn
  <2>8. UNCHANGED db \/ (Redis!Matching(o) /\ db' = [db EXCEPT ![o.key].response = o.record])
    BY <1>5, <2>1 DEF Redis!CompleteScript
  <2> QED
    BY <1>2, <2>5, <2>6, <2>7, <2>8
<1>6. ASSUME NEW c \in Caller, Redis!ReleaseScript(c)
      PROVE  Redis!RecordsAreOwn' /\ Redis!ReplayMatchesFingerprint'
  <2>1. PICK o : o = Redis!Op(c)
    OBVIOUS
  <2>2. o.key \in Key
    BY <1>1, <1>6, <2>1, RedisTypes DEF Redis!ReleaseScript, Redis!InScript
  <2>3. Redis!Reply(c, Redis!Plain("ok")) /\ (UNCHANGED db \/ db' = [db EXCEPT ![o.key] = None])
    BY <1>6, <2>1 DEF Redis!ReleaseScript
  <2>4. Redis!RecordsAreOwn'
    BY <1>1, <2>2, <2>3 DEF Redis!RecordsAreOwn
  <2> QED
    BY <1>2, <2>3, <2>4 DEF Redis!Status
<1>7. ASSUME NEW c \in Caller, Redis!Fail(c)
      PROVE  Redis!RecordsAreOwn' /\ Redis!ReplayMatchesFingerprint'
  <2>1. UNCHANGED db /\ Redis!Reply(c, Redis!Plain("unavailable"))
    BY <1>7 DEF Redis!Fail, Redis!Reply
  <2> QED
    BY <1>2, <2>1 DEF Redis!RecordsAreOwn, Redis!Status
<1>8. ASSUME NEW c \in Caller, Redis!Return(c) \/ \E o \in Redis!Operation : Redis!Invoke(c, o),
             UNCHANGED <<db, fetching>>
      PROVE  Redis!RecordsAreOwn' /\ Redis!ReplayMatchesFingerprint'
  <2>1. Redis!ReplayMatchesFingerprint'
    BY <1>1, <1>8, NoneAssumption
       DEF Redis!Return, Redis!Invoke, Redis!ReplayMatchesFingerprint, Redis!Returned, Redis!Op, Redis!CallType
  <2> QED
    BY <1>8, <2>1 DEF Redis!RecordsAreOwn
<1>9. ASSUME NEW k \in Key, Redis!Expire(k)
      PROVE  Redis!RecordsAreOwn' /\ Redis!ReplayMatchesFingerprint'
  BY <1>1, <1>9 DEF Redis!Expire, Redis!RecordsAreOwn, Redis!ReplayMatchesFingerprint, Redis!Returned, Redis!Op
<1>10. CASE UNCHANGED redisVars
  BY <1>10 DEF redisVars, Redis!RecordsAreOwn, Redis!ReplayMatchesFingerprint, Redis!Returned, Redis!Op
<1> QED
  BY <1>3, <1>4, <1>5, <1>6, <1>7, <1>8, <1>9, <1>10 DEF Redis!Next

\* Whatever the store does next, the Redis part takes a step of its own or none.
LEMMA RedisMoves ==
    ASSUME [StoresNext]_storeVars
    PROVE  [Redis!Next]_redisVars
BY DEF StoresNext, storeVars, redisVars, contractVars, memoryVars, sqlxVars

\* With every key outliving the GET that follows its begin script, the Redis store
\* implements the contract: the two commands of begin, lost replies and expiring
\* keys notwithstanding (sdkwork-web-store-redis lib.rs RedisIdempotencyStore).
THEOREM RedisIsAStore == ~ExpiryDuringGet => (StoresSpec => RedisImplementsContract)
<1>1. SUFFICES ASSUME ~ExpiryDuringGet PROVE StoresSpec => RedisImplementsContract
  OBVIOUS
<1>2. StoresInit => Redis!IInv /\ Redis!Contract!Init
  BY DEF StoresInit, Redis!Init, Redis!CallInit, Redis!Contract!Init, Redis!Contract!CallInit,
         Redis!IInv, Redis!TypeOK, Redis!CallType, Redis!FetchesItsRecord
<1>3. Redis!IInv /\ [StoresNext]_storeVars => Redis!IInv'
  BY RedisStep, RedisMoves
<1>4. Redis!IInv /\ [StoresNext]_storeVars => [Redis!Contract!Next]_<<redisCall, db>>
  BY <1>1, RedisMoves, RedisRefines DEF redisVars
<1> QED
  BY <1>2, <1>3, <1>4, PTL DEF StoresSpec, RedisImplementsContract, Redis!ImplementsContract, Redis!Contract!Spec


-------------------------------------------------------------------------------
(* The SQLx store. *)

\* The callers of the store are the callers of the contract.
LEMMA SqlxCalls ==
    ASSUME NEW c, NEW r
    PROVE  /\ Sqlx!Contract!Pending(c) <=> Sqlx!Pending(c)
           /\ Sqlx!Contract!Op(c) = Sqlx!Op(c)
           /\ Sqlx!Respond(c, r) => Sqlx!Contract!Respond(c, r)
           /\ Sqlx!Contract!Plain(r) = Sqlx!Plain(r) /\ Sqlx!Contract!Replay(r) = Sqlx!Replay(r)
<1>1. Sqlx!Contract!Pending(c) <=> Sqlx!Pending(c)
  BY DEF Sqlx!Pending, Sqlx!Contract!Pending
<1>2. Sqlx!Contract!Op(c) = Sqlx!Op(c)
  BY DEF Sqlx!Op, Sqlx!Contract!Op
<1>3. Sqlx!Respond(c, r) => Sqlx!Contract!Respond(c, r)
  BY <1>1, Zenon DEF Sqlx!Respond, Sqlx!Contract!Respond
<1>4. Sqlx!Contract!Plain(r) = Sqlx!Plain(r) /\ Sqlx!Contract!Replay(r) = Sqlx!Replay(r)
  BY DEF Sqlx!Plain, Sqlx!Contract!Plain, Sqlx!Replay, Sqlx!Contract!Replay
<1> QED
  BY <1>1, <1>2, <1>3, <1>4

\* The table forgets the expiry times of the rows and nothing else.
LEMMA SqlxRows ==
    ASSUME rows \in [Key -> Sqlx!Row \cup {None}], NEW k \in Key
    PROVE  /\ Sqlx!Table[k] = None <=> rows[k] = None
           /\ rows[k] # None => /\ Sqlx!Table[k].fingerprint = rows[k].fingerprint
                                /\ Sqlx!Table[k].response = rows[k].response
<1>1. CASE rows[k] = None
  BY <1>1 DEF Sqlx!Table
<1>2. CASE rows[k] # None
  <2>1. Sqlx!Table[k] = [fingerprint |-> rows[k].fingerprint, response |-> rows[k].response]
    BY <1>2 DEF Sqlx!Table
  <2>2. rows[k] \in Sqlx!Row
    BY <1>2
  <2>3. rows[k].fingerprint \in Fingerprint /\ rows[k].response \in Sqlx!Record \cup {None}
    BY <2>2 DEF Sqlx!Row
  <2>4. Sqlx!Table[k] \in Row
    BY <2>1, <2>3 DEF Row, Record, Sqlx!Record
  <2> QED
    BY <1>2, <2>1, <2>4, NoneAssumption
<1> QED
  BY <1>1, <1>2

\* A statement that writes or deletes a row does the same to the table.
LEMMA SqlxWrites ==
    ASSUME rows \in [Key -> Sqlx!Row \cup {None}], NEW k \in Key, NEW x \in Sqlx!Row \cup {None},
           rows' = [rows EXCEPT ![k] = x]
    PROVE  /\ x = None => Sqlx!Table' = [Sqlx!Table EXCEPT ![k] = None]
           /\ x # None => Sqlx!Table' = [Sqlx!Table EXCEPT ![k] =
                                            [fingerprint |-> x.fingerprint, response |-> x.response]]
BY DEF Sqlx!Table

\* The UPDATE of complete fills a reservation and keeps its fingerprint.
LEMMA SqlxFills ==
    ASSUME NEW r \in Sqlx!Row, NEW record \in Sqlx!Record, NEW expiry \in Nat, NEW x,
           x = [fingerprint |-> r.fingerprint, response |-> record, expires |-> expiry]
    PROVE  x \in Sqlx!Row /\ [[r EXCEPT !.response = record] EXCEPT !.expires = expiry] = x
<1>1. PICK f, q, e : f \in Fingerprint /\ r = [fingerprint |-> f, response |-> q, expires |-> e]
  BY DEF Sqlx!Row
<1>2. [r EXCEPT !.response = record] = [fingerprint |-> f, response |-> record, expires |-> e]
  BY <1>1
<1>3. [[fingerprint |-> f, response |-> record, expires |-> e] EXCEPT !.expires = expiry]
         = [fingerprint |-> f, response |-> record, expires |-> expiry]
  OBVIOUS
<1>4. x = [fingerprint |-> f, response |-> record, expires |-> expiry]
  BY <1>1
<1>5. x \in Sqlx!Row
  BY <1>1, <1>4 DEF Sqlx!Row
<1> QED
  BY <1>2, <1>3, <1>4, <1>5

\* What the UPDATE does to the rows.
LEMMA SqlxUpdates ==
    ASSUME rows \in [Key -> Sqlx!Row \cup {None}], NEW k \in Key, rows[k] # None,
           NEW record \in Sqlx!Record, NEW expiry \in Nat,
           rows' = [rows EXCEPT ![k].response = record, ![k].expires = expiry]
    PROVE  \E x \in Sqlx!Row : rows' = [rows EXCEPT ![k] = x]
<1>1. PICK r \in Sqlx!Row : r = rows[k]
  OBVIOUS
<1>2. rows' = [rows EXCEPT ![k] = [[r EXCEPT !.response = record] EXCEPT !.expires = expiry]]
  BY <1>1, Zenon
<1>3. PICK x : x = [fingerprint |-> r.fingerprint, response |-> record, expires |-> expiry]
  OBVIOUS
<1>4. x \in Sqlx!Row /\ [[r EXCEPT !.response = record] EXCEPT !.expires = expiry] = x
  BY <1>3, SqlxFills
<1> QED
  BY <1>2, <1>4

\* A statement whose result is an outcome of the call is the instant at which the
\* call takes effect, whether its reply arrives or not.
LEMMA SqlxPerforms ==
    ASSUME NEW c \in Caller, NEW result, NEW t,
           Sqlx!Contract!Outcome(result, t) \in Sqlx!Contract!Outcomes(Sqlx!Table, Sqlx!Op(c)),
           Sqlx!Table' = t, Sqlx!Finish(c, result)
    PROVE  Sqlx!Contract!Next
<1>1. PICK x : x = Sqlx!Contract!Outcome(result, t)
  OBVIOUS
<1>2. x.result = result /\ x.table = t
  BY <1>1 DEF Sqlx!Contract!Outcome
<1>3. Sqlx!Contract!Without(Sqlx!Table, {}) = Sqlx!Table
  BY DEF Sqlx!Table, Sqlx!Contract!Without
<1>a. Sqlx!Contract!Without(t, {}) = t
  <2>1. t = [k \in Key |-> Sqlx!Table'[k]]
    BY DEF Sqlx!Table
  <2> QED
    BY <2>1 DEF Sqlx!Contract!Without
<1>4. Sqlx!Respond(c, result) \/ Sqlx!Respond(c, Sqlx!Plain("unavailable"))
  BY DEF Sqlx!Finish
<1>5. Sqlx!Contract!Respond(c, result) \/ Sqlx!Contract!Respond(c, Sqlx!Contract!Plain("unavailable"))
  BY <1>4, SqlxCalls
<1>6. Sqlx!Contract!Pending(c)
  BY <1>4, SqlxCalls DEF Sqlx!Respond
<1>7. x \in Sqlx!Contract!Outcomes(Sqlx!Contract!Without(Sqlx!Table, {}), Sqlx!Contract!Op(c))
  BY <1>1, <1>3, SqlxCalls
<1>8. Sqlx!Table' = Sqlx!Contract!Without(x.table, {})
  BY <1>2, <1>a
<1>9. Sqlx!Contract!Respond(c, x.result) \/ Sqlx!Contract!Respond(c, Sqlx!Contract!Plain("unavailable"))
  BY <1>2, <1>5
<1>10. \E early, late \in SUBSET Key :
          \E outcome \in Sqlx!Contract!Outcomes(Sqlx!Contract!Without(Sqlx!Table, early), Sqlx!Contract!Op(c)) :
             /\ Sqlx!Table' = Sqlx!Contract!Without(outcome.table, late)
             /\ \/ Sqlx!Contract!Respond(c, outcome.result)
                \/ Sqlx!Contract!Respond(c, Sqlx!Contract!Plain("unavailable"))
  <2> WITNESS {} \in SUBSET Key, {} \in SUBSET Key
  <2> WITNESS x \in Sqlx!Contract!Outcomes(Sqlx!Contract!Without(Sqlx!Table, {}), Sqlx!Contract!Op(c))
  <2> QED
    BY <1>8, <1>9
<1>11. Sqlx!Contract!Perform(c)
  BY <1>6, <1>10 DEF Sqlx!Contract!Perform
<1> QED
  BY <1>11 DEF Sqlx!Contract!Next

\* A pending call is an operation.
LEMMA SqlxTypes ==
    ASSUME Sqlx!TypeOK, NEW c \in Caller, Sqlx!Pending(c), NEW o, o = Sqlx!Op(c)
    PROVE  /\ o \in Sqlx!Operation /\ o.key \in Key /\ o.fingerprint \in Fingerprint
           /\ o.op = "complete" => o.record \in Sqlx!Record
           /\ sqlxCall[c] \in [operation : Sqlx!Operation, result : Sqlx!Result \cup {None}]
<1>1. sqlxCall[c] \in [operation : Sqlx!Operation, result : Sqlx!Result \cup {None}]
  BY DEF Sqlx!TypeOK, Sqlx!CallType, Sqlx!Pending
<1>2. o \in Sqlx!Operation
  BY <1>1 DEF Sqlx!Op
<1>3. o.key \in Key /\ o.fingerprint \in Fingerprint /\ (o.op = "complete" => o.record \in Sqlx!Record)
  BY <1>2 DEF Sqlx!Operation
<1> QED
  BY <1>1, <1>2, <1>3

\* The outcomes the contract allows, in the words of the store.
LEMMA SqlxOutcomes ==
    ASSUME rows \in [Key -> Sqlx!Row \cup {None}], NEW o, o.key \in Key, NEW t, t = Sqlx!Table
    PROVE  /\ (o.op = "begin" /\ rows[o.key] = None) =>
                Sqlx!Contract!Outcome(Sqlx!Plain("leader"),
                    [t EXCEPT ![o.key] = [fingerprint |-> o.fingerprint, response |-> None]])
                    \in Sqlx!Contract!Outcomes(t, o)
           /\ (o.op = "begin" /\ rows[o.key] # None) =>
                Sqlx!Contract!Outcome(Sqlx!Plain("conflict"), t) \in Sqlx!Contract!Outcomes(t, o)
           /\ (o.op = "begin" /\ Sqlx!Matching(o) /\ rows[o.key].response # None) =>
                Sqlx!Contract!Outcome(Sqlx!Replay(rows[o.key].response), t) \in Sqlx!Contract!Outcomes(t, o)
           /\ (o.op = "complete" /\ rows[o.key] = None) =>
                Sqlx!Contract!Outcome(Sqlx!Plain("unreserved"), t) \in Sqlx!Contract!Outcomes(t, o)
           /\ (o.op = "complete" /\ rows[o.key] # None /\ ~Sqlx!Matching(o)) =>
                Sqlx!Contract!Outcome(Sqlx!Plain("conflict"), t) \in Sqlx!Contract!Outcomes(t, o)
           /\ (o.op = "complete" /\ Sqlx!Matching(o) /\ rows[o.key].response = None) =>
                Sqlx!Contract!Outcome(Sqlx!Plain("ok"), [t EXCEPT ![o.key].response = o.record])
                    \in Sqlx!Contract!Outcomes(t, o)
           /\ (o.op = "complete" /\ Sqlx!Matching(o)) =>
                Sqlx!Contract!Outcome(Sqlx!Plain("ok"), t) \in Sqlx!Contract!Outcomes(t, o)
           /\ (o.op = "release" /\ Sqlx!Matching(o) /\ rows[o.key].response = None) =>
                Sqlx!Contract!Outcome(Sqlx!Plain("ok"), [t EXCEPT ![o.key] = None])
                    \in Sqlx!Contract!Outcomes(t, o)
           /\ (o.op = "release" /\ ~(Sqlx!Matching(o) /\ rows[o.key].response = None)) =>
                Sqlx!Contract!Outcome(Sqlx!Plain("ok"), t) \in Sqlx!Contract!Outcomes(t, o)
<1>a. /\ t[o.key] = None <=> rows[o.key] = None
      /\ rows[o.key] # None => t[o.key].fingerprint = rows[o.key].fingerprint /\ t[o.key].response = rows[o.key].response
  BY SqlxRows
<1>b. /\ Sqlx!Contract!Matches(t, o) <=> Sqlx!Matching(o)
      /\ Sqlx!Contract!Recorded(t, o) <=> (Sqlx!Matching(o) /\ rows[o.key].response # None)
  BY <1>a DEF Sqlx!Matching, Sqlx!Contract!Matches, Sqlx!Contract!Recorded
<1>c. Sqlx!Matching(o) => rows[o.key] # None
  BY DEF Sqlx!Matching
<1>d. \A r : Sqlx!Contract!Plain(r) = Sqlx!Plain(r) /\ Sqlx!Contract!Replay(r) = Sqlx!Replay(r)
  BY SqlxCalls
<1>1. ASSUME o.op = "begin" PROVE Sqlx!Contract!Outcomes(t, o) = Sqlx!Contract!BeginOutcomes(t, o)
  BY <1>1 DEF Sqlx!Contract!Outcomes
<1>2. ASSUME o.op = "complete" PROVE Sqlx!Contract!Outcomes(t, o) = Sqlx!Contract!CompleteOutcomes(t, o)
  BY <1>2 DEF Sqlx!Contract!Outcomes
<1>3. ASSUME o.op = "release" PROVE Sqlx!Contract!Outcomes(t, o) = Sqlx!Contract!ReleaseOutcomes(t, o)
  BY <1>3 DEF Sqlx!Contract!Outcomes
<1>4. CASE o.op = "begin"
  <2>1. CASE rows[o.key] = None
    BY <1>a, <1>c, <1>d, <1>1, <1>4, <2>1 DEF Sqlx!Contract!BeginOutcomes
  <2>2. CASE rows[o.key] # None
    BY <1>a, <1>b, <1>d, <1>1, <1>4, <2>2 DEF Sqlx!Contract!BeginOutcomes
  <2> QED
    BY <2>1, <2>2
<1>5. CASE o.op = "complete"
  <2>1. CASE ~Sqlx!Matching(o)
    BY <1>a, <1>b, <1>d, <1>2, <1>5, <2>1 DEF Sqlx!Contract!CompleteOutcomes
  <2>2. CASE Sqlx!Matching(o) /\ rows[o.key].response = None
    BY <1>a, <1>b, <1>c, <1>d, <1>2, <1>5, <2>2 DEF Sqlx!Contract!CompleteOutcomes
  <2>3. CASE Sqlx!Matching(o) /\ rows[o.key].response # None
    BY <1>a, <1>b, <1>c, <1>d, <1>2, <1>5, <2>3 DEF Sqlx!Contract!CompleteOutcomes
  <2> QED
    BY <2>1, <2>2, <2>3
<1>6. CASE o.op = "release"
  BY <1>b, <1>d, <1>3, <1>6 DEF Sqlx!Contract!ReleaseOutcomes
<1> QED
  BY <1>4, <1>5, <1>6

\* A purge that goes by some clock reading takes rows out of the table.
LEMMA SqlxPurges ==
    ASSUME NEW now, rows' = Sqlx!Unexpired(now), UNCHANGED sqlxCall
    PROVE  Sqlx!Contract!Next
<1>1. PICK lost : lost = {k \in Key : rows[k] # None /\ rows[k].expires <= now}
  OBVIOUS
<1>2. Sqlx!Table' = Sqlx!Contract!Without(Sqlx!Table, lost)
  <2>1. rows' = [k \in Key |-> IF k \in lost THEN None ELSE rows[k]]
    BY <1>1 DEF Sqlx!Unexpired
  <2> QED
    BY <2>1 DEF Sqlx!Table, Sqlx!Contract!Without
<1>3. Sqlx!Contract!Lose(lost) /\ lost \in SUBSET Key
  BY <1>1, <1>2 DEF Sqlx!Contract!Lose
<1> QED
  BY <1>3 DEF Sqlx!Contract!Next

\* Each statement is a step of the contract, or not yet the effect of its call: a
\* SELECT that finds a row answers, one that finds none leaves it to the INSERT,
\* and an UPDATE that affects no row leaves it to the SELECT after it
\* (idempotency.rs sqlite_begin, sqlite_complete, pg_begin, pg_complete).
LEMMA SqlxRefines ==
    ASSUME Sqlx!IInv, Sqlx!Next
    PROVE  Sqlx!Contract!Next \/ UNCHANGED <<sqlxCall, Sqlx!Table>>
<1>1. Sqlx!TypeOK /\ rows \in [Key -> Sqlx!Row \cup {None}] /\ sqlxClock \in Nat /\ SqlxTtl \in Nat
  BY StoresAssumption DEF Sqlx!IInv, Sqlx!TypeOK
<1>2. UNCHANGED rows => UNCHANGED Sqlx!Table
  BY DEF Sqlx!Table
<1>3. ASSUME NEW c \in Caller, Sqlx!LoadPurge(c) \/ Sqlx!SwapPurge(c) PROVE UNCHANGED <<sqlxCall, Sqlx!Table>>
  BY <1>2, <1>3 DEF Sqlx!LoadPurge, Sqlx!SwapPurge, Sqlx!Continue
<1>4. ASSUME NEW c \in Caller, Sqlx!RunPurge(c) PROVE Sqlx!Contract!Next
  BY <1>4, SqlxPurges DEF Sqlx!RunPurge, Sqlx!Continue
<1>5. ASSUME NEW c \in Caller, Sqlx!SelectRow(c) PROVE Sqlx!Contract!Next \/ UNCHANGED <<sqlxCall, Sqlx!Table>>
  <2>1. PICK o : o = Sqlx!Op(c)
    OBVIOUS
  <2>2. Sqlx!Pending(c) /\ o.op = "begin" /\ UNCHANGED Sqlx!Table
    BY <1>2, <1>5, <2>1 DEF Sqlx!SelectRow, Sqlx!At
  <2>3. o.key \in Key
    BY <1>1, <2>1, <2>2, SqlxTypes
  <2>4. CASE rows[o.key] = None
    BY <1>5, <2>1, <2>2, <2>4 DEF Sqlx!SelectRow, Sqlx!Continue
  <2>5. CASE rows[o.key] # None
    <3>1. Sqlx!Finish(c, IF Sqlx!Matching(o) /\ rows[o.key].response # None
                         THEN Sqlx!Replay(rows[o.key].response) ELSE Sqlx!Plain("conflict"))
      BY <1>5, <2>1, <2>5 DEF Sqlx!SelectRow
    <3>2. CASE Sqlx!Matching(o) /\ rows[o.key].response # None
      <4>1. Sqlx!Finish(c, Sqlx!Replay(rows[o.key].response))
        BY <3>1, <3>2
      <4> QED
        BY <1>1, <2>1, <2>2, <2>3, <3>2, <4>1, SqlxOutcomes, SqlxPerforms
    <3>3. CASE ~(Sqlx!Matching(o) /\ rows[o.key].response # None)
      <4>1. Sqlx!Finish(c, Sqlx!Plain("conflict"))
        BY <3>1, <3>3
      <4> QED
        BY <1>1, <2>1, <2>2, <2>3, <2>5, <4>1, SqlxOutcomes, SqlxPerforms
    <3> QED
      BY <3>2, <3>3
  <2> QED
    BY <2>4, <2>5
<1>6. ASSUME NEW c \in Caller, Sqlx!InsertRow(c) PROVE Sqlx!Contract!Next
  <2>1. PICK o : o = Sqlx!Op(c)
    OBVIOUS
  <2>2. Sqlx!Pending(c) /\ o.op = "begin"
    BY <1>6, <2>1 DEF Sqlx!InsertRow, Sqlx!At
  <2>3. o.key \in Key /\ o.fingerprint \in Fingerprint
    BY <1>1, <2>1, <2>2, SqlxTypes
  <2>4. CASE rows[o.key] = None
    <3>1. PICK x : x = [fingerprint |-> o.fingerprint, response |-> None, expires |-> sqlxClock + SqlxTtl]
      OBVIOUS
    <3>2. rows' = [rows EXCEPT ![o.key] = x] /\ Sqlx!Finish(c, Sqlx!Plain("leader"))
      BY <1>6, <2>1, <2>4, <3>1 DEF Sqlx!InsertRow
    <3>3. x \in Sqlx!Row /\ x # None /\ x.fingerprint = o.fingerprint /\ x.response = None
      BY <1>1, <2>3, <3>1, RowAssumption DEF Sqlx!Row
    <3>4. Sqlx!Table' = [Sqlx!Table EXCEPT ![o.key] = [fingerprint |-> o.fingerprint, response |-> None]]
      BY <1>1, <2>3, <3>2, <3>3, SqlxWrites
    <3> QED
      BY <1>1, <2>1, <2>2, <2>3, <2>4, <3>2, <3>4, SqlxOutcomes, SqlxPerforms
  <2>5. CASE rows[o.key] # None
    <3>1. UNCHANGED Sqlx!Table /\ Sqlx!Finish(c, Sqlx!Plain("conflict"))
      BY <1>2, <1>6, <2>1, <2>5 DEF Sqlx!InsertRow
    <3> QED
      BY <1>1, <2>1, <2>2, <2>3, <2>5, <3>1, SqlxOutcomes, SqlxPerforms
  <2> QED
    BY <2>4, <2>5
<1>7. ASSUME NEW c \in Caller, Sqlx!UpdateRow(c) PROVE Sqlx!Contract!Next \/ UNCHANGED <<sqlxCall, Sqlx!Table>>
  <2>1. PICK o : o = Sqlx!Op(c)
    OBVIOUS
  <2>2. Sqlx!Pending(c) /\ o.op = "complete"
    BY <1>7, <2>1 DEF Sqlx!UpdateRow, Sqlx!At
  <2>3. o.key \in Key /\ o.record \in Sqlx!Record
    BY <1>1, <2>1, <2>2, SqlxTypes
  <2>4. CASE Sqlx!Matching(o) /\ rows[o.key].response = None
    <3>1. /\ rows' = [rows EXCEPT ![o.key].response = o.record, ![o.key].expires = sqlxClock + SqlxTtl]
          /\ Sqlx!Finish(c, Sqlx!Plain("ok"))
      BY <1>7, <2>1, <2>4 DEF Sqlx!UpdateRow
    <3>2. rows[o.key] \in Sqlx!Row /\ rows[o.key] # None
      BY <1>1, <2>3, <2>4 DEF Sqlx!Matching
    <3>3. sqlxClock + SqlxTtl \in Nat
      BY <1>1
    <3>4. PICK x : x = [fingerprint |-> rows[o.key].fingerprint, response |-> o.record,
                        expires |-> sqlxClock + SqlxTtl]
      OBVIOUS
    <3>a. x \in Sqlx!Row /\ rows' = [rows EXCEPT ![o.key] = x]
      <4>1. PICK k \in Key, record \in Sqlx!Record, expiry \in Nat :
               k = o.key /\ record = o.record /\ expiry = sqlxClock + SqlxTtl
        BY <2>3, <3>3
      <4>2. PICK r \in Sqlx!Row : r = rows[o.key]
        BY <3>2
      <4>3. rows' = [rows EXCEPT ![o.key] = [[r EXCEPT !.response = record] EXCEPT !.expires = expiry]]
        BY <3>1, <4>1, <4>2, Zenon
      <4>4. x = [fingerprint |-> r.fingerprint, response |-> record, expires |-> expiry]
        BY <3>4, <4>1, <4>2
      <4>5. x \in Sqlx!Row /\ [[r EXCEPT !.response = record] EXCEPT !.expires = expiry] = x
        BY <4>4, SqlxFills
      <4> QED
        BY <4>3, <4>5
    <3>5. x # None /\ x.fingerprint = rows[o.key].fingerprint /\ x.response = o.record
      BY <3>4, <3>a, RowAssumption
    <3>6. Sqlx!Table' = [Sqlx!Table EXCEPT ![o.key] =
                           [fingerprint |-> rows[o.key].fingerprint, response |-> o.record]]
      BY <1>1, <2>3, <3>a, <3>5, SqlxWrites
    <3>7. Sqlx!Table[o.key] = [fingerprint |-> rows[o.key].fingerprint, response |-> rows[o.key].response]
      BY <2>3, <3>2 DEF Sqlx!Table
    <3>8. Sqlx!Table' = [Sqlx!Table EXCEPT ![o.key].response = o.record]
      <4>1. PICK t : t = Sqlx!Table
        OBVIOUS
      <4>2. [t[o.key] EXCEPT !.response = o.record] = [fingerprint |-> rows[o.key].fingerprint, response |-> o.record]
        BY <3>7, <4>1
      <4> QED
        BY <3>6, <4>1, <4>2, Zenon
    <3> QED
      BY <1>1, <2>1, <2>2, <2>3, <2>4, <3>1, <3>8, SqlxOutcomes, SqlxPerforms
  <2>5. CASE ~(Sqlx!Matching(o) /\ rows[o.key].response = None)
    BY <1>2, <1>7, <2>1, <2>5 DEF Sqlx!UpdateRow, Sqlx!Continue
  <2> QED
    BY <2>4, <2>5
<1>8. ASSUME NEW c \in Caller, Sqlx!CheckRow(c) PROVE Sqlx!Contract!Next
  <2>1. PICK o : o = Sqlx!Op(c)
    OBVIOUS
  <2>2. Sqlx!Pending(c) /\ o.op = "complete" /\ UNCHANGED Sqlx!Table
    BY <1>2, <1>8, <2>1 DEF Sqlx!CheckRow, Sqlx!At
  <2>3. o.key \in Key
    BY <1>1, <2>1, <2>2, SqlxTypes
  <2>4. Sqlx!Finish(c, Sqlx!Plain(IF rows[o.key] = None THEN "unreserved"
                                  ELSE IF Sqlx!Matching(o) THEN "ok" ELSE "conflict"))
    BY <1>8, <2>1 DEF Sqlx!CheckRow
  <2>5. CASE rows[o.key] = None
    <3>1. Sqlx!Finish(c, Sqlx!Plain("unreserved"))
      BY <2>4, <2>5
    <3> QED
      BY <1>1, <2>1, <2>2, <2>3, <2>5, <3>1, SqlxOutcomes, SqlxPerforms
  <2>6. CASE rows[o.key] # None /\ Sqlx!Matching(o)
    <3>1. Sqlx!Finish(c, Sqlx!Plain("ok"))
      BY <2>4, <2>6
    <3> QED
      BY <1>1, <2>1, <2>2, <2>3, <2>6, <3>1, SqlxOutcomes, SqlxPerforms
  <2>7. CASE rows[o.key] # None /\ ~Sqlx!Matching(o)
    <3>1. Sqlx!Finish(c, Sqlx!Plain("conflict"))
      BY <2>4, <2>7
    <3> QED
      BY <1>1, <2>1, <2>2, <2>3, <2>7, <3>1, SqlxOutcomes, SqlxPerforms
  <2> QED
    BY <2>5, <2>6, <2>7
<1>9. ASSUME NEW c \in Caller, Sqlx!DeleteRow(c) PROVE Sqlx!Contract!Next
  <2>1. PICK o : o = Sqlx!Op(c)
    OBVIOUS
  <2>2. Sqlx!Pending(c) /\ o.op = "release" /\ Sqlx!Finish(c, Sqlx!Plain("ok"))
    BY <1>9, <2>1 DEF Sqlx!DeleteRow, Sqlx!At
  <2>3. o.key \in Key
    BY <1>1, <2>1, <2>2, SqlxTypes
  <2>4. CASE Sqlx!Matching(o) /\ rows[o.key].response = None
    <3>1. rows' = [rows EXCEPT ![o.key] = None]
      BY <1>9, <2>1, <2>4 DEF Sqlx!DeleteRow
    <3>2. Sqlx!Table' = [Sqlx!Table EXCEPT ![o.key] = None]
      BY <1>1, <2>3, <3>1, SqlxWrites
    <3> QED
      BY <1>1, <2>1, <2>2, <2>3, <2>4, <3>2, SqlxOutcomes, SqlxPerforms
  <2>5. CASE ~(Sqlx!Matching(o) /\ rows[o.key].response = None)
    <3>1. UNCHANGED Sqlx!Table
      BY <1>2, <1>9, <2>1, <2>5 DEF Sqlx!DeleteRow
    <3> QED
      BY <1>1, <2>1, <2>2, <2>3, <2>5, <3>1, SqlxOutcomes, SqlxPerforms
  <2> QED
    BY <2>4, <2>5
<1>10. ASSUME NEW c \in Caller, Sqlx!Fail(c) PROVE Sqlx!Contract!Next
  BY <1>2, <1>10, SqlxCalls DEF Sqlx!Fail, Sqlx!Contract!Next, Sqlx!Contract!Fail
<1>11. ASSUME NEW c \in Caller, Sqlx!Return(c), UNCHANGED rows PROVE Sqlx!Contract!Next
  <2>1. Sqlx!Contract!Return(c)
    BY <1>11 DEF Sqlx!Return, Sqlx!Contract!Return, Sqlx!Returned, Sqlx!Contract!Returned
  <2> QED
    BY <1>2, <1>11, <2>1 DEF Sqlx!Contract!Next
<1>12. ASSUME NEW c \in Caller, NEW o \in Sqlx!Operation, Sqlx!Invoke(c, o), UNCHANGED rows PROVE Sqlx!Contract!Next
  <2>1. Sqlx!Contract!Invoke(c, o)
    BY <1>12 DEF Sqlx!Invoke, Sqlx!Contract!Invoke
  <2>2. o \in Sqlx!Contract!Operation
    BY DEF Sqlx!Operation, Sqlx!Contract!Operation, Sqlx!Record, Sqlx!Contract!Record
  <2> QED
    BY <1>2, <1>12, <2>1, <2>2 DEF Sqlx!Contract!Next
<1>13. CASE Sqlx!PurgeElsewhere
  BY <1>13, SqlxPurges DEF Sqlx!PurgeElsewhere
<1>14. CASE Sqlx!Tick
  BY <1>2, <1>14 DEF Sqlx!Tick
<1> QED
  BY <1>3, <1>4, <1>5, <1>6, <1>7, <1>8, <1>9, <1>10, <1>11, <1>12, <1>13, <1>14 DEF Sqlx!Next


\* Answering a call leaves the calls well typed.
LEMMA SqlxResponds ==
    ASSUME Sqlx!CallType, NEW c \in Caller, NEW r \in Sqlx!Result, Sqlx!Finish(c, r)
    PROVE  Sqlx!CallType'
<1>1. PICK q \in Sqlx!Result : Sqlx!Respond(c, q)
  BY DEF Sqlx!Finish, Sqlx!Plain, Sqlx!Result, Sqlx!Status
<1>2. sqlxCall[c] \in [operation : Sqlx!Operation, result : Sqlx!Result \cup {None}]
  BY <1>1 DEF Sqlx!CallType, Sqlx!Respond, Sqlx!Pending
<1>3. PICK x : x = [sqlxCall[c] EXCEPT !.result = q]
  OBVIOUS
<1>4. x \in [operation : Sqlx!Operation, result : Sqlx!Result \cup {None}]
  BY <1>2, <1>3
<1>5. sqlxCall' = [sqlxCall EXCEPT ![c] = x]
  BY <1>1, <1>3, Zenon DEF Sqlx!Respond
<1> QED
  BY <1>4, <1>5 DEF Sqlx!CallType

\* The answers of the statements are results of the trait.
LEMMA SqlxResults ==
    /\ \A s \in Sqlx!Status : Sqlx!Plain(s) \in Sqlx!Result
    /\ \A r \in Sqlx!Record : Sqlx!Replay(r) \in Sqlx!Result
BY DEF Sqlx!Plain, Sqlx!Replay, Sqlx!Result

\* Every statement keeps the store's invariant: a caller about to purge goes by a
\* clock reading of the past (purge.rs maybe_run).
LEMMA SqlxStep ==
    ASSUME Sqlx!IInv, [Sqlx!Next]_sqlxVars
    PROVE  Sqlx!IInv'
<1> USE DEF Sqlx!IInv
<1>1. /\ Sqlx!TypeOK /\ Sqlx!CallType /\ rows \in [Key -> Sqlx!Row \cup {None}] /\ sqlxClock \in Nat /\ SqlxTtl \in Nat
      /\ lastPurge \in Nat /\ step \in [Caller -> Sqlx!Step] /\ seen \in [Caller -> [now : Nat, last : Nat] \cup {None}]
      /\ Sqlx!PurgesReadTheClock
  BY StoresAssumption DEF Sqlx!TypeOK
<1>2. ASSUME NEW c \in Caller, NEW s \in Sqlx!Step \ {"swap", "purge"}, Sqlx!CallType',
             rows' \in [Key -> Sqlx!Row \cup {None}],
             step' = [step EXCEPT ![c] = s], UNCHANGED <<sqlxClock, lastPurge, seen>>
      PROVE  Sqlx!IInv'
  BY <1>1, <1>2 DEF Sqlx!TypeOK, Sqlx!PurgesReadTheClock
<1>3. ASSUME NEW c \in Caller, NEW r \in Sqlx!Result, Sqlx!Finish(c, r), rows' \in [Key -> Sqlx!Row \cup {None}],
             UNCHANGED <<sqlxClock, lastPurge, seen>>
      PROVE  Sqlx!IInv'
  <2>1. Sqlx!CallType'
    BY <1>1, <1>3, SqlxResponds
  <2>2. step' = [step EXCEPT ![c] = "start"]
    BY <1>3 DEF Sqlx!Finish
  <2> QED
    BY <1>2, <1>3, <2>1, <2>2 DEF Sqlx!Step
<1>4. ASSUME NEW c \in Caller, NEW s, Sqlx!Continue(c, s)
      PROVE  step' = [step EXCEPT ![c] = s] /\ Sqlx!CallType'
  BY <1>1, <1>4 DEF Sqlx!Continue, Sqlx!CallType
<1>5. ASSUME NEW c \in Caller, Sqlx!LoadPurge(c) PROVE Sqlx!IInv'
  <2>1. UNCHANGED <<rows, sqlxClock, lastPurge>>
    BY <1>5 DEF Sqlx!LoadPurge
  <2>2. CASE Sqlx!Continue(c, "select") /\ UNCHANGED seen
    BY <1>1, <1>2, <1>4, <2>1, <2>2 DEF Sqlx!Step
  <2>3. CASE Sqlx!Continue(c, "swap") /\ seen' = [seen EXCEPT ![c] = [now |-> sqlxClock, last |-> lastPurge]]
    <3>1. step' = [step EXCEPT ![c] = "swap"] /\ Sqlx!CallType'
      BY <1>4, <2>3
    <3>2. Sqlx!TypeOK'
      BY <1>1, <2>1, <2>3, <3>1 DEF Sqlx!TypeOK, Sqlx!Step
    <3>3. Sqlx!PurgesReadTheClock'
      BY <1>1, <2>1, <2>3, <3>1 DEF Sqlx!PurgesReadTheClock
    <3> QED
      BY <3>2, <3>3
  <2> QED
    BY <1>5, <2>2, <2>3 DEF Sqlx!LoadPurge
<1>6. ASSUME NEW c \in Caller, Sqlx!SwapPurge(c) PROVE Sqlx!IInv'
  <2>1. UNCHANGED <<rows, sqlxClock, seen>> /\ step[c] = "swap"
    BY <1>6 DEF Sqlx!SwapPurge, Sqlx!At
  <2>2. CASE Sqlx!Continue(c, "select") /\ UNCHANGED lastPurge
    BY <1>1, <1>2, <1>4, <2>1, <2>2 DEF Sqlx!Step
  <2>3. CASE Sqlx!Continue(c, "purge") /\ lastPurge' = seen[c].now
    <3>1. step' = [step EXCEPT ![c] = "purge"] /\ Sqlx!CallType'
      BY <1>4, <2>3
    <3>2. seen[c] \in [now : 0..sqlxClock, last : Nat]
      BY <1>1, <2>1 DEF Sqlx!PurgesReadTheClock
    <3>3. lastPurge' \in Nat
      BY <1>1, <2>3, <3>2
    <3>4. Sqlx!TypeOK'
      BY <1>1, <2>1, <3>1, <3>3 DEF Sqlx!TypeOK, Sqlx!Step
    <3>5. Sqlx!PurgesReadTheClock'
      BY <1>1, <2>1, <3>1, <3>2 DEF Sqlx!PurgesReadTheClock
    <3> QED
      BY <3>4, <3>5
  <2> QED
    BY <1>6, <2>2, <2>3 DEF Sqlx!SwapPurge
<1>7. ASSUME NEW c \in Caller, Sqlx!RunPurge(c) PROVE Sqlx!IInv'
  <2>1. rows' \in [Key -> Sqlx!Row \cup {None}]
    BY <1>1, <1>7 DEF Sqlx!RunPurge, Sqlx!Unexpired
  <2> QED
    BY <1>2, <1>4, <1>7, <2>1 DEF Sqlx!RunPurge, Sqlx!Step
<1>8. ASSUME NEW c \in Caller, Sqlx!SelectRow(c) PROVE Sqlx!IInv'
  <2>1. PICK row : row = rows[Sqlx!Op(c).key]
    OBVIOUS
  <2>2. Sqlx!Pending(c) /\ UNCHANGED <<rows, sqlxClock, lastPurge, seen>>
    BY <1>8 DEF Sqlx!SelectRow, Sqlx!At
  <2>3. row \in Sqlx!Row \cup {None}
    BY <1>1, <2>1, <2>2, SqlxTypes
  <2>4. CASE Sqlx!Continue(c, "insert")
    BY <1>1, <1>2, <1>4, <2>2, <2>4 DEF Sqlx!Step
  <2>5. CASE row # None /\ Sqlx!Finish(c, IF Sqlx!Matching(Sqlx!Op(c)) /\ row.response # None
                                          THEN Sqlx!Replay(row.response) ELSE Sqlx!Plain("conflict"))
    <3>1. PICK r : /\ Sqlx!Finish(c, r)
                   /\ r = Sqlx!Plain("conflict") \/ (row.response # None /\ r = Sqlx!Replay(row.response))
      BY <2>5
    <3>2. row.response \in Sqlx!Record \cup {None}
      BY <2>3, <2>5 DEF Sqlx!Row
    <3>3. r \in Sqlx!Result
      BY <3>1, <3>2, SqlxResults DEF Sqlx!Status
    <3> QED
      BY <1>1, <1>3, <2>2, <3>1, <3>3
  <2> QED
    BY <1>8, <2>1, <2>4, <2>5 DEF Sqlx!SelectRow
<1>9. ASSUME NEW c \in Caller, Sqlx!InsertRow(c) PROVE Sqlx!IInv'
  <2>1. PICK o : o = Sqlx!Op(c)
    OBVIOUS
  <2>2. Sqlx!Pending(c) /\ UNCHANGED <<sqlxClock, lastPurge, seen>>
    BY <1>9 DEF Sqlx!InsertRow, Sqlx!At
  <2>3. o.key \in Key /\ o.fingerprint \in Fingerprint
    BY <1>1, <2>1, <2>2, SqlxTypes
  <2>4. PICK s \in Sqlx!Status : Sqlx!Finish(c, Sqlx!Plain(s))
    BY <1>9 DEF Sqlx!InsertRow, Sqlx!Status
  <2>5. \/ UNCHANGED rows
        \/ rows' = [rows EXCEPT ![o.key] = [fingerprint |-> o.fingerprint, response |-> None,
                                             expires |-> sqlxClock + SqlxTtl]]
    BY <1>9, <2>1 DEF Sqlx!InsertRow
  <2>6. rows' \in [Key -> Sqlx!Row \cup {None}]
    BY <1>1, <2>3, <2>5 DEF Sqlx!Row
  <2> QED
    BY <1>3, <2>2, <2>4, <2>6, SqlxResults
<1>10. ASSUME NEW c \in Caller, Sqlx!UpdateRow(c) PROVE Sqlx!IInv'
  <2>1. PICK o : o = Sqlx!Op(c)
    OBVIOUS
  <2>2. Sqlx!Pending(c) /\ o.op = "complete" /\ UNCHANGED <<sqlxClock, lastPurge, seen>>
    BY <1>10, <2>1 DEF Sqlx!UpdateRow, Sqlx!At
  <2>3. o.key \in Key /\ o.record \in Sqlx!Record
    BY <1>1, <2>1, <2>2, SqlxTypes
  <2>4. CASE /\ Sqlx!Matching(o) /\ Sqlx!Finish(c, Sqlx!Plain("ok"))
             /\ rows' = [rows EXCEPT ![o.key].response = o.record, ![o.key].expires = sqlxClock + SqlxTtl]
    <3>1. sqlxClock + SqlxTtl \in Nat /\ rows[o.key] # None
      BY <1>1, <2>4 DEF Sqlx!Matching
    <3>2. PICK x \in Sqlx!Row : rows' = [rows EXCEPT ![o.key] = x]
      BY <1>1, <2>3, <2>4, <3>1, SqlxUpdates
    <3>3. rows' \in [Key -> Sqlx!Row \cup {None}]
      BY <1>1, <2>3, <3>2
    <3> QED
      BY <1>3, <2>2, <2>4, <3>3, SqlxResults DEF Sqlx!Status
  <2>5. CASE Sqlx!Continue(c, "check") /\ UNCHANGED rows
    BY <1>1, <1>2, <1>4, <2>2, <2>5 DEF Sqlx!Step
  <2> QED
    BY <1>10, <2>1, <2>4, <2>5 DEF Sqlx!UpdateRow
<1>11. ASSUME NEW c \in Caller, Sqlx!CheckRow(c) PROVE Sqlx!IInv'
  <2>1. PICK s \in Sqlx!Status : Sqlx!Finish(c, Sqlx!Plain(s)) /\ UNCHANGED <<rows, sqlxClock, lastPurge, seen>>
    BY <1>11 DEF Sqlx!CheckRow, Sqlx!Status
  <2> QED
    BY <1>1, <1>3, <2>1, SqlxResults
<1>12. ASSUME NEW c \in Caller, Sqlx!DeleteRow(c) PROVE Sqlx!IInv'
  <2>1. PICK o : o = Sqlx!Op(c)
    OBVIOUS
  <2>2. Sqlx!Pending(c) /\ UNCHANGED <<sqlxClock, lastPurge, seen>> /\ Sqlx!Finish(c, Sqlx!Plain("ok"))
    BY <1>12 DEF Sqlx!DeleteRow, Sqlx!At
  <2>3. o.key \in Key
    BY <1>1, <2>1, <2>2, SqlxTypes
  <2>4. rows' \in [Key -> Sqlx!Row \cup {None}]
    BY <1>1, <1>12, <2>1, <2>3 DEF Sqlx!DeleteRow
  <2> QED
    BY <1>3, <2>2, <2>4, SqlxResults DEF Sqlx!Status
<1>13. ASSUME NEW c \in Caller, Sqlx!Fail(c) PROVE Sqlx!IInv'
  <2>1. Sqlx!Finish(c, Sqlx!Plain("unavailable")) /\ UNCHANGED <<rows, sqlxClock, lastPurge, seen>>
    BY <1>13 DEF Sqlx!Fail, Sqlx!Finish
  <2> QED
    BY <1>1, <1>3, <2>1, SqlxResults DEF Sqlx!Status
<1>14. ASSUME NEW c \in Caller, Sqlx!Return(c) \/ \E o \in Sqlx!Operation : Sqlx!Invoke(c, o),
              UNCHANGED <<rows, sqlxClock, lastPurge, step, seen>>
       PROVE  Sqlx!IInv'
  <2>1. PICK x \in [operation : Sqlx!Operation, result : Sqlx!Result \cup {None}] \cup {None} :
           sqlxCall' = [sqlxCall EXCEPT ![c] = x]
    BY <1>14 DEF Sqlx!Return, Sqlx!Invoke
  <2>2. Sqlx!CallType'
    BY <1>1, <2>1 DEF Sqlx!CallType
  <2> QED
    BY <1>1, <1>14, <2>2 DEF Sqlx!TypeOK, Sqlx!PurgesReadTheClock
<1>15. CASE Sqlx!PurgeElsewhere
  BY <1>1, <1>15 DEF Sqlx!PurgeElsewhere, Sqlx!Unexpired, Sqlx!TypeOK, Sqlx!PurgesReadTheClock, Sqlx!CallType
<1>16. CASE Sqlx!Tick
  <2>1. sqlxClock' = sqlxClock + 1 /\ UNCHANGED <<sqlxCall, rows, lastPurge, step, seen>>
    BY <1>16 DEF Sqlx!Tick
  <2>2. Sqlx!TypeOK'
    BY <1>1, <2>1 DEF Sqlx!TypeOK, Sqlx!CallType
  <2>3. Sqlx!PurgesReadTheClock'
    BY <1>1, <2>1 DEF Sqlx!PurgesReadTheClock
  <2> QED
    BY <2>2, <2>3
<1>17. CASE UNCHANGED sqlxVars
  BY <1>1, <1>17 DEF sqlxVars, Sqlx!TypeOK, Sqlx!CallType, Sqlx!PurgesReadTheClock
<1> QED
  BY <1>5, <1>6, <1>7, <1>8, <1>9, <1>10, <1>11, <1>12, <1>13, <1>14, <1>15, <1>16, <1>17 DEF Sqlx!Next

\* An answer that replays nothing, or a record of the caller's fingerprint, keeps
\* the promise, whether it arrives or not.
LEMMA SqlxAnswers ==
    ASSUME Sqlx!CallType, Sqlx!ReplayMatchesFingerprint, NEW c \in Caller,
           NEW r \in Sqlx!Result, Sqlx!Finish(c, r),
           r.status = "replay" => r.record.of = Sqlx!Op(c).fingerprint
    PROVE  Sqlx!ReplayMatchesFingerprint'
<1>1. PICK q \in Sqlx!Result : /\ Sqlx!Respond(c, q)
                               /\ q.status = "replay" => q.record.of = Sqlx!Op(c).fingerprint
  BY SqlxResults DEF Sqlx!Finish, Sqlx!Status, Sqlx!Plain
<1>2. sqlxCall[c] \in [operation : Sqlx!Operation, result : Sqlx!Result \cup {None}]
  BY <1>1 DEF Sqlx!CallType, Sqlx!Respond, Sqlx!Pending
<1>3. \A d \in Caller \ {c} : sqlxCall'[d] = sqlxCall[d]
  BY <1>1 DEF Sqlx!CallType, Sqlx!Respond
<1>4. sqlxCall'[c].result = q /\ sqlxCall'[c].operation = sqlxCall[c].operation
  BY <1>1, <1>2 DEF Sqlx!CallType, Sqlx!Respond
<1> QED
  BY <1>1, <1>3, <1>4 DEF Sqlx!ReplayMatchesFingerprint, Sqlx!Returned, Sqlx!Op

\* Every statement keeps records under their own fingerprint, and the SELECT of a
\* begin replays them to no other, whatever ran since the statement before it.
LEMMA SqlxReplays ==
    ASSUME Sqlx!IInv, Sqlx!RecordsAreOwn, Sqlx!ReplayMatchesFingerprint, [Sqlx!Next]_sqlxVars
    PROVE  Sqlx!RecordsAreOwn' /\ Sqlx!ReplayMatchesFingerprint'
<1>1. /\ Sqlx!TypeOK /\ Sqlx!CallType /\ rows \in [Key -> Sqlx!Row \cup {None}]
      /\ sqlxClock \in Nat /\ SqlxTtl \in Nat
  BY StoresAssumption DEF Sqlx!IInv, Sqlx!TypeOK
<1>2. ASSUME NEW c \in Caller, NEW s \in Sqlx!Status, Sqlx!Finish(c, Sqlx!Plain(s))
      PROVE  Sqlx!ReplayMatchesFingerprint'
  <2>1. Sqlx!Plain(s) \in Sqlx!Result /\ Sqlx!Plain(s).status # "replay"
    BY SqlxResults DEF Sqlx!Plain, Sqlx!Status
  <2> QED
    BY <1>1, <1>2, <2>1, SqlxAnswers
<1>3. ASSUME UNCHANGED sqlxCall PROVE Sqlx!ReplayMatchesFingerprint'
  BY <1>3 DEF Sqlx!ReplayMatchesFingerprint, Sqlx!Returned, Sqlx!Op
<1>4. ASSUME NEW now, rows' = Sqlx!Unexpired(now) PROVE Sqlx!RecordsAreOwn'
  BY <1>1, <1>4 DEF Sqlx!Unexpired, Sqlx!RecordsAreOwn
<1>5. ASSUME UNCHANGED rows PROVE Sqlx!RecordsAreOwn'
  BY <1>5 DEF Sqlx!RecordsAreOwn
<1>6. ASSUME NEW c \in Caller, Sqlx!LoadPurge(c) \/ Sqlx!SwapPurge(c)
      PROVE  Sqlx!RecordsAreOwn' /\ Sqlx!ReplayMatchesFingerprint'
  BY <1>3, <1>5, <1>6 DEF Sqlx!LoadPurge, Sqlx!SwapPurge, Sqlx!Continue
<1>7. ASSUME NEW c \in Caller, Sqlx!RunPurge(c)
      PROVE  Sqlx!RecordsAreOwn' /\ Sqlx!ReplayMatchesFingerprint'
  BY <1>3, <1>4, <1>7 DEF Sqlx!RunPurge, Sqlx!Continue
<1>8. ASSUME NEW c \in Caller, Sqlx!SelectRow(c)
      PROVE  Sqlx!RecordsAreOwn' /\ Sqlx!ReplayMatchesFingerprint'
  <2>1. PICK o : o = Sqlx!Op(c)
    OBVIOUS
  <2>2. Sqlx!Pending(c) /\ UNCHANGED rows
    BY <1>8 DEF Sqlx!SelectRow, Sqlx!At
  <2>3. o.key \in Key
    BY <1>1, <2>1, <2>2, SqlxTypes
  <2>4. ASSUME Sqlx!Matching(o), rows[o.key].response # None,
               Sqlx!Finish(c, Sqlx!Replay(rows[o.key].response))
        PROVE  Sqlx!ReplayMatchesFingerprint'
    <3>1. rows[o.key] \in Sqlx!Row /\ rows[o.key].fingerprint = o.fingerprint
      BY <1>1, <2>3, <2>4 DEF Sqlx!Matching
    <3>2. rows[o.key].response \in Sqlx!Record /\ rows[o.key].response.of = o.fingerprint
      BY <2>3, <2>4, <3>1, NoneAssumption DEF Sqlx!RecordsAreOwn, Sqlx!Row, Sqlx!Matching
    <3>3. PICK r : r = Sqlx!Replay(rows[o.key].response)
      OBVIOUS
    <3>4. r \in Sqlx!Result /\ r.record.of = Sqlx!Op(c).fingerprint
      BY <2>1, <3>2, <3>3, SqlxResults DEF Sqlx!Replay
    <3> QED
      BY <1>1, <2>4, <3>3, <3>4, SqlxAnswers
  <2>5. \/ UNCHANGED sqlxCall
        \/ Sqlx!Finish(c, Sqlx!Plain("conflict"))
        \/ /\ Sqlx!Matching(o) /\ rows[o.key].response # None
           /\ Sqlx!Finish(c, Sqlx!Replay(rows[o.key].response))
    BY <1>8, <2>1 DEF Sqlx!SelectRow, Sqlx!Continue
  <2> QED
    BY <1>2, <1>3, <1>5, <2>2, <2>4, <2>5 DEF Sqlx!Status
<1>9. ASSUME NEW c \in Caller, Sqlx!InsertRow(c)
      PROVE  Sqlx!RecordsAreOwn' /\ Sqlx!ReplayMatchesFingerprint'
  <2>1. PICK o : o = Sqlx!Op(c)
    OBVIOUS
  <2>2. o.key \in Key
    BY <1>1, <1>9, <2>1, SqlxTypes DEF Sqlx!InsertRow, Sqlx!At
  <2>3. PICK s \in Sqlx!Status : Sqlx!Finish(c, Sqlx!Plain(s))
    BY <1>9 DEF Sqlx!InsertRow, Sqlx!Status
  <2>4. ASSUME rows' = [rows EXCEPT ![o.key] = [fingerprint |-> o.fingerprint, response |-> None,
                                                 expires |-> sqlxClock + SqlxTtl]]
        PROVE  Sqlx!RecordsAreOwn'
    BY <1>1, <2>2, <2>4 DEF Sqlx!RecordsAreOwn
  <2> QED
    BY <1>2, <1>5, <1>9, <2>1, <2>3, <2>4 DEF Sqlx!InsertRow
<1>10. ASSUME NEW c \in Caller, Sqlx!UpdateRow(c)
       PROVE  Sqlx!RecordsAreOwn' /\ Sqlx!ReplayMatchesFingerprint'
  <2>1. PICK o : o = Sqlx!Op(c)
    OBVIOUS
  <2>2. Sqlx!Pending(c) /\ o.op = "complete"
    BY <1>10, <2>1 DEF Sqlx!UpdateRow, Sqlx!At
  <2>3. o \in Sqlx!Operation /\ o.key \in Key /\ o.record \in Sqlx!Record
    BY <1>1, <2>1, <2>2, SqlxTypes
  <2>4. o.record.of = o.fingerprint
    BY <2>2, <2>3 DEF Sqlx!Operation
  <2>5. ASSUME Sqlx!Matching(o),
               rows' = [rows EXCEPT ![o.key].response = o.record, ![o.key].expires = sqlxClock + SqlxTtl]
        PROVE  Sqlx!RecordsAreOwn'
    <3>1. sqlxClock + SqlxTtl \in Nat /\ rows[o.key] # None /\ rows[o.key].fingerprint = o.fingerprint
      BY <1>1, <2>5 DEF Sqlx!Matching
    <3>2. PICK k \in Key, record \in Sqlx!Record, expiry \in Nat :
             k = o.key /\ record = o.record /\ expiry = sqlxClock + SqlxTtl
      BY <2>3, <3>1
    <3>3. PICK r \in Sqlx!Row : r = rows[k]
      BY <1>1, <3>1, <3>2
    <3>4. rows' = [rows EXCEPT ![k] = [[r EXCEPT !.response = record] EXCEPT !.expires = expiry]]
      BY <2>5, <3>2, <3>3, Zenon
    <3>5. PICK x : x = [fingerprint |-> r.fingerprint, response |-> record, expires |-> expiry]
      OBVIOUS
    <3>6. x \in Sqlx!Row /\ [[r EXCEPT !.response = record] EXCEPT !.expires = expiry] = x
      BY <3>5, SqlxFills
    <3>7. rows' = [rows EXCEPT ![k] = x]
      BY <3>4, <3>6
    <3>8. rows'[k] = x /\ \A j \in Key \ {k} : rows'[j] = rows[j]
      BY <1>1, <3>7
    <3>9. x.response = record /\ x.fingerprint = r.fingerprint
      BY <3>5
    <3> QED
      BY <2>4, <3>1, <3>2, <3>3, <3>8, <3>9 DEF Sqlx!RecordsAreOwn
  <2>6. /\ UNCHANGED sqlxCall \/ Sqlx!Finish(c, Sqlx!Plain("ok"))
        /\ \/ UNCHANGED rows
           \/ /\ Sqlx!Matching(o)
              /\ rows' = [rows EXCEPT ![o.key].response = o.record, ![o.key].expires = sqlxClock + SqlxTtl]
    BY <1>10, <2>1 DEF Sqlx!UpdateRow, Sqlx!Continue
  <2> QED
    BY <1>2, <1>3, <1>5, <2>5, <2>6 DEF Sqlx!Status
<1>11. ASSUME NEW c \in Caller, Sqlx!CheckRow(c)
       PROVE  Sqlx!RecordsAreOwn' /\ Sqlx!ReplayMatchesFingerprint'
  <2>1. PICK s \in Sqlx!Status : Sqlx!Finish(c, Sqlx!Plain(s)) /\ UNCHANGED rows
    BY <1>11 DEF Sqlx!CheckRow, Sqlx!Status
  <2> QED
    BY <1>2, <1>5, <2>1
<1>12. ASSUME NEW c \in Caller, Sqlx!DeleteRow(c)
       PROVE  Sqlx!RecordsAreOwn' /\ Sqlx!ReplayMatchesFingerprint'
  <2>1. PICK o : o = Sqlx!Op(c)
    OBVIOUS
  <2>2. o.key \in Key
    BY <1>1, <1>12, <2>1, SqlxTypes DEF Sqlx!DeleteRow, Sqlx!At
  <2>3. Sqlx!Finish(c, Sqlx!Plain("ok")) /\ (UNCHANGED rows \/ rows' = [rows EXCEPT ![o.key] = None])
    BY <1>12, <2>1 DEF Sqlx!DeleteRow
  <2>4. Sqlx!RecordsAreOwn'
    BY <1>1, <2>2, <2>3 DEF Sqlx!RecordsAreOwn
  <2> QED
    BY <1>2, <2>3, <2>4 DEF Sqlx!Status
<1>13. ASSUME NEW c \in Caller, Sqlx!Fail(c)
       PROVE  Sqlx!RecordsAreOwn' /\ Sqlx!ReplayMatchesFingerprint'
  <2>1. Sqlx!Finish(c, Sqlx!Plain("unavailable")) /\ UNCHANGED rows
    BY <1>13 DEF Sqlx!Fail, Sqlx!Finish
  <2> QED
    BY <1>2, <1>5, <2>1 DEF Sqlx!Status
<1>14. ASSUME NEW c \in Caller, Sqlx!Return(c) \/ \E o \in Sqlx!Operation : Sqlx!Invoke(c, o),
              UNCHANGED <<rows, sqlxClock, lastPurge, step, seen>>
       PROVE  Sqlx!RecordsAreOwn' /\ Sqlx!ReplayMatchesFingerprint'
  <2>1. Sqlx!ReplayMatchesFingerprint'
    BY <1>1, <1>14, NoneAssumption
       DEF Sqlx!Return, Sqlx!Invoke, Sqlx!ReplayMatchesFingerprint, Sqlx!Returned, Sqlx!Op, Sqlx!CallType
  <2> QED
    BY <1>5, <1>14, <2>1
<1>15. ASSUME Sqlx!PurgeElsewhere PROVE Sqlx!RecordsAreOwn' /\ Sqlx!ReplayMatchesFingerprint'
  BY <1>3, <1>4, <1>15 DEF Sqlx!PurgeElsewhere
<1>16. ASSUME Sqlx!Tick \/ UNCHANGED sqlxVars PROVE Sqlx!RecordsAreOwn' /\ Sqlx!ReplayMatchesFingerprint'
  BY <1>3, <1>5, <1>16 DEF Sqlx!Tick, sqlxVars
<1> QED
  BY <1>6, <1>7, <1>8, <1>9, <1>10, <1>11, <1>12, <1>13, <1>14, <1>15, <1>16 DEF Sqlx!Next

\* Whatever the store does next, the SQLx part takes a step of its own or none.
LEMMA SqlxMoves ==
    ASSUME [StoresNext]_storeVars
    PROVE  [Sqlx!Next]_sqlxVars
BY DEF StoresNext, storeVars, redisVars, contractVars, memoryVars, sqlxVars

\* The store starts empty.
LEMMA SqlxStarts ==
    ASSUME StoresInit
    PROVE  Sqlx!IInv /\ Sqlx!Contract!Init
<1>1. Sqlx!Init
  BY DEF StoresInit
<1>2. Sqlx!CallType
  BY <1>1 DEF Sqlx!Init, Sqlx!CallInit, Sqlx!CallType
<1>3. Sqlx!TypeOK /\ Sqlx!PurgesReadTheClock
  BY <1>1, <1>2, StoresAssumption DEF Sqlx!Init, Sqlx!TypeOK, Sqlx!Step, Sqlx!PurgesReadTheClock
<1>4. Sqlx!Contract!Init
  BY <1>1 DEF Sqlx!Init, Sqlx!CallInit, Sqlx!Contract!Init, Sqlx!Contract!CallInit, Sqlx!Table
<1> QED
  BY <1>3, <1>4 DEF Sqlx!IInv

\* The SQLx store implements the contract, although a call is several statements
\* without a transaction and purges, of this process and of others, run between
\* them (idempotency.rs, purge.rs).
THEOREM SqlxIsAStore == StoresSpec => SqlxImplementsContract
<1>1. Sqlx!IInv /\ [StoresNext]_storeVars => Sqlx!IInv'
  BY SqlxStep, SqlxMoves
<1>2. Sqlx!IInv /\ [StoresNext]_storeVars => [Sqlx!Contract!Next]_<<sqlxCall, Sqlx!Table>>
  <2>1. UNCHANGED sqlxVars => UNCHANGED <<sqlxCall, Sqlx!Table>>
    BY DEF sqlxVars, Sqlx!Table
  <2> QED
    BY <2>1, SqlxMoves, SqlxRefines
<1> QED
  BY <1>1, <1>2, SqlxStarts, PTL DEF StoresSpec, SqlxImplementsContract, Sqlx!ImplementsContract, Sqlx!Contract!Spec


-------------------------------------------------------------------------------
(* The memory store. *)

\* The callers of the store are the callers of the contract.
LEMMA MemoryCalls ==
    ASSUME NEW c, NEW r
    PROVE  /\ Memory!Contract!Pending(c) <=> Memory!Pending(c)
           /\ Memory!Contract!Op(c) = Memory!Op(c)
           /\ Memory!Respond(c, r) => Memory!Contract!Respond(c, r)
           /\ Memory!Contract!Plain(r) = Memory!Plain(r) /\ Memory!Contract!Replay(r) = Memory!Replay(r)
<1>1. Memory!Contract!Pending(c) <=> Memory!Pending(c)
  BY DEF Memory!Pending, Memory!Contract!Pending
<1>2. Memory!Contract!Op(c) = Memory!Op(c)
  BY DEF Memory!Op, Memory!Contract!Op
<1>3. Memory!Respond(c, r) => Memory!Contract!Respond(c, r)
  BY <1>1, Zenon DEF Memory!Respond, Memory!Contract!Respond
<1>4. Memory!Contract!Plain(r) = Memory!Plain(r) /\ Memory!Contract!Replay(r) = Memory!Replay(r)
  BY DEF Memory!Plain, Memory!Contract!Plain, Memory!Replay, Memory!Contract!Replay
<1> QED
  BY <1>1, <1>2, <1>3, <1>4

\* The row of a key in the table is the entry of that key.
LEMMA MemoryRows ==
    ASSUME NEW E \in SUBSET Memory!Entry, Memory!Unique(E)
    PROVE  /\ \A k \in Key : Memory!Of(E, k) = {} => Memory!TableOf(E)[k] = None
           /\ \A e \in E : /\ e.key \in Key /\ Memory!TableOf(E)[e.key] # None
                           /\ Memory!TableOf(E)[e.key] = [fingerprint |-> e.fingerprint, response |-> e.response]
           /\ Memory!TableOf(E) = [k \in Key |-> Memory!TableOf(E)[k]]
<1>1. ASSUME NEW k \in Key, Memory!Of(E, k) = {} PROVE Memory!TableOf(E)[k] = None
  BY <1>1 DEF Memory!TableOf
<1>2. ASSUME NEW e \in E
      PROVE  /\ e.key \in Key /\ Memory!TableOf(E)[e.key] # None
             /\ Memory!TableOf(E)[e.key] = [fingerprint |-> e.fingerprint, response |-> e.response]
  <2>1. e.key \in Key /\ e.fingerprint \in Fingerprint /\ e.response \in Memory!Record \cup {None}
    BY DEF Memory!Entry
  <2>2. Memory!Of(E, e.key) # {} /\ \A f \in Memory!Of(E, e.key) : f = e
    BY DEF Memory!Of, Memory!Unique
  <2>3. (CHOOSE f \in Memory!Of(E, e.key) : TRUE) = e
    BY <2>2
  <2>4. Memory!TableOf(E)[e.key] = [fingerprint |-> e.fingerprint, response |-> e.response]
    BY <2>1, <2>2, <2>3 DEF Memory!TableOf
  <2>5. Memory!TableOf(E)[e.key] \in Row
    BY <2>1, <2>4 DEF Row, Record, Memory!Record
  <2> QED
    BY <2>1, <2>4, <2>5, NoneAssumption
<1>3. Memory!TableOf(E) = [k \in Key |-> Memory!TableOf(E)[k]]
  BY DEF Memory!TableOf
<1> QED
  BY <1>1, <1>2, <1>3

\* Two sets of entries make the same table where they hold the same rows.
LEMMA MemoryAgrees ==
    ASSUME NEW E \in SUBSET Memory!Entry, Memory!Unique(E), NEW F \in SUBSET Memory!Entry, Memory!Unique(F),
           NEW k \in Key, Memory!Of(E, k) = Memory!Of(F, k)
    PROVE  Memory!TableOf(E)[k] = Memory!TableOf(F)[k]
BY DEF Memory!TableOf

\* Entries that are purged or evicted are rows the table loses.
LEMMA MemoryLoses ==
    ASSUME NEW E \in SUBSET Memory!Entry, Memory!Unique(E), NEW F \in SUBSET E
    PROVE  /\ F \in SUBSET Memory!Entry /\ Memory!Unique(F)
           /\ \E lost \in SUBSET Key : Memory!TableOf(F) = Memory!Contract!Without(Memory!TableOf(E), lost)
<1>1. F \in SUBSET Memory!Entry /\ Memory!Unique(F)
  BY DEF Memory!Unique
<1>2. PICK lost : lost = {k \in Key : Memory!Of(F, k) = {}}
  OBVIOUS
<1>3. ASSUME NEW k \in Key PROVE Memory!TableOf(F)[k] = IF k \in lost THEN None ELSE Memory!TableOf(E)[k]
  <2>1. CASE k \in lost
    BY <1>1, <1>2, <2>1, MemoryRows
  <2>2. CASE k \notin lost
    <3>1. PICK f \in F : f.key = k
      BY <1>2, <2>2 DEF Memory!Of
    <3>2. Memory!Of(F, k) = Memory!Of(E, k)
      BY <3>1 DEF Memory!Of, Memory!Unique
    <3> QED
      BY <1>1, <2>2, <3>2, MemoryAgrees
  <2> QED
    BY <2>1, <2>2
<1>4. Memory!TableOf(F) = Memory!Contract!Without(Memory!TableOf(E), lost)
  BY <1>1, <1>3, MemoryRows DEF Memory!Contract!Without
<1> QED
  BY <1>1, <1>2, <1>4

\* A purge keeps entries whose time is not over (stores.rs purge_expired).
LEMMA MemoryPurges ==
    ASSUME NEW E, NEW F \in Memory!PurgeExpired(E)
    PROVE  F \subseteq E /\ \A e \in F : memoryClock - e.created < MemoryTtl
<1>1. F \in SUBSET Memory!Unexpired(E)
  BY DEF Memory!PurgeExpired, Memory!EvictOverBudget
<1> QED
  BY <1>1 DEF Memory!Unexpired

\* A call whose result is an outcome of the purged table takes effect between the
\* purge before it and the eviction after it.
LEMMA MemoryPerforms ==
    ASSUME NEW c \in Caller, NEW early \in SUBSET Key, NEW late \in SUBSET Key, NEW result, NEW t,
           Memory!Contract!Outcome(result, t)
               \in Memory!Contract!Outcomes(Memory!Contract!Without(Memory!Table, early), Memory!Op(c)),
           Memory!Table' = Memory!Contract!Without(t, late), Memory!Respond(c, result)
    PROVE  Memory!Contract!Next
<1>1. PICK x : x = Memory!Contract!Outcome(result, t)
  OBVIOUS
<1>2. x.result = result /\ x.table = t
  BY <1>1 DEF Memory!Contract!Outcome
<1>3. Memory!Contract!Respond(c, x.result) /\ Memory!Contract!Pending(c)
  BY <1>2, MemoryCalls DEF Memory!Respond
<1>4. x \in Memory!Contract!Outcomes(Memory!Contract!Without(Memory!Table, early), Memory!Contract!Op(c))
  BY <1>1, MemoryCalls
<1>5. Memory!Table' = Memory!Contract!Without(x.table, late)
  BY <1>2
<1>6. \E a, b \in SUBSET Key :
         \E outcome \in Memory!Contract!Outcomes(Memory!Contract!Without(Memory!Table, a), Memory!Contract!Op(c)) :
            /\ Memory!Table' = Memory!Contract!Without(outcome.table, b)
            /\ \/ Memory!Contract!Respond(c, outcome.result)
               \/ Memory!Contract!Respond(c, Memory!Contract!Plain("unavailable"))
  <2> WITNESS early \in SUBSET Key, late \in SUBSET Key
  <2> WITNESS x \in Memory!Contract!Outcomes(Memory!Contract!Without(Memory!Table, early), Memory!Contract!Op(c))
  <2> QED
    BY <1>3, <1>5
<1>7. Memory!Contract!Perform(c)
  BY <1>3, <1>6 DEF Memory!Contract!Perform
<1> QED
  BY <1>7 DEF Memory!Contract!Next

\* The outcomes the contract allows a store whose latest response counts.
LEMMA MemoryOutcomes ==
    ASSUME NEW t, NEW o
    PROVE  /\ (o.op = "begin" /\ t[o.key] = None) =>
                Memory!Contract!Outcome(Memory!Plain("leader"),
                    [t EXCEPT ![o.key] = [fingerprint |-> o.fingerprint, response |-> None]])
                    \in Memory!Contract!Outcomes(t, o)
           /\ (o.op = "begin" /\ t[o.key] # None) =>
                Memory!Contract!Outcome(Memory!Plain("conflict"), t) \in Memory!Contract!Outcomes(t, o)
           /\ (o.op = "begin" /\ t[o.key] # None /\ t[o.key].fingerprint = o.fingerprint /\ t[o.key].response # None) =>
                Memory!Contract!Outcome(Memory!Replay(t[o.key].response), t) \in Memory!Contract!Outcomes(t, o)
           /\ (o.op = "complete" /\ t[o.key] = None) =>
                Memory!Contract!Outcome(Memory!Plain("unreserved"), t) \in Memory!Contract!Outcomes(t, o)
           /\ (o.op = "complete" /\ t[o.key] # None /\ t[o.key].fingerprint # o.fingerprint) =>
                Memory!Contract!Outcome(Memory!Plain("conflict"), t) \in Memory!Contract!Outcomes(t, o)
           /\ (o.op = "complete" /\ t[o.key] # None /\ t[o.key].fingerprint = o.fingerprint) =>
                Memory!Contract!Outcome(Memory!Plain("ok"), [t EXCEPT ![o.key].response = o.record])
                    \in Memory!Contract!Outcomes(t, o)
           /\ (o.op = "release" /\ t[o.key] # None /\ t[o.key].fingerprint = o.fingerprint /\ t[o.key].response = None) =>
                Memory!Contract!Outcome(Memory!Plain("ok"), [t EXCEPT ![o.key] = None])
                    \in Memory!Contract!Outcomes(t, o)
           /\ (o.op = "release" /\ (t[o.key] = None \/ t[o.key].fingerprint # o.fingerprint \/ t[o.key].response # None)) =>
                Memory!Contract!Outcome(Memory!Plain("ok"), t) \in Memory!Contract!Outcomes(t, o)
<1>a. \A r : Memory!Contract!Plain(r) = Memory!Plain(r) /\ Memory!Contract!Replay(r) = Memory!Replay(r)
  BY MemoryCalls
<1>1. ASSUME o.op = "begin" PROVE Memory!Contract!Outcomes(t, o) = Memory!Contract!BeginOutcomes(t, o)
  BY <1>1 DEF Memory!Contract!Outcomes
<1>2. ASSUME o.op = "complete" PROVE Memory!Contract!Outcomes(t, o) = Memory!Contract!CompleteOutcomes(t, o)
  BY <1>2 DEF Memory!Contract!Outcomes
<1>3. ASSUME o.op = "release" PROVE Memory!Contract!Outcomes(t, o) = Memory!Contract!ReleaseOutcomes(t, o)
  BY <1>3 DEF Memory!Contract!Outcomes
<1>4. CASE o.op = "begin"
  BY <1>a, <1>1, <1>4 DEF Memory!Contract!BeginOutcomes, Memory!Contract!Matches, Memory!Contract!Recorded
<1>5. CASE o.op = "complete"
  BY <1>a, <1>2, <1>5 DEF Memory!Contract!CompleteOutcomes, Memory!Contract!Matches
<1>6. CASE o.op = "release"
  BY <1>a, <1>3, <1>6 DEF Memory!Contract!ReleaseOutcomes, Memory!Contract!Matches, Memory!Contract!Recorded
<1> QED
  BY <1>4, <1>5, <1>6

\* A pending call is an operation.
LEMMA MemoryTypes ==
    ASSUME Memory!TypeOK, NEW c \in Caller, Memory!Pending(c), NEW o, o = Memory!Op(c)
    PROVE  /\ o \in Memory!Operation /\ o.key \in Key /\ o.fingerprint \in Fingerprint
           /\ o.op = "complete" => o.record \in Memory!Record
           /\ memoryCall[c] \in [operation : Memory!Operation, result : Memory!Result \cup {None}]
<1>1. memoryCall[c] \in [operation : Memory!Operation, result : Memory!Result \cup {None}]
  BY DEF Memory!TypeOK, Memory!CallType, Memory!Pending
<1>2. o \in Memory!Operation
  BY <1>1 DEF Memory!Op
<1>3. o.key \in Key /\ o.fingerprint \in Fingerprint /\ (o.op = "complete" => o.record \in Memory!Record)
  BY <1>2 DEF Memory!Operation
<1> QED
  BY <1>1, <1>2, <1>3


\* An entry pushed for a key without one is a new row of the table.
LEMMA MemoryReserves ==
    ASSUME NEW E \in SUBSET Memory!Entry, Memory!Unique(E), NEW x \in Memory!Entry, Memory!Of(E, x.key) = {}
    PROVE  /\ E \cup {x} \in SUBSET Memory!Entry /\ Memory!Unique(E \cup {x})
           /\ Memory!TableOf(E \cup {x}) = [Memory!TableOf(E) EXCEPT ![x.key] =
                                               [fingerprint |-> x.fingerprint, response |-> x.response]]
<1>1. PICK F : F = E \cup {x}
  OBVIOUS
<1>2. F \in SUBSET Memory!Entry /\ Memory!Unique(F) /\ x.key \in Key /\ x \in F
  BY <1>1 DEF Memory!Unique, Memory!Of, Memory!Entry
<1>3. ASSUME NEW k \in Key, k # x.key PROVE Memory!TableOf(F)[k] = Memory!TableOf(E)[k]
  <2>1. Memory!Of(F, k) = Memory!Of(E, k)
    BY <1>1, <1>3 DEF Memory!Of
  <2> QED
    BY <1>2, <2>1, MemoryAgrees
<1>4. Memory!TableOf(F)[x.key] = [fingerprint |-> x.fingerprint, response |-> x.response]
  BY <1>2, MemoryRows
<1>5. /\ Memory!TableOf(E) = [k \in Key |-> Memory!TableOf(E)[k]]
      /\ Memory!TableOf(F) = [k \in Key |-> Memory!TableOf(F)[k]]
  BY <1>2, MemoryRows
<1>6. PICK s, t : s = Memory!TableOf(E) /\ t = Memory!TableOf(F)
  OBVIOUS
<1>7. t = [s EXCEPT ![x.key] = [fingerprint |-> x.fingerprint, response |-> x.response]]
  BY <1>2, <1>3, <1>4, <1>5, <1>6
<1> QED
  BY <1>1, <1>2, <1>6, <1>7

\* complete replaces the response of a row and keeps the row.
LEMMA MemoryRecords ==
    ASSUME NEW E \in SUBSET Memory!Entry, Memory!Unique(E), NEW e \in E, NEW record \in Memory!Record, NEW F,
           F = (E \ {e}) \cup {[e EXCEPT !.response = record]}
    PROVE  /\ F \in SUBSET Memory!Entry /\ Memory!Unique(F)
           /\ Memory!TableOf(F) = [Memory!TableOf(E) EXCEPT ![e.key] =
                                      [fingerprint |-> e.fingerprint, response |-> record]]
<1>1. PICK x : x = [e EXCEPT !.response = record]
  OBVIOUS
<1>2. x \in Memory!Entry /\ x.key = e.key /\ x.fingerprint = e.fingerprint /\ x.response = record /\ e.key \in Key
  BY <1>1 DEF Memory!Entry
<1>3. E \ {e} \in SUBSET Memory!Entry /\ Memory!Unique(E \ {e}) /\ Memory!Of(E \ {e}, x.key) = {}
  BY <1>2 DEF Memory!Unique, Memory!Of
<1>4. F = (E \ {e}) \cup {x}
  BY <1>1
<1>5. F \in SUBSET Memory!Entry /\ Memory!Unique(F) /\ x \in F
  BY <1>2, <1>3, <1>4, MemoryReserves
<1>6. ASSUME NEW k \in Key, k # e.key PROVE Memory!TableOf(F)[k] = Memory!TableOf(E)[k]
  <2>1. Memory!Of(F, k) = Memory!Of(E, k)
    BY <1>2, <1>4, <1>6 DEF Memory!Of
  <2> QED
    BY <1>5, <2>1, MemoryAgrees
<1>7. Memory!TableOf(F)[e.key] = [fingerprint |-> e.fingerprint, response |-> record]
  BY <1>2, <1>5, MemoryRows
<1>8. /\ Memory!TableOf(E) = [k \in Key |-> Memory!TableOf(E)[k]]
      /\ Memory!TableOf(F) = [k \in Key |-> Memory!TableOf(F)[k]]
  BY <1>5, MemoryRows
<1>9. PICK s, t : s = Memory!TableOf(E) /\ t = Memory!TableOf(F)
  OBVIOUS
<1>10. t = [s EXCEPT ![e.key] = [fingerprint |-> e.fingerprint, response |-> record]]
  BY <1>2, <1>6, <1>7, <1>8, <1>9
<1> QED
  BY <1>5, <1>9, <1>10

\* release drops the reservation of its own fingerprint, if there is one.
LEMMA MemoryReleases ==
    ASSUME NEW E \in SUBSET Memory!Entry, Memory!Unique(E), NEW o, o.key \in Key, NEW F, NEW t,
           F = {e \in E : ~(e.key = o.key /\ e.fingerprint = o.fingerprint /\ e.response = None)},
           t = Memory!TableOf(E)
    PROVE  /\ F \in SUBSET Memory!Entry /\ Memory!Unique(F)
           /\ (t[o.key] # None /\ t[o.key].fingerprint = o.fingerprint /\ t[o.key].response = None)
                  => Memory!TableOf(F) = [t EXCEPT ![o.key] = None]
           /\ (t[o.key] = None \/ t[o.key].fingerprint # o.fingerprint \/ t[o.key].response # None)
                  => Memory!TableOf(F) = t
<1>1. F \in SUBSET Memory!Entry /\ Memory!Unique(F)
  BY DEF Memory!Unique
<1>2. ASSUME NEW e \in E, e.key = o.key
      PROVE  t[o.key] # None /\ t[o.key].fingerprint = e.fingerprint /\ t[o.key].response = e.response
  <2>1. t[o.key] # None /\ t[o.key] = [fingerprint |-> e.fingerprint, response |-> e.response]
    BY <1>2, MemoryRows
  <2> QED
    BY <2>1
<1>3. CASE t[o.key] # None /\ t[o.key].fingerprint = o.fingerprint /\ t[o.key].response = None
  <2>1. Memory!Of(F, o.key) = {}
    BY <1>2, <1>3 DEF Memory!Of
  <2>2. Memory!TableOf(F)[o.key] = None
    BY <1>1, <2>1, MemoryRows
  <2>3. ASSUME NEW k \in Key, k # o.key PROVE Memory!TableOf(F)[k] = t[k]
    <3>1. Memory!Of(F, k) = Memory!Of(E, k)
      BY <2>3 DEF Memory!Of
    <3> QED
      BY <1>1, <3>1, MemoryAgrees
  <2>4. /\ t = [k \in Key |-> t[k]]
        /\ Memory!TableOf(F) = [k \in Key |-> Memory!TableOf(F)[k]]
    BY <1>1, MemoryRows
  <2>5. Memory!TableOf(F) = [t EXCEPT ![o.key] = None]
    BY <2>2, <2>3, <2>4
  <2> QED
    BY <1>1, <1>3, <2>5
<1>4. CASE t[o.key] = None \/ t[o.key].fingerprint # o.fingerprint \/ t[o.key].response # None
  <2>1. F = E
    BY <1>2, <1>4
  <2> QED
    BY <1>1, <1>4, <2>1
<1> QED
  BY <1>3, <1>4

\* The answers of the store are results of the trait.
LEMMA MemoryResults ==
    /\ \A s \in Memory!Status : Memory!Plain(s) \in Memory!Result
    /\ \A r \in Memory!Record : Memory!Replay(r) \in Memory!Result
BY DEF Memory!Plain, Memory!Replay, Memory!Result

\* Answering a call leaves the calls well typed, and every other call as it was.
LEMMA MemoryResponds ==
    ASSUME Memory!CallType, NEW c \in Caller, NEW r \in Memory!Result, Memory!Respond(c, r)
    PROVE  /\ Memory!CallType' /\ memoryCall'[c].result = r
           /\ \A d \in Caller \ {c} : memoryCall'[d] = memoryCall[d]
<1>1. memoryCall[c] \in [operation : Memory!Operation, result : Memory!Result \cup {None}]
  BY DEF Memory!CallType, Memory!Respond, Memory!Pending
<1>2. PICK x : x = [memoryCall[c] EXCEPT !.result = r]
  OBVIOUS
<1>3. x \in [operation : Memory!Operation, result : Memory!Result \cup {None}] /\ x.result = r
  BY <1>1, <1>2
<1>4. memoryCall' = [memoryCall EXCEPT ![c] = x]
  BY <1>2, Zenon DEF Memory!Respond
<1> QED
  BY <1>3, <1>4 DEF Memory!CallType


\* Every call of the store keeps one entry per key and is one step of the
\* contract: the purge before it and the eviction after it are losses of rows, in
\* between it answers as the trait promises (stores.rs begin, complete, release).
LEMMA MemoryRefines ==
    ASSUME Memory!IInv, Memory!Next
    PROVE  Memory!IInv' /\ (Memory!Contract!Next \/ UNCHANGED <<memoryCall, Memory!Table>>)
<1>1. /\ Memory!TypeOK /\ Memory!CallType /\ memoryEntries \in SUBSET Memory!Entry
      /\ Memory!Unique(memoryEntries) /\ memoryClock \in 0..MemoryMaxClock /\ MemoryMaxClock \in Nat
  BY StoresAssumption DEF Memory!IInv, Memory!TypeOK
<1>2. ASSUME memoryEntries' \in SUBSET Memory!Entry, Memory!Unique(memoryEntries'), UNCHANGED memoryClock, Memory!CallType'
      PROVE  Memory!IInv'
  BY <1>1, <1>2 DEF Memory!IInv, Memory!TypeOK
<1>3. ASSUME NEW E \in Memory!PurgeExpired(memoryEntries)
      PROVE  /\ E \in SUBSET Memory!Entry /\ Memory!Unique(E)
             /\ \E early \in SUBSET Key : Memory!TableOf(E) = Memory!Contract!Without(Memory!Table, early)
  <2>1. E \in SUBSET memoryEntries
    BY MemoryPurges
  <2> QED
    BY <1>1, <2>1, MemoryLoses DEF Memory!Table
<1>4. ASSUME NEW t, t = [k \in Key |-> t[k]] PROVE Memory!Contract!Without(t, {}) = t
  BY <1>4 DEF Memory!Contract!Without
<1>5. Memory!Table' = Memory!TableOf(memoryEntries')
  BY DEF Memory!Table, Memory!TableOf, Memory!Of
<1>6. ASSUME NEW c \in Caller, Memory!Begin(c) PROVE Memory!IInv' /\ Memory!Contract!Next
  <2>1. PICK o : o = Memory!Op(c)
    OBVIOUS
  <2>2. Memory!Pending(c) /\ o.op = "begin" /\ UNCHANGED memoryClock
    BY <1>6, <2>1 DEF Memory!Begin
  <2>3. o.key \in Key /\ o.fingerprint \in Fingerprint
    BY <1>1, <2>1, <2>2, MemoryTypes
  <2>4. PICK E \in Memory!PurgeExpired(memoryEntries) :
           \/ /\ Memory!Of(E, o.key) = {}
              /\ memoryEntries' = E \cup {[key |-> o.key, fingerprint |-> o.fingerprint,
                                           response |-> None, created |-> memoryClock]}
              /\ Memory!Respond(c, Memory!Plain("leader"))
           \/ \E e \in Memory!Of(E, o.key) :
              /\ memoryEntries' = E
              /\ Memory!Respond(c, IF e.fingerprint # o.fingerprint \/ e.response = None
                                   THEN Memory!Plain("conflict") ELSE Memory!Replay(e.response))
    BY <1>6, <2>1 DEF Memory!Begin
  <2>5. E \in SUBSET Memory!Entry /\ Memory!Unique(E)
    BY <1>3
  <2>6. PICK early \in SUBSET Key : Memory!TableOf(E) = Memory!Contract!Without(Memory!Table, early)
    BY <1>3
  <2>7. PICK t : t = Memory!TableOf(E)
    OBVIOUS
  <2>8. CASE /\ Memory!Of(E, o.key) = {}
             /\ memoryEntries' = E \cup {[key |-> o.key, fingerprint |-> o.fingerprint,
                                          response |-> None, created |-> memoryClock]}
             /\ Memory!Respond(c, Memory!Plain("leader"))
    <3>1. PICK x : x = [key |-> o.key, fingerprint |-> o.fingerprint, response |-> None, created |-> memoryClock]
      OBVIOUS
    <3>2. x \in Memory!Entry /\ x.key = o.key /\ x.fingerprint = o.fingerprint /\ x.response = None
      BY <1>1, <2>3, <3>1 DEF Memory!Entry
    <3>3. memoryEntries' = E \cup {x} /\ Memory!Of(E, x.key) = {}
      BY <2>8, <3>1, <3>2
    <3>4. /\ memoryEntries' \in SUBSET Memory!Entry /\ Memory!Unique(memoryEntries')
          /\ Memory!TableOf(memoryEntries') = [t EXCEPT ![o.key] = [fingerprint |-> o.fingerprint, response |-> None]]
      BY <2>5, <2>7, <3>2, <3>3, MemoryReserves
    <3>5. Memory!IInv'
      BY <1>1, <1>2, <2>2, <2>8, <3>4, MemoryResults, MemoryResponds DEF Memory!Status
    <3>6. t[o.key] = None
      BY <2>3, <2>5, <2>7, <2>8, MemoryRows
    <3>7. Memory!Table' = Memory!Contract!Without([t EXCEPT ![o.key] = [fingerprint |-> o.fingerprint, response |-> None]], {})
      <4>1. Memory!TableOf(memoryEntries') = [k \in Key |-> Memory!TableOf(memoryEntries')[k]]
        BY <3>4, MemoryRows
      <4> QED
        BY <1>4, <1>5, <3>4, <4>1
    <3>8. Memory!Contract!Next
      BY <2>1, <2>2, <2>6, <2>7, <2>8, <3>6, <3>7, MemoryOutcomes, MemoryPerforms
    <3> QED
      BY <3>5, <3>8
  <2>9. ASSUME NEW e \in Memory!Of(E, o.key), memoryEntries' = E,
               Memory!Respond(c, IF e.fingerprint # o.fingerprint \/ e.response = None
                                 THEN Memory!Plain("conflict") ELSE Memory!Replay(e.response))
        PROVE  Memory!IInv' /\ Memory!Contract!Next
    <3>1. e \in E /\ e.key = o.key
      BY DEF Memory!Of
    <3>2. t[o.key] # None /\ t[o.key] = [fingerprint |-> e.fingerprint, response |-> e.response]
      BY <2>5, <2>7, <3>1, MemoryRows
    <3>3. t[o.key].fingerprint = e.fingerprint /\ t[o.key].response = e.response
      BY <3>2
    <3>4. Memory!Table' = Memory!Contract!Without(t, {})
      <4>1. t = [k \in Key |-> t[k]]
        BY <2>5, <2>7, MemoryRows
      <4> QED
        BY <1>4, <1>5, <2>7, <2>9, <4>1
    <3>5. CASE e.fingerprint # o.fingerprint \/ e.response = None
      <4>1. Memory!Respond(c, Memory!Plain("conflict"))
        BY <2>9, <3>5
      <4>2. Memory!IInv'
        BY <1>1, <1>2, <2>2, <2>5, <2>9, <4>1, MemoryResults, MemoryResponds DEF Memory!Status
      <4>3. Memory!Contract!Next
        BY <2>1, <2>2, <2>6, <2>7, <3>2, <3>4, <4>1, MemoryOutcomes, MemoryPerforms
      <4> QED
        BY <4>2, <4>3
    <3>6. CASE e.fingerprint = o.fingerprint /\ e.response # None
      <4>1. Memory!Respond(c, Memory!Replay(e.response))
        BY <2>9, <3>6
      <4>2. e.response \in Memory!Record
        BY <2>5, <3>1, <3>6 DEF Memory!Entry
      <4>3. Memory!IInv'
        BY <1>1, <1>2, <2>2, <2>5, <2>9, <4>1, <4>2, MemoryResults, MemoryResponds
      <4>4. Memory!Contract!Next
        BY <2>1, <2>2, <2>6, <2>7, <3>2, <3>3, <3>4, <3>6, <4>1, MemoryOutcomes, MemoryPerforms
      <4> QED
        BY <4>3, <4>4
    <3> QED
      BY <3>5, <3>6
  <2> QED
    BY <2>4, <2>8, <2>9
<1>7. ASSUME NEW c \in Caller, Memory!Complete(c) PROVE Memory!IInv' /\ Memory!Contract!Next
  <2>1. PICK o : o = Memory!Op(c)
    OBVIOUS
  <2>2. Memory!Pending(c) /\ o.op = "complete" /\ UNCHANGED memoryClock
    BY <1>7, <2>1 DEF Memory!Complete
  <2>3. o.key \in Key /\ o.record \in Memory!Record
    BY <1>1, <2>1, <2>2, MemoryTypes
  <2>4. PICK E \in Memory!PurgeExpired(memoryEntries) :
          \/ Memory!Of(E, o.key) = {} /\ memoryEntries' = E /\ Memory!Respond(c, Memory!Plain("unreserved"))
          \/ \E e \in Memory!Of(E, o.key) :
             \/ e.fingerprint # o.fingerprint /\ memoryEntries' = E /\ Memory!Respond(c, Memory!Plain("conflict"))
             \/ /\ e.fingerprint = o.fingerprint
                /\ memoryEntries' \in Memory!EvictOverBudget((E \ {e}) \cup {[e EXCEPT !.response = o.record]})
                /\ Memory!Respond(c, Memory!Plain("ok"))
    BY <1>7, <2>1 DEF Memory!Complete
  <2>5. E \in SUBSET Memory!Entry /\ Memory!Unique(E)
    BY <1>3
  <2>6. PICK early \in SUBSET Key : Memory!TableOf(E) = Memory!Contract!Without(Memory!Table, early)
    BY <1>3
  <2>7. PICK t : t = Memory!TableOf(E)
    OBVIOUS
  <2>8. t = [k \in Key |-> t[k]]
    BY <2>5, <2>7, MemoryRows
  <2>9. CASE Memory!Of(E, o.key) = {} /\ memoryEntries' = E /\ Memory!Respond(c, Memory!Plain("unreserved"))
    <3>1. t[o.key] = None
      BY <2>3, <2>5, <2>7, <2>9, MemoryRows
    <3>2. Memory!Table' = Memory!Contract!Without(t, {})
      BY <1>4, <1>5, <2>7, <2>8, <2>9
    <3>3. Memory!IInv'
      BY <1>1, <1>2, <2>2, <2>5, <2>9, MemoryResults, MemoryResponds DEF Memory!Status
    <3>4. Memory!Contract!Next
      BY <2>1, <2>2, <2>6, <2>7, <2>9, <3>1, <3>2, MemoryOutcomes, MemoryPerforms
    <3> QED
      BY <3>3, <3>4
  <2>10. ASSUME NEW e \in Memory!Of(E, o.key), e.fingerprint # o.fingerprint, memoryEntries' = E,
                Memory!Respond(c, Memory!Plain("conflict"))
         PROVE  Memory!IInv' /\ Memory!Contract!Next
    <3>1. e \in E /\ e.key = o.key
      BY DEF Memory!Of
    <3>2. t[o.key] # None /\ t[o.key] = [fingerprint |-> e.fingerprint, response |-> e.response]
      BY <2>5, <2>7, <3>1, MemoryRows
    <3>3. t[o.key].fingerprint # o.fingerprint
      BY <2>10, <3>2
    <3>4. Memory!Table' = Memory!Contract!Without(t, {})
      BY <1>4, <1>5, <2>7, <2>8, <2>10
    <3>5. Memory!IInv'
      BY <1>1, <1>2, <2>2, <2>5, <2>10, MemoryResults, MemoryResponds DEF Memory!Status
    <3>6. Memory!Contract!Next
      BY <2>1, <2>2, <2>6, <2>7, <2>10, <3>2, <3>3, <3>4, MemoryOutcomes, MemoryPerforms
    <3> QED
      BY <3>5, <3>6
  <2>11. ASSUME NEW e \in Memory!Of(E, o.key), e.fingerprint = o.fingerprint,
                memoryEntries' \in Memory!EvictOverBudget((E \ {e}) \cup {[e EXCEPT !.response = o.record]}),
                Memory!Respond(c, Memory!Plain("ok"))
         PROVE  Memory!IInv' /\ Memory!Contract!Next
    <3>1. e \in E /\ e.key = o.key
      BY DEF Memory!Of
    <3>2. t[o.key] # None /\ t[o.key] = [fingerprint |-> e.fingerprint, response |-> e.response]
      BY <2>5, <2>7, <3>1, MemoryRows
    <3>3. t[o.key].fingerprint = o.fingerprint
      BY <2>11, <3>2
    <3>4. PICK F : F = (E \ {e}) \cup {[e EXCEPT !.response = o.record]}
      OBVIOUS
    <3>5. memoryEntries' \in SUBSET F
      BY <2>11, <3>4 DEF Memory!EvictOverBudget
    <3>6. /\ F \in SUBSET Memory!Entry /\ Memory!Unique(F)
          /\ Memory!TableOf(F) = [t EXCEPT ![o.key].response = o.record]
      <4>1. /\ F \in SUBSET Memory!Entry /\ Memory!Unique(F)
            /\ Memory!TableOf(F) = [t EXCEPT ![o.key] = [fingerprint |-> e.fingerprint, response |-> o.record]]
        BY <2>3, <2>5, <2>7, <3>1, <3>4, MemoryRecords
      <4>2. [t[o.key] EXCEPT !.response = o.record] = [fingerprint |-> e.fingerprint, response |-> o.record]
        BY <3>2
      <4> QED
        BY <4>1, <4>2, Zenon
    <3>7. /\ memoryEntries' \in SUBSET Memory!Entry /\ Memory!Unique(memoryEntries')
          /\ \E late \in SUBSET Key : Memory!TableOf(memoryEntries') = Memory!Contract!Without(Memory!TableOf(F), late)
      BY <3>5, <3>6, MemoryLoses
    <3>8. PICK late \in SUBSET Key :
             Memory!Table' = Memory!Contract!Without([t EXCEPT ![o.key].response = o.record], late)
      BY <1>5, <3>6, <3>7
    <3>9. Memory!IInv'
      BY <1>1, <1>2, <2>2, <2>11, <3>7, MemoryResults, MemoryResponds DEF Memory!Status
    <3>10. Memory!Contract!Next
      BY <2>1, <2>2, <2>6, <2>7, <2>11, <3>2, <3>3, <3>8, MemoryOutcomes, MemoryPerforms
    <3> QED
      BY <3>9, <3>10
  <2> QED
    BY <2>4, <2>9, <2>10, <2>11
<1>8. ASSUME NEW c \in Caller, Memory!Release(c) PROVE Memory!IInv' /\ Memory!Contract!Next
  <2>1. PICK o : o = Memory!Op(c)
    OBVIOUS
  <2>2. Memory!Pending(c) /\ o.op = "release" /\ UNCHANGED memoryClock /\ Memory!Respond(c, Memory!Plain("ok"))
    BY <1>8, <2>1 DEF Memory!Release
  <2>3. o.key \in Key
    BY <1>1, <2>1, <2>2, MemoryTypes
  <2>4. PICK t : t = Memory!TableOf(memoryEntries)
    OBVIOUS
  <2>5. t = Memory!Contract!Without(Memory!Table, {})
    <3>1. t = [k \in Key |-> t[k]]
      BY <1>1, <2>4, MemoryRows
    <3> QED
      BY <1>4, <2>4, <3>1 DEF Memory!Table
  <2>6. PICK F : F = {e \in memoryEntries : ~(e.key = o.key /\ e.fingerprint = o.fingerprint /\ e.response = None)}
    OBVIOUS
  <2>7. memoryEntries' = F
    BY <1>8, <2>1, <2>6 DEF Memory!Release
  <2>8. /\ F \in SUBSET Memory!Entry /\ Memory!Unique(F)
        /\ (t[o.key] # None /\ t[o.key].fingerprint = o.fingerprint /\ t[o.key].response = None)
               => Memory!TableOf(F) = [t EXCEPT ![o.key] = None]
        /\ (t[o.key] = None \/ t[o.key].fingerprint # o.fingerprint \/ t[o.key].response # None)
               => Memory!TableOf(F) = t
    BY <1>1, <2>3, <2>4, <2>6, MemoryReleases
  <2>9. Memory!Table' = Memory!Contract!Without(Memory!TableOf(F), {})
    <3>1. Memory!TableOf(F) = [k \in Key |-> Memory!TableOf(F)[k]]
      BY <2>8, MemoryRows
    <3> QED
      BY <1>4, <1>5, <2>7, <3>1
  <2>10. Memory!IInv'
    BY <1>1, <1>2, <2>2, <2>7, <2>8, MemoryResults, MemoryResponds DEF Memory!Status
  <2>11. Memory!Contract!Outcome(Memory!Plain("ok"), Memory!TableOf(F)) \in Memory!Contract!Outcomes(t, o)
    BY <2>2, <2>8, MemoryOutcomes
  <2>12. Memory!Contract!Next
    BY <2>1, <2>2, <2>5, <2>9, <2>11, MemoryPerforms
  <2> QED
    BY <2>10, <2>12
<1>9. UNCHANGED memoryEntries => UNCHANGED Memory!Table
  BY <1>5 DEF Memory!Table
<1>10. ASSUME NEW c \in Caller, Memory!Return(c), UNCHANGED <<memoryEntries, memoryClock>>
       PROVE  Memory!IInv' /\ Memory!Contract!Next
  <2>1. Memory!Contract!Return(c)
    BY <1>10 DEF Memory!Return, Memory!Contract!Return, Memory!Returned, Memory!Contract!Returned
  <2>2. Memory!CallType'
    BY <1>1, <1>10 DEF Memory!CallType, Memory!Return
  <2> QED
    BY <1>1, <1>2, <1>9, <1>10, <2>1, <2>2 DEF Memory!Contract!Next
<1>11. ASSUME NEW c \in Caller, NEW o \in Memory!Operation, Memory!Invoke(c, o),
              UNCHANGED <<memoryEntries, memoryClock>>
       PROVE  Memory!IInv' /\ Memory!Contract!Next
  <2>1. Memory!Contract!Invoke(c, o)
    BY <1>11 DEF Memory!Invoke, Memory!Contract!Invoke
  <2>2. o \in Memory!Contract!Operation
    BY DEF Memory!Operation, Memory!Contract!Operation, Memory!Record, Memory!Contract!Record
  <2>3. Memory!CallType'
    BY <1>1, <1>11 DEF Memory!CallType, Memory!Invoke
  <2> QED
    BY <1>1, <1>2, <1>9, <1>11, <2>1, <2>2, <2>3 DEF Memory!Contract!Next
<1>12. CASE Memory!Tick
  <2>1. memoryClock < MemoryMaxClock /\ memoryClock' = memoryClock + 1 /\ UNCHANGED <<memoryCall, memoryEntries>>
    BY <1>12 DEF Memory!Tick
  <2>2. Memory!IInv'
    BY <1>1, <2>1 DEF Memory!IInv, Memory!TypeOK, Memory!CallType, Memory!Unique
  <2> QED
    BY <1>9, <2>1, <2>2
<1> QED
  BY <1>6, <1>7, <1>8, <1>10, <1>11, <1>12 DEF Memory!Next


\* An answer that replays nothing, or a record of the caller's fingerprint, keeps
\* the promise to every caller.
LEMMA MemoryAnswers ==
    ASSUME Memory!CallType, Memory!ReplayMatchesFingerprint, NEW c \in Caller,
           NEW r \in Memory!Result, Memory!Respond(c, r),
           r.status = "replay" => r.record.of = Memory!Op(c).fingerprint
    PROVE  Memory!ReplayMatchesFingerprint'
<1>1. memoryCall[c] \in [operation : Memory!Operation, result : Memory!Result \cup {None}]
  BY DEF Memory!CallType, Memory!Respond, Memory!Pending
<1>2. \A d \in Caller \ {c} : memoryCall'[d] = memoryCall[d]
  BY DEF Memory!CallType, Memory!Respond
<1>3. memoryCall'[c].result = r /\ memoryCall'[c].operation = memoryCall[c].operation
  BY <1>1 DEF Memory!CallType, Memory!Respond
<1> QED
  BY <1>2, <1>3 DEF Memory!ReplayMatchesFingerprint, Memory!Returned, Memory!Op

\* A begin replays the record of the entry whose fingerprint it compared, and a
\* complete records under the fingerprint it compared (stores.rs begin, complete).
LEMMA MemoryReplays ==
    ASSUME Memory!IInv, Memory!RecordsAreOwn, Memory!ReplayMatchesFingerprint, [Memory!Next]_memoryVars
    PROVE  Memory!RecordsAreOwn' /\ Memory!ReplayMatchesFingerprint'
<1>1. Memory!TypeOK /\ Memory!CallType /\ memoryEntries \in SUBSET Memory!Entry
  BY DEF Memory!IInv, Memory!TypeOK
<1>2. ASSUME NEW c \in Caller, NEW s \in Memory!Status, Memory!Respond(c, Memory!Plain(s)), s # "replay"
      PROVE  Memory!ReplayMatchesFingerprint'
  <2>1. Memory!Plain(s) \in Memory!Result /\ Memory!Plain(s).status # "replay"
    BY <1>2, MemoryResults DEF Memory!Plain
  <2> QED
    BY <1>1, <1>2, <2>1, MemoryAnswers
<1>3. ASSUME memoryEntries' \in SUBSET memoryEntries PROVE Memory!RecordsAreOwn'
  BY <1>3 DEF Memory!RecordsAreOwn
<1>4. ASSUME NEW E \in Memory!PurgeExpired(memoryEntries) PROVE E \in SUBSET memoryEntries
  BY MemoryPurges
<1>5. ASSUME NEW c \in Caller, Memory!Begin(c)
      PROVE  Memory!RecordsAreOwn' /\ Memory!ReplayMatchesFingerprint'
  <2>1. PICK o : o = Memory!Op(c)
    OBVIOUS
  <2>2. PICK E \in Memory!PurgeExpired(memoryEntries) :
           \/ /\ memoryEntries' = E \cup {[key |-> o.key, fingerprint |-> o.fingerprint,
                                           response |-> None, created |-> memoryClock]}
              /\ Memory!Respond(c, Memory!Plain("leader"))
           \/ \E e \in Memory!Of(E, o.key) :
              /\ memoryEntries' = E
              /\ Memory!Respond(c, IF e.fingerprint # o.fingerprint \/ e.response = None
                                   THEN Memory!Plain("conflict") ELSE Memory!Replay(e.response))
    BY <1>5, <2>1 DEF Memory!Begin
  <2>3. E \in SUBSET memoryEntries
    BY <1>4
  <2>4. CASE /\ memoryEntries' = E \cup {[key |-> o.key, fingerprint |-> o.fingerprint,
                                          response |-> None, created |-> memoryClock]}
             /\ Memory!Respond(c, Memory!Plain("leader"))
    <3>1. Memory!RecordsAreOwn'
      BY <2>3, <2>4 DEF Memory!RecordsAreOwn
    <3> QED
      BY <1>2, <2>4, <3>1 DEF Memory!Status
  <2>5. ASSUME NEW e \in Memory!Of(E, o.key), memoryEntries' = E,
               Memory!Respond(c, IF e.fingerprint # o.fingerprint \/ e.response = None
                                 THEN Memory!Plain("conflict") ELSE Memory!Replay(e.response))
        PROVE  Memory!RecordsAreOwn' /\ Memory!ReplayMatchesFingerprint'
    <3>1. Memory!RecordsAreOwn'
      BY <1>3, <2>3, <2>5
    <3>2. CASE e.fingerprint # o.fingerprint \/ e.response = None
      <4>1. Memory!Respond(c, Memory!Plain("conflict"))
        BY <2>5, <3>2
      <4> QED
        BY <1>2, <3>1, <4>1 DEF Memory!Status
    <3>3. CASE e.fingerprint = o.fingerprint /\ e.response # None
      <4>1. Memory!Respond(c, Memory!Replay(e.response))
        BY <2>5, <3>3
      <4>2. e \in memoryEntries /\ e.response \in Memory!Record /\ e.response.of = o.fingerprint
        BY <1>1, <2>3, <3>3 DEF Memory!Of, Memory!Entry, Memory!RecordsAreOwn
      <4>3. PICK r : r = Memory!Replay(e.response)
        OBVIOUS
      <4>4. r \in Memory!Result /\ r.record.of = Memory!Op(c).fingerprint
        BY <2>1, <4>2, <4>3, MemoryResults DEF Memory!Replay
      <4> QED
        BY <1>1, <3>1, <4>1, <4>3, <4>4, MemoryAnswers
    <3> QED
      BY <3>2, <3>3
  <2> QED
    BY <2>2, <2>4, <2>5
<1>6. ASSUME NEW c \in Caller, Memory!Complete(c)
      PROVE  Memory!RecordsAreOwn' /\ Memory!ReplayMatchesFingerprint'
  <2>1. PICK o : o = Memory!Op(c)
    OBVIOUS
  <2>2. Memory!Pending(c) /\ o.op = "complete"
    BY <1>6, <2>1 DEF Memory!Complete
  <2>3. o \in Memory!Operation
    BY <1>1, <2>1, <2>2, MemoryTypes
  <2>4. o.record.of = o.fingerprint
    BY <2>2, <2>3 DEF Memory!Operation
  <2>5. PICK E \in Memory!PurgeExpired(memoryEntries) :
           \/ memoryEntries' = E
           \/ \E e \in Memory!Of(E, o.key) :
                 /\ e.fingerprint = o.fingerprint
                 /\ memoryEntries' \in Memory!EvictOverBudget((E \ {e}) \cup {[e EXCEPT !.response = o.record]})
    BY <1>6, <2>1 DEF Memory!Complete
  <2>6. E \in SUBSET memoryEntries
    BY <1>4
  <2>7. ASSUME NEW e \in Memory!Of(E, o.key), e.fingerprint = o.fingerprint,
               memoryEntries' \in Memory!EvictOverBudget((E \ {e}) \cup {[e EXCEPT !.response = o.record]})
        PROVE  Memory!RecordsAreOwn'
    <3>1. PICK x : x = [e EXCEPT !.response = o.record]
      OBVIOUS
    <3>2. e \in Memory!Entry
      BY <1>1, <2>6 DEF Memory!Of
    <3>3. x.response = o.record /\ x.fingerprint = e.fingerprint
      BY <3>1, <3>2 DEF Memory!Entry
    <3>4. memoryEntries' \in SUBSET ((E \ {e}) \cup {x})
      BY <2>7, <3>1 DEF Memory!EvictOverBudget
    <3> QED
      BY <2>4, <2>6, <2>7, <3>3, <3>4 DEF Memory!RecordsAreOwn
  <2>8. PICK s \in Memory!Status : s # "replay" /\ Memory!Respond(c, Memory!Plain(s))
    BY <1>6 DEF Memory!Complete, Memory!Status
  <2> QED
    BY <1>2, <1>3, <2>5, <2>6, <2>7, <2>8
<1>7. ASSUME NEW c \in Caller, Memory!Release(c)
      PROVE  Memory!RecordsAreOwn' /\ Memory!ReplayMatchesFingerprint'
  <2>1. Memory!Respond(c, Memory!Plain("ok")) /\ memoryEntries' \in SUBSET memoryEntries
    BY <1>7 DEF Memory!Release
  <2> QED
    BY <1>2, <1>3, <2>1 DEF Memory!Status
<1>8. ASSUME NEW c \in Caller, UNCHANGED memoryEntries,
             Memory!Return(c) \/ \E o \in Memory!Operation : Memory!Invoke(c, o)
      PROVE  Memory!RecordsAreOwn' /\ Memory!ReplayMatchesFingerprint'
  <2>1. PICK x : /\ memoryCall' = [memoryCall EXCEPT ![c] = x]
                 /\ x = None \/ x.result = None
    BY <1>8 DEF Memory!Return, Memory!Invoke
  <2>2. \A d \in Caller \ {c} : memoryCall'[d] = memoryCall[d]
    BY <1>1, <2>1 DEF Memory!CallType
  <2>3. memoryCall'[c] = None \/ memoryCall'[c].result = None
    BY <1>1, <2>1 DEF Memory!CallType
  <2>4. Memory!ReplayMatchesFingerprint'
    BY <2>2, <2>3 DEF Memory!ReplayMatchesFingerprint, Memory!Returned, Memory!Op
  <2> QED
    BY <1>3, <1>8, <2>4
<1>9. CASE Memory!Tick \/ UNCHANGED memoryVars
  <2>1. UNCHANGED <<memoryCall, memoryEntries>>
    BY <1>9 DEF Memory!Tick, memoryVars
  <2> QED
    BY <1>3, <2>1 DEF Memory!ReplayMatchesFingerprint, Memory!Returned, Memory!Op
<1> QED
  BY <1>5, <1>6, <1>7, <1>8, <1>9 DEF Memory!Next

\* Whatever the store does next, the memory part takes a step of its own or none.
LEMMA MemoryMoves ==
    ASSUME [StoresNext]_storeVars
    PROVE  [Memory!Next]_memoryVars
BY DEF StoresNext, storeVars, redisVars, contractVars, memoryVars, sqlxVars

\* The store starts empty.
LEMMA MemoryStarts ==
    ASSUME StoresInit
    PROVE  Memory!IInv /\ Memory!Contract!Init
<1>1. Memory!Init
  BY DEF StoresInit
<1>2. Memory!CallType
  BY <1>1 DEF Memory!Init, Memory!CallInit, Memory!CallType
<1>3. Memory!TypeOK /\ Memory!Unique(memoryEntries)
  BY <1>1, <1>2, StoresAssumption DEF Memory!Init, Memory!TypeOK, Memory!Unique
<1>4. Memory!Table = [k \in Key |-> None]
  <2>1. \A k \in Key : Memory!Of({}, k) = {}
    BY DEF Memory!Of
  <2> QED
    BY <1>1, <2>1 DEF Memory!Init, Memory!Table, Memory!TableOf
<1>5. Memory!Contract!Init
  BY <1>1, <1>4 DEF Memory!Init, Memory!CallInit, Memory!Contract!Init, Memory!Contract!CallInit
<1> QED
  BY <1>3, <1>5 DEF Memory!IInv

\* The invariant survives the steps of every store.
LEMMA MemoryStep ==
    ASSUME Memory!IInv, [StoresNext]_storeVars
    PROVE  Memory!IInv' /\ [Memory!Contract!Next]_<<memoryCall, Memory!Table>>
<1>1. CASE Memory!Next
  BY <1>1, MemoryRefines
<1>2. CASE UNCHANGED memoryVars
  BY <1>2 DEF memoryVars, Memory!IInv, Memory!TypeOK, Memory!CallType, Memory!Unique, Memory!Table, Memory!TableOf,
              Memory!Of
<1> QED
  BY <1>1, <1>2, MemoryMoves

\* The memory store implements the contract, whatever its budgets of entries and
\* of bytes evict before or after a call (stores.rs MemoryIdempotencyStore).
THEOREM MemoryIsAStore == StoresSpec => MemoryImplementsContract
<1>1. Memory!IInv /\ [StoresNext]_storeVars => Memory!IInv'
  BY MemoryStep
<1>2. Memory!IInv /\ [StoresNext]_storeVars => [Memory!Contract!Next]_<<memoryCall, Memory!Table>>
  BY MemoryStep
<1> QED
  BY <1>1, <1>2, MemoryStarts, PTL
     DEF StoresSpec, MemoryImplementsContract, Memory!ImplementsContract, Memory!Contract!Spec

-------------------------------------------------------------------------------
(* Replays of every store. *)

\* TECH-13 D6 for the code of the framework's own stores, and not only for what
\* the trait promises: with every key outliving the GET that follows the begin
\* script, a replay is of the caller's fingerprint in the memory store, in the
\* Redis store with its two commands and lost replies, in the SQLx store with its
\* statements and purges in between, and in a store of the deployment's own
\* (stores.rs, sdkwork-web-store-redis lib.rs, idempotency.rs).
THEOREM EveryReplayIsOwn == ~ExpiryDuringGet => (StoresSpec => []EveryReplayMatches)
<1>1. SUFFICES ASSUME ~ExpiryDuringGet PROVE StoresSpec => []EveryReplayMatches
  OBVIOUS
<1>2. StoresInit => MemoryReplaysInv /\ RedisReplaysInv /\ SqlxReplaysInv
  <2> SUFFICES ASSUME StoresInit PROVE MemoryReplaysInv /\ RedisReplaysInv /\ SqlxReplaysInv
    OBVIOUS
  <2>1. MemoryReplaysInv
    BY MemoryStarts DEF MemoryReplaysInv, StoresInit, Memory!Init, Memory!CallInit, Memory!RecordsAreOwn,
                        Memory!ReplayMatchesFingerprint, Memory!Returned
  <2>2. RedisReplaysInv
    BY DEF RedisReplaysInv, StoresInit, Redis!Init, Redis!CallInit, Redis!IInv, Redis!TypeOK, Redis!CallType,
           Redis!FetchesItsRecord, Redis!RecordsAreOwn, Redis!ReplayMatchesFingerprint, Redis!Returned
  <2>3. SqlxReplaysInv
    BY SqlxStarts DEF SqlxReplaysInv, StoresInit, Sqlx!Init, Sqlx!CallInit, Sqlx!RecordsAreOwn,
                      Sqlx!ReplayMatchesFingerprint, Sqlx!Returned
  <2> QED
    BY <2>1, <2>2, <2>3
<1>3. MemoryReplaysInv /\ [StoresNext]_storeVars => MemoryReplaysInv'
  BY MemoryStep, MemoryMoves, MemoryReplays DEF MemoryReplaysInv
<1>4. RedisReplaysInv /\ [StoresNext]_storeVars => RedisReplaysInv'
  BY <1>1, RedisStep, RedisMoves, RedisReplays DEF RedisReplaysInv
<1>5. SqlxReplaysInv /\ [StoresNext]_storeVars => SqlxReplaysInv'
  BY SqlxStep, SqlxMoves, SqlxReplays DEF SqlxReplaysInv
<1>6. /\ ReplayMatchesFingerprint /\ MemoryReplaysInv /\ RedisReplaysInv /\ SqlxReplaysInv
      => EveryReplayMatches
  BY DEF EveryReplayMatches, MemoryReplaysInv, RedisReplaysInv, SqlxReplaysInv
<1> QED
  BY <1>2, <1>3, <1>4, <1>5, <1>6, ReplaysMatch, PTL DEF StoresSpec

-------------------------------------------------------------------------------
(* Retention. *)

\* The entry that answers a begin with a replay survived the purge of that begin
\* (stores.rs begin, purge_expired).
LEMMA ReplaysSurvivedThePurge ==
    ASSUME Memory!IInv, Memory!Next, NEW c \in Caller,
           Memory!Pending(c), Memory!Op(c).op = "begin", memoryCall'[c] # None, memoryCall'[c].result # None,
           memoryCall'[c].result.status = "replay"
    PROVE  \E e \in memoryEntries : e.key = Memory!Op(c).key /\ memoryClock - e.created < MemoryTtl
<1>1. Memory!TypeOK /\ Memory!CallType /\ memoryEntries \in SUBSET Memory!Entry
  BY DEF Memory!IInv, Memory!TypeOK
<1>2. memoryCall[c].result = None
  BY DEF Memory!Pending
<1>3. memoryCall'[c] # memoryCall[c]
  BY <1>2
<1>4. ASSUME NEW d \in Caller, NEW r \in Memory!Result, Memory!Respond(d, r)
      PROVE  d = c /\ r.status = "replay"
  BY <1>1, <1>3, <1>4, MemoryResponds
<1>5. \A s \in Memory!Status : Memory!Plain(s) \in Memory!Result /\ Memory!Plain(s).status # "replay"
  BY MemoryResults DEF Memory!Plain, Memory!Status
<1>6. ASSUME NEW d \in Caller, NEW s \in Memory!Status, Memory!Respond(d, Memory!Plain(s)) PROVE FALSE
  BY <1>4, <1>5, <1>6
<1>7. ASSUME NEW d \in Caller, Memory!Begin(d)
      PROVE  \E e \in memoryEntries : e.key = Memory!Op(c).key /\ memoryClock - e.created < MemoryTtl
  <2>1. PICK o : o = Memory!Op(d)
    OBVIOUS
  <2>2. PICK E \in Memory!PurgeExpired(memoryEntries) :
           \/ Memory!Respond(d, Memory!Plain("leader"))
           \/ \E e \in Memory!Of(E, o.key) :
                 Memory!Respond(d, IF e.fingerprint # o.fingerprint \/ e.response = None
                                   THEN Memory!Plain("conflict") ELSE Memory!Replay(e.response))
    BY <1>7, <2>1 DEF Memory!Begin
  <2>3. ~Memory!Respond(d, Memory!Plain("leader")) /\ ~Memory!Respond(d, Memory!Plain("conflict"))
    BY <1>6 DEF Memory!Status
  <2>4. PICK e \in Memory!Of(E, o.key) : e.response # None /\ Memory!Respond(d, Memory!Replay(e.response))
    BY <2>2, <2>3
  <2>5. e \in E /\ e.key = o.key /\ e \in memoryEntries /\ memoryClock - e.created < MemoryTtl
    BY MemoryPurges DEF Memory!Of
  <2>6. e.response \in Memory!Record
    BY <1>1, <2>4, <2>5 DEF Memory!Entry
  <2>7. d = c
    BY <1>4, <2>4, <2>6, MemoryResults
  <2> QED
    BY <2>1, <2>5, <2>7
<1>8. ASSUME NEW d \in Caller, Memory!Complete(d) \/ Memory!Release(d) PROVE FALSE
  <2>1. PICK s \in Memory!Status : Memory!Respond(d, Memory!Plain(s))
    BY <1>8 DEF Memory!Complete, Memory!Release, Memory!Status
  <2> QED
    BY <1>6, <2>1
<1>9. ASSUME NEW d \in Caller, Memory!Return(d) \/ \E o \in Memory!Operation : Memory!Invoke(d, o) PROVE FALSE
  <2>1. d # c
    BY <1>2, <1>9 DEF Memory!Return, Memory!Returned, Memory!Invoke, Memory!Pending
  <2> QED
    BY <1>1, <1>3, <1>9, <2>1 DEF Memory!Return, Memory!Invoke, Memory!CallType
<1>10. ~Memory!Tick
  BY <1>3 DEF Memory!Tick
<1> QED
  BY <1>7, <1>8, <1>9, <1>10 DEF Memory!Next

\* No statement takes a row before its time but the DELETE of a release: the purge
\* compares with a clock reading of the past (purge.rs, idempotency.rs).
LEMMA PurgesTakeExpiredRows ==
    ASSUME Sqlx!IInv, Sqlx!Next, NEW k \in Key, rows[k] # None, rows'[k] = None
    PROVE  \/ rows[k].expires <= sqlxClock
           \/ rows[k].response = None /\ \E c \in Caller : Sqlx!DeleteRow(c)
<1>1. /\ Sqlx!TypeOK /\ rows \in [Key -> Sqlx!Row \cup {None}] /\ sqlxClock \in Nat /\ SqlxTtl \in Nat
      /\ Sqlx!PurgesReadTheClock
  BY StoresAssumption DEF Sqlx!IInv, Sqlx!TypeOK
<1>2. rows[k] \in Sqlx!Row /\ rows[k].expires \in Nat
  BY <1>1 DEF Sqlx!Row
<1>3. rows' # rows
  OBVIOUS
<1>4. ASSUME NEW c \in Caller, Sqlx!RunPurge(c) PROVE rows[k].expires <= sqlxClock
  <2>1. seen[c] \in [now : 0..sqlxClock, last : Nat]
    BY <1>1, <1>4 DEF Sqlx!RunPurge, Sqlx!At, Sqlx!PurgesReadTheClock
  <2>2. rows[k].expires <= seen[c].now
    BY <1>4 DEF Sqlx!RunPurge, Sqlx!Unexpired
  <2>3. seen[c].now \in 0..sqlxClock
    BY <2>1
  <2> QED
    BY <1>1, <1>2, <2>2, <2>3
<1>5. ASSUME NEW c \in Caller, Sqlx!InsertRow(c) PROVE FALSE
  <2>1. PICK o : o = Sqlx!Op(c)
    OBVIOUS
  <2>2. o.key \in Key /\ o.fingerprint \in Fingerprint
    BY <1>1, <1>5, <2>1, SqlxTypes DEF Sqlx!InsertRow, Sqlx!At
  <2>3. rows' = [rows EXCEPT ![o.key] = [fingerprint |-> o.fingerprint, response |-> None,
                                          expires |-> sqlxClock + SqlxTtl]]
    BY <1>3, <1>5, <2>1 DEF Sqlx!InsertRow
  <2>4. [fingerprint |-> o.fingerprint, response |-> None, expires |-> sqlxClock + SqlxTtl] \in Sqlx!Row
    BY <1>1, <2>2 DEF Sqlx!Row
  <2> QED
    BY <1>1, <2>2, <2>3, <2>4, RowAssumption
<1>6. ASSUME NEW c \in Caller, Sqlx!UpdateRow(c) PROVE FALSE
  <2>1. PICK o : o = Sqlx!Op(c)
    OBVIOUS
  <2>2. o.key \in Key /\ o.record \in Sqlx!Record
    BY <1>1, <1>6, <2>1, SqlxTypes DEF Sqlx!UpdateRow, Sqlx!At
  <2>3. /\ Sqlx!Matching(o)
        /\ rows' = [rows EXCEPT ![o.key].response = o.record, ![o.key].expires = sqlxClock + SqlxTtl]
    BY <1>3, <1>6, <2>1 DEF Sqlx!UpdateRow
  <2>4. rows[o.key] # None /\ sqlxClock + SqlxTtl \in Nat
    BY <1>1, <2>3 DEF Sqlx!Matching
  <2>5. PICK x \in Sqlx!Row : rows' = [rows EXCEPT ![o.key] = x]
    BY <1>1, <2>2, <2>3, <2>4, SqlxUpdates
  <2> QED
    BY <1>1, <2>2, <2>5, RowAssumption
<1>7. ASSUME NEW c \in Caller, Sqlx!DeleteRow(c) PROVE rows[k].response = None
  <2>1. PICK o : o = Sqlx!Op(c)
    OBVIOUS
  <2>2. o.key \in Key
    BY <1>1, <1>7, <2>1, SqlxTypes DEF Sqlx!DeleteRow, Sqlx!At
  <2>3. rows[o.key].response = None /\ rows' = [rows EXCEPT ![o.key] = None]
    BY <1>3, <1>7, <2>1 DEF Sqlx!DeleteRow
  <2> QED
    BY <1>1, <2>2, <2>3
<1>8. CASE Sqlx!PurgeElsewhere
  BY <1>8 DEF Sqlx!PurgeElsewhere, Sqlx!Unexpired
<1>9. ASSUME NEW c \in Caller,
             \/ Sqlx!LoadPurge(c) \/ Sqlx!SwapPurge(c) \/ Sqlx!SelectRow(c) \/ Sqlx!CheckRow(c) \/ Sqlx!Fail(c)
      PROVE  FALSE
  BY <1>3, <1>9 DEF Sqlx!LoadPurge, Sqlx!SwapPurge, Sqlx!SelectRow, Sqlx!CheckRow, Sqlx!Fail
<1>10. ~Sqlx!Tick
  BY <1>3 DEF Sqlx!Tick
<1> QED
  BY <1>3, <1>4, <1>5, <1>6, <1>7, <1>8, <1>9, <1>10 DEF Sqlx!Next

\* Retention is respected at both ends: the memory store replays no response past
\* its time, and the SQLx store takes no live row (stores.rs purge_expired,
\* purge.rs, idempotency.rs).
THEOREM RetentionIsKept == StoresSpec => RetentionKept
<1>1. Memory!IInv /\ [StoresNext]_storeVars => Memory!IInv'
  BY MemoryStep
<1>2. Sqlx!IInv /\ [StoresNext]_storeVars => Sqlx!IInv'
  BY SqlxStep, SqlxMoves
<1>3. Memory!IInv /\ [StoresNext]_storeVars =>
        [\A c \in Caller :
          (Memory!Pending(c) /\ Memory!Op(c).op = "begin" /\ memoryCall'[c] # None /\ memoryCall'[c].result # None
              /\ memoryCall'[c].result.status = "replay")
          => \E e \in memoryEntries : e.key = Memory!Op(c).key /\ memoryClock - e.created < MemoryTtl]_(Memory!vars)
  BY MemoryMoves, ReplaysSurvivedThePurge DEF memoryVars, Memory!vars
<1>4. Sqlx!IInv /\ [StoresNext]_storeVars =>
        [\A k \in Key :
          (rows[k] # None /\ rows'[k] = None)
              => \/ rows[k].expires <= sqlxClock
                 \/ rows[k].response = None /\ \E c \in Caller : Sqlx!DeleteRow(c)]_(Sqlx!vars)
  BY SqlxMoves, PurgesTakeExpiredRows DEF sqlxVars, Sqlx!vars
<1> QED
  BY <1>1, <1>2, <1>3, <1>4, MemoryStarts, SqlxStarts, PTL
     DEF StoresSpec, RetentionKept, Memory!ReplaysAreRecent, Sqlx!LiveRowsStay

===============================================================================
