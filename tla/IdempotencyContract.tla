-------------------------- MODULE IdempotencyContract --------------------------
(***************************************************************************)
(* What the IdempotencyStore trait promises its callers (stores.rs): every  *)
(* call takes effect at one instant on a table of reservations and recorded *)
(* responses, from which rows may vanish at any time (expiry, eviction).    *)
(* The memory, Redis and SQLx stores are shown to implement it.             *)
(***************************************************************************)
EXTENDS StoreCalls

CONSTANTS
    FirstResponseWins,  \* FALSE: a later complete may replace a recorded response
    AckUnrecorded       \* TRUE: complete may answer Ok for a reservation it did not fill

ASSUME ContractAssumption == FirstResponseWins \in BOOLEAN /\ AckUnrecorded \in BOOLEAN

VARIABLE table

Row == [fingerprint : Fingerprint, response : Record \cup {None}]

\* The sentinel is neither a row, a record, a result nor a call.
ASSUME NoneAssumption ==
    /\ None \notin Row /\ None \notin Record /\ None \notin Result
    /\ None \notin [operation : Operation, result : Result \cup {None}]

TypeOK == CallType /\ table \in [Key -> Row \cup {None}]

Init == CallInit /\ table = [k \in Key |-> None]

Matches(t, o) == t[o.key] # None /\ t[o.key].fingerprint = o.fingerprint
Recorded(t, o) == Matches(t, o) /\ t[o.key].response # None

Outcome(result, t) == [result |-> result, table |-> t]

\* begin: a vacant key is reserved, a matching record is replayed, and an
\* occupied key may always be answered with a conflict.
BeginOutcomes(t, o) ==
    IF t[o.key] = None
    THEN {Outcome(Plain("leader"),
                  [t EXCEPT ![o.key] = [fingerprint |-> o.fingerprint, response |-> None]])}
    ELSE {Outcome(Plain("conflict"), t)}
         \cup {Outcome(Replay(t[k].response), t) : k \in {k \in {o.key} : Recorded(t, o)}}

\* complete: a reservation becomes a record; a caller whose reservation is gone
\* or is somebody else's is told so.
CompleteOutcomes(t, o) ==
    IF t[o.key] = None THEN {Outcome(Plain("unreserved"), t)}
    ELSE IF ~Matches(t, o) THEN {Outcome(Plain("conflict"), t)}
    ELSE {Outcome(Plain("ok"), u) :
             u \in (IF Recorded(t, o) /\ FirstResponseWins
                    THEN {} ELSE {[t EXCEPT ![o.key].response = o.record]})
                   \cup (IF Recorded(t, o) \/ AckUnrecorded THEN {t} ELSE {})}

\* release: a matching reservation is dropped, a record never is.
ReleaseOutcomes(t, o) ==
    {Outcome(Plain("ok"),
             IF Matches(t, o) /\ ~Recorded(t, o) THEN [t EXCEPT ![o.key] = None] ELSE t)}

Outcomes(t, o) ==
    CASE o.op = "begin" -> BeginOutcomes(t, o)
      [] o.op = "complete" -> CompleteOutcomes(t, o)
      [] o.op = "release" -> ReleaseOutcomes(t, o)

\* The rows in `lost` expired or were evicted.
Without(t, lost) == [k \in Key |-> IF k \in lost THEN None ELSE t[k]]

\* A call takes effect between two losses; its reply may be lost.
Perform(c) ==
    /\ Pending(c)
    /\ \E early, late \in SUBSET Key :
          \E outcome \in Outcomes(Without(table, early), Op(c)) :
             /\ table' = Without(outcome.table, late)
             /\ Respond(c, outcome.result) \/ Respond(c, Plain("unavailable"))

\* A call fails without effect.
Fail(c) == Respond(c, Plain("unavailable")) /\ UNCHANGED table

Lose(lost) == table' = Without(table, lost) /\ UNCHANGED call

Next ==
    \/ \E c \in Caller :
          \/ Perform(c) \/ Fail(c)
          \/ (Return(c) \/ \E o \in Operation : Invoke(c, o)) /\ UNCHANGED table
    \/ \E lost \in SUBSET Key : Lose(lost)

Spec == Init /\ [][Next]_<<call, table>>

-------------------------------------------------------------------------------
\* A recorded response belongs to the fingerprint its row was reserved under.
RecordsMatchRows ==
    \A k \in Key :
        (table[k] # None /\ table[k].response # None) => table[k].response.of = table[k].fingerprint

===============================================================================
