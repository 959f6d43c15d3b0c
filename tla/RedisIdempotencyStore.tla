------------------------- MODULE RedisIdempotencyStore -------------------------
(***************************************************************************)
(* RedisIdempotencyStore (sdkwork-web-store-redis lib.rs).  Each operation  *)
(* is one Lua script, which Redis runs atomically, except that begin reads  *)
(* the recorded response with a GET of its own after the script.  Any       *)
(* number of server processes share the database.                           *)
(***************************************************************************)
EXTENDS StoreCalls

CONSTANTS
    Expiry,           \* TRUE: keys reach the end of their TTL
    ExpiryDuringGet,  \* TRUE: also while a begin is between its script and its GET
    Failures          \* TRUE: connections fail and replies are lost

VARIABLES
    db,       \* the stored payloads
    fetching  \* callers whose begin script returned 2 and whose GET is to come

vars == <<call, db, fetching>>

Payload == [fingerprint : Fingerprint, response : Record \cup {None}]

TypeOK ==
    /\ CallType
    /\ db \in [Key -> Payload \cup {None}]
    /\ fetching \subseteq Caller

Init == CallInit /\ db = [k \in Key |-> None] /\ fetching = {}

\* The result of a script, unless the reply is lost after the script ran.
Reply(c, result) ==
    \/ Respond(c, result)
    \/ Failures /\ Respond(c, Plain("unavailable"))

InScript(c, op) == Pending(c) /\ c \notin fetching /\ Op(c).op = op

Matching(o) == db[o.key] # None /\ db[o.key].fingerprint = o.fingerprint

\* IDEMPOTENCY_BEGIN_SCRIPT and the match on its result.
BeginScript(c) ==
    LET o == Op(c) IN
    /\ InScript(c, "begin")
    /\ \/ /\ db[o.key] = None
          /\ db' = [db EXCEPT ![o.key] = [fingerprint |-> o.fingerprint, response |-> None]]
          /\ Reply(c, Plain("leader"))
          /\ UNCHANGED fetching
       \/ /\ Matching(o) /\ db[o.key].response # None
          /\ fetching' = fetching \cup {c}
          /\ UNCHANGED <<call, db>>
       \/ /\ db[o.key] # None
          /\ ~Matching(o) \/ db[o.key].response = None
          /\ Reply(c, Plain("conflict"))
          /\ UNCHANGED <<db, fetching>>

\* The GET after result 2 takes whatever the key holds by now.
Get(c) ==
    LET payload == db[Op(c).key] IN
    /\ c \in fetching
    /\ fetching' = fetching \ {c}
    /\ Reply(c, IF payload = None THEN Plain("unavailable")   \* nil does not decode
                ELSE IF payload.response = None THEN Plain("conflict")
                ELSE Replay(payload.response))
    /\ UNCHANGED db

\* Broken variant: complete writes the payload without reading it.
CompleteScriptBlind(c) ==
    LET o == Op(c) IN
    /\ InScript(c, "complete")
    /\ db' = [db EXCEPT ![o.key] = [fingerprint |-> o.fingerprint, response |-> o.record]]
    /\ Reply(c, Plain("ok"))
    /\ UNCHANGED fetching

\* IDEMPOTENCY_COMPLETE_SCRIPT: the first response stays.
CompleteScript(c) ==
    LET o == Op(c) IN
    /\ InScript(c, "complete")
    /\ \/ /\ Matching(o)
          /\ db' = IF db[o.key].response = None THEN [db EXCEPT ![o.key].response = o.record] ELSE db
          /\ Reply(c, Plain("ok"))
       \/ /\ ~Matching(o)
          /\ Reply(c, Plain(IF db[o.key] = None THEN "unreserved" ELSE "conflict"))
          /\ UNCHANGED db
    /\ UNCHANGED fetching

\* IDEMPOTENCY_RELEASE_SCRIPT.
ReleaseScript(c) ==
    LET o == Op(c) IN
    /\ InScript(c, "release")
    /\ db' = IF Matching(o) /\ db[o.key].response = None THEN [db EXCEPT ![o.key] = None] ELSE db
    /\ Reply(c, Plain("ok"))
    /\ UNCHANGED fetching

\* No connection, or the command does not reach Redis.
Fail(c) ==
    /\ Failures
    /\ Respond(c, Plain("unavailable"))
    /\ fetching' = fetching \ {c}
    /\ UNCHANGED db

Expire(k) ==
    /\ Expiry
    /\ db[k] # None
    /\ ExpiryDuringGet \/ \A c \in fetching : Op(c).key # k
    /\ db' = [db EXCEPT ![k] = None]
    /\ UNCHANGED <<call, fetching>>

Next ==
    \/ \E c \in Caller :
          \/ BeginScript(c) \/ Get(c) \/ CompleteScript(c) \/ ReleaseScript(c) \/ Fail(c)
          \/ (Return(c) \/ \E o \in Operation : Invoke(c, o)) /\ UNCHANGED <<db, fetching>>
    \/ \E k \in Key : Expire(k)

Spec == Init /\ [][Next]_vars

-------------------------------------------------------------------------------
Contract == INSTANCE IdempotencyContract
            WITH table <- db, FirstResponseWins <- TRUE, AckUnrecorded <- FALSE

\* Although begin reads the response after its script, every call behaves as
\* one atomic call of the trait as long as no key expires between the two
\* (lib.rs, RedisIdempotencyStore).
ImplementsContract == Contract!Spec

(* The inductive invariant.  Between its script and its GET a begin relies on a
   record of its own fingerprint: no script changes a record, so only the end of
   the key's TTL can take it away. *)
FetchesItsRecord ==
    \A c \in fetching :
        /\ Pending(c) /\ Op(c).op = "begin"
        /\ ExpiryDuringGet \/ (Matching(Op(c)) /\ db[Op(c).key].response # None)

IInv == TypeOK /\ FetchesItsRecord

\* A recorded response is one to the fingerprint the key was reserved under.
RecordsAreOwn ==
    \A k \in Key : db[k] # None /\ db[k].response # None => db[k].response.of = db[k].fingerprint

===============================================================================
