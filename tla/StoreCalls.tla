------------------------------ MODULE StoreCalls ------------------------------
(***************************************************************************)
(* Calls of the IdempotencyStore trait (sdkwork-web-core stores.rs).        *)
(* Every caller is a task that calls begin, complete or release, waits for  *)
(* the result, and may call again.  The trait does not force a caller to    *)
(* begin before it completes, so neither does this module.                  *)
(***************************************************************************)

CONSTANTS
    Caller,       \* tasks that call the store
    Key,          \* scoped idempotency keys
    Fingerprint,  \* request fingerprints
    Body,         \* response bodies
    None

VARIABLE call

\* An IdempotencyResponseRecord: the response to a request with fingerprint `of`.
Record == [of : Fingerprint, body : Body]

\* A pending call: only complete carries a record.
Operation ==
         [op : {"begin", "release"}, key : Key, fingerprint : Fingerprint]
    \cup {o \in [op : {"complete"}, key : Key, fingerprint : Fingerprint, record : Record] :
              o.record.of = o.fingerprint}

\* Ok(Leader), Ok(()), a conflict, "was not reserved", a failed dependency, or
\* Ok(Replay(record)).
Status == {"leader", "ok", "conflict", "unreserved", "unavailable"}
Result == [status : Status] \cup [status : {"replay"}, record : Record]

Plain(status) == [status |-> status]
Replay(record) == [status |-> "replay", record |-> record]

CallType == call \in [Caller -> [operation : Operation, result : Result \cup {None}] \cup {None}]

CallInit == call = [c \in Caller |-> None]

Pending(c) == call[c] # None /\ call[c].result = None
Returned(c) == call[c] # None /\ call[c].result # None
Op(c) == call[c].operation

Invoke(c, operation) ==
    /\ call[c] = None
    /\ call' = [call EXCEPT ![c] = [operation |-> operation, result |-> None]]

Respond(c, result) ==
    /\ Pending(c)
    /\ call' = [call EXCEPT ![c].result = result]

Return(c) ==
    /\ Returned(c)
    /\ call' = [call EXCEPT ![c] = None]

\* A replay returned to a caller is the response to a request with the same
\* fingerprint as the caller's (TECH-13 D6: another body is a conflict).
ReplayMatchesFingerprint ==
    \A c \in Caller :
        (Returned(c) /\ call[c].result.status = "replay")
            => call[c].result.record.of = Op(c).fingerprint

===============================================================================
