-------------------------- MODULE ControlNodeRegistry --------------------------
(***************************************************************************)
(* The control node registry of the admin API (handlers.rs,                 *)
(* admin_service.rs, repository.rs): register, heartbeat and delete, each a *)
(* sequence of SQL statements without a transaction, on a clock read before *)
(* the first of them.  Rows of different nodes do not touch, so one node is *)
(* modelled.                                                                *)
(***************************************************************************)
EXTENDS Integers

CONSTANTS
    Caller,    \* requests about the node
    BaseUrl,   \* what a registration says of the node
    MaxDelay,  \* how long a request uses its clock reading
    MaxClock,  \* bound of the model
    MaxLives,  \* bound of the model: how often the node is inserted
    Failures,  \* TRUE: statements fail or lose their reply
    None

VARIABLES
    row,      \* the row of the node
    request,  \* each caller's request
    clock,
    created,  \* history: lives of the row, and "created" answers for the last one
    acked     \* history: the latest clock reading acknowledged in this life

vars == <<row, request, clock, created, acked>>

Time == 0..MaxClock
Row == [url : BaseUrl, status : {"registered", "online"}, heartbeat : Time,
        createdAt : Time, updatedAt : Time, life : 1..MaxLives]
Answer == {"created", "ok", "unavailable"}
Request == [op : {"register"}, url : BaseUrl, now : Time,
            step : {"insert", "update"}, answer : Answer \cup {None}]
      \cup [op : {"heartbeat"}, now : Time, step : {"update", "select"}, answer : Answer \cup {None}]
      \cup [op : {"delete"}, now : Time, step : {"delete"}, answer : Answer \cup {None}]

TypeOK ==
    /\ row \in Row \cup {None}
    /\ request \in [Caller -> Request \cup {None}]
    /\ clock \in Time
    /\ created \in [lives : 0..MaxLives, answers : Nat]
    /\ acked \in Time

Init ==
    /\ row = None
    /\ request = [c \in Caller |-> None]
    /\ clock = 0
    /\ created = [lives |-> 0, answers |-> 0]
    /\ acked = 0

At(c, op, step) ==
    request[c] # None /\ request[c].op = op /\ request[c].step = step /\ request[c].answer = None

\* The answers a statement can lead to: its reply may be lost.
Replies(answer) == {answer} \cup (IF Failures THEN {"unavailable"} ELSE {})

Acked(t) == IF t > acked THEN t ELSE acked

Answered(c, answer) == request' = [request EXCEPT ![c].answer = answer]
Continue(c, step) == request' = [request EXCEPT ![c].step = step] /\ UNCHANGED acked

Start(c, req) ==
    /\ request[c] = None
    /\ request' = [request EXCEPT ![c] = req]
    /\ UNCHANGED <<row, clock, created, acked>>

Register(c, url) ==
    Start(c, [op |-> "register", url |-> url, now |-> clock, step |-> "insert", answer |-> None])
Heartbeat(c) == Start(c, [op |-> "heartbeat", now |-> clock, step |-> "update", answer |-> None])
Delete(c) == Start(c, [op |-> "delete", now |-> clock, step |-> "delete", answer |-> None])

\* Broken variant: INSERT ... ON CONFLICT DO UPDATE ... with created = true.
InsertNodeAlwaysCreated(c) ==
    LET r == request[c] IN
    /\ At(c, "register", "insert")
    /\ row = None => created.lives < MaxLives
    /\ row' = [url |-> r.url, status |-> "registered", heartbeat |-> r.now,
               createdAt |-> r.now, updatedAt |-> r.now,
               life |-> IF row = None THEN created.lives + 1 ELSE row.life]
    /\ created' = IF row = None THEN [lives |-> created.lives + 1, answers |-> 1]
                  ELSE [created EXCEPT !.answers = @ + 1]
    /\ Answered(c, "created")
    /\ UNCHANGED <<clock, acked>>

\* INSERT ... ON CONFLICT DO NOTHING RETURNING ...
InsertNode(c) ==
    LET r == request[c] IN
    /\ At(c, "register", "insert")
    /\ \/ /\ row = None
          /\ created.lives < MaxLives
          /\ row' = [url |-> r.url, status |-> "registered", heartbeat |-> r.now,
                     createdAt |-> r.now, updatedAt |-> r.now, life |-> created.lives + 1]
          /\ \E answer \in Replies("created") :
                /\ Answered(c, answer)
                /\ created' = [lives |-> created.lives + 1,
                               answers |-> IF answer = "created" THEN 1 ELSE 0]
          /\ acked' = 0
       \/ /\ row # None
          /\ Continue(c, "update")
          /\ UNCHANGED <<row, created>>
    /\ UNCHANGED clock

\* UPDATE ... RETURNING ...: the row may be gone by now.
UpdateNode(c) ==
    LET r == request[c] IN
    /\ At(c, "register", "update")
    /\ \/ /\ row # None
          /\ row' = [row EXCEPT !.url = r.url, !.status = "registered", !.heartbeat = r.now,
                                !.updatedAt = r.now]
          /\ \E answer \in Replies("ok") : Answered(c, answer)
          /\ acked' = Acked(r.now)
       \/ /\ row = None
          /\ Answered(c, "unavailable")
          /\ UNCHANGED <<row, acked>>
    /\ UNCHANGED <<clock, created>>

\* Broken variant: the heartbeat time is not written.
HeartbeatUpdateStatusOnly(c) ==
    LET r == request[c] IN
    /\ At(c, "heartbeat", "update")
    /\ row # None
    /\ row' = [row EXCEPT !.status = "online", !.updatedAt = r.now]
    /\ Continue(c, "select")
    /\ UNCHANGED <<clock, created>>

\* UPDATE ... SET status = 'online'; no row affected is an error.
HeartbeatUpdate(c) ==
    LET r == request[c] IN
    /\ At(c, "heartbeat", "update")
    /\ \/ /\ row # None
          /\ row' = [row EXCEPT !.status = "online", !.heartbeat = r.now, !.updatedAt = r.now]
          /\ Continue(c, "select")
       \/ /\ row = None
          /\ Answered(c, "unavailable")
          /\ UNCHANGED <<row, acked>>
    /\ UNCHANGED <<clock, created>>

\* The record is read back with a SELECT of its own.
HeartbeatSelect(c) ==
    /\ At(c, "heartbeat", "select")
    /\ Answered(c, IF row = None THEN "unavailable" ELSE "ok")
    /\ acked' = IF row = None THEN acked ELSE Acked(request[c].now)
    /\ UNCHANGED <<row, clock, created>>

DeleteNode(c) ==
    /\ At(c, "delete", "delete")
    /\ row' = None
    /\ \E answer \in Replies(IF row = None THEN "unavailable" ELSE "ok") : Answered(c, answer)
    /\ UNCHANGED <<clock, created, acked>>

\* A statement fails without effect.
Fail(c) ==
    /\ Failures
    /\ request[c] # None /\ request[c].answer = None
    /\ Answered(c, "unavailable")
    /\ UNCHANGED <<row, clock, created, acked>>

\* The response is sent and the caller may ask again.
Return(c) ==
    /\ request[c] # None /\ request[c].answer # None
    /\ request' = [request EXCEPT ![c] = None]
    /\ UNCHANGED <<row, clock, created, acked>>

Tick ==
    /\ clock < MaxClock
    /\ \A c \in Caller :
          (request[c] # None /\ request[c].answer = None) => clock - request[c].now < MaxDelay
    /\ clock' = clock + 1
    /\ UNCHANGED <<row, request, created, acked>>

Next ==
    \/ \E c \in Caller :
          \/ Heartbeat(c) \/ Delete(c) \/ \E url \in BaseUrl : Register(c, url)
          \/ InsertNode(c) \/ UpdateNode(c)
          \/ HeartbeatUpdate(c) \/ HeartbeatSelect(c) \/ DeleteNode(c)
          \/ Fail(c) \/ Return(c)
    \/ Tick

Spec == Init /\ [][Next]_vars

-------------------------------------------------------------------------------
\* However registrations race with each other and with deletions, each life of
\* the node is announced as created at most once, and to the caller that
\* inserted it (repository.rs register_control_node, "eliminates the TOCTOU
\* window").
CreatedOnce == row # None => created.lives = row.life /\ created.answers <= 1

\* Overlapping requests may write their clock readings in the wrong order, but
\* the heartbeat time of a live node never falls behind an acknowledged
\* heartbeat or registration by more than a request lasts.
HeartbeatsStayFresh == row # None => row.heartbeat >= acked - MaxDelay

\* The clock reading of a request is recent while the request runs, and a row
\* stays as fresh as the reading of every heartbeat that has written it and is
\* not answered yet.
ReadingsAreRecent ==
    \A c \in Caller : request[c] # None =>
        /\ request[c].now <= clock
        /\ request[c].answer = None => clock - request[c].now <= MaxDelay
        /\ (At(c, "heartbeat", "select") /\ row # None) =>
              row.heartbeat >= request[c].now - MaxDelay

\* The inductive invariant.
IInv == TypeOK /\ CreatedOnce /\ HeartbeatsStayFresh /\ acked <= clock /\ ReadingsAreRecent

===============================================================================
