-------------------------- MODULE ControlPlane_proofs --------------------------
(***************************************************************************)
(* Proofs about the control plane, for every set of tenants, clients and    *)
(* requests and every bound: each part keeps an invariant of its own, which *)
(* the steps of the other parts leave alone.                                *)
(***************************************************************************)
EXTENDS ControlPlane, FiniteSetTheorems, SequenceTheorems, WellFoundedInduction, TLAPS

-------------------------------------------------------------------------------
(* The control node registry. *)

\* Requests that run keep their clock reading, are the ones that ran, and only
\* the request of c can come to read the row back.
RequestsMove(c) ==
    \A d \in Caller : request'[d] # None =>
        /\ request[d] # None
        /\ request'[d].now = request[d].now
        /\ request'[d].answer = None => request[d].answer = None
        /\ Nodes!At(d, "heartbeat", "select")' => (d = c \/ Nodes!At(d, "heartbeat", "select"))

\* A request has a clock reading, an answer leaves it a request with the same
\* reading, and so does its next statement (handlers.rs register_control_node,
\* heartbeat_control_node, delete_control_node).
LEMMA RequestFields ==
    ASSUME NEW r \in Nodes!Request
    PROVE  /\ r.now \in Nodes!Time
           /\ r.op = "register" => r.url \in BaseUrl
           /\ \A answer \in Nodes!Answer :
                 /\ [r EXCEPT !.answer = answer] \in Nodes!Request
                 /\ [r EXCEPT !.answer = answer].now = r.now
                 /\ [r EXCEPT !.answer = answer].op = r.op
                 /\ [r EXCEPT !.answer = answer].step = r.step
           /\ \A step \in {"update", "select"} :
                 (r.op = "register" /\ step = "update") \/ (r.op = "heartbeat" /\ step = "select") =>
                 /\ [r EXCEPT !.step = step] \in Nodes!Request
                 /\ [r EXCEPT !.step = step].now = r.now
                 /\ [r EXCEPT !.step = step].op = r.op
                 /\ [r EXCEPT !.step = step].answer = r.answer
  BY DEF Nodes!Request, Nodes!Answer

\* A request that runs has the clock reading it started with (handlers.rs
\* now_epoch).
LEMMA ReadingType ==
    ASSUME Nodes!TypeOK, NEW d \in Caller, request[d] # None
    PROVE  request[d] \in Nodes!Request /\ request[d].now \in Nat
<1>1. request[d] \in Nodes!Request
  BY DEF Nodes!TypeOK
<1>2. request[d].now \in Nodes!Time
  BY <1>1, RequestFields
<1> QED
  BY <1>1, <1>2 DEF Nodes!Time

\* Answering a request moves no other one (handlers.rs).
LEMMA AnsweredMoves ==
    ASSUME Nodes!TypeOK, NEW c \in Caller, request[c] # None, request[c].answer = None,
           NEW answer \in Nodes!Answer, Nodes!Answered(c, answer)
    PROVE  /\ request' \in [Caller -> Nodes!Request \cup {None}] /\ RequestsMove(c)
           /\ Nodes!At(c, "heartbeat", "select")' => Nodes!At(c, "heartbeat", "select")
<1>1. request[c] \in Nodes!Request /\ request \in [Caller -> Nodes!Request \cup {None}]
  BY DEF Nodes!TypeOK
<1>2. request' = [request EXCEPT ![c] = [request[c] EXCEPT !.answer = answer]]
  BY DEF Nodes!Answered
<1>3. [request[c] EXCEPT !.answer = answer] \in Nodes!Request
      /\ [request[c] EXCEPT !.answer = answer].now = request[c].now
      /\ [request[c] EXCEPT !.answer = answer].op = request[c].op
      /\ [request[c] EXCEPT !.answer = answer].step = request[c].step
  BY <1>1, RequestFields
<1> QED
  BY <1>1, <1>2, <1>3 DEF RequestsMove, Nodes!At

\* The next statement of a request moves no other one (repository.rs
\* register_control_node, heartbeat_control_node).
LEMMA ContinueMoves ==
    ASSUME Nodes!TypeOK, NEW c \in Caller, request[c] # None, request[c].answer = None,
           NEW step \in {"update", "select"}, Nodes!Continue(c, step),
           (request[c].op = "register" /\ step = "update")
              \/ (request[c].op = "heartbeat" /\ step = "select")
    PROVE  /\ request' \in [Caller -> Nodes!Request \cup {None}] /\ RequestsMove(c)
           /\ step = "update" => ~Nodes!At(c, "heartbeat", "select")'
<1>1. request[c] \in Nodes!Request /\ request \in [Caller -> Nodes!Request \cup {None}]
  BY DEF Nodes!TypeOK
<1>2. request' = [request EXCEPT ![c] = [request[c] EXCEPT !.step = step]]
  BY DEF Nodes!Continue
<1>3. [request[c] EXCEPT !.step = step] \in Nodes!Request
      /\ [request[c] EXCEPT !.step = step].now = request[c].now
      /\ [request[c] EXCEPT !.step = step].answer = request[c].answer
      /\ [request[c] EXCEPT !.step = step].op = request[c].op
  BY <1>1, RequestFields
<1> QED
  BY <1>1, <1>2, <1>3 DEF RequestsMove, Nodes!At

\* The statement that writes a row writes a reading that is recent enough for
\* every acknowledged request and every heartbeat that is under way.
LEMMA WriteIsFresh ==
    ASSUME Nodes!IInv, NEW c \in Caller, request[c] # None, request[c].answer = None,
           RequestsMove(c), request' \in [Caller -> Nodes!Request \cup {None}],
           row'.heartbeat = request[c].now, UNCHANGED nodeClock
    PROVE  Nodes!ReadingsAreRecent' /\ row'.heartbeat >= nodeClock - MaxDelay
<1>1. \A d \in Caller : request[d] # None => request[d].now \in Nat
  BY ReadingType DEF Nodes!IInv
<1>2. nodeClock \in Nat /\ MaxDelay \in Nat
  BY ControlPlaneAssumption DEF Nodes!IInv, Nodes!TypeOK, Nodes!Time
<1>3. request[c].now \in Nat /\ nodeClock - request[c].now <= MaxDelay
  BY <1>1 DEF Nodes!IInv, Nodes!ReadingsAreRecent
<1>4. row'.heartbeat \in Nat /\ row'.heartbeat >= nodeClock - MaxDelay
  BY <1>2, <1>3
<1>5. ASSUME NEW d \in Caller, request'[d] # None
      PROVE  /\ request'[d].now <= nodeClock
             /\ request'[d].answer = None => nodeClock - request'[d].now <= MaxDelay
             /\ row'.heartbeat >= request'[d].now - MaxDelay
  <2>1. request[d] # None /\ request'[d].now = request[d].now /\ request[d].now \in Nat
        /\ (request'[d].answer = None => request[d].answer = None)
    BY <1>1, <1>5 DEF RequestsMove
  <2> QED
    BY <1>2, <1>4, <2>1 DEF Nodes!IInv, Nodes!ReadingsAreRecent
<1> QED
  BY <1>4, <1>5 DEF Nodes!ReadingsAreRecent

\* A step that writes no reading keeps the readings recent.
LEMMA QuietIsFresh ==
    ASSUME Nodes!IInv, NEW c \in Caller,
           RequestsMove(c), Nodes!At(c, "heartbeat", "select")' => Nodes!At(c, "heartbeat", "select"),
           row' \in {row, None}, UNCHANGED nodeClock
    PROVE  Nodes!ReadingsAreRecent'
  BY DEF Nodes!IInv, Nodes!ReadingsAreRecent, RequestsMove

\* The registry starts empty.
LEMMA NodesInit == Nodes!Init => Nodes!IInv
  BY ControlPlaneAssumption
     DEF Nodes!Init, Nodes!IInv, Nodes!TypeOK, Nodes!CreatedOnce, Nodes!HeartbeatsStayFresh,
         Nodes!ReadingsAreRecent, Nodes!Time, Nodes!At
\* Every statement of a request, a lost reply and the clock keep the invariant
\* of the registry (repository.rs register_control_node,
\* heartbeat_control_node, delete_control_node).
LEMMA NodesStep ==
    ASSUME Nodes!IInv, [Nodes!Next]_nodeVars
    PROVE  Nodes!IInv'
<1>0. /\ Nodes!TypeOK /\ Nodes!CreatedOnce /\ Nodes!HeartbeatsStayFresh
      /\ acked <= nodeClock /\ Nodes!ReadingsAreRecent
      /\ nodeClock \in Nat /\ acked \in Nat /\ MaxDelay \in Nat /\ MaxLives \in Nat
      /\ \A d \in Caller : request[d] # None => request[d].now \in Nat
      /\ row # None => row \in Nodes!Row
  BY ControlPlaneAssumption, ReadingType DEF Nodes!IInv, Nodes!TypeOK, Nodes!Time
<1>1. CASE UNCHANGED nodeVars
  BY <1>0, <1>1 DEF nodeVars, Nodes!IInv, Nodes!TypeOK, Nodes!CreatedOnce,
         Nodes!HeartbeatsStayFresh, Nodes!ReadingsAreRecent, Nodes!At
<1>2. CASE Nodes!Tick
  <2>1. Nodes!TypeOK'
    BY <1>0, <1>2, ControlPlaneAssumption DEF Nodes!Tick, Nodes!TypeOK, Nodes!Time
  <2>2. Nodes!CreatedOnce' /\ Nodes!HeartbeatsStayFresh' /\ (acked <= nodeClock)'
    BY <1>0, <1>2 DEF Nodes!Tick, Nodes!CreatedOnce, Nodes!HeartbeatsStayFresh
  <2>3. Nodes!ReadingsAreRecent'
    BY <1>0, <1>2 DEF Nodes!Tick, Nodes!ReadingsAreRecent, Nodes!At
  <2> QED
    BY <2>1, <2>2, <2>3 DEF Nodes!IInv
<1>3. ASSUME NEW c \in Caller, NEW req \in Nodes!Request, req.now = nodeClock,
             ~(req.op = "heartbeat" /\ req.step = "select"), Nodes!Start(c, req)
      PROVE  Nodes!IInv'
  <2>1. Nodes!TypeOK'
    BY <1>0, <1>3 DEF Nodes!Start, Nodes!TypeOK
  <2>2. Nodes!CreatedOnce' /\ Nodes!HeartbeatsStayFresh' /\ (acked <= nodeClock)'
    BY <1>0, <1>3 DEF Nodes!Start, Nodes!CreatedOnce, Nodes!HeartbeatsStayFresh
  <2>3. /\ \A d \in Caller : d # c => request'[d] = request[d]
        /\ request'[c] = req
    BY <1>0, <1>3 DEF Nodes!Start, Nodes!TypeOK
  <2>4. Nodes!ReadingsAreRecent'
    BY <1>0, <1>3, <2>3 DEF Nodes!Start, Nodes!ReadingsAreRecent, Nodes!At
  <2> QED
    BY <2>1, <2>2, <2>4 DEF Nodes!IInv
<1>4. ASSUME NEW c \in Caller, Nodes!Heartbeat(c)
      PROVE  Nodes!IInv'
  <2> DEFINE req == [op |-> "heartbeat", now |-> nodeClock, step |-> "update", answer |-> None]
  <2>1. req \in Nodes!Request /\ req.now = nodeClock /\ ~(req.op = "heartbeat" /\ req.step = "select")
    BY <1>0 DEF Nodes!TypeOK, Nodes!Request
  <2> QED
    BY <1>3, <1>4, <2>1 DEF Nodes!Heartbeat
<1>5. ASSUME NEW c \in Caller, Nodes!Delete(c)
      PROVE  Nodes!IInv'
  <2> DEFINE req == [op |-> "delete", now |-> nodeClock, step |-> "delete", answer |-> None]
  <2>1. req \in Nodes!Request /\ req.now = nodeClock /\ ~(req.op = "heartbeat" /\ req.step = "select")
    BY <1>0 DEF Nodes!TypeOK, Nodes!Request
  <2> QED
    BY <1>3, <1>5, <2>1 DEF Nodes!Delete
<1>6. ASSUME NEW c \in Caller, NEW url \in BaseUrl, Nodes!Register(c, url)
      PROVE  Nodes!IInv'
  <2> DEFINE req == [op |-> "register", url |-> url, now |-> nodeClock, step |-> "insert", answer |-> None]
  <2>1. req \in Nodes!Request /\ req.now = nodeClock /\ ~(req.op = "heartbeat" /\ req.step = "select")
    BY <1>0 DEF Nodes!TypeOK, Nodes!Request
  <2> QED
    BY <1>3, <1>6, <2>1 DEF Nodes!Register
<1>7. ASSUME NEW c \in Caller, Nodes!Return(c)
      PROVE  Nodes!IInv'
  <2>1. Nodes!TypeOK'
    BY <1>0, <1>7 DEF Nodes!Return, Nodes!TypeOK
  <2>2. /\ \A d \in Caller : d # c => request'[d] = request[d]
        /\ request'[c] = None
    BY <1>0, <1>7 DEF Nodes!Return, Nodes!TypeOK
  <2>3. Nodes!CreatedOnce' /\ Nodes!HeartbeatsStayFresh' /\ (acked <= nodeClock)'
    BY <1>0, <1>7 DEF Nodes!Return, Nodes!CreatedOnce, Nodes!HeartbeatsStayFresh
  <2>4. Nodes!ReadingsAreRecent'
    BY <1>0, <1>7, <2>2 DEF Nodes!Return, Nodes!ReadingsAreRecent, Nodes!At
  <2> QED
    BY <2>1, <2>3, <2>4 DEF Nodes!IInv
<1>8. ASSUME NEW c \in Caller, NEW answer \in Nodes!Answer, request[c] # None, request[c].answer = None,
             Nodes!Answered(c, answer), row' \in {row, None}, UNCHANGED <<nodeClock, created>>,
             acked' = acked \/ (acked' = Nodes!Acked(request[c].now)
                               /\ (row' # None => row.heartbeat >= request[c].now - MaxDelay))
      PROVE  Nodes!IInv'
  <2>1. /\ request' \in [Caller -> Nodes!Request \cup {None}] /\ RequestsMove(c)
        /\ Nodes!At(c, "heartbeat", "select")' => Nodes!At(c, "heartbeat", "select")
    BY <1>0, <1>8, AnsweredMoves
  <2>2. Nodes!ReadingsAreRecent'
    BY <1>8, <2>1, QuietIsFresh
  <2>3. acked' \in Nodes!Time /\ acked' <= nodeClock
    <3>1. request[c].now \in Nat /\ request[c].now <= nodeClock
      BY <1>0, <1>8 DEF Nodes!ReadingsAreRecent
    <3> QED
      BY <1>0, <1>8, <3>1, ControlPlaneAssumption DEF Nodes!Acked, Nodes!TypeOK, Nodes!Time
  <2>4. Nodes!TypeOK'
    BY <1>0, <1>8, <2>1, <2>3 DEF Nodes!TypeOK
  <2>5. Nodes!CreatedOnce' /\ Nodes!HeartbeatsStayFresh'
    BY <1>0, <1>8 DEF Nodes!CreatedOnce, Nodes!HeartbeatsStayFresh, Nodes!Acked
  <2> QED
    BY <1>8, <2>2, <2>3, <2>4, <2>5 DEF Nodes!IInv
<1>9. ASSUME NEW c \in Caller, Nodes!Fail(c)
      PROVE  Nodes!IInv'
  BY <1>8, <1>9 DEF Nodes!Fail, Nodes!Answer
<1>10. ASSUME NEW c \in Caller, Nodes!DeleteNode(c)
       PROVE  Nodes!IInv'
  BY <1>8, <1>10 DEF Nodes!DeleteNode, Nodes!Answer, Nodes!Replies, Nodes!At
<1>11. ASSUME NEW c \in Caller, Nodes!HeartbeatSelect(c)
       PROVE  Nodes!IInv'
  <2>1. row # None => row.heartbeat >= request[c].now - MaxDelay
    BY <1>0, <1>11 DEF Nodes!HeartbeatSelect, Nodes!ReadingsAreRecent, Nodes!At
  <2> QED
    BY <1>8, <1>11, <2>1 DEF Nodes!HeartbeatSelect, Nodes!Answer, Nodes!At
<1>12. ASSUME NEW c \in Caller, request[c] # None, request[c].answer = None,
              RequestsMove(c), request' \in [Caller -> Nodes!Request \cup {None}],
              row' \in Nodes!Row, row'.heartbeat = request[c].now, UNCHANGED nodeClock,
              created' \in [lives : 0..MaxLives, answers : Nat], Nodes!CreatedOnce',
              acked' \in {0, acked, Nodes!Acked(request[c].now)}
       PROVE  Nodes!IInv'
  <2>1. Nodes!ReadingsAreRecent' /\ row'.heartbeat >= nodeClock - MaxDelay
    BY <1>12, WriteIsFresh
  <2>2. acked' \in Nodes!Time /\ acked' <= nodeClock
    <3>1. request[c].now \in Nat /\ request[c].now <= nodeClock
      BY <1>0, <1>12 DEF Nodes!ReadingsAreRecent
    <3> QED
      BY <1>0, <1>12, <3>1, ControlPlaneAssumption DEF Nodes!Acked, Nodes!TypeOK, Nodes!Time
  <2>3. Nodes!TypeOK'
    BY <1>0, <1>12, <2>2 DEF Nodes!TypeOK
  <2>4. Nodes!HeartbeatsStayFresh'
    BY <1>0, <1>12, <2>1, <2>2 DEF Nodes!HeartbeatsStayFresh, Nodes!Time
  <2> QED
    BY <1>12, <2>1, <2>2, <2>3, <2>4 DEF Nodes!IInv
<1>13. ASSUME NEW c \in Caller, Nodes!InsertNode(c)
       PROVE  Nodes!IInv'
  <2>0. request[c] # None /\ request[c].op = "register" /\ request[c].answer = None
        /\ request[c].step = "insert" /\ UNCHANGED nodeClock
    BY <1>13 DEF Nodes!InsertNode, Nodes!At
  <2>1. CASE row = None /\ created.lives < MaxLives
             /\ row' = [url |-> request[c].url, status |-> "registered", heartbeat |-> request[c].now,
                        createdAt |-> request[c].now, updatedAt |-> request[c].now,
                        life |-> created.lives + 1]
             /\ acked' = 0
             /\ \E answer \in Nodes!Replies("created") :
                   /\ Nodes!Answered(c, answer)
                   /\ created' = [lives |-> created.lives + 1,
                                  answers |-> IF answer = "created" THEN 1 ELSE 0]
    <3>1. PICK answer \in Nodes!Answer :
             /\ Nodes!Answered(c, answer)
             /\ created' = [lives |-> created.lives + 1, answers |-> IF answer = "created" THEN 1 ELSE 0]
      BY <2>1 DEF Nodes!Replies, Nodes!Answer
    <3>2. RequestsMove(c) /\ request' \in [Caller -> Nodes!Request \cup {None}]
      BY <1>0, <2>0, <3>1, AnsweredMoves
    <3>3. request[c].now \in Nodes!Time /\ request[c].url \in BaseUrl
      BY <1>0, <2>0, ReadingType, RequestFields
    <3>4. created.lives \in Nat /\ created.lives + 1 \in 1..MaxLives
      BY <1>0, <2>1 DEF Nodes!TypeOK
    <3>5. row' \in Nodes!Row /\ row'.heartbeat = request[c].now /\ row'.life = created.lives + 1
      BY <2>1, <3>3, <3>4 DEF Nodes!Row
    <3>6. created' \in [lives : 0..MaxLives, answers : Nat] /\ created'.lives = created.lives + 1
          /\ created'.answers <= 1
      BY <1>0, <3>1, <3>4
    <3>7. Nodes!CreatedOnce'
      BY <3>5, <3>6 DEF Nodes!CreatedOnce
    <3> QED
      BY <1>12, <2>0, <2>1, <3>2, <3>5, <3>6, <3>7
  <2>2. CASE Nodes!Continue(c, "update") /\ UNCHANGED <<row, created>>
    <3>1. /\ request' \in [Caller -> Nodes!Request \cup {None}] /\ RequestsMove(c)
          /\ ~Nodes!At(c, "heartbeat", "select")'
      BY <1>0, <2>0, <2>2, ContinueMoves
    <3>2. Nodes!ReadingsAreRecent'
      BY <2>0, <2>2, <3>1, QuietIsFresh
    <3>3. Nodes!TypeOK' /\ Nodes!CreatedOnce' /\ Nodes!HeartbeatsStayFresh' /\ (acked <= nodeClock)'
      BY <1>0, <2>0, <2>2, <3>1
         DEF Nodes!Continue, Nodes!TypeOK, Nodes!CreatedOnce, Nodes!HeartbeatsStayFresh
    <3> QED
      BY <3>2, <3>3 DEF Nodes!IInv
  <2> QED
    BY <1>13, <2>1, <2>2 DEF Nodes!InsertNode
<1>14. ASSUME NEW c \in Caller, Nodes!UpdateNode(c)
       PROVE  Nodes!IInv'
  <2>0. request[c] # None /\ request[c].op = "register" /\ request[c].answer = None
        /\ UNCHANGED <<nodeClock, created>>
    BY <1>14 DEF Nodes!UpdateNode, Nodes!At
  <2>1. CASE row # None /\ (\E answer \in Nodes!Replies("ok") : Nodes!Answered(c, answer))
             /\ row' = [row EXCEPT !.url = request[c].url, !.status = "registered",
                                   !.heartbeat = request[c].now, !.updatedAt = request[c].now]
             /\ acked' = Nodes!Acked(request[c].now)
    <3>1. PICK answer \in Nodes!Answer : Nodes!Answered(c, answer)
      BY <2>1 DEF Nodes!Replies, Nodes!Answer
    <3>2. RequestsMove(c) /\ request' \in [Caller -> Nodes!Request \cup {None}]
      BY <1>0, <2>0, <3>1, AnsweredMoves
    <3>3. request[c].now \in Nodes!Time /\ request[c].url \in BaseUrl
      BY <1>0, <2>0, ReadingType, RequestFields
    <3>4. row' \in Nodes!Row /\ row'.heartbeat = request[c].now /\ row'.life = row.life
      BY <1>0, <2>1, <3>3 DEF Nodes!Row
    <3>5. Nodes!CreatedOnce' /\ created' \in [lives : 0..MaxLives, answers : Nat]
      BY <1>0, <2>0, <2>1, <3>4 DEF Nodes!CreatedOnce, Nodes!TypeOK
    <3> QED
      BY <1>12, <2>0, <2>1, <3>2, <3>4, <3>5
  <2>2. CASE Nodes!Answered(c, "unavailable") /\ UNCHANGED <<row, acked>>
    BY <1>8, <2>0, <2>2 DEF Nodes!Answer
  <2> QED
    BY <1>14, <2>1, <2>2 DEF Nodes!UpdateNode
<1>15. ASSUME NEW c \in Caller, Nodes!HeartbeatUpdate(c)
       PROVE  Nodes!IInv'
  <2>0. request[c] # None /\ request[c].op = "heartbeat" /\ request[c].answer = None
        /\ UNCHANGED <<nodeClock, created>>
    BY <1>15 DEF Nodes!HeartbeatUpdate, Nodes!At
  <2>1. CASE row # None /\ Nodes!Continue(c, "select")
             /\ row' = [row EXCEPT !.status = "online", !.heartbeat = request[c].now,
                                   !.updatedAt = request[c].now]
    <3>1. RequestsMove(c) /\ request' \in [Caller -> Nodes!Request \cup {None}]
      BY <1>0, <2>0, <2>1, ContinueMoves
    <3>2. request[c].now \in Nodes!Time
      BY <1>0, <2>0, ReadingType, RequestFields
    <3>3. row' \in Nodes!Row /\ row'.heartbeat = request[c].now /\ row'.life = row.life
      BY <1>0, <2>1, <3>2 DEF Nodes!Row
    <3>4. Nodes!CreatedOnce' /\ created' \in [lives : 0..MaxLives, answers : Nat]
      BY <1>0, <2>0, <2>1, <3>3 DEF Nodes!CreatedOnce, Nodes!TypeOK
    <3>5. UNCHANGED acked
      BY <2>1 DEF Nodes!Continue
    <3> QED
      BY <1>12, <2>0, <3>1, <3>3, <3>4, <3>5
  <2>2. CASE Nodes!Answered(c, "unavailable") /\ UNCHANGED <<row, acked>>
    BY <1>8, <2>0, <2>2 DEF Nodes!Answer
  <2> QED
    BY <1>15, <2>1, <2>2 DEF Nodes!HeartbeatUpdate
<1> QED
  BY <1>1, <1>2, <1>4, <1>5, <1>6, <1>7, <1>9, <1>10, <1>11, <1>13, <1>14, <1>15 DEF Nodes!Next

-------------------------------------------------------------------------------
(* The event lists. *)

\* The least-number principle, from the well-foundedness of < on Nat.
LEMMA LeastNat ==
    ASSUME NEW T \in SUBSET Nat, T # {}
    PROVE  \E x \in T : \A y \in T : x <= y
<1> DEFINE R == {ss \in Nat \X Nat : ss[1] < ss[2]}
<1>1. IsWellFoundedOn(R, Nat)
  BY NatLessThanWellFounded DEF OpToRel
<1>2. PICK x \in T : \A y \in T : ~(<<y, x>> \in R)
  BY <1>1, WFMin
<1>3. ASSUME NEW y \in T PROVE x <= y
  <2>1. <<y, x>> \in Nat \X Nat /\ <<y, x>>[1] = y /\ <<y, x>>[2] = x
    OBVIOUS
  <2>2. ~(<<y, x>>[1] < <<y, x>>[2])
    BY <1>2, <2>1
  <2> QED
    BY <2>1, <2>2
<1> QED
  BY <1>3

\* A set of rows has a first and a last one in id order.
LEMMA FirstAndLast ==
    ASSUME NEW S \in SUBSET Events!Event, S # {}
    PROVE  /\ \E m \in S : \A e \in S : e.id >= m.id
           /\ \E m \in S : \A e \in S : e.id <= m.id
<1>1. MaxId \in Nat /\ \A e \in S : e.id \in 1..MaxId
  BY ControlPlaneAssumption DEF Events!Event
<1>2. \E m \in S : \A e \in S : e.id >= m.id
  <2> DEFINE T == {e.id : e \in S}
  <2>1. T \in SUBSET Nat /\ T # {}
    BY <1>1
  <2>2. PICK x \in T : \A y \in T : x <= y
    BY <2>1, LeastNat
  <2> QED
    BY <2>2
<1>3. \E m \in S : \A e \in S : e.id <= m.id
  <2> DEFINE T == {MaxId - e.id : e \in S}
  <2>1. T \in SUBSET Nat /\ T # {}
    BY <1>1
  <2>2. PICK x \in T : \A y \in T : x <= y
    BY <2>1, LeastNat
  <2>3. PICK m \in S : x = MaxId - m.id
    BY <2>2
  <2>4. ASSUME NEW e \in S PROVE e.id <= m.id
    <3>1. MaxId - m.id <= MaxId - e.id
      BY <2>2, <2>3
    <3> QED
      BY <1>1, <3>1
  <2> QED
    BY <2>3, <2>4
<1> QED
  BY <1>2, <1>3

\* The module of the lists counts as this one does.
LEMMA EventsCount ==
    \A S : Cardinality(S) = Events!Cardinality(S) /\ (IsFiniteSet(S) <=> Events!IsFiniteSet(S))
  BY DEF Cardinality, Events!Cardinality, IsFiniteSet, Events!IsFiniteSet

\* What ORDER BY id DESC LIMIT n selects, row by row.
LEMMA NewestDef ==
    \A S, n, e : e \in Events!Newest(S, n) <=> (e \in S /\ Cardinality(Events!Above(S, e)) < n)
<1> TAKE S, n, e
<1>1. e \in Events!Newest(S, n) <=> (e \in S /\ Events!Cardinality(Events!Above(S, e)) < n)
  BY DEF Events!Newest
<1> QED
  BY <1>1, EventsCount

\* Rows taken from the top are all above the rows left out (ORDER BY id DESC
\* LIMIT n in repository.rs).
LEMMA NewestUpper ==
    ASSUME NEW S \in SUBSET Events!Event, IsFiniteSet(S), NEW n \in Nat,
           NEW m \in Events!Newest(S, n), NEW e \in S, e.id >= m.id
    PROVE  e \in Events!Newest(S, n)
<1>1. m \in S /\ Cardinality(Events!Above(S, m)) < n
  BY NewestDef
<1>2. \A f \in S : f.id \in Nat
  <2>1. \A f \in S : f.id \in 1..MaxId
    BY DEF Events!Event
  <2> QED
    BY <2>1, ControlPlaneAssumption
<1>3. Events!Above(S, e) \in SUBSET Events!Above(S, m)
  BY <1>1, <1>2 DEF Events!Above
<1>4. IsFiniteSet(Events!Above(S, m))
  BY FS_Subset DEF Events!Above
<1>5. Cardinality(Events!Above(S, e)) <= Cardinality(Events!Above(S, m))
  BY <1>3, <1>4, FS_Subset
<1>6. IsFiniteSet(Events!Above(S, e))
  BY <1>3, <1>4, FS_Subset
<1>7. Cardinality(Events!Above(S, e)) \in Nat /\ Cardinality(Events!Above(S, m)) \in Nat
  BY <1>4, <1>6, FS_CardinalityType
<1> QED
  BY <1>1, <1>5, <1>7, NewestDef

\* A page is part of what it is taken from.
LEMMA NewestPart ==
    ASSUME NEW S, IsFiniteSet(S), NEW n
    PROVE  Events!Newest(S, n) \in SUBSET S /\ IsFiniteSet(Events!Newest(S, n))
<1>1. Events!Newest(S, n) \in SUBSET S
  BY NewestDef
<1> QED
  BY <1>1, FS_Subset

\* When LIMIT page_size + 1 returns no more than a page, the page is all there
\* is (pagination.rs from_limit_plus_one).
LEMMA LastPageHasAll ==
    ASSUME NEW S \in SUBSET Events!Event, IsFiniteSet(S),
           Cardinality(Events!Fetched(S)) <= PageSize
    PROVE  S \subseteq Events!Newest(Events!Fetched(S), PageSize)
<1> DEFINE F == Events!Fetched(S)
<1>0. PageSize \in Nat \ {0}
  BY ControlPlaneAssumption
<1>1. F = Events!Newest(S, PageSize + 1) /\ F \in SUBSET S /\ IsFiniteSet(F)
  BY NewestPart DEF Events!Fetched
<1>2. Cardinality(F) \in Nat
  BY <1>1, FS_CardinalityType
<1>3. \A e \in S : e.id \in Nat
  BY ControlPlaneAssumption DEF Events!Event
<1>4. S \subseteq F
  <2>1. SUFFICES ASSUME S \ F # {} PROVE FALSE
    OBVIOUS
  <2>2. PICK m \in S \ F : \A e \in S \ F : e.id <= m.id
    BY <2>1, FirstAndLast
  <2>3. Events!Above(S, m) \in SUBSET F
    BY <1>3, <2>2 DEF Events!Above
  <2>4. Cardinality(Events!Above(S, m)) <= Cardinality(F) /\ IsFiniteSet(Events!Above(S, m))
    BY <1>1, <2>3, FS_Subset
  <2>5. Cardinality(Events!Above(S, m)) \in Nat
    BY <2>4, FS_CardinalityType
  <2>6. Cardinality(Events!Above(S, m)) < PageSize + 1
    BY <1>0, <1>2, <2>4, <2>5
  <2> QED
    BY <1>1, <2>2, <2>6, NewestDef
<1>5. ASSUME NEW e \in F PROVE e \in Events!Newest(F, PageSize)
  <2>1. Events!Above(F, e) \in SUBSET F /\ e \notin Events!Above(F, e)
    BY <1>1, <1>3 DEF Events!Above
  <2>2. IsFiniteSet(Events!Above(F, e)) /\ Cardinality(Events!Above(F, e)) <= Cardinality(F)
        /\ Cardinality(F) # Cardinality(Events!Above(F, e))
    BY <1>1, <1>5, <2>1, FS_Subset
  <2>3. Cardinality(Events!Above(F, e)) \in Nat
    BY <2>2, FS_CardinalityType
  <2>4. Cardinality(Events!Above(F, e)) < PageSize
    BY <1>0, <1>2, <2>2, <2>3
  <2> QED
    BY <1>5, <2>4, NewestDef
<1> QED
  BY <1>4, <1>5

\* A page of a list with rows is not empty, and holds every row from its last
\* id on: the next page goes on below that id (pagination.rs
\* next_cursor_from_last_id).
LEMMA PageIsPrefix ==
    ASSUME NEW S \in SUBSET Events!Event, IsFiniteSet(S), S # {}
    PROVE  LET items == Events!Newest(Events!Fetched(S), PageSize)
               last == Events!Min({e.id : e \in items})
           IN  /\ items \in SUBSET S
               /\ last \in {e.id : e \in items}
               /\ \A e \in items : e.id >= last
               /\ \A e \in S : e.id >= last => e \in items
<1> DEFINE F == Events!Fetched(S)
           items == Events!Newest(F, PageSize)
           ids == {e.id : e \in items}
           last == Events!Min(ids)
<1>0. PageSize \in Nat \ {0} /\ MaxId \in Nat
  BY ControlPlaneAssumption
<1>1. F = Events!Newest(S, PageSize + 1) /\ F \in SUBSET S /\ IsFiniteSet(F)
  BY NewestPart DEF Events!Fetched
<1>2. items \in SUBSET F
  BY <1>1, NewestPart
<1>3. \A e \in S : e.id \in Nat
  BY <1>0 DEF Events!Event
<1>4. PICK top \in S : \A e \in S : e.id <= top.id
  BY FirstAndLast
<1>5. top \in F
  <2>1. Events!Above(S, top) = {}
    BY <1>3, <1>4 DEF Events!Above
  <2>2. Cardinality(Events!Above(S, top)) < PageSize + 1
    BY <1>0, <2>1, FS_EmptySet
  <2> QED
    BY <1>1, <2>2, NewestDef
<1>6. top \in items
  <2>1. Events!Above(F, top) = {}
    BY <1>1, <1>3, <1>4 DEF Events!Above
  <2>2. Cardinality(Events!Above(F, top)) < PageSize
    BY <1>0, <2>1, FS_EmptySet
  <2> QED
    BY <1>5, <2>2, NewestDef
<1>7. ids \in SUBSET Nat /\ ids # {}
  BY <1>1, <1>2, <1>3, <1>6
<1>8. last \in ids /\ \A y \in ids : last <= y
  <2>1. PICK x \in ids : \A y \in ids : x <= y
    BY <1>7, LeastNat
  <2> QED
    BY <2>1 DEF Events!Min
<1>9. PICK m \in items : m.id = last
  BY <1>8
<1>10. ASSUME NEW e \in S, e.id >= last PROVE e \in items
  <2>1. m \in Events!Newest(S, PageSize + 1)
    BY <1>1, <1>2, <1>9
  <2>2. e \in F
    BY <1>0, <1>1, <1>9, <1>10, <2>1, NewestUpper
  <2>3. F \in SUBSET Events!Event
    BY <1>1
  <2> QED
    BY <1>0, <1>1, <1>9, <1>10, <2>2, <2>3, NewestUpper
<1>11. \A e \in items : e.id >= last
  BY <1>1, <1>2, <1>3, <1>7, <1>8
<1> QED
  BY <1>1, <1>2, <1>8, <1>10, <1>11

\* The lists start empty.
LEMMA EventsInit == Events!Init => Events!IInv
<1>1. Events!IsFiniteSet({})
  BY FS_EmptySet, EventsCount
<1> QED
  BY <1>1, ControlPlaneAssumption
     DEF Events!Init, Events!IInv, Events!TypeOK, Events!RowsAreWritten

\* What becomes of a listing when its next page is answered, its rows between
\* the cursor and the next one included (handlers.rs list_audit_events and
\* list_security_events).
LEMMA PageStep ==
    ASSUME Events!IInv, NEW c \in Client, Events!NextPage(c)
    PROVE  session'[c] \in Events!Session /\ Events!PagesSoFar(session[c])'
<1> DEFINE s == session[c]
           scope == Events!Scope(s.caller, s.query)
           after == Events!AfterCursor(scope, s.cursor)
           rows0 == Events!Fetched(after)
           items == Events!Newest(rows0, PageSize)
           more == Events!Cardinality(rows0) > PageSize
           last == Events!Min({e.id : e \in items})
           cursor == IF more THEN last ELSE s.cursor
           status == IF more THEN "open" ELSE "done"
           start == IF s.cursor = 0 THEN Events!InScope(scope) ELSE s.start
           got == s.got \cup items
           twice == s.twice \/ items \cap s.got # {}
           t == IF scope = {} THEN [s EXCEPT !.status = "forbidden"]
                ELSE [s EXCEPT !.cursor = cursor, !.status = status, !.start = start,
                               !.got = got, !.twice = twice]
<1>1. /\ s # None /\ s.status = "open" /\ session' = [session EXCEPT ![c] = t]
      /\ UNCHANGED <<lastId, writing, events>>
  BY DEF Events!NextPage
<1>2. /\ s \in Events!Session /\ Events!PagesSoFar(s) /\ Events!RowsAreWritten
      /\ events \subseteq Events!Event /\ session'[c] = t
      /\ MaxId \in Nat /\ PageSize \in Nat
  BY <1>1, ControlPlaneAssumption DEF Events!IInv, Events!TypeOK
<1>3. CASE scope = {}
  <2>1. t \in Events!Session /\ t.status = "forbidden" /\ t.got = s.got /\ t.twice = s.twice
        /\ t.start = s.start /\ t.caller = s.caller /\ t.query = s.query
    BY <1>2, <1>3 DEF Events!Session
  <2> HIDE DEF t
  <2> QED
    BY <1>1, <1>2, <2>1 DEF Events!PagesSoFar
<1>4. CASE scope # {}
  <2>1. after = {e \in events : e.tenant \in scope /\ (s.cursor = 0 \/ e.id < s.cursor)}
    BY DEF Events!AfterCursor, Events!InScope
  <2>2. after \in SUBSET Events!Event /\ IsFiniteSet(after)
    <3>1. IsFiniteSet(events)
      BY <1>2, EventsCount DEF Events!RowsAreWritten
    <3> QED
      BY <1>2, <2>1, <3>1, FS_Subset
  <2>3. items \in SUBSET after
    <3>1. rows0 \in SUBSET after /\ IsFiniteSet(rows0)
      BY <2>2, NewestPart DEF Events!Fetched
    <3> QED
      BY <3>1, NewestPart
  <2>4. \A e \in Events!Event : e.id \in 1..MaxId /\ e.id \in Nat
    BY <1>2 DEF Events!Event
  <2>5. more => /\ last \in 1..MaxId /\ \E e \in items : e.id = last
                /\ \A e \in items : e.id >= last
                /\ \A e \in after : e.id >= last => e \in items
    <3> SUFFICES ASSUME more PROVE /\ last \in 1..MaxId /\ \E e \in items : e.id = last
                                   /\ \A e \in items : e.id >= last
                                   /\ \A e \in after : e.id >= last => e \in items
      OBVIOUS
    <3>1. after # {}
      <4>1. SUFFICES ASSUME after = {} PROVE FALSE
        OBVIOUS
      <4>2. rows0 = {}
        BY <2>2, <4>1, NewestPart DEF Events!Fetched
      <4>3. Events!Cardinality(rows0) = 0
        BY <4>2, EventsCount, FS_EmptySet
      <4> QED
        BY <1>2, <4>3
    <3>2. /\ last \in {e.id : e \in items}
          /\ \A e \in items : e.id >= last
          /\ \A e \in after : e.id >= last => e \in items
      BY <2>2, <3>1, PageIsPrefix
    <3>3. last \in 1..MaxId
      BY <2>2, <2>3, <2>4, <3>2
    <3> QED
      BY <3>2, <3>3
  <2>6. ~more => after \subseteq items
    <3> SUFFICES ASSUME ~more PROVE after \subseteq items
      OBVIOUS
    <3>1. rows0 \in SUBSET after /\ IsFiniteSet(rows0)
      BY <2>2, NewestPart DEF Events!Fetched
    <3>2. Cardinality(rows0) \in Nat /\ Cardinality(rows0) = Events!Cardinality(rows0)
      BY <3>1, EventsCount, FS_CardinalityType
    <3>3. Cardinality(rows0) <= PageSize
      BY <1>2, <3>2
    <3> QED
      BY <2>2, <3>3, LastPageHasAll
  <2> HIDE DEF after, items, more, last, scope
  <2>7. /\ cursor \in 0..MaxId /\ status \in {"open", "done"} /\ start \in SUBSET Events!Event
        /\ got \in SUBSET Events!Event /\ twice \in BOOLEAN
    <3>1. Events!InScope(scope) \subseteq Events!Event /\ items \subseteq Events!Event
      BY <1>2, <2>2, <2>3 DEF Events!InScope
    <3> QED
      BY <1>2, <2>5, <3>1 DEF Events!Session
  <2>8. t = [s EXCEPT !.cursor = cursor, !.status = status, !.start = start,
                      !.got = got, !.twice = twice]
    BY <1>4
  <2> HIDE DEF t, cursor, status, start, got, twice
  <2>9. /\ t \in Events!Session /\ t.caller = s.caller /\ t.query = s.query
        /\ t.cursor = cursor /\ t.status = status /\ t.start = start /\ t.got = got /\ t.twice = twice
    BY <1>2, <2>7, <2>8 DEF Events!Session
  <2> USE DEF cursor, status, start, got, twice
  <2>10. s.cursor \in Nat /\ s.got \subseteq Events!Event /\ s.start \subseteq Events!Event
    BY <1>2 DEF Events!Session
  <2>11. items \cap s.got = {}
    <3>1. CASE s.cursor = 0
      BY <1>1, <1>2, <3>1 DEF Events!PagesSoFar
    <3>2. CASE s.cursor # 0
      <4>1. \A e \in s.got : e.id >= s.cursor /\ e.id \in Nat
        BY <1>1, <1>2, <2>4, <2>10, <3>2 DEF Events!PagesSoFar
      <4>2. \A e \in items : e.id < s.cursor
        BY <2>1, <2>3, <3>2
      <4> QED
        BY <2>10, <4>1, <4>2
    <3> QED
      BY <3>1, <3>2
  <2>12. \A e \in t.start \cup t.got : e.tenant \in scope
    BY <1>2, <2>1, <2>3, <2>9 DEF Events!PagesSoFar, Events!InScope, scope
  <2>13. t.start \cap writing = {} /\ \A e \in t.start : e.id <= lastId
    BY <1>2, <2>9 DEF Events!PagesSoFar, Events!InScope, Events!RowsAreWritten
  <2>14. \A e \in t.start \cap events : e \in after \/ e \in s.got
    <3>1. CASE s.cursor = 0
      BY <2>1, <2>9, <3>1 DEF Events!InScope
    <3>2. CASE s.cursor # 0
      BY <1>1, <1>2, <2>1, <2>4, <2>9, <2>10, <2>12, <3>2 DEF Events!PagesSoFar
    <3> QED
      BY <3>1, <3>2
  <2>15. ~t.twice
    BY <1>2, <2>9, <2>11 DEF Events!PagesSoFar
  <2>16. CASE more
    <3>1. t.status = "open" /\ t.cursor = last /\ last \in Nat /\ last # 0
      BY <2>5, <2>9, <2>16
    <3>2. \A e \in t.got : e.id >= last
      <4>1. CASE s.cursor = 0
        BY <1>1, <1>2, <2>5, <2>9, <2>16, <4>1 DEF Events!PagesSoFar
      <4>2. CASE s.cursor # 0
        <5>1. last < s.cursor
          BY <2>1, <2>3, <2>5, <2>16, <4>2
        <5> QED
          BY <1>1, <1>2, <2>4, <2>5, <2>9, <2>10, <2>16, <3>1, <4>2, <5>1 DEF Events!PagesSoFar
      <4> QED
        BY <4>1, <4>2
    <3>3. \A e \in t.start \cap events : e.id >= last => e \in t.got
      BY <2>5, <2>9, <2>14, <2>16
    <3> QED
      BY <1>1, <1>2, <2>9, <2>12, <2>13, <2>15, <3>1, <3>2, <3>3 DEF Events!PagesSoFar, scope
  <2>17. CASE ~more
    <3>1. t.status = "done" /\ (t.start \cap events) \subseteq t.got
      BY <2>6, <2>9, <2>14, <2>17
    <3> QED
      BY <1>1, <1>2, <2>9, <2>12, <2>13, <2>15, <3>1 DEF Events!PagesSoFar, scope
  <2> QED
    BY <2>16, <2>17
<1> QED
  BY <1>3, <1>4

\* Paging, writing and purging keep the invariant of the event lists.
LEMMA EventsStep ==
    ASSUME Events!IInv, [Events!Next]_eventVars
    PROVE  Events!IInv'
<1>0. /\ Events!TypeOK /\ Events!RowsAreWritten /\ MaxId \in Nat
      /\ \A c \in Client : session[c] # None => Events!PagesSoFar(session[c])
      /\ \A c \in Client : session[c] # None => session[c] \in Events!Session
  BY ControlPlaneAssumption DEF Events!IInv, Events!TypeOK
<1>1. CASE UNCHANGED eventVars
  BY <1>0, <1>1 DEF eventVars, Events!IInv, Events!TypeOK, Events!RowsAreWritten, Events!PagesSoFar
<1>2. ASSUME NEW c \in Client, Events!NextPage(c)
      PROVE  Events!IInv'
  <2>1. PICK s : session' = [session EXCEPT ![c] = s] /\ UNCHANGED <<lastId, writing, events>>
    BY <1>2 DEF Events!NextPage
  <2>2. \A d \in Client : d # c => session'[d] = session[d]
    BY <1>0, <2>1 DEF Events!TypeOK
  <2>3. session'[c] \in Events!Session /\ Events!PagesSoFar(session[c])'
    BY <1>2, PageStep
  <2>4. session' \in [Client -> Events!Session \cup {None}]
    BY <1>0, <2>1, <2>3 DEF Events!TypeOK
  <2>5. ASSUME NEW d \in Client, session'[d] # None
        PROVE  Events!PagesSoFar(session[d])'
    BY <1>0, <2>1, <2>2, <2>3, <2>5 DEF Events!PagesSoFar
  <2> QED
    BY <1>0, <2>1, <2>4, <2>5 DEF Events!IInv, Events!TypeOK, Events!RowsAreWritten
<1>3. ASSUME NEW c \in Client, NEW caller \in Events!Principal, NEW query \in Events!Query,
             Events!StartListing(c, caller, query)
      PROVE  Events!IInv'
  <2> DEFINE s == [caller |-> caller, query |-> query, cursor |-> 0, status |-> "open",
                   start |-> {}, got |-> {}, twice |-> FALSE]
  <2>1. session' = [session EXCEPT ![c] = s] /\ UNCHANGED <<lastId, writing, events>>
    BY <1>3 DEF Events!StartListing
  <2>2. s \in Events!Session
    BY <1>0 DEF Events!Session
  <2>3. session' \in [Client -> Events!Session \cup {None}]
    BY <1>0, <2>1, <2>2 DEF Events!TypeOK
  <2>4. session'[c] = s /\ \A d \in Client : d # c => session'[d] = session[d]
    BY <1>0, <2>1 DEF Events!TypeOK
  <2>5. Events!PagesSoFar(session[c])'
    BY <2>4 DEF Events!PagesSoFar
  <2>6. ASSUME NEW d \in Client, session'[d] # None
        PROVE  Events!PagesSoFar(session[d])'
    BY <1>0, <2>1, <2>4, <2>5, <2>6 DEF Events!PagesSoFar
  <2> QED
    BY <1>0, <2>1, <2>3, <2>6 DEF Events!IInv, Events!TypeOK, Events!RowsAreWritten
<1>4. \A x \in Events!Event : x.id \in Nat /\ x.id \in 1..MaxId
  BY <1>0 DEF Events!Event
<1>5. ASSUME UNCHANGED session, lastId' \in Nat, lastId' >= lastId,
             \A d \in Client : session[d] # None =>
                 /\ session[d].start \cap writing' = {}
                 /\ session[d].start \cap events' \subseteq session[d].start \cap events
      PROVE  \A d \in Client : session'[d] # None => Events!PagesSoFar(session[d])'
  <2> SUFFICES ASSUME NEW d \in Client, session[d] # None
               PROVE  Events!PagesSoFar(session[d])'
    BY <1>5
  <2>1. session[d].start \subseteq Events!Event /\ lastId \in Nat
    BY <1>0 DEF Events!Session, Events!TypeOK
  <2>2. \A x \in session[d].start : x.id <= lastId'
    BY <1>0, <1>4, <1>5, <2>1 DEF Events!PagesSoFar
  <2> QED
    BY <1>0, <1>5, <2>2 DEF Events!PagesSoFar
<1>6. ASSUME NEW tenant \in Tenant \cup {None}, Events!StartInsert(tenant)
      PROVE  Events!IInv'
  <2> DEFINE e == [id |-> lastId + 1, tenant |-> tenant]
  <2>1. lastId \in Nat /\ lastId < MaxId /\ lastId' = lastId + 1 /\ writing' = writing \cup {e}
        /\ UNCHANGED <<events, session>>
    BY <1>0, <1>6 DEF Events!StartInsert, Events!TypeOK
  <2>2. e \in Events!Event /\ e.id = lastId + 1
    BY <1>0, <2>1 DEF Events!Event
  <2>3. \A x \in events \cup writing : x.id \in Nat /\ x.id <= lastId
    BY <1>0, <1>4 DEF Events!TypeOK, Events!RowsAreWritten
  <2> HIDE DEF e
  <2>4. Events!TypeOK'
    BY <1>0, <2>1, <2>2 DEF Events!TypeOK
  <2>5. e \notin events
    BY <2>1, <2>2, <2>3
  <2>6. Events!RowsAreWritten'
    BY <1>0, <2>1, <2>2, <2>3, <2>5 DEF Events!RowsAreWritten
  <2>7. ASSUME NEW d \in Client, session[d] # None
        PROVE  session[d].start \cap writing' = {}
    <3>1. session[d].start \subseteq Events!Event
      BY <1>0, <2>7 DEF Events!Session
    <3>2. \A x \in session[d].start : x.id \in Nat /\ x.id <= lastId
      BY <1>0, <1>4, <2>7, <3>1 DEF Events!PagesSoFar
    <3>3. e \notin session[d].start
      BY <2>1, <2>2, <3>2
    <3> QED
      BY <1>0, <2>1, <2>7, <3>3 DEF Events!PagesSoFar
  <2>8. \A d \in Client : session'[d] # None => Events!PagesSoFar(session[d])'
    BY <1>5, <2>1, <2>7
  <2> QED
    BY <2>4, <2>6, <2>8 DEF Events!IInv
<1>7. ASSUME NEW e \in writing, Events!CommitInsert(e)
      PROVE  Events!IInv'
  <2>1. writing' = writing \ {e} /\ events' = events \cup {e} /\ UNCHANGED <<lastId, session>>
    BY <1>7 DEF Events!CommitInsert
  <2>2. Events!TypeOK'
    BY <1>0, <1>7, <2>1 DEF Events!TypeOK
  <2>3. Events!IsFiniteSet(events')
    <3>1. IsFiniteSet(events)
      BY <1>0, EventsCount DEF Events!RowsAreWritten
    <3>2. IsFiniteSet(events')
      BY <2>1, <3>1, FS_AddElement
    <3> QED
      BY <3>2, EventsCount
  <2>4. Events!RowsAreWritten'
    BY <1>0, <1>7, <2>1, <2>3 DEF Events!RowsAreWritten
  <2>5. \A d \in Client : session[d] # None =>
            /\ session[d].start \cap writing' = {}
            /\ session[d].start \cap events' \subseteq session[d].start \cap events
    BY <1>0, <1>7, <2>1 DEF Events!PagesSoFar
  <2>6. lastId' \in Nat /\ lastId' >= lastId
    BY <1>0, <2>1 DEF Events!TypeOK
  <2>7. \A d \in Client : session'[d] # None => Events!PagesSoFar(session[d])'
    BY <1>5, <2>1, <2>5, <2>6
  <2> QED
    BY <2>2, <2>4, <2>7 DEF Events!IInv
<1>8. ASSUME NEW id \in 1..MaxId, Events!Purge(id)
      PROVE  Events!IInv'
  <2>1. events' = {e \in events : e.id > id} /\ UNCHANGED <<lastId, writing, session>>
    BY <1>8 DEF Events!Purge
  <2>2. Events!TypeOK'
    BY <1>0, <2>1 DEF Events!TypeOK
  <2>3. Events!IsFiniteSet(events')
    <3>1. IsFiniteSet(events)
      BY <1>0, EventsCount DEF Events!RowsAreWritten
    <3>2. events' \in SUBSET events
      BY <2>1
    <3>3. IsFiniteSet(events')
      BY <3>1, <3>2, FS_Subset
    <3> QED
      BY <3>3, EventsCount
  <2>4. Events!RowsAreWritten'
    BY <1>0, <2>1, <2>3 DEF Events!RowsAreWritten
  <2>5. \A d \in Client : session[d] # None =>
            /\ session[d].start \cap writing' = {}
            /\ session[d].start \cap events' \subseteq session[d].start \cap events
    BY <1>0, <2>1 DEF Events!PagesSoFar
  <2>6. lastId' \in Nat /\ lastId' >= lastId
    BY <1>0, <2>1 DEF Events!TypeOK
  <2>7. \A d \in Client : session'[d] # None => Events!PagesSoFar(session[d])'
    BY <1>5, <2>1, <2>5, <2>6
  <2> QED
    BY <2>2, <2>4, <2>7 DEF Events!IInv
<1> QED
  BY <1>1, <1>2, <1>3, <1>6, <1>7, <1>8 DEF Events!Next

-------------------------------------------------------------------------------
(* The dynamic policies. *)

\* The cache starts empty.
LEMMA PoliciesInit == Policies!Init => Policies!IInv
  BY ControlPlaneAssumption DEF Policies!Init, Policies!IInv, Policies!TypeOK, Policies!Version

\* A row that is written ends the version before it now, not earlier
\* (repository.rs, INSERT ... ON CONFLICT DO UPDATE ... version + 1).
LEMMA CurrentStep ==
    ASSUME Policies!TypeOK, NEW row1 \in Policies!RowId, NEW v \in Policies!Version,
           NEW t \in Int, t <= clock, Policies!CurrentAfter(row1, v, t),
           UNCHANGED <<rows, since>> \/ \E x \in Policies!RowId : Policies!WriteRow(x)
    PROVE  Policies!CurrentAfter(row1, v, t)'
<1>0. rows \in [Policies!RowId -> 0..MaxVersion] /\ MaxVersion \in Nat /\ clock \in Nat
      /\ since \in [Policies!RowId -> [0..MaxVersion -> 0..MaxClock]] /\ v \in 0..MaxVersion
  BY ControlPlaneAssumption DEF Policies!TypeOK, Policies!Version
<1>1. CASE UNCHANGED <<rows, since>>
  BY <1>1 DEF Policies!CurrentAfter
<1>2. ASSUME NEW x \in Policies!RowId, Policies!WriteRow(x)
      PROVE  Policies!CurrentAfter(row1, v, t)'
  <2>1. CASE x # row1
    <3>1. rows'[row1] = rows[row1] /\ since'[row1] = since[row1]
      BY <1>0, <1>2, <2>1 DEF Policies!WriteRow
    <3> QED
      BY <3>1 DEF Policies!CurrentAfter
  <2>2. CASE x = row1
    <3> DEFINE n == rows[row1]
    <3>1. n \in Nat /\ n < MaxVersion /\ rows'[row1] = n + 1
          /\ since'[row1] = [since[row1] EXCEPT ![n + 1] = clock]
      BY <1>0, <1>2, <2>2 DEF Policies!WriteRow
    <3>2. since'[row1][n + 1] = clock /\ \A w \in 0..MaxVersion : w # n + 1 => since'[row1][w] = since[row1][w]
      BY <1>0, <3>1
    <3>3. CASE n = v
      BY <1>0, <3>1, <3>2, <3>3 DEF Policies!CurrentAfter
    <3>4. CASE n > v /\ since[row1][v + 1] >= t
      <4>1. v + 1 \in 0..MaxVersion /\ v + 1 # n + 1
        BY <1>0, <3>1, <3>4
      <4> QED
        BY <1>0, <3>1, <3>2, <3>4, <4>1 DEF Policies!CurrentAfter
    <3> QED
      BY <3>3, <3>4 DEF Policies!CurrentAfter
  <2> QED
    BY <2>1, <2>2
<1> QED
  BY <1>1, <1>2

\* So does everything that was read.
LEMMA ReadingStep ==
    ASSUME Policies!TypeOK, NEW read \in Policies!Reading, NEW t \in Int, t <= clock,
           Policies!ReadingIsCurrent(read, t),
           UNCHANGED <<rows, since>> \/ \E x \in Policies!RowId : Policies!WriteRow(x)
    PROVE  Policies!ReadingIsCurrent(read, t)'
<1>1. ASSUME NEW i \in DOMAIN read
      PROVE  Policies!CurrentAfter(read[i].row, read[i].version, t)'
  <2>0. read \in Seq([row : Policies!RowId, version : Policies!Version])
    BY DEF Policies!Reading
  <2>1. read[i] \in [row : Policies!RowId, version : Policies!Version]
    BY <2>0, ElementOfSeq, LenProperties
  <2>2. PICK row1 \in Policies!RowId, v \in Policies!Version :
            read[i].row = row1 /\ read[i].version = v
    BY <2>1
  <2>3. Policies!CurrentAfter(row1, v, t)
    BY <2>2 DEF Policies!ReadingIsCurrent
  <2>4. Policies!CurrentAfter(row1, v, t)'
    BY <2>3, CurrentStep
  <2> QED
    BY <2>2, <2>4
<1> QED
  BY <1>1 DEF Policies!ReadingIsCurrent

\* And it was there since any earlier instant.
LEMMA ReadingWeaken ==
    ASSUME Policies!TypeOK, NEW read \in Policies!Reading, NEW t \in Int, NEW u \in Int, u <= t,
           Policies!ReadingIsCurrent(read, t)
    PROVE  Policies!ReadingIsCurrent(read, u)
<1> SUFFICES ASSUME NEW i \in DOMAIN read
             PROVE  Policies!CurrentAfter(read[i].row, read[i].version, u)
  BY DEF Policies!ReadingIsCurrent
<1>1. read \in Seq([row : Policies!RowId, version : Policies!Version])
  BY DEF Policies!Reading
<1>2. read[i] \in [row : Policies!RowId, version : Policies!Version]
  BY <1>1, ElementOfSeq, LenProperties
<1>3. PICK x \in Policies!RowId, v \in 0..MaxVersion : read[i].row = x /\ read[i].version = v
  BY <1>2 DEF Policies!Version
<1>4. rows[x] \in 0..MaxVersion /\ since[x] \in [0..MaxVersion -> 0..MaxClock] /\ MaxVersion \in Nat
  BY ControlPlaneAssumption DEF Policies!TypeOK, Policies!Version
<1>5. Policies!CurrentAfter(x, v, t)
  BY <1>3 DEF Policies!ReadingIsCurrent
<1>6. CASE rows[x] = v
  BY <1>3, <1>6 DEF Policies!CurrentAfter
<1>7. CASE rows[x] > v /\ since[x][v + 1] >= t
  <2>1. v + 1 \in 0..MaxVersion
    BY <1>4, <1>7
  <2>2. since[x][v + 1] \in 0..MaxClock
    BY <1>4, <2>1
  <2>3. since[x][v + 1] >= u
    BY <1>7, <2>2
  <2> QED
    BY <1>3, <1>7, <2>3 DEF Policies!CurrentAfter
<1> QED
  BY <1>5, <1>6, <1>7 DEF Policies!CurrentAfter

\* A step that writes rows, if any, and is not a tick.
Writing ==
    /\ UNCHANGED <<clock, kind>>
    /\ UNCHANGED <<rows, since>> \/ \E x \in Policies!RowId : Policies!WriteRow(x)

\* The step leaves a tenant's own rows and its pending invalidations alone, or
\* leaves it with an invalidation to come.
TenantKeeps(tenant) ==
    \/ /\ \A x \in Policies!RowId : x.tenant = tenant => rows'[x] = rows[x]
       /\ \A a \in Admin : (upsert[a] # None /\ upsert[a].tenant = tenant) =>
                              (upsert'[a] # None /\ upsert'[a].tenant = tenant)
    \/ \E a \in Admin : upsert'[a] # None /\ upsert'[a].tenant = tenant

\* Then readings of its rows stay as current as they were.
LEMMA OwnStep ==
    ASSUME NEW k, NEW read \in Policies!Reading, TenantKeeps(k.tenant),
           Policies!OwnRowsAreCurrent(k, read)
    PROVE  Policies!OwnRowsAreCurrent(k, read)'
<1> SUFFICES ASSUME NEW i \in DOMAIN read
             PROVE  \/ read[i].row.tenant # k.tenant
                    \/ read[i].version = rows'[read[i].row]
                    \/ \E a \in Admin : upsert'[a] # None /\ upsert'[a].tenant = k.tenant
  BY DEF Policies!OwnRowsAreCurrent
<1>1. read \in Seq([row : Policies!RowId, version : Policies!Version])
  BY DEF Policies!Reading
<1>2. read[i] \in [row : Policies!RowId, version : Policies!Version]
  BY <1>1, ElementOfSeq, LenProperties
<1>3. read[i].row \in Policies!RowId
  BY <1>2
<1> QED
  BY <1>3 DEF TenantKeeps, Policies!OwnRowsAreCurrent

\* A resolution goes on with what it has read.
LEMMA TaskStep ==
    ASSUME Policies!TypeOK, NEW t \in Policies!Task, Policies!TaskIsCurrent(t), Writing,
           t.raced \/ TenantKeeps(t.key.tenant)
    PROVE  Policies!TaskIsCurrent(t)'
<1>1. t.read \in Policies!Reading /\ t.started \in Int /\ t.started <= clock
  BY DEF Policies!Task, Policies!TaskIsCurrent
<1>2. Policies!ReadingIsCurrent(t.read, t.started)'
  BY <1>1, ReadingStep DEF Policies!TaskIsCurrent, Writing
<1>3. ~t.raced => Policies!OwnRowsAreCurrent(t.key, t.read)'
  BY <1>1, OwnStep DEF Policies!TaskIsCurrent
<1>4. Policies!Candidates(t.key)' = Policies!Candidates(t.key)
  BY DEF Writing, Policies!Candidates
<1> QED
  BY <1>2, <1>3, <1>4 DEF Policies!TaskIsCurrent, Writing

\* An entry stays.
LEMMA EntryStep ==
    ASSUME Policies!TypeOK, NEW k \in Key, NEW e \in Policies!Entry, Policies!EntryIsCurrent(k, e), Writing,
           e.raced \/ TenantKeeps(k.tenant)
    PROVE  Policies!EntryIsCurrent(k, e)'
<1>1. /\ e.read \in Policies!Reading /\ e.expires \in Nat /\ e.expires <= clock + Ttl
      /\ clock \in Nat /\ Ttl \in Nat /\ MaxRead \in Nat
  BY ControlPlaneAssumption DEF Policies!Entry, Policies!EntryIsCurrent, Policies!TypeOK
<1>2. e.expires - Ttl - MaxRead \in Int /\ e.expires - Ttl - MaxRead <= clock
  BY <1>1
<1>3. Policies!ReadingIsCurrent(e.read, e.expires - Ttl - MaxRead)'
  BY <1>1, <1>2, ReadingStep DEF Policies!EntryIsCurrent, Writing
<1>4. ~e.raced => Policies!OwnRowsAreCurrent(k, e.read)'
  BY <1>1, OwnStep DEF Policies!EntryIsCurrent
<1> QED
  BY <1>3, <1>4 DEF Policies!EntryIsCurrent, Writing

\* Overtaken or not, the running resolutions keep what they read.
LEMMA RacedStep ==
    ASSUME Policies!IInv, Writing, NEW tenant, task' = Policies!Raced(tenant),
           \A k \in Key : k.tenant # tenant => TenantKeeps(k.tenant)
    PROVE  /\ task' \in [Resolver -> Policies!Task \cup {None}]
           /\ \A r \in Resolver : task'[r] # None => Policies!TaskIsCurrent(task[r])'
<1>1. ASSUME NEW r \in Resolver
      PROVE  /\ task'[r] \in Policies!Task \cup {None}
             /\ task'[r] # None => Policies!TaskIsCurrent(task[r])'
  <2>1. Policies!TypeOK /\ task[r] \in Policies!Task \cup {None}
        /\ (task[r] # None => Policies!TaskIsCurrent(task[r]))
    BY DEF Policies!IInv, Policies!TypeOK
  <2>2. CASE task[r] = None
    BY <2>1, <2>2 DEF Policies!Raced
  <2>3. CASE task[r] # None /\ task[r].key.tenant = tenant
    <3> DEFINE u == [task[r] EXCEPT !.raced = TRUE]
    <3>1. task'[r] = u
      BY <2>3 DEF Policies!Raced
    <3>2. /\ u \in Policies!Task /\ u.raced = TRUE /\ u.started = task[r].started
          /\ u.read = task[r].read /\ u.key = task[r].key
      BY <2>1, <2>3 DEF Policies!Task
    <3>3. Policies!TaskIsCurrent(u)
      BY <2>1, <2>3, <3>2 DEF Policies!TaskIsCurrent
    <3>4. PICK v \in Policies!Task : v = u
      BY <3>2
    <3> HIDE DEF u
    <3>5. Policies!TaskIsCurrent(v)'
      BY <2>1, <3>2, <3>3, <3>4, TaskStep
    <3> QED
      BY <3>1, <3>2, <3>4, <3>5
  <2>4. CASE task[r] # None /\ task[r].key.tenant # tenant
    <3>1. task'[r] = task[r] /\ task[r].key \in Key
      BY <2>1, <2>4 DEF Policies!Raced, Policies!Task
    <3>2. PICK v \in Policies!Task : v = task[r]
      BY <2>1, <2>4
    <3>3. Policies!TaskIsCurrent(v)'
      BY <2>1, <2>4, <3>1, <3>2, TaskStep
    <3> QED
      BY <3>1, <3>2, <3>3
  <2> QED
    BY <2>2, <2>3, <2>4
<1> QED
  BY <1>1 DEF Policies!Raced

\* The entries that are left, as they were or marked as overtaken.
LEMMA EntriesStep ==
    ASSUME Policies!IInv, Writing,
           \A k \in Key : cache'[k] # None =>
               /\ cache[k] # None
               /\ \/ cache'[k] = cache[k] /\ TenantKeeps(k.tenant)
                  \/ cache'[k] = [cache[k] EXCEPT !.raced = TRUE]
    PROVE  \A k \in Key : cache'[k] # None =>
               cache'[k] \in Policies!Entry /\ Policies!EntryIsCurrent(k, cache[k])'
<1> SUFFICES ASSUME NEW k \in Key, cache'[k] # None
             PROVE  cache'[k] \in Policies!Entry /\ Policies!EntryIsCurrent(k, cache[k])'
  OBVIOUS
<1>1. Policies!TypeOK /\ cache[k] \in Policies!Entry /\ Policies!EntryIsCurrent(k, cache[k])
  BY DEF Policies!IInv, Policies!TypeOK
<1>2. CASE cache'[k] = cache[k] /\ TenantKeeps(k.tenant)
  <2>1. PICK v \in Policies!Entry : v = cache[k]
    BY <1>1
  <2>2. Policies!EntryIsCurrent(k, v)'
    BY <1>1, <1>2, <2>1, EntryStep
  <2> QED
    BY <1>2, <2>1, <2>2
<1>3. CASE cache'[k] = [cache[k] EXCEPT !.raced = TRUE]
  <2> DEFINE u == [cache[k] EXCEPT !.raced = TRUE]
  <2>1. u \in Policies!Entry /\ u.raced = TRUE /\ u.expires = cache[k].expires /\ u.read = cache[k].read
    BY <1>1 DEF Policies!Entry
  <2>2. Policies!EntryIsCurrent(k, u)
    BY <1>1, <2>1 DEF Policies!EntryIsCurrent
  <2>3. PICK v \in Policies!Entry : v = u
    BY <2>1
  <2>4. cache'[k] = u
    BY <1>3
  <2> HIDE DEF u
  <2>5. Policies!EntryIsCurrent(k, v)'
    BY <1>1, <2>1, <2>2, <2>3, EntryStep
  <2> QED
    BY <2>3, <2>4, <2>5
<1> QED
  BY <1>2, <1>3

\* A write keeps the rows and the history well-formed.
LEMMA WriteRowType ==
    ASSUME Policies!TypeOK, NEW x \in Policies!RowId, Policies!WriteRow(x)
    PROVE  /\ rows' \in [Policies!RowId -> Policies!Version]
           /\ since' \in [Policies!RowId -> [Policies!Version -> 0..MaxClock]]
           /\ \A y \in Policies!RowId : y # x => rows'[y] = rows[y]
<1>1. rows \in [Policies!RowId -> 0..MaxVersion] /\ MaxVersion \in Nat /\ clock \in 0..MaxClock
      /\ since \in [Policies!RowId -> [0..MaxVersion -> 0..MaxClock]]
  BY ControlPlaneAssumption DEF Policies!TypeOK, Policies!Version
<1>2. rows[x] + 1 \in 0..MaxVersion
  BY <1>1 DEF Policies!WriteRow
<1>3. rows' = [rows EXCEPT ![x] = rows[x] + 1]
      /\ since' = [since EXCEPT ![x] = [since[x] EXCEPT ![rows[x] + 1] = clock]]
  BY DEF Policies!WriteRow
<1>4. [since[x] EXCEPT ![rows[x] + 1] = clock] \in [0..MaxVersion -> 0..MaxClock]
  BY <1>1, <1>2
<1> QED
  BY <1>1, <1>2, <1>3, <1>4 DEF Policies!Version

\* The candidates of a key are rows (policy_cache.rs and the SQLx sources:
\* tenant and tier, then the default tier, then the platform).
LEMMA CandidatesAreRows ==
    ASSUME NEW k \in Key
    PROVE  /\ Policies!Candidates(k) \in Seq(Policies!RowId)
           /\ Len(Policies!Candidates(k)) \in {1, 4}
<1>1. /\ k \in Policies!RowId /\ [k EXCEPT !.tier = Default] \in Policies!RowId
      /\ [tenant |-> Platform, tier |-> k.tier] \in Policies!RowId
      /\ [tenant |-> Platform, tier |-> Default] \in Policies!RowId
  BY ControlPlaneAssumption DEF Policies!RowId
<1> QED
  BY <1>1 DEF Policies!Candidates

\* Resolving, upserting, invalidating and the clock keep the invariant of the
\* policies (policy_cache.rs, admin_service.rs).
LEMMA PoliciesStep ==
    ASSUME Policies!IInv, [Policies!Next]_policyVars
    PROVE  Policies!IInv'
<1>0. /\ Policies!TypeOK
      /\ \A r \in Resolver : task[r] # None => task[r] \in Policies!Task /\ Policies!TaskIsCurrent(task[r])
      /\ \A k \in Key : cache[k] # None => cache[k] \in Policies!Entry /\ Policies!EntryIsCurrent(k, cache[k])
      /\ task \in [Resolver -> Policies!Task \cup {None}] /\ cache \in [Key -> Policies!Entry \cup {None}]
      /\ clock \in Nat /\ Ttl \in Nat /\ MaxRead \in Nat
  BY ControlPlaneAssumption DEF Policies!IInv, Policies!TypeOK
<1>1. CASE UNCHANGED policyVars
  BY <1>0, <1>1 DEF policyVars, Policies!IInv, Policies!TypeOK, Policies!TaskIsCurrent,
        Policies!EntryIsCurrent, Policies!ReadingIsCurrent, Policies!OwnRowsAreCurrent,
        Policies!CurrentAfter, Policies!Candidates
<1>2. CASE Policies!Tick /\ UNCHANGED kind
  <2>1. clock' = clock + 1 /\ UNCHANGED <<rows, since, cache, task, upsert, kind>> /\ clock < MaxClock
        /\ \A r \in Resolver : task[r] # None => clock - task[r].started < MaxRead
    BY <1>2 DEF Policies!Tick
  <2>2. Policies!TypeOK'
    BY <1>0, <2>1, ControlPlaneAssumption DEF Policies!TypeOK
  <2>3. ASSUME NEW r \in Resolver, task'[r] # None PROVE Policies!TaskIsCurrent(task[r])'
    <3>1. task'[r] = task[r] /\ task[r] # None /\ task[r].started \in Nat /\ Policies!TaskIsCurrent(task[r])
      BY <1>0, <2>1, <2>3 DEF Policies!Task
    <3>2. task[r].started <= clock' /\ clock' - task[r].started <= MaxRead
      BY <1>0, <2>1, <3>1 DEF Policies!TaskIsCurrent
    <3> QED
      BY <2>1, <3>1, <3>2 DEF Policies!TaskIsCurrent, Policies!ReadingIsCurrent,
         Policies!OwnRowsAreCurrent, Policies!CurrentAfter, Policies!Candidates
  <2>4. ASSUME NEW k \in Key, cache'[k] # None PROVE Policies!EntryIsCurrent(k, cache[k])'
    <3>1. cache'[k] = cache[k] /\ cache[k] # None /\ cache[k].expires \in Nat
          /\ Policies!EntryIsCurrent(k, cache[k])
      BY <1>0, <2>1, <2>4 DEF Policies!Entry
    <3>2. cache[k].expires <= clock' + Ttl
      BY <1>0, <2>1, <3>1 DEF Policies!EntryIsCurrent
    <3> QED
      BY <2>1, <3>1, <3>2 DEF Policies!EntryIsCurrent, Policies!ReadingIsCurrent,
         Policies!OwnRowsAreCurrent, Policies!CurrentAfter
  <2> QED
    BY <2>2, <2>3, <2>4 DEF Policies!IInv
<1>3. ASSUME UNCHANGED <<rows, since, upsert, clock, kind>>,
             NEW r \in Resolver, NEW t \in Policies!Task \cup {None}, task' = [task EXCEPT ![r] = t],
             t # None => Policies!TaskIsCurrent(t)',
             cache' \in [Key -> Policies!Entry \cup {None}],
             \A k \in Key : cache'[k] \in {cache[k], None} \/ Policies!EntryIsCurrent(k, cache[k])'
      PROVE  Policies!IInv'
  <2>1. Writing /\ \A tenant : TenantKeeps(tenant)
    BY <1>3 DEF Writing, TenantKeeps
  <2>2. Policies!TypeOK'
    BY <1>0, <1>3 DEF Policies!TypeOK
  <2>3. ASSUME NEW d \in Resolver, task'[d] # None PROVE Policies!TaskIsCurrent(task[d])'
    <3>1. CASE d = r
      BY <1>0, <1>3, <2>3, <3>1
    <3>2. CASE d # r
      <4>1. task'[d] = task[d] /\ task[d] # None
        BY <1>0, <1>3, <2>3, <3>2
      <4>2. PICK v \in Policies!Task : v = task[d]
        BY <1>0, <4>1
      <4>3. Policies!TaskIsCurrent(v)'
        BY <1>0, <2>1, <4>1, <4>2, TaskStep
      <4> QED
        BY <4>1, <4>2, <4>3
    <3> QED
      BY <3>1, <3>2
  <2>4. ASSUME NEW j \in Key, cache'[j] # None PROVE Policies!EntryIsCurrent(j, cache[j])'
    <3>1. CASE Policies!EntryIsCurrent(j, cache[j])'
      BY <3>1
    <3>2. CASE cache'[j] \in {cache[j], None}
      <4>1. cache'[j] = cache[j] /\ cache[j] # None
        BY <2>4, <3>2
      <4>2. PICK v \in Policies!Entry : v = cache[j]
        BY <1>0, <4>1
      <4>3. Policies!EntryIsCurrent(j, v)'
        BY <1>0, <2>1, <4>1, <4>2, EntryStep
      <4> QED
        BY <4>1, <4>2, <4>3
    <3> QED
      BY <1>3, <3>1, <3>2
  <2> QED
    BY <2>2, <2>3, <2>4 DEF Policies!IInv
<1>4. ASSUME NEW r \in Resolver, Policies!ReadRow(r), UNCHANGED kind
      PROVE  Policies!IInv'
  <2> DEFINE t == task[r]
             n == Len(t.read) + 1
             x == Policies!Candidates(t.key)[n]
             item == [row |-> x, version |-> rows[x]]
             u == [t EXCEPT !.read = Append(@, item)]
  <2>1. t # None /\ ~Policies!Resolved(t) /\ UNCHANGED <<rows, since, cache, upsert, clock, kind>>
        /\ task' = [task EXCEPT ![r] = u]
    BY <1>4 DEF Policies!ReadRow
  <2>2. t \in Policies!Task /\ Policies!TaskIsCurrent(t) /\ t.key \in Key /\ t.started \in Nat
    BY <1>0, <2>1 DEF Policies!Task
  <2>3. t.read \in Seq([row : Policies!RowId, version : Policies!Version])
    BY <2>2 DEF Policies!Task, Policies!Reading
  <2>4. Policies!Candidates(t.key) \in Seq(Policies!RowId) /\ n \in 1..Len(Policies!Candidates(t.key))
    <3>1. Len(t.read) # Len(Policies!Candidates(t.key))
      BY <2>1 DEF Policies!Resolved
    <3> QED
      BY <2>2, <2>3, <3>1, CandidatesAreRows DEF Policies!TaskIsCurrent
  <2>5. x \in Policies!RowId /\ rows[x] \in Policies!Version
    <3>1. x \in Policies!RowId
      BY <2>4, ElementOfSeq
    <3> HIDE DEF x
    <3> QED
      BY <1>0, <3>1 DEF Policies!TypeOK
  <2>6. item \in [row : Policies!RowId, version : Policies!Version] /\ item.row = x /\ item.version = rows[x]
    BY <2>5
  <2> HIDE DEF item
  <2>7. Append(t.read, item) \in Policies!Reading
    BY <2>3, <2>6 DEF Policies!Reading
  <2>8. u \in Policies!Task /\ u.key = t.key /\ u.started = t.started /\ u.raced = t.raced
        /\ u.read = Append(t.read, item)
    BY <2>2, <2>7 DEF Policies!Task
  <2>9. \A i \in DOMAIN u.read :
            (i \in DOMAIN t.read /\ u.read[i] = t.read[i]) \/ u.read[i] = item
    BY <2>3, <2>6, <2>8
  <2> HIDE DEF u, x, n
  <2>10. Len(u.read) <= Len(Policies!Candidates(u.key))
    BY <2>3, <2>4, <2>6, <2>8 DEF n
  <2>11. Policies!CurrentAfter(x, rows[x], t.started)
    BY DEF Policies!CurrentAfter
  <2>12. Policies!ReadingIsCurrent(u.read, u.started)
    BY <2>2, <2>6, <2>8, <2>9, <2>11 DEF Policies!TaskIsCurrent, Policies!ReadingIsCurrent
  <2>13. ~u.raced => Policies!OwnRowsAreCurrent(u.key, u.read)
    BY <2>2, <2>6, <2>8, <2>9 DEF Policies!TaskIsCurrent, Policies!OwnRowsAreCurrent
  <2>14. Policies!TaskIsCurrent(u)
    BY <2>2, <2>8, <2>10, <2>12, <2>13 DEF Policies!TaskIsCurrent
  <2>15. PICK v \in Policies!Task : v = u
    BY <2>8
  <2>16. Writing /\ TenantKeeps(v.key.tenant)
    BY <2>1 DEF Writing, TenantKeeps
  <2>17. Policies!TaskIsCurrent(v)'
    BY <1>0, <2>14, <2>15, <2>16, TaskStep
  <2> QED
    BY <1>0, <1>3, <2>1, <2>15, <2>17
<1>5. ASSUME NEW r \in Resolver, Policies!StoreEntry(r), UNCHANGED kind
      PROVE  Policies!IInv'
  <2> DEFINE t == task[r]
             e == [read |-> t.read, raced |-> t.raced, expires |-> clock + Ttl]
  <2>1. t # None /\ UNCHANGED <<rows, since, upsert, clock, kind>>
        /\ task' = [task EXCEPT ![r] = None] /\ cache' = [cache EXCEPT ![t.key] = e]
    BY <1>5 DEF Policies!StoreEntry
  <2>2. t \in Policies!Task /\ Policies!TaskIsCurrent(t) /\ t.key \in Key /\ t.started \in Nat
    BY <1>0, <2>1 DEF Policies!Task
  <2>3. e \in Policies!Entry /\ e.read = t.read /\ e.raced = t.raced /\ e.expires = clock + Ttl
    BY <1>0, <2>2 DEF Policies!Entry, Policies!Task
  <2> HIDE DEF e
  <2>4. Policies!ReadingIsCurrent(e.read, e.expires - Ttl - MaxRead)
    <3>1. e.expires - Ttl - MaxRead <= t.started /\ e.expires - Ttl - MaxRead \in Int
      BY <1>0, <2>2, <2>3 DEF Policies!TaskIsCurrent
    <3>2. e.read \in Policies!Reading /\ Policies!ReadingIsCurrent(e.read, t.started) /\ t.started \in Int
      BY <2>2, <2>3 DEF Policies!TaskIsCurrent, Policies!Task
    <3> QED
      BY <1>0, <3>1, <3>2, ReadingWeaken
  <2>5. Policies!EntryIsCurrent(t.key, e)
    BY <1>0, <2>2, <2>3, <2>4 DEF Policies!EntryIsCurrent, Policies!TaskIsCurrent
  <2>6. PICK v \in Policies!Entry : v = e
    BY <2>3
  <2>7. PICK k \in Key : k = t.key
    BY <2>2
  <2>8. Writing /\ TenantKeeps(k.tenant)
    BY <2>1 DEF Writing, TenantKeeps
  <2>9. Policies!EntryIsCurrent(k, v)'
    BY <1>0, <2>5, <2>6, <2>7, <2>8, EntryStep
  <2>10. cache' \in [Key -> Policies!Entry \cup {None}] /\ cache'[k] = v
         /\ \A j \in Key : j # k => cache'[j] = cache[j]
    BY <1>0, <2>1, <2>3, <2>6, <2>7
  <2>11. \A j \in Key : cache'[j] \in {cache[j], None} \/ Policies!EntryIsCurrent(j, cache[j])'
    BY <2>9, <2>10
  <2> QED
    BY <1>3, <2>1, <2>10, <2>11
<1>6. ASSUME NEW r \in Resolver, Policies!FailResolve(r), UNCHANGED kind
      PROVE  Policies!IInv'
  BY <1>0, <1>3, <1>6 DEF Policies!FailResolve
<1>7. ASSUME NEW r \in Resolver, NEW k \in Key, Policies!StartResolve(r, k), UNCHANGED kind
      PROVE  Policies!IInv'
  <2> DEFINE t == [key |-> k, read |-> <<>>, started |-> clock, raced |-> FALSE]
  <2>1. UNCHANGED <<rows, since, upsert, clock, kind>> /\ task' = [task EXCEPT ![r] = t]
        /\ cache' = [cache EXCEPT ![k] = None]
    BY <1>7 DEF Policies!StartResolve
  <2>2. t \in Policies!Task /\ t.read = <<>> /\ t.started = clock /\ t.key = k
    BY <1>0 DEF Policies!Task, Policies!Reading
  <2>3. PICK v \in Policies!Task : v = t
    BY <2>2
  <2> HIDE DEF t
  <2>4. Len(v.read) = 0 /\ DOMAIN v.read = {} /\ v.started = clock /\ v.key = k
    BY <2>2, <2>3
  <2>5. Policies!TaskIsCurrent(v)
    BY <1>0, <2>4, CandidatesAreRows
       DEF Policies!TaskIsCurrent, Policies!ReadingIsCurrent, Policies!OwnRowsAreCurrent
  <2>6. Writing /\ TenantKeeps(v.key.tenant)
    BY <2>1 DEF Writing, TenantKeeps
  <2>7. Policies!TaskIsCurrent(v)'
    BY <1>0, <2>5, <2>6, TaskStep
  <2> QED
    BY <1>0, <1>3, <2>1, <2>3, <2>7
<1>8. ASSUME NEW a \in Admin, Policies!Invalidate(a), UNCHANGED kind
      PROVE  Policies!IInv'
  <2>1. PICK x \in Policies!RowId : upsert[a] = x
    BY <1>0, <1>8 DEF Policies!Invalidate, Policies!TypeOK
  <2>2. /\ UNCHANGED <<rows, since, clock, kind>> /\ cache' = Policies!WithoutTenant(x)
        /\ upsert' = [upsert EXCEPT ![a] = None] /\ task' = Policies!Raced(x.tenant)
    BY <1>8, <2>1 DEF Policies!Invalidate
  <2>3. upsert \in [Admin -> Policies!RowId \cup {None}]
    BY <1>0 DEF Policies!TypeOK
  <2>4. Writing /\ \A tenant : tenant # x.tenant => TenantKeeps(tenant)
    BY <2>1, <2>2, <2>3 DEF Writing, TenantKeeps
  <2>5. /\ task' \in [Resolver -> Policies!Task \cup {None}]
        /\ \A r \in Resolver : task'[r] # None => Policies!TaskIsCurrent(task[r])'
    BY <2>2, <2>4, RacedStep
  <2>6. \A k \in Key : cache'[k] # None => /\ cache[k] # None
                                          /\ cache'[k] = cache[k] /\ TenantKeeps(k.tenant)
    BY <2>2, <2>4 DEF Policies!WithoutTenant
  <2>7. \A k \in Key : cache'[k] # None =>
            cache'[k] \in Policies!Entry /\ Policies!EntryIsCurrent(k, cache[k])'
    BY <2>4, <2>6, EntriesStep
  <2>8. cache' \in [Key -> Policies!Entry \cup {None}]
    BY <2>2, <2>7 DEF Policies!WithoutTenant
  <2>9. upsert' \in [Admin -> Policies!RowId \cup {None}]
    BY <2>2, <2>3
  <2> QED
    BY <1>0, <2>2, <2>5, <2>7, <2>8, <2>9 DEF Policies!IInv, Policies!TypeOK
<1>9. ASSUME NEW a \in Admin, NEW x \in Policies!RowId, Policies!Upsert(a, x), UNCHANGED kind
      PROVE  Policies!IInv'
  <2>1. /\ Policies!WriteRow(x) /\ upsert[a] = None /\ UNCHANGED <<cache, clock, kind>>
        /\ upsert' = [upsert EXCEPT ![a] = x] /\ task' = Policies!Raced(x.tenant)
    BY <1>9 DEF Policies!Upsert
  <2>2. upsert \in [Admin -> Policies!RowId \cup {None}] /\ x # None
    BY <1>0, NoneAssumption DEF Policies!TypeOK, Policies!RowId
  <2>3. /\ rows' \in [Policies!RowId -> Policies!Version]
        /\ since' \in [Policies!RowId -> [Policies!Version -> 0..MaxClock]]
        /\ \A y \in Policies!RowId : y # x => rows'[y] = rows[y]
    BY <1>0, <2>1, WriteRowType
  <2>4. Writing
    BY <2>1 DEF Writing
  <2>5. upsert'[a] = x /\ \A b \in Admin : b # a => upsert'[b] = upsert[b]
    BY <2>1, <2>2
  <2>6. ASSUME NEW tenant PROVE TenantKeeps(tenant)
    <3>1. CASE tenant = x.tenant
      BY <2>2, <2>5, <3>1 DEF TenantKeeps
    <3>2. CASE tenant # x.tenant
      BY <2>1, <2>3, <2>5, <3>2 DEF TenantKeeps
    <3> QED
      BY <3>1, <3>2
  <2>7. /\ task' \in [Resolver -> Policies!Task \cup {None}]
        /\ \A r \in Resolver : task'[r] # None => Policies!TaskIsCurrent(task[r])'
    BY <2>1, <2>4, <2>6, RacedStep
  <2>8. \A k \in Key : cache'[k] # None => cache'[k] \in Policies!Entry /\ Policies!EntryIsCurrent(k, cache[k])'
    BY <2>1, <2>4, <2>6, EntriesStep
  <2>9. upsert' \in [Admin -> Policies!RowId \cup {None}]
    BY <2>1, <2>2
  <2> QED
    BY <1>0, <2>1, <2>3, <2>7, <2>8, <2>9 DEF Policies!IInv, Policies!TypeOK
<1>10. ASSUME NEW x \in Policies!RowId, Policies!UpsertElsewhere(x), UNCHANGED kind
       PROVE  Policies!IInv'
  <2>1. /\ Policies!WriteRow(x) /\ UNCHANGED <<upsert, clock, kind>> /\ task' = Policies!Raced(x.tenant)
        /\ cache' = [k \in Key |-> IF cache[k] # None /\ k.tenant = x.tenant
                                   THEN [cache[k] EXCEPT !.raced = TRUE] ELSE cache[k]]
    BY <1>10 DEF Policies!UpsertElsewhere
  <2>2. /\ rows' \in [Policies!RowId -> Policies!Version]
        /\ since' \in [Policies!RowId -> [Policies!Version -> 0..MaxClock]]
        /\ \A y \in Policies!RowId : y # x => rows'[y] = rows[y]
    BY <1>0, <2>1, WriteRowType
  <2>3. Writing
    BY <2>1 DEF Writing
  <2>4. \A tenant : tenant # x.tenant => TenantKeeps(tenant)
    BY <2>1, <2>2 DEF TenantKeeps
  <2>5. /\ task' \in [Resolver -> Policies!Task \cup {None}]
        /\ \A r \in Resolver : task'[r] # None => Policies!TaskIsCurrent(task[r])'
    BY <2>1, <2>3, <2>4, RacedStep
  <2>6. \A k \in Key : cache'[k] # None =>
            /\ cache[k] # None
            /\ \/ cache'[k] = cache[k] /\ TenantKeeps(k.tenant)
               \/ cache'[k] = [cache[k] EXCEPT !.raced = TRUE]
    BY <2>1, <2>4
  <2>7. \A k \in Key : cache'[k] # None => cache'[k] \in Policies!Entry /\ Policies!EntryIsCurrent(k, cache[k])'
    BY <2>3, <2>6, EntriesStep
  <2>8. cache' \in [Key -> Policies!Entry \cup {None}]
    BY <2>1, <2>7
  <2> QED
    BY <1>0, <2>1, <2>2, <2>5, <2>7, <2>8 DEF Policies!IInv, Policies!TypeOK
<1> QED
  BY <1>1, <1>2, <1>4, <1>5, <1>6, <1>7, <1>8, <1>9, <1>10 DEF Policies!Next

-------------------------------------------------------------------------------
(* The authorization scopes. *)

\* No scope is cached initially, and every record has its first revision.
LEMMA ScopesInit == Scopes!Init => Scopes!IInv
  BY ControlPlaneAssumption DEF Scopes!Init, Scopes!IInv, Scopes!TypeOK, Scopes!Revision

\* Two subjects never share a cache key (authz_scope.rs cache_key).
LEMMA KeysAreOwn ==
    ASSUME NEW s \in Subject, NEW u \in Subject, Scopes!CacheKey(s) = Scopes!CacheKey(u)
    PROVE  s = u
<1>1. s.tenant = u.tenant /\ s.organization = u.organization /\ s.user = u.user /\ s.context = u.context
  BY DEF Scopes!CacheKey
<1> QED
  BY <1>1, SubjectAssumption

\* A revision ends the one before it now, not earlier.
LEMMA InForceStep ==
    ASSUME Scopes!TypeOK, NEW scope \in Scopes!Scope, NEW t \in Int, t <= scopeClock,
           Scopes!InForce(scope, t),
           UNCHANGED <<revision, revisedAt>> \/ \E s \in Subject : Scopes!Revise(s)
    PROVE  Scopes!InForce(scope, t)'
<1> PICK s \in Subject : s = scope.subject
  BY DEF Scopes!Scope
<1>0. /\ revision \in [Subject -> 1..MaxRevision] /\ revisedAt \in [Subject -> [1..MaxRevision -> 0..MaxClock]]
      /\ scope.revision \in 1..MaxRevision /\ MaxRevision \in Nat /\ scopeClock \in Nat
      /\ scope.subject = s
  BY ControlPlaneAssumption DEF Scopes!TypeOK, Scopes!Revision, Scopes!Scope
<1>1. CASE UNCHANGED <<revision, revisedAt>>
  BY <1>1 DEF Scopes!InForce, Scopes!InForceAfter
<1>2. ASSUME NEW u \in Subject, Scopes!Revise(u)
      PROVE  Scopes!InForce(scope, t)'
  <2>1. CASE u # s
    <3>1. revision'[s] = revision[s] /\ revisedAt'[s] = revisedAt[s]
      BY <1>0, <1>2, <2>1 DEF Scopes!Revise
    <3> QED
      BY <1>0, <3>1 DEF Scopes!InForce, Scopes!InForceAfter
  <2>2. CASE u = s
    <3>0. PICK n \in 1..MaxRevision : n = revision[s]
      BY <1>0
    <3>1. n \in Nat /\ MaxRevision \in Nat /\ n < MaxRevision
      BY <1>0, <1>2, <2>2, <3>0 DEF Scopes!Revise
    <3>2. revision'[s] = n + 1
      BY <1>0, <1>2, <2>2, <3>0 DEF Scopes!Revise
    <3>3. revisedAt'[s] = [revisedAt[s] EXCEPT ![n + 1] = scopeClock]
      BY <1>0, <1>2, <2>2, <3>0 DEF Scopes!Revise
    <3>4. revisedAt[s] \in [1..MaxRevision -> 0..MaxClock] /\ n + 1 \in 1..MaxRevision
      BY <1>0, <3>1
    <3>5. revisedAt'[s][n + 1] = scopeClock
          /\ \A w \in 1..MaxRevision : w # n + 1 => revisedAt'[s][w] = revisedAt[s][w]
      BY <3>3, <3>4
    <3>6. PICK m \in 1..MaxRevision : m = scope.revision
      BY <1>0
    <3>7. m \in Nat /\ m <= n
      BY <1>0, <3>0, <3>6 DEF Scopes!InForce
    <3>8. CASE m = n
      <4>1. m <= n + 1 /\ scopeClock >= t
        BY <1>0, <3>1, <3>8
      <4>2. revisedAt'[s][m + 1] >= t
        BY <3>5, <3>8, <4>1
      <4> QED
        BY <1>0, <3>2, <3>6, <4>1, <4>2 DEF Scopes!InForce, Scopes!InForceAfter
    <3>9. CASE m < n
      <4>1. m + 1 \in 1..MaxRevision /\ m + 1 # n + 1 /\ m # n /\ m <= n + 1
        BY <3>1, <3>9, <3>7
      <4>2. revisedAt[s][m + 1] >= t
        BY <1>0, <3>0, <3>6, <4>1 DEF Scopes!InForce, Scopes!InForceAfter
      <4>3. revisedAt'[s][m + 1] >= t
        BY <3>5, <4>1, <4>2
      <4> QED
        BY <1>0, <3>2, <3>6, <4>1, <4>3 DEF Scopes!InForce, Scopes!InForceAfter
    <3> QED
      BY <3>1, <3>8, <3>9, <3>7
  <2> QED
    BY <2>1, <2>2
<1> QED
  BY <1>1, <1>2

\* A record in force not before t was in force not before an earlier instant.
LEMMA InForceWeaken ==
    ASSUME Scopes!TypeOK, NEW scope \in Scopes!Scope, NEW t \in Int, NEW u \in Int, u <= t,
           Scopes!InForce(scope, t)
    PROVE  Scopes!InForce(scope, u)
<1> DEFINE s == scope.subject
<1>0. /\ revision[s] \in 1..MaxRevision /\ revisedAt[s] \in [1..MaxRevision -> 0..MaxClock]
      /\ s \in Subject /\ scope.revision \in 1..MaxRevision /\ MaxRevision \in Nat
  BY ControlPlaneAssumption DEF Scopes!TypeOK, Scopes!Revision, Scopes!Scope
<1>1. CASE revision[s] = scope.revision
  BY <1>0, <1>1 DEF Scopes!InForce, Scopes!InForceAfter
<1>2. CASE revision[s] # scope.revision
  <2>1. scope.revision + 1 \in 1..MaxRevision /\ revisedAt[s][scope.revision + 1] >= t
    BY <1>0, <1>2 DEF Scopes!InForce, Scopes!InForceAfter
  <2>2. revisedAt[s][scope.revision + 1] \in 0..MaxClock
    BY <1>0, <2>1
  <2>3. revisedAt[s][scope.revision + 1] >= u
    BY <2>1, <2>2
  <2> QED
    BY <2>3 DEF Scopes!InForce, Scopes!InForceAfter
<1> QED
  BY <1>1, <1>2

\* A step that revises a record, if any, and is not a tick.
Revising ==
    /\ UNCHANGED <<scopeClock, source>>
    /\ UNCHANGED <<revision, revisedAt>> \/ \E s \in Subject : Scopes!Revise(s)

\* Times of the records, the cache and the requests.
LEMMA ScopeTypes ==
    ASSUME Scopes!TypeOK
    PROVE  scopeClock \in Nat /\ Ttl \in Nat /\ Ttl > 0 /\ MaxRead \in Nat
  BY ControlPlaneAssumption, TtlAssumption DEF Scopes!TypeOK

\* A request keeps what it has read or was answered.
LEMMA EnrichmentStep ==
    ASSUME Scopes!TypeOK, NEW e \in Scopes!Enrichment, Scopes!EnrichmentIsSound(e), Revising
    PROVE  Scopes!EnrichmentIsSound(e)'
<1>1. /\ scopeClock \in Nat /\ Ttl \in Nat /\ Ttl > 0 /\ MaxRead \in Nat
      /\ e.started \in Nat /\ e.started <= scopeClock
  BY ScopeTypes DEF Scopes!Enrichment, Scopes!EnrichmentIsSound
<1>2. e.started - Ttl - MaxRead + 1 \in Int /\ e.started - Ttl - MaxRead + 1 <= scopeClock
  BY <1>1
<1>3. e.phase = "insert" => Scopes!InForce(e.scope, e.started)'
  BY <1>1, InForceStep DEF Scopes!EnrichmentIsSound, Revising
<1>4. ASSUME e.scope \in Scopes!Scope, Scopes!InForce(e.scope, e.started - Ttl - MaxRead + 1)
      PROVE  Scopes!InForce(e.scope, e.started - Ttl - MaxRead + 1)'
  BY <1>2, <1>4, InForceStep DEF Revising
<1> QED
  BY <1>1, <1>3, <1>4 DEF Scopes!EnrichmentIsSound, Revising

\* An entry stays.
LEMMA ScopeEntryStep ==
    ASSUME Scopes!TypeOK, NEW k, NEW e \in [scope : Scopes!Scope, expires : Nat],
           Scopes!EntryIsSound(k, e), Revising
    PROVE  Scopes!EntryIsSound(k, e)'
<1>1. /\ scopeClock \in Nat /\ Ttl \in Nat /\ Ttl > 0 /\ MaxRead \in Nat
      /\ e.expires \in Nat /\ e.expires <= scopeClock + Ttl /\ e.scope \in Scopes!Scope
  BY ScopeTypes DEF Scopes!EntryIsSound
<1>2. e.expires - Ttl - MaxRead \in Int /\ e.expires - Ttl - MaxRead <= scopeClock
  BY <1>1
<1>3. Scopes!InForce(e.scope, e.expires - Ttl - MaxRead)'
  BY <1>1, <1>2, InForceStep DEF Scopes!EntryIsSound, Revising
<1> QED
  BY <1>3 DEF Scopes!EntryIsSound, Revising

\* An answer from a record of the subject that is recent enough is sound.
LEMMA AnswerIsSound ==
    ASSUME Scopes!TypeOK, NEW s \in Subject, NEW scope \in Scopes!Scope, scope.subject = s,
           Scopes!InForce(scope, scopeClock - Ttl - MaxRead + 1)
    PROVE  /\ Scopes!Answered(s, scope) \in Scopes!Enrichment
           /\ Scopes!EnrichmentIsSound(Scopes!Answered(s, scope))
<1> DEFINE phase == IF scope # None /\ Scopes!Exists(scope) THEN "granted" ELSE Scopes!ApplyFallback
           a == [phase |-> phase, subject |-> s, scope |-> scope, started |-> scopeClock]
<1>1. Scopes!Answered(s, scope) = a
  BY DEF Scopes!Answered
<1>2. phase \in {"granted", "claims", "denied"}
  BY DEF Scopes!ApplyFallback
<1> HIDE DEF phase
<1>3. a \in Scopes!Enrichment /\ a.phase = phase /\ a.scope = scope /\ a.subject = s /\ a.started = scopeClock
  BY <1>2, ScopeTypes DEF Scopes!Enrichment
<1> HIDE DEF a
<1>4. Scopes!EnrichmentIsSound(a)
  BY <1>2, <1>3, ScopeTypes DEF Scopes!EnrichmentIsSound
<1> QED
  BY <1>1, <1>3, <1>4

\* Enriching, revising, invalidating and the clock keep the invariant of the
\* scopes (authz_scope.rs AuthorizationScopeProvider).
LEMMA ScopesStep ==
    ASSUME Scopes!IInv, [Scopes!Next]_scopeVars
    PROVE  Scopes!IInv'
<1> DEFINE Entry == [scope : Scopes!Scope, expires : Nat]
<1>0. /\ Scopes!TypeOK
      /\ \A r \in ScopeRequest : enrichment[r] # None =>
            enrichment[r] \in Scopes!Enrichment /\ Scopes!EnrichmentIsSound(enrichment[r])
      /\ \A k \in Scopes!Keys : scopeCache[k] # None =>
            scopeCache[k] \in Entry /\ Scopes!EntryIsSound(k, scopeCache[k])
      /\ enrichment \in [ScopeRequest -> Scopes!Enrichment \cup {None}]
      /\ scopeCache \in [Scopes!Keys -> Entry \cup {None}]
      /\ scopeClock \in Nat /\ Ttl \in Nat /\ Ttl > 0 /\ MaxRead \in Nat
  BY ScopeTypes DEF Scopes!IInv, Scopes!TypeOK
<1> HIDE DEF Entry
<1>1. CASE UNCHANGED scopeVars
  BY <1>0, <1>1 DEF scopeVars, Scopes!IInv, Scopes!TypeOK, Scopes!EnrichmentIsSound,
        Scopes!EntryIsSound, Scopes!InForce, Scopes!InForceAfter
<1>2. CASE Scopes!Tick /\ UNCHANGED <<source, fallback>>
  <2>1. /\ scopeClock' = scopeClock + 1 /\ scopeClock < MaxClock
        /\ UNCHANGED <<revision, revisedAt, scopeCache, enrichment, source, fallback>>
        /\ \A r \in ScopeRequest : Scopes!Running(r) => scopeClock - enrichment[r].started < MaxRead
    BY <1>2 DEF Scopes!Tick
  <2>2. Scopes!TypeOK'
    BY <1>0, <2>1, ControlPlaneAssumption DEF Scopes!TypeOK
  <2>3. ASSUME NEW r \in ScopeRequest, enrichment'[r] # None
        PROVE  Scopes!EnrichmentIsSound(enrichment[r])'
    <3>1. enrichment'[r] = enrichment[r] /\ enrichment[r] # None /\ enrichment[r].started \in Nat
          /\ Scopes!EnrichmentIsSound(enrichment[r])
      BY <1>0, <2>1, <2>3 DEF Scopes!Enrichment
    <3>2. enrichment[r].started <= scopeClock'
          /\ (enrichment[r].phase \in {"resolve", "insert"} => scopeClock' - enrichment[r].started <= MaxRead)
      BY <1>0, <2>1, <3>1 DEF Scopes!EnrichmentIsSound, Scopes!Running
    <3> QED
      BY <2>1, <3>1, <3>2 DEF Scopes!EnrichmentIsSound, Scopes!InForce, Scopes!InForceAfter
  <2>4. ASSUME NEW k \in Scopes!Keys, scopeCache'[k] # None
        PROVE  Scopes!EntryIsSound(k, scopeCache[k])'
    <3>1. scopeCache'[k] = scopeCache[k] /\ scopeCache[k] # None /\ scopeCache[k].expires \in Nat
          /\ Scopes!EntryIsSound(k, scopeCache[k])
      BY <1>0, <2>1, <2>4 DEF Entry
    <3>2. scopeCache[k].expires <= scopeClock' + Ttl
      BY <1>0, <2>1, <3>1 DEF Scopes!EntryIsSound
    <3> QED
      BY <2>1, <3>1, <3>2 DEF Scopes!EntryIsSound, Scopes!InForce, Scopes!InForceAfter
  <2> QED
    BY <2>2, <2>3, <2>4 DEF Scopes!IInv
<1>3. ASSUME Revising, Scopes!TypeOK',
             \A r \in ScopeRequest :
                 enrichment'[r] \in {enrichment[r], None} \/ Scopes!EnrichmentIsSound(enrichment[r])',
             \A k \in Scopes!Keys :
                 scopeCache'[k] \in {scopeCache[k], None} \/ Scopes!EntryIsSound(k, scopeCache[k])'
      PROVE  Scopes!IInv'
  <2>1. ASSUME NEW r \in ScopeRequest, enrichment'[r] # None, enrichment'[r] = enrichment[r]
        PROVE  Scopes!EnrichmentIsSound(enrichment[r])'
    <3>1. PICK v \in Scopes!Enrichment : v = enrichment[r]
      BY <1>0, <2>1
    <3>2. Scopes!EnrichmentIsSound(v)'
      BY <1>0, <1>3, <2>1, <3>1, EnrichmentStep
    <3> QED
      BY <2>1, <3>1, <3>2
  <2>2. ASSUME NEW k \in Scopes!Keys, scopeCache'[k] # None, scopeCache'[k] = scopeCache[k]
        PROVE  Scopes!EntryIsSound(k, scopeCache[k])'
    <3>1. PICK v \in Entry : v = scopeCache[k]
      BY <1>0, <2>2
    <3>2. Scopes!EntryIsSound(k, v)'
      BY <1>0, <1>3, <2>2, <3>1, ScopeEntryStep DEF Entry
    <3> QED
      BY <2>2, <3>1, <3>2
  <2> QED
    BY <1>3, <2>1, <2>2 DEF Scopes!IInv
<1>4. ASSUME UNCHANGED <<revision, revisedAt, scopeClock, source, fallback>>,
             NEW r \in ScopeRequest, NEW e \in Scopes!Enrichment, Scopes!EnrichmentIsSound(e),
             enrichment' = [enrichment EXCEPT ![r] = e],
             scopeCache' \in [Scopes!Keys -> Entry \cup {None}],
             \A k \in Scopes!Keys :
                 scopeCache'[k] \in {scopeCache[k], None} \/ Scopes!EntryIsSound(k, scopeCache[k])'
      PROVE  Scopes!IInv'
  <2>1. Revising
    BY <1>4 DEF Revising
  <2>2. Scopes!EnrichmentIsSound(e)'
    BY <1>0, <1>4, <2>1, EnrichmentStep
  <2>3. enrichment'[r] = e /\ \A q \in ScopeRequest : q # r => enrichment'[q] = enrichment[q]
    BY <1>0, <1>4
  <2>4. Scopes!TypeOK'
    BY <1>0, <1>4 DEF Scopes!TypeOK, Entry
  <2>5. \A q \in ScopeRequest :
            enrichment'[q] \in {enrichment[q], None} \/ Scopes!EnrichmentIsSound(enrichment[q])'
    BY <2>2, <2>3
  <2> QED
    BY <1>3, <1>4, <2>1, <2>4, <2>5
<1>5. ASSUME NEW r \in ScopeRequest, NEW s \in Subject, Scopes!Materialize(r, s), UNCHANGED <<source, fallback>>
      PROVE  Scopes!IInv'
  <2>0. PICK k \in Scopes!Keys : k = Scopes!CacheKey(s)
    BY DEF Scopes!Keys
  <2>1. UNCHANGED <<revision, revisedAt, scopeClock, source, fallback>>
    BY <1>5 DEF Scopes!Materialize
  <2>2. CASE Scopes!Valid(k) /\ enrichment' = [enrichment EXCEPT ![r] = Scopes!Answered(s, scopeCache[k].scope)]
             /\ UNCHANGED scopeCache
    <3> DEFINE scope == scopeCache[k].scope
               from == scopeCache[k].expires - Ttl - MaxRead
    <3>1. scopeCache[k] # None /\ scopeCache[k] \in Entry /\ Scopes!EntryIsSound(k, scopeCache[k])
          /\ scopeCache[k].expires > scopeClock
      BY <1>0, <2>2 DEF Scopes!Valid
    <3>2. scope \in Scopes!Scope /\ scope.subject \in Subject /\ scopeCache[k].expires \in Nat
      BY <3>1 DEF Entry, Scopes!Scope
    <3>3. scope.subject = s
      BY <2>0, <3>1, <3>2, KeysAreOwn DEF Scopes!EntryIsSound
    <3>4. from \in Int /\ scopeClock - Ttl - MaxRead + 1 \in Int /\ scopeClock - Ttl - MaxRead + 1 <= from
      BY <1>0, <3>1, <3>2
    <3>5. Scopes!InForce(scope, from)
      BY <3>1 DEF Scopes!EntryIsSound
    <3> HIDE DEF from, scope
    <3>6. Scopes!InForce(scope, scopeClock - Ttl - MaxRead + 1)
      BY <1>0, <3>2, <3>4, <3>5, InForceWeaken
    <3>7. /\ Scopes!Answered(s, scope) \in Scopes!Enrichment
          /\ Scopes!EnrichmentIsSound(Scopes!Answered(s, scope))
      BY <1>0, <3>2, <3>3, <3>6, AnswerIsSound
    <3>8. enrichment' = [enrichment EXCEPT ![r] = Scopes!Answered(s, scope)]
      BY <2>2 DEF scope
    <3> QED
      BY <1>0, <1>4, <2>1, <2>2, <3>7, <3>8
  <2>3. CASE ~source /\ enrichment' = [enrichment EXCEPT ![r] = Scopes!Answered(s, None)]
             /\ scopeCache' = [scopeCache EXCEPT ![k] = None]
    <3>1. Scopes!Answered(s, None) =
             [phase |-> Scopes!ApplyFallback, subject |-> s, scope |-> None, started |-> scopeClock]
      BY DEF Scopes!Answered
    <3>2. Scopes!ApplyFallback \in {"claims", "denied"}
      BY DEF Scopes!ApplyFallback
    <3> DEFINE e == [phase |-> Scopes!ApplyFallback, subject |-> s, scope |-> None, started |-> scopeClock]
    <3>3. e \in Scopes!Enrichment /\ e.phase \in {"claims", "denied"} /\ e.scope = None /\ e.started = scopeClock
      BY <1>0, <3>2 DEF Scopes!Enrichment
    <3> HIDE DEF e
    <3>4. Scopes!EnrichmentIsSound(e)
      BY <1>0, <2>3, <3>3 DEF Scopes!EnrichmentIsSound
    <3>5. enrichment' = [enrichment EXCEPT ![r] = e]
      BY <2>3, <3>1 DEF e
    <3> QED
      BY <1>0, <1>4, <2>1, <2>3, <3>3, <3>4, <3>5
  <2>4. CASE enrichment' = [enrichment EXCEPT ![r] =
                [phase |-> "resolve", subject |-> s, scope |-> None, started |-> scopeClock]]
             /\ scopeCache' = [scopeCache EXCEPT ![k] = None]
    <3> DEFINE e == [phase |-> "resolve", subject |-> s, scope |-> None, started |-> scopeClock]
    <3>1. e \in Scopes!Enrichment /\ e.phase = "resolve" /\ e.started = scopeClock
      BY <1>0 DEF Scopes!Enrichment
    <3>2. enrichment' = [enrichment EXCEPT ![r] = e]
      BY <2>4
    <3> HIDE DEF e
    <3>3. Scopes!EnrichmentIsSound(e)
      BY <1>0, <3>1 DEF Scopes!EnrichmentIsSound
    <3> QED
      BY <1>0, <1>4, <2>1, <2>4, <3>1, <3>2, <3>3
  <2> QED
    BY <1>5, <2>0, <2>2, <2>3, <2>4 DEF Scopes!Materialize
<1>6. ASSUME NEW r \in ScopeRequest, Scopes!ReadRecord(r), UNCHANGED <<source, fallback>>
      PROVE  Scopes!IInv'
  <2> DEFINE e == enrichment[r]
             scope == [subject |-> e.subject, revision |-> revision[e.subject]]
             f == [e EXCEPT !.phase = "insert", !.scope = scope]
  <2>1. /\ e # None /\ e.phase = "resolve"
        /\ UNCHANGED <<revision, revisedAt, scopeCache, scopeClock, source, fallback>>
    BY <1>6 DEF Scopes!ReadRecord, Scopes!Running
  <2>2. enrichment' = [enrichment EXCEPT ![r] = f]
    BY <1>6 DEF Scopes!ReadRecord
  <2>3. e \in Scopes!Enrichment /\ Scopes!EnrichmentIsSound(e) /\ e.subject \in Subject
        /\ e.started \in Nat
    BY <1>0, <2>1 DEF Scopes!Enrichment
  <2>4. scope \in Scopes!Scope /\ scope.subject = e.subject /\ scope.revision = revision[e.subject]
        /\ revision[e.subject] \in Nat
    BY <1>0, <2>3, ControlPlaneAssumption DEF Scopes!Scope, Scopes!TypeOK, Scopes!Revision
  <2> HIDE DEF scope
  <2>5. f \in Scopes!Enrichment /\ f.phase = "insert" /\ f.scope = scope /\ f.subject = e.subject
        /\ f.started = e.started
    BY <2>3, <2>4 DEF Scopes!Enrichment
  <2> HIDE DEF f
  <2>6. Scopes!InForce(scope, f.started)
    BY <2>4 DEF Scopes!InForce, Scopes!InForceAfter
  <2>7. Scopes!EnrichmentIsSound(f)
    BY <2>1, <2>3, <2>4, <2>5, <2>6 DEF Scopes!EnrichmentIsSound
  <2> QED
    BY <1>0, <1>4, <2>1, <2>2, <2>5, <2>7
<1>7. ASSUME NEW r \in ScopeRequest, Scopes!SourceFails(r), UNCHANGED <<source, fallback>>
      PROVE  Scopes!IInv'
  <2>1. /\ UNCHANGED <<revision, revisedAt, scopeCache, scopeClock, source, fallback>>
        /\ enrichment' = [enrichment EXCEPT ![r] = None]
    BY <1>7 DEF Scopes!SourceFails
  <2>2. Revising
    BY <2>1 DEF Revising
  <2>3. Scopes!TypeOK' /\ \A q \in ScopeRequest : enrichment'[q] \in {enrichment[q], None}
    BY <1>0, <2>1 DEF Scopes!TypeOK
  <2> QED
    BY <1>3, <2>1, <2>2, <2>3
<1>8. ASSUME NEW r \in ScopeRequest, Scopes!InsertScope(r), UNCHANGED <<source, fallback>>
      PROVE  Scopes!IInv'
  <2> DEFINE e == enrichment[r]
             entry == [scope |-> e.scope, expires |-> scopeClock + Ttl]
  <2>1. /\ e # None /\ e.phase = "insert"
        /\ UNCHANGED <<revision, revisedAt, scopeClock, source, fallback>>
        /\ enrichment' = [enrichment EXCEPT ![r] = Scopes!Answered(e.subject, e.scope)]
        /\ scopeCache' = [scopeCache EXCEPT ![Scopes!CacheKey(e.subject)] = entry]
    BY <1>8 DEF Scopes!InsertScope, Scopes!Running, Scopes!ExpiresAt
  <2>2. /\ e \in Scopes!Enrichment /\ e.subject \in Subject /\ e.started \in Nat
        /\ e.scope \in Scopes!Scope /\ e.scope.subject = e.subject /\ Scopes!InForce(e.scope, e.started)
        /\ scopeClock - e.started <= MaxRead
    BY <1>0, <2>1 DEF Scopes!Enrichment, Scopes!EnrichmentIsSound
  <2>3. PICK k \in Scopes!Keys : k = Scopes!CacheKey(e.subject)
    BY <2>2 DEF Scopes!Keys
  <2>4. entry \in Entry /\ entry.scope = e.scope /\ entry.expires = scopeClock + Ttl
    BY <1>0, <2>2 DEF Entry
  <2>5. PICK v \in Entry : v = entry
    BY <2>4
  <2> HIDE DEF entry
  <2>6. /\ v.expires - Ttl - MaxRead \in Int /\ v.expires - Ttl - MaxRead <= e.started
        /\ scopeClock - Ttl - MaxRead + 1 \in Int /\ scopeClock - Ttl - MaxRead + 1 <= e.started
        /\ v.expires <= scopeClock + Ttl
    BY <1>0, <2>2, <2>4, <2>5
  <2>7. Scopes!InForce(e.scope, v.expires - Ttl - MaxRead)
        /\ Scopes!InForce(e.scope, scopeClock - Ttl - MaxRead + 1)
    BY <1>0, <2>2, <2>6, InForceWeaken
  <2>8. Scopes!EntryIsSound(k, v)
    BY <2>2, <2>3, <2>4, <2>5, <2>6, <2>7 DEF Scopes!EntryIsSound
  <2>9. Revising
    BY <2>1 DEF Revising
  <2>10. Scopes!EntryIsSound(k, v)'
    BY <1>0, <2>8, <2>9, ScopeEntryStep DEF Entry
  <2>11. /\ Scopes!Answered(e.subject, e.scope) \in Scopes!Enrichment
         /\ Scopes!EnrichmentIsSound(Scopes!Answered(e.subject, e.scope))
    BY <1>0, <2>2, <2>7, AnswerIsSound
  <2>12. /\ scopeCache' \in [Scopes!Keys -> Entry \cup {None}] /\ scopeCache'[k] = v
         /\ \A j \in Scopes!Keys : j # k => scopeCache'[j] = scopeCache[j]
    BY <1>0, <2>1, <2>3, <2>5
  <2>13. \A j \in Scopes!Keys :
            scopeCache'[j] \in {scopeCache[j], None} \/ Scopes!EntryIsSound(j, scopeCache[j])'
    BY <2>10, <2>12
  <2> QED
    BY <1>4, <2>1, <2>11, <2>12, <2>13
<1>9. ASSUME NEW s \in Subject, Scopes!Revise(s), UNCHANGED <<source, fallback>>
      PROVE  Scopes!IInv'
  <2>1. Revising /\ UNCHANGED <<scopeCache, enrichment, scopeClock, source, fallback>>
    BY <1>9 DEF Revising, Scopes!Revise
  <2>2. revision \in [Subject -> Scopes!Revision] /\ revisedAt \in [Subject -> [Scopes!Revision -> 0..MaxClock]]
        /\ scopeClock \in 0..MaxClock
    BY <1>0 DEF Scopes!TypeOK
  <2>3. revision[s] + 1 \in Scopes!Revision
    BY <1>9, <2>2, ControlPlaneAssumption DEF Scopes!Revise, Scopes!Revision
  <2>4. revision' = [revision EXCEPT ![s] = revision[s] + 1]
        /\ revisedAt' = [revisedAt EXCEPT ![s] = [revisedAt[s] EXCEPT ![revision[s] + 1] = scopeClock]]
    BY <1>9 DEF Scopes!Revise
  <2>5. [revisedAt[s] EXCEPT ![revision[s] + 1] = scopeClock] \in [Scopes!Revision -> 0..MaxClock]
    BY <2>2, <2>3
  <2>6. Scopes!TypeOK'
    BY <1>0, <2>1, <2>2, <2>3, <2>4, <2>5 DEF Scopes!TypeOK
  <2> QED
    BY <1>3, <2>1, <2>6
<1>10. ASSUME NEW s \in Subject, Scopes!Invalidate(s), UNCHANGED <<source, fallback>>
       PROVE  Scopes!IInv'
  <2>1. Revising /\ UNCHANGED <<revision, revisedAt, enrichment, scopeClock, source, fallback>>
    BY <1>10 DEF Revising, Scopes!Invalidate
  <2>2. PICK prefix : Scopes!InvalidatePrefix(prefix)
    BY <1>10 DEF Scopes!Invalidate
  <2>3. \A k \in Scopes!Keys : scopeCache'[k] \in {scopeCache[k], None}
    BY <2>2 DEF Scopes!InvalidatePrefix
  <2>4. scopeCache' \in [Scopes!Keys -> Entry \cup {None}]
    BY <1>0, <2>2 DEF Scopes!InvalidatePrefix
  <2>5. Scopes!TypeOK'
    BY <1>0, <2>1, <2>4 DEF Scopes!TypeOK, Entry
  <2> QED
    BY <1>3, <2>1, <2>3, <2>5
<1> QED
  BY <1>1, <1>2, <1>5, <1>6, <1>7, <1>8, <1>9, <1>10 DEF Scopes!Next

-------------------------------------------------------------------------------
(* The offset lists. *)

\* No listing runs initially.
LEMMA ListsInit == Lists!Init => Lists!IInv
  BY DEF Lists!Init, Lists!IInv, Lists!TypeOK

\* The module of the lists counts as this one does.
LEMMA ListsCount == \A S : Cardinality(S) = Lists!Cardinality(S)
  BY DEF Cardinality, Lists!Cardinality

\* The places of a list are finitely many.
LEMMA TableIsFinite ==
    ASSUME NEW S \in SUBSET Lists!Row
    PROVE  IsFiniteSet(S) /\ Lists!Cardinality(S) \in Nat
<1>0. 1 \in Int /\ MaxRow \in Int
  BY ControlPlaneAssumption
<1>1. IsFiniteSet(1..MaxRow) /\ S \in SUBSET (1..MaxRow)
  <2>1. IsFiniteSet(1..MaxRow)
    BY <1>0, FS_Interval
  <2> QED
    BY <2>1 DEF Lists!Row
<1>2. IsFiniteSet(S)
  BY <1>1, FS_Subset
<1> QED
  BY <1>2, FS_CardinalityType, ListsCount

\* A row's place is a number below the number of rows, and rows that are
\* inserted only move it back (ORDER BY in repository.rs).
LEMMA AheadBounds ==
    ASSUME NEW S \in SUBSET Lists!Row, NEW T \in SUBSET Lists!Row, S \subseteq T, NEW x \in S
    PROVE  /\ Lists!Ahead(S, x) \in Nat /\ Lists!Ahead(T, x) \in Nat
           /\ Lists!Ahead(S, x) < Lists!Cardinality(S)
           /\ Lists!Ahead(S, x) <= Lists!Ahead(T, x)
<1> DEFINE A == {y \in S : y < x}
           B == {y \in T : y < x}
<1>1. x \in Int /\ \A y \in T : y \in Int
  BY DEF Lists!Row
<1>2. A \in SUBSET S /\ x \notin A /\ B \in SUBSET T /\ A \in SUBSET B
  <2>1. ~(x < x)
    BY <1>1
  <2> QED
    BY <2>1
<1>3. IsFiniteSet(S) /\ IsFiniteSet(T)
  BY TableIsFinite
<1> HIDE DEF A, B
<1>4. IsFiniteSet(A) /\ IsFiniteSet(B) /\ Cardinality(A) <= Cardinality(S) /\ Cardinality(S) # Cardinality(A)
  BY <1>2, <1>3, FS_Subset
<1>5. Cardinality(A) <= Cardinality(B)
  BY <1>2, <1>4, FS_Subset
<1>6. Cardinality(A) \in Nat /\ Cardinality(B) \in Nat /\ Cardinality(S) \in Nat
  BY <1>3, <1>4, FS_CardinalityType
<1>7. Lists!Ahead(S, x) = Cardinality(A) /\ Lists!Ahead(T, x) = Cardinality(B)
  BY ListsCount DEF Lists!Ahead, A, B
<1> QED
  BY <1>4, <1>5, <1>6, <1>7, ListsCount

\* The pages of a listing cover the rows ahead of the next one (LIMIT and OFFSET
\* in repository.rs).
LEMMA SelectedDef ==
    \A S, page, x : x \in Lists!Selected(S, page) <=>
        (x \in S /\ (page - 1) * ListSize <= Lists!Ahead(S, x) /\ Lists!Ahead(S, x) < page * ListSize)
  BY DEF Lists!Selected

\* Replacing one element of a finite set by another keeps its size.
LEMMA Exchange ==
    ASSUME NEW S, IsFiniteSet(S), NEW from \in S, NEW to, to \notin S
    PROVE  Cardinality((S \ {from}) \cup {to}) = Cardinality(S)
<1>1. IsFiniteSet(S \ {from}) /\ Cardinality(S \ {from}) = Cardinality(S) - 1
  BY FS_RemoveElement
<1>2. Cardinality((S \ {from}) \cup {to}) = Cardinality(S \ {from}) + 1
  BY <1>1, FS_AddElement
<1> QED
  BY <1>1, <1>2, FS_CardinalityType

\* A row that moves leaves the number of rows as it is, and one that moves to an
\* earlier place moves no other row forward (repository.rs register_control_node_postgres).
LEMMA MovedAhead ==
    ASSUME NEW T \in SUBSET Lists!Row, NEW from \in T, NEW to \in Lists!Row \ T,
           NEW U \in SUBSET Lists!Row, U = (T \ {from}) \cup {to}
    PROVE  /\ Lists!Cardinality(U) = Lists!Cardinality(T)
           /\ ~(from < to) => \A x \in T \ {from} :
                 /\ Lists!Ahead(T, x) <= Lists!Ahead(U, x)
                 /\ Lists!Ahead(T, x) \in Nat /\ Lists!Ahead(U, x) \in Nat
<1>1. IsFiniteSet(T) /\ IsFiniteSet(U)
  BY TableIsFinite
<1>2. Lists!Cardinality(U) = Lists!Cardinality(T)
  BY <1>1, Exchange, ListsCount
<1>3. ASSUME ~(from < to), NEW x \in T \ {from}
      PROVE  /\ Lists!Ahead(T, x) <= Lists!Ahead(U, x)
             /\ Lists!Ahead(T, x) \in Nat /\ Lists!Ahead(U, x) \in Nat
  <2> DEFINE A == {y \in T : y < x}
             B == {y \in U : y < x}
  <2>1. from \in Int /\ to \in Int /\ x \in Int /\ to < from /\ to # x
    BY <1>3 DEF Lists!Row
  <2>2. /\ A \in SUBSET T /\ B \in SUBSET U /\ to \notin A
        /\ from < x => from \in A /\ B = (A \ {from}) \cup {to}
        /\ ~(from < x) => A \in SUBSET B
    <3>1. from < x => to < x
      BY <2>1
    <3> QED
      BY <3>1
  <2>3. Lists!Ahead(T, x) = Cardinality(A) /\ Lists!Ahead(U, x) = Cardinality(B)
    BY ListsCount DEF Lists!Ahead
  <2> HIDE DEF A, B
  <2>4. /\ IsFiniteSet(A) /\ IsFiniteSet(B)
        /\ Cardinality(A) \in Nat /\ Cardinality(B) \in Nat
    BY <1>1, <2>2, FS_Subset, FS_CardinalityType
  <2>5. CASE from < x
    BY <2>2, <2>3, <2>4, <2>5, Exchange
  <2>6. CASE ~(from < x)
    BY <2>2, <2>3, <2>4, <2>6, FS_Subset
  <2> QED
    BY <2>5, <2>6
<1> QED
  BY <1>1, <1>2, <1>3

\* Paging, inserting, removing and moving rows keep the invariant of the offset lists.
LEMMA ListsStep ==
    ASSUME Lists!IInv, [Lists!Next]_listVars
    PROVE  Lists!IInv'
<1>0. /\ Lists!TypeOK /\ table \in SUBSET Lists!Row /\ ListSize \in Nat \ {0}
      /\ \A c \in Reader : listing[c] # None => listing[c] \in Lists!Listing /\ Lists!PagesSoFar(listing[c])
      /\ listing \in [Reader -> Lists!Listing \cup {None}]
  BY ControlPlaneAssumption DEF Lists!IInv, Lists!TypeOK
<1>1. CASE UNCHANGED listVars
  BY <1>0, <1>1 DEF listVars, Lists!IInv, Lists!TypeOK, Lists!PagesSoFar
<1>2. ASSUME UNCHANGED <<owner, table>>, NEW c \in Reader, NEW l \in Lists!Listing,
             listing' = [listing EXCEPT ![c] = l], Lists!PagesSoFar(l)
      PROVE  Lists!IInv'
  <2>1. listing'[c] = l /\ \A d \in Reader : d # c => listing'[d] = listing[d]
    BY <1>0, <1>2
  <2>2. Lists!TypeOK'
    BY <1>0, <1>2 DEF Lists!TypeOK
  <2>3. ASSUME NEW d \in Reader, listing'[d] # None PROVE Lists!PagesSoFar(listing[d])'
    BY <1>0, <1>2, <2>1, <2>3 DEF Lists!PagesSoFar
  <2> QED
    BY <2>2, <2>3 DEF Lists!IInv
<1>3. ASSUME NEW c \in Reader, Lists!Open(c), UNCHANGED owner
      PROVE  Lists!IInv'
  <2> DEFINE l == [page |-> 1, total |-> None, status |-> "open", start |-> table, got |-> {},
                   shifted |-> FALSE, left |-> FALSE]
  <2>1. listing' = [listing EXCEPT ![c] = l] /\ UNCHANGED <<owner, table>>
    BY <1>3 DEF Lists!Open
  <2>2. l \in Lists!Listing /\ l.page = 1 /\ l.total = None /\ l.status = "open" /\ l.start = table
    BY <1>0 DEF Lists!Listing
  <2> HIDE DEF l
  <2>3. (l.page - 1) * ListSize = 0
    BY <1>0, <2>2
  <2>4. \A x \in l.start : ~(Lists!Ahead(table, x) < (l.page - 1) * ListSize)
    <3> SUFFICES ASSUME NEW x \in l.start PROVE ~(Lists!Ahead(table, x) < 0)
      BY <2>3
    <3>1. Lists!Ahead(table, x) \in Nat
      BY <1>0, <2>2, AheadBounds
    <3> QED
      BY <3>1
  <2>5. Lists!PagesSoFar(l)
    BY <2>2, <2>4 DEF Lists!PagesSoFar
  <2> QED
    BY <1>2, <2>1, <2>2, <2>5
<1>4. ASSUME NEW c \in Reader, Lists!CountRows(c), UNCHANGED owner
      PROVE  Lists!IInv'
  <2> DEFINE n == Lists!Cardinality(table)
             l == [listing[c] EXCEPT !.total = n, !.shifted = FALSE]
  <2>1. listing' = [listing EXCEPT ![c] = l] /\ UNCHANGED <<owner, table>>
        /\ listing[c] # None /\ listing[c].status = "open"
    BY <1>0, <1>4 DEF Lists!CountRows, Lists!Asked
  <2>2. n \in Nat
    BY <1>0, TableIsFinite
  <2> HIDE DEF n
  <2>3. /\ l \in Lists!Listing /\ l.page = listing[c].page /\ l.total = n /\ l.status = "open"
        /\ l.start = listing[c].start /\ l.got = listing[c].got /\ l.left = listing[c].left
    BY <1>0, <2>1, <2>2 DEF Lists!Listing
  <2> HIDE DEF l
  <2>4. Lists!PagesSoFar(l)
    BY <1>0, <2>1, <2>3 DEF Lists!PagesSoFar, n
  <2> QED
    BY <1>2, <2>1, <2>3, <2>4
<1>5. ASSUME NEW c \in Reader, Lists!SelectPage(c), UNCHANGED owner
      PROVE  Lists!IInv'
  <2> DEFINE m == listing[c]
             more == Lists!HasMore(m.page, m.total)
             got == m.got \cup Lists!Selected(table, m.page)
             page == IF more THEN m.page + 1 ELSE m.page
             status == IF more THEN "open" ELSE "done"
             l == [m EXCEPT !.got = got, !.page = page, !.total = None, !.status = status]
  <2>1. listing' = [listing EXCEPT ![c] = l] /\ UNCHANGED <<owner, table>>
        /\ m # None /\ m.status = "open" /\ m.total # None
    BY <1>5 DEF Lists!SelectPage, Lists!Asked
  <2>2. m \in Lists!Listing /\ Lists!PagesSoFar(m) /\ m.page \in Nat /\ m.total \in Nat
        /\ m.start \subseteq Lists!Row /\ m.got \subseteq Lists!Row
    BY <1>0, <2>1 DEF Lists!Listing
  <2>3. got \in SUBSET Lists!Row /\ page \in Nat /\ status \in {"open", "done"}
    BY <1>0, <2>2, SelectedDef
  <2> HIDE DEF got, page, status, more
  <2>4. /\ l \in Lists!Listing /\ l.page = page /\ l.total = None /\ l.status = status /\ l.got = got
        /\ l.start = m.start /\ l.shifted = m.shifted /\ l.left = m.left
    BY <2>2, <2>3 DEF Lists!Listing
  <2> HIDE DEF l
  <2>5. ASSUME ~m.left, NEW x \in m.start, Lists!Ahead(table, x) < m.page * ListSize
        PROVE  x \in got
    <3>1. x \in table
      BY <2>1, <2>2, <2>5 DEF Lists!PagesSoFar
    <3>2. Lists!Ahead(table, x) \in Nat
      BY <1>0, <3>1, AheadBounds
    <3>3. m.page * ListSize \in Int /\ (m.page - 1) * ListSize \in Int
      BY <1>0, <2>2
    <3>4. CASE Lists!Ahead(table, x) < (m.page - 1) * ListSize
      BY <2>1, <2>2, <2>5, <3>4 DEF Lists!PagesSoFar, got
    <3>5. CASE (m.page - 1) * ListSize <= Lists!Ahead(table, x)
      BY <2>5, <3>1, <3>5, SelectedDef DEF got
    <3> QED
      BY <3>2, <3>3, <3>4, <3>5
  <2>6. CASE more
    <3>1. status = "open" /\ page = m.page + 1
      BY <2>6 DEF status, page
    <3>2. page - 1 = m.page
      BY <2>2, <3>1
    <3>3. (page - 1) * ListSize = m.page * ListSize
      BY <3>2
    <3>4. ~m.left => \A x \in m.start : Lists!Ahead(table, x) < (page - 1) * ListSize => x \in got
      BY <2>5, <3>3
    <3>5. Lists!PagesSoFar(l)
      BY <2>1, <2>2, <2>4, <3>1, <3>4 DEF Lists!PagesSoFar
    <3> QED
      BY <1>2, <2>1, <2>4, <3>5
  <2>7. CASE ~more
    <3>1. status = "done"
      BY <2>7 DEF status
    <3>2. ASSUME ~m.shifted, ~m.left, NEW x \in m.start PROVE x \in got
      <4>1. m.total = Lists!Cardinality(table) /\ x \in table
        BY <2>1, <2>2, <3>2 DEF Lists!PagesSoFar
      <4>2. Lists!Ahead(table, x) \in Nat /\ Lists!Ahead(table, x) < m.total
        BY <1>0, <4>1, AheadBounds
      <4>3. m.page * ListSize \in Int /\ m.total <= m.page * ListSize
        BY <1>0, <2>2, <2>7 DEF more, Lists!HasMore
      <4>4. Lists!Ahead(table, x) < m.page * ListSize
        BY <2>2, <4>2, <4>3
      <4> QED
        BY <2>5, <3>2, <4>4
    <3>3. Lists!PagesSoFar(l)
      BY <2>4, <3>1, <3>2 DEF Lists!PagesSoFar
    <3> QED
      BY <1>2, <2>1, <2>4, <3>3
  <2> QED
    BY <2>6, <2>7
<1>6. ASSUME NEW x \in Lists!Row, Lists!Insert(x), UNCHANGED owner
      PROVE  Lists!IInv'
  <2>1. /\ table' = table \cup {x}
        /\ listing' = [c \in Reader |-> IF Lists!Asked(c) /\ listing[c].total # None
                                       THEN [listing[c] EXCEPT !.shifted = TRUE] ELSE listing[c]]
    BY <1>6 DEF Lists!Insert
  <2>2. table' \in SUBSET Lists!Row /\ table \subseteq table'
    BY <1>0, <2>1
  <2>3. ASSUME NEW c \in Reader, listing'[c] # None
        PROVE  listing'[c] \in Lists!Listing /\ Lists!PagesSoFar(listing[c])'
    <3> DEFINE m == listing[c]
               l == listing'[c]
    <3>1. m # None /\ l \in {m, [m EXCEPT !.shifted = TRUE]}
          /\ (m.status = "open" /\ m.total # None => l = [m EXCEPT !.shifted = TRUE])
      BY <2>1, <2>3 DEF Lists!Asked
    <3>2. m \in Lists!Listing /\ Lists!PagesSoFar(m) /\ m.page \in Nat
      BY <1>0, <3>1 DEF Lists!Listing
    <3>3. /\ l \in Lists!Listing /\ l.page = m.page /\ l.total = m.total /\ l.status = m.status
          /\ l.start = m.start /\ l.got = m.got /\ l.left = m.left
          /\ l.shifted \in {m.shifted, TRUE}
          /\ (m.status = "open" /\ m.total # None => l.shifted)
      BY <3>1, <3>2 DEF Lists!Listing
    <3> HIDE DEF l
    <3>4. ASSUME m.status = "open", ~m.left
          PROVE  /\ m.start \subseteq table'
                 /\ \A y \in m.start : Lists!Ahead(table', y) < (m.page - 1) * ListSize => y \in m.got
      <4>1. m.start \subseteq table
        BY <3>2, <3>4 DEF Lists!PagesSoFar
      <4>2. ASSUME NEW y \in m.start, Lists!Ahead(table', y) < (m.page - 1) * ListSize
            PROVE  y \in m.got
        <5>1. Lists!Ahead(table, y) <= Lists!Ahead(table', y) /\ Lists!Ahead(table, y) \in Nat
              /\ Lists!Ahead(table', y) \in Nat
          BY <1>0, <2>2, <4>1, AheadBounds
        <5>2. (m.page - 1) * ListSize \in Int
          BY <1>0, <3>2
        <5>3. Lists!Ahead(table, y) < (m.page - 1) * ListSize
          BY <4>2, <5>1, <5>2
        <5> QED
          BY <3>2, <3>4, <5>3 DEF Lists!PagesSoFar
      <4> QED
        BY <2>2, <4>1, <4>2
    <3>5. (m.status = "done" /\ ~m.shifted /\ ~m.left) => m.start \subseteq m.got
      BY <3>2 DEF Lists!PagesSoFar
    <3>6. Lists!PagesSoFar(listing[c])' <=>
             /\ (l.status = "open" /\ ~l.left) =>
                   /\ l.start \subseteq table'
                   /\ \A y \in l.start : Lists!Ahead(table', y) < (l.page - 1) * ListSize => y \in l.got
                   /\ (l.total # None /\ ~l.shifted) => l.total = Lists!Cardinality(table')
             /\ (l.status = "done" /\ ~l.shifted /\ ~l.left) => l.start \subseteq l.got
      BY DEF Lists!PagesSoFar, l
    <3> QED
      BY <3>3, <3>4, <3>5, <3>6 DEF l
  <2>4. Lists!TypeOK'
    BY <1>0, <1>6, <2>1, <2>2, <2>3 DEF Lists!TypeOK
  <2> QED
    BY <2>3, <2>4 DEF Lists!IInv
<1>7. ASSUME NEW x \in Lists!Row, Lists!Remove(x), UNCHANGED owner
      PROVE  Lists!IInv'
  <2>1. /\ table' = table \ {x}
        /\ listing' = [c \in Reader |-> IF Lists!Asked(c) THEN [listing[c] EXCEPT !.left = TRUE]
                                       ELSE listing[c]]
    BY <1>7 DEF Lists!Remove
  <2>2. ASSUME NEW c \in Reader, listing'[c] # None
        PROVE  listing'[c] \in Lists!Listing /\ Lists!PagesSoFar(listing[c])'
    <3> DEFINE m == listing[c]
               l == listing'[c]
    <3>1. m # None /\ (m.status = "open" => l = [m EXCEPT !.left = TRUE])
          /\ (m.status # "open" => l = m)
      BY <2>1, <2>2 DEF Lists!Asked
    <3>2. m \in Lists!Listing /\ Lists!PagesSoFar(m)
      BY <1>0, <3>1
    <3>3. /\ l \in Lists!Listing /\ l.status = m.status /\ (l.status = "open" => l.left = TRUE)
      BY <3>1, <3>2 DEF Lists!Listing
    <3> HIDE DEF l
    <3>4. l.status = "done" => l = m
      BY <3>1, <3>3
    <3>5. Lists!PagesSoFar(listing[c])' <=>
             /\ (l.status = "open" /\ ~l.left) =>
                   /\ l.start \subseteq table'
                   /\ \A y \in l.start : Lists!Ahead(table', y) < (l.page - 1) * ListSize => y \in l.got
                   /\ (l.total # None /\ ~l.shifted) => l.total = Lists!Cardinality(table')
             /\ (l.status = "done" /\ ~l.shifted /\ ~l.left) => l.start \subseteq l.got
      BY DEF Lists!PagesSoFar, l
    <3>6. (l.status = "done" /\ ~l.shifted /\ ~l.left) => l.start \subseteq l.got
      BY <3>2, <3>4 DEF Lists!PagesSoFar
    <3> QED
      BY <3>3, <3>5, <3>6 DEF l
  <2>3. Lists!TypeOK'
    BY <1>0, <1>7, <2>1, <2>2 DEF Lists!TypeOK
  <2> QED
    BY <2>2, <2>3 DEF Lists!IInv
<1>8. ASSUME NEW x \in Lists!Row, NEW from \in Lists!Row, Lists!Move(from, x), UNCHANGED owner
      PROVE  Lists!IInv'
  <2>1. /\ from \in table /\ x \notin table /\ table' = (table \ {from}) \cup {x}
        /\ listing' = [c \in Reader |->
              IF Lists!Asked(c)
              THEN [listing[c] EXCEPT !.start = @ \ {from}, !.left = @ \/ from < x]
              ELSE listing[c]]
    BY <1>8 DEF Lists!Move
  <2>2. /\ table' \in SUBSET Lists!Row /\ Lists!Cardinality(table') = Lists!Cardinality(table)
        /\ ~(from < x) => \A y \in table \ {from} :
              /\ Lists!Ahead(table, y) <= Lists!Ahead(table', y)
              /\ Lists!Ahead(table, y) \in Nat /\ Lists!Ahead(table', y) \in Nat
    <3>1. x \in Lists!Row \ table
      BY <2>1
    <3> DEFINE U == (table \ {from}) \cup {x}
    <3>2. /\ U \in SUBSET Lists!Row /\ Lists!Cardinality(U) = Lists!Cardinality(table)
          /\ ~(from < x) => \A y \in table \ {from} :
                /\ Lists!Ahead(table, y) <= Lists!Ahead(U, y)
                /\ Lists!Ahead(table, y) \in Nat /\ Lists!Ahead(U, y) \in Nat
      <4>1. from \in table /\ table \in SUBSET Lists!Row /\ U \in SUBSET Lists!Row
        BY <1>0, <2>1, <3>1
      <4>2. U = (table \ {from}) \cup {x}
        OBVIOUS
      <4> HIDE DEF U
      <4>3. Lists!Cardinality(U) = Lists!Cardinality(table)
        BY <3>1, <4>1, <4>2, MovedAhead
      <4>4. ASSUME ~(from < x), NEW y \in table \ {from}
            PROVE  /\ Lists!Ahead(table, y) <= Lists!Ahead(U, y)
                   /\ Lists!Ahead(table, y) \in Nat /\ Lists!Ahead(U, y) \in Nat
        BY <3>1, <4>1, <4>2, <4>4, MovedAhead
      <4> QED
        BY <4>1, <4>3, <4>4
    <3>3. table' = U
      BY <2>1
    <3> HIDE DEF U
    <3> QED
      BY <3>2, <3>3
  <2>3. ASSUME NEW c \in Reader, listing'[c] # None
        PROVE  listing'[c] \in Lists!Listing /\ Lists!PagesSoFar(listing[c])'
    <3> DEFINE m == listing[c]
               l == listing'[c]
    <3>1. /\ m # None
          /\ m.status = "open" => l = [m EXCEPT !.start = @ \ {from}, !.left = @ \/ from < x]
          /\ m.status # "open" => l = m
      BY <2>1, <2>3 DEF Lists!Asked
    <3>2. m \in Lists!Listing /\ Lists!PagesSoFar(m)
      BY <1>0, <3>1
    <3>3. CASE m.status # "open"
      BY <3>1, <3>2, <3>3 DEF Lists!PagesSoFar, Lists!Listing
    <3>4. CASE m.status = "open"
      <4>1. /\ l \in Lists!Listing /\ l.status = "open" /\ l.page = m.page /\ l.total = m.total
            /\ l.got = m.got /\ l.shifted = m.shifted /\ l.start = m.start \ {from}
            /\ l.left <=> (m.left \/ from < x)
        <5> DEFINE start == m.start \ {from}
                   left == m.left \/ from < x
        <5>1. l = [m EXCEPT !.start = start, !.left = left]
          BY <3>1, <3>4
        <5>2. start \in SUBSET Lists!Row /\ left \in BOOLEAN
          BY <3>2 DEF Lists!Listing
        <5> HIDE DEF start, left, l
        <5>3. /\ l \in Lists!Listing /\ l.status = "open" /\ l.page = m.page /\ l.total = m.total
              /\ l.got = m.got /\ l.shifted = m.shifted /\ l.start = start /\ l.left = left
          BY <3>2, <3>4, <5>1, <5>2 DEF Lists!Listing
        <5> QED
          BY <5>3 DEF start, left
      <4>2. m.page \in Nat /\ (m.page - 1) * ListSize \in Int
        BY <1>0, <3>2 DEF Lists!Listing
      <4> HIDE DEF l
      <4>3. ASSUME ~l.left
            PROVE  /\ l.start \subseteq table'
                   /\ \A y \in l.start : Lists!Ahead(table', y) < (l.page - 1) * ListSize => y \in l.got
                   /\ (l.total # None /\ ~l.shifted) => l.total = Lists!Cardinality(table')
        <5>1. /\ ~m.left /\ ~(from < x) /\ m.start \subseteq table
              /\ \A y \in m.start : Lists!Ahead(table, y) < (m.page - 1) * ListSize => y \in m.got
              /\ (m.total # None /\ ~m.shifted) => m.total = Lists!Cardinality(table)
          BY <3>2, <3>4, <4>1, <4>3 DEF Lists!PagesSoFar
        <5>2. ASSUME NEW y \in l.start, Lists!Ahead(table', y) < (l.page - 1) * ListSize
              PROVE  y \in l.got
          <6>1. y \in m.start /\ y \in table \ {from}
            BY <4>1, <5>1
          <6>2. Lists!Ahead(table, y) < (m.page - 1) * ListSize
            BY <2>2, <4>1, <4>2, <5>1, <5>2, <6>1
          <6> QED
            BY <4>1, <5>1, <6>1, <6>2
        <5> QED
          BY <2>1, <2>2, <4>1, <5>1, <5>2
      <4> QED
        BY <4>1, <4>3 DEF Lists!PagesSoFar, l
    <3> QED
      BY <3>3, <3>4
  <2>4. Lists!TypeOK'
    BY <1>0, <1>8, <2>1, <2>2, <2>3 DEF Lists!TypeOK
  <2> QED
    BY <2>3, <2>4 DEF Lists!IInv
<1>9. ASSUME NEW caller, NEW x \in Lists!Row, UNCHANGED owner,
             \/ Lists!UpsertPolicy(caller, x) \/ Lists!RegisterNode(caller, x)
             \/ Lists!RegisterNodeElsewhere(caller, x) \/ Lists!DeleteNode(caller, x)
      PROVE  Lists!IInv'
  <2>1. \/ Lists!Insert(x) \/ Lists!Remove(x)
        \/ \E from \in Lists!Row : Lists!Move(from, x)
    BY <1>9 DEF Lists!UpsertPolicy, Lists!RegisterNode, Lists!RegisterNodeElsewhere, Lists!DeleteNode,
                Lists!PlacesOf
  <2> QED
    BY <1>6, <1>7, <1>8, <1>9, <2>1
<1> QED
  BY <1>1, <1>3, <1>4, <1>5, <1>9
     DEF Lists!Next, Lists!ListPolicies, Lists!ListControlNodes


-------------------------------------------------------------------------------
(* The control plane. *)

\* What the exercised part does keeps its invariant, and no other part moves:
\* event lists, node registry, policies, offset lists and scopes share no state
\* (routes.rs build_admin_router mounts their handlers next to each other).
THEOREM Invariance == Spec => []IInv
<1>1. Init => IInv
  BY EventsInit, NodesInit, PoliciesInit, ListsInit, ScopesInit DEF Init, IInv
<1>2. ASSUME IInv, [Next]_vars
      PROVE  IInv'
  <2>1. [Events!Next]_eventVars
    BY <1>2 DEF Next, vars
  <2>2. [Nodes!Next]_nodeVars
    BY <1>2 DEF Next, vars
  <2>3. [Policies!Next]_policyVars
    BY <1>2 DEF Next, vars
  <2>4. [Lists!Next]_listVars
    BY <1>2 DEF Next, vars
  <2>5. [Scopes!Next]_scopeVars
    BY <1>2 DEF Next, vars
  <2> QED
    BY <1>2, <2>1, <2>2, <2>3, <2>4, <2>5, EventsStep, NodesStep, PoliciesStep, ListsStep, ScopesStep
       DEF IInv
<1> QED
  BY <1>1, <1>2, PTL DEF Spec

\* For every set of tenants, clients and callers: a tenant admin without platform
\* read receives rows of its own tenant only, and security events go to callers
\* with the control-plane permission only (tenant_scope.rs).
THEOREM TenantsAreIsolated == Spec => []TenantIsolation
<1>1. ASSUME Events!IInv
      PROVE  Events!TenantIsolation
  <2> SUFFICES ASSUME NEW c \in Client, session[c] # None, NEW e \in session[c].got
               PROVE  /\ session[c].query.list = "audit" =>
                            ("platform.read" \in session[c].caller.permissions
                             \/ e.tenant = session[c].caller.tenant)
                      /\ session[c].query.list = "security" =>
                            "control-plane" \in session[c].caller.permissions
    BY DEF Events!TenantIsolation, Events!Sessions
  <2>1. e.tenant \in Events!Scope(session[c].caller, session[c].query)
    BY <1>1 DEF Events!IInv, Events!PagesSoFar
  <2> QED
    BY <2>1 DEF Events!Scope, Events!Authorize, Events!RequiredPermission,
                Events!AuditScope, Events!SecurityScope
<1>2. IInv => TenantIsolation
  BY <1>1 DEF IInv, TenantIsolation
<1> QED
  BY <1>2, Invariance, PTL

\* For every page size: a listing that came to its end has what was there at its
\* first page and still is, and nothing twice (pagination.rs RepoKeysetPage).
THEOREM ListingsAreComplete == Spec => []CompleteListing
<1>1. Events!IInv => Events!CompleteListing
  BY DEF Events!IInv, Events!PagesSoFar, Events!CompleteListing, Events!Sessions
<1>2. IInv => CompleteListing
  BY <1>1 DEF IInv, CompleteListing
<1> QED
  BY <1>2, Invariance, PTL

\* For every page size: an offset listing is complete that no insert overtook and
\* in which no node was deleted, left its environment or moved to a later region;
\* a node that moves to an earlier one takes no other row from it (repository.rs
\* list_cors_policies_postgres, register_control_node_postgres).
THEOREM OffsetListingsAreComplete == Spec => []OffsetListingComplete
<1>1. Lists!IInv => Lists!OffsetListingComplete
  BY DEF Lists!IInv, Lists!PagesSoFar, Lists!OffsetListingComplete
<1>2. IInv => OffsetListingComplete
  BY <1>1 DEF IInv, OffsetListingComplete
<1> QED
  BY <1>2, Invariance, PTL

\* However many registrations race, a life of a node is announced as created at
\* most once (repository.rs register_control_node).
THEOREM NodesAreCreatedOnce == Spec => []CreatedOnce
<1>1. IInv => CreatedOnce
  BY DEF IInv, Nodes!IInv, CreatedOnce
<1> QED
  BY <1>1, Invariance, PTL

\* However long requests last, the heartbeat time never falls behind what was
\* acknowledged by more than that (repository.rs heartbeat_control_node_postgres).
THEOREM HeartbeatsAreFresh == Spec => []HeartbeatsStayFresh
<1>1. IInv => HeartbeatsStayFresh
  BY DEF IInv, Nodes!IInv, HeartbeatsStayFresh
<1> QED
  BY <1>1, Invariance, PTL

\* For every TTL and however long a resolution takes: an answer from the policy
\* cache is at most one TTL and one resolution old (policy_cache.rs TtlCache).
THEOREM StalenessIsBounded == Spec => []BoundedStaleness
<1>1. ASSUME Policies!IInv, NEW k \in Key, Policies!Valid(k)
      PROVE  Policies!ReadingIsCurrent(cache[k].read, clock - Ttl - MaxRead + 1)
  <2>1. /\ Policies!TypeOK /\ cache[k] \in Policies!Entry /\ cache[k].expires > clock
        /\ Policies!ReadingIsCurrent(cache[k].read, cache[k].expires - Ttl - MaxRead)
    BY <1>1 DEF Policies!IInv, Policies!TypeOK, Policies!Valid, Policies!EntryIsCurrent
  <2>2. cache[k].expires \in Nat /\ clock \in Nat /\ Ttl \in Nat /\ MaxRead \in Nat
        /\ cache[k].read \in Policies!Reading
    BY <2>1, ControlPlaneAssumption DEF Policies!TypeOK, Policies!Entry
  <2>3. /\ clock - Ttl - MaxRead + 1 \in Int /\ cache[k].expires - Ttl - MaxRead \in Int
        /\ clock - Ttl - MaxRead + 1 <= cache[k].expires - Ttl - MaxRead
    BY <2>1, <2>2
  <2> QED
    BY <2>1, <2>2, <2>3, ReadingWeaken
<1>2. Policies!IInv => Policies!BoundedStaleness
  BY <1>1 DEF Policies!BoundedStaleness, Policies!ReadingIsCurrent
<1>3. IInv => BoundedStaleness
  BY <1>2 DEF IInv, BoundedStaleness
<1> QED
  BY <1>3, Invariance, PTL

\* For every set of tiers and of administrators: an upsert that has invalidated
\* the cache left nothing older of its tenant in it, but what a resolution that
\* overlapped an upsert put there (admin_service.rs invalidate_policy_cache).
THEOREM InvalidationsReachTenants == Spec => []InvalidationReachesTenant
<1>1. Policies!IInv => Policies!InvalidationReachesTenant
  BY DEF Policies!IInv, Policies!EntryIsCurrent, Policies!InvalidationReachesTenant
<1>2. IInv => InvalidationReachesTenant
  BY <1>1 DEF IInv, InvalidationReachesTenant
<1> QED
  BY <1>2, Invariance, PTL

\* For every set of subjects, TTL and length of a resolution: a request is granted
\* or refused on its own subject's record, at most one TTL and one resolution old
\* (authz_scope.rs AuthorizationScopeProvider::materialize).
THEOREM ScopesAreOwn == Spec => []ScopesAreOwnAndRecent
<1>1. Scopes!IInv => Scopes!ScopesAreOwnAndRecent
  BY DEF Scopes!IInv, Scopes!EnrichmentIsSound, Scopes!InForce, Scopes!ScopesAreOwnAndRecent
<1>2. IInv => ScopesAreOwnAndRecent
  BY <1>1 DEF IInv, ScopesAreOwnAndRecent
<1> QED
  BY <1>2, Invariance, PTL

===============================================================================
