--------------------------- MODULE WebSocketSession ---------------------------
(***************************************************************************)
(* One WebSocket connection after its HTTP upgrade passed the request       *)
(* pipeline: the connect, message and close interceptors and the loop that  *)
(* reads frames (core websocket.rs and ws_interceptors.rs, axum             *)
(* websocket.rs).  The connection may be cut at any frame.                  *)
(***************************************************************************)
EXTENDS Naturals, Sequences, FiniteSets

CONSTANTS
    MaxMessages,   \* max_messages_per_window
    Window,        \* message_window_secs
    NoWindow,      \* no message was seen yet
    MaxFrames, MaxTime

VARIABLES
    connection,  \* "upgraded", "open", "closing" or "closed"
    principal,   \* the request context has one
    call,        \* WebSocketCallState: [index, started, count]
    now,
    echoed,      \* the times of the messages that passed the interceptors
    closes       \* times the close interceptors ran

vars == <<connection, principal, call, now, echoed, closes>>

Init ==
    /\ connection = "upgraded" /\ principal \in BOOLEAN
    /\ call = [index |-> 0, started |-> NoWindow, count |-> 0]
    /\ now = 0 /\ echoed = <<>> /\ closes = 0

\* run_websocket_session: a connection the connect interceptors refuse is dropped
\* without a close.
Connect ==
    /\ connection = "upgraded"
    /\ connection' = IF principal THEN "open" ELSE "closed"
    /\ UNCHANGED <<principal, call, now, echoed, closes>>

\* Broken variant: every message restarts the window.
SlidingRestart(c, time) == [index |-> c.index + 1, started |-> time, count |-> 1]

\* MessageRateLimit: a window starts with its first message.
CountMessage(c, time) ==
    IF c.started = NoWindow \/ time - c.started > Window
    THEN [index |-> c.index + 1, started |-> time, count |-> 1]
    ELSE [c EXCEPT !.index = @ + 1, !.count = @ + 1]

\* The first message of a window passes whatever the limit.
OverLimit(c) == c.count > 1 /\ c.count > MaxMessages

\* One frame: too large is refused before it is counted; a refusal or a close
\* frame ends the loop, and so does a peer that is gone when the echo is sent.
Message ==
    /\ connection = "open" /\ call.index < MaxFrames
    /\ \E tooLarge, ends \in BOOLEAN :
        LET counted == CountMessage(call, now)
            refused == tooLarge \/ OverLimit(counted)
        IN /\ call' = IF tooLarge THEN [call EXCEPT !.index = @ + 1] ELSE counted
           /\ echoed' = IF refused THEN echoed ELSE Append(echoed, now)
           /\ connection' = IF refused \/ ends THEN "closing" ELSE "open"
    /\ UNCHANGED <<principal, now, closes>>

\* The socket ends without a frame.
Hangup ==
    /\ connection = "open"
    /\ connection' = "closing"
    /\ UNCHANGED <<principal, call, now, echoed, closes>>

\* The loop runs the close interceptors, and the session runs them once more when
\* the handler returns.
Close ==
    /\ connection = "closing"
    /\ closes' = closes + 1
    /\ connection' = IF closes' = 2 THEN "closed" ELSE "closing"
    /\ UNCHANGED <<principal, call, now, echoed>>

Tick ==
    /\ now < MaxTime
    /\ now' = now + 1
    /\ UNCHANGED <<connection, principal, call, echoed, closes>>

Next == Connect \/ Message \/ Hangup \/ Close \/ Tick

-------------------------------------------------------------------------------
\* Properties.

Largest(a, b) == IF a > b THEN a ELSE b

\* No message of a caller without a principal is echoed, and in no stretch as
\* long as the window more than twice the limit, wherever the frames fall
\* relative to the windows and however many were refused (ws_interceptors.rs
\* MessageRateLimit).
MessageBurstBounded ==
    /\ echoed # <<>> => principal
    /\ \A t \in 0..now : Cardinality({i \in DOMAIN echoed : echoed[i] \in t..t + Window}) <= 2 * Largest(MaxMessages, 1)

-------------------------------------------------------------------------------
(* The inductive invariant. *)

\* Messages a window lets through.
Burst == Largest(MaxMessages, 1)

TypeOK ==
    /\ connection \in {"upgraded", "open", "closing", "closed"}
    /\ principal \in BOOLEAN
    /\ call \in [index : Nat, started : Nat \cup {NoWindow}, count : Nat]
    /\ now \in Nat /\ echoed \in Seq(Nat) /\ closes \in Nat

\* Messages were echoed in the order of time, and two that are more than two
\* windows' messages apart are further apart than a window is long.
EchoesAreSpread ==
    /\ \A i, j \in DOMAIN echoed : i <= j => echoed[i] <= echoed[j]
    /\ \A i \in DOMAIN echoed : echoed[i] <= now
    /\ \A i \in DOMAIN echoed : i + 2 * Burst \in DOMAIN echoed => echoed[i] + Window < echoed[i + 2 * Burst]

\* While the connection is open the last `count` messages are those of the
\* current window, the others came before it, and those before the window that
\* preceded it came more than a window's length before.
WindowHasItsMessages ==
    LET before == Len(echoed) - call.count IN
    /\ call.started = NoWindow => echoed = <<>>
    /\ call.started # NoWindow =>
          /\ call.started <= now /\ call.count \in 1..Burst /\ before >= 0
          /\ \A i \in DOMAIN echoed : i > before => echoed[i] >= call.started
          /\ \A i \in DOMAIN echoed : i <= before => echoed[i] <= call.started
          /\ \A i \in DOMAIN echoed : i + Burst <= before => echoed[i] + Window < call.started

IInv ==
    /\ TypeOK
    /\ connection = "open" => principal
    /\ connection = "upgraded" => echoed = <<>>
    /\ echoed # <<>> => principal
    /\ EchoesAreSpread
    /\ connection = "upgraded" => call.started = NoWindow
    /\ connection = "open" => WindowHasItsMessages

===============================================================================
