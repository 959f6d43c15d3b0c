--------------------------- MODULE ServiceLifecycle ---------------------------
(***************************************************************************)
(* The life of a service process: startup hooks, serving, the drain after a *)
(* shutdown signal with the shutdown hooks beside it, and the readiness     *)
(* probe (bootstrap serve.rs, lifecycle.rs, health.rs, router.rs).          *)
(*                                                                         *)
(* Time is counted from the moment the server starts to serve, because that *)
(* is when the timeout around the serve future starts to run.               *)
(***************************************************************************)
EXTENDS Naturals, FiniteSets

CONSTANTS
    Conn,        \* connections, one request each
    HookCount,   \* hooks of CompositeWebFrameworkLifecycle
    CheckCount,  \* checks of CompositeReadinessCheck; 0 when none is configured
    Grace,       \* shutdown_grace_period, or NoGrace
    NoGrace,
    MaxTime

VARIABLES
    server,    \* "unbound", "starting", "serving", "draining", "stopped" or "failed"
    started,   \* startup hooks that succeeded
    cleanup,   \* the spawned shutdown task: [state, done]
    signal,    \* Ctrl+C or SIGTERM arrived
    open,      \* requests in flight
    dropped,   \* requests whose connection was cut
    time,
    up,        \* the dependencies that are up
    probe      \* a /readyz request: [state, asked, seen]

vars == <<server, started, cleanup, signal, open, dropped, time, up, probe>>
serverVars == <<server, started, cleanup, signal, open, dropped, time>>
probeVars == <<up, probe>>

Init ==
    /\ server = "unbound" /\ started = 0
    /\ cleanup = [state |-> "none", done |-> 0]
    /\ signal = FALSE /\ open = {} /\ dropped = {} /\ time = 0
    /\ up \in SUBSET (1..CheckCount)
    /\ probe = [state |-> "idle", asked |-> 0, seen |-> {}]

-------------------------------------------------------------------------------
\* serve_with_lifecycle

Bind ==
    /\ server = "unbound"
    /\ server' \in {"starting", "failed"}
    /\ UNCHANGED <<started, cleanup, signal, open, dropped, time, probeVars>>

\* on_startup: the hooks in their order; the first failure ends the process.
StartHook ==
    /\ server = "starting" /\ started < HookCount
    /\ \/ started' = started + 1 /\ UNCHANGED server
       \/ server' = "failed" /\ UNCHANGED started
    /\ UNCHANGED <<cleanup, signal, open, dropped, time, probeVars>>

\* Broken variant: the server listens while the hooks still run.
ServeEarly ==
    /\ server = "starting"
    /\ server' = "serving"
    /\ UNCHANGED <<started, cleanup, signal, open, dropped, time, probeVars>>

StartServing ==
    /\ server = "starting" /\ started = HookCount
    /\ server' = "serving"
    /\ UNCHANGED <<started, cleanup, signal, open, dropped, time, probeVars>>

Accept(c) ==
    /\ server = "serving" /\ c \notin open \cup dropped
    /\ open' = open \cup {c}
    /\ UNCHANGED <<server, started, cleanup, signal, dropped, time, probeVars>>

Respond(c) ==
    /\ server \in {"serving", "draining"} /\ c \in open
    /\ open' = open \ {c}
    /\ UNCHANGED <<server, started, cleanup, signal, dropped, time, probeVars>>

Signal ==
    /\ ~signal /\ server \notin {"stopped", "failed"}
    /\ signal' = TRUE
    /\ UNCHANGED <<server, started, cleanup, open, dropped, time, probeVars>>

\* graceful_shutdown_trigger: the shutdown task is spawned, nobody waits for it.
GracefulShutdownTrigger ==
    /\ server = "serving" /\ signal
    /\ server' = "draining"
    /\ cleanup' = [state |-> "running", done |-> 0]
    /\ UNCHANGED <<started, signal, open, dropped, time, probeVars>>

\* on_shutdown: the first hook that fails keeps the later ones from running.
ShutdownHook ==
    /\ cleanup.state = "running"
    /\ IF cleanup.done = HookCount THEN cleanup' = [cleanup EXCEPT !.state = "done"]
       ELSE \/ cleanup' = [cleanup EXCEPT !.done = @ + 1]
            \/ cleanup' = [cleanup EXCEPT !.state = "failed"]
    /\ UNCHANGED <<server, started, signal, open, dropped, time, probeVars>>

\* Leaving serve_with_lifecycle ends the runtime, and with it the open
\* connections and a shutdown task that is still running.
Leave ==
    /\ server' = "stopped"
    /\ dropped' = dropped \cup open /\ open' = {}
    /\ cleanup' = IF cleanup.state = "running" THEN [cleanup EXCEPT !.state = "cut"] ELSE cleanup
    /\ UNCHANGED <<started, signal, time, probeVars>>

Drained ==
    /\ server = "draining" /\ open = {}
    /\ Leave

\* Broken variant: the timeout ends when the drain begins.
ElapsedBeforeDrain ==
    /\ server = "serving"
    /\ Grace # NoGrace /\ time >= Grace
    /\ Leave

\* The timeout covers the whole serve future, not only the drain.
GraceElapsed ==
    /\ server \in {"serving", "draining"}
    /\ Grace # NoGrace /\ time >= Grace
    /\ Leave

Tick ==
    /\ server \in {"serving", "draining"} /\ time < MaxTime
    /\ time' = time + 1
    /\ UNCHANGED <<server, started, cleanup, signal, open, dropped, probeVars>>

-------------------------------------------------------------------------------
\* /readyz

\* A dependency fails or comes back.
Dependency ==
    /\ \E d \in 1..CheckCount : up' = IF d \in up THEN up \ {d} ELSE up \cup {d}
    /\ probe' = IF probe.state = "asking" THEN [probe EXCEPT !.seen = @ \cup up'] ELSE probe
    /\ UNCHANGED serverVars

\* Without a check the answer is 503 at once.
Readyz ==
    /\ server = "serving" /\ probe.state = "idle"
    /\ probe' = [state |-> IF CheckCount = 0 THEN "unavailable" ELSE "asking", asked |-> 0, seen |-> up]
    /\ UNCHANGED <<serverVars, up>>

\* CompositeReadinessCheck: one check after the other, failing fast.
Check ==
    /\ probe.state = "asking"
    /\ IF probe.asked + 1 \notin up THEN probe' = [probe EXCEPT !.state = "unavailable"]
       ELSE probe' = [probe EXCEPT !.asked = @ + 1,
                        !.state = IF probe.asked + 1 = CheckCount THEN "ready" ELSE "asking"]
    /\ UNCHANGED <<serverVars, up>>

Answered ==
    /\ probe.state \in {"ready", "unavailable"}
    /\ probe' = [state |-> "idle", asked |-> 0, seen |-> {}]
    /\ UNCHANGED <<serverVars, up>>

Next ==
    \/ Bind \/ StartHook \/ StartServing \/ Signal \/ GracefulShutdownTrigger \/ ShutdownHook
    \/ \E c \in Conn : Accept(c) \/ Respond(c)
    \/ Drained \/ GraceElapsed \/ Tick
    \/ Dependency \/ Readyz \/ Check \/ Answered

\* Hooks return, the signal handler is woken, timers fire, and a drain that is
\* complete is noticed.  Requests need not end.
Progress == Bind \/ StartHook \/ StartServing \/ GracefulShutdownTrigger \/ Drained \/ GraceElapsed

Spec == Init /\ [][Next]_vars

-------------------------------------------------------------------------------
\* Properties.

\* Nothing is served before every startup hook succeeded; shutdown hooks run
\* after a signal and only of a service that started; and a connection is cut
\* only at the end of the grace period: a drain never drops a request it could
\* wait for (serve.rs, lifecycle.rs).
DrainDropsNothing ==
    /\ (open # {} \/ dropped # {}) => started = HookCount
    /\ cleanup.state # "none" => signal /\ started = HookCount
    /\ dropped # {} => Grace # NoGrace /\ time >= Grace

\* A /readyz that says ready found every dependency up at some time between the
\* request and the answer, although they fail and return while the checks run
\* one after the other (health.rs CompositeReadinessCheck).
ReadyWasReady == probe.state = "ready" => probe.seen = 1..CheckCount

\* The grace period is "the longest wait for the connections to drain" after
\* SIGTERM or Ctrl+C (TECH-21 section 6): a server does not stop without a signal
\* (serve.rs serve_with_lifecycle).
ServesUntilSignal == server = "stopped" => signal

-------------------------------------------------------------------------------
(* The inductive invariant. *)

TypeOK ==
    /\ server \in {"unbound", "starting", "serving", "draining", "stopped", "failed"}
    /\ started \in Nat /\ signal \in BOOLEAN
    /\ cleanup \in [state : {"none", "running", "done", "failed", "cut"}, done : Nat]
    /\ time \in Nat
    /\ up \subseteq 1..CheckCount
    /\ probe \in [state : {"idle", "asking", "ready", "unavailable"}, asked : Nat, seen : SUBSET (1..CheckCount)]

\* Requests are open only while the server runs, it runs only when every hook
\* succeeded, and a drain has the signal that began it.
RunsAsStarted ==
    /\ server \in {"serving", "draining", "stopped"} => started = HookCount
    /\ server \in {"unbound", "starting", "failed"} => open = {} /\ dropped = {} /\ cleanup.state = "none"
    /\ server = "serving" => dropped = {} /\ cleanup.state = "none"
    /\ server = "draining" => dropped = {}
    /\ server = "stopped" => open = {}

\* A check that passed saw its dependency up, and the checks that passed are the
\* first of the list.
ChecksSawTheirDependency ==
    /\ probe.state = "asking" => /\ 1..probe.asked \subseteq probe.seen
                                 /\ probe.asked < CheckCount /\ up \subseteq probe.seen
    /\ ReadyWasReady

IInv == TypeOK /\ RunsAsStarted /\ DrainDropsNothing /\ ChecksSawTheirDependency

===============================================================================
