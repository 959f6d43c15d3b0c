------------------------------ MODULE GuardChain ------------------------------
(***************************************************************************)
(* The guard chain (sdkwork-web-chain): CallChain with the IP access stage, *)
(* the concurrency stage and one stage of the application after them, each  *)
(* switched by the policy of the run, and the ConcurrentAdmissionStore      *)
(* whose counters the concurrency stage leases.                             *)
(* Every store call is an await, so the calls of different requests         *)
(* interleave scope by scope.  The gateway that calls the chain is not in   *)
(* the repository: it calls before once and then after or on_error, possibly*)
(* both, possibly again; its PolicyResolver merges the layers it has stored.*)
(***************************************************************************)
EXTENDS Integers, Sequences, FiniteSets, ChainPolicy

CONSTANTS
    Request,        \* runs of the chain
    Scopes,         \* the scopes of the concurrency stage, in order
    ApiKey,         \* api_key_id of a request
    Client,         \* client addresses, None if the gateway knows none
    Defaults,       \* the built-in policy layer
    GlobalLayer,    \* the global layers an operator configures
    KeyLayer,       \* the layers of an API key, None if it has none
    StoreFailures,  \* TRUE: store calls fail or lose their reply
    HookFailures    \* TRUE: the application stage's after hook may fail

ASSUME ChainAssumption ==
    /\ Scopes \in Seq({"global", "apiKey"})
    /\ None \in KeyLayer
    /\ {StoreFailures, HookFailures} \subseteq BOOLEAN
ASSUME RequestAssumption == IsFiniteSet(Request)
ASSUME ApiKeyAssumption == "global:concurrent" \notin ApiKey    \* api-key:{id}:concurrent
ASSUME ClientAssumption == \A c \in Client \ {None} : c = [family |-> c.family, host |-> c.host]

VARIABLES
    count,  \* the store: the counter of each scope key
    run     \* each run of the chain

\* History variables: nothing in the code reads them.
VARIABLES
    leaked,    \* units of each counter that no run will release
    overdrawn  \* units of each counter that were released without being acquired

vars == <<count, run, leaked, overdrawn>>

Key == ApiKey \cup {"global:concurrent"}

\* The effective policies there are.
Policies == {MergeChainPolicies(Defaults, g, k) : g \in GlobalLayer, k \in KeyLayer}

\* Limits are unsigned; an entry of a list is an address, a block or neither.
ASSUME PolicyAssumption ==
    \A p \in Policies :
        /\ p.concurrency # None =>
              \A scope \in {"global", "apiKey"} : LimitFor(p.concurrency, scope) \in Nat \cup {None}
        /\ p.ip_access # None =>
              \A entry \in p.ip_access.denylist \cup p.ip_access.allowlist :
                  entry.form \in {"exact", "cidr", "invalid"}

\* acquired: the keys before has pushed so far; leases: the ConcurrencyLeaseState
\* in the context; releasing: the keys release_keys has yet to release;
\* context: before returned Ok, so the gateway has a context to call hooks with;
\* permitted (history): what the IP policy of the run means for its client;
\* hookFailed (history): the last after did not reach the concurrency stage.
Run == [phase : {"acquire", "custom", "running", "release", "ended", "dropped"},
        policy : Policies, apiKey : ApiKey \cup {None}, next : Nat,
        acquired : Seq(Key), leases : Seq(Key), releasing : Seq(Key),
        context : BOOLEAN, permitted : BOOLEAN, hookFailed : BOOLEAN]

ASSUME NoneAssumption == None \notin Nat /\ None \notin Run

TypeOK ==
    /\ count \in [Key -> Nat]
    /\ run \in [Request -> Run \cup {None}]
    /\ leaked \in [Key -> Nat] /\ overdrawn \in [Key -> Nat]

Init ==
    /\ count = [k \in Key |-> 0]
    /\ run = [r \in Request |-> None]
    /\ leaked = [k \in Key |-> 0] /\ overdrawn = [k \in Key |-> 0]

In(r, phase) == run[r] # None /\ run[r].phase = phase

-------------------------------------------------------------------------------
(* The store. *)

\* Broken variant: one more than the limit is let in.
CanAcquireOneMore(k, limit) == count[k] <= limit

CanAcquire(k, limit) == count[k] < limit
Acquired(k) == [count EXCEPT ![k] = @ + 1]
Lowered(k) == [count EXCEPT ![k] = IF @ > 0 THEN @ - 1 ELSE 0]

-------------------------------------------------------------------------------
(* before *)

PassesIpStage(policy, client) ==
    \/ ~IsEnabled(policy, "ip_access")
    \/ policy.ip_access = None
    \/ Evaluate(client, policy.ip_access)

\* A stage that is switched off, or has no policy to enforce, is passed.
FirstPhase(policy, client) ==
    IF ~PassesIpStage(policy, client) THEN "ended"
    ELSE IF IsEnabled(policy, "concurrency") /\ policy.concurrency # None THEN "acquire"
    ELSE "custom"

\* The policy is resolved once, and the IP stage goes first: a request it
\* refuses holds nothing.
Resolve(r, global, perKey, apiKey, client) ==
    LET policy == MergeChainPolicies(Defaults, global, perKey) IN
    /\ run[r] = None
    /\ apiKey = None => perKey = None
    /\ run' = [run EXCEPT ![r] =
          [phase |-> FirstPhase(policy, client), policy |-> policy, apiKey |-> apiKey, next |-> 1,
           acquired |-> <<>>, leases |-> <<>>, releasing |-> <<>>, context |-> FALSE,
           permitted |-> policy.ip_access = None \/ Permits(policy.ip_access, client),
           hookFailed |-> FALSE]]
    /\ UNCHANGED <<count, leaked, overdrawn>>

ScopeKey(scope, apiKey) == IF scope = "global" THEN "global:concurrent" ELSE apiKey

\* The scope, key and limit the loop of before has reached.
Scope(r) == Scopes[run[r].next]
CurrentKey(r) == ScopeKey(Scope(r), run[r].apiKey)
Limit(r) == LimitFor(run[r].policy.concurrency, Scope(r))

InLoop(r) == In(r, "acquire") /\ run[r].next <= Len(Scopes)
Checked(r) == InLoop(r) /\ Limit(r) # None /\ CurrentKey(r) # None

Pushed(r) == [run EXCEPT ![r].next = @ + 1, ![r].acquired = Append(@, CurrentKey(r))]
Skipped(r) == [run EXCEPT ![r].next = @ + 1]

\* No limit for the scope, or no key.
SkipScope(r) ==
    /\ InLoop(r)
    /\ Limit(r) = None \/ CurrentKey(r) = None
    /\ run' = Skipped(r)
    /\ UNCHANGED <<count, leaked, overdrawn>>

AcquireScope(r) ==
    /\ Checked(r)
    /\ Limit(r) > 0 /\ CanAcquire(CurrentKey(r), Limit(r))
    /\ count' = Acquired(CurrentKey(r))
    /\ run' = Pushed(r)
    /\ UNCHANGED <<leaked, overdrawn>>

\* A limit of 0 is admitted without counting, and its key is pushed all the same.
AdmitUnlimited(r) ==
    /\ Checked(r)
    /\ Limit(r) = 0
    /\ run' = Pushed(r)
    /\ UNCHANGED <<count, leaked, overdrawn>>

\* A store error bypasses the scope; the counter may have been raised.
BypassScope(r) ==
    /\ StoreFailures
    /\ Checked(r) /\ Limit(r) > 0
    /\ run' = Skipped(r)
    /\ \/ UNCHANGED <<count, leaked>>
       \/ /\ CanAcquire(CurrentKey(r), Limit(r))
          /\ count' = Acquired(CurrentKey(r))
          /\ leaked' = [leaked EXCEPT ![CurrentKey(r)] = @ + 1]
    /\ UNCHANGED overdrawn

\* Broken variant: a rejection keeps the keys acquired before it.
RejectScopeKeeps(r) ==
    /\ Checked(r)
    /\ Limit(r) > 0 /\ ~CanAcquire(CurrentKey(r), Limit(r))
    /\ run' = [run EXCEPT ![r].phase = "ended", ![r].acquired = <<>>]
    /\ UNCHANGED <<count, leaked, overdrawn>>

\* The limit rejects the request: release_keys(&acquired).
RejectScope(r) ==
    /\ Checked(r)
    /\ Limit(r) > 0 /\ ~CanAcquire(CurrentKey(r), Limit(r))
    /\ run' = [run EXCEPT ![r].phase = "release", ![r].acquired = <<>>,
                          ![r].releasing = run[r].acquired]
    /\ UNCHANGED <<count, leaked, overdrawn>>

\* The concurrency stage passes: insert_state.
InsertLeases(r) ==
    /\ In(r, "acquire")
    /\ run[r].next > Len(Scopes)
    /\ run' = [run EXCEPT ![r].phase = "custom", ![r].acquired = <<>>, ![r].leases = run[r].acquired]
    /\ UNCHANGED <<count, leaked, overdrawn>>

-------------------------------------------------------------------------------
(* Release: the concurrency stage's after and on_error. *)

\* Broken variant: get_state instead of take_state.
TakenTwice(r) ==
    [run EXCEPT ![r].phase = "release", ![r].releasing = run[r].leases, ![r].hookFailed = FALSE]

\* take_state and release_keys; a disabled stage is skipped and holds nothing.
Taken(r) ==
    [run EXCEPT ![r].phase = "release", ![r].leases = <<>>, ![r].releasing = run[r].leases,
                ![r].hookFailed = FALSE]

LimitOf(r, k) ==
    LimitFor(run[r].policy.concurrency, IF k = "global:concurrent" THEN "global" ELSE "apiKey")

\* The last key is released first; a failure is only logged.
ReleaseKey(r) ==
    LET keys == run[r].releasing
        k == keys[Len(keys)]
        counted == LimitOf(r, k) > 0 IN
    /\ In(r, "release")
    /\ keys # <<>>
    /\ \/ /\ count' = Lowered(k)
          /\ overdrawn' = [overdrawn EXCEPT ![k] =
                              @ + (count[k] - count'[k]) - (IF counted THEN 1 ELSE 0)]
          /\ UNCHANGED leaked
       \/ /\ StoreFailures
          /\ leaked' = [leaked EXCEPT ![k] = IF counted THEN @ + 1 ELSE @]
          /\ UNCHANGED <<count, overdrawn>>
    /\ run' = [run EXCEPT ![r].releasing = SubSeq(keys, 1, Len(keys) - 1)]

Released(r) ==
    /\ In(r, "release")
    /\ run[r].releasing = <<>>
    /\ run' = [run EXCEPT ![r].phase = "ended"]
    /\ UNCHANGED <<count, leaked, overdrawn>>

-------------------------------------------------------------------------------
(* The application's stage, and the calls of the gateway. *)

CustomPasses(r) ==
    /\ In(r, "custom")
    /\ run' = [run EXCEPT ![r].phase = "running", ![r].context = TRUE]
    /\ UNCHANGED <<count, leaked, overdrawn>>

\* release_after on a rejection, run_on_error on a failure.
CustomRefuses(r) ==
    /\ In(r, "custom")
    /\ IsEnabled(run[r].policy, "custom")
    /\ run' = Taken(r)
    /\ UNCHANGED <<count, leaked, overdrawn>>

HasContext(r) == (In(r, "running") \/ In(r, "ended")) /\ run[r].context

\* CallChain::after: the application's stage goes first, and its error returns
\* before the concurrency stage is reached.
After(r) ==
    /\ HasContext(r)
    /\ \/ run' = Taken(r)
       \/ /\ HookFailures /\ IsEnabled(run[r].policy, "custom")
          /\ run' = [run EXCEPT ![r].phase = "ended", ![r].hookFailed = TRUE]
    /\ UNCHANGED <<count, leaked, overdrawn>>

\* CallChain::on_error swallows the errors of its hooks.
OnError(r) ==
    /\ HasContext(r)
    /\ run' = Taken(r)
    /\ UNCHANGED <<count, leaked, overdrawn>>

\* The request is dropped at an await: no hook runs.  If it was a try_acquire
\* whose script still raises the counter, BypassScope and this are the same.
Drop(r) ==
    /\ run[r] # None
    /\ run[r].phase \in {"acquire", "custom", "running", "release"}
    /\ run' = [run EXCEPT ![r].phase = "dropped"]
    /\ UNCHANGED <<count, leaked, overdrawn>>

Next ==
    \E r \in Request :
        \/ \E global \in GlobalLayer, perKey \in KeyLayer, apiKey \in ApiKey \cup {None}, client \in Client :
              Resolve(r, global, perKey, apiKey, client)
        \/ SkipScope(r) \/ AcquireScope(r) \/ AdmitUnlimited(r) \/ BypassScope(r)
        \/ RejectScope(r) \/ InsertLeases(r)
        \/ ReleaseKey(r) \/ Released(r)
        \/ CustomPasses(r) \/ CustomRefuses(r)
        \/ After(r) \/ OnError(r) \/ Drop(r)

Spec == Init /\ [][Next]_vars

-------------------------------------------------------------------------------
\* The keys a run has pushed and not released yet.
Keys(s) == {s[i] : i \in DOMAIN s}
Holds(r, k) ==
    run[r] # None /\ k \in Keys(run[r].acquired) \cup Keys(run[r].leases) \cup Keys(run[r].releasing)

At(keys, i, k) == i \in DOMAIN keys /\ keys[i] = k

\* The i-th key of one of the run's lists is k: before pushed it, in this or an
\* earlier phase, and it is not released yet.
Lease(r, i, k) ==
    /\ run[r] # None
    /\ At(run[r].acquired, i, k) \/ At(run[r].leases, i, k) \/ At(run[r].releasing, i, k)

\* The leases of a key that were acquired under a limit, as run and position.
Limited(k) ==
    {l \in Request \X (1..Len(Scopes)) : Lease(l[1], l[2], k) /\ LimitOf(l[1], k) > 0}

\* Every counter is the number of leases of its key held under a limit, plus
\* what lost replies and failed releases left in it, less what releases of a key
\* admitted under limit 0 took from it: however before, after, on_error and drops
\* interleave, the chain releases exactly what it acquired otherwise
\* (concurrency.rs ConcurrencyLeaseState).
LeaseAccounting ==
    \A k \in Key : count[k] + overdrawn[k] = Cardinality(Limited(k)) + leaked[k]

\* Unless a key admitted under limit 0 was released, the leases of a key held
\* under a limit are no more than the largest of their limits, whatever store
\* calls and hooks fail (concurrency.rs, "limits the number of in-flight requests
\* per scope").
InFlightBound ==
    \A k \in Key :
        (Limited(k) # {} /\ overdrawn[k] = 0)
            => \E l \in Limited(k) : Cardinality(Limited(k)) <= LimitOf(l[1], k)

\* A run that ended, rejected, failed or released by after or on_error, holds
\* no lease, except after an error of a later stage's after hook
\* (concurrency.rs, "so the chain never leaks a slot").
EndedHoldsNothing ==
    \A r \in Request : In(r, "ended") => run[r].hookFailed \/ \A k \in Key : ~Holds(r, k)

\* A run whose policy has the IP stage on got past it only if the policy permits
\* the host of its client, whether the address reached the chain as IPv4 or as
\* IPv4-mapped IPv6 and whichever layer the lists came from (ip_access.rs, entries
\* "written in IPv4 cannot be bypassed (or falsely denied) via dual-stack connections").
AdmittedClientsArePermitted ==
    \A r \in Request :
        (run[r] # None /\ (run[r].phase # "ended" \/ run[r].context)
                       /\ IsEnabled(run[r].policy, "ip_access")) => run[r].permitted

-------------------------------------------------------------------------------
(* The inductive invariant behind these properties. *)

\* Each phase keeps its keys in one list, at positions the loop has passed.
ListsMatchPhase(run_r) ==
    LET n == Len(Scopes) IN
    /\ run_r.next \in 1..(n + 1) /\ Len(run_r.acquired) < run_r.next
    /\ Len(run_r.leases) <= n /\ Len(run_r.releasing) <= n
    /\ run_r.phase = "acquire" => run_r.leases = <<>> /\ run_r.releasing = <<>>
    /\ run_r.phase \in {"custom", "running"} => run_r.acquired = <<>> /\ run_r.releasing = <<>>
    /\ run_r.phase = "release" => run_r.acquired = <<>> /\ run_r.leases = <<>>
    /\ run_r.phase = "ended" =>
          run_r.acquired = <<>> /\ run_r.releasing = <<>> /\ (run_r.hookFailed \/ run_r.leases = <<>>)

\* Only a run with a concurrency policy acquires, and only what it limits.
LeasesHaveLimits(r) ==
    /\ run[r].phase = "acquire" => run[r].policy.concurrency # None
    /\ \A i \in 1..Len(Scopes), k \in Key : Lease(r, i, k) => LimitOf(r, k) \in Nat

RunsAreSound ==
    \A r \in Request : run[r] # None => ListsMatchPhase(run[r]) /\ LeasesHaveLimits(r)

\* Among any leases of a counter that was never overdrawn, one was admitted
\* under a limit that has room for all of them: the one acquired last.
LimitsHaveRoom ==
    \A k \in Key : overdrawn[k] = 0 =>
        \A T \in (SUBSET Limited(k)) \ {{}} : \E l \in T : Cardinality(T) <= LimitOf(l[1], k)

IInv == TypeOK /\ RunsAreSound /\ LeaseAccounting /\ LimitsHaveRoom

===============================================================================
