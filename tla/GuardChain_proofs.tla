--------------------------- MODULE GuardChain_proofs ---------------------------
(* Theorems about GuardChain, for every finite set of requests, every list of *)
(* scopes, every set of policies and clients, and whatever fails.             *)
EXTENDS GuardChain, FiniteSetTheorems, SequenceTheorems, TLAPS

-------------------------------------------------------------------------------
(* The IP access stage. *)

\* An entry that names the host of a client matches it, however the two are
\* written, except an IPv6 block over IPv4-mapped addresses (ip_access.rs
\* ip_matches_entry).
LEMMA CoveredMatches ==
    ASSUME NEW ip \in Client \ {None}, NEW entry, entry.form \in {"exact", "cidr", "invalid"},
           Covers(entry, ip), ~(entry.form = "cidr" /\ entry.family = "mapped")
    PROVE  IpMatchesEntry(ip, entry)
<1> DEFINE client == CanonicalIp(ip)
<1>1. /\ client.family = IF ip.family = "mapped" THEN "v4" ELSE ip.family
      /\ client.host = ip.host
      /\ client = [family |-> client.family, host |-> client.host]
    BY ClientAssumption DEF CanonicalIp
<1>2. CASE entry.form = "cidr"
    <2>1. client.family = entry.family /\ client.host \in entry.hosts
        BY <1>1, <1>2 DEF Covers, SameNetwork
    <2> QED BY <1>2, <2>1 DEF IpMatchesEntry
<1>3. CASE entry.form = "exact"
    <2>1. CanonicalIp([family |-> entry.family, host |-> ip.host]) = client /\ ip.host \in entry.hosts
        BY <1>1, <1>3 DEF Covers, SameNetwork, CanonicalIp
    <2> QED BY <1>3, <2>1 DEF IpMatchesEntry
<1> QED BY <1>2, <1>3 DEF Covers

\* An entry that matches a client names its host.
LEMMA MatchedIsCovered ==
    ASSUME NEW ip \in Client \ {None}, NEW entry, entry.form \in {"exact", "cidr", "invalid"},
           IpMatchesEntry(ip, entry)
    PROVE  Covers(entry, ip)
<1> DEFINE client == CanonicalIp(ip)
<1>1. /\ client.family = IF ip.family = "mapped" THEN "v4" ELSE ip.family
      /\ client.host = ip.host
    BY ClientAssumption DEF CanonicalIp
<1>2. CASE entry.form = "cidr"
    BY <1>1, <1>2 DEF IpMatchesEntry, Covers, SameNetwork
<1>3. CASE entry.form = "exact"
    <2>1. PICK h \in entry.hosts : CanonicalIp([family |-> entry.family, host |-> h]) = client
        BY <1>3 DEF IpMatchesEntry
    <2>2. /\ client.family = IF entry.family = "mapped" THEN "v4" ELSE entry.family
          /\ client.host = h
        BY <2>1 DEF CanonicalIp
    <2> QED BY <1>1, <1>3, <2>2 DEF Covers, SameNetwork
<1> QED BY <1>2, <1>3 DEF IpMatchesEntry

\* A client that evaluate lets pass is one the policy permits.
LEMMA EvaluateIsSound ==
    ASSUME NEW ip \in Client, NEW access, Evaluate(ip, access),
           \A entry \in access.denylist \cup access.allowlist : entry.form \in {"exact", "cidr", "invalid"}
    PROVE  Permits(access, ip)
<1>1. \A entry \in access.denylist :
          Covers(entry, ip) => entry.form = "cidr" /\ entry.family = "mapped"
    BY CoveredMatches DEF Evaluate, Listed, Covers
<1>2. ASSUME access.mode = "AllowlistOnly" /\ access.allowlist # {}
      PROVE  \E entry \in access.allowlist : Covers(entry, ip)
    BY <1>2, MatchedIsCovered DEF Evaluate, Listed
<1> QED BY <1>1, <1>2 DEF Permits

\* Every step of a run keeps its policy and what the IP stage said of it; only
\* a run with a context leaves the phase "ended".
LEMMA StepFrame ==
    ASSUME TypeOK, NEW r \in Request, run[r] # None,
           \/ SkipScope(r) \/ AcquireScope(r) \/ AdmitUnlimited(r) \/ BypassScope(r)
           \/ RejectScope(r) \/ InsertLeases(r) \/ ReleaseKey(r) \/ Released(r)
           \/ CustomPasses(r) \/ CustomRefuses(r) \/ After(r) \/ OnError(r) \/ Drop(r)
    PROVE  /\ run' = [run EXCEPT ![r] = run'[r]]
           /\ run'[r].policy = run[r].policy /\ run'[r].permitted = run[r].permitted
           /\ run'[r].apiKey = run[r].apiKey
           /\ run[r].phase # "ended" \/ run[r].context
<1> USE DEF TypeOK, Run
<1>1. CASE SkipScope(r) \/ BypassScope(r)
    BY <1>1 DEF SkipScope, BypassScope, Skipped, In, InLoop, Checked
<1>2. CASE AcquireScope(r) \/ AdmitUnlimited(r)
    BY <1>2 DEF AcquireScope, AdmitUnlimited, Pushed, In, InLoop, Checked
<1>3. CASE RejectScope(r)
    BY <1>3 DEF RejectScope, In, InLoop, Checked
<1>4. CASE InsertLeases(r)
    BY <1>4 DEF InsertLeases, In
<1>5. CASE ReleaseKey(r)
    BY <1>5 DEF ReleaseKey, In
<1>6. CASE Released(r) \/ CustomPasses(r) \/ Drop(r)
    BY <1>6 DEF Released, CustomPasses, Drop, In
<1>7. CASE CustomRefuses(r)
    BY <1>7 DEF CustomRefuses, Taken, In
<1>8. CASE OnError(r)
    BY <1>8 DEF OnError, Taken, In, HasContext
<1>9. CASE After(r)
    BY <1>9 DEF After, Taken, In, HasContext
<1> QED BY <1>1, <1>2, <1>3, <1>4, <1>5, <1>6, <1>7, <1>8, <1>9

-------------------------------------------------------------------------------
(* Lists of keys. *)

\* Pushing a key adds its position.
LEMMA AtAppend ==
    ASSUME NEW keys \in Seq(Key), NEW e \in Key, NEW i \in Nat, NEW k \in Key
    PROVE  At(Append(keys, e), i, k) <=> At(keys, i, k) \/ (i = Len(keys) + 1 /\ k = e)
BY DEF At

\* Releasing the last key removes its position.
LEMMA AtFront ==
    ASSUME NEW keys \in Seq(Key), keys # <<>>, NEW i \in Nat, NEW k \in Key
    PROVE  /\ SubSeq(keys, 1, Len(keys) - 1) \in Seq(Key)
           /\ Len(SubSeq(keys, 1, Len(keys) - 1)) = Len(keys) - 1
           /\ keys[Len(keys)] \in Key
           /\ At(SubSeq(keys, 1, Len(keys) - 1), i, k) <=> At(keys, i, k) /\ i # Len(keys)
<1> DEFINE front == SubSeq(keys, 1, Len(keys) - 1)
<1>1. Len(keys) \in Nat /\ Len(keys) > 0 /\ DOMAIN keys = 1..Len(keys) /\ \A j \in 1..Len(keys) : keys[j] \in Key
    OBVIOUS
<1>2. \A j \in 1..(Len(keys) - 1) : keys[j] \in Key
    BY <1>1
<1>3. /\ front \in Seq(Key)
      /\ Len(front) = IF 1 <= Len(keys) - 1 THEN (Len(keys) - 1) - 1 + 1 ELSE 0
      /\ \A j \in 1..((Len(keys) - 1) - 1 + 1) : front[j] = keys[1 + j - 1]
    BY <1>1, <1>2, SubSeqProperties
<1>4. Len(front) = Len(keys) - 1 /\ DOMAIN front = 1..(Len(keys) - 1)
      /\ \A j \in 1..(Len(keys) - 1) : front[j] = keys[j]
    BY <1>1, <1>3
<1>5. keys[Len(keys)] \in Key
    BY <1>1
<1>6. At(front, i, k) <=> At(keys, i, k) /\ i # Len(keys)
    <2> HIDE DEF front
    <2>1. i \in DOMAIN front <=> i \in DOMAIN keys /\ i # Len(keys)
        <3>1. \A n, j \in Nat : j \in 1..(n - 1) <=> (j \in 1..n /\ j # n)
            OBVIOUS
        <3> QED BY <1>1, <1>4, <3>1, Zenon
    <2>2. i \in DOMAIN front => front[i] = keys[i]
        BY <1>4
    <2> QED BY <2>1, <2>2 DEF At
<1> QED BY <1>3, <1>4, <1>5, <1>6

\* An empty list holds nothing.
LEMMA AtEmpty == \A i, k : ~At(<<>>, i, k)
BY DEF At

\* A position in a list is at most its length.
LEMMA AtBound ==
    ASSUME NEW keys \in Seq(Key), NEW i, NEW k, At(keys, i, k)
    PROVE  i \in 1..Len(keys) /\ k \in Key
BY DEF At

-------------------------------------------------------------------------------
(* The leases of a key. *)

\* The leases of a key are finitely many.
LEMMA LimitedFinite ==
    ASSUME NEW k PROVE IsFiniteSet(Limited(k)) /\ Cardinality(Limited(k)) \in Nat
<1>1. Len(Scopes) \in Nat
    BY ChainAssumption
<1>2. IsFiniteSet(1..Len(Scopes))
    BY <1>1, FS_Interval
<1>3. IsFiniteSet(Request \X (1..Len(Scopes)))
    BY <1>2, RequestAssumption, FS_Product
<1>4. Limited(k) \subseteq Request \X (1..Len(Scopes))
    BY DEF Limited
<1> QED BY <1>3, <1>4, FS_Subset, FS_CardinalityType

\* A step of one run that keeps its policy changes neither the leases of the
\* others nor any limit.
LEMMA LeaseFrame ==
    ASSUME TypeOK, NEW r \in Request, run[r] # None, run'[r] \in Run,
           run' = [run EXCEPT ![r] = run'[r]], run'[r].policy = run[r].policy
    PROVE  /\ \A q \in Request \ {r} : run'[q] = run[q]
           /\ \A q \in Request \ {r} : \A i, k : Lease(q, i, k)' <=> Lease(q, i, k)
           /\ \A q \in Request : \A k : run[q] # None => LimitOf(q, k)' = LimitOf(q, k)
           /\ run'[r] # None
BY NoneAssumption DEF TypeOK, Lease, LimitOf


\* A step that leaves a run's own leases alone leaves every key's leases alone.
LEMMA LimitedSame ==
    ASSUME TypeOK, NEW r \in Request, run[r] # None, run'[r] \in Run,
           run' = [run EXCEPT ![r] = run'[r]], run'[r].policy = run[r].policy,
           \A i \in 1..Len(Scopes), k \in Key : Lease(r, i, k)' <=> Lease(r, i, k)
    PROVE  \A k \in Key : Limited(k)' = Limited(k)
<1> SUFFICES ASSUME NEW k \in Key, NEW q \in Request, NEW i \in 1..Len(Scopes)
             PROVE  Lease(q, i, k)' /\ LimitOf(q, k)' > 0 <=> Lease(q, i, k) /\ LimitOf(q, k) > 0
    BY DEF Limited
<1>1. CASE run[q] = None
    BY <1>1, LeaseFrame DEF Lease
<1> QED BY <1>1, LeaseFrame

\* The runs stay sound if the run that steps does.
LEMMA SoundStep ==
    ASSUME TypeOK, RunsAreSound, NEW r \in Request, run[r] # None, run'[r] \in Run,
           run' = [run EXCEPT ![r] = run'[r]], run'[r].policy = run[r].policy,
           ListsMatchPhase(run'[r]),
           run'[r].phase = "acquire" => run[r].phase = "acquire",
           \A i \in 1..Len(Scopes), k \in Key : Lease(r, i, k)' => Lease(r, i, k) \/ LimitOf(r, k) \in Nat
    PROVE  RunsAreSound'
<1> SUFFICES ASSUME NEW q \in Request, run'[q] # None
             PROVE  ListsMatchPhase(run'[q]) /\ LeasesHaveLimits(q)'
    BY DEF RunsAreSound, ListsMatchPhase
<1>1. CASE q = r
    BY <1>1, LeaseFrame DEF RunsAreSound, LeasesHaveLimits
<1>2. CASE q # r
    BY <1>2, LeaseFrame DEF RunsAreSound, LeasesHaveLimits
<1> QED BY <1>1, <1>2

\* Fewer leases of a counter that is not overdrawn still fit their limits.
LEMMA RoomStep ==
    ASSUME TypeOK, LimitsHaveRoom, NEW r \in Request, run[r] # None, run'[r] \in Run,
           run' = [run EXCEPT ![r] = run'[r]], run'[r].policy = run[r].policy,
           \A k \in Key : overdrawn'[k] = 0 =>
              Limited(k)' = {} \/ (overdrawn[k] = 0 /\ Limited(k)' \subseteq Limited(k))
    PROVE  LimitsHaveRoom'
<1> SUFFICES ASSUME NEW k \in Key, overdrawn'[k] = 0, NEW T, T \subseteq Limited(k)', T # {}
             PROVE  \E l \in T : Cardinality(T) <= LimitOf(l[1], k)'
    BY DEF LimitsHaveRoom
<1>1. overdrawn[k] = 0 /\ T \subseteq Limited(k)
    OBVIOUS
<1>2. PICK l \in T : Cardinality(T) <= LimitOf(l[1], k)
    BY <1>1 DEF LimitsHaveRoom
<1>3. l[1] \in Request /\ run[l[1]] # None
    BY <1>1, <1>2 DEF Limited, Lease
<1>4. LimitOf(l[1], k)' = LimitOf(l[1], k)
    BY <1>3, LeaseFrame
<1> QED BY <1>2, <1>4

\* A step that moves a run's keys from one list to another, or leaves them.
LEMMA MoveStep ==
    ASSUME IInv, NEW r \in Request, run[r] # None, run'[r] \in Run,
           run' = [run EXCEPT ![r] = run'[r]], run'[r].policy = run[r].policy,
           ListsMatchPhase(run'[r]),
           run'[r].phase = "acquire" => run[r].phase = "acquire",
           \A i \in 1..Len(Scopes), k \in Key : Lease(r, i, k)' <=> Lease(r, i, k),
           UNCHANGED <<count, leaked, overdrawn>>
    PROVE  IInv'
<1>1. TypeOK'
    BY DEF IInv, TypeOK
<1>2. RunsAreSound'
    BY SoundStep DEF IInv
<1>3. LeaseAccounting'
    BY LimitedSame DEF IInv, LeaseAccounting
<1>4. LimitsHaveRoom'
    BY LimitedSame, RoomStep DEF IInv
<1> QED BY <1>1, <1>2, <1>3, <1>4 DEF IInv


-------------------------------------------------------------------------------
(* The steps. *)

\* The initial states satisfy the invariant.
LEMMA InvInit == Init => IInv
<1> SUFFICES ASSUME Init PROVE IInv
    OBVIOUS
<1>1. \A k \in Key : Limited(k) = {}
    BY DEF Init, Limited, Lease
<1>2. TypeOK /\ RunsAreSound
    BY DEF Init, TypeOK, RunsAreSound
<1>3. LeaseAccounting
    <2>1. \A k \in Key : Cardinality(Limited(k)) = 0
        BY <1>1, FS_EmptySet
    <2> QED BY <2>1 DEF LeaseAccounting, Init
<1>4. LimitsHaveRoom
    BY <1>1 DEF LimitsHaveRoom
<1> QED BY <1>2, <1>3, <1>4 DEF IInv

\* A run of the chain starts with a policy and nothing held.
LEMMA ResolveStep ==
    ASSUME IInv, NEW r \in Request, NEW global \in GlobalLayer, NEW perKey \in KeyLayer,
           NEW apiKey \in ApiKey \cup {None}, NEW client \in Client,
           Resolve(r, global, perKey, apiKey, client)
    PROVE  IInv'
<1> DEFINE policy == MergeChainPolicies(Defaults, global, perKey)
           new == run'[r]
<1> USE DEF IInv
<1>0. policy \in Policies
    BY DEF Policies
<1>1. /\ new.phase \in {"ended", "acquire", "custom"} /\ new.next = 1
      /\ new.acquired = <<>> /\ new.leases = <<>> /\ new.releasing = <<>>
      /\ new.phase = "acquire" => new.policy.concurrency # None
      /\ run[r] = None
      /\ \A q \in Request \ {r} : run'[q] = run[q]
    BY DEF Resolve, FirstPhase, TypeOK
<1>2. new \in Run
    <2>1. /\ FirstPhase(policy, client) \in {"ended", "acquire", "custom"}
          /\ (policy.ip_access = None \/ Permits(policy.ip_access, client)) \in BOOLEAN
        BY DEF FirstPhase, Permits
    <2> HIDE DEF policy
    <2> QED BY <1>0, <2>1 DEF Resolve, TypeOK, Run, policy
<1>3. TypeOK'
    BY <1>1, <1>2 DEF TypeOK, Resolve
<1>4. \A q \in Request : \A i, k : Lease(q, i, k)' <=> Lease(q, i, k)
    BY <1>1, AtEmpty DEF Lease
<1>5. \A q \in Request \ {r} : \A k : LimitOf(q, k)' = LimitOf(q, k)
    BY <1>1 DEF LimitOf
<1>6. \A k \in Key : Limited(k)' = Limited(k)
    <2> SUFFICES ASSUME NEW k \in Key, NEW q \in Request, NEW i \in 1..Len(Scopes)
                 PROVE  Lease(q, i, k)' /\ LimitOf(q, k)' > 0 <=> Lease(q, i, k) /\ LimitOf(q, k) > 0
        BY DEF Limited
    <2>1. CASE q = r
        BY <1>1, <1>4, <2>1 DEF Lease
    <2> QED BY <1>4, <1>5, <2>1
<1>7. RunsAreSound'
    <2> SUFFICES ASSUME NEW q \in Request, run'[q] # None
                 PROVE  ListsMatchPhase(run'[q]) /\ LeasesHaveLimits(q)'
        BY DEF RunsAreSound, ListsMatchPhase
    <2>1. CASE q = r
        <3>1. ListsMatchPhase(new)
            BY <1>1, ChainAssumption DEF ListsMatchPhase
        <3>2. LeasesHaveLimits(r)'
            BY <1>1, AtEmpty DEF LeasesHaveLimits, Lease
        <3> QED BY <2>1, <3>1, <3>2
    <2>2. CASE q # r
        BY <1>1, <1>4, <1>5, <2>2 DEF RunsAreSound, LeasesHaveLimits
    <2> QED BY <2>1, <2>2
<1>8. LeaseAccounting'
    BY <1>6 DEF LeaseAccounting, Resolve
<1>9. LimitsHaveRoom'
    <2> SUFFICES ASSUME NEW k \in Key, overdrawn[k] = 0, NEW T, T \subseteq Limited(k), T # {}
                 PROVE  \E l \in T : Cardinality(T) <= LimitOf(l[1], k)'
        BY <1>6 DEF LimitsHaveRoom, Resolve
    <2>1. PICK l \in T : Cardinality(T) <= LimitOf(l[1], k)
        BY DEF LimitsHaveRoom
    <2>2. l[1] \in Request \ {r}
        BY <1>1, <2>1 DEF Limited, Lease
    <2> QED BY <1>5, <2>1, <2>2
<1> QED BY <1>3, <1>7, <1>8, <1>9


\* What is known of a run, field by field.
LEMMA RunFields ==
    ASSUME IInv, NEW r \in Request, run[r] # None
    PROVE  /\ run[r] \in Run
           /\ run[r].policy \in Policies /\ run[r].apiKey \in ApiKey \cup {None} /\ run[r].next \in Nat
           /\ run[r].acquired \in Seq(Key) /\ run[r].leases \in Seq(Key) /\ run[r].releasing \in Seq(Key)
           /\ ListsMatchPhase(run[r]) /\ LeasesHaveLimits(r)
           /\ Len(Scopes) \in Nat
BY ChainAssumption DEF IInv, TypeOK, Run, RunsAreSound

\* Passing over a scope.
LEMMA SkipStep ==
    ASSUME IInv, NEW r \in Request, InLoop(r), run' = Skipped(r)
    PROVE  /\ run' = [run EXCEPT ![r] = run'[r]] /\ run'[r] \in Run
           /\ run'[r].policy = run[r].policy /\ run'[r].phase = run[r].phase
           /\ ListsMatchPhase(run'[r])
           /\ \A i \in 1..Len(Scopes), k \in Key : Lease(r, i, k)' <=> Lease(r, i, k)
<1> USE DEF InLoop, In, Skipped
<1>1. /\ run[r] # None /\ run[r].next <= Len(Scopes)
      /\ run' = [run EXCEPT ![r] = run'[r]]
      /\ run'[r] = [run[r] EXCEPT !.next = @ + 1]
    BY DEF IInv, TypeOK
<1>2. run'[r] \in Run
    BY <1>1, RunFields DEF Run
<1>3. /\ run'[r].next = run[r].next + 1
      /\ run'[r].policy = run[r].policy /\ run'[r].phase = run[r].phase
      /\ run'[r].acquired = run[r].acquired /\ run'[r].leases = run[r].leases
      /\ run'[r].releasing = run[r].releasing /\ run'[r].hookFailed = run[r].hookFailed
    BY <1>1, RunFields DEF Run
<1>4. ListsMatchPhase(run'[r])
    BY <1>1, <1>3, RunFields DEF ListsMatchPhase
<1>5. run'[r] # None
    BY <1>2, NoneAssumption
<1> QED BY <1>1, <1>2, <1>3, <1>4, <1>5 DEF Lease

\* The key the loop has reached is one the run's policy limits.
LEMMA CheckedKey ==
    ASSUME IInv, NEW r \in Request, Checked(r)
    PROVE  CurrentKey(r) \in Key /\ Limit(r) \in Nat /\ LimitOf(r, CurrentKey(r)) = Limit(r)
<1> USE DEF Checked, InLoop, In
<1>1. run[r].next \in 1..Len(Scopes) /\ run[r].policy.concurrency # None
    BY RunFields DEF ListsMatchPhase, LeasesHaveLimits
<1>2. Scope(r) \in {"global", "apiKey"}
    BY <1>1, ChainAssumption DEF Scope
<1>3. Limit(r) \in Nat
    <2>1. LimitFor(run[r].policy.concurrency, Scope(r)) \in Nat \cup {None}
        BY <1>1, <1>2, RunFields, PolicyAssumption
    <2> QED BY <2>1 DEF Limit
<1>4. CASE Scope(r) = "global"
    BY <1>3, <1>4 DEF CurrentKey, ScopeKey, Key, LimitOf, Limit
<1>5. CASE Scope(r) = "apiKey"
    <2>1. CurrentKey(r) = run[r].apiKey /\ CurrentKey(r) \in ApiKey
        BY <1>5, RunFields DEF CurrentKey, ScopeKey
    <2> QED BY <1>3, <1>5, <2>1, ApiKeyAssumption DEF Key, LimitOf, Limit
<1> QED BY <1>2, <1>4, <1>5

\* Pushing a key gives the run one lease more, of that key.
LEMMA PushStep ==
    ASSUME IInv, NEW r \in Request, Checked(r), run' = Pushed(r)
    PROVE  LET n == Len(run[r].acquired) + 1 IN
           /\ run' = [run EXCEPT ![r] = run'[r]] /\ run'[r] \in Run
           /\ run'[r].policy = run[r].policy /\ run'[r].phase = run[r].phase
           /\ ListsMatchPhase(run'[r])
           /\ n \in 1..Len(Scopes)
           /\ \A k \in Key : ~Lease(r, n, k)
           /\ \A i \in 1..Len(Scopes), k \in Key :
                 Lease(r, i, k)' <=> Lease(r, i, k) \/ (i = n /\ k = CurrentKey(r))
<1> DEFINE n == Len(run[r].acquired) + 1
<1>0. CurrentKey(r) \in Key
    BY CheckedKey
<1>1. /\ run[r] # None /\ run[r].next <= Len(Scopes)
      /\ run' = [run EXCEPT ![r] = run'[r]]
      /\ run'[r] = [run[r] EXCEPT !.next = @ + 1, !.acquired = Append(@, CurrentKey(r))]
      /\ run[r] \in Run /\ run[r].phase = "acquire"
    BY DEF IInv, TypeOK, Checked, InLoop, In, Pushed
<1>2. Append(run[r].acquired, CurrentKey(r)) \in Seq(Key) /\ run[r].next + 1 \in Nat
    BY <1>0, <1>1, RunFields
<1>3. /\ run'[r].next = run[r].next + 1
      /\ run'[r].policy = run[r].policy /\ run'[r].phase = run[r].phase
      /\ run'[r].acquired = Append(run[r].acquired, CurrentKey(r))
      /\ run'[r].leases = run[r].leases /\ run'[r].releasing = run[r].releasing
      /\ run'[r] \in Run
    BY <1>1, <1>2 DEF Run
<1>4. /\ Len(run[r].acquired) < run[r].next /\ Len(run[r].acquired) \in Nat
      /\ Len(run'[r].acquired) = Len(run[r].acquired) + 1
      /\ run[r].leases = <<>> /\ run[r].releasing = <<>>
    BY <1>0, <1>1, <1>3, RunFields DEF ListsMatchPhase
<1>5. ListsMatchPhase(run'[r])
    BY <1>1, <1>3, <1>4, RunFields DEF ListsMatchPhase
<1>6. n \in 1..Len(Scopes)
    BY <1>1, <1>4, RunFields
<1>7. \A k \in Key : ~Lease(r, n, k)
    BY <1>4, RunFields, AtBound, AtEmpty DEF Lease
<1>8. \A i \in 1..Len(Scopes), k \in Key :
          Lease(r, i, k)' <=> Lease(r, i, k) \/ (i = n /\ k = CurrentKey(r))
    <2> SUFFICES ASSUME NEW i \in 1..Len(Scopes), NEW k \in Key
                 PROVE  Lease(r, i, k)' <=> Lease(r, i, k) \/ (i = n /\ k = CurrentKey(r))
        OBVIOUS
    <2>1. run'[r] # None
        BY <1>3, NoneAssumption
    <2>2. i \in Nat /\ run[r].acquired \in Seq(Key)
        BY <1>1, RunFields
    <2>3. At(run'[r].acquired, i, k) <=> At(run[r].acquired, i, k) \/ (i = n /\ k = CurrentKey(r))
        BY <1>0, <1>3, <2>2, AtAppend
    <2> QED BY <1>1, <1>3, <2>1, <2>3 DEF Lease
<1> QED BY <1>1, <1>3, <1>5, <1>6, <1>7, <1>8


\* A slot taken under a limit is counted once, and there was room for it.
LEMMA AcquireStep ==
    ASSUME IInv, NEW r \in Request, AcquireScope(r)
    PROVE  IInv'
<1>1. /\ Checked(r) /\ run' = Pushed(r) /\ run[r] # None
      /\ Limit(r) > 0 /\ count[CurrentKey(r)] < Limit(r)
      /\ count' = [count EXCEPT ![CurrentKey(r)] = @ + 1]
      /\ UNCHANGED <<leaked, overdrawn>>
    BY DEF AcquireScope, CanAcquire, Acquired, Checked, InLoop, In
<1>2. PICK c \in Key : c = CurrentKey(r) /\ Limit(r) \in Nat /\ LimitOf(r, c) = Limit(r)
    BY <1>1, CheckedKey
<1>a. PICK n \in 1..Len(Scopes) :
        /\ run' = [run EXCEPT ![r] = run'[r]] /\ run'[r] \in Run
        /\ run'[r].policy = run[r].policy /\ run'[r].phase = run[r].phase
        /\ ListsMatchPhase(run'[r])
        /\ \A k \in Key : ~Lease(r, n, k)
        /\ \A i \in 1..Len(Scopes), k \in Key : Lease(r, i, k)' <=> Lease(r, i, k) \/ (i = n /\ k = c)
    BY <1>1, <1>2, PushStep
<1> DEFINE new == <<r, n>>
<1>3. TypeOK'
    <2>1. count' \in [Key -> Nat]
        BY <1>1, <1>2 DEF IInv, TypeOK
    <2>2. run' \in [Request -> Run \cup {None}]
        BY <1>a DEF IInv, TypeOK
    <2> QED BY <1>1, <2>1, <2>2 DEF IInv, TypeOK
<1>4. RunsAreSound'
    BY <1>1, <1>2, <1>a, SoundStep DEF IInv
<1>5. /\ \A q \in Request : \A k : run[q] # None => LimitOf(q, k)' = LimitOf(q, k)
      /\ \A q \in Request \ {r} : \A i, k : Lease(q, i, k)' <=> Lease(q, i, k)
    BY <1>1, <1>a, LeaseFrame DEF IInv
<1>6. ASSUME NEW k \in Key \ {c} PROVE Limited(k)' = Limited(k)
    <2> SUFFICES ASSUME NEW q \in Request, NEW i \in 1..Len(Scopes)
                 PROVE  Lease(q, i, k)' /\ LimitOf(q, k)' > 0 <=> Lease(q, i, k) /\ LimitOf(q, k) > 0
        BY DEF Limited
    <2>1. Lease(q, i, k)' <=> Lease(q, i, k)
        BY <1>5, <1>6, <1>a
    <2>2. run[q] # None => LimitOf(q, k)' = LimitOf(q, k)
        BY <1>5
    <2> QED BY <2>1, <2>2 DEF Lease
<1>7. Limited(c)' = Limited(c) \cup {new} /\ new \notin Limited(c)
    <2>1. new \in Request \X (1..Len(Scopes)) /\ new \notin Limited(c)
        BY <1>a DEF Limited
    <2>2. ASSUME NEW q \in Request, NEW i \in 1..Len(Scopes)
          PROVE  Lease(q, i, c)' /\ LimitOf(q, c)' > 0 <=>
                    (Lease(q, i, c) /\ LimitOf(q, c) > 0) \/ <<q, i>> = new
        <3>1. Lease(q, i, c)' <=> Lease(q, i, c) \/ <<q, i>> = new
            BY <1>5, <1>a
        <3>2. run[q] # None => LimitOf(q, c)' = LimitOf(q, c)
            BY <1>5
        <3> QED BY <1>1, <1>2, <3>1, <3>2 DEF Lease
    <2> QED BY <2>1, <2>2 DEF Limited
<1>8. /\ Cardinality(Limited(c)') = Cardinality(Limited(c)) + 1
      /\ Cardinality(Limited(c)) \in Nat
    BY <1>7, LimitedFinite, FS_AddElement
<1>9. LeaseAccounting'
    <2> SUFFICES ASSUME NEW k \in Key
                 PROVE  count'[k] + overdrawn[k] = Cardinality(Limited(k)') + leaked[k]
        BY <1>1 DEF LeaseAccounting
    <2>0. /\ count[k] \in Nat /\ overdrawn[k] \in Nat /\ leaked[k] \in Nat
          /\ count[k] + overdrawn[k] = Cardinality(Limited(k)) + leaked[k]
        BY DEF IInv, LeaseAccounting, TypeOK
    <2>1. CASE k = c
        <3>1. count'[k] = count[k] + 1
            BY <1>1, <1>2, <2>1 DEF IInv, TypeOK
        <3>2. Cardinality(Limited(k)') = Cardinality(Limited(k)) + 1 /\ Cardinality(Limited(k)) \in Nat
            BY <1>8, <2>1
        <3>3. Cardinality(Limited(k)') + leaked[k] = (Cardinality(Limited(k)) + 1) + leaked[k]
            BY <3>2
        <3>4. count'[k] + overdrawn[k] = (count[k] + 1) + overdrawn[k]
            BY <3>1
        <3>a. PICK w \in Nat, x \in Nat, y \in Nat, z \in Nat :
                w = count[k] /\ x = overdrawn[k] /\ y = Cardinality(Limited(k)) /\ z = leaked[k]
            BY <2>0, <3>2
        <3>b. w + x = y + z
            BY <2>0, <3>a
        <3>c. (w + 1) + x = (y + 1) + z
            BY <3>b
        <3>5. (count[k] + 1) + overdrawn[k] = (Cardinality(Limited(k)) + 1) + leaked[k]
            BY <3>a, <3>c
        <3> QED BY <3>3, <3>4, <3>5
    <2>2. CASE k # c
        <3>1. count'[k] = count[k]
            BY <1>1, <1>2, <2>2 DEF IInv, TypeOK
        <3> QED BY <1>6, <2>0, <2>2, <3>1
    <2> QED BY <2>1, <2>2
<1>10. LimitsHaveRoom'
    <2> SUFFICES ASSUME NEW k \in Key, overdrawn[k] = 0, NEW T, T \subseteq Limited(k)', T # {}
                 PROVE  \E l \in T : Cardinality(T) <= LimitOf(l[1], k)'
        BY <1>1 DEF LimitsHaveRoom
    <2>1. CASE T \subseteq Limited(k)
        <3>1. PICK l \in T : Cardinality(T) <= LimitOf(l[1], k)
            BY <2>1 DEF IInv, LimitsHaveRoom
        <3>2. l[1] \in Request /\ run[l[1]] # None
            BY <2>1, <3>1 DEF Limited, Lease
        <3> QED BY <1>5, <3>1, <3>2
    <2>2. CASE k = c /\ new \in T
        <3>1. IsFiniteSet(Limited(c)')
            BY <1>7, LimitedFinite, FS_AddElement
        <3>2. Cardinality(T) <= Cardinality(Limited(c)') /\ Cardinality(T) \in Nat
            BY <2>2, <3>1, FS_Subset, FS_CardinalityType
        <3>3. Cardinality(Limited(c)) <= count[c] /\ count[c] \in Nat
            BY <1>2, <1>8, <2>2 DEF IInv, LeaseAccounting, TypeOK
        <3>4. Cardinality(T) <= Limit(r)
            BY <1>1, <1>2, <1>8, <3>2, <3>3
        <3>5. LimitOf(new[1], c)' = Limit(r)
            BY <1>1, <1>2, <1>5
        <3> QED BY <2>2, <3>4, <3>5
    <2> QED BY <1>6, <1>7, <2>1, <2>2
<1> QED BY <1>3, <1>4, <1>9, <1>10 DEF IInv

\* A key admitted under limit 0 is pushed and counts nowhere.
LEMMA AdmitUnlimitedStep ==
    ASSUME IInv, NEW r \in Request, AdmitUnlimited(r)
    PROVE  IInv'
<1>1. /\ Checked(r) /\ run' = Pushed(r) /\ run[r] # None /\ Limit(r) = 0
      /\ UNCHANGED <<count, leaked, overdrawn>>
    BY DEF AdmitUnlimited, Checked, InLoop, In
<1>2. PICK c \in Key : c = CurrentKey(r) /\ LimitOf(r, c) = 0
    BY <1>1, CheckedKey
<1>a. /\ run' = [run EXCEPT ![r] = run'[r]] /\ run'[r] \in Run
      /\ run'[r].policy = run[r].policy /\ run'[r].phase = run[r].phase
      /\ ListsMatchPhase(run'[r])
      /\ \A i \in 1..Len(Scopes), k \in Key : (Lease(r, i, k)' <=> Lease(r, i, k)) \/ k = c
    BY <1>1, <1>2, PushStep
<1>3. TypeOK'
    BY <1>1, <1>a DEF IInv, TypeOK
<1>4. RunsAreSound'
    BY <1>1, <1>2, <1>a, SoundStep DEF IInv
<1>5. /\ \A q \in Request : \A k : run[q] # None => LimitOf(q, k)' = LimitOf(q, k)
      /\ \A q \in Request \ {r} : \A i, k : Lease(q, i, k)' <=> Lease(q, i, k)
    BY <1>1, <1>a, LeaseFrame DEF IInv
<1>6. \A k \in Key : Limited(k)' = Limited(k)
    <2> SUFFICES ASSUME NEW k \in Key, NEW q \in Request, NEW i \in 1..Len(Scopes)
                 PROVE  Lease(q, i, k)' /\ LimitOf(q, k)' > 0 <=> Lease(q, i, k) /\ LimitOf(q, k) > 0
        BY DEF Limited
    <2>1. (Lease(q, i, k)' <=> Lease(q, i, k)) \/ (q = r /\ k = c)
        BY <1>5, <1>a
    <2>2. run[q] # None => LimitOf(q, k)' = LimitOf(q, k)
        BY <1>5
    <2> QED BY <1>1, <1>2, <2>1, <2>2 DEF Lease
<1>7. LeaseAccounting'
    BY <1>1, <1>6 DEF IInv, LeaseAccounting
<1>8. LimitsHaveRoom'
    BY <1>1, <1>6, <1>a, RoomStep DEF IInv
<1> QED BY <1>3, <1>4, <1>7, <1>8 DEF IInv

\* A scope passed over after a store error keeps no lease; a raise whose reply
\* was lost is leaked.
LEMMA BypassStep ==
    ASSUME IInv, NEW r \in Request, BypassScope(r)
    PROVE  IInv'
<1>1. InLoop(r) /\ run' = Skipped(r) /\ run[r] # None /\ UNCHANGED overdrawn /\ CurrentKey(r) \in Key
    BY CheckedKey DEF BypassScope, Checked, InLoop, In
<1>2. CASE UNCHANGED <<count, leaked>>
    BY <1>1, <1>2, SkipStep, MoveStep
<1>3. CASE /\ count' = [count EXCEPT ![CurrentKey(r)] = @ + 1]
           /\ leaked' = [leaked EXCEPT ![CurrentKey(r)] = @ + 1]
    <2>1. TypeOK'
        <3>1. count \in [Key -> Nat] /\ leaked \in [Key -> Nat]
            BY DEF IInv, TypeOK
        <3>2. count' \in [Key -> Nat] /\ leaked' \in [Key -> Nat]
            BY <1>1, <1>3, <3>1
        <3>3. run' \in [Request -> Run \cup {None}]
            BY <1>1, SkipStep DEF IInv, TypeOK
        <3> QED BY <1>1, <3>2, <3>3 DEF IInv, TypeOK
    <2>2. RunsAreSound'
        BY <1>1, SkipStep, SoundStep DEF IInv
    <2>3. \A k \in Key : Limited(k)' = Limited(k)
        BY <1>1, SkipStep, LimitedSame DEF IInv
    <2>4. LeaseAccounting'
        <3> SUFFICES ASSUME NEW k \in Key
                     PROVE  count'[k] + overdrawn[k] = Cardinality(Limited(k)) + leaked'[k]
            BY <1>1, <2>3 DEF LeaseAccounting
        <3>1. Cardinality(Limited(k)) \in Nat
            BY LimitedFinite
        <3> QED BY <1>3, <3>1 DEF IInv, LeaseAccounting, TypeOK
    <2>5. LimitsHaveRoom'
        BY <1>1, <2>3, SkipStep, RoomStep DEF IInv
    <2> QED BY <2>1, <2>2, <2>4, <2>5 DEF IInv
<1> QED BY <1>2, <1>3 DEF BypassScope, Acquired


\* Releasing the last key takes that lease, and no other, from the run.
LEMMA ReleaseLists ==
    ASSUME IInv, NEW r \in Request, In(r, "release"), run[r].releasing # <<>>,
           run' = [run EXCEPT ![r].releasing = SubSeq(run[r].releasing, 1, Len(run[r].releasing) - 1)]
    PROVE  LET n == Len(run[r].releasing)
               c == run[r].releasing[n] IN
           /\ run' = [run EXCEPT ![r] = run'[r]] /\ run'[r] \in Run
           /\ run'[r].policy = run[r].policy /\ run'[r].phase = run[r].phase
           /\ ListsMatchPhase(run'[r])
           /\ c \in Key /\ n \in 1..Len(Scopes) /\ LimitOf(r, c) \in Nat
           /\ \A k \in Key : Lease(r, n, k) <=> k = c
           /\ \A i \in 1..Len(Scopes), k \in Key : Lease(r, i, k)' <=> (Lease(r, i, k) /\ i # n)
<1> DEFINE keys == run[r].releasing
           n == Len(keys)
           c == keys[n]
           front == SubSeq(keys, 1, Len(keys) - 1)
<1>1. /\ run[r] # None /\ run[r].phase = "release" /\ run[r] \in Run
      /\ run' = [run EXCEPT ![r] = run'[r]]
      /\ run'[r] = [run[r] EXCEPT !.releasing = front]
    BY DEF IInv, TypeOK, In
<1>2. /\ keys \in Seq(Key) /\ run[r].acquired = <<>> /\ run[r].leases = <<>>
      /\ Len(keys) <= Len(Scopes) /\ Len(Scopes) \in Nat /\ ListsMatchPhase(run[r])
    BY <1>1, RunFields DEF ListsMatchPhase
<1>3. Len(keys) \in Nat /\ Len(keys) > 0
    BY <1>2
<1>4. /\ front \in Seq(Key) /\ Len(front) = Len(keys) - 1 /\ c \in Key
      /\ \A i \in Nat, k \in Key : At(front, i, k) <=> (At(keys, i, k) /\ i # n)
    <2> HIDE DEF front
    <2> QED BY <1>2, AtFront DEF front, Key
<1> HIDE DEF front
<1>5. /\ run'[r].next = run[r].next
      /\ run'[r].policy = run[r].policy /\ run'[r].phase = run[r].phase
      /\ run'[r].acquired = run[r].acquired /\ run'[r].leases = run[r].leases
      /\ run'[r].releasing = front
    BY <1>1 DEF Run
<1>a. run'[r] \in Run /\ run'[r] # None
    <2>1. [run[r] EXCEPT !.releasing = front] \in Run
        BY <1>1, <1>4 DEF Run
    <2> QED BY <1>1, <2>1, NoneAssumption
<1>6. ListsMatchPhase(run'[r])
    BY <1>1, <1>2, <1>3, <1>4, <1>5 DEF ListsMatchPhase
<1>7. n \in 1..Len(Scopes)
    BY <1>2, <1>3
<1>8. \A k \in Key : Lease(r, n, k) <=> k = c
    BY <1>1, <1>2, <1>3, AtEmpty DEF Lease, At
<1>9. \A i \in 1..Len(Scopes), k \in Key : Lease(r, i, k)' <=> (Lease(r, i, k) /\ i # n)
    <2> SUFFICES ASSUME NEW i \in 1..Len(Scopes), NEW k \in Key
                 PROVE  Lease(r, i, k)' <=> (Lease(r, i, k) /\ i # n)
        OBVIOUS
    <2>1. At(front, i, k) <=> (At(keys, i, k) /\ i # n)
        BY <1>4
    <2>2. Lease(r, i, k) <=> At(keys, i, k)
        BY <1>1, <1>2, AtEmpty DEF Lease
    <2>3. Lease(r, i, k)' <=> At(front, i, k)
        BY <1>2, <1>5, <1>a, AtEmpty DEF Lease
    <2> QED BY <2>1, <2>2, <2>3
<1>10. LimitOf(r, c) \in Nat
    BY <1>1, <1>4, <1>7, <1>8, RunFields DEF LeasesHaveLimits
<1> QED BY <1>1, <1>4, <1>5, <1>a, <1>6, <1>7, <1>8, <1>9, <1>10


\* A released lease lowers its counter, or is leaked; a release of a key that
\* was not counted overdraws it.
LEMMA ReleaseKeyStep ==
    ASSUME IInv, NEW r \in Request, ReleaseKey(r)
    PROVE  IInv'
<1>1. PICK c, n :
        /\ c = run[r].releasing[Len(run[r].releasing)] /\ n = Len(run[r].releasing)
        /\ In(r, "release") /\ run[r].releasing # <<>>
        /\ run' = [run EXCEPT ![r].releasing = SubSeq(run[r].releasing, 1, Len(run[r].releasing) - 1)]
        /\ \/ /\ count' = [count EXCEPT ![c] = IF @ > 0 THEN @ - 1 ELSE 0]
              /\ overdrawn' = [overdrawn EXCEPT ![c] =
                                  @ + (count[c] - count'[c]) - (IF LimitOf(r, c) > 0 THEN 1 ELSE 0)]
              /\ UNCHANGED leaked
           \/ /\ leaked' = [leaked EXCEPT ![c] = IF LimitOf(r, c) > 0 THEN @ + 1 ELSE @]
              /\ UNCHANGED <<count, overdrawn>>
    BY DEF ReleaseKey, Lowered
<1>0. run[r] # None
    BY <1>1 DEF In
<1>2. /\ run' = [run EXCEPT ![r] = run'[r]] /\ run'[r] \in Run
      /\ run'[r].policy = run[r].policy /\ run'[r].phase = run[r].phase
      /\ ListsMatchPhase(run'[r])
      /\ c \in Key /\ n \in 1..Len(Scopes) /\ LimitOf(r, c) \in Nat
      /\ \A k \in Key : Lease(r, n, k) <=> k = c
      /\ \A i \in 1..Len(Scopes), k \in Key : Lease(r, i, k)' <=> (Lease(r, i, k) /\ i # n)
    <2>1. /\ In(r, "release") /\ run[r].releasing # <<>>
          /\ c = run[r].releasing[Len(run[r].releasing)] /\ n = Len(run[r].releasing)
          /\ run' = [run EXCEPT ![r].releasing = SubSeq(run[r].releasing, 1, Len(run[r].releasing) - 1)]
        BY <1>1
    <2> QED BY <2>1, ReleaseLists
<1>3. RunsAreSound'
    BY <1>0, <1>2, SoundStep DEF IInv
<1>4. /\ \A q \in Request : \A k : run[q] # None => LimitOf(q, k)' = LimitOf(q, k)
      /\ \A q \in Request \ {r} : \A i, k : Lease(q, i, k)' <=> Lease(q, i, k)
    BY <1>0, <1>2, LeaseFrame DEF IInv
<1>5. ASSUME NEW k \in Key
      PROVE  Limited(k)' = IF k = c THEN Limited(k) \ {<<r, n>>} ELSE Limited(k)
    <2>1. ASSUME NEW q \in Request, NEW i \in 1..Len(Scopes)
          PROVE  Lease(q, i, k)' /\ LimitOf(q, k)' > 0 <=>
                    (Lease(q, i, k) /\ LimitOf(q, k) > 0 /\ (k = c => <<q, i>> # <<r, n>>))
        <3>1. Lease(q, i, k)' <=> (Lease(q, i, k) /\ (k = c => <<q, i>> # <<r, n>>))
            BY <1>2, <1>4
        <3>2. run[q] # None => LimitOf(q, k)' = LimitOf(q, k)
            BY <1>4
        <3> QED BY <3>1, <3>2 DEF Lease
    <2> QED BY <2>1 DEF Limited
<1> DEFINE unit == IF LimitOf(r, c) > 0 THEN 1 ELSE 0
<1>6. ASSUME NEW k \in Key
      PROVE  /\ Cardinality(Limited(k)) \in Nat /\ Cardinality(Limited(k)') \in Nat
             /\ Cardinality(Limited(k)') = Cardinality(Limited(k)) - (IF k = c THEN unit ELSE 0)
             /\ Cardinality(Limited(k)') = 0 => Limited(k)' = {}
    <2>1. <<r, n>> \in Limited(k) <=> (k = c /\ LimitOf(r, c) > 0)
        BY <1>2 DEF Limited
    <2>2. IsFiniteSet(Limited(k)) /\ IsFiniteSet(Limited(k)')
        <3>1. IsFiniteSet(Limited(k)) /\ IsFiniteSet(Limited(k) \ {<<r, n>>})
            BY LimitedFinite, FS_RemoveElement
        <3> QED BY <1>5, <3>1
    <2>3. Cardinality(Limited(k)) \in Nat /\ Cardinality(Limited(k)') \in Nat
          /\ (Cardinality(Limited(k)') = 0 => Limited(k)' = {})
        <3>1. \A S : IsFiniteSet(S) => Cardinality(S) \in Nat /\ (Cardinality(S) = 0 => S = {})
            BY FS_CardinalityType, FS_EmptySet
        <3> QED BY <2>2, <3>1
    <2>4. Cardinality(Limited(k)') = Cardinality(Limited(k)) - (IF k = c THEN unit ELSE 0)
        <3>1. CASE k = c
            <4>1. /\ <<r, n>> \in Limited(k) => Cardinality(Limited(k) \ {<<r, n>>}) = Cardinality(Limited(k)) - 1
                  /\ <<r, n>> \notin Limited(k) => Cardinality(Limited(k) \ {<<r, n>>}) = Cardinality(Limited(k))
                BY <2>2, FS_RemoveElement
            <4>2. Cardinality(Limited(k)') = Cardinality(Limited(k) \ {<<r, n>>})
                BY <1>5, <3>1
            <4>3. CASE LimitOf(r, c) > 0
                BY <2>1, <2>3, <3>1, <4>1, <4>2, <4>3
            <4>4. CASE ~(LimitOf(r, c) > 0)
                BY <2>1, <2>3, <3>1, <4>1, <4>2, <4>4
            <4> QED BY <4>3, <4>4
        <3>2. CASE k # c
            BY <1>5, <2>3, <3>2
        <3> QED BY <3>1, <3>2
    <2> QED BY <2>3, <2>4
<1>7. unit \in {0, 1}
    OBVIOUS
<1> HIDE DEF unit
<1>8. ASSUME NEW k \in Key
      PROVE  /\ count[k] \in Nat /\ overdrawn[k] \in Nat /\ leaked[k] \in Nat
             /\ count[k] + overdrawn[k] = Cardinality(Limited(k)) + leaked[k]
    BY DEF IInv, TypeOK, LeaseAccounting
\* the counters of the other keys
<1>9. ASSUME NEW k \in Key \ {c}
      PROVE  count'[k] = count[k] /\ overdrawn'[k] = overdrawn[k] /\ leaked'[k] = leaked[k]
    BY <1>1, <1>2, <1>9 DEF IInv, TypeOK
\* the counters of the released key
<1>10. \/ /\ count'[c] = IF count[c] > 0 THEN count[c] - 1 ELSE 0
          /\ overdrawn'[c] = overdrawn[c] + (count[c] - count'[c]) - unit
          /\ leaked'[c] = leaked[c]
       \/ /\ leaked'[c] = leaked[c] + unit
          /\ count'[c] = count[c] /\ overdrawn'[c] = overdrawn[c]
    BY <1>1, <1>2 DEF IInv, TypeOK, unit
<1>11. /\ count'[c] \in Nat /\ overdrawn'[c] \in Nat /\ leaked'[c] \in Nat
       /\ count'[c] + overdrawn'[c] = Cardinality(Limited(c)') + leaked'[c]
       /\ overdrawn'[c] = 0 => Cardinality(Limited(c)') = 0 \/ overdrawn[c] = 0
    <2>1. /\ count[c] \in Nat /\ overdrawn[c] \in Nat /\ leaked[c] \in Nat
          /\ count[c] + overdrawn[c] = Cardinality(Limited(c)) + leaked[c]
        BY <1>2, <1>8
    <2>2. /\ Cardinality(Limited(c)) \in Nat /\ Cardinality(Limited(c)') \in Nat
          /\ Cardinality(Limited(c)') = Cardinality(Limited(c)) - unit
        BY <1>2, <1>6
    <2>3. ASSUME count'[c] = IF count[c] > 0 THEN count[c] - 1 ELSE 0,
                 overdrawn'[c] = overdrawn[c] + (count[c] - count'[c]) - unit,
                 leaked'[c] = leaked[c]
          PROVE  /\ count'[c] \in Nat /\ overdrawn'[c] \in Nat /\ leaked'[c] \in Nat
                 /\ count'[c] + overdrawn'[c] = Cardinality(Limited(c)') + leaked'[c]
                 /\ overdrawn'[c] = 0 => Cardinality(Limited(c)') = 0 \/ overdrawn[c] = 0
        <3> DEFINE m == Cardinality(Limited(c))
        <3>1. m \in Nat /\ m - unit \in Nat /\ count[c] + overdrawn[c] = m + leaked[c]
            BY <2>1, <2>2
        <3> HIDE DEF m
        <3>2. /\ count'[c] \in Nat /\ overdrawn'[c] \in Nat
              /\ count'[c] + overdrawn'[c] = (m - unit) + leaked[c]
              /\ overdrawn'[c] = 0 => m - unit = 0 \/ overdrawn[c] = 0
            <4>1. CASE count[c] > 0
                BY <1>7, <2>1, <2>3, <3>1, <4>1
            <4>2. CASE ~(count[c] > 0)
                <5>1. count[c] = 0 /\ count'[c] = 0 /\ overdrawn[c] = m + leaked[c]
                    BY <2>1, <2>3, <3>1, <4>2
                <5>2. overdrawn'[c] = (m - unit) + leaked[c]
                    BY <1>7, <2>1, <2>3, <3>1, <5>1
                <5> QED BY <2>1, <3>1, <5>1, <5>2
            <4> QED BY <4>1, <4>2
        <3>3. Cardinality(Limited(c)') = m - unit
            BY <2>2 DEF m
        <3> QED BY <2>1, <2>3, <3>2, <3>3
    <2>4. ASSUME leaked'[c] = leaked[c] + unit,
                 count'[c] = count[c], overdrawn'[c] = overdrawn[c]
          PROVE  /\ count'[c] \in Nat /\ overdrawn'[c] \in Nat /\ leaked'[c] \in Nat
                 /\ count'[c] + overdrawn'[c] = Cardinality(Limited(c)') + leaked'[c]
        BY <1>7, <2>1, <2>2, <2>4
    <2> QED BY <1>10, <2>3, <2>4
<1>12. TypeOK'
    <2>1. run' \in [Request -> Run \cup {None}]
        BY <1>2 DEF IInv, TypeOK
    <2>2. /\ count' \in [Key -> Nat] /\ overdrawn' \in [Key -> Nat] /\ leaked' \in [Key -> Nat]
        <3>1. count' = [k \in Key |-> count'[k]]
            BY <1>1 DEF IInv, TypeOK
        <3>2. overdrawn' = [k \in Key |-> overdrawn'[k]]
            BY <1>1 DEF IInv, TypeOK
        <3>3. leaked' = [k \in Key |-> leaked'[k]]
            BY <1>1 DEF IInv, TypeOK
        <3>4. \A k \in Key : count'[k] \in Nat /\ overdrawn'[k] \in Nat /\ leaked'[k] \in Nat
            BY <1>8, <1>9, <1>11
        <3> QED BY <3>1, <3>2, <3>3, <3>4
    <2> QED BY <2>1, <2>2 DEF TypeOK
<1>13. LeaseAccounting'
    <2> SUFFICES ASSUME NEW k \in Key
                 PROVE  count'[k] + overdrawn'[k] = Cardinality(Limited(k)') + leaked'[k]
        BY DEF LeaseAccounting
    <2>1. CASE k = c
        BY <1>11, <2>1
    <2>2. CASE k # c
        <3>1. Limited(k)' = Limited(k)
            BY <1>5, <2>2
        <3> QED BY <1>8, <1>9, <2>2, <3>1
    <2> QED BY <2>1, <2>2
<1>14. LimitsHaveRoom'
    <2>1. ASSUME NEW k \in Key, overdrawn'[k] = 0
          PROVE  Limited(k)' = {} \/ (overdrawn[k] = 0 /\ Limited(k)' \subseteq Limited(k))
        <3>1. Limited(k)' \subseteq Limited(k)
            BY <1>5
        <3>2. CASE k = c
            BY <1>6, <1>11, <2>1, <3>1, <3>2
        <3>3. CASE k # c
            BY <1>9, <2>1, <3>1, <3>3
        <3> QED BY <3>2, <3>3
    <2> QED BY <1>0, <1>2, <2>1, RoomStep DEF IInv
<1> QED BY <1>3, <1>12, <1>13, <1>14 DEF IInv


\* A step that changes the phase and may hand all the keys of a run from one
\* list to another.
LEMMA HandOver ==
    ASSUME IInv, NEW r \in Request, run[r] # None,
           NEW new \in Run, run' = [run EXCEPT ![r] = new],
           new.policy = run[r].policy, new.next = run[r].next,
           new.phase # "acquire",
           UNCHANGED <<count, leaked, overdrawn>>,
           ListsMatchPhase(new),
           \A keys : keys \in {new.acquired, new.leases, new.releasing} \ {<<>>}
                 <=> keys \in {run[r].acquired, run[r].leases, run[r].releasing} \ {<<>>}
    PROVE  IInv'
<1>1. run'[r] = new /\ run'[r] # None /\ run' = [run EXCEPT ![r] = run'[r]]
    BY NoneAssumption DEF IInv, TypeOK
<1>2. \A i \in 1..Len(Scopes), k \in Key : Lease(r, i, k)' <=> Lease(r, i, k)
    <2> SUFFICES ASSUME NEW i, NEW k PROVE Lease(r, i, k)' <=> Lease(r, i, k)
        OBVIOUS
    <2>1. ~At(<<>>, i, k)
        BY AtEmpty
    <2>2. Lease(r, i, k) <=>
             \E keys : keys \in {run[r].acquired, run[r].leases, run[r].releasing} \ {<<>>} /\ At(keys, i, k)
        BY <2>1 DEF Lease
    <2>3. Lease(r, i, k)' <=>
             \E keys : keys \in {new.acquired, new.leases, new.releasing} \ {<<>>} /\ At(keys, i, k)
        BY <1>1, <2>1 DEF Lease
    <2> QED BY <2>2, <2>3
<1> QED BY <1>1, <1>2, MoveStep

\* take_state: the leases in the context are the keys to release.
LEMMA TakenStep ==
    ASSUME IInv, NEW r \in Request, run[r] # None, run[r].phase \in {"custom", "running", "ended"},
           run' = Taken(r), UNCHANGED <<count, leaked, overdrawn>>
    PROVE  IInv'
<1> DEFINE new == [run[r] EXCEPT !.phase = "release", !.leases = <<>>, !.releasing = run[r].leases,
                                 !.hookFailed = FALSE]
<1>1. run[r] \in Run /\ run' = [run EXCEPT ![r] = new]
    BY RunFields DEF Taken, IInv, TypeOK
<1>2. new \in Run
    <2>1. run[r].leases \in Seq(Key) /\ <<>> \in Seq(Key)
        BY RunFields
    <2>2. [run[r] EXCEPT !.phase = "release", !.leases = <<>>, !.releasing = run[r].leases] \in Run
        BY <1>1, <2>1 DEF Run
    <2> QED BY <2>2 DEF Run
<1>3. /\ new.policy = run[r].policy /\ new.next = run[r].next /\ new.phase = "release"
      /\ new.acquired = run[r].acquired /\ new.leases = <<>> /\ new.releasing = run[r].leases
    BY <1>1 DEF Run
<1>4. ListsMatchPhase(run[r]) /\ run[r].acquired = <<>> /\ run[r].releasing = <<>> /\ Len(Scopes) \in Nat
    BY RunFields DEF ListsMatchPhase
<1> HIDE DEF new
<1>5. ListsMatchPhase(new)
    BY <1>3, <1>4 DEF ListsMatchPhase
<1> QED BY <1>1, <1>2, <1>3, <1>4, <1>5, HandOver

\* The steps that reach the end of before's loop, or release what it acquired.
LEMMA LoopEndStep ==
    ASSUME IInv, NEW r \in Request, RejectScope(r) \/ InsertLeases(r)
    PROVE  IInv'
<1>0. run[r] # None /\ run[r].phase = "acquire" /\ UNCHANGED <<count, leaked, overdrawn>>
    BY DEF RejectScope, InsertLeases, Checked, InLoop, In
<1>1. /\ ListsMatchPhase(run[r]) /\ run[r].leases = <<>> /\ run[r].releasing = <<>>
      /\ Len(Scopes) \in Nat /\ run[r].acquired \in Seq(Key) /\ run[r] \in Run
      /\ run[r].next \in 1..(Len(Scopes) + 1) /\ Len(run[r].acquired) < run[r].next
    BY <1>0, RunFields DEF ListsMatchPhase
<1>2. Len(run[r].acquired) <= Len(Scopes) /\ Len(<<>>) = 0
    BY <1>1
<1>3. CASE RejectScope(r)
    <2> DEFINE new == [run[r] EXCEPT !.phase = "release", !.acquired = <<>>, !.releasing = run[r].acquired]
    <2>1. run' = [run EXCEPT ![r] = new]
        BY <1>3 DEF RejectScope, IInv, TypeOK
    <2>2. new \in Run
        BY <1>1 DEF Run
    <2>3. /\ new.policy = run[r].policy /\ new.next = run[r].next /\ new.phase = "release"
          /\ new.acquired = <<>> /\ new.leases = run[r].leases /\ new.releasing = run[r].acquired
        BY <1>1 DEF Run
    <2> HIDE DEF new
    <2>4. ListsMatchPhase(new)
        BY <1>1, <1>2, <2>3 DEF ListsMatchPhase
    <2> QED BY <1>0, <1>1, <2>1, <2>2, <2>3, <2>4, HandOver
<1>4. CASE InsertLeases(r)
    <2> DEFINE new == [run[r] EXCEPT !.phase = "custom", !.acquired = <<>>, !.leases = run[r].acquired]
    <2>1. run' = [run EXCEPT ![r] = new]
        BY <1>4 DEF InsertLeases, IInv, TypeOK
    <2>2. new \in Run
        BY <1>1 DEF Run
    <2>3. /\ new.policy = run[r].policy /\ new.next = run[r].next /\ new.phase = "custom"
          /\ new.acquired = <<>> /\ new.releasing = run[r].releasing /\ new.leases = run[r].acquired
        BY <1>1 DEF Run
    <2> HIDE DEF new
    <2>4. ListsMatchPhase(new)
        BY <1>1, <1>2, <2>3 DEF ListsMatchPhase
    <2> QED BY <1>0, <1>1, <2>1, <2>2, <2>3, <2>4, HandOver
<1> QED BY <1>3, <1>4

\* The steps that only change the phase of a run.
LEMMA PhaseStep ==
    ASSUME IInv, NEW r \in Request, run[r] # None,
           NEW new \in Run, run' = [run EXCEPT ![r] = new], UNCHANGED <<count, leaked, overdrawn>>,
           new.policy = run[r].policy, new.next = run[r].next,
           new.acquired = run[r].acquired, new.leases = run[r].leases, new.releasing = run[r].releasing,
           \/ run[r].phase = "release" /\ run[r].releasing = <<>> /\ new.phase = "ended"
           \/ run[r].phase = "custom" /\ new.phase = "running"
           \/ run[r].phase \in {"running", "ended"} /\ new.phase = "ended" /\ new.hookFailed
           \/ new.phase = "dropped"
    PROVE  IInv'
<1>1. ListsMatchPhase(run[r])
    BY RunFields
<1>2. ListsMatchPhase(new)
    BY <1>1 DEF ListsMatchPhase
<1>3. new.phase # "acquire"
    OBVIOUS
<1> QED BY <1>2, <1>3, HandOver


\* The invariant is inductive.
LEMMA InvStep == IInv /\ [Next]_vars => IInv'
<1> SUFFICES ASSUME IInv, [Next]_vars PROVE IInv'
    OBVIOUS
<1>1. ASSUME NEW r \in Request, NEW global \in GlobalLayer, NEW perKey \in KeyLayer,
             NEW apiKey \in ApiKey \cup {None}, NEW client \in Client,
             Resolve(r, global, perKey, apiKey, client)
      PROVE  IInv'
    BY <1>1, ResolveStep
<1>2. ASSUME NEW r \in Request, SkipScope(r) PROVE IInv'
    <2>1. InLoop(r) /\ run[r] # None /\ run' = Skipped(r) /\ UNCHANGED <<count, leaked, overdrawn>>
        BY <1>2 DEF SkipScope, InLoop, In
    <2> QED BY <2>1, SkipStep, MoveStep
<1>3. ASSUME NEW r \in Request, AcquireScope(r) \/ AdmitUnlimited(r) \/ BypassScope(r) PROVE IInv'
    BY <1>3, AcquireStep, AdmitUnlimitedStep, BypassStep
<1>4. ASSUME NEW r \in Request, RejectScope(r) \/ InsertLeases(r) PROVE IInv'
    BY <1>4, LoopEndStep
<1>5. ASSUME NEW r \in Request, ReleaseKey(r) PROVE IInv'
    BY <1>5, ReleaseKeyStep
<1>6. ASSUME NEW r \in Request, Released(r) \/ Drop(r) PROVE IInv'
    <2>1. run[r] # None /\ run[r] \in Run /\ UNCHANGED <<count, leaked, overdrawn>>
        BY <1>6 DEF Released, Drop, In, IInv, TypeOK
    <2>2. PICK p \in {"ended", "dropped"} :
            /\ run' = [run EXCEPT ![r].phase = p]
            /\ p = "ended" => run[r].phase = "release" /\ run[r].releasing = <<>>
        BY <1>6 DEF Released, Drop, In
    <2> DEFINE new == [run[r] EXCEPT !.phase = p]
    <2>3. run' = [run EXCEPT ![r] = new]
        BY <2>1, <2>2 DEF IInv, TypeOK
    <2>4. /\ new \in Run /\ new.phase = p /\ new.policy = run[r].policy /\ new.next = run[r].next
          /\ new.acquired = run[r].acquired /\ new.leases = run[r].leases /\ new.releasing = run[r].releasing
        BY <2>1 DEF Run
    <2> HIDE DEF new
    <2> QED BY <2>1, <2>2, <2>3, <2>4, PhaseStep
<1>7. ASSUME NEW r \in Request, CustomPasses(r) PROVE IInv'
    <2>1. run[r] # None /\ run[r] \in Run /\ UNCHANGED <<count, leaked, overdrawn>> /\ run[r].phase = "custom"
        BY <1>7 DEF CustomPasses, In, IInv, TypeOK
    <2> DEFINE new == [run[r] EXCEPT !.phase = "running", !.context = TRUE]
    <2>2. run' = [run EXCEPT ![r] = new]
        BY <1>7, <2>1 DEF CustomPasses, IInv, TypeOK
    <2>3. /\ new \in Run /\ new.phase = "running" /\ new.policy = run[r].policy /\ new.next = run[r].next
          /\ new.acquired = run[r].acquired /\ new.leases = run[r].leases /\ new.releasing = run[r].releasing
        BY <2>1 DEF Run
    <2> HIDE DEF new
    <2> QED BY <2>1, <2>2, <2>3, PhaseStep
<1>8. ASSUME NEW r \in Request, CustomRefuses(r) \/ OnError(r) \/ After(r) PROVE IInv'
    <2>1. /\ run[r] # None /\ run[r] \in Run /\ UNCHANGED <<count, leaked, overdrawn>>
          /\ run[r].phase \in {"custom", "running", "ended"}
        BY <1>8 DEF CustomRefuses, OnError, After, HasContext, In, IInv, TypeOK
    <2>2. CASE run' = Taken(r)
        BY <2>1, <2>2, TakenStep
    <2>3. CASE /\ run[r].phase \in {"running", "ended"}
               /\ run' = [run EXCEPT ![r].phase = "ended", ![r].hookFailed = TRUE]
        <3> DEFINE new == [run[r] EXCEPT !.phase = "ended", !.hookFailed = TRUE]
        <3>1. run' = [run EXCEPT ![r] = new]
            BY <2>1, <2>3 DEF IInv, TypeOK
        <3>2. /\ new \in Run /\ new.phase = "ended" /\ new.hookFailed
              /\ new.policy = run[r].policy /\ new.next = run[r].next
              /\ new.acquired = run[r].acquired /\ new.leases = run[r].leases /\ new.releasing = run[r].releasing
            BY <2>1 DEF Run
        <3> HIDE DEF new
        <3> QED BY <2>1, <2>3, <3>1, <3>2, PhaseStep
    <2> QED BY <1>8, <2>2, <2>3 DEF CustomRefuses, OnError, After, HasContext, In
<1>9. CASE UNCHANGED vars
    <2>1. /\ \A k : Limited(k)' = Limited(k)
          /\ \A q, k : LimitOf(q, k)' = LimitOf(q, k)
          /\ \A q, i, k : Lease(q, i, k)' <=> Lease(q, i, k)
        BY <1>9 DEF vars, Limited, Lease, LimitOf
    <2>2. TypeOK' /\ LeaseAccounting' /\ LimitsHaveRoom'
        BY <1>9, <2>1 DEF vars, IInv, TypeOK, LeaseAccounting, LimitsHaveRoom
    <2>3. RunsAreSound'
        BY <1>9, <2>1 DEF vars, IInv, RunsAreSound, LeasesHaveLimits, ListsMatchPhase
    <2> QED BY <2>2, <2>3 DEF IInv
<1> QED BY <1>1, <1>2, <1>3, <1>4, <1>5, <1>6, <1>7, <1>8, <1>9 DEF Next

-------------------------------------------------------------------------------
(* The theorems. *)

\* The inductive invariant holds in every reachable state of the chain.
THEOREM Invariance == Spec => []IInv
BY InvInit, InvStep, PTL DEF Spec

\* Every counter is the number of leases held under a limit, plus what was
\* leaked, less what was overdrawn, through every interleaving of before, after,
\* on_error and drops and every failure of the store (concurrency.rs).
THEOREM LeasesAreCounted == Spec => []LeaseAccounting
<1>1. IInv => LeaseAccounting
    BY DEF IInv
<1> QED BY <1>1, Invariance, PTL

\* Unless a key admitted under limit 0 was released, the leases of a key are no
\* more than the largest of their limits (concurrency.rs, "limits the number of
\* in-flight requests per scope").
THEOREM InFlightIsBounded == Spec => []InFlightBound
<1>1. IInv => InFlightBound
    BY DEF IInv, LimitsHaveRoom, InFlightBound
<1> QED BY <1>1, Invariance, PTL

\* A run that ended holds no lease, unless the after hook of a later stage
\* failed (concurrency.rs, "so the chain never leaks a slot").
THEOREM EndedReleased == Spec => []EndedHoldsNothing
<1>1. IInv => EndedHoldsNothing
    BY DEF IInv, RunsAreSound, ListsMatchPhase, EndedHoldsNothing, Holds, Keys, In
<1> QED BY <1>1, Invariance, PTL

\* A client that got past an enabled IP stage is one its policy permits,
\* however its address is written (ip_access.rs evaluate).
THEOREM AdmittedArePermitted == Spec => []AdmittedClientsArePermitted
<1>1. Init => AdmittedClientsArePermitted
    BY DEF Init, AdmittedClientsArePermitted
<1>2. TypeOK /\ AdmittedClientsArePermitted /\ [Next]_vars => AdmittedClientsArePermitted'
    <2> SUFFICES ASSUME TypeOK, AdmittedClientsArePermitted, [Next]_vars,
                        NEW q \in Request, run'[q] # None, run'[q].phase # "ended" \/ run'[q].context,
                        IsEnabled(run'[q].policy, "ip_access")
                 PROVE  run'[q].permitted
        BY DEF AdmittedClientsArePermitted, IsEnabled
    <2>1. ASSUME NEW r \in Request, NEW global \in GlobalLayer, NEW perKey \in KeyLayer,
                 NEW apiKey \in ApiKey \cup {None}, NEW client \in Client,
                 Resolve(r, global, perKey, apiKey, client)
          PROVE  run'[q].permitted
        <3> DEFINE policy == MergeChainPolicies(Defaults, global, perKey)
        <3>1. CASE q # r
            BY <2>1, <3>1 DEF Resolve, TypeOK, AdmittedClientsArePermitted
        <3>2. CASE q = r
            <4>0. /\ run'[q].policy = policy /\ run'[q].phase = FirstPhase(policy, client) /\ ~run'[q].context
                  /\ run'[q].permitted = (policy.ip_access = None \/ Permits(policy.ip_access, client))
                  /\ policy \in Policies
                BY <2>1, <3>2 DEF Resolve, TypeOK, Policies
            <4> HIDE DEF policy
            <4>1. PassesIpStage(policy, client) /\ IsEnabled(policy, "ip_access")
                BY <4>0 DEF FirstPhase
            <4>2. policy.ip_access # None => Evaluate(client, policy.ip_access)
                BY <4>1 DEF PassesIpStage
            <4>3. policy.ip_access # None => Permits(policy.ip_access, client)
                BY <2>1, <4>0, <4>2, PolicyAssumption, EvaluateIsSound
            <4> QED BY <4>0, <4>3
        <3> QED BY <3>1, <3>2
    <2>2. ASSUME NEW r \in Request, run[r] # None,
                 run' = [run EXCEPT ![r] = run'[r]],
                 run'[r].policy = run[r].policy /\ run'[r].permitted = run[r].permitted,
                 run[r].phase # "ended" \/ run[r].context
          PROVE  run'[q].permitted
        BY <2>2 DEF TypeOK, AdmittedClientsArePermitted
    <2>3. ASSUME NEW r \in Request,
                 \/ SkipScope(r) \/ AcquireScope(r) \/ AdmitUnlimited(r) \/ BypassScope(r)
                 \/ RejectScope(r) \/ InsertLeases(r) \/ ReleaseKey(r) \/ Released(r)
                 \/ CustomPasses(r) \/ CustomRefuses(r) \/ After(r) \/ OnError(r) \/ Drop(r)
          PROVE  run'[q].permitted
        <3>1. run[r] # None
            BY <2>3 DEF SkipScope, AcquireScope, AdmitUnlimited, BypassScope, RejectScope, InsertLeases,
                ReleaseKey, Released, CustomPasses, CustomRefuses, After, OnError, Drop, HasContext, In,
                InLoop, Checked
        <3> QED BY <2>2, <2>3, <3>1, StepFrame
    <2>4. CASE UNCHANGED vars
        BY <2>4 DEF vars, AdmittedClientsArePermitted
    <2> QED BY <2>1, <2>3, <2>4 DEF Next
<1>3. IInv => TypeOK
    BY DEF IInv
<1> QED BY <1>1, <1>2, <1>3, Invariance, PTL DEF Spec


===============================================================================
