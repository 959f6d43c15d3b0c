--------------------------- MODULE Deployment_proofs ---------------------------
(***************************************************************************)
(* What the parts of a deployment promise, for any number of hooks, checks, *)
(* connections, registrations and messages, any settings and any limit.     *)
(***************************************************************************)
EXTENDS Composition_proofs

-------------------------------------------------------------------------------
(* The runtime region. *)

\* The code a registration carries comes from a key or is the default
\* (env_config.rs region_code_from_env).
LEMMA CodesAreConfigured ==
    ASSUME NEW own \in Code \cup {NoCode}, NEW shared \in Code \cup {NoCode}
    PROVE  Region!RegionCodeFromEnv(own, shared) \in Code \cup {Global}
BY DEF Region!RegionCodeFromEnv

\* Nothing is registered at first (RUNTIME_REGION, an empty OnceLock).
LEMMA RegionInit == Region!Init => Region!IInv
<1> SUFFICES ASSUME Region!Init PROVE Region!IInv
  OBVIOUS
<1>1. ASSUME NEW r \in Registrar
      PROVE  /\ registrar[r] \in [state : {"start", "setting", "registered", "refused"}, code : Code \cup {Global}]
             /\ registrar[r].state = "start"
  BY CodesAreConfigured DEF Region!Init
<1>2. Region!TypeOK
  BY <1>1 DEF Region!Init, Region!TypeOK
<1> QED
  BY <1>1, <1>2 DEF Region!IInv, Region!OneRegion

\* However the first registrations race, a lock that was read as empty is set by
\* one of them and read again by the others (register_runtime_region).
LEMMA RegionStep ==
    ASSUME Region!IInv, [Region!Next]_regionVars
    PROVE  Region!IInv'
<1> USE NothingAssumption DEF Region!IInv, Region!TypeOK, Region!OneRegion
<1>1. ASSUME NEW r \in Registrar, Region!Get(r) PROVE Region!IInv'
  BY <1>1 DEF Region!Get, Region!Becomes, Region!Unregistered
<1>2. ASSUME NEW r \in Registrar, Region!SetOrReread(r) PROVE Region!IInv'
  BY <1>2 DEF Region!SetOrReread, Region!Becomes, Region!Unregistered
<1>3. CASE UNCHANGED regionVars
  BY <1>3 DEF regionVars
<1> QED
  BY <1>1, <1>2, <1>3 DEF Region!Next


-------------------------------------------------------------------------------
(* The service process. *)

\* A process starts unbound, with no request and no probe (serve_with_lifecycle).
LEMMA ServiceInit == Service!Init => Service!IInv
<1> SUFFICES ASSUME Service!Init PROVE Service!IInv
  OBVIOUS
<1>1. signal \in BOOLEAN /\ ~signal
  BY DEF Service!Init
<1>2. /\ cleanup = [state |-> "none", done |-> 0]
      /\ probe = [state |-> "idle", asked |-> 0, seen |-> {}]
      /\ server = "unbound" /\ started = 0 /\ time = 0 /\ up \subseteq 1..CheckCount
      /\ open = {} /\ dropped = {}
  BY DEF Service!Init
<1>3. Service!TypeOK
  BY <1>1, <1>2 DEF Service!TypeOK
<1> QED
  BY <1>2, <1>3 DEF Service!IInv, Service!RunsAsStarted, Service!DrainDropsNothing,
                    Service!ChecksSawTheirDependency, Service!ReadyWasReady

\* What the steps of the server leave of the probe, and the other way round.
ProbeInv ==
    /\ up \subseteq 1..CheckCount
    /\ probe \in [state : {"idle", "asking", "ready", "unavailable"}, asked : Nat, seen : SUBSET (1..CheckCount)]
    /\ Service!ChecksSawTheirDependency

ServerInv ==
    /\ server \in {"unbound", "starting", "serving", "draining", "stopped", "failed"}
    /\ started \in Nat /\ signal \in BOOLEAN
    /\ cleanup \in [state : {"none", "running", "done", "failed", "cut"}, done : Nat]
    /\ time \in Nat
    /\ Service!RunsAsStarted /\ Service!DrainDropsNothing

\* The two sides make up the invariant of the service.
LEMMA TwoSides == Service!IInv <=> ServerInv /\ ProbeInv
BY DEF Service!IInv, Service!TypeOK, ServerInv, ProbeInv

\* Dependencies may fail and return between two checks of one answer
\* (CompositeReadinessCheck).
LEMMA ProbeStep ==
    ASSUME ProbeInv, [Service!Next]_serviceVars
    PROVE  ProbeInv'
<1> USE DEF ProbeInv, Service!ChecksSawTheirDependency, Service!ReadyWasReady
<1>0. CheckCount \in Nat
  BY DeploymentAssumption
<1>1. CASE Service!Dependency
  <2>1. up' \subseteq 1..CheckCount
    BY <1>1 DEF Service!Dependency
  <2>2. CASE probe.state = "asking"
    <3>1. probe' = [probe EXCEPT !.seen = @ \cup up']
      BY <1>1, <2>2 DEF Service!Dependency
    <3>2. probe'.state = "asking" /\ probe'.asked = probe.asked /\ probe'.seen = probe.seen \cup up'
      BY <3>1, <2>2
    <3>3. probe' \in [state : {"idle", "asking", "ready", "unavailable"}, asked : Nat, seen : SUBSET (1..CheckCount)]
      BY <3>1, <2>1
    <3> QED BY <2>1, <2>2, <3>2, <3>3
  <2>3. CASE probe.state # "asking"
    <3>1. probe' = probe
      BY <1>1, <2>3 DEF Service!Dependency
    <3> QED BY <3>1, <2>1, <2>3
  <2> QED BY <2>2, <2>3
<1>2. CASE Service!Readyz
  <2>1. up' = up /\ probe' = [state |-> IF CheckCount = 0 THEN "unavailable" ELSE "asking", asked |-> 0, seen |-> up]
    BY <1>2 DEF Service!Readyz
  <2> QED BY <1>0, <2>1
<1>3. CASE Service!Check
  <2>1. CASE probe.asked + 1 \notin up
    BY <1>3, <2>1 DEF Service!Check
  <2>2. CASE probe.asked + 1 \in up
    <3>1. 1..(probe.asked + 1) \subseteq probe.seen
      BY <1>3, <2>2 DEF Service!Check
    <3>2. probe' = [probe EXCEPT !.asked = @ + 1,
                      !.state = IF probe.asked + 1 = CheckCount THEN "ready" ELSE "asking"]
      BY <1>3, <2>2 DEF Service!Check
    <3>3. probe.asked \in Nat /\ probe.asked < CheckCount /\ probe.seen \subseteq 1..CheckCount
      BY <1>3 DEF Service!Check
    <3>4. up' = up /\ up \subseteq 1..CheckCount /\ up \subseteq probe.seen
      BY <1>3 DEF Service!Check
    <3>5. CASE probe.asked + 1 = CheckCount
      <4>1. probe' = [state |-> "ready", asked |-> probe.asked + 1, seen |-> probe.seen]
        BY <3>2, <3>5
      <4>2. probe.seen = 1..CheckCount
        BY <3>1, <3>3, <3>5
      <4> QED BY <3>3, <3>4, <4>1, <4>2
    <3>6. CASE probe.asked + 1 # CheckCount
      <4>1. probe' = [state |-> "asking", asked |-> probe.asked + 1, seen |-> probe.seen]
        BY <3>2, <3>6
      <4>2. probe.asked + 1 \in Nat /\ probe.asked + 1 < CheckCount
        BY <1>0, <3>3, <3>6
      <4> QED BY <3>1, <3>3, <3>4, <4>1, <4>2
    <3> QED BY <3>5, <3>6
  <2> QED BY <2>1, <2>2
<1>4. CASE Service!Answered
  BY <1>4 DEF Service!Answered
<1>5. CASE UNCHANGED <<up, probe>>
  BY <1>5
<1>6. CASE UNCHANGED serviceVars
  BY <1>5, <1>6 DEF serviceVars
<1> QED
  BY <1>1, <1>2, <1>3, <1>4, <1>5, <1>6
     DEF Service!Next, Service!Bind, Service!StartHook, Service!StartServing, Service!Signal,
         Service!GracefulShutdownTrigger, Service!ShutdownHook, Service!Accept, Service!Respond,
         Service!Drained, Service!GraceElapsed, Service!Leave, Service!Tick, Service!probeVars

\* In whatever order the signal, the answers, the hooks and the timer come
\* (serve_with_lifecycle, graceful_shutdown_trigger).
LEMMA ServerStep ==
    ASSUME ServerInv, [Service!Next]_serviceVars
    PROVE  ServerInv'
<1>0. HookCount \in Nat /\ (Grace = NoGrace \/ Grace \in Nat)
  BY DeploymentAssumption
<1> USE DEF ServerInv, Service!RunsAsStarted, Service!DrainDropsNothing
<1>1. CASE Service!Bind
  BY <1>1 DEF Service!Bind
<1>2. CASE Service!StartHook
  BY <1>2 DEF Service!StartHook
<1>3. CASE Service!StartServing
  BY <1>3 DEF Service!StartServing
<1>4. CASE Service!Signal
  BY <1>4 DEF Service!Signal
<1>5. CASE Service!GracefulShutdownTrigger
  BY <1>0, <1>5 DEF Service!GracefulShutdownTrigger
<1>6. CASE Service!ShutdownHook
  BY <1>6 DEF Service!ShutdownHook
<1>7. ASSUME NEW c \in Conn, Service!Accept(c) PROVE ServerInv'
  BY <1>7 DEF Service!Accept
<1>8. ASSUME NEW c \in Conn, Service!Respond(c) PROVE ServerInv'
  BY <1>8 DEF Service!Respond
<1>9. CASE Service!Drained
  BY <1>9 DEF Service!Drained, Service!Leave
<1>10. CASE Service!GraceElapsed
  BY <1>10 DEF Service!GraceElapsed, Service!Leave
<1>11. CASE Service!Tick
  BY <1>0, <1>11 DEF Service!Tick
<1>12. CASE Service!Dependency \/ Service!Readyz \/ Service!Check \/ Service!Answered
  BY <1>12 DEF Service!Dependency, Service!Readyz, Service!Check, Service!Answered, Service!serverVars
<1>13. CASE UNCHANGED serviceVars
  BY <1>13 DEF serviceVars
<1> QED
  BY <1>1, <1>2, <1>3, <1>4, <1>5, <1>6, <1>7, <1>8, <1>9, <1>10, <1>11, <1>12, <1>13 DEF Service!Next


-------------------------------------------------------------------------------
(* The framework builder. *)

\* The policy of an environment lists origins and the development patterns only
\* (env_config.rs security_policy_for_environment).
LEMMA EnvironmentPolicyOK ==
    ASSUME NEW env, NEW origins
    PROVE  \E no, entries, any, headers :
             /\ Builder!SecurityPolicyForEnvironment(env, origins)
                  = [rateLimit |-> no,
                     cors |-> [all |-> no, hosts |-> NoHosts, anyHeader |-> any, headers |-> headers,
                               entries |-> entries]]
             /\ \A e \in entries : Builder!IsEntry(e)
<1> DEFINE exact(S) == {[kind |-> "exact", origin |-> o] : o \in S}
           base == IF env \in {"Dev", "Test"} THEN Builder!DevelopmentPrivateNetwork ELSE Builder!DefaultCors
           patterns == [kind : {"loopback"}, scheme : {"http", "https"}, host : {"localhost", "loopbackIp"}]
           private == [kind : {"private"}, scheme : {"http", "https"}]
           Cors(no, any, headers, entries) ==
             [all |-> no, hosts |-> NoHosts, anyHeader |-> any, headers |-> headers, entries |-> entries]
<1>1. \A S : \A e \in exact(S) : Builder!IsEntry(e)
  BY DEF Builder!IsEntry
<1>2. \A e \in patterns \cup private : Builder!IsEntry(e)
  BY DEF Builder!IsEntry
<1>n. PICK no, yes, none, standard, all : no = FALSE /\ yes = TRUE /\ none = {} /\ standard = {"standard"} /\ all = patterns \cup private
  OBVIOUS
<1>3. \E any, headers, entries :
        base = Cors(no, any, headers, entries) /\ \A e \in entries : Builder!IsEntry(e)
  <2>1. CASE env \in {"Dev", "Test"}
    <3>1. base = Cors(no, yes, none, all)
      BY <1>n, <2>1 DEF Builder!DevelopmentPrivateNetwork, Builder!DevelopmentLoopback
    <3> HIDE DEF base, Cors
    <3> QED BY <1>2, <1>n, <3>1
  <2>2. CASE env \notin {"Dev", "Test"}
    <3>1. base = Cors(no, no, standard, none)
      BY <1>n, <2>2 DEF Builder!DefaultCors
    <3> HIDE DEF base, Cors
    <3> QED BY <1>n, <3>1
  <2> QED BY <2>1, <2>2
<1>4. Builder!SecurityPolicyForEnvironment(env, origins)
        = [rateLimit |-> no,
           cors |-> [[base EXCEPT !.entries = @ \cup exact(origins)] EXCEPT !.entries = @ \cup exact(ClientOrigin)]]
  BY <1>n DEF Builder!SecurityPolicyForEnvironment, Builder!WithRegisteredClientOrigins
<1>5. PICK any, headers, entries : base = Cors(no, any, headers, entries) /\ \A e \in entries : Builder!IsEntry(e)
  BY <1>3
<1>6. PICK cors, first, x, y : /\ cors = base /\ x = exact(origins) /\ y = exact(ClientOrigin)
                               /\ first = [cors EXCEPT !.entries = @ \cup x]
  OBVIOUS
<1> HIDE DEF base, exact
<1>7. first = Cors(no, any, headers, entries \cup x)
  BY <1>5, <1>6
<1>8. PICK last : last = [first EXCEPT !.entries = @ \cup y]
  OBVIOUS
<1>9. last = Cors(no, any, headers, entries \cup x \cup y)
  BY <1>7, <1>8
<1>10. Builder!SecurityPolicyForEnvironment(env, origins) = [rateLimit |-> no, cors |-> last]
  BY <1>4, <1>6, <1>8
<1>11. \A e \in entries \cup x \cup y : Builder!IsEntry(e)
  BY <1>1, <1>5, <1>6
<1> QED
  BY <1>9, <1>10, <1>11

\* A builder starts with the development profile and no origin (WebFrameworkBuilder::new).
LEMMA BuilderInit == Builder!Init => Builder!IInv
<1> SUFFICES ASSUME Builder!Init PROVE Builder!IInv
  OBVIOUS
<1>1. PICK wired \in Presets : builder = Builder!NewBuilder(wired)
  BY DEF Builder!Init
<1>2. phase # "built"
  BY DEF Builder!Init
<1>3. Builder!BuilderOK(builder)
  BY <1>1 DEF Builder!BuilderOK, Builder!NewBuilder, Builder!DefaultSecurityPolicy, Builder!DefaultCors
<1> QED
  BY <1>2, <1>3 DEF Builder!IInv, Builder!BuiltWasValidated

\* Whatever is called in whatever order, only build() ends the building, and it
\* checks the builder as the setters left it (framework.rs build).
LEMMA BuilderStep ==
    ASSUME Builder!IInv, [Builder!Next]_builderVars
    PROVE  Builder!IInv'
<1>0. Builder!BuilderOK(builder) /\ Builder!BuiltWasValidated
  BY DEF Builder!IInv
<1> DEFINE B(p, q, d, s, w, m, a) ==
             [profile |-> p, policy |-> q, defaults |-> d, standalone |-> s, wired |-> w, manifest |-> m, admin |-> a]
<1>p. PICK p, q, d, s, w, m, a : builder = B(p, q, d, s, w, m, a) /\ \A e \in q.cors.entries : Builder!IsEntry(e)
  BY <1>0 DEF Builder!BuilderOK
<1>1. ASSUME NEW p1, NEW q1, NEW d1, NEW s1, NEW w1, NEW m1, NEW a1,
             Builder!Call(B(p1, q1, d1, s1, w1, m1, a1)), \A e \in q1.cors.entries : Builder!IsEntry(e)
      PROVE  Builder!IInv'
  <2>1. Builder!BuilderOK(B(p1, q1, d1, s1, w1, m1, a1))
    BY <1>1 DEF Builder!BuilderOK
  <2>2. builder' = B(p1, q1, d1, s1, w1, m1, a1) /\ phase' # "built"
    BY <1>1 DEF Builder!Call
  <2>3. Builder!BuilderOK(builder')
    BY <2>1, <2>2
  <2> QED BY <2>2, <2>3 DEF Builder!IInv, Builder!BuiltWasValidated, Builder!BuilderOK
<1>2. CASE Builder!Profile
  <2>1. PICK x : Builder!Call([builder EXCEPT !.profile = x])
    BY <1>2 DEF Builder!Profile
  <2>2. [builder EXCEPT !.profile = x] = B(x, q, d, s, w, m, a)
    BY <1>p
  <2> QED BY <1>1, <1>p, <2>1, <2>2
<1>3. CASE Builder!SetSecurityPolicy
  <2>1. PICK x \in Policies : Builder!Call([builder EXCEPT !.policy = x])
    BY <1>3 DEF Builder!SetSecurityPolicy
  <2>2. [builder EXCEPT !.policy = x] = B(p, x, d, s, w, m, a)
    BY <1>p
  <2> QED BY <1>1, <2>1, <2>2, PolicyAssumption
<1>4. CASE Builder!OptionalFeatures
  <2>1. PICK x, y : Builder!Call([builder EXCEPT !.defaults = x, !.standalone = y])
    BY <1>4 DEF Builder!OptionalFeatures
  <2>c1. PICK c1 : c1 = [builder EXCEPT !.defaults = x]
    OBVIOUS
  <2>d1. c1 = B(p, q, x, s, w, m, a)
    BY <1>p, <2>c1
  <2>c2. PICK c2 : c2 = [c1 EXCEPT !.standalone = y]
    OBVIOUS
  <2>d2. c2 = B(p, q, x, y, w, m, a)
    BY <2>d1, <2>c2
  <2>2. [builder EXCEPT !.defaults = x, !.standalone = y] = c2
    BY <2>c1, <2>c2
  <2> QED BY <1>1, <1>p, <2>1, <2>2, <2>d2
<1>5. CASE Builder!Wire
  <2>1. PICK slot, kind : Builder!Call([builder EXCEPT !.wired[slot] = kind])
    BY <1>5 DEF Builder!Wire
  <2>2. [builder EXCEPT !.wired[slot] = kind] = B(p, q, d, s, [w EXCEPT ![slot] = kind], m, a)
    BY <1>p
  <2> QED BY <1>1, <1>p, <2>1, <2>2
<1>6. CASE Builder!SetRouteManifest
  <2>1. PICK x : Builder!Call([builder EXCEPT !.manifest = x])
    BY <1>6 DEF Builder!SetRouteManifest
  <2>2. [builder EXCEPT !.manifest = x] = B(p, q, d, s, w, x, a)
    BY <1>p
  <2> QED BY <1>1, <1>p, <2>1, <2>2
<1>7. CASE Builder!ProductionDefaults
  <2>1. PICK yes, no, policy, auth, isolation :
          /\ Builder!Call([builder EXCEPT !.defaults = yes, !.standalone = no, !.policy = policy, !.profile.env = "Prod",
                             !.wired["authorization"] = auth, !.wired["tenant_isolation"] = isolation])
          /\ policy = Builder!ProductionSecurityPolicy
    BY <1>7 DEF Builder!ProductionDefaults
  <2>c1. PICK c1 : c1 = [builder EXCEPT !.defaults = yes]
    OBVIOUS
  <2>d1. c1 = B(p, q, yes, s, w, m, a)
    BY <1>p, <2>c1
  <2>c2. PICK c2 : c2 = [c1 EXCEPT !.standalone = no]
    OBVIOUS
  <2>d2. c2 = B(p, q, yes, no, w, m, a)
    BY <2>d1, <2>c2
  <2>c3. PICK c3 : c3 = [c2 EXCEPT !.policy = policy]
    OBVIOUS
  <2>d3. c3 = B(p, policy, yes, no, w, m, a)
    BY <2>d2, <2>c3
  <2>c4. PICK c4 : c4 = [c3 EXCEPT !.profile.env = "Prod"]
    OBVIOUS
  <2>d4. c4 = B([p EXCEPT !.env = "Prod"], policy, yes, no, w, m, a)
    BY <2>d3, <2>c4
  <2>c5. PICK c5 : c5 = [c4 EXCEPT !.wired["authorization"] = auth]
    OBVIOUS
  <2>w1. PICK w1 : w1 = [w EXCEPT !["authorization"] = auth]
    OBVIOUS
  <2>d5. c5 = B([p EXCEPT !.env = "Prod"], policy, yes, no, w1, m, a)
    BY <2>d4, <2>c5, <2>w1
  <2>c6. PICK c6 : c6 = [c5 EXCEPT !.wired["tenant_isolation"] = isolation]
    OBVIOUS
  <2>w2. PICK w2 : w2 = [w1 EXCEPT !["tenant_isolation"] = isolation]
    OBVIOUS
  <2>d6. c6 = B([p EXCEPT !.env = "Prod"], policy, yes, no, w2, m, a)
    BY <2>d5, <2>c6, <2>w2
  <2>2. [builder EXCEPT !.defaults = yes, !.standalone = no, !.policy = policy, !.profile.env = "Prod",
                        !.wired["authorization"] = auth, !.wired["tenant_isolation"] = isolation]
          = c6
    BY <2>c1, <2>c2, <2>c3, <2>c4, <2>c5, <2>c6
  <2>3. policy.cors.entries = {}
    BY <2>1 DEF Builder!ProductionSecurityPolicy, Builder!DefaultCors
  <2> QED BY <1>1, <2>1, <2>2, <2>3, <2>d6
<1>8. CASE Builder!EnableAdminApi
  <2>1. PICK yes, check : Builder!Call([builder EXCEPT !.admin = yes, !.wired["readiness_check"] = check])
    BY <1>8 DEF Builder!EnableAdminApi
  <2>c1. PICK c1 : c1 = [builder EXCEPT !.admin = yes]
    OBVIOUS
  <2>d1. c1 = B(p, q, d, s, w, m, yes)
    BY <1>p, <2>c1
  <2>c2. PICK c2 : c2 = [c1 EXCEPT !.wired["readiness_check"] = check]
    OBVIOUS
  <2>d2. c2 = B(p, q, d, s, [w EXCEPT !["readiness_check"] = check], m, yes)
    BY <2>d1, <2>c2
  <2>2. [builder EXCEPT !.admin = yes, !.wired["readiness_check"] = check] = c2
    BY <2>c1, <2>c2
  <2> QED BY <1>1, <1>p, <2>1, <2>2, <2>d2
<1>9. CASE Builder!ApplicationSecurityPolicyFromEnv
  <2>1. CASE phase' = "panicked" /\ UNCHANGED builder
    BY <1>0, <2>1 DEF Builder!IInv, Builder!BuiltWasValidated, Builder!BuilderOK
  <2>2. ASSUME NEW env, NEW hosts, NEW origins, NEW policy,
               policy = Builder!SecurityPolicyForEnvironment(env, origins),
               Builder!Call([builder EXCEPT !.profile.env = env,
                  !.policy = IF hosts = NoHosts THEN policy ELSE [policy EXCEPT !.cors.hosts = hosts]])
        PROVE  Builder!IInv'
    <3>1. PICK new : new = IF hosts = NoHosts THEN policy ELSE [policy EXCEPT !.cors.hosts = hosts]
      OBVIOUS
    <3>2. PICK no, entries, any, headers :
             /\ policy = [rateLimit |-> no,
                          cors |-> [all |-> no, hosts |-> NoHosts, anyHeader |-> any, headers |-> headers,
                                    entries |-> entries]]
             /\ \A e \in entries : Builder!IsEntry(e)
      BY <2>2, EnvironmentPolicyOK
    <3>3. new.cors.entries = entries
      BY <3>1, <3>2
    <3>c1. PICK c1 : c1 = [builder EXCEPT !.profile.env = env]
      OBVIOUS
    <3>d1. c1 = B([p EXCEPT !.env = env], q, d, s, w, m, a)
      BY <1>p, <3>c1
    <3>c2. PICK c2 : c2 = [c1 EXCEPT !.policy = new]
      OBVIOUS
    <3>d2. c2 = B([p EXCEPT !.env = env], new, d, s, w, m, a)
      BY <3>d1, <3>c2
    <3>4. [builder EXCEPT !.profile.env = env, !.policy = new] = c2
      BY <3>c1, <3>c2
    <3>5. Builder!Call([builder EXCEPT !.profile.env = env, !.policy = new])
      BY <2>2, <3>1
    <3> QED BY <1>1, <3>2, <3>3, <3>4, <3>5, <3>d2
  <2> QED
    BY <1>9, <2>1, <2>2 DEF Builder!ApplicationSecurityPolicyFromEnv
<1>10. CASE UNCHANGED <<builder, process, resolver>> /\ (phase' = "built" => phase = "built" \/ Builder!Build)
  <2>1. Builder!BuilderOK(builder)'
    BY <1>0, <1>10 DEF Builder!BuilderOK
  <2>2. ASSUME phase' = "built"
        PROVE  /\ Builder!ValidateManifest(builder) /\ Builder!ValidateDeploymentEnvironment(builder)
               /\ Builder!ValidateProductionAssembly(builder)
    BY <1>0, <1>10, <2>2 DEF Builder!Build, Builder!BuiltWasValidated
  <2>3. Builder!ValidateManifest(builder) => Builder!ValidateManifest(builder')
    BY <1>10
  <2>4. Builder!ValidateDeploymentEnvironment(builder) => Builder!ValidateDeploymentEnvironment(builder)'
    BY <1>10 DEF Builder!ValidateDeploymentEnvironment
  <2>5. Builder!ValidateProductionAssembly(builder) => Builder!ValidateProductionAssembly(builder)'
    BY <1>10 DEF Builder!ValidateProductionAssembly, Builder!ValidateSaasAssembly
  <2> QED BY <2>1, <2>2, <2>3, <2>4, <2>5 DEF Builder!IInv, Builder!BuiltWasValidated
<1>11. CASE UNCHANGED builderVars
  BY <1>10, <1>11 DEF builderVars
<1>12. CASE Builder!Build
  BY <1>10, <1>12 DEF Builder!Build
<1> QED
  BY <1>2, <1>3, <1>4, <1>5, <1>6, <1>7, <1>8, <1>9, <1>11, <1>12 DEF Builder!Next


-------------------------------------------------------------------------------
(* WebSocket sessions. *)

\* At least one message passes in a window, whatever the limit.
LEMMA BurstType == Socket!Burst \in Nat /\ Socket!Burst >= 1 /\ Window \in Nat /\ MaxMessages \in Nat
                   /\ Socket!Burst >= MaxMessages
  BY DeploymentAssumption DEF Socket!Burst, Socket!Largest

\* A session starts without a message (run_websocket_session).
LEMMA SocketInit == Socket!Init => Socket!IInv
<1> SUFFICES ASSUME Socket!Init PROVE Socket!IInv
  OBVIOUS
<1>1. echoed = <<>> /\ connection = "upgraded" /\ call = [index |-> 0, started |-> NoWindow, count |-> 0]
      /\ now = 0 /\ closes = 0 /\ principal \in BOOLEAN
  BY DEF Socket!Init
<1>2. Socket!TypeOK
  BY <1>1 DEF Socket!TypeOK
<1>3. Socket!EchoesAreSpread
  BY <1>1 DEF Socket!EchoesAreSpread
<1> QED
  BY <1>1, <1>2, <1>3 DEF Socket!IInv

\* A window that counts a message started not later, and is the running one or
\* begins with it (MessageRateLimit).
LEMMA CountMessageCases ==
    ASSUME Socket!TypeOK
    PROVE  LET c == Socket!CountMessage(call, now) IN
           /\ c \in [index : Nat, started : Nat \cup {NoWindow}, count : Nat]
           /\ \/ /\ call.started = NoWindow \/ (call.started \in Nat /\ now - call.started > Window)
                 /\ c.started = now /\ c.count = 1
              \/ /\ call.started \in Nat /\ ~(now - call.started > Window)
                 /\ c.started = call.started /\ c.count = call.count + 1
<1>1. call \in [index : Nat, started : Nat \cup {NoWindow}, count : Nat] /\ now \in Nat
  BY DEF Socket!TypeOK
<1>2. CASE call.started = NoWindow \/ now - call.started > Window
  BY <1>1, <1>2 DEF Socket!CountMessage
<1>3. CASE ~(call.started = NoWindow \/ now - call.started > Window)
  <2>1. Socket!CountMessage(call, now) = [call EXCEPT !.index = @ + 1, !.count = @ + 1]
    BY <1>3 DEF Socket!CountMessage
  <2>a. PICK i, s, n : call = [index |-> i, started |-> s, count |-> n] /\ i \in Nat /\ n \in Nat /\ s \in Nat \cup {NoWindow}
    BY <1>1
  <2>b. PICK c : c = [call EXCEPT !.index = i + 1]
    OBVIOUS
  <2>c. c = [index |-> i + 1, started |-> s, count |-> n]
    BY <2>a, <2>b
  <2>d. [c EXCEPT !.count = n + 1] = [index |-> i + 1, started |-> s, count |-> n + 1]
    BY <2>c
  <2>2. [call EXCEPT !.index = @ + 1, !.count = @ + 1]
          = [index |-> call.index + 1, started |-> call.started, count |-> call.count + 1]
    <3>1. [call EXCEPT !.index = @ + 1, !.count = @ + 1] = [c EXCEPT !.count = n + 1]
      BY <2>a, <2>b
    <3> QED BY <2>a, <2>d, <3>1
  <2> QED
    BY <1>1, <1>3, <2>1, <2>2
<1> QED
  BY <1>2, <1>3

\* A message that passes the limit is the last of its window, and the messages
\* more than two windows' messages before it are more than a window old.
LEMMA EchoStep ==
    ASSUME Socket!IInv, connection = "open", now' = now, echoed' = Append(echoed, now),
           call' = Socket!CountMessage(call, now), ~Socket!OverLimit(call')
    PROVE  Socket!EchoesAreSpread' /\ Socket!WindowHasItsMessages'
<1>0. Socket!TypeOK /\ Socket!EchoesAreSpread /\ Socket!WindowHasItsMessages
  BY DEF Socket!IInv
<1> DEFINE B == Socket!Burst
           L == Len(echoed)
           n == call.count
<1>1. /\ B \in Nat /\ B >= 1 /\ Window \in Nat /\ now \in Nat /\ L \in Nat /\ n \in Nat
      /\ DOMAIN echoed = 1..L /\ \A i \in 1..L : echoed[i] \in Nat
  BY <1>0, BurstType DEF Socket!TypeOK
<1>2. /\ Len(echoed') = L + 1 /\ DOMAIN echoed' = 1..(L + 1)
      /\ \A i \in 1..L : echoed'[i] = echoed[i]
      /\ echoed'[L + 1] = now
  BY <1>0 DEF Socket!TypeOK
<1>3. call'.count \in 1..B
  <2>1. call'.count \in Nat /\ call'.count >= 1
    BY <1>0, <1>1, CountMessageCases
  <2> QED
    BY <2>1, BurstType DEF Socket!OverLimit
<1>4. \A i \in 1..L : echoed[i] <= now
  BY <1>0, <1>1 DEF Socket!EchoesAreSpread
<1> HIDE DEF B, L, n
<1>5. Socket!WindowHasItsMessages'
  <2>1. CASE /\ call.started = NoWindow \/ (call.started \in Nat /\ now - call.started > Window)
             /\ call'.started = now /\ call'.count = 1
    <3>1. ASSUME NEW i \in 1..L, i + B <= L PROVE echoed[i] + Window < now
      <4>1. call.started # NoWindow
        BY <1>0, <1>1, <3>1 DEF Socket!WindowHasItsMessages, L
      <4>2. n \in 1..B /\ i <= L - n
        BY <1>0, <1>1, <3>1, <4>1 DEF Socket!WindowHasItsMessages, B, n
      <4>3. echoed[i] <= call.started
        BY <1>0, <1>1, <4>1, <4>2 DEF Socket!WindowHasItsMessages, L, n
      <4> QED
        BY <1>1, <2>1, <4>1, <4>3
    <3>2. Len(echoed') - call'.count = L
      BY <1>1, <1>2, <2>1
    <3>3. call'.started # NoWindow
      BY <1>1, <2>1, NothingAssumption
    <3>4. \A i \in 1..(L + 1) : i > L => echoed'[i] >= now
      BY <1>1, <1>2
    <3>5. \A i \in 1..(L + 1) : i <= L => echoed'[i] <= now
      BY <1>1, <1>2, <1>4
    <3>6. \A i \in 1..(L + 1) : i + B <= L => echoed'[i] + Window < now
      BY <1>1, <1>2, <3>1
    <3> QED
      BY <1>1, <1>2, <1>3, <2>1, <3>2, <3>3, <3>4, <3>5, <3>6 DEF Socket!WindowHasItsMessages, B
  <2>2. CASE /\ call.started \in Nat /\ ~(now - call.started > Window)
             /\ call'.started = call.started /\ call'.count = n + 1
    <3>1. call.started # NoWindow
      BY <2>2, NothingAssumption
    <3>2. /\ call.started <= now /\ n \in 1..B /\ L - n >= 0
          /\ \A i \in 1..L : i > L - n => echoed[i] >= call.started
          /\ \A i \in 1..L : i <= L - n => echoed[i] <= call.started
          /\ \A i \in 1..L : i + B <= L - n => echoed[i] + Window < call.started
      BY <1>0, <1>1, <3>1 DEF Socket!WindowHasItsMessages, B, n, L
    <3>3. Len(echoed') - call'.count = L - n
      BY <1>1, <1>2, <2>2
    <3>4. \A i \in 1..(L + 1) : i > L - n => echoed'[i] >= call.started
      BY <1>1, <1>2, <3>2
    <3>5. \A i \in 1..(L + 1) : i <= L - n => echoed'[i] <= call.started
      BY <1>1, <1>2, <3>2
    <3>6. \A i \in 1..(L + 1) : i + B <= L - n => echoed'[i] + Window < call.started
      BY <1>1, <1>2, <3>2
    <3> QED
      BY <1>1, <1>2, <1>3, <2>2, <3>1, <3>2, <3>3, <3>4, <3>5, <3>6 DEF Socket!WindowHasItsMessages, B
  <2> QED
    BY <1>0, <2>1, <2>2, CountMessageCases DEF n
<1>6. ASSUME NEW i \in 1..(L + 1), i + 2 * B = L + 1
      PROVE  echoed'[i] + Window < now
  <2>1. i \in 1..L /\ echoed'[i] = echoed[i]
    BY <1>1, <1>2, <1>6
  <2>2. CASE /\ call.started = NoWindow \/ (call.started \in Nat /\ now - call.started > Window)
             /\ call'.started = now /\ call'.count = 1
    <3>1. call'.started # NoWindow /\ Len(echoed') - call'.count = L
      BY <1>1, <1>2, <2>2, NothingAssumption
    <3>2. i + B <= L
      BY <1>1, <1>6
    <3> QED
      BY <1>1, <1>2, <1>5, <2>1, <2>2, <3>1, <3>2 DEF Socket!WindowHasItsMessages, B
  <2>3. CASE /\ call.started \in Nat /\ ~(now - call.started > Window)
             /\ call'.started = call.started /\ call'.count = n + 1
    <3>1. call'.started # NoWindow /\ call'.started \in Nat /\ call'.started <= now /\ n + 1 \in 1..B
      BY <1>1, <1>2, <1>3, <1>5, <2>3, NothingAssumption DEF Socket!WindowHasItsMessages
    <3>2. i + B <= L + 1 - (n + 1)
      BY <1>1, <1>6, <3>1
    <3>3. echoed'[i] + Window < call'.started
      <4>0. Len(echoed') - call'.count = L + 1 - (n + 1)
        BY <1>1, <1>2, <2>3
      <4>1. \A j \in DOMAIN echoed' : j + B <= Len(echoed') - call'.count => echoed'[j] + Window < call'.started
        BY <1>5, <3>1 DEF Socket!WindowHasItsMessages, B
      <4> QED
        BY <1>1, <1>2, <2>1, <3>2, <4>0, <4>1
    <3> QED
      BY <1>1, <2>1, <3>1, <3>3
  <2> QED
    BY <1>0, <2>2, <2>3, CountMessageCases DEF n
<1>7. Socket!EchoesAreSpread'
  <2>1. /\ \A i, j \in 1..L : i <= j => echoed[i] <= echoed[j]
        /\ \A i \in 1..L : i + 2 * B \in 1..L => echoed[i] + Window < echoed[i + 2 * B]
    BY <1>0, <1>1 DEF Socket!EchoesAreSpread, B
  <2>2. \A i, j \in 1..(L + 1) : i <= j => echoed'[i] <= echoed'[j]
    BY <1>1, <1>2, <1>4, <2>1
  <2>3. \A i \in 1..(L + 1) : echoed'[i] <= now
    BY <1>1, <1>2, <1>4
  <2>4. ASSUME NEW i \in 1..(L + 1), i + 2 * B \in 1..(L + 1)
        PROVE  echoed'[i] + Window < echoed'[i + 2 * B]
    <3>1. CASE i + 2 * B = L + 1
      BY <1>2, <1>6, <3>1
    <3>2. CASE i + 2 * B # L + 1
      <4>1. i \in 1..L /\ i + 2 * B \in 1..L
        BY <1>1, <2>4, <3>2
      <4> QED
        BY <1>2, <2>1, <4>1
    <3> QED
      BY <3>1, <3>2
  <2> QED
    BY <1>2, <2>2, <2>3, <2>4 DEF Socket!EchoesAreSpread, B
<1> QED
  BY <1>5, <1>7

\* Frames, refusals, hang-ups and time keep the invariant of the session
\* (run_websocket_session, MessageRateLimit).
LEMMA SocketStep ==
    ASSUME Socket!IInv, [Socket!Next]_socketVars
    PROVE  Socket!IInv'
<1>0. Socket!TypeOK /\ Socket!EchoesAreSpread
  BY DEF Socket!IInv
<1>1. CASE UNCHANGED socketVars
  BY <1>1 DEF socketVars, Socket!IInv, Socket!TypeOK, Socket!EchoesAreSpread, Socket!WindowHasItsMessages
<1>2. CASE Socket!Connect
  <2>1. echoed = <<>> /\ call.started = NoWindow
    BY <1>2 DEF Socket!Connect, Socket!IInv
  <2>2. connection' \in {"open", "closed"} /\ (connection' = "open" => principal)
        /\ UNCHANGED <<principal, call, now, echoed, closes>>
    BY <1>2 DEF Socket!Connect
  <2>3. Socket!TypeOK'
    BY <1>0, <2>2 DEF Socket!TypeOK
  <2>4. Socket!EchoesAreSpread'
    BY <1>0, <2>2 DEF Socket!EchoesAreSpread
  <2> QED
    BY <2>1, <2>2, <2>3, <2>4 DEF Socket!IInv, Socket!WindowHasItsMessages
<1>3. CASE Socket!Message
  <2>1. PICK tooLarge, ends, counted, refused :
          /\ tooLarge \in BOOLEAN /\ ends \in BOOLEAN
          /\ counted = Socket!CountMessage(call, now) /\ refused = (tooLarge \/ Socket!OverLimit(counted))
          /\ call' = IF tooLarge THEN [call EXCEPT !.index = @ + 1] ELSE counted
          /\ echoed' = IF refused THEN echoed ELSE Append(echoed, now)
          /\ connection' = IF refused \/ ends THEN "closing" ELSE "open"
    BY <1>3 DEF Socket!Message
  <2>2. connection = "open" /\ principal /\ UNCHANGED <<principal, now, closes>>
    BY <1>3 DEF Socket!Message, Socket!IInv
  <2>3. counted \in [index : Nat, started : Nat \cup {NoWindow}, count : Nat]
    BY <1>0, <2>1, CountMessageCases
  <2>4. CASE refused
    <3>1. echoed' = echoed /\ connection' = "closing"
      BY <2>1, <2>4
    <3>2. call' \in [index : Nat, started : Nat \cup {NoWindow}, count : Nat]
      BY <1>0, <2>1, <2>3 DEF Socket!TypeOK
    <3>3. Socket!TypeOK'
      BY <1>0, <2>2, <3>1, <3>2 DEF Socket!TypeOK
    <3>4. Socket!EchoesAreSpread'
      BY <1>0, <2>2, <3>1 DEF Socket!EchoesAreSpread
    <3> QED
      BY <2>2, <3>1, <3>3, <3>4 DEF Socket!IInv
  <2>5. CASE ~refused
    <3>1. /\ echoed' = Append(echoed, now) /\ connection' \in {"closing", "open"}
          /\ call' = counted /\ ~Socket!OverLimit(counted)
      BY <2>1, <2>5
    <3>2. Socket!EchoesAreSpread' /\ Socket!WindowHasItsMessages'
      BY <2>1, <2>2, <3>1, EchoStep
    <3>3. Socket!TypeOK'
      BY <1>0, <2>2, <2>3, <3>1 DEF Socket!TypeOK
    <3> QED
      BY <2>2, <3>1, <3>2, <3>3 DEF Socket!IInv
  <2> QED
    BY <2>4, <2>5
<1>4. CASE Socket!Hangup \/ Socket!Close
  <2>1. /\ connection \in {"open", "closing"} /\ connection' \in {"closing", "closed"}
        /\ UNCHANGED <<principal, call, now, echoed>> /\ (closes' = closes \/ closes' = closes + 1)
    BY <1>4 DEF Socket!Hangup, Socket!Close
  <2>2. Socket!TypeOK'
    BY <1>0, <2>1 DEF Socket!TypeOK
  <2>3. Socket!EchoesAreSpread'
    BY <1>0, <2>1 DEF Socket!EchoesAreSpread
  <2> QED
    BY <2>1, <2>2, <2>3 DEF Socket!IInv
<1>5. CASE Socket!Tick
  <2>1. now' = now + 1 /\ UNCHANGED <<connection, principal, call, echoed, closes>> /\ now \in Nat
    BY <1>0, <1>5 DEF Socket!Tick, Socket!TypeOK
  <2>2. Socket!TypeOK'
    BY <1>0, <2>1 DEF Socket!TypeOK
  <2>3. \A i \in DOMAIN echoed : echoed[i] \in Nat
    BY <1>0 DEF Socket!TypeOK
  <2>4. Socket!EchoesAreSpread'
    BY <1>0, <2>1, <2>3 DEF Socket!EchoesAreSpread
  <2>5. ASSUME connection = "open" PROVE Socket!WindowHasItsMessages'
    <3>1. Socket!WindowHasItsMessages
      BY <2>5 DEF Socket!IInv
    <3>2. call.started # NoWindow => call.started \in Nat
      BY <1>0 DEF Socket!TypeOK
    <3>3. (call.started # NoWindow => call.started <= now) => (call.started # NoWindow => call.started <= now')
      BY <2>1, <3>2
    <3> QED
      BY <2>1, <3>1, <3>3 DEF Socket!WindowHasItsMessages
  <2> QED
    BY <2>1, <2>2, <2>4, <2>5 DEF Socket!IInv
<1> QED
  BY <1>1, <1>2, <1>3, <1>4, <1>5 DEF Socket!Next

\* The module of the sessions counts as this one does.
LEMMA SocketCount == \A S : Cardinality(S) = Socket!Cardinality(S)
  BY DEF Cardinality, Socket!Cardinality

\* The messages of a stretch as long as the window are fewer than those of two
\* windows: they are next to each other, and the first and the last are less than
\* two windows' messages apart.
LEMMA BurstFromSpread ==
    ASSUME Socket!TypeOK, Socket!EchoesAreSpread, NEW t \in Nat
    PROVE  Socket!Cardinality({i \in DOMAIN echoed : echoed[i] \in t..t + Window}) <= 2 * Socket!Burst
<1> DEFINE S == {i \in DOMAIN echoed : echoed[i] \in t..t + Window}
           B == Socket!Burst
<1>1. /\ B \in Nat /\ B >= 1 /\ Window \in Nat /\ \A i \in DOMAIN echoed : echoed[i] \in Nat /\ i \in Nat
      /\ Len(echoed) \in Nat /\ DOMAIN echoed = 1..Len(echoed)
  BY BurstType DEF Socket!TypeOK
<1>2. CASE S = {}
  BY <1>1, <1>2, FS_EmptySet, SocketCount
<1>3. CASE S # {}
  <2>1. S \in SUBSET Nat
    BY <1>1
  <2>2. PICK a \in S : \A i \in S : a <= i
    BY <1>3, <2>1, LeastNat
  <2>3. a \in DOMAIN echoed /\ a \in Nat /\ echoed[a] \in Nat /\ t <= echoed[a]
    BY <1>1, <2>2
  <2>4. ASSUME NEW i \in S PROVE i \in a..(a + 2 * B - 1)
    <3>1. i \in DOMAIN echoed /\ i \in Nat /\ echoed[i] \in Nat /\ echoed[i] <= t + Window /\ a <= i
      BY <1>1, <2>2, <2>4
    <3>2. SUFFICES ASSUME a + 2 * B <= i PROVE FALSE
      BY <1>1, <2>3, <3>1
    <3>3. a + 2 * B \in DOMAIN echoed
      BY <1>1, <2>3, <3>1, <3>2
    <3>4. echoed[a] + Window < echoed[a + 2 * B] /\ echoed[a + 2 * B] <= echoed[i] /\ echoed[a + 2 * B] \in Nat
      BY <1>1, <2>3, <3>1, <3>2, <3>3 DEF Socket!EchoesAreSpread
    <3> QED
      BY <1>1, <2>3, <3>1, <3>4
  <2>5. /\ a \in Int /\ a + 2 * B - 1 \in Int /\ a <= a + 2 * B - 1 /\ (a + 2 * B - 1) - a + 1 = 2 * B
    BY <1>1, <2>3
  <2>6. IsFiniteSet(a..(a + 2 * B - 1)) /\ Cardinality(a..(a + 2 * B - 1)) = 2 * B
    <3> HIDE DEF B
    <3>1. IsFiniteSet(a..(a + 2 * B - 1))
          /\ Cardinality(a..(a + 2 * B - 1))
               = IF a > a + 2 * B - 1 THEN 0 ELSE (a + 2 * B - 1) - a + 1
      BY <2>5, FS_Interval
    <3> QED BY <1>1, <2>3, <2>5, <3>1
  <2>7. S \in SUBSET (a..(a + 2 * B - 1))
    BY <2>4
  <2> HIDE DEF S, B
  <2>8. Cardinality(S) <= 2 * B
    BY <2>6, <2>7, FS_Subset
  <2> QED
    BY <2>8, SocketCount DEF S, B
<1> QED
  BY <1>2, <1>3


\* The process and its probe step together: neither side of the invariant reads
\* what only the other side writes (serve_with_lifecycle, readyz).
LEMMA ServiceStep ==
    ASSUME Service!IInv, [Service!Next]_serviceVars
    PROVE  Service!IInv'
<1>1. ServerInv' /\ ProbeInv'
  BY TwoSides, ServerStep, ProbeStep
<1> QED
  BY <1>1 DEF Service!IInv, Service!TypeOK, ServerInv, ProbeInv

-------------------------------------------------------------------------------
(* The deployment. *)

\* Each behaviour exercises one part, which keeps its own invariant: the builder,
\* the process, the region and the sessions share no state.
THEOREM Invariance == Spec => []IInv
<1>1. Init => IInv
  BY BuilderInit, AssemblyInit, ServiceInit, RegionInit, SocketInit, SchemaInit DEF Init, IInv
<1>2. ASSUME IInv, [Next]_vars
      PROVE  IInv'
  <2>1. part' = part
    BY <1>2 DEF Next, vars
  <2>2. part = "builder" => [Builder!Next]_builderVars
    BY <1>2 DEF Next, vars
  <2>3. part = "service" => [Service!Next]_serviceVars
    BY <1>2 DEF Next, vars
  <2>4. part = "region" => [Region!Next]_regionVars
    BY <1>2 DEF Next, vars
  <2>5. part = "socket" => [Socket!Next]_socketVars
    BY <1>2 DEF Next, vars
  <2>6. part = "service" => Service!IInv'
    BY <1>2, <2>3, ServiceStep DEF IInv
  <2>7. ASSUME part = "assembly" PROVE Assembly!IInv'
    <3>1. Assembly!IInv
      BY <1>2, <2>7 DEF IInv
    <3>2. CASE Assembly!Next
      BY <3>1, <3>2, AssemblyStep
    <3>3. CASE UNCHANGED assemblyVars
      BY <3>1, <3>3 DEF assemblyVars, Assembly!IInv, Assembly!TypeOK, Assembly!ProfileIsComposed, Assembly!Composed
    <3> QED BY <1>2, <2>7, <3>2, <3>3 DEF Next, vars
  <2>8. ASSUME part = "schema" PROVE Schema!IInv'
    <3>1. Schema!IInv
      BY <1>2, <2>8 DEF IInv
    <3>2. CASE Schema!Next
      BY <3>1, <3>2, SchemaStep
    <3>3. CASE UNCHANGED schemaVars
      <4>1. Schema!ComposeSchemaRegistry' = Schema!ComposeSchemaRegistry
        BY <3>3, CompositionIsStable DEF schemaVars
      <4> QED BY <3>1, <3>3, <4>1 DEF schemaVars, Schema!IInv, Schema!TypeOK, Schema!ComposedIsCurrent,
                                      Schema!FrontendIsCurrent
    <3> QED BY <1>2, <2>8, <3>2, <3>3 DEF Next, vars
  <2> QED
    BY <1>2, <2>1, <2>2, <2>4, <2>5, <2>6, <2>7, <2>8, BuilderStep, RegionStep, SocketStep DEF IInv
<1> QED
  BY <1>1, <1>2, PTL DEF Spec

\* For any hooks, connections and grace period: nothing is served before every
\* hook succeeded, shutdown hooks follow a signal, and a connection is cut only
\* when the grace period has passed (serve_with_lifecycle).
THEOREM DrainIsGraceful == Spec => []DrainDropsNothing
<1>1. IInv => DrainDropsNothing
  BY DEF IInv, Service!IInv, DrainDropsNothing
<1> QED
  BY <1>1, Invariance, PTL

\* For any number of checks: a /readyz that says ready found every dependency up
\* between the request and the answer (CompositeReadinessCheck).
THEOREM ReadyAnswersAreTrue == Spec => []ReadyWasReady
<1>1. IInv => ReadyWasReady
  BY DEF IInv, Service!IInv, Service!ChecksSawTheirDependency, ReadyWasReady
<1> QED
  BY <1>1, Invariance, PTL

\* For any number of concurrent frameworks and any keys: a framework that was
\* built runs in the region the process reports (register_runtime_region).
THEOREM RegistrationsAgree == Spec => []OneRegion
<1>1. IInv => OneRegion
  BY DEF IInv, Region!IInv, OneRegion
<1> QED
  BY <1>1, Invariance, PTL

\* For every limit and window: no stretch as long as the window has more than two
\* windows' messages, and only callers with a principal are answered
\* (ws_interceptors.rs MessageRateLimit).
THEOREM MessageBurstsAreBounded == Spec => []MessageBurstBounded
<1>1. ASSUME Socket!IInv
      PROVE  Socket!MessageBurstBounded
  <2>1. Socket!TypeOK /\ Socket!EchoesAreSpread /\ now \in Nat /\ (echoed # <<>> => principal)
    BY <1>1 DEF Socket!IInv, Socket!TypeOK
  <2>2. \A t \in 0..now :
          Socket!Cardinality({i \in DOMAIN echoed : echoed[i] \in t..t + Window}) <= 2 * Socket!Burst
    BY <2>1, BurstFromSpread
  <2> QED
    BY <2>1, <2>2 DEF Socket!MessageBurstBounded, Socket!Burst
<1>2. IInv => MessageBurstBounded
  BY <1>1 DEF IInv, MessageBurstBounded
<1> QED
  BY <1>2, Invariance, PTL

\* Whatever an application wires, in whatever order, in a process declared as
\* production nothing falls back to a test double and no origin passes that was
\* not named (framework.rs build, production_assembly.rs, security.rs
\* validate_for_production).
THEOREM ProductionIsWired == Spec => []ProductionRunsNoFallback
<1>1. ASSUME Builder!IInv
      PROVE  Builder!ProductionRunsNoFallback
  <2> SUFFICES ASSUME phase = "built", process \in {"prod", "production"}
               PROVE  /\ builder.policy.rateLimit
                      /\ resolver.profile # "Unspecified"
                      /\ \A slot \in {"authorization", "tenant_isolation", "audit_emitter", "security_event_emitter"} :
                            builder.wired[slot] # Unset
                      /\ builder.standalone \/
                         \A slot \in {"rate_limit_store", "idempotency_store", "concurrent_admission_store"} :
                            builder.wired[slot] # Unset /\ builder.wired[slot] \in {"postgres", "redis"}
    BY DEF Builder!ProductionRunsNoFallback, Builder!Runtime
  <2>1. Builder!ValidateDeploymentEnvironment(builder) /\ Builder!ValidateProductionAssembly(builder)
    BY <1>1 DEF Builder!IInv, Builder!BuiltWasValidated
  <2>2. Builder!RequiresProductionAssembly(builder.profile.env, builder.defaults)
    BY <2>1 DEF Builder!ValidateDeploymentEnvironment
  <2> QED
    BY <2>1, <2>2
       DEF Builder!ValidateProductionAssembly, Builder!ValidateSaasAssembly, Builder!Missing,
           Builder!UsesMemoryStore, Builder!IsDistributedHa
<1>2. ASSUME Builder!IInv
      PROVE  Builder!ProductionOriginsAreNamed(Origins)
  <2> SUFFICES ASSUME phase = "built",
                      Builder!RequiresProductionAssembly(builder.profile.env, builder.defaults),
                      NEW o \in Origins, Builder!AllowsOrigin(builder.policy.cors, o)
               PROVE  \/ [kind |-> "exact", origin |-> o] \in builder.policy.cors.entries
                      \/ o.scheme \notin {"http", "https"}
                      \/ o.host.kind = "name" /\ o.host.base \in RegisteredBase /\ ~o.host.nested
    BY DEF Builder!ProductionOriginsAreNamed
  <2>1. PICK cors : cors = builder.policy.cors
    OBVIOUS
  <2>2. Builder!ValidateForProduction(cors) /\ \A e \in cors.entries : Builder!IsEntry(e)
    BY <1>2, <2>1 DEF Builder!IInv, Builder!BuilderOK, Builder!BuiltWasValidated, Builder!ValidateProductionAssembly
  <2>3. CASE \E e \in cors.entries : Builder!OriginMatchesAllowed(e, o)
    <3>1. PICK e \in cors.entries : Builder!OriginMatchesAllowed(e, o)
      BY <2>3
    <3>2. Builder!IsEntry(e) /\ e.kind \notin {"loopback", "private"}
      BY <2>2 DEF Builder!ValidateForProduction, Builder!IsPortWildcard
    <3>3. CASE e.kind = "exact" /\ e = [kind |-> "exact", origin |-> e.origin]
      <4>1. e.origin = o
        BY <3>1, <3>3 DEF Builder!OriginMatchesAllowed
      <4> QED
        BY <2>1, <3>3, <4>1
    <3>4. CASE e.kind = "shell" /\ e.scheme \in {"app", "tauri"}
      BY <3>1, <3>4 DEF Builder!OriginMatchesAllowed
    <3> QED
      BY <3>2, <3>3, <3>4 DEF Builder!IsEntry
  <2>4. CASE cors.hosts # NoHosts /\ Builder!ConsoleHostsMatch(cors.hosts, o)
    BY <2>2, <2>4 DEF Builder!ValidateForProduction, Builder!ConsoleHostsValid, Builder!ConsoleHostsMatch
  <2> QED
    BY <2>1, <2>2, <2>3, <2>4 DEF Builder!AllowsOrigin, Builder!ValidateForProduction
<1>3. IInv => ProductionRunsNoFallback
  BY <1>1, <1>2 DEF IInv, ProductionRunsNoFallback
<1> QED
  BY <1>3, Invariance, PTL

\* However owners register, mount each other and spell their parameters, and for
\* every number of routes: match_route finds the route whose handler runs, so a
\* request is held to the authentication that handler declares.
THEOREM HandlersKeepTheirAuth == Spec => []HandlerKeepsItsAuth
<1>1. IInv => HandlerKeepsItsAuth
  BY HandlersKeep DEF IInv, HandlerKeepsItsAuth
<1> QED
  BY <1>1, Invariance, PTL

\* For any owners, routes and documents, generated or written by hand: the combined
\* document of a profile has one operation per route, the one of the document of
\* the owner that declares the route, with the route's authentication as its mode
\* (validate, validate_openapi_ownership, try_compose).
THEOREM DocumentsSpeakForOwners == Spec => []DocumentSpeaksForOwners
<1>1. IInv => DocumentSpeaksForOwners
  BY DocumentsSpeak DEF IInv, DocumentSpeaksForOwners
<1> QED
  BY <1>1, Invariance, PTL

\* For any number of documents: in every order in which the contributions of a
\* profile are handed to the merge they merge, into the same operations and keys
\* and a version of the same line and patch, whatever its text
\* (merge_owned_documents).
THEOREM MergesAreOrderFree == Spec => []MergeIsOrderFree
<1>1. IInv => MergeIsOrderFree
  BY MergesKeep DEF IInv, MergeIsOrderFree
<1> QED
  BY <1>1, Invariance, PTL

\* For any modules, orders, tables and fragments, also after files were edited:
\* no table of a dependency is replaced by the application's, and no list entry of
\* a fragment is lost (compose_schema_registry, compose_frontend_field_contract).
THEOREM OwnersKeepTables == Spec => []OwnersKeepTheirTables
<1>1. IInv => OwnersKeepTheirTables
  BY OwnersKeep DEF IInv, OwnersKeepTheirTables
<1> QED
  BY <1>1, Invariance, PTL

===============================================================================
