----------------------------- MODULE RuntimeRegion ----------------------------
(***************************************************************************)
(* The process-wide default region: every framework built in a process      *)
(* resolves a code from its environment keys and registers it in a OnceLock *)
(* (core runtime_region.rs, bootstrap env_config.rs).  A code is            *)
(* [text, valid]; NoCode is an unset or blank key.                          *)
(***************************************************************************)
CONSTANTS
    Registrar,     \* frameworks built concurrently
    Code,          \* the values the keys can have
    NoCode, Global \* nothing configured, and the code it stands for

VARIABLES region, registrar  \* RUNTIME_REGION; the state of each registration

vars == <<region, registrar>>

Unregistered == NoCode

\* The application's key, then the shared one.
RegionCodeFromEnv(own, shared) ==
    IF own # NoCode THEN own ELSE IF shared # NoCode THEN shared ELSE Global

Init ==
    /\ region = Unregistered
    /\ registrar \in [Registrar -> {[state |-> "start", code |-> RegionCodeFromEnv(own, shared)] :
                        own \in Code \cup {NoCode}, shared \in Code \cup {NoCode}}]

Becomes(r, state) == registrar' = [registrar EXCEPT ![r].state = state]

\* An invalid code is refused; then the lock is read.
Get(r) ==
    /\ registrar[r].state = "start"
    /\ LET code == registrar[r].code IN
        \/ code.valid /\ region = Unregistered /\ Becomes(r, "setting")
        \/ code.valid /\ region = code /\ Becomes(r, "registered")
        \/ ~(code.valid /\ region \in {Unregistered, code}) /\ Becomes(r, "refused")
    /\ UNCHANGED region

\* OnceLock::set, and the winner read again when it fails.
SetOrReread(r) ==
    /\ registrar[r].state = "setting"
    /\ IF region = Unregistered
       THEN region' = registrar[r].code /\ Becomes(r, "registered")
       ELSE /\ Becomes(r, IF region = registrar[r].code THEN "registered" ELSE "refused")
            /\ UNCHANGED region

Next == \E r \in Registrar : Get(r) \/ SetOrReread(r)

Spec == Init /\ [][Next]_vars

\* Every framework that was built runs in the region the process reports, and no
\* two of them in different ones, however the first registrations race.
OneRegion == \A r \in Registrar : registrar[r].state = "registered" => region = registrar[r].code

TypeOK ==
    registrar \in [Registrar -> [state : {"start", "setting", "registered", "refused"}, code : Code \cup {Global}]]

\* The inductive invariant: a region somebody registered is in the lock.  Without
\* it a late registration could find the lock empty.
IInv ==
    /\ TypeOK
    /\ OneRegion
    /\ \A r \in Registrar : registrar[r].state = "registered" => region # Unregistered

===============================================================================
