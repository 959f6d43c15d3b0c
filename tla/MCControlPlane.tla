---------------------------- MODULE MCControlPlane ----------------------------
(* Instances of ControlPlane for TLC. *)
EXTENDS ControlPlane, TLC

CONSTANTS t1, tier1

\* One tenant asks for a tier with a policy of its own.
MCKey == {[tenant |-> t1, tier |-> tier1]}

\* One user of one organization in two sessions.
MCSubject == {[tenant |-> t1, organization |-> "o1", user |-> "u1", context |-> c] : c \in {"s1", "s2"}}

\* Callers of the node registry are only compared for equality.
ControlPlaneSymmetry == Permutations(Caller)

===============================================================================
