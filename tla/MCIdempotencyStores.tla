-------------------------- MODULE MCIdempotencyStores --------------------------
(* Instances of IdempotencyStores for TLC. *)
EXTENDS IdempotencyStores, TLC

\* Callers and fingerprints are only compared for equality.
StoresSymmetry == Permutations(Caller) \cup Permutations(Fingerprint)

===============================================================================
