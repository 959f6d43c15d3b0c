-------------------------- MODULE MCRequestPipeline --------------------------
(* Instances of RequestPipeline for TLC. *)
EXTENDS RequestPipeline, TLC

\* Requests and fingerprints are only compared for equality.
Symmetry == Permutations(Request) \cup Permutations(Fingerprint)

=============================================================================
