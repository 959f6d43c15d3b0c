---------------------------- MODULE MCRateLimiters ----------------------------
(* Instances of RateLimiters for TLC. *)
EXTENDS RateLimiters, TLC

\* Requests are only compared for equality.
CallerSymmetry == Permutations(Caller)

===============================================================================
