---------------------------- MODULE MCRateLimiter ----------------------------
(***************************************************************************)
(* Model-checking instance of RateLimiter.                                 *)
(***************************************************************************)
EXTENDS RateLimiter, TLC

\* Calls and keys are interchangeable identities.
Symmetry == Permutations(Calls) \cup Permutations(Keys)

=============================================================================
