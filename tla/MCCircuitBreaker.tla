-------------------------- MODULE MCCircuitBreaker --------------------------
(***************************************************************************)
(* Model-checking instance of CircuitBreaker.  Liveness is checked, so no  *)
(* symmetry is used.                                                       *)
(***************************************************************************)
EXTENDS CircuitBreaker

=============================================================================
