-------------------------- MODULE MCCircuitBreaker --------------------------
(* Two requests at a time; the circuit opens at half of two requests and   *)
(* closes after two successes.                                             *)
EXTENDS CircuitBreaker
=============================================================================
