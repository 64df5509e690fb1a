-------------------------- MODULE MCCircuitBreaker --------------------------
(* A small instance of CircuitBreaker: three calls in flight at a time, a  *)
(* threshold of two failures and a timeout of three ticks.                 *)
EXTENDS CircuitBreaker
=============================================================================
