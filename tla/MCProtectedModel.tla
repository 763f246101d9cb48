-------------------------- MODULE MCProtectedModel --------------------------
(* Callers that share one breaker and one limiter. *)
EXTENDS ProtectedModel
=============================================================================
