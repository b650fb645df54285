----------------------------- MODULE MCBreaker ------------------------------
(* Four callers and a threshold of three failures. *)
EXTENDS Breaker
=============================================================================
