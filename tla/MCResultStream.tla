--------------------------- MODULE MCResultStream ---------------------------
(* Two calls that compete for a buffer smaller than what they send. *)
EXTENDS ResultStream
=============================================================================
