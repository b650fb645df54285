-------------------------- MODULE MCResultPipeline --------------------------
(* One control-plane process on a partition of two records. *)
EXTENDS ResultPipeline
=============================================================================
