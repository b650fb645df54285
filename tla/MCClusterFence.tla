--------------------------- MODULE MCClusterFence ---------------------------
(* Two Postgres nodes, one of them behind the read replica's endpoint. *)
EXTENDS ClusterFence
=============================================================================
