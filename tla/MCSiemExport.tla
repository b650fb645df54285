--------------------------- MODULE MCSiemExport ---------------------------
(* Two replicas, short streams: enough for a stolen claim, a late commit,  *)
(* a prune between two pages, and a receipt that must be exported in turn. *)
EXTENDS SiemExport

CONSTANTS r1, r2

MCReplicas == {r1, r2}
=============================================================================
