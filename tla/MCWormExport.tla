--------------------------- MODULE MCWormExport ---------------------------
(* Two replicas and pages of two events: a page can grow between two reads *)
(* of it, so two exporters can name overlapping segments.                  *)
EXTENDS WormExport

CONSTANTS r1, r2

MCReplicas == {r1, r2}
=============================================================================
