-------------------------- MODULE MCAlertFailover --------------------------
(* Two replicas and three terms, so that a replica can lead again; two      *)
(* episodes, so that state of the first can leak into the second; a         *)
(* debounce of two, so that a pass can stop half way to firing.             *)
EXTENDS AlertFailover

CONSTANTS r1, r2

MCReplicas == {r1, r2}
=============================================================================
