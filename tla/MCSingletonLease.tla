-------------------------- MODULE MCSingletonLease --------------------------
(* Two replicas, one guarded and one unguarded task. *)
EXTENDS SingletonLease

CONSTANTS r1, r2, retention, alerts

MCNodes == {r1, r2}
MCTasks == {retention, alerts}
MCGuarded == {retention}
=============================================================================
