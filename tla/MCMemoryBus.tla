---------------------------- MODULE MCMemoryBus ----------------------------
(* Two subscriptions, in one group or in two, one of which may leave. *)
EXTENDS MemoryBus

CONSTANTS s1, s2

MCSubs == {s1, s2}
MCLeavers == {s1}
=============================================================================
