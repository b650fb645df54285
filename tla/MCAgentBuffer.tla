--------------------------- MODULE MCAgentBuffer ---------------------------
(* Plain results of one and four cells, one undecodable, one of a newer version. *)
EXTENDS AgentBuffer

CONSTANTS a, b, x, f

MCSize == [r \in Results |-> IF r = b THEN 4 ELSE 1]
=============================================================================
