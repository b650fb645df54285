-------------------------- MODULE MCTenantErasure --------------------------
(* Two replicas, each able to erase, and two writers: leased stores beside a
   snapshot and a graph, an ordinary row beside an object and a snapshot, and
   an agent's artifact beside a leased object. *)
EXTENDS TenantErasure

CONSTANTS r1, r2, w1, w2

MCReplicas == {r1, r2}
MCWriters == {w1, w2}
MCPairs == {<<"flows", "snapshot">>, <<"flows", r1>>, <<"row", "objects">>,
            <<"row", "snapshot">>, <<"artifact", "objects">>}
MCJobs == {k \in [MCWriters -> Kinds] : <<k[w1], k[w2]>> \in MCPairs}
=============================================================================
