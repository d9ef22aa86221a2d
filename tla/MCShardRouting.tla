--------------------------- MODULE MCShardRouting ---------------------------
(* Three nodes.  The cluster has one shard with two replicas, of which the *)
(* write name resolves to one or the other, or a second shard as well, or  *)
(* a gap in its shard numbers; the write name may resolve to nothing.      *)
EXTENDS ShardRouting

CONSTANTS a, b, c, q1

MCReplicas == {a, b, c}
MCClusters == {{<<1, a>>, <<1, b>>},
               {<<1, a>>, <<1, b>>, <<2, c>>},
               {<<1, a>>, <<3, c>>}}
MCWriteSets == {{a, c}, {b, c}, {b}, {}}
MCRequests == {q1}
MCRowsOf == [q \in MCRequests |-> {4, 5}]
=============================================================================
