--------------------------- MODULE MCShardedGraph ----------------------------
(* Instances of ShardedGraph for TLC: hash placement, user 0 unplaced. *)
EXTENDS ShardedGraph

MCHome == [u \in Users |-> IF u = 0 THEN NoShard ELSE u % Cardinality(Shards)]
=============================================================================
