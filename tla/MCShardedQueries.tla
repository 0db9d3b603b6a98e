--------------------------- MODULE MCShardedQueries ----------------------------
(* Instances of ShardedQueries for TLC: hash placement, user 0 unplaced. *)
EXTENDS ShardedQueries

MCHome == [u \in Users |-> IF u = 0 THEN NoShard ELSE u % Cardinality(Shards)]
=============================================================================
