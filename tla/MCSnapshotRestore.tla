-------------------------- MODULE MCSnapshotRestore ---------------------------
(* An instance of SnapshotRestore for TLC. *)
EXTENDS SnapshotRestore

\* Two communities of two users and of one, the first on shard 1.
MCBalanced == Text!BalancedCommunity(<<2, 1>>, <<1, 0>>)

MCBalancedHome == [u \in Users |-> Text!ShardFor(MCBalanced, Cardinality(Shards), u)]
=============================================================================
