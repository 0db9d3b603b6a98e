------------------------- MODULE MCDistributedGraph --------------------------
(* Instances of DistributedGraph for TLC. *)
EXTENDS DistributedGraph, TLC

MCHome == [u \in Users |-> u % Cardinality(Shards)]

\* Hops on both shards, one of them the source itself.
MCPairsFan == {<<2, 1>>, <<2, 2>>}

Symmetry == Permutations(Clients)
=============================================================================
