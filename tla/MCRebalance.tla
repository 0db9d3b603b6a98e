----------------------------- MODULE MCRebalance ------------------------------
(* Instances of Rebalance for TLC: communities of two users, user 0 unplaced. *)
EXTENDS Rebalance

\* Placement::Community of two users each.
MCHome == [u \in Users |-> IF u = 0 THEN NoShard ELSE ((u - 1) \div 2) % Cardinality(Shards)]
=============================================================================
