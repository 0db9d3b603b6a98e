--------------------------- MODULE SnapshotRestore ----------------------------
(***************************************************************************)
(* Snapshots of a sharded graph and the graphs restored from them          *)
(* (create_snapshot, restore_from_snapshot, replay_operation_log and       *)
(* verify_recovery of src/persistence.rs).  A snapshot records what each   *)
(* shard stores, replicas included, and the placement as text; restoring   *)
(* puts each user where the placement that is read back has it.            *)
(*                                                                         *)
(* Shards are 0 .. n - 1 and Home is what ThePlacement says.  Users have   *)
(* one name each, so verify_recovery's comparison of names never fails.    *)
(***************************************************************************)
EXTENDS ShardedGraph

CONSTANTS ThePlacement,  \* the placement of the graph
          MaxId,         \* the largest user ID
          MaxReplay      \* bound of the model on the operations replayed

Text == INSTANCE Placement

ASSUME SnapshotAssumption ==
    /\ IsFiniteSet(Users) /\ IsFiniteSet(Shards)
    /\ Shards = 0 .. Cardinality(Shards) - 1
    /\ ThePlacement \in Text!Placements
    /\ Text!Valid(ThePlacement, Cardinality(Shards))
    /\ Home = [u \in Users |-> Text!ShardFor(ThePlacement, Cardinality(Shards), u)]
    /\ MaxReplay \in Nat

VARIABLES snapshot,   \* the last snapshot, or None
          reference,  \* the lookups of the graph when it was taken, until operations are
                      \* replayed; no code reads it
          recovered   \* the graph restored from it, or None

recoveryVars == <<snapshot, reference, recovered>>

systemVars == <<users, follows, cache, observed, replicated, op, snapshot, reference, recovered>>

None == [kind |-> "none"]

-----------------------------------------------------------------------------
\* create_snapshot: the users of each shard with their lists.  The order within
\* a shard is that of a hash map and does not matter to what is restored.
CreateSnapshot ==
    /\ snapshot' = [shard_count |-> Cardinality(Shards),
                    placement_info |-> Text!Info(ThePlacement),
                    users |-> users,
                    lists |-> [s \in Shards |-> [u \in users[s] |-> follows[s][u]]]]
    /\ reference' = [known |-> KnownUsers, lists |-> Lists]
    /\ recovered' = None
    /\ UNCHANGED vars

\* Users are added in the order of the shards; a second one with the same ID is
\* refused, and so is one outside the placement.
RestoredUsers(s, p) ==
    {u \in UNION {s.users[i] : i \in DOMAIN s.users} :
        Text!ShardFor(p, s.shard_count, u) # NoShard}

\* The edges of u, shard by shard; a target already listed is not added again.
RestoredList(s, u) ==
    FoldLeft(LAMBDA list, i : IF u \in s.users[i - 1] THEN Merge(list, s.lists[i - 1][u]) ELSE list,
             <<>>, [i \in 1 .. s.shard_count |-> i])

\* restore_from_snapshot: a graph without replicas, or an error for a placement
\* that cannot be read or is not accepted; the errors of the calls are ignored.
\* The model restores a snapshot once.
Restore ==
    /\ snapshot # None
    /\ LET p == Text!Parse(snapshot.placement_info)
           known == RestoredUsers(snapshot, p)
       IN recovered' =
             IF p = Text!Unreadable \/ ~Text!Valid(p, snapshot.shard_count) THEN [kind |-> "failed"]
             ELSE [kind |-> "graph", shard_count |-> snapshot.shard_count, placement |-> p,
                   known |-> known, replayed |-> 0,
                   lists |-> [u \in Users |->
                                 IF u \in known
                                 THEN Kept(RestoredList(snapshot, u), known)
                                 ELSE <<>>]]
    /\ snapshot' = None
    /\ UNCHANGED <<vars, reference>>

HasRecovered == recovered.kind = "graph"

\* replay_operation_log: one logged operation, applied to the restored graph.
Replay ==
    /\ HasRecovered
    /\ recovered.replayed < MaxReplay
    /\ \/ \E u \in Users :
             /\ Text!ShardFor(recovered.placement, recovered.shard_count, u) # NoShard
             /\ recovered' = [recovered EXCEPT !.known = @ \cup {u}, !.replayed = @ + 1]
       \/ \E u, v \in recovered.known :
             \/ recovered' = [recovered EXCEPT !.lists[u] = WithTarget(@, v), !.replayed = @ + 1]
             \/ recovered' = [recovered EXCEPT !.lists[u] = Without(@, v), !.replayed = @ + 1]
    /\ reference' = None
    /\ UNCHANGED <<vars, snapshot>>

-----------------------------------------------------------------------------
(* verify_recovery *)

Total(counts) == MapThenSumSet(LAMBDA i : counts[i], DOMAIN counts)

\* user_count and edge_count of the sharded graph: the sums over its shards.
UserCount == Total([s \in Shards |-> Cardinality(users[s])])

EdgeCount == Total([s \in Shards |-> Total([u \in Users |-> Len(follows[s][u])])])

\* Mutant of VerifyRecovery: the counts of edges are compared, not the edges.
VerifyRecoveryCounts ==
    /\ Cardinality(Shards) = recovered.shard_count
    /\ UserCount = Cardinality(recovered.known)
    /\ EdgeCount = Total([u \in Users |-> Len(recovered.lists[u])])
    /\ \A u \in UNION {users[s] : s \in Shards} : Known(u) <=> u \in recovered.known

\* verify_recovery(graph, recovered) is Ok: the counts are those of all shards,
\* the users compared those stored on any shard of the graph, and lists are
\* compared without their order.
VerifyRecovery ==
    /\ Cardinality(Shards) = recovered.shard_count
    /\ UserCount = Cardinality(recovered.known)
    /\ EdgeCount = Total([u \in Users |-> Len(recovered.lists[u])])
    /\ \A u \in UNION {users[s] : s \in Shards} :
          /\ Known(u) <=> u \in recovered.known
          /\ ToSet(Following(u)) = ToSet(recovered.lists[u])

-----------------------------------------------------------------------------
SnapshotInit == Init /\ snapshot = None /\ reference = None /\ recovered = None

RecoveryCall == CreateSnapshot \/ Restore \/ Replay

\* The calls that change what is stored, by callers aware of replicas.
StoringCall ==
    \/ \E u \in Users : NewUser(u) \/ ReplicateUser(u) \/ UnreplicateUser(u)
    \/ \E u, v \in Users : AddFollowReplicated(u, v) \/ RemoveFollowReplicated(u, v)

RecoverySpec ==
    SnapshotInit /\ [][RecoveryCall \/ (StoringCall /\ UNCHANGED recoveryVars)]_systemVars

-----------------------------------------------------------------------------
(* Properties *)

Restored == HasRecovered /\ recovered.replayed = 0

\* A snapshot can be restored, and the graph restored answers every lookup as
\* the original did: the same users, lists in the same order, shards and
\* placement, with replicas, in spite of the errors restoring ignores.
RestoreExact ==
    /\ recovered.kind # "failed"
    /\ Restored =>
          /\ recovered.known = reference.known
          /\ recovered.lists = reference.lists
          /\ recovered.shard_count = Cardinality(Shards)
          /\ \A u \in Users : Text!ShardFor(recovered.placement, recovered.shard_count, u) = Home[u]

SameGraph ==
    /\ recovered.known = KnownUsers
    /\ \A u \in Users : ToSet(recovered.lists[u]) = ToSet(Following(u))

\* For a graph without replicas, verify_recovery accepts exactly the graphs that
\* answer every lookup alike, however both came about.
VerifyDecides == (HasRecovered /\ replicated = {}) => (VerifyRecovery <=> SameGraph)
=============================================================================
