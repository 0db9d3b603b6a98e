---------------------------- MODULE ShardedGraph -----------------------------
(***************************************************************************)
(* The in-process sharded graph with hot-node replication and one adjacency *)
(* cache per shard (src/sharded.rs, src/replication.rs, over Graph of       *)
(* src/lib.rs).                                                            *)
(*                                                                         *)
(* Every method that changes state takes &mut self, so calls do not overlap: *)
(* while a cached query or a hub replication runs, `op' is not Idle and no  *)
(* other call starts.  Those two are modelled one iteration of their loop   *)
(* at a time, the others as one step.  A call the code refuses, or that     *)
(* finds nothing to do, changes nothing and is not a step.                  *)
(***************************************************************************)
EXTENDS BoundedCache, AdjacencyLists

CONSTANTS Users,
          Shards,
          NoShard,    \* try_shard_for's None
          Home,       \* try_shard_for: user -> shard, or NoShard outside the placement
          MaxDegree,  \* bound of the model on the length of an adjacency list
          MaxCount,   \* where an observed access count saturates (u64::MAX)
          MaxHubs     \* bound of the model on the hub list of one call

ASSUME ShardedAssumption ==
    /\ Users \subseteq Nat
    /\ NoShard \notin Shards
    /\ Home \in [Users -> Shards \cup {NoShard}]
    /\ MaxDegree \in Nat
    /\ MaxCount \in Nat
    /\ MaxHubs \in Nat

VARIABLES users,       \* users[s]: keys of shard s's user table
          follows,     \* follows[s][u]: the list shard s holds for u, <<>> if none
          cache,       \* cache[s]: the adjacency cache of shard s
          observed,    \* observed[s][u]: counted reads of u's list on shard s
          replicated,  \* users marked as replicated on every shard
          op           \* the multi-step call under way

vars == <<users, follows, cache, observed, replicated, op>>

Idle == [kind |-> "idle"]

-----------------------------------------------------------------------------
(* Lookups *)

Placed == {u \in Users : Home[u] # NoShard}

\* get_user(u) finds u: the lookup goes to the home shard only.
Known(u) == u \in Placed /\ u \in users[Home[u]]

\* get_following_ids(u), the list of the home shard.
Following(u) == IF u \in Placed THEN follows[Home[u]][u] ELSE <<>>

\* Mutants of LocalFirst: any read is taken for a local one; any list found on
\* the requesting shard is taken for a replica.
LocalAlways(u, r) == r

LocalIfListed(u, r) == IF follows[r][u] # <<>> THEN r ELSE Home[u]

\* shard_for_user_local_first(u, r)
LocalFirst(u, r) == IF u \in replicated /\ u \in users[r] THEN r ELSE Home[u]

\* All the lists a caller sees.
Lists == [u \in Users |-> Following(u)]

\* Mutant of ReplicaShards: the home shard is not skipped.
ReplicaShardsAll(u) == Shards

ReplicaShards(u) == Shards \ {Home[u]}

\* Mutant of Copies: replicas are forgotten.
CopiesHomeOnly(u) == {Home[u]}

\* The shards a replica-aware edge mutation of u reaches.
Copies(u) == IF u \in replicated THEN Shards ELSE {Home[u]}

-----------------------------------------------------------------------------
Init ==
    /\ users = [s \in Shards |-> {}]
    /\ follows = [s \in Shards |-> [u \in Users |-> <<>>]]
    /\ cache = [s \in Shards |-> <<>>]
    /\ observed = [s \in Shards |-> [u \in Users |-> 0]]
    /\ replicated = {}
    /\ op = Idle

\* Mutant of NewUser: the user goes to every shard.
NewUserEverywhere(u) ==
    /\ op = Idle
    /\ u \in Placed
    /\ u \notin users[Home[u]]
    /\ users' = [s \in Shards |-> users[s] \cup {u}]
    /\ UNCHANGED <<follows, cache, observed, replicated, op>>

\* add_user: Graph::add_user of the home shard refuses a user it has.
NewUser(u) ==
    /\ op = Idle
    /\ u \in Placed
    /\ u \notin users[Home[u]]
    /\ users' = [users EXCEPT ![Home[u]] = @ \cup {u}]
    /\ UNCHANGED <<follows, cache, observed, replicated, op>>

\* Mutant of Follow: the target is not looked up.
FollowAnyone(u, v, S) ==
    /\ op = Idle
    /\ Known(u)
    /\ v \notin ToSet(Following(u))
    /\ Len(Following(u)) < MaxDegree
    /\ follows' = [s \in Shards |->
                      IF s \in S THEN [follows[s] EXCEPT ![u] = WithTarget(@, v)] ELSE follows[s]]
    /\ cache' = [s \in Shards |-> IF s \in S THEN Drop(cache[s], u) ELSE cache[s]]
    /\ UNCHANGED <<users, observed, replicated, op>>

\* An edge that is new on the home shard goes to the shards S, whose cached
\* lists of u are invalidated.
Follow(u, v, S) ==
    /\ op = Idle
    /\ Known(u) /\ Known(v)
    /\ v \notin ToSet(Following(u))
    /\ Len(Following(u)) < MaxDegree
    /\ follows' = [s \in Shards |->
                      IF s \in S /\ u \in users[s]
                      THEN [follows[s] EXCEPT ![u] = WithTarget(@, v)]
                      ELSE follows[s]]
    /\ cache' = [s \in Shards |-> IF s \in S THEN Drop(cache[s], u) ELSE cache[s]]
    /\ UNCHANGED <<users, observed, replicated, op>>

\* An edge the home shard has is removed from the shards S, likewise.
Unfollow(u, v, S) ==
    /\ op = Idle
    /\ Known(u) /\ Known(v)
    /\ v \in ToSet(Following(u))
    /\ follows' = [s \in Shards |->
                      IF s \in S /\ u \in users[s]
                      THEN [follows[s] EXCEPT ![u] = Without(@, v)]
                      ELSE follows[s]]
    /\ cache' = [s \in Shards |-> IF s \in S THEN Drop(cache[s], u) ELSE cache[s]]
    /\ UNCHANGED <<users, observed, replicated, op>>

\* add_follow and remove_follow of ShardedGraph touch the home shard only.
PlainAddFollow(u, v) == Follow(u, v, {Home[u]})

PlainRemoveFollow(u, v) == Unfollow(u, v, {Home[u]})

AddFollowReplicated(u, v) == Follow(u, v, Copies(u))

RemoveFollowReplicated(u, v) == Unfollow(u, v, Copies(u))

-----------------------------------------------------------------------------
(* Replication *)

\* replicate_user past its early returns: every other shard gets the user,
\* the missing edges of the home list, and a cache entry.
Replicate(u) ==
    /\ Known(u)
    /\ u \notin replicated
    /\ users' = [s \in Shards |-> users[s] \cup {u}]
    /\ follows' = [s \in Shards |->
                      IF s = Home[u] THEN follows[s]
                      ELSE [follows[s] EXCEPT ![u] = Merge(@, Following(u))]]
    /\ replicated' = replicated \cup {u}
    /\ LET Outcomes(s) == IF s = Home[u] THEN {cache[s]}
                          ELSE InsertOutcomes(cache[s], u, Following(u))
       IN \E c \in [Shards -> UNION {Outcomes(s) : s \in Shards}] :
              /\ \A s \in Shards : c[s] \in Outcomes(s)
              /\ cache' = c
    /\ UNCHANGED observed

ReplicateUser(u) == op = Idle /\ Replicate(u) /\ UNCHANGED op

\* unreplicate_user: the edges of the home list and a self-edge leave the
\* other shards, then the user does.
UnreplicateUser(u) ==
    /\ op = Idle
    /\ u \in replicated
    /\ follows' = [s \in Shards |->
                      IF s \in ReplicaShards(u) /\ u \in users[s]
                      THEN [follows[s] EXCEPT ![u] = Minus(@, Append(Following(u), u))]
                      ELSE follows[s]]
    /\ users' = [s \in Shards |-> IF s = Home[u] THEN users[s] ELSE users[s] \ {u}]
    /\ cache' = [s \in Shards |-> IF s = Home[u] THEN cache[s] ELSE Drop(cache[s], u)]
    /\ replicated' = replicated \ {u}
    /\ UNCHANGED <<observed, op>>

\* auto_replicate_hubs(hubs): an unplaced hub is skipped, a placed one that is
\* not known ends the call with an error; hubs done before stay replicated.
HubsBegin(hubs) ==
    /\ op = Idle
    /\ op' = [kind |-> "hubs", todo |-> hubs]
    /\ UNCHANGED <<users, follows, cache, observed, replicated>>

HubsReplicate ==
    /\ op.kind = "hubs" /\ op.todo # <<>>
    /\ Replicate(Head(op.todo))
    /\ op' = [op EXCEPT !.todo = Tail(@)]

HubsSkip ==
    /\ op.kind = "hubs" /\ op.todo # <<>>
    /\ Head(op.todo) \in replicated \/ Head(op.todo) \notin Placed
    /\ op' = [op EXCEPT !.todo = Tail(@)]
    /\ UNCHANGED <<users, follows, cache, observed, replicated>>

HubsAbort ==
    /\ op.kind = "hubs" /\ op.todo # <<>>
    /\ Head(op.todo) \in Placed /\ ~Known(Head(op.todo))
    /\ op' = Idle
    /\ UNCHANGED <<users, follows, cache, observed, replicated>>

HubsEnd ==
    /\ op.kind = "hubs" /\ op.todo = <<>>
    /\ op' = Idle
    /\ UNCHANGED <<users, follows, cache, observed, replicated>>

-----------------------------------------------------------------------------
(* get_two_hop_with_cache_stats *)

\* Mutant of QueryBegin: a source outside the placement is not turned away.
QueryBeginAnywhere(u) ==
    /\ op = Idle
    /\ op' = [kind |-> "query", source |-> u, hops |-> Following(u), read |-> 0, ids |-> {}]
    /\ UNCHANGED <<users, follows, cache, observed, replicated>>

\* The list of first hops is copied before the first read.
QueryBegin(u) ==
    /\ op = Idle
    /\ u \in Placed
    /\ op' = [kind |-> "query", source |-> u, hops |-> Following(u), read |-> 0, ids |-> {}]
    /\ UNCHANGED <<users, follows, cache, observed, replicated>>

\* One first hop: the replica of the source's shard is preferred, the read is
\* counted, and a miss caches the list of that shard.
QueryRead ==
    /\ op.kind = "query" /\ op.read < Len(op.hops)
    /\ LET v == op.hops[op.read + 1]
           s == LocalFirst(v, Home[op.source])
           hit == v \in DOMAIN cache[s]
           list == IF hit THEN cache[s][v] ELSE follows[s][v]
       IN /\ observed' = [observed EXCEPT ![s][v] = IF @ < MaxCount THEN @ + 1 ELSE @]
          /\ \E c \in (IF hit THEN {cache[s]} ELSE InsertOutcomes(cache[s], v, list)) :
                 cache' = [cache EXCEPT ![s] = c]
          /\ op' = [op EXCEPT !.read = @ + 1,
                              !.ids = @ \cup ((ToSet(list) \cap Placed) \ {op.source})]
    /\ UNCHANGED <<users, follows, replicated>>

QueryDone == op.kind = "query" /\ op.read = Len(op.hops)

QueryEnd ==
    /\ QueryDone
    /\ op' = Idle
    /\ UNCHANGED <<users, follows, cache, observed, replicated>>

-----------------------------------------------------------------------------
(* Warming *)

\* warm_cache_for_user
WarmUser(u) ==
    /\ op = Idle
    /\ Known(u)
    /\ \E c \in InsertOutcomes(cache[Home[u]], u, Following(u)) :
           cache' = [cache EXCEPT ![Home[u]] = c]
    /\ UNCHANGED <<users, follows, observed, replicated, op>>

Seen(s) == {u \in Users : observed[s][u] > 0}

\* The order of warming: more reads first, the lower user ID on a tie.
Hotter(s, u, v) ==
    \/ observed[s][u] > observed[s][v]
    \/ observed[s][u] = observed[s][v] /\ u < v

Selected(s, limit) ==
    {u \in Seen(s) : Cardinality({v \in Seen(s) : Hotter(s, v, u)}) < limit}

\* warm_cache_from_observed_traffic(k): each cache is cleared and filled with
\* the hottest users of its shard, the hottest last.
WarmFromObserved(k) ==
    /\ op = Idle
    /\ LET limit == IF k < Capacity THEN k ELSE Capacity
           Chosen(s) == {u \in Selected(s, limit) : ~Oversized(follows[s][u])}
           Hottest(s) == CHOOSE u \in Chosen(s) : \A v \in Chosen(s) \ {u} : Hotter(s, u, v)
           Outcomes(s) == FillOutcomes(follows[s], Chosen(s), Hottest(s))
       IN \E c \in [Shards -> UNION {Outcomes(s) : s \in Shards}] :
              /\ \A s \in Shards : c[s] \in Outcomes(s)
              /\ cache' = c
    /\ UNCHANGED <<users, follows, observed, replicated, op>>

ClearObserved ==
    /\ op = Idle
    /\ observed' = [s \in Shards |-> [u \in Users |-> 0]]
    /\ UNCHANGED <<users, follows, cache, replicated, op>>

-----------------------------------------------------------------------------
\* What every caller may do.
CommonNext ==
    \/ \E u \in Users : \/ NewUser(u) \/ ReplicateUser(u) \/ UnreplicateUser(u)
                        \/ QueryBegin(u) \/ WarmUser(u)
    \/ \E u, v \in Users : AddFollowReplicated(u, v) \/ RemoveFollowReplicated(u, v)
    \/ \E hubs \in SeqOf(Users, MaxHubs) : HubsBegin(hubs)
    \/ HubsReplicate \/ HubsSkip \/ HubsAbort \/ HubsEnd
    \/ QueryRead \/ QueryEnd
    \/ \E k \in 1 .. Capacity : WarmFromObserved(k)
    \/ ClearObserved

\* The whole public API.
ApiNext ==
    \/ CommonNext
    \/ \E u, v \in Users : PlainAddFollow(u, v) \/ PlainRemoveFollow(u, v)

ApiSpec == Init /\ [][ApiNext]_vars

\* Callers that mutate a replicated user only by the *_replicated methods.
AwareNext ==
    \/ CommonNext
    \/ \E u \in Users \ replicated, v \in Users : PlainAddFollow(u, v) \/ PlainRemoveFollow(u, v)

AwareSpec == Init /\ [][AwareNext]_vars

-----------------------------------------------------------------------------
(* Properties *)

CallOK ==
    \/ op = Idle
    \/ op \in [kind : {"hubs"}, todo : Seq(Users)]
    \/ op \in [kind : {"query"}, source : Placed, hops : Seq(Users), read : Nat, ids : SUBSET Users]

\* The shape of the state: which shards, users, lists and calls occur.
TypeOK ==
    /\ users \in [Shards -> SUBSET Users]
    /\ follows \in [Shards -> [Users -> Seq(Users)]]
    /\ \A s \in Shards : DOMAIN cache[s] \subseteq Users
    /\ \A s \in Shards : \A u \in DOMAIN cache[s] : cache[s][u] \in Seq(Users)
    /\ observed \in [Shards -> [Users -> Nat]]
    /\ replicated \subseteq Placed
    /\ CallOK

\* "Identical adjacency lists on every shard": every shard has a replicated
\* user, with the list of the home shard in the same order.
ReplicasMirrorHome ==
    \A u \in replicated, s \in Shards : u \in users[s] /\ follows[s][u] = Following(u)

\* Nothing of a user that is not replicated is left on a foreign shard, so
\* that replicating it again starts from the home list alone.
NoLeftovers ==
    \A u \in Placed \ replicated : \A s \in ReplicaShards(u) :
        u \notin users[s] /\ follows[s][u] = <<>>

\* A cached list is the list its shard holds, whatever calls came between.
CachesCoherent ==
    \A s \in Shards : \A u \in DOMAIN cache[s] : cache[s][u] = follows[s][u]

\* Both ends of an edge exist and are placed: the lookups of a query on hops
\* and second hops never come back empty-handed.
EdgesKnown ==
    \A u \in Placed : \A v \in ToSet(Following(u)) : Known(u) /\ Known(v)

\* No list names a user twice.
NoRepeats == \A u \in Placed : IsInjective(Following(u))

\* A cached, replica-reading query answers what the uncached one over the home
\* shards (get_two_hop_with_stats) would.
Exact == op.ids = TwoHop(Lists, op.source)

QueryExact == QueryDone => Exact

\* What the lists of the first k hops hold, the source left out.
Found(lists, hops, k, source) ==
    {x \in Users \ {source} : \E i \in 1 .. k : x \in ToSet(lists[hops[i]])}

\* Half-way, a query has found what the lists read so far hold.
QueryPartial ==
    op.kind = "query" =>
        /\ op.hops = Following(op.source)
        /\ op.read \in 0 .. Len(op.hops)
        /\ op.ids = Found(Lists, op.hops, op.read, op.source)

\* The inductive invariant of AwareSpec.
IInv ==
    /\ TypeOK
    /\ EdgesKnown
    /\ NoRepeats
    /\ ReplicasMirrorHome
    /\ NoLeftovers
    /\ CachesCoherent
    /\ QueryPartial

\* The home shard's cache is coherent even when replicated users are mutated by
\* the plain methods.
HomeCacheCoherent ==
    \A u \in Placed : u \in DOMAIN cache[Home[u]] => cache[Home[u]][u] = Following(u)

\* A foreign shard has a user exactly while it is replicated.
ReplicaPresence ==
    \A u \in Placed : \A s \in ReplicaShards(u) : u \in users[s] <=> u \in replicated

\* Whatever callers do, a wrong answer needs a first hop that is replicated:
\* no trace of a replica taken down is ever read.
ExactWithoutReplicas ==
    (QueryDone /\ \A i \in DOMAIN op.hops : op.hops[i] \notin replicated) => Exact

\* Sharding, replication, caching and warming are invisible: the calls are
\* those of one graph, and each answer is computed from that graph.
KnownUsers == {u \in Users : Known(u)}

Answer == IF QueryDone THEN [source |-> op.source, ids |-> op.ids] ELSE Idle

Graph == INSTANCE FollowGraph
            WITH known <- KnownUsers, following <- Lists, answer <- Answer, NoAnswer <- Idle

GraphSpec == Graph!Spec
=============================================================================
