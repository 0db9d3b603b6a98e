---------------------------- MODULE ShardedQueries -----------------------------
(***************************************************************************)
(* The three ways to run a two-hop query over a sharded graph and what they *)
(* report (src/sharded.rs): get_two_hop_with_stats, its batched form, and   *)
(* get_two_hop_with_cache_stats, whose counters run along with the reads of *)
(* ShardedGraph.                                                            *)
(***************************************************************************)
EXTENDS ShardedGraph

ASSUME QueriesAssumption == IsFiniteSet(Shards) /\ Shards = 0 .. Cardinality(Shards) - 1

VARIABLE stats  \* the counters and the answer, in its order, of the cached query

countedVars == <<users, follows, cache, observed, replicated, op, stats>>

\* Hops that no shard holds are passed over.
Reachable(list) == Kept(list, Placed)

\* Members of a list in the order of their first occurrence, the source left out.
Answers(list, source) ==
    FoldLeft(LAMBDA found, v : IF v = source THEN found ELSE WithTarget(found, v), <<>>, list)

Crossings(shard, list) == Len(Kept(list, {v \in Placed : Home[v] # shard}))

\* What the reads of hops, in this order, find and count, next to the source's.
Traversal(source, hops) ==
    LET second == FlattenSeq([i \in DOMAIN hops |-> Reachable(Following(hops[i]))])
    IN [user_ids |-> Answers(second, source),
        shards_touched |-> {Home[v] : v \in {source} \cup ToSet(hops) \cup ToSet(second)},
        cross_shard_hops |-> FoldLeft(LAMBDA n, v : n + Crossings(Home[v], Reachable(Following(v))),
                                      Crossings(Home[source], hops), hops)]

\* get_two_hop_with_stats
Direct(source) == Traversal(source, Reachable(Following(source)))

DirectRequests(source) == 1 + Len(Reachable(Following(source)))

\* The first hops shard by shard, in the order of the source's list within one.
BatchedHops(source) ==
    LET hops == Reachable(Following(source))
    IN FlattenSeq([i \in 1 .. Cardinality(Shards) |-> Kept(hops, {v \in Placed : Home[v] = i - 1})])

\* get_two_hop_batched_with_stats
Batched(source) == Traversal(source, BatchedHops(source))

BatchedRequests(source) == 1 + Cardinality({Home[v] : v \in ToSet(BatchedHops(source))})

-----------------------------------------------------------------------------
(* The counters of get_two_hop_with_cache_stats *)

NoStats == [user_ids |-> <<>>, shards_touched |-> {}, cross_shard_hops |-> 0,
            shard_requests |-> 0, hits |-> 0, misses |-> 0]

CountedBegin(u) ==
    /\ QueryBegin(u)
    /\ stats' = [NoStats EXCEPT !.shards_touched = {Home[u]}, !.shard_requests = 1]

\* Mutant of Counted: every hop is taken to start from the source's shard.
CountedFromSource(v, s, list, hit) ==
    LET second == Reachable(list)
        crossing == Kept(second, {w \in Placed : LocalFirst(w, s) # Home[op.source]})
    IN [user_ids |-> Answers(stats.user_ids \o second, op.source),
        shards_touched |-> stats.shards_touched \cup {s} \cup {LocalFirst(w, s) : w \in ToSet(second)},
        cross_shard_hops |-> stats.cross_shard_hops + (IF s # Home[op.source] THEN 1 ELSE 0)
                                + Len(crossing),
        shard_requests |-> stats.shard_requests + 1,
        hits |-> stats.hits + (IF hit THEN 1 ELSE 0),
        misses |-> stats.misses + (IF hit THEN 0 ELSE 1)]

\* One first hop v, read on shard s: second hops prefer a replica on s.
Counted(v, s, list, hit) ==
    LET second == Reachable(list)
        crossing == Kept(second, {w \in Placed : LocalFirst(w, s) # s})
    IN [user_ids |-> Answers(stats.user_ids \o second, op.source),
        shards_touched |-> stats.shards_touched \cup {s} \cup {LocalFirst(w, s) : w \in ToSet(second)},
        cross_shard_hops |-> stats.cross_shard_hops + (IF s # Home[op.source] THEN 1 ELSE 0)
                                + Len(crossing),
        shard_requests |-> stats.shard_requests + 1,
        hits |-> stats.hits + (IF hit THEN 1 ELSE 0),
        misses |-> stats.misses + (IF hit THEN 0 ELSE 1)]

CountedRead ==
    /\ QueryRead
    /\ LET v == op.hops[op.read + 1]
           s == LocalFirst(v, Home[op.source])
           hit == v \in DOMAIN cache[s]
       IN stats' = Counted(v, s, IF hit THEN cache[s][v] ELSE follows[s][v], hit)

CountedEnd == QueryEnd /\ stats' = NoStats

-----------------------------------------------------------------------------
CountedInit == Init /\ stats = NoStats

\* Every call of a replica-aware caller that is not the cached query.
Uncounted ==
    /\ op.kind # "query"
    /\ AwareNext
    /\ op'.kind # "query"
    /\ UNCHANGED stats

CountedNext == Uncounted \/ (\E u \in Users : CountedBegin(u)) \/ CountedRead \/ CountedEnd

CountedSpec == CountedInit /\ [][CountedNext]_countedVars

-----------------------------------------------------------------------------
(* Properties *)

\* "This changes how the work is organized but does not change the query
\* result": batching finds the same users over the same edges and shards, with
\* at most as many requests, and at most one for each shard besides the first.
BatchedAgrees ==
    op = Idle => \A u \in Placed :
        /\ ToSet(Batched(u).user_ids) = ToSet(Direct(u).user_ids)
        /\ Batched(u).shards_touched = Direct(u).shards_touched
        /\ Batched(u).cross_shard_hops = Direct(u).cross_shard_hops
        /\ BatchedRequests(u) <= DirectRequests(u)
        /\ BatchedRequests(u) <= 1 + Cardinality(Shards)

\* A cached query gives the answer of the direct one in the same order, with as
\* many requests, each first hop a hit or a miss.
CachedAgrees ==
    QueryDone =>
        /\ stats.user_ids = Direct(op.source).user_ids
        /\ stats.shard_requests = DirectRequests(op.source)
        /\ stats.hits + stats.misses + 1 = stats.shard_requests

\* Without replicas it meets the same shards and crosses between
\* them as often; replicas never make it touch another shard.
CachedCounters ==
    QueryDone =>
        /\ stats.shards_touched \subseteq Direct(op.source).shards_touched
        /\ replicated = {} =>
              /\ stats.shards_touched = Direct(op.source).shards_touched
              /\ stats.cross_shard_hops = Direct(op.source).cross_shard_hops

\* Direct, batched and cached queries agree.
QueriesAgree == BatchedAgrees /\ CachedAgrees /\ CachedCounters
=============================================================================
