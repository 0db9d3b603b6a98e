-------------------------- MODULE StandaloneParts ---------------------------
(***************************************************************************)
(* The parts of the library that share no state with a sharded graph: a     *)
(* single graph queried through a cache of the caller, and the procedures   *)
(* that work out one result from their arguments, which balance communities *)
(* over shards, split oversized ones, plan a rebalance, generate a workload *)
(* and measure latencies.  A behaviour uses one part, `job'; the variables  *)
(* of the others are Unused.                                               *)
(***************************************************************************)
EXTENDS Placement

CONSTANTS Users, MaxDegree, Capacity, ByteCapacity, NodeBytes,  \* the graph and its cache
          MaxShards,                                        \* bounds of the model: shards;
          MaxCommunities, MaxSize,                          \* communities to balance;
          SplitMaxId, SplitCommunities, SplitSize, Limits,  \* those to split, and limits;
          Shards, UsersOfShard, Thresholds,                 \* distributions to plan for;
          MaxUsers, UnevenCommunities,                      \* workloads;
          Durations, MaxSources, MaxRepetitions             \* measurements

ASSUME StandaloneAssumption ==
    /\ MaxDegree \in Nat /\ Capacity \in Nat \ {0} /\ ByteCapacity \in Nat /\ NodeBytes \in Nat
    /\ MaxShards \in Nat /\ MaxCommunities \in Nat /\ MaxSize \in Nat
    /\ SplitMaxId \in Nat /\ SplitCommunities \in Nat /\ SplitSize \in Nat /\ Limits \subseteq Nat
    /\ Shards \subseteq Nat /\ Shards # {} /\ IsFiniteSet(Shards) /\ UsersOfShard \in Nat /\ Thresholds \subseteq Nat
    /\ MaxUsers \in Nat /\ UnevenCommunities \in Nat
    /\ Durations \subseteq Nat /\ Durations # {} /\ IsFiniteSet(Durations)
    /\ MaxSources \in Nat /\ MaxRepetitions \in Nat

VARIABLES job,
          known, following, cache, op, careful,                              \* querying
          phase,                                                             \* of the procedures but planning
          shard_count, community_sizes,                                      \* balancing and splitting
          community_ids, community_to_shard, users_per_shard,                \* balancing
          max_community_size, plan, placement, user_ids, given, follows,     \* splitting
          initial, target, counts, left, moves, stopped,                     \* planning
          config, source, targets, edges,                                    \* generating
          sources, repetitions, pair, started, samples, firsts               \* measuring

querying == <<known, following, cache, op, careful>>
communities == <<shard_count, community_sizes>>
balancing == <<community_ids, community_to_shard, users_per_shard>>
splitting == <<max_community_size, plan, placement, user_ids, given, follows>>
planning == <<initial, target, counts, left, moves, stopped>>
generating == <<config, source, targets, edges>>
measuring == <<sources, repetitions, pair, started, samples, firsts>>

vars == <<job, querying, phase, communities, balancing, splitting, planning, generating, measuring>>

Querying == INSTANCE CachedGraph

Balancing == INSTANCE BalancedPlacement

Dividing == INSTANCE Splitting
    WITH MaxId <- SplitMaxId, MaxCommunities <- SplitCommunities, MaxSize <- SplitSize

Planning == INSTANCE RebalancePlan WITH MaxUsers <- UsersOfShard

Generating == INSTANCE Workload WITH MaxCommunities <- UnevenCommunities

Measuring == INSTANCE LatencyBenchmark

-----------------------------------------------------------------------------
Unused == "unused"

NoQuerying ==
    /\ known = Unused /\ following = Unused /\ cache = Unused
    /\ op = Unused /\ careful = Unused

NoPhase == phase = Unused

NoCommunities == shard_count = Unused /\ community_sizes = Unused

NoBalancing == community_ids = Unused /\ community_to_shard = Unused /\ users_per_shard = Unused

NoSplitting ==
    /\ max_community_size = Unused /\ plan = Unused /\ placement = Unused
    /\ user_ids = Unused /\ given = Unused /\ follows = Unused

NoPlanning ==
    /\ initial = Unused /\ target = Unused /\ counts = Unused
    /\ left = Unused /\ moves = Unused /\ stopped = Unused

NoGenerating == config = Unused /\ source = Unused /\ targets = Unused /\ edges = Unused

NoMeasuring ==
    /\ sources = Unused /\ repetitions = Unused /\ pair = Unused
    /\ started = Unused /\ samples = Unused /\ firsts = Unused

Init ==
    \/ /\ job = "query" /\ Querying!Init
       /\ NoPhase /\ NoCommunities /\ NoBalancing /\ NoSplitting /\ NoPlanning /\ NoGenerating /\ NoMeasuring
    \/ /\ job = "balance" /\ Balancing!Init
       /\ NoQuerying /\ NoSplitting /\ NoPlanning /\ NoGenerating /\ NoMeasuring
    \/ /\ job = "split" /\ Dividing!Init
       /\ NoQuerying /\ NoBalancing /\ NoPlanning /\ NoGenerating /\ NoMeasuring
    \/ /\ job = "plan" /\ Planning!Init
       /\ NoQuerying /\ NoPhase /\ NoCommunities /\ NoBalancing /\ NoSplitting /\ NoGenerating /\ NoMeasuring
    \/ /\ job = "generate" /\ Generating!Init
       /\ NoQuerying /\ NoCommunities /\ NoBalancing /\ NoSplitting /\ NoPlanning /\ NoMeasuring
    \/ /\ job = "measure" /\ Measuring!Init
       /\ NoQuerying /\ NoCommunities /\ NoBalancing /\ NoSplitting /\ NoPlanning /\ NoGenerating

Query ==
    /\ job = "query" /\ Querying!Next
    /\ UNCHANGED <<job, phase, communities, balancing, splitting, planning, generating, measuring>>

Balance ==
    /\ job = "balance" /\ Balancing!Next
    /\ UNCHANGED <<job, querying, splitting, planning, generating, measuring>>

Split ==
    /\ job = "split" /\ Dividing!Next
    /\ UNCHANGED <<job, querying, balancing, planning, generating, measuring>>

Plan ==
    /\ job = "plan" /\ Planning!Next
    /\ UNCHANGED <<job, querying, phase, communities, balancing, splitting, generating, measuring>>

Generate ==
    /\ job = "generate" /\ Generating!Next
    /\ UNCHANGED <<job, querying, communities, balancing, splitting, planning, measuring>>

Measure ==
    /\ job = "measure" /\ Measuring!Next
    /\ UNCHANGED <<job, querying, communities, balancing, splitting, planning, generating>>

Next == Query \/ Balance \/ Split \/ Plan \/ Generate \/ Measure

\* A generator draws on: while an acceptable target is left, a uniform draw hits
\* one in the end.
Spec == Init /\ [][Next]_vars /\ WF_vars(Generate)

-----------------------------------------------------------------------------
(* Properties: what the module of each part promises of it *)

\* The answer to a careful caller, or from fresh lists, is that of the uncached query.
AnswerExact == job = "query" => Querying!AnswerExact

\* Lookups find on each shard as many users as the balancer counted there, and
\* all totals beyond the ID space, and only those, are refused.
BuiltAsCounted == job = "balance" => Balancing!LookupMatchesLoads /\ Balancing!OnlyOverflowFails

\* The fullest shard is within the bound of largest-first placement.
NearOptimal == job = "balance" => Balancing!NearOptimal

\* Chunks tile their community within the limit, shards taking turns, and for a
\* limit of zero alone there are none, by a division by zero.
CutToSize == job = "split" => Dividing!ChunksTile /\ Dividing!PanicsOnZeroLimit

\* The split placement looks each user up on the shard of its chunk, and the
\* errors ignored while a graph is loaded cost no user or edge of the communities.
SplitAsPlanned == job = "split" => Dividing!PlacedAsPlanned /\ Dividing!NothingSkipped

\* Planning a rebalance never makes the fullest shard fuller, ends at the target
\* or with nothing left to bring to the ceiling, and counts what its moves lead to.
PlanImproves ==
    job = "plan" => Planning!NeverWorse /\ Planning!PlanComplete /\ Planning!CountsAddUp

\* Every user gets the requested number of different targets, in its group and
\* outside of it, or the request was refused and impossible.
WorkloadAsRequested ==
    job = "generate" => Generating!EdgesAsRequested /\ Generating!RefusedOnlyIfImpossible

\* Every call of a generator returns: no loop draws for targets that are not there.
GeneratorReturns == job = "generate" => Generating!GeneratorReturns

\* Either strategy goes first as often as the other, for each source and over
\* all, and has one sample per query in the summary.
ComparisonFair == job = "measure" => Measuring!OrderUnbiased /\ Measuring!SamplesComplete

\* A percentile is the least time that covers its share of the samples.
PercentilesCorrect == job = "measure" => Measuring!PercentilesCorrect
=============================================================================
