# Verification of graph-shard-lab

TLA+ models of the graph library of this repository, TLC runs that check them on small
instances, and TLAPS proofs for every number of users, shards and callers.

## 1. The system

GraphShard Lab is a Rust library of in-memory follow graphs: users are integers, an edge
`u -> v` says that `u` follows `v`, and the query of interest is *two-hop*: the users
followed by those `u` follows. Around one graph it builds sharding, replication of hot
users, adjacency caches, message-passing workers, rebalancing and persistence.

| Component | State | Operations | Behaviours that are hard |
|---|---|---|---|
| `Graph` (`src/lib.rs`) | user table, adjacency lists | add_user, remove_user, add_follow, remove_follow, two-hop, two-hop over a caller's cache | lists without duplicates, in insertion order; remove_user leaves edges |
| `AdjacencyLruCache` (`src/cache.rs`) | slab of nodes, doubly linked list, LFU index, location map, byte count | insert, get, invalidate, clear; LRU, LFU or FIFO; entry and byte limits | five structures updated by hand; eviction under two limits; entries too large to be cached |
| `ShardedGraph` (`src/sharded.rs`) | one `Graph` and one cache per shard, counts of observed reads, placement, set of replicated users | add_user, add_follow, remove_follow, uncached / batched / cached two-hop, warming by user and from observed traffic | cached and replicated copies of one list; stale counts |
| replication (`src/replication.rs`) | (that of `ShardedGraph`) | replicate_user, unreplicate_user, the `*_replicated` mutations, auto_replicate_hubs | plain and replicated mutations may be mixed; hub lists fail half-way |
| worker-based graph (`src/distributed.rs`) | coordinator's users; per worker a task, its `Graph`, a bounded channel | add_user, add_follow, get_following_ids, get_two_hop, get_two_hop_batched | concurrent callers, full channels, replies in any order, dropped futures, workers that stop |
| placement (`src/sharded.rs`, `src/balanced.rs`, `src/splitting.rs`) | none (pure) | try_shard_for, greedy balancing, splitting plans | ranges, overflow, users outside the placement |
| rebalancing (`src/rebalance.rs`) | (that of `ShardedGraph`) | compute and apply a plan | moved users against an unchanged placement; failures half-way |
| persistence (`src/persistence.rs`) | a snapshot file, an append-only log | create/save/load/restore, append/read/replay, recover, verify | crashes within writes, sequence numbers against timestamps |
| workloads (`src/workload.rs`, `src/uneven.rs`), latency (`src/distributed_latency.rs`) | none | seeded generators, percentiles | rejection loops that must end |
| errors, `main.rs`, `src/bin/*`, scripts, results | none | benchmarks, charts | - |

`ShardedGraph` owns its graphs and caches and calls them directly; every method that
changes state takes `&mut self`, so its calls never overlap. Replication and rebalancing
are further methods over the same fields. The worker-based graph is separate: callers
hold `&self` and run concurrently, commands travel through a `tokio::sync::mpsc` channel
per worker, each with a `oneshot` reply channel.

What makes each correct: the sharded graph must be indistinguishable from one `Graph`
whatever replication, caching and warming do; a cached list must be the list of its
shard; a replica must be the home list while the user is replicated and vanish without
trace afterwards; concurrent callers of the worker-based graph must get answers that lie
between the graph at the start and at the end of their call, or an error that tells the
truth, and must get them at all; a moved user must still be found; what recovery
rebuilds must be what was logged. `PROJECT.json` lists the hazards behind these, each at
its line.

## 2. Modules

| Module | Models | Kind |
|---|---|---|
| `AdjacencyLists` | what the methods of `Graph` do to one list (push if absent, remove one, two-hop) | operators |
| `FollowGraph` | the unsharded graph: users, lists, answers | abstract specification |
| `CachedGraph` | `lib.rs`: one `Graph` with all its calls, and two-hop queries through a cache of the caller | specification |
| `BoundedCache` | the promise of `AdjacencyLruCache` for all eviction policies: a partial function user -> list, and the *set* of caches an insertion may leave | operators |
| `CacheContract` | the calls of one cache, with `BoundedCache` | abstract specification |
| `AdjacencyLruCache` | `cache.rs`: slab, linked list, locations, LFU index, byte count | detailed specification, refines `CacheContract` |
| `IdLruSimulator` | the simulator of the benchmarks, next to the real cache | specification |
| `BoundedCacheProofs` | sums over the entries of a cache, for any number of entries | proofs |
| `SlabProofs` | each change to the structure of `AdjacencyLruCache` keeps it sound | proofs |
| `CacheProofs` | theorems about `AdjacencyLruCache` and `IdLruSimulator` | proofs |
| `ShardedGraph` | `sharded.rs` and `replication.rs` | detailed specification, refines `FollowGraph` |
| `AdjacencyListProofs` | what the operators of `AdjacencyLists` return, for lists of any length | proofs |
| `ShardedGraphProofs` | theorems about `ShardedGraph` used as `AwareSpec` says | proofs |
| `ShardedApiProofs` | theorems about `ShardedGraph` under its whole API (`ApiSpec`) | proofs |
| `ShardedQueries` | direct, batched and cached two-hop queries with their counters | extends `ShardedGraph` |
| `Imbalance` | the arithmetic of `rebalance.rs` | operators |
| `RebalancePlan` | the planning loop, from every distribution of users | specification |
| `Rebalance` | plans computed, kept and applied, next to all other calls | extends `ShardedGraph` |
| `RebalanceProofs` | theorems about `Rebalance` | proofs |
| `Recovery` | `persistence.rs`: snapshot file, log and crashes | specification |
| `SnapshotRestore` | snapshots of a sharded, replicated graph, restored and verified | extends `ShardedGraph` |
| `Placement` | the placements of `sharded.rs` and their text | operators |
| `BalancedPlacement` | `balanced.rs` and the constructor that calls it | specification |
| `Splitting` | `splitting.rs` | specification |
| `Workload` | `workload.rs`, `uneven.rs` | specification |
| `LatencyBenchmark` | `distributed_latency.rs` | specification |
| `StandaloneParts` | the parts that share no state with a sharded graph, one per behaviour | composition |
| `GraphService` | what concurrent callers of the worker-based graph may count on | abstract specification |
| `DistributedGraph` | `distributed.rs`: callers, channels, workers, batch tasks | detailed specification, refines `GraphService` |
| `DistributedGraphProofs` | theorems about `DistributedGraph` | proofs |
| `MC...` | values for TLC | instances |

Definitions whose comment starts with "Mutant of" are plausible bugs of the definition
that follows them; they show that a property would notice.

### ShardedGraph

`users`, `follows`, `cache`, `observed`, `replicated` are the fields of `struct
ShardedGraph` (a list that is missing from the `HashMap` is `<<>>`, as
`get_following_ids` makes no difference). `Home` stands for `try_shard_for`: any
function from users to shards or `NoShard`; user 0, and users outside a community range,
are unplaced. Adjacency lists keep their order, because replicas are compared in order;
the answer of a query is a set: the order in which it lists users is left out. Graphs
built *with* caches are modelled: without caches the cache steps disappear and the rest
is the same.

A method is one step, except for two whose loops mix reads and writes: the cached query
(`QueryBegin`, one `QueryRead` per first hop, `QueryEnd`) and `auto_replicate_hubs`
(`HubsBegin`, one step per hub, `HubsEnd` or `HubsAbort`). `op` holds the call under
way, and blocks the others as `&mut self` does. A call that is refused, or finds nothing
to do, changes no state and is not a step; so the guards are the code's error returns.
In particular an `add_follow_replicated` whose edge exists at home is no step, as it
repairs no replica.

`ApiSpec` allows the whole public API. `AwareSpec` is the discipline the API suggests
but does not enforce: callers mutate a replicated user only by the `*_replicated`
methods.

Eviction is abstracted in `BoundedCache`: a victim may be *any* entry, and evictions
stop as soon as the new entry has room, which covers LRU, LFU and FIFO. `FillOutcomes`
(warming into a cleared cache) is looser still: if not everything fits, any set that
fits and holds the entry inserted last may be left.

### DistributedGraph

A client is a caller's task with one call at a time. `ask[c]` is the set of users the
call has to send commands about: `Send(c, s)` is the completion of
`sender.send(..).await` on the channel of worker `s`, one command for all of them that
live on `s`; the batch tasks of `get_two_hop_batched` are thus independent senders, and
`get_two_hop` asks about one user at a time. A worker receives a command (its room in
the channel is free from then on), may sleep, and serves it. `replies[c]` are answers
the caller has not taken yet. `before` in a reading call is a history field.

`Cancel` is a caller (of those in `Impatient`) that drops a call's future (a timeout, a
`select!`): commands not yet sent are never sent, commands already sent are served for
nobody. A call that ends with an error does the same to its other batches (`JoinSet`
aborts its tasks when dropped). `WorkerStop` is the end of a worker's task (a panic, a
runtime shutting down), which no code in the repository asks for but every call is
prepared for (`WorkerStopped`, `WorkerDropped`): its channel and the reply channels in
it close. The edges of a stopped worker stay in `edges` as a record of what was applied;
nobody can read them any more. `add_user` takes `&mut self` and excludes other calls.

`GraphService` is the contract: a call runs and ends done, failed or given up; an
`add_follow` takes effect once, while it runs, or later if its call ended without an
answer (`loose`); a read returns a set between what the graph said at the start and says
at the end. It has no workers, channels or batches.

### AdjacencyLruCache, CacheContract, IdLruSimulator

`cache` is the struct, field by field; index 0 is `None`, and slots count from 1. The
private methods (`detach`, `allocate_node`, ...) are operators from cache to cache.
`insert_shared` is `InsertBegin`, one `InsertEvict` per turn of its loop, and
`InsertEnd`; `clear` likewise; `op` excludes other calls as `&mut self` does. An
eviction without a candidate is a panic in the code and would be a deadlock here, which
the runs check for. `MaxCounter` is `u64::MAX`: frequencies and sequence numbers
saturate there. `history` records the calls (order of use, of insertion, number of
uses), of the cached users only, so that `VictimOfPolicy` judges the structure by
something it does not contain. What is assumed (`SlabAssumption`): lists have a length,
and the content of a free slot (`NoNode`, the `None` of the slab) is not a node.

`CacheSpec` is the refinement: during a call the abstract cache is still the one before
it, and the end of the call must be an outcome `InsertOutcomes` allows. This closes the
chain from the linked list to the sharded graph: `ShardedGraph` uses the same operators.

`IdLruSimulator` runs the simulator and the cache side by side on the same accesses.

### CachedGraph

The two-hop query of `Graph` over a cache the caller owns. The graph takes no part in
invalidation: a caller may invalidate what it changes or forget to (`cautious`), and
`careful` remembers whether one ever forgot. Here the answer is a sequence: the cached
query must list users in the same order. `remove_user` leaves the lists as they are.

### ShardedQueries

`Direct` and `Batched` are operators, as these queries change nothing; the cached query
is `ShardedGraph`'s, with its counters in `stats`, next to all other calls of a
replica-aware caller. With replicas, the crossings of a cached query may be more or
fewer than those of the direct one: a first hop read at home finds its second hops
elsewhere as before, one read on the source's shard counts from there. So
`CachedCounters` compares them only without replicas.

### Imbalance, RebalancePlan, Rebalance

The code compares floating-point percentages; `Imbalance` compares the same values as
integers. Rounding could matter at exact equality only, and does not for the thresholds
and counts of the runs (it would at 50 percent, where the code goes on with an imbalance
of exactly 50). `RebalancePlan` is the loop over the candidates for large distributions,
in any order of candidates that sorting by edges may give. `Rebalance` is the
composition: a plan is computed from the graph (`ComputePlan`) or made up by the caller,
whose fields are public (`MakePlan`), survives other calls (`Unplanned`), and is applied
one action per step (`MoveUser`, or `MoveFails` when `?` returns). Only `users`,
`follows` and `cache` change: neither the placement nor the set of replicated users
knows of the move. `fresh` and `sound` are notes of the model.

### Recovery and SnapshotRestore

`Recovery` is a process that logs an operation, applies it, sometimes saves a snapshot
over the last, and recovers after a crash. That protocol is the caller's; the files and
all that reads and writes them is the code's. A file is a sequence of lines, and a line
is what the readers make of it. A crash cuts a snapshot behind any line, or inside one
(`Bad` if a number is missing at the cut, left out if there are too few fields), and a
log entry at every boundary of its fields, or inside a name with a separator in it
(`Cuts`); `Alone` and `Joined` are what the reader takes the torn line for, by itself
and with the next entry on the same line. IDs and sequence numbers have one digit, so
that digits of two numbers that run together make at most a user nobody added
(`Stranger`). A timestamp is the caller's: the number of the last operation in the
graph, or of the first that is not. Users have names here, as both files hold them
between `|` signs and a name may contain one; names with line breaks are left out.
Placement has no part: the graph is what lookups see. `history` and `cutSave` are notes
of the model.

`SnapshotRestore` is about what a snapshot holds: the users and lists of every *shard*,
replicas included, and the placement as text (`Placement!Info`, `Placement!Parse`: texts
are sequences of words, separators and numbers). The restored graph is a record, and may
have operations replayed on it before it is verified against the original, which goes on
changing.

### Placement, BalancedPlacement, Splitting

`Placement` has the checks of `with_placement`, `try_shard_for`, and the text form.
`MaxId` is `u64::MAX`. The balancer places one community per step; its addition is
unchecked in the code, so a load beyond `MaxId` wraps in a release build and panics in a
debug build: both are modelled. `Splitting` makes one chunk per step; a division by zero
is a step to `panicked`.

### Workload, LatencyBenchmark

The four generators are one state machine, told apart by `config.kind`. A draw that is
rejected changes nothing and is no step. `LatencyBenchmark` keeps samples as numbers of
calls per duration, since they are sorted before they are used.

### StandaloneParts

`CachedGraph`, `BalancedPlacement`, `Splitting`, `RebalancePlan`, `Workload` and
`LatencyBenchmark` share no state with anything else. `StandaloneParts` instantiates
them side by side; a behaviour uses one of them, named by `job`, and leaves the
variables of the others `Unused`. Its properties are those of the parts.

## 3. Runs

`tlc -config <run>.cfg <module>`; sizes are distinct states.

| Run | Module, specification | Checks | States |
|---|---|---|---|
| `sharded` | MCShardedQueries, CountedSpec | TypeOK, EdgesKnown, ReplicasMirrorHome, NoLeftovers, CachesCoherent, QueryExact, QueriesAgree, refinement GraphSpec | 175 k |
| `api` | MCShardedGraph, ApiSpec | ReplicaPresence, ExactWithoutReplicas | 1.6 M |
| `plain_mutation` | MCShardedGraph, ApiSpec | ReplicasMirrorHome (violated) | - |
| `calls` | MCDistributedGraph, Spec | TypeOK, EdgesKnown, AnswerBracketed, ErrorsBlameWorkers, refinement ServiceSpec | 693 k |
| `calls_return` | MCDistributedGraph, FairSpec | CallsReturn | 137 k |
| `cache` | MCIdLruSimulator, SimulatedSpec | SlabConsistent, IndexExact, LimitsRespected, VictimOfPolicy, SimulatorAgrees, refinement CacheSpec | 207 k |
| `rebalance` | MCRebalance, RebalanceSpec | SoundPlanKept, HomeCacheCoherent, MovesLoseNothing | 2.4 M |
| `rebalance_reference` | MCRebalance, RebalanceSpec | MovesInvisible (violated) | - |
| `recovery` | MCRecovery, Spec | NothingLost, CutEndHarmless, OnlyLoses | 6.5 M |
| `torn_log` | MCRecovery, Spec | TornAppendAlone (violated) | - |
| `restore` | MCSnapshotRestore, RecoverySpec | RestoreExact, VerifyDecides | 20 k |
| `standalone` | StandaloneParts, Spec | AnswerExact, BuiltAsCounted, NearOptimal, CutToSize, SplitAsPlanned, PlanImproves, WorkloadAsRequested, ComparisonFair, PercentilesCorrect, GeneratorReturns | 1.5 M |

**What they show.**

- `sharded`: to callers who mutate replicated users by the `*_replicated` methods only,
  the sharded, replicated, cached graph is one unsharded graph (`GraphSpec`). Replicas
  equal the home list, taken-down replicas leave nothing behind, every cached list is
  the list of its shard, and the three ways to query agree in answer and counters.
- `api`: the same graph with callers who mix plain and replicated mutations. Replicas
  may lag behind, but they are where the set of replicated users says, and a query none
  of whose first hops is replicated stays exact.
- `calls`, `calls_return`: concurrent callers get what `GraphService` promises, or an
  error that tells the truth, and under a fair scheduler they get it in the end.
- `cache`: the slab, the list, the location map, the LFU index and the byte count never
  disagree, whatever the policy, and amount to the contract (`CacheSpec`) that the
  models above are built on. The benchmarks' simulator holds what the LRU cache holds.
- `rebalance`: moves on a graph that goes on changing, by plans that are fresh, stale or
  made up, drop no edge of a user whose copies agree and take no user from its last
  shard, and no cache of a home shard keeps a list that moved. A plan applied to the
  graph it was computed from succeeds and ends with the counts it promised.
- `recovery`: which crashes cost what. Between calls, and between logging and applying,
  nothing; in an append nothing but that operation as long as nothing is appended behind
  it; in a save, users and edges, but nothing removed comes back.
- `restore`: what a snapshot of a replicated graph restores, and that `verify_recovery`
  decides equality for graphs without replicas.
- `standalone`: each of the procedures, from all inputs within the bounds, does what its
  caller relies on.

**What the violated runs show.**

- `plain_mutation`: README.md:599 promises "Identical adjacency lists on every shard"
  and :601 "Consistent edge mutations across all replicas"; `add_follow` accepts a
  replicated source and changes its home shard only (`src/sharded.rs:458-482`). What
  holds instead is in run `api`.
- `rebalance_reference`: DESIGN.md:25 and :33 expect a user's edges on the user's shard
  and results like the reference graph's; `apply_rebalance_plan` stores the user
  elsewhere and leaves the placement alone (`src/rebalance.rs:143-151`), so lookups no
  longer find it. What holds is in run `rebalance`.
- `torn_log`: README.md:662-663 promises recovery from snapshot and log; after an append
  cut off by a crash the next one goes on in the same line
  (`src/persistence.rs:224-238`), and is skipped or read as something else. What holds
  is in `recovery` (`CutEndHarmless`).

**Seen while modelling.** These are consequences of the code that the models contain; no
run is about them alone, and the properties above are worded so as to allow them.

- `unreplicate_user` empties a replica by the home list (`src/replication.rs:74-85`). An
  edge that a plain mutation removed at home stays there and comes back with the next
  `replicate_user`; the test at `src/replication.rs:296-299` expects an empty list.
- An `add_user` of the worker-based graph whose future is dropped between sending and
  the answer leaves a user on the worker that the coordinator does not know
  (`src/distributed.rs:245-249`); every retry is refused as a duplicate (the exception
  in `ErrorsBlameWorkers`).
- The target of a planned move is the least loaded of all shards
  (`src/rebalance.rs:63`), which may be the user's own by then: such moves are carried
  out and counted.
- A move of a replicated user removes it from the source and fails on the target
  (`src/rebalance.rs:143-147`); if `unreplicate_user` then takes down the replicas, the
  user is nowhere. `MovesLoseNothing` is about the moves alone.
- A `|` in a user's name makes a snapshot that cannot be loaded
  (`src/persistence.rs:105`, `:165-172`; the exception in `NothingLost`).
- `save_snapshot` truncates the old snapshot before it writes (`src/persistence.rs:87`),
  and the beginning of a snapshot loads as a whole one: after a crash in between,
  recovery succeeds with users and edges missing (`OnlyLoses` is what is left).
- `apply_splitting_plan` places all of a split community by its first chunk, on shard 0
  (`src/splitting.rs:107-113`).
- `verify_recovery` rejects a true copy of a graph with replicas
  (`src/persistence.rs:398` counts them), and a replica can make up for a user too many,
  whom the loop over the original's users never meets (`:421`).

**Bounds of the sharded runs.** Two shards (one home, one foreign, for each user), two
placed users, and user 0, which the placement turns away; lists of up to two, enough for
self-edges, cycles, order within a list and two first hops per query. In `sharded`
caches hold two entries under a byte limit: with `NodeBytes` 8 and a limit of 20 two
empty lists fit together, a list of one edge fits alone, and a list of two edges is
never cached. In `api` they hold one (every second insertion evicts). `MaxCount` is
where a read count saturates (`u64::MAX` in the code): 1 tells "read" from "never read",
and ties are broken by user ID as in the code. `MaxHubs` bounds hub lists; 2 gives a
done hub before a failing one. Deadlock is not checked: a library waits for calls, and
with the bounds on users and lists nothing has to be left to call.

**Bounds of the worker runs.** Two workers, two callers, channels of one place, so that
senders wait; worker 1 may stop at any moment, worker 0 never, so that both kinds of
answer occur. The follow edges asked for (`Pairs`) are two of one source, to hops on
both workers, one of them the source itself: enough for batches that overlap, answers
out of order, and an edge added while a query runs. With one place and two callers, both
full channels and commands from abandoned calls in front of new ones occur. Deadlock is
checked. Callers are interchangeable and declared symmetric in `calls`; in
`calls_return` they are not, and nobody drops a call, as a dropped call returns at once.

**Bounds of the cache run.** All three policies. Room for three entries, so that the
list has a first, a middle and a last node, and four users, so that one is always
evicted and slots are reused. Lists cost 8 or 24 bytes under a limit of 48, so either
limit may bind first and one insertion may evict two entries; a third list is too large.
Counters saturate at 3: enough for every tie among three entries, and for what happens
at and after saturation. Users are symmetric.

**Bounds of rebalancing.** `rebalance` has two users of one community on two shards with
caches of one entry, the whole API, plans computed at a threshold of 0, and made-up
plans of one move, which a sequence of plans extends to any sequence of moves. Long
plans are the matter of `RebalancePlan` in `standalone`, from all distributions of up to
nine users per shard on three shards at three thresholds. `rebalance_reference` has no
cached lists: one move is enough.

**Bounds of persistence.** `recovery` has two users, one of whom may have a name with
the separator, and four operations: two users and an edge exist, and it is removed
again, before or after a snapshot; three operations if a write was cut: the cut one, one
before and one after it. Saves and crashes are not bounded. `restore` has two users of
two communities on different shards, with lists of up to two, no cached lists, and two
replayed operations. Deadlock is not checked in `recovery`, which may end in an error or
with its operations used up.

**Bounds of the standalone parts.** The caller's cache has room for two empty lists or
one of one user, among three users (a source, a first and a second hop, or cycles among
them). Five communities on three shards are enough for greedy placement to be worse than
the best; an ID space of 12 (8 for splitting) makes larger totals overflow. Workloads
have up to five users and all argument values up to five, so that every limit is met
exactly and exceeded by one. Up to 21 pairs of samples of two durations: the percentiles
95 and 99 differ from the maximum, or not, and are compared with their definition.
Deadlock is not checked, as these procedures end.

**Fairness.** `FairSpec` of the worker-based graph: the tokio runtime polls every task
that has been woken: weak fairness of each worker's serving, each call's taking of its
answers, and of a send to a closed channel. A bounded channel hands its room to the
waiting senders in FIFO order (its semaphore is fair), so a sender waiting for a channel
that has room again and again gets it: strong fairness of `Send`. No fairness is assumed
of callers starting, dropping futures, or of workers stopping. `StandaloneParts` has
weak fairness of the generators' next step: they draw uniformly, so as long as there is
an acceptable target, one is drawn in the end (with probability one). There is no other
liveness in the sequential code that is not the end of a bounded loop.

## 4. Proofs

Checked by `tlapm`. TLC checks each property below on a small instance; the theorems hold
for every value of the constants that satisfies the assumptions of the modules
(`CacheAssumption`, `SlabAssumption`, `ShardedAssumption`, `RebalanceAssumption`,
`DistributedAssumption`): any set of users and shards, any placement, any cache limit or
channel capacity. Only `RebalanceProofs` needs the sets of users and shards to be
finite, as plans count users and choose a least loaded shard.

| Module | Theorem | States |
|---|---|---|
| `ShardedGraphProofs` | `TypeCorrect` | `AwareSpec => []TypeOK` |
| | `EdgesKnownCorrect` | `AwareSpec => []EdgesKnown` |
| | `MirrorCorrect` | `AwareSpec => []ReplicasMirrorHome` |
| | `NoLeftoversCorrect` | `AwareSpec => []NoLeftovers` |
| | `CachesCorrect` | `AwareSpec => []CachesCoherent` |
| | `QueryCorrect` | `AwareSpec => []QueryExact` |
| | `Refinement` | `AwareSpec => GraphSpec` |
| `ShardedApiProofs` | `PresenceCorrect` | `ApiSpec => []ReplicaPresence` |
| | `UnreplicatedQueryCorrect` | `ApiSpec => []ExactWithoutReplicas` |
| `RebalanceProofs` | `HomeCachesCorrect` | `RebalanceSpec => []HomeCacheCoherent` |
| | `SoundPlansKept` | `RebalanceSpec => []SoundPlanKept` |
| | `NothingLost` | `RebalanceSpec => MovesLoseNothing` |
| `DistributedGraphProofs` | `TypeCorrect` | `Spec => []TypeOK` |
| | `EdgesKnownCorrect` | `Spec => []EdgesKnown` |
| | `AnswersCorrect` | `Spec => []AnswerBracketed` |
| | `ErrorsCorrect` | `Spec => []ErrorsBlameWorkers` |
| | `Refinement` | `Spec => ServiceSpec` |
| `CacheProofs` | `SlabAlwaysConsistent` | `Spec => []SlabConsistent` |
| | `IndexAlwaysExact` | `Spec => []IndexExact` |
| | `LimitsAlwaysRespected` | `Spec => []LimitsRespected` |
| | `VictimAlwaysOfPolicy` | `Spec => []VictimOfPolicy` |
| | `EvictionFindsVictim` | `Spec =>` an insert that has to evict has a candidate to evict |
| | `CacheImplementsContract` | `Spec => CacheSpec` |
| | `SimulatedUse` | `SimulatedSpec => Spec`: the above hold next to the simulator |
| | `SimulatorAlwaysAgrees` | `SimulatedSpec => []SimulatorAgrees` |

**Lists of any length.** `Merge` and `Minus` are the loops of `replicate_user` and
`unreplicate_user`, written as recursive functions over the position in the list.
`AdjacencyListProofs` proves what they return by induction over that position. The
induction is over a *set* of numbers (`Induction`, `InductionTo`): the library's
induction theorems take a predicate as a parameter, but `WFMin` takes a set, and a set
of numbers that has a number outside has a least one.

**ShardedGraph, aware callers.** The inductive invariant `IInv` is the conjunction of
TypeOK, EdgesKnown, NoRepeats, ReplicasMirrorHome, NoLeftovers, CachesCoherent and
`QueryPartial`. Caches stay true when a replica is rebuilt only if no leftovers make the
merged list differ from the home list (NoLeftovers); leftovers vanish only if the
replica equals the home list when it is taken down (ReplicasMirrorHome), and merging a
list into an empty one copies it only if it names nobody twice (`NoRepeats`,
`MergeCopies`); a query that is done is exact only if after `k` hops it had found what
the first `k` lists hold (`QueryPartial`), which in turn needs true caches and true
replicas. `Invariance` proves it with one lemma per action (`NewUserStep`, `FollowStep`,
..., `WarmFromObservedStep`). `Refinement` maps the known users, home lists and the
finished query to `FollowGraph`: mutations map to the same mutation, `QueryRead` of the
last hop (or `QueryBegin` without hops) to `Answer`, `QueryEnd` to `Forget`, everything
else to a stutter.

**ShardedGraph, all callers.** With plain mutations of replicated users a foreign list
may be anything, and `ApiInv` says nothing of it: types of the home lists alone, who is
where (`ReplicaPresence`), home caches that are true (`HomeCacheCoherent`), and
`ApiPartial`, the half-way claim about queries that have met no replicated hop so far.
It is inductive because a query reads a foreign list only for a replicated first hop,
and a list is written to a home shard only by mutations, which also drop it from the
home cache.

**Rebalance.** Moves store users on shards the placement does not know of, so of
`ApiInv` only the home caches survive: a move drops the cached list on both shards
(`MoveKeepsHome`). About plans, `RebalanceInv` says that a fresh plan, and what is left
of one that was applied fresh, `Fits` the tables as they are: each of its users is where
its action starts, no user is moved twice from one shard, and the promised count of a
shard is the number of users it has, less those that leave, plus those that arrive. A
planned move may end on the shard where it starts (see above), so `Fits` counts leaving
and arriving apart. The planning loop keeps `Fits` from candidate to candidate
(`ConsideredSteps`, induction over the candidates); it needs a least loaded shard to
exist (`LeastLoadedExists`, by induction over finite sets of shards). Each `MoveUser`
takes the first action off the plan and keeps `Fits` for the rest (`MoveFits`), for
which each user must be on one shard before the first move (`SingleHolders`): a copy on
the target would make the move fail. `SoundPlanKept` is `Fits` of a plan with nothing
left. `MovesLoseNothing` is about one step: a move that succeeds leaves on the target what both
lists held (`MergeFacts`), and one that fails has emptied the source's list of a user
who is on the target as well, with the same list if its copies are alike.

**DistributedGraph.** The inductive invariant says of each channel that it holds at most
one command of each caller (`Orderly`) and that commands are at the shard of their users
(`CommandOK`), and of each client what it has under way at the stage of its call: which
commands are on their way against which are still to be sent (`AskedOnce`, `Sent`,
`Sole`), nothing once the call is over (`Quiet`), and what the answers taken and waiting
hold (`FirstRead`, `SecondRead`) in terms of the edges when the call began and now.
`AnswerBracketed` needs the last, and these in turn that edges only grow (`Frame`,
`ReadsGrow`): a step of one client or worker disturbs the other clients only by adding
edges. `Refinement` maps a client to its `Sketch` and the commands whose caller is gone
to `loose`: serving a follow maps to the call's, or a loose edge's, taking effect
(`Effect`), a worker that stops to the loss of some loose edges (`Lose`), the last
answer of a call to `Done`, an error to `Fail`, and all sending, receiving and collecting
of partial answers to stutters.

**The cache.** `Sound` (`SlabProofs`) joins the five structures: users and occupied slots
are in pairs (`Paired`), the other slots are listed once each (`Freed`), the byte count is
the sum over the users and over the slots (`Weighed`), the index has the present keys
(`Keyed`), and the list runs through the slots of the users in the order in which the
policy uses the history: that of use for LRU, of insertion otherwise (`Linked`). That
last part is what makes it inductive: `Detach` removes an element from that sequence and
`AttachAsMostRecent` appends one (`DetachLinked`, `AttachLinked`), as the history does.
`Recorded` and `Stamped` tie the node's own counters to the history; stamps never
decrease along the order of use, even where sequence numbers saturate. `RemoveSound`,
`TouchSound` and `AllocateSound` prove `Sound` kept, part by part. A sum is a fold over a
set in an order nobody chose: `SummedAnyOrder` (`BoundedCacheProofs`) shows that any
entry may be taken off it first, by induction over the size of the set.

`IInv` adds `CallOK`: during an insert, what is left is part of what was cached before,
and with the last victim still there the new list had no room. `Chain` follows the links
as a recursive function; `ChainInOrder` solves it by the prefixes of the order. The
first key in the order of `Precedes` exists because numbers are well-founded
(`FirstKey`). Refinement: the last step of an insert, an invalidation and the last step
of `clear` map to the contract's calls, an oversized insert to one that only drops, all
else to stutters. `SimInv` says that the simulator is one access ahead of an insert
under way, and of the one eviction that makes room for it.

**Only model-checked.** `QueriesAgree`, persistence (`Recovery`, `SnapshotRestore`) and the standalone parts.
Liveness and its fairness (`CallsReturn`, `GeneratorReturns`) are out of the reach of
TLAPS. `Recovery`, `Placement` and `ShardedQueries` are built on folds over sequences,
about which no lemmas are proved yet.

## 5. Not modelled

- `src/error.rs`: error values and their wording. Where an error is returned is in the
  guards.
- `src/main.rs`, `src/bin/*`: benchmark drivers, 1800 lines that build graphs with fixed
  parameters, call the library, print tables and write CSV files. They keep no state
  between calls.
- Build files, CI, the chart script, recorded results, `tests/tiny_graph.rs`.
- Functions that only read and sum up (`replication_stats`, `compute_rebalance_savings`,
  `*_per_shard` beyond their use), `Display` text, and the seeds of the generators: any
  sequence of draws is allowed.
- Floating-point rounding in rebalancing, see *Imbalance*; real time in the latency
  benchmark.
- Names of users, except where persistence reads and writes them; names with line breaks
  nowhere.

## 6. Plan

Modelled and checked: all components but the ones above. Left:

1. `RestoreExact` of `SnapshotRestore`: what a snapshot holds is what a restored graph
   has.
2. Proofs about the loops: `RebalancePlan` (`CountsAddUp`, `NeverWorse`), `CachedGraph`
   (`AnswerExact`), `Splitting` (`PanicsOnZeroLimit`), `Workload` (`EdgesAsRequested`).
   What `Placement` computes with folds stays with TLC.
