------------------------------ MODULE Splitting -------------------------------
(***************************************************************************)
(* Splitting oversized communities (src/splitting.rs): a plan cuts them     *)
(* into chunks, one chunk at a time; create_split_placement turns the plan  *)
(* into a placement with a community per chunk, apply_splitting_plan into a *)
(* graph.  Offsets in a community count from 0, users of a graph from 1.    *)
(***************************************************************************)
EXTENDS Placement, FiniteSetsExt

CONSTANTS MaxShards,       \* bounds of the model: shards,
          MaxCommunities,  \* communities,
          MaxSize,         \* users of a community,
          Limits           \* and values of max_community_size

VARIABLES shard_count, community_sizes, max_community_size,
          plan,       \* the chunks of each community planned so far
          phase,
          placement,  \* the placement made from the plan, or NoPlacement
          user_ids,   \* users of the graph made from the plan
          given,      \* edges to load into it
          follows     \* and those it has

inputs == <<shard_count, community_sizes, max_community_size>>

vars == <<shard_count, community_sizes, max_community_size, plan, phase, placement, user_ids, given, follows>>

NoPlacement == [kind |-> "none"]

Init ==
    /\ shard_count \in 0 .. MaxShards
    /\ community_sizes \in SeqOf(0 .. MaxSize, MaxCommunities)
    /\ max_community_size \in Limits
    /\ plan = <<>>
    /\ phase = "planning"
    /\ placement = NoPlacement
    /\ user_ids = {}
    /\ given = {}
    /\ follows = {}

-----------------------------------------------------------------------------
(* plan_community_splitting *)

Acceptable == shard_count > 0 /\ community_sizes # <<>> /\ 0 \notin ToSet(community_sizes)

Refuse ==
    /\ phase = "planning" /\ ~Acceptable
    /\ phase' = "refused"
    /\ UNCHANGED <<inputs, plan, placement, user_ids, given, follows>>

Chunk(shard, from, size) == [shard_id |-> shard, from |-> from, size |-> size]

\* Users of community c that are in a chunk.
Chunked(c) == FoldLeft(LAMBDA sum, chunk : sum + chunk.size, 0, plan[c])

\* No community is half cut up.
Complete == \A c \in DOMAIN plan : Chunked(c) >= community_sizes[c]

Planning == phase = "planning" /\ Acceptable

NextCommunity == Len(plan) + 1

KeepWhole ==
    /\ Planning /\ Complete /\ Len(plan) < Len(community_sizes)
    /\ LET size == community_sizes[NextCommunity]
       IN /\ size <= max_community_size
          /\ plan' = Append(plan, <<Chunk((NextCommunity - 1) % shard_count, 0, size)>>)
    /\ UNCHANGED <<inputs, phase, placement, user_ids, given, follows>>

ChunkSize(size) == Min({size, max_community_size})

\* div_ceil panics on a chunk size of zero.
SplitPanics ==
    /\ Planning /\ Complete /\ Len(plan) < Len(community_sizes)
    /\ community_sizes[NextCommunity] > max_community_size
    /\ ChunkSize(community_sizes[NextCommunity]) = 0
    /\ phase' = "panicked"
    /\ UNCHANGED <<inputs, plan, placement, user_ids, given, follows>>

SplitBegin ==
    /\ Planning /\ Complete /\ Len(plan) < Len(community_sizes)
    /\ LET size == community_sizes[NextCommunity]
       IN /\ size > max_community_size
          /\ ChunkSize(size) > 0
          /\ plan' = Append(plan, <<Chunk(0, 0, ChunkSize(size))>>)
    /\ UNCHANGED <<inputs, phase, placement, user_ids, given, follows>>

\* Mutant of SplitNext: the last chunk is not cut to what remains.
SplitNextFull ==
    /\ Planning /\ ~Complete
    /\ LET c == Len(plan)
           size == community_sizes[c]
           offset == Chunked(c)
       IN plan' = [plan EXCEPT ![c] = Append(@, Chunk(Len(@) % shard_count, offset, ChunkSize(size)))]
    /\ UNCHANGED <<inputs, phase, placement, user_ids, given, follows>>

\* The next chunk of the community being split; shards take turns.
SplitNext ==
    /\ Planning /\ ~Complete
    /\ LET c == Len(plan)
           size == community_sizes[c]
           offset == Chunked(c)
       IN plan' = [plan EXCEPT
                     ![c] = Append(@, Chunk(Len(@) % shard_count, offset, Min({size - offset, ChunkSize(size)})))]
    /\ UNCHANGED <<inputs, phase, placement, user_ids, given, follows>>

PlanEnd ==
    /\ Planning /\ Complete /\ Len(plan) = Len(community_sizes)
    /\ phase' = "planned"
    /\ UNCHANGED <<inputs, plan, placement, user_ids, given, follows>>

-----------------------------------------------------------------------------
(* create_split_placement *)

\* Mutant of SplitPlacement: the shards take turns over all chunks of the plan.
SplitPlacementRoundRobin(chunks) ==
    BalancedCommunity([i \in DOMAIN chunks |-> chunks[i].size],
                      [i \in DOMAIN chunks |-> (i - 1) % shard_count])

SplitPlacement(chunks) ==
    BalancedCommunity([i \in DOMAIN chunks |-> chunks[i].size],
                      [i \in DOMAIN chunks |-> chunks[i].shard_id])

CreatePlacement ==
    /\ phase = "planned"
    /\ placement' = SplitPlacement(FlattenSeq(plan))
    /\ phase' = "placed"
    /\ UNCHANGED <<inputs, plan, user_ids, given, follows>>

-----------------------------------------------------------------------------
(* apply_splitting_plan *)

\* A community is placed by its first chunk.  The model loads at most one edge,
\* to and from users of the communities or the first one beyond them.
PlanPlacement ==
    BalancedCommunity(community_sizes, [c \in DOMAIN plan |-> plan[c][1].shard_id])

ApplyBegin ==
    /\ phase = "planned"
    /\ placement' = PlanPlacement
    /\ phase' = IF Valid(PlanPlacement, shard_count) THEN "adding" ELSE "refused"
    /\ \E source, target \in 1 .. AllUsers(community_sizes) + 1 :
          given' \in {{}, {<<source, target>>}}
    /\ UNCHANGED <<inputs, plan, user_ids, follows>>

BaseUserId(c) == UpTo(community_sizes, c - 1) + 1

\* The users of all chunks; add_user refuses 0, and those outside the placement,
\* and the refusal is ignored.
AddUsers ==
    /\ phase = "adding"
    /\ user_ids' =
          {u \in UNION {UNION {BaseUserId(c) + k.from .. BaseUserId(c) + k.from + k.size - 1 :
                               k \in ToSet(plan[c])} : c \in DOMAIN plan} :
             ShardFor(placement, shard_count, u) # NoShard}
    /\ phase' = "following"
    /\ UNCHANGED <<inputs, plan, placement, given, follows>>

\* An edge between unknown users is dropped silently.
AddFollows ==
    /\ phase = "following"
    /\ follows' = {e \in given : e[1] \in user_ids /\ e[2] \in user_ids}
    /\ phase' = "applied"
    /\ UNCHANGED <<inputs, plan, placement, user_ids, given>>

Next ==
    \/ Refuse \/ KeepWhole \/ SplitPanics \/ SplitBegin \/ SplitNext \/ PlanEnd
    \/ CreatePlacement
    \/ ApplyBegin \/ AddUsers \/ AddFollows

Spec == Init /\ [][Next]_vars

-----------------------------------------------------------------------------
(* Properties *)

\* The chunks of a planned community follow on each other from offset 0 to its
\* size, none is empty or above the limit, and no two shards differ by more
\* than one in how many of them they get.
ChunksTile ==
    phase \notin {"planning", "refused", "panicked"} =>
        \A c \in DOMAIN plan :
            /\ \A i \in DOMAIN plan[c] :
                  /\ plan[c][i].from = UpTo([j \in DOMAIN plan[c] |-> plan[c][j].size], i - 1)
                  /\ plan[c][i].size \in 1 .. max_community_size
            /\ Chunked(c) = community_sizes[c]
            /\ LET share(s) == Cardinality({i \in DOMAIN plan[c] : plan[c][i].shard_id = s})
               IN Len(plan[c]) > 1 => \A s, t \in 0 .. shard_count - 1 : share(s) <= share(t) + 1

\* A placement made from the plan puts each user where its chunk was planned.
PlacedAsPlanned ==
    phase = "placed" =>
        \A c \in DOMAIN plan : \A k \in ToSet(plan[c]) : \A i \in 0 .. k.size - 1 :
            ShardFor(placement, shard_count, UpTo(community_sizes, c - 1) + k.from + i + 1) = k.shard_id

\* Loading a graph ignores the errors of its calls, and yet every user of the
\* communities and every edge among them is in it.
NothingSkipped ==
    phase = "applied" =>
        /\ user_ids = 1 .. AllUsers(community_sizes)
        /\ follows = {e \in given : \A i \in 1 .. 2 : e[i] <= AllUsers(community_sizes)}

\* Planning divides by zero only for a limit of zero.
PanicsOnZeroLimit == phase = "panicked" => max_community_size = 0
=============================================================================
