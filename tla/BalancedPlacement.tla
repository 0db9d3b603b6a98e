-------------------------- MODULE BalancedPlacement ---------------------------
(***************************************************************************)
(* with_balanced_communities: assign_communities_balanced (src/balanced.rs) *)
(* places one community at a time, the largest first, each on the shard     *)
(* with the fewest users, and with_placement (src/sharded.rs) checks the    *)
(* placement that comes out.  Loads are u64: they wrap at MaxId + 1, or the *)
(* sum panics, as the build has it.                                        *)
(***************************************************************************)
EXTENDS Placement, FiniteSetsExt

CONSTANTS MaxShards,       \* bounds of the model: shards,
          MaxCommunities,  \* communities,
          MaxSize          \* and users of a community

VARIABLES shard_count,
          community_sizes,
          community_ids,       \* those still to be placed, in order
          community_to_shard,
          users_per_shard,
          phase

vars == <<shard_count, community_sizes, community_ids, community_to_shard, users_per_shard, phase>>

Init ==
    /\ shard_count \in 0 .. MaxShards
    /\ community_sizes \in SeqOf(0 .. MaxSize, MaxCommunities)
    /\ community_ids = <<>>
    /\ community_to_shard = <<>>
    /\ users_per_shard = <<>>
    /\ phase = "called"

Acceptable == shard_count > 0 /\ community_sizes # <<>> /\ 0 \notin ToSet(community_sizes)

Refuse ==
    /\ phase = "called" /\ ~Acceptable
    /\ phase' = "refused"
    /\ UNCHANGED <<shard_count, community_sizes, community_ids, community_to_shard, users_per_shard>>

\* Mutant of Before: the communities keep the order they came in.
BeforeUnsorted(c, d) == c < d

\* The order of placing: larger communities first, the lower ID on a tie.
Before(c, d) ==
    \/ community_sizes[c] > community_sizes[d]
    \/ community_sizes[c] = community_sizes[d] /\ c < d

Sorted(ids) == \A i, j \in DOMAIN ids : i < j => Before(ids[i], ids[j])

Sort ==
    /\ phase = "called" /\ Acceptable
    /\ community_ids' \in {ids \in SetToSeqs(DOMAIN community_sizes) : Sorted(ids)}
    /\ community_to_shard' = [c \in DOMAIN community_sizes |-> 0]
    /\ users_per_shard' = [s \in 0 .. shard_count - 1 |-> 0]
    /\ phase' = "placing"
    /\ UNCHANGED <<shard_count, community_sizes>>

\* The shard with the fewest users, the first of them on a tie.
LeastLoaded ==
    CHOOSE s \in DOMAIN users_per_shard :
        \A t \in DOMAIN users_per_shard \ {s} :
            \/ users_per_shard[s] < users_per_shard[t]
            \/ users_per_shard[s] = users_per_shard[t] /\ s < t

PlaceNext ==
    /\ phase = "placing" /\ community_ids # <<>>
    /\ LET c == Head(community_ids)
           load == users_per_shard[LeastLoaded] + community_sizes[c]
       IN /\ community_to_shard' = [community_to_shard EXCEPT ![c] = LeastLoaded]
          /\ users_per_shard' = [users_per_shard EXCEPT ![LeastLoaded] = load % (MaxId + 1)]
          /\ \/ phase' = phase
             \/ load > MaxId /\ phase' = "panicked"
    /\ community_ids' = Tail(community_ids)
    /\ UNCHANGED <<shard_count, community_sizes>>

\* with_placement accepts the assignment or not.
Build ==
    /\ phase = "placing" /\ community_ids = <<>>
    /\ phase' = IF Valid(BalancedCommunity(community_sizes, community_to_shard), shard_count)
                THEN "built" ELSE "refused"
    /\ UNCHANGED <<shard_count, community_sizes, community_ids, community_to_shard, users_per_shard>>

Next == Refuse \/ Sort \/ PlaceNext \/ Build

Spec == Init /\ [][Next]_vars

-----------------------------------------------------------------------------
(* Properties *)

\* The walk over the community ends that try_shard_for makes for a user agrees
\* with the balancer: it places exactly the users 1 to the total size, and puts
\* on each shard as many as the balancer counted there.
LookupMatchesLoads ==
    phase = "built" =>
        LET shard(u) ==
                ShardFor(BalancedCommunity(community_sizes, community_to_shard), shard_count, u)
            ids == 0 .. MaxId + 1
        IN /\ {u \in ids : shard(u) # NoShard} = 1 .. AllUsers(community_sizes)
           /\ \A s \in DOMAIN users_per_shard :
                 users_per_shard[s] = Cardinality({u \in ids : shard(u) = s})

Heaviest(assignment) ==
    Max({MapThenSumSet(LAMBDA c : IF assignment[c] = s THEN community_sizes[c] ELSE 0,
                       DOMAIN community_sizes) : s \in 0 .. shard_count - 1})

\* "A greedy largest-first placement": the fullest shard has at most 4/3 - 1/3n
\* times the users the best of all assignments to n shards would give it.
NearOptimal ==
    phase = "built" =>
        LET best == Min({Heaviest(a) :
                            a \in [DOMAIN community_sizes -> 0 .. shard_count - 1]})
        IN 3 * shard_count * Heaviest(community_to_shard) <= (4 * shard_count - 1) * best

\* Whatever the balancer makes of communities that fit in the ID space passes
\* the checks of the constructor; those that do not fit never make a graph.
OnlyOverflowFails ==
    /\ phase \in {"refused", "panicked"} => ~Acceptable \/ AllUsers(community_sizes) > MaxId
    /\ phase = "built" => AllUsers(community_sizes) <= MaxId
=============================================================================
