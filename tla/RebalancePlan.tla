---------------------------- MODULE RebalancePlan -----------------------------
(***************************************************************************)
(* The planning loop of compute_rebalance_plan (src/rebalance.rs), one      *)
(* candidate at a time, from every distribution of users.  Candidates come  *)
(* sorted by their number of edges, which puts the users of the overloaded  *)
(* shards in any order: a step takes a user of any of them.                 *)
(***************************************************************************)
EXTENDS Imbalance

CONSTANTS Shards,    \* shard indices
          MaxUsers,  \* most users on a shard at the start (bound of the model)
          Thresholds \* values of max_improvement, in percent

VARIABLES initial,   \* users_per_shard when planning starts
          target,    \* max_improvement
          counts,    \* current_counts
          left,      \* candidates of each shard not yet looked at
          moves,     \* moves[s][t]: actions from s to t
          stopped    \* the loop was left by its break, or never entered

vars == <<initial, target, counts, left, moves, stopped>>

Init ==
    /\ initial \in [Shards -> 0 .. MaxUsers]
    /\ target \in Thresholds
    /\ counts = initial
    /\ left = [s \in Shards |-> IF Overloaded(initial, s) THEN initial[s] ELSE 0]
    /\ moves = [s \in Shards |-> [t \in Shards |-> 0]]
    /\ stopped = ImbalanceAtMost(initial, target)

\* Mutant of Consider: both counts are read before either is written back.
ConsiderStaleCounts(from) ==
    LET to == FindLeastLoaded(counts)
    IN /\ ~stopped
       /\ left[from] > 0
       /\ left' = [left EXCEPT ![from] = @ - 1]
       /\ counts[to] < Ceiling(initial)
       /\ counts' = [[counts EXCEPT ![from] = @ - 1] EXCEPT ![to] = counts[to] + 1]
       /\ moves' = [moves EXCEPT ![from][to] = @ + 1]
       /\ stopped' = ImbalanceAtMost(counts', target)
       /\ UNCHANGED <<initial, target>>

\* One candidate, a user of shard from: it is planned to move to the least
\* loaded shard while that one is below the ceiling.
Consider(from) ==
    LET to == FindLeastLoaded(counts)
        room == counts[to] < Ceiling(initial)
        moved == [[counts EXCEPT ![from] = @ - 1] EXCEPT ![to] = @ + 1]
    IN /\ ~stopped
       /\ left[from] > 0
       /\ left' = [left EXCEPT ![from] = @ - 1]
       /\ IF room
          THEN /\ counts' = moved
               /\ moves' = [moves EXCEPT ![from][to] = @ + 1]
               /\ stopped' = ImbalanceAtMost(moved, target)
          ELSE UNCHANGED <<counts, moves, stopped>>
       /\ UNCHANGED <<initial, target>>

Done == stopped \/ \A s \in Shards : left[s] = 0

Next == \E from \in Shards : Consider(from)

Spec == Init /\ [][Next]_vars

-----------------------------------------------------------------------------
(* Properties *)

\* At no point has the plan made the fullest shard fuller, and a shard that is
\* to gain users ends no higher than the ceiling.
NeverWorse ==
    /\ MostLoaded(counts) <= MostLoaded(initial)
    /\ \A s \in Shards : counts[s] > initial[s] => counts[s] <= Ceiling(initial)

\* The plan is complete: when there was an overloaded shard, it reaches the
\* target imbalance, leaves no shard below the ceiling, or has brought every
\* shard that was overloaded down to it.  A shard that gave too many users can
\* become the least loaded and spend its candidates on moves to itself: it may
\* then end at the ceiling while others are still below.
PlanComplete ==
    (Done /\ \E s \in Shards : Overloaded(initial, s)) =>
        \/ ImbalanceAtMost(counts, target)
        \/ \A s \in Shards : counts[s] >= Ceiling(initial)
        \/ \A s \in Shards : Overloaded(initial, s) => counts[s] <= Ceiling(initial)

\* The running counts are those the planned moves lead to: users are neither
\* counted twice nor lost.
CountsAddUp ==
    \A s \in Shards :
        counts[s] = initial[s] - TotalOf(moves[s]) + TotalOf([t \in Shards |-> moves[t][s]])
=============================================================================
