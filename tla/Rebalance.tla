------------------------------ MODULE Rebalance -------------------------------
(***************************************************************************)
(* Rebalancing a sharded graph (src/rebalance.rs): a plan is computed from  *)
(* the users each shard stores, kept by the caller, and applied, perhaps    *)
(* after other calls, one user at a time.  A move changes where a user is   *)
(* stored and not where the placement looks for it.                        *)
(***************************************************************************)
EXTENDS ShardedGraph, Imbalance

CONSTANTS Thresholds,  \* values of max_improvement, in percent
          MaxPlan      \* bound of the model on the length of a plan callers make up

ASSUME RebalanceAssumption ==
    /\ Shards \subseteq Nat
    /\ IsFiniteSet(Shards) /\ IsFiniteSet(Users)
    /\ Thresholds \subseteq Nat
    /\ MaxPlan \in Nat

VARIABLE plan  \* the caller's plan: its actions, the counts it promises, and
               \* whether the graph still is the one it was computed from

allVars == <<users, follows, cache, observed, replicated, op, plan>>

NoPlan == [actions |-> <<>>, target_shard_counts |-> <<>>, fresh |-> FALSE]

UsersPerShard == [s \in Shards |-> Cardinality(users[s])]

-----------------------------------------------------------------------------
(* compute_rebalance_plan *)

Edges(c) == Len(follows[c.from][c.user])

\* Fewest edges first; the stable sort keeps the order of the shards on a tie,
\* and within a shard the order is that of a hash map.
Sorted(list) ==
    \A i, j \in DOMAIN list : i < j =>
        \/ Edges(list[i]) < Edges(list[j])
        \/ Edges(list[i]) = Edges(list[j]) /\ list[i].from <= list[j].from

Candidates ==
    {c \in [user : Users, from : Shards] : Overloaded(UsersPerShard, c.from) /\ c.user \in users[c.from]}

CandidateLists == {list \in SetToSeqs(Candidates) : Sorted(list)}

\* Mutant of Consider: the user is added to one count and stays in the other.
ConsiderOneCount(p, c, percent) ==
    LET to == FindLeastLoaded(p.counts)
        moved == [p.counts EXCEPT ![to] = @ + 1]
    IN IF p.stopped \/ p.counts[to] >= Ceiling(UsersPerShard)
       THEN p
       ELSE [actions |-> Append(p.actions, [user |-> c.user, from |-> c.from, to |-> to]),
             counts |-> moved,
             stopped |-> ImbalanceAtMost(moved, percent)]

\* One iteration of the planning loop: p holds the actions and counts so far.
Consider(p, c, percent) ==
    LET to == FindLeastLoaded(p.counts)
        moved == [[p.counts EXCEPT ![c.from] = @ - 1] EXCEPT ![to] = @ + 1]
    IN IF p.stopped \/ p.counts[to] >= Ceiling(UsersPerShard)
       THEN p
       ELSE [actions |-> Append(p.actions, [user |-> c.user, from |-> c.from, to |-> to]),
             counts |-> moved,
             stopped |-> ImbalanceAtMost(moved, percent)]

ComputePlan(percent) ==
    /\ op = Idle
    /\ plan = NoPlan
    /\ LET start == [actions |-> <<>>, counts |-> UsersPerShard,
                     stopped |-> ImbalanceAtMost(UsersPerShard, percent)]
       IN \E list \in CandidateLists :
             LET considered[i \in 0 .. Len(list)] ==
                     IF i = 0 THEN start ELSE Consider(considered[i - 1], list[i], percent)
                 end == considered[Len(list)]
             IN plan' = [actions |-> end.actions, target_shard_counts |-> end.counts, fresh |-> TRUE]
    /\ UNCHANGED vars

\* The fields of a plan are public: callers may make up their own.
MakePlan(actions) ==
    /\ op = Idle
    /\ plan = NoPlan
    /\ plan' = [NoPlan EXCEPT !.actions = actions]
    /\ UNCHANGED vars

DiscardPlan ==
    /\ op = Idle
    /\ plan # NoPlan
    /\ plan' = NoPlan
    /\ UNCHANGED vars

-----------------------------------------------------------------------------
(* apply_rebalance_plan *)

Holders(u) == {s \in Shards : u \in users[s]}

ApplyBegin ==
    /\ op = Idle
    /\ plan # NoPlan
    /\ op' = [kind |-> "rebalance", todo |-> plan.actions, promised |-> plan.target_shard_counts,
              sound |-> plan.fresh /\ \A u \in Users : Cardinality(Holders(u)) <= 1]
    /\ plan' = NoPlan
    /\ UNCHANGED <<users, follows, cache, observed, replicated>>

\* What both outcomes of an action do first: the list is copied, its edges, a
\* self-edge and the user leave the source shard, and so does the cached list.
\* remove_follow_unchecked refuses a user the shard does not have.
FollowsLeft(a) ==
    IF a.user \in users[a.from] THEN [follows EXCEPT ![a.from][a.user] = <<>>] ELSE follows

UsersLeft(a) == [users EXCEPT ![a.from] = @ \ {a.user}]

CachesLeft(a) == [cache EXCEPT ![a.from] = Drop(@, a.user)]

\* Mutant of MoveUser: the list is copied after it was taken down.
MoveUserEmpty ==
    /\ op.kind = "rebalance" /\ op.todo # <<>>
    /\ LET a == Head(op.todo)
       IN /\ a.user \notin UsersLeft(a)[a.to]
          /\ users' = [UsersLeft(a) EXCEPT ![a.to] = @ \cup {a.user}]
          /\ follows' = FollowsLeft(a)
          /\ cache' = [CachesLeft(a) EXCEPT ![a.to] = Drop(@, a.user)]
    /\ op' = [op EXCEPT !.todo = Tail(@)]
    /\ UNCHANGED <<observed, replicated, plan>>

\* Mutant of MoveUser: the target's cache is not invalidated.
MoveUserKeepsCached ==
    /\ op.kind = "rebalance" /\ op.todo # <<>>
    /\ LET a == Head(op.todo)
       IN /\ a.user \notin UsersLeft(a)[a.to]
          /\ users' = [UsersLeft(a) EXCEPT ![a.to] = @ \cup {a.user}]
          /\ follows' = [FollowsLeft(a) EXCEPT ![a.to][a.user] = Merge(@, follows[a.from][a.user])]
          /\ cache' = CachesLeft(a)
    /\ op' = [op EXCEPT !.todo = Tail(@)]
    /\ UNCHANGED <<observed, replicated, plan>>

MoveUser ==
    /\ op.kind = "rebalance" /\ op.todo # <<>>
    /\ LET a == Head(op.todo)
       IN /\ a.user \notin UsersLeft(a)[a.to]
          /\ users' = [UsersLeft(a) EXCEPT ![a.to] = @ \cup {a.user}]
          /\ follows' = [FollowsLeft(a) EXCEPT ![a.to][a.user] = Merge(@, follows[a.from][a.user])]
          /\ cache' = [CachesLeft(a) EXCEPT ![a.to] = Drop(@, a.user)]
    /\ op' = [op EXCEPT !.todo = Tail(@)]
    /\ UNCHANGED <<observed, replicated, plan>>

\* The target shard has the user already: the call ends with DuplicateUser,
\* the source shard has lost it, and the later actions are not looked at.
MoveFails ==
    /\ op.kind = "rebalance" /\ op.todo # <<>>
    /\ LET a == Head(op.todo)
       IN /\ a.user \in UsersLeft(a)[a.to]
          /\ users' = UsersLeft(a)
          /\ follows' = FollowsLeft(a)
          /\ cache' = CachesLeft(a)
    /\ op' = Idle
    /\ UNCHANGED <<observed, replicated, plan>>

ApplyDone == op.kind = "rebalance" /\ op.todo = <<>>

ApplyEnd ==
    /\ ApplyDone
    /\ op' = Idle
    /\ UNCHANGED <<users, follows, cache, observed, replicated, plan>>

-----------------------------------------------------------------------------
RebalanceInit == Init /\ plan = NoPlan

\* A call between planning and applying leaves the plan as it is.
Unplanned(Call) == Call /\ plan' = [plan EXCEPT !.fresh = @ /\ UNCHANGED <<users, follows>>]

PlanCall ==
    \/ \E percent \in Thresholds : ComputePlan(percent)
    \/ \E n \in 1 .. MaxPlan :
          \E actions \in [1 .. n -> [user : Users, from : Shards, to : Shards]] : MakePlan(actions)
    \/ DiscardPlan
    \/ ApplyBegin \/ MoveUser \/ MoveFails \/ ApplyEnd

\* The whole public API with rebalancing.
RebalanceSpec == RebalanceInit /\ [][PlanCall \/ Unplanned(ApiNext)]_allVars

-----------------------------------------------------------------------------
(* Properties *)

\* A plan applied to the graph it was computed from, with each user on one
\* shard, never fails and ends with the counts it promised.
SoundPlanKept ==
    (op.kind = "rebalance" /\ op.sound) =>
        /\ op.todo # <<>> => Head(op.todo).user \in users[Head(op.todo).from]
        /\ op.todo = <<>> => UsersPerShard = op.promised

Targets(u) == UNION {ToSet(follows[s][u]) : s \in Shards}

Alike(u) == \A s \in Holders(u) : \A t \in Holders(u) : follows[s][u] = follows[t][u]

\* No application, fresh or stale, complete or cut short by a move that fails,
\* itself removes a user from its last shard, or an edge of a user whose copies
\* are alike.
MovesLoseNothing ==
    [][op.kind = "rebalance" =>
          \A u \in Users : /\ Holders(u) # {} => Holders(u)' # {}
                           /\ Alike(u) => Targets(u)' = Targets(u)]_allVars

\* Queries and graph do not notice that users were moved.
MovesInvisible ==
    [][op.kind = "rebalance" => KnownUsers' = KnownUsers /\ Lists' = Lists]_allVars
=============================================================================
