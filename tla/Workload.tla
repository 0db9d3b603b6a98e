------------------------------- MODULE Workload --------------------------------
(***************************************************************************)
(* The workload generators (src/workload.rs, src/uneven.rs).  The random    *)
(* ones give each user some targets out of a group (its community, or the   *)
(* hubs) and then others from outside of it, drawing until enough different *)
(* ones were accepted.  A draw that is not accepted changes nothing and is  *)
(* not a step; the order of the edges of a user is left out.                *)
(***************************************************************************)
EXTENDS Integers, SequencesExt

CONSTANTS MaxUsers,       \* bounds of the model: users of a graph,
          MaxCommunities  \* and communities of uneven size

VARIABLES config,   \* the arguments of the call
          phase,
          source,   \* the user whose targets are being chosen
          targets,  \* those chosen so far
          edges     \* edges of the users done before

vars == <<config, phase, source, targets, edges>>

Small == 0 .. MaxUsers

Configs ==
    [kind : {"uniform"}, user_count : Small, edges_per_user : Small]
      \cup [kind : {"community"}, user_count : Small, community_count : Small,
            edges_per_user : Small, local : Small]
      \cup [kind : {"hub"}, user_count : Small, hub_count : Small,
            edges_per_user : Small, local : Small]
      \cup [kind : {"uneven"},
            sizes : {s \in SeqOf(Small, MaxCommunities) : FoldLeft(LAMBDA a, b : a + b, 0, s) <= MaxUsers},
            edges_per_user : Small, local : Small]

\* End of the first c communities of uneven size.
End(c) == FoldLeft(LAMBDA a, b : a + b, 0, SubSeq(config.sizes, 1, c))

UserCount == IF config.kind = "uneven" THEN End(Len(config.sizes)) ELSE config.user_count

AllUsers == 1 .. UserCount

Outside == config.edges_per_user - config.local

-----------------------------------------------------------------------------
(* The checks before the first draw *)

UniformAccepted == UserCount > 0 /\ config.edges_per_user < UserCount

\* Mutant of CommunityAccepted: a user is counted among its own targets.
CommunityAcceptedSelf ==
    /\ UserCount > 0
    /\ config.community_count > 0
    /\ UserCount % config.community_count = 0
    /\ config.local <= config.edges_per_user
    /\ config.local <= UserCount \div config.community_count
    /\ Outside <= UserCount - UserCount \div config.community_count

CommunityAccepted ==
    /\ UserCount > 0
    /\ config.community_count > 0
    /\ UserCount % config.community_count = 0
    /\ config.local <= config.edges_per_user
    /\ config.local < UserCount \div config.community_count
    /\ Outside <= UserCount - UserCount \div config.community_count

HubAccepted ==
    /\ UserCount > 0
    /\ config.hub_count > 0
    /\ config.hub_count < UserCount
    /\ config.edges_per_user < UserCount
    /\ config.local <= config.edges_per_user
    /\ config.local < config.hub_count
    /\ Outside < UserCount - config.hub_count

UnevenAccepted ==
    /\ config.sizes # <<>>
    /\ 0 \notin ToSet(config.sizes)
    /\ config.local <= config.edges_per_user
    /\ \A size \in ToSet(config.sizes) :
          config.local <= size - 1 /\ Outside <= UserCount - size

Accepted ==
    CASE config.kind = "uniform" -> UniformAccepted
      [] config.kind = "community" -> CommunityAccepted
      [] config.kind = "hub" -> HubAccepted
      [] config.kind = "uneven" -> UnevenAccepted

-----------------------------------------------------------------------------
Init ==
    /\ config \in Configs
    /\ phase = "called"
    /\ source = 1
    /\ targets = {}
    /\ edges = {}

Refuse ==
    /\ phase = "called" /\ ~Accepted
    /\ phase' = "refused"
    /\ UNCHANGED <<config, source, targets, edges>>

Begin ==
    /\ phase = "called" /\ Accepted
    /\ phase' = "choosing"
    /\ UNCHANGED <<config, source, targets, edges>>

\* The users the first loop draws from.
Group(u) ==
    CASE config.kind = "community" ->
            LET size == UserCount \div config.community_count
            IN {v \in AllUsers : (v - 1) \div size = (u - 1) \div size}
      [] config.kind = "hub" -> 1 .. config.hub_count
      [] config.kind = "uneven" ->
            UNION {End(c - 1) + 1 .. End(c) :
                      c \in {d \in DOMAIN config.sizes : u \in End(d - 1) + 1 .. End(d)}}

Choosing == phase = "choosing" /\ source <= UserCount

\* build_uniform_graph: the users that follow source in a circle.
FollowNext ==
    /\ Choosing /\ config.kind = "uniform"
    /\ Cardinality(targets) < config.edges_per_user
    /\ targets' = targets \cup {((source - 1 + Cardinality(targets) + 1) % UserCount) + 1}
    /\ UNCHANGED <<config, phase, source, edges>>

DrawInGroup(target) ==
    /\ Choosing /\ config.kind # "uniform"
    /\ Cardinality(targets) < config.local
    /\ target \in Group(source) \ (targets \cup {source})
    /\ targets' = targets \cup {target}
    /\ UNCHANGED <<config, phase, source, edges>>

\* Mutant of DrawOutside: anyone but the user itself will do.
DrawOutsideAnyone(target) ==
    /\ Choosing /\ config.kind # "uniform"
    /\ Cardinality(targets) >= config.local
    /\ Cardinality(targets) < config.edges_per_user
    /\ target \in AllUsers \ (targets \cup {source})
    /\ targets' = targets \cup {target}
    /\ UNCHANGED <<config, phase, source, edges>>

DrawOutside(target) ==
    /\ Choosing /\ config.kind # "uniform"
    /\ Cardinality(targets) >= config.local
    /\ Cardinality(targets) < config.edges_per_user
    /\ target \in AllUsers \ (Group(source) \cup targets \cup {source})
    /\ targets' = targets \cup {target}
    /\ UNCHANGED <<config, phase, source, edges>>

NextSource ==
    /\ Choosing
    /\ Cardinality(targets) >= config.edges_per_user
    /\ edges' = edges \cup {<<source, target>> : target \in targets}
    /\ targets' = {}
    /\ source' = source + 1
    /\ UNCHANGED <<config, phase>>

Finish ==
    /\ phase = "choosing" /\ source > UserCount
    /\ phase' = "done"
    /\ UNCHANGED <<config, source, targets, edges>>

Next ==
    \/ Refuse \/ Begin \/ FollowNext
    \/ \E target \in AllUsers : DrawInGroup(target) \/ DrawOutside(target)
    \/ NextSource \/ Finish

\* While an acceptable target is left, a uniform draw hits one in the end.
Spec == Init /\ [][Next]_vars /\ WF_vars(Next)

-----------------------------------------------------------------------------
(* Properties *)

Targets(u) == {v \in AllUsers : <<u, v>> \in edges}

\* "The generator ensures every user receives the requested number of unique
\* targets", itself never among them, and just as many of them as requested in
\* its group.
EdgesAsRequested ==
    phase = "done" =>
        \A u \in AllUsers :
            /\ u \notin Targets(u)
            /\ Cardinality(Targets(u)) = config.edges_per_user
            /\ config.kind # "uniform" => Cardinality(Targets(u) \cap Group(u)) = config.local

\* The call returns: whatever the checks let through, no user runs out of
\* targets while a loop still draws for it.
GeneratorReturns == <>(phase \in {"refused", "done"})

Possible(u) ==
    LET others == AllUsers \ {u}
    IN IF config.kind = "uniform" THEN config.edges_per_user <= Cardinality(others)
       ELSE /\ Outside >= 0
            /\ config.local <= Cardinality(others \cap Group(u))
            /\ Outside <= Cardinality(others \ Group(u))

WellFormed ==
    CASE config.kind = "uniform" -> TRUE
      [] config.kind = "community" -> config.community_count > 0 /\ UserCount % config.community_count = 0
      [] config.kind = "hub" -> config.hub_count \in 1 .. UserCount - 1
      [] config.kind = "uneven" -> 0 \notin ToSet(config.sizes)

\* Nothing is refused that could be generated: for communities of a proper size,
\* there is a user with too few targets.
RefusedOnlyIfImpossible ==
    (phase = "refused" /\ UserCount > 0 /\ WellFormed) => \E u \in AllUsers : ~Possible(u)
=============================================================================
