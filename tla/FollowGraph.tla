----------------------------- MODULE FollowGraph -----------------------------
(***************************************************************************)
(* What every graph of the repository promises: a set of known users, the  *)
(* list of users each of them follows, and a two-hop answer computed from  *)
(* those lists alone.  Shards, replicas, caches and workers are not seen.  *)
(* It is the unsharded Graph of src/lib.rs, without remove_user.           *)
(***************************************************************************)
EXTENDS AdjacencyLists

CONSTANTS Users, NoAnswer

VARIABLES known,      \* the users that exist
          following,  \* following[u]: the users u follows, in the order added
          answer      \* the answer being returned to the caller, if any

vars == <<known, following, answer>>

Init ==
    /\ known = {}
    /\ following = [u \in Users |-> <<>>]
    /\ answer = NoAnswer

AddUser(u) ==
    /\ u \notin known
    /\ known' = known \cup {u}
    /\ UNCHANGED <<following, answer>>

AddFollow(u, v) ==
    /\ {u, v} \subseteq known
    /\ v \notin ToSet(following[u])
    /\ following' = [following EXCEPT ![u] = Append(@, v)]
    /\ UNCHANGED <<known, answer>>

RemoveFollow(u, v) ==
    /\ {u, v} \subseteq known
    /\ v \in ToSet(following[u])
    /\ following' = [following EXCEPT ![u] = Without(@, v)]
    /\ UNCHANGED <<known, answer>>

Answer(u) ==
    /\ answer = NoAnswer
    /\ answer' = [source |-> u, ids |-> TwoHop(following, u)]
    /\ UNCHANGED <<known, following>>

Forget ==
    /\ answer # NoAnswer
    /\ answer' = NoAnswer
    /\ UNCHANGED <<known, following>>

Next ==
    \/ \E u \in Users : AddUser(u) \/ Answer(u)
    \/ \E u, v \in Users : AddFollow(u, v) \/ RemoveFollow(u, v)
    \/ Forget

Spec == Init /\ [][Next]_vars
=============================================================================
