---------------------------- MODULE GraphService -----------------------------
(***************************************************************************)
(* What concurrent callers of the worker-based graph (src/distributed.rs)   *)
(* may count on.  A call runs, then ends done or failed.  A follow edge     *)
(* takes effect once, while the call that asked for it runs or, if that call *)
(* was given up, at some later time.  A read is not atomic: its answer lies *)
(* between the graph at its start and the graph at its end.                 *)
(***************************************************************************)
EXTENDS FiniteSets

CONSTANTS Users, Clients

VARIABLES known,  \* users whose add_user has returned Ok
          edges,  \* follow edges in effect
          calls,  \* calls[c]: the call of client c
          loose   \* edges asked for by calls that ended without an answer

vars == <<known, edges, calls, loose>>

\* Users two hops from u over a set of edges.
TwoHop(E, u) == {w \in Users \ {u} : \E v \in Users : <<u, v>> \in E /\ <<v, w>> \in E}

Followed(E, u) == {v \in Users : <<u, v>> \in E}

Kinds == {"addUser", "addFollow", "getFollowing", "twoHop", "batched"}

\* What a read of kind k from u should return on the graph E.
Reads(k, E, u) == IF k = "getFollowing" THEN Followed(E, u) ELSE TwoHop(E, u)

NoCall == [kind |-> "none"]

Running(c) == calls[c].kind # "none" /\ calls[c].stage = "running"

\* The edges as they are when a read starts are part of the call.
Before(k) == IF k \in {"addUser", "addFollow"} THEN {} ELSE edges

NewCall(k, u, v) == [kind |-> k, u |-> u, v |-> v, before |-> Before(k), stage |-> "running", ids |-> {}]

Init ==
    /\ known = {}
    /\ edges = {}
    /\ calls = [c \in Clients |-> NoCall]
    /\ loose = {}

\* add_user excludes every other call; the others need known users.
Begin(c) ==
    /\ calls[c] = NoCall
    /\ \A d \in Clients : calls[d].kind # "addUser"
    /\ \E k \in Kinds, u \in Users, v \in Users :
           /\ IF k = "addUser"
              THEN u \notin known /\ \A d \in Clients : calls[d] = NoCall
              ELSE {u, v} \subseteq known
           /\ calls' = [calls EXCEPT ![c] = NewCall(k, u, v)]
    /\ UNCHANGED <<known, edges, loose>>

\* The edge of a running add_follow, or a loose one, takes effect.
Effect ==
    \/ \E c \in Clients :
           /\ Running(c) /\ calls[c].kind = "addFollow"
           /\ edges' = edges \cup {<<calls[c].u, calls[c].v>>}
           /\ UNCHANGED <<known, calls, loose>>
    \/ \E e \in loose :
           /\ edges' = edges \cup {e}
           /\ loose' \in {loose, loose \ {e}}
           /\ UNCHANGED <<known, calls>>

Done(c) ==
    /\ Running(c)
    /\ LET k == calls[c].kind
           u == calls[c].u
       IN /\ k = "addFollow" => <<u, calls[c].v>> \in edges
          /\ known' = IF k = "addUser" THEN known \cup {u} ELSE known
          /\ \E R \in IF k \in {"addUser", "addFollow"} THEN {{}}
                      ELSE {R \in SUBSET Reads(k, edges, u) : Reads(k, calls[c].before, u) \subseteq R} :
                 calls' = [calls EXCEPT ![c].stage = "done", ![c].ids = R]
    /\ UNCHANGED <<edges, loose>>

\* The call ends without an answer; its edge may still take effect.
Dangling(c) == loose \cup IF calls[c].kind = "addFollow" THEN {<<calls[c].u, calls[c].v>>} ELSE {}

Fail(c) ==
    /\ Running(c)
    /\ calls' = [calls EXCEPT ![c].stage = "failed"]
    /\ loose' \in {loose, Dangling(c)}
    /\ UNCHANGED <<known, edges>>

Cancel(c) ==
    /\ Running(c)
    /\ calls' = [calls EXCEPT ![c] = NoCall]
    /\ loose' \in {loose, Dangling(c)}
    /\ UNCHANGED <<known, edges>>

Return(c) ==
    /\ calls[c] # NoCall /\ ~Running(c)
    /\ calls' = [calls EXCEPT ![c] = NoCall]
    /\ UNCHANGED <<known, edges, loose>>

\* A loose edge may be lost with the worker it was sent to.
Lose == loose' \in SUBSET loose /\ UNCHANGED <<known, edges, calls>>

Next ==
    \/ \E c \in Clients : \/ Begin(c) \/ Done(c) \/ Fail(c) \/ Cancel(c) \/ Return(c)
    \/ Effect
    \/ Lose

\* The inequality is implied by the box; with it TLC dismisses a stutter at once.
Spec == Init /\ [][vars' # vars /\ Next]_vars
=============================================================================
