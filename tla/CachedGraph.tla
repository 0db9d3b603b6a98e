----------------------------- MODULE CachedGraph ------------------------------
(***************************************************************************)
(* One unsharded Graph with all its operations, and two-hop queries through *)
(* a cache that the caller keeps (Graph of src/lib.rs).  The graph does not *)
(* know of the cache: only callers can invalidate what a mutation changed.  *)
(* A query borrows the graph, so nothing changes until it has returned.     *)
(***************************************************************************)
EXTENDS BoundedCache, AdjacencyLists

CONSTANTS Users,
          MaxDegree  \* bound of the model on the length of an adjacency list

VARIABLES known,      \* keys of the user table
          following,  \* following[u]: the adjacency list of u, <<>> if none
          cache,      \* the caller's cache
          op,         \* the query under way
          careful     \* whether all changes were invalidated so far; no code reads it

vars == <<known, following, cache, op, careful>>

Idle == [kind |-> "idle"]

Init ==
    /\ known = {}
    /\ following = [u \in Users |-> <<>>]
    /\ cache = <<>>
    /\ op = Idle
    /\ careful = TRUE

AddUser(u) ==
    /\ op = Idle
    /\ u \notin known
    /\ known' = known \cup {u}
    /\ UNCHANGED <<following, cache, op, careful>>

\* The lists that name u stay, and so does the list of u itself.
RemoveUser(u) ==
    /\ op = Idle
    /\ u \in known
    /\ known' = known \ {u}
    /\ UNCHANGED <<following, cache, op, careful>>

\* Both ends must be known.  A cautious caller then invalidates u.
AddFollow(u, v, cautious) ==
    /\ op = Idle
    /\ {u, v} \subseteq known
    /\ v \notin ToSet(following[u])
    /\ Len(following[u]) < MaxDegree
    /\ following' = [following EXCEPT ![u] = WithTarget(@, v)]
    /\ cache' = IF cautious THEN Drop(cache, u) ELSE cache
    /\ careful' = (careful /\ cautious)
    /\ UNCHANGED <<known, op>>

RemoveFollow(u, v, cautious) ==
    /\ op = Idle
    /\ {u, v} \subseteq known
    /\ v \in ToSet(following[u])
    /\ following' = [following EXCEPT ![u] = Without(@, v)]
    /\ cache' = IF cautious THEN Drop(cache, u) ELSE cache
    /\ careful' = (careful /\ cautious)
    /\ UNCHANGED <<known, op>>

-----------------------------------------------------------------------------
(* Two hops, in the order of the answer *)

\* result and seen: a user is pushed the first time it is met.
Pushed(result, list, source) ==
    FoldLeft(LAMBDA r, v : IF v = source \/ v \in ToSet(r) THEN r ELSE Append(r, v), result, list)

\* get_two_hop_ids(source), which looks at no cache and at no user table
TwoHopIds(source) ==
    FoldLeft(LAMBDA r, v : Pushed(r, following[v], source), <<>>, following[source])

Fresh(v) == v \in DOMAIN cache => cache[v] = following[v]

\* get_two_hop_ids_with_cache(source, cache): fresh is a note of the model on
\* the cache the query was given, the rest are its locals.
QueryBegin(source) ==
    /\ op = Idle
    /\ op' = [kind |-> "query", source |-> source, todo |-> following[source], result |-> <<>>,
              hits |-> 0, misses |-> 0,
              fresh |-> \A v \in ToSet(following[source]) : Fresh(v)]
    /\ UNCHANGED <<known, following, cache, careful>>

\* Mutant of QueryHop: a miss returns what the insertion left of the old entry.
QueryHopFromCache ==
    /\ op.kind = "query" /\ op.todo # <<>>
    /\ LET v == Head(op.todo)
           hit == v \in DOMAIN cache
       IN \E c \in (IF hit THEN {cache} ELSE InsertOutcomes(cache, v, following[v])) :
             /\ cache' = c
             /\ op' = [op EXCEPT !.todo = Tail(@),
                                 !.result = IF v \in DOMAIN c THEN Pushed(@, c[v], op.source) ELSE @,
                                 !.hits = IF hit THEN @ + 1 ELSE @,
                                 !.misses = IF hit THEN @ ELSE @ + 1]
    /\ UNCHANGED <<known, following, careful>>

QueryHop ==
    /\ op.kind = "query" /\ op.todo # <<>>
    /\ LET v == Head(op.todo)
           hit == v \in DOMAIN cache
           list == IF hit THEN cache[v] ELSE following[v]
       IN /\ cache' \in (IF hit THEN {cache} ELSE InsertOutcomes(cache, v, list))
          /\ op' = [op EXCEPT !.todo = Tail(@),
                              !.result = Pushed(@, list, op.source),
                              !.hits = IF hit THEN @ + 1 ELSE @,
                              !.misses = IF hit THEN @ ELSE @ + 1]
    /\ UNCHANGED <<known, following, careful>>

QueryDone == op.kind = "query" /\ op.todo = <<>>

QueryEnd ==
    /\ QueryDone
    /\ op' = Idle
    /\ UNCHANGED <<known, following, cache, careful>>

-----------------------------------------------------------------------------
Next ==
    \/ \E u \in Users : AddUser(u) \/ RemoveUser(u) \/ QueryBegin(u)
    \/ \E u, v \in Users, cautious \in BOOLEAN :
          AddFollow(u, v, cautious) \/ RemoveFollow(u, v, cautious)
    \/ QueryHop \/ QueryEnd

\* Callers invalidate what they change, or forget to.
Spec == Init /\ [][Next]_vars

-----------------------------------------------------------------------------
(* Properties *)

\* While callers are careful the cached query is the uncached one, in its order:
\* through removed and added users, evictions and lists too large to cache.
\* Whatever was forgotten before, so is a query that starts with no stale list
\* among its first hops: it neither reads nor leaves behind an older list.
AnswerExact == (QueryDone /\ (careful \/ op.fresh)) => op.result = TwoHopIds(op.source)
=============================================================================
