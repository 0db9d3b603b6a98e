---------------------------- MODULE BoundedCache ----------------------------
(***************************************************************************)
(* What AdjacencyLruCache (src/cache.rs) promises to its callers, for every *)
(* eviction policy at once.  A cache is a partial function from a user to  *)
(* the adjacency list cached for it.  Recency and frequency, which decide  *)
(* the victim of an eviction, are abstracted: any entry may be the next    *)
(* victim, and eviction stops as soon as the incoming entry has room.      *)
(***************************************************************************)
EXTENDS Naturals, FiniteSets, SequencesExt

CONSTANTS Capacity,      \* most entries a cache holds
          ByteCapacity,  \* most estimated bytes it holds, 0 for no such limit
          NodeBytes      \* size of a cache node, without its adjacency list

ASSUME CacheAssumption ==
    /\ Capacity \in Nat \ {0}
    /\ ByteCapacity \in Nat
    /\ NodeBytes \in Nat

EntryBytes(list) == NodeBytes + 8 * Len(list)

TotalBytes(c) == MapThenSumSet(LAMBDA u : EntryBytes(c[u]), DOMAIN c)

\* An entry larger than the whole byte limit is never cached.
Oversized(list) == ByteCapacity # 0 /\ EntryBytes(list) > ByteCapacity

\* The cache c can take one more entry of b bytes without an eviction.
HasRoom(c, b) ==
    /\ Cardinality(DOMAIN c) < Capacity
    /\ ByteCapacity = 0 \/ TotalBytes(c) + b <= ByteCapacity

Keep(c, K) == [u \in DOMAIN c \cap K |-> c[u]]

\* invalidate(u): the entry goes if it is there.
Drop(c, u) == Keep(c, DOMAIN c \ {u})

Put(c, u, list) == [v \in DOMAIN c \cup {u} |-> IF v = u THEN list ELSE c[v]]

\* The sets of keys that can be left when entries are evicted one at a time
\* until an entry of b bytes has room: with the last victim still there, it
\* had none.
Survivors(c, b) ==
    {K \in SUBSET DOMAIN c :
        /\ HasRoom(Keep(c, K), b)
        /\ K = DOMAIN c \/ \E v \in DOMAIN c \ K : ~HasRoom(Keep(c, K \cup {v}), b)}

\* Mutant of InsertOutcomes: an oversized list leaves the old entry in place.
InsertKeepsOld(c, u, list) ==
    IF Oversized(list)
    THEN {c}
    ELSE {Put(Keep(c, K), u, list) : K \in Survivors(Drop(c, u), EntryBytes(list))}

\* insert(u, list): the old entry of u goes first, even when the new one
\* turns out too large to be cached.
InsertOutcomes(c, u, list) ==
    IF Oversized(list)
    THEN {Drop(c, u)}
    ELSE {Put(Keep(c, K), u, list) : K \in Survivors(Drop(c, u), EntryBytes(list))}

\* A cleared cache after the entries lists[u], u \in S, none of them oversized,
\* were inserted in some order that ends with u = newest: either nothing had to
\* be evicted, or what is left fits and holds the newest entry.
FillOutcomes(lists, S, newest) ==
    LET Fits(K) == /\ Cardinality(K) <= Capacity
                   /\ ByteCapacity = 0 \/ TotalBytes(Keep(lists, K)) <= ByteCapacity
    IN IF Fits(S)
       THEN {Keep(lists, S)}
       ELSE {Keep(lists, K) : K \in {K \in SUBSET S : newest \in K /\ Fits(K)}}
=============================================================================
