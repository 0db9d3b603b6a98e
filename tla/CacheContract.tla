---------------------------- MODULE CacheContract ----------------------------
(***************************************************************************)
(* The calls of one cache (AdjacencyLruCache, src/cache.rs) as its callers  *)
(* see them: which lists it holds, and no order among them.  ShardedGraph   *)
(* uses the same InsertOutcomes and Drop for the caches of its shards.      *)
(***************************************************************************)
EXTENDS BoundedCache

CONSTANTS CacheUsers,  \* users whose lists are offered to the cache
          CacheLists   \* adjacency lists offered to it

VARIABLE entries       \* the cached list of each cached user

Init == entries = <<>>

Insert(u, list) == entries' \in InsertOutcomes(entries, u, list)

Invalidate(u) == u \in DOMAIN entries /\ entries' = Drop(entries, u)

Clear == entries' = <<>>

Next ==
    \/ \E u \in CacheUsers, list \in CacheLists : Insert(u, list)
    \/ \E u \in CacheUsers : Invalidate(u)
    \/ Clear

\* The inequality is implied by the box; with it TLC dismisses a stutter at once.
Spec == Init /\ [][entries' # entries /\ Next]_entries
=============================================================================
