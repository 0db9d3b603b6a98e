---------------------------- MODULE IdLruSimulator -----------------------------
(***************************************************************************)
(* The IdLruSimulator that the logical cache benchmarks count hits with     *)
(* (src/cache.rs), next to a real AdjacencyLruCache of the same capacity    *)
(* under LRU that is read through: a user asked for and not cached is       *)
(* inserted.  The simulator answers at once, the real cache in its steps.   *)
(***************************************************************************)
EXTENDS AdjacencyLruCache

VARIABLE entries  \* the users of the simulator, the next victim first, or Unrelated

simulatedVars == <<cache, op, history, entries>>

\* The simulator knows inserts of new users and hits only: it is compared with an
\* LRU cache until that one evicts for its bytes or is used in any other way.
Unrelated == "unrelated"

\* Mutant of Accessed: a hit leaves its entry where it is.
AccessedFifo(list, u) ==
    IF u \in ToSet(list) THEN list
    ELSE IF Len(list) = Capacity THEN Append(Tail(list), u)
    ELSE Append(list, u)

\* What access(u) makes of the entries.
Accessed(list, u) ==
    IF u \in ToSet(list) THEN Append(Without(list, u), u)
    ELSE IF Len(list) = Capacity THEN Append(Tail(list), u)
    ELSE Append(list, u)

\* access(u) of the simulator and get_shared(u) of the cache, which an insert
\* follows on a miss.
Access(u, list) ==
    /\ IF u \in DOMAIN cache.locations THEN Hit(u) ELSE InsertBegin(u, list) /\ ~Oversized(list)
    /\ entries' = IF entries = Unrelated THEN entries ELSE Accessed(entries, u)

Insert ==
    /\ InsertEvict \/ InsertEnd
    /\ entries' = IF InsertEvict /\ Cardinality(DOMAIN cache.locations) < Capacity
                  THEN Unrelated ELSE entries

OtherUse ==
    /\ \/ \E u \in CacheUsers : Invalidate(u)
       \/ \E u \in CacheUsers, list \in CacheLists :
              (u \in DOMAIN cache.locations \/ Oversized(list)) /\ InsertBegin(u, list)
       \/ ClearBegin \/ ClearOne \/ ClearEnd
    /\ entries' = Unrelated

SimulatedInit == Init /\ entries = IF cache.policy = "Lru" THEN <<>> ELSE Unrelated

SimulatedNext ==
    \/ \E u \in CacheUsers, list \in CacheLists : Access(u, list)
    \/ Insert
    \/ OtherUse

SimulatedSpec == SimulatedInit /\ [][SimulatedNext]_simulatedVars

\* The simulator holds what the cache holds, in the order in which the cache
\* would evict it: every access hits both or neither.
SimulatorAgrees ==
    op = Idle /\ entries # Unrelated =>
        entries = [k \in DOMAIN Chain |-> cache.nodes[Chain[k]].user_id]
=============================================================================
