-------------------------- MODULE AdjacencyLruCache --------------------------
(***************************************************************************)
(* The inside of AdjacencyLruCache (src/cache.rs): a slab of nodes, the     *)
(* indices freed in it, a doubly linked list threaded through it from the   *)
(* next FIFO or LRU victim to the newest entry, the index of each user, an  *)
(* ordered index for LFU, and a running byte count, all kept in step by     *)
(* hand.  Index 0 stands for None; slots count from 1.                      *)
(*                                                                         *)
(* insert and clear loop over remove_node; each iteration is a step, and no *)
(* other call starts before the last (every method takes &mut self).        *)
(***************************************************************************)
EXTENDS BoundedCache, AdjacencyLists

CONSTANTS CacheUsers,  \* users whose lists are offered to the cache
          CacheLists,  \* adjacency lists offered to it
          Policies,    \* eviction policies a cache may be built with
          MaxCounter,  \* where frequencies and sequence numbers saturate (u64::MAX)
          NoNode       \* content of a free slot

\* CacheNode
Node == [user_id : CacheUsers, adjacency_list : CacheLists, bytes : Nat,
         frequency : 1 .. MaxCounter, inserted_at : 0 .. MaxCounter,
         last_accessed_at : 0 .. MaxCounter, previous : Nat, next : Nat]

ASSUME SlabAssumption ==
    /\ Policies \subseteq {"Lru", "Fifo", "Lfu"}
    /\ MaxCounter \in Nat \ {0}
    /\ \A list \in CacheLists : Len(list) \in Nat
    /\ NoNode \notin Node

VARIABLES cache,   \* the fields of the cache
          op,      \* the insert or clear under way
          history  \* of the cached users only: their order of last use, their order
                   \* of insertion, and how often each was used; no code reads it

vars == <<cache, op, history>>

None == 0

Idle == [kind |-> "idle"]

Bump(n) == IF n < MaxCounter THEN n + 1 ELSE n

-----------------------------------------------------------------------------
(* Reading the structure *)

LfuKey(c, i) == <<c.nodes[i].frequency, c.nodes[i].last_accessed_at, c.nodes[i].inserted_at, i>>

\* The order of the keys: the first component in which they differ decides.
Precedes(k, l) == \E i \in 1 .. 4 : k[i] < l[i] /\ \A j \in 1 .. i - 1 : k[j] = l[j]

\* Mutant of EvictionCandidate: the newest entry goes.
EvictNewest(c) == c.tail

EvictionCandidate(c) ==
    IF c.policy = "Lfu"
    THEN LET first == CHOOSE k \in c.lfu_index : \A l \in c.lfu_index \ {k} : Precedes(k, l)
         IN first[4]
    ELSE c.head

\* Mutant of MustEvict: one entry too many.
MustEvictLate(c, bytes) ==
    \/ Cardinality(DOMAIN c.locations) > Capacity
    \/ ByteCapacity # 0 /\ c.current_bytes + bytes > ByteCapacity

MustEvict(c, bytes) ==
    \/ Cardinality(DOMAIN c.locations) >= Capacity
    \/ ByteCapacity # 0 /\ c.current_bytes + bytes > ByteCapacity

-----------------------------------------------------------------------------
(* Changing the structure: what the private methods leave behind *)

\* Mutant of Detach: the node before forgets to skip the detached one.
DetachOneWay(c, i) ==
    LET p == c.nodes[i].previous
        n == c.nodes[i].next
    IN [c EXCEPT
          !.nodes = [j \in DOMAIN @ |->
                        CASE j = i -> [@[j] EXCEPT !.previous = None, !.next = None]
                          [] j = n /\ j # i -> [@[j] EXCEPT !.previous = p]
                          [] OTHER -> @[j]],
          !.head = IF p = None THEN n ELSE @,
          !.tail = IF n = None THEN p ELSE @]

Detach(c, i) ==
    LET p == c.nodes[i].previous
        n == c.nodes[i].next
    IN [c EXCEPT
          !.nodes = [j \in DOMAIN @ |->
                        CASE j = i -> [@[j] EXCEPT !.previous = None, !.next = None]
                          [] j = p /\ j # i -> [@[j] EXCEPT !.next = n]
                          [] j = n /\ j # i -> [@[j] EXCEPT !.previous = p]
                          [] OTHER -> @[j]],
          !.head = IF p = None THEN n ELSE @,
          !.tail = IF n = None THEN p ELSE @]

AttachAsMostRecent(c, i) ==
    [c EXCEPT
       !.nodes = [j \in DOMAIN @ |->
                     CASE j = i -> [@[j] EXCEPT !.previous = c.tail, !.next = None]
                       [] j = c.tail /\ j # i -> [@[j] EXCEPT !.next = i]
                       [] OTHER -> @[j]],
       !.head = IF c.tail = None THEN i ELSE @,
       !.tail = i]

\* insert and remove of the BTreeSet of keys, which only LFU keeps.
Indexed(c, i) == IF c.policy = "Lfu" THEN [c EXCEPT !.lfu_index = @ \cup {LfuKey(c, i)}] ELSE c

Unindexed(c, i) == IF c.policy = "Lfu" THEN [c EXCEPT !.lfu_index = @ \ {LfuKey(c, i)}] ELSE c

\* The slot freed last is used again before the slab grows.
AllocateNode(c, u, list) ==
    LET node == [user_id |-> u, adjacency_list |-> list, bytes |-> EntryBytes(list),
                 frequency |-> 1, inserted_at |-> c.sequence, last_accessed_at |-> c.sequence,
                 previous |-> None, next |-> None]
        i == IF c.free_indices = <<>> THEN Len(c.nodes) + 1 ELSE Last(c.free_indices)
        placed == [c EXCEPT
                     !.nodes = IF c.free_indices = <<>> THEN Append(@, node) ELSE [@ EXCEPT ![i] = node],
                     !.free_indices = IF @ = <<>> THEN @ ELSE Front(@),
                     !.sequence = Bump(@),
                     !.locations = Put(@, u, i),
                     !.current_bytes = @ + EntryBytes(list)]
    IN Indexed(AttachAsMostRecent(placed, i), i)

\* Mutant of RemoveNode: the bytes stay counted.
RemoveNodeKeepsBytes(c, i) ==
    [Detach(Unindexed(c, i), i) EXCEPT
       !.locations = Keep(@, DOMAIN @ \ {c.nodes[i].user_id}),
       !.nodes[i] = NoNode,
       !.free_indices = Append(@, i)]

RemoveNode(c, i) ==
    [Detach(Unindexed(c, i), i) EXCEPT
       !.locations = Keep(@, DOMAIN @ \ {c.nodes[i].user_id}),
       !.current_bytes = IF @ > c.nodes[i].bytes THEN @ - c.nodes[i].bytes ELSE 0,
       !.nodes[i] = NoNode,
       !.free_indices = Append(@, i)]

Used(node, now) == [node EXCEPT !.frequency = Bump(@), !.last_accessed_at = now]

\* Mutant of Touched: the ordered index keeps the key of before the read.
TouchedUnindexed(c, i) ==
    LET counted == [c EXCEPT !.nodes[i] = Used(@, c.sequence), !.sequence = Bump(@)]
    IN IF c.policy = "Lru" THEN AttachAsMostRecent(Detach(counted, i), i) ELSE counted

\* A hit: counted and stamped, re-indexed under LFU, moved to the end under LRU.
Touched(c, i) ==
    LET counted == [Unindexed(c, i) EXCEPT !.nodes[i] = Used(@, c.sequence), !.sequence = Bump(@)]
    IN IF c.policy = "Lru" THEN AttachAsMostRecent(Detach(counted, i), i) ELSE Indexed(counted, i)

-----------------------------------------------------------------------------
(* The history, kept from the calls alone *)

Forgotten(h, u) == [byUse |-> Without(h.byUse, u), byInsertion |-> Without(h.byInsertion, u),
                    uses |-> Drop(h.uses, u)]

NotedInsert(h, u) == [byUse |-> Append(h.byUse, u), byInsertion |-> Append(h.byInsertion, u),
                      uses |-> Put(h.uses, u, 1)]

NotedHit(h, u) == [h EXCEPT !.byUse = Append(Without(@, u), u), !.uses[u] = Bump(@)]

-----------------------------------------------------------------------------
\* build, for each policy
Init ==
    /\ cache \in [policy : Policies, current_bytes : {0}, sequence : {0}, lfu_index : {{}},
                  locations : {<<>>}, nodes : {<<>>}, free_indices : {<<>>},
                  head : {None}, tail : {None}]
    /\ op = Idle
    /\ history = [byUse |-> <<>>, byInsertion |-> <<>>, uses |-> <<>>]

Contents(c) == [u \in DOMAIN c.locations |-> c.nodes[c.locations[u]].adjacency_list]

\* get_shared(u), found
Hit(u) ==
    /\ op = Idle
    /\ u \in DOMAIN cache.locations
    /\ cache' = Touched(cache, cache.locations[u])
    /\ history' = NotedHit(history, u)
    /\ UNCHANGED op

\* insert_shared(u, list) drops the old entry of u first; a list larger than
\* the whole byte limit then ends the call.
InsertBegin(u, list) ==
    /\ op = Idle
    /\ cache' = IF u \in DOMAIN cache.locations THEN RemoveNode(cache, cache.locations[u]) ELSE cache
    /\ history' = Forgotten(history, u)
    /\ op' = IF Oversized(list) THEN Idle
             ELSE [kind |-> "insert", user |-> u, list |-> list, before |-> Contents(cache)]

\* One iteration of the eviction loop.  Without a candidate the code panics: TLC
\* would report that as a deadlock.
InsertEvict ==
    /\ op.kind = "insert"
    /\ MustEvict(cache, EntryBytes(op.list))
    /\ EvictionCandidate(cache) # None
    /\ cache' = RemoveNode(cache, EvictionCandidate(cache))
    /\ history' = Forgotten(history, cache.nodes[EvictionCandidate(cache)].user_id)
    /\ UNCHANGED op

InsertEnd ==
    /\ op.kind = "insert"
    /\ ~MustEvict(cache, EntryBytes(op.list))
    /\ cache' = AllocateNode(cache, op.user, op.list)
    /\ history' = NotedInsert(history, op.user)
    /\ op' = Idle

Invalidate(u) ==
    /\ op = Idle
    /\ u \in DOMAIN cache.locations
    /\ cache' = RemoveNode(cache, cache.locations[u])
    /\ history' = Forgotten(history, u)
    /\ UNCHANGED op

ClearBegin ==
    /\ op = Idle
    /\ op' = [kind |-> "clear", before |-> Contents(cache)]
    /\ UNCHANGED <<cache, history>>

ClearOne ==
    /\ op.kind = "clear"
    /\ cache.head # None
    /\ cache' = RemoveNode(cache, cache.head)
    /\ history' = Forgotten(history, cache.nodes[cache.head].user_id)
    /\ UNCHANGED op

ClearEnd ==
    /\ op.kind = "clear"
    /\ cache.head = None
    /\ op' = Idle
    /\ UNCHANGED <<cache, history>>

Next ==
    \/ \E u \in CacheUsers : Hit(u) \/ Invalidate(u)
    \/ \E u \in CacheUsers, list \in CacheLists : InsertBegin(u, list)
    \/ InsertEvict \/ InsertEnd
    \/ ClearBegin \/ ClearOne \/ ClearEnd

Spec == Init /\ [][Next]_vars

-----------------------------------------------------------------------------
(* Properties *)

Slots == 1 .. Len(cache.nodes)

Occupied == {i \in Slots : cache.nodes[i] # NoNode}

\* The indices met by following next from head, for at most all slots and one.
Chain ==
    LET next(i) == IF i \in Occupied THEN cache.nodes[i].next ELSE None
        met[n \in 0 .. Len(cache.nodes)] ==
            IF n = 0 THEN IF cache.head = None THEN <<>> ELSE <<cache.head>>
            ELSE LET before == met[n - 1]
                 IN IF before = <<>> \/ next(Last(before)) = None THEN before
                    ELSE Append(before, next(Last(before)))
    IN met[Len(cache.nodes)]

\* The linked list runs through every entry once, the same way in both
\* directions, and ends where tail says.
LinksConsistent ==
    /\ IsInjective(Chain)
    /\ ToSet(Chain) = Occupied
    /\ cache.tail = IF Chain = <<>> THEN None ELSE Last(Chain)
    /\ \A k \in DOMAIN Chain :
          cache.nodes[Chain[k]].previous = IF k = 1 THEN None ELSE Chain[k - 1]

\* Every slot is either found through exactly one user or waits to be used
\* again, and the slab never outgrows the capacity.
SlotsConsistent ==
    /\ Len(cache.nodes) <= Capacity
    /\ \A u \in DOMAIN cache.locations :
          cache.locations[u] \in Occupied /\ cache.nodes[cache.locations[u]].user_id = u
    /\ Cardinality(Occupied) = Cardinality(DOMAIN cache.locations)
    /\ IsInjective(cache.free_indices)
    /\ ToSet(cache.free_indices) = Slots \ Occupied

\* Slab, linked list and locations agree.
SlabConsistent == LinksConsistent /\ SlotsConsistent

\* The ordered index names every entry under its present key and nothing else:
\* no removal misses its key (the debug_asserts) and no stale key is a victim.
IndexExact ==
    cache.lfu_index = IF cache.policy = "Lfu" THEN {LfuKey(cache, i) : i \in Occupied} ELSE {}

\* Both limits hold between any two steps, and the byte count is the sum over
\* the entries, so that no drift ever evicts too much or too little.
LimitsRespected ==
    /\ Cardinality(Occupied) <= Capacity
    /\ cache.current_bytes = TotalBytes([i \in Occupied |-> cache.nodes[i].adjacency_list])
    /\ ByteCapacity = 0 \/ cache.current_bytes <= ByteCapacity

\* The next victim is the user the policy promises, judged by the calls made
\* and not by the structure: longest unused, oldest, or least often used and,
\* among those, longest unused (as long as sequence numbers do not saturate).
VictimOfPolicy ==
    Occupied # {} =>
        LET victim == cache.nodes[EvictionCandidate(cache)].user_id
            rank(u) == CHOOSE k \in DOMAIN history.byUse : history.byUse[k] = u
            stamp(u) == cache.nodes[cache.locations[u]].last_accessed_at
        IN CASE cache.policy = "Lru" -> victim = Head(history.byUse)
             [] cache.policy = "Fifo" -> victim = Head(history.byInsertion)
             [] cache.policy = "Lfu" ->
                    \A u \in DOMAIN history.uses \ {victim} :
                        \/ history.uses[victim] < history.uses[u]
                        \/ /\ history.uses[victim] = history.uses[u]
                           /\ stamp(victim) # stamp(u) => rank(victim) < rank(u)

\* Slab, list and indices implement the contract ShardedGraph relies on.
Contract ==
    INSTANCE CacheContract WITH entries <- IF op = Idle THEN Contents(cache) ELSE op.before

CacheSpec == Contract!Spec
=============================================================================
