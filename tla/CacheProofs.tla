------------------------------ MODULE CacheProofs ------------------------------
(***************************************************************************)
(* Theorems about AdjacencyLruCache and about IdLruSimulator next to it.     *)
(* What the cache keeps in step by hand is one invariant, Sound, of the      *)
(* cache and the history of its calls.  First each way to change the         *)
(* structure is shown to keep it: to remove an entry (RemoveNode), to use   *)
(* one (Touched) and to add one (AllocateNode).  Then the calls are, one    *)
(* step at a time; then what follows from the structure; that the cache     *)
(* implements CacheContract; and that the simulator agrees with an LRU      *)
(* cache.  For every capacity, byte limit, set of users and lists, and for  *)
(* counters that saturate anywhere.                                         *)
(***************************************************************************)
EXTENDS IdLruSimulator, AdjacencyLruCache, AdjacencyListProofs, FiniteSetTheorems

-----------------------------------------------------------------------------
(* What the entries of a cache weigh together: TotalBytes is a sum over a   *)
(* set in whatever order CHOOSE gives; here it is shown to be the sum in    *)
(* every order, so that an entry can be added or taken out.                 *)

-----------------------------------------------------------------------------
(* The sum *)

\* The sums of the entries of c over all sets of cached users.
Summed(c) ==
    CHOOSE g : g = [s \in SUBSET DOMAIN c |->
                       IF s = {} THEN 0
                       ELSE EntryBytes(c[CHOOSE x \in s : TRUE]) + g[s \ {CHOOSE x \in s : TRUE}]]

LEMMA TotalIsSummed ==
    ASSUME NEW c
    PROVE  TotalBytes(c) = Summed(c)[DOMAIN c]
  BY Zenon DEF TotalBytes, MapThenSumSet, MapThenFoldSet, Summed

\* They exist, each from that of a smaller set.
LEMMA SummedSteps ==
    ASSUME NEW c, IsFiniteSet(DOMAIN c)
    PROVE  Summed(c) = [s \in SUBSET DOMAIN c |->
                           IF s = {} THEN 0
                           ELSE EntryBytes(c[CHOOSE x \in s : TRUE])
                                    + Summed(c)[s \ {CHOOSE x \in s : TRUE}]]
<1> DEFINE D == DOMAIN c
           Pick(s) == CHOOSE x \in s : TRUE
           W(s) == EntryBytes(c[Pick(s)])
           Small(n) == {s \in SUBSET D : Cardinality(s) <= n}
           Upto(g, n) == g = [s \in Small(n) |-> IF s = {} THEN 0 ELSE W(s) + g[s \ {Pick(s)}]]
           T == {n \in Nat : \E g : Upto(g, n)}
<1>1. ASSUME NEW s \in SUBSET D
      PROVE  /\ IsFiniteSet(s) /\ Cardinality(s) \in Nat
             /\ Cardinality(s) = 0 <=> s = {}
             /\ s # {} => Pick(s) \in s /\ Cardinality(s \ {Pick(s)}) = Cardinality(s) - 1
  <2>1. IsFiniteSet(s)
    BY FS_Subset
  <2>2. \A x \in s : Cardinality(s \ {x}) = Cardinality(s) - 1
    BY <2>1, FS_RemoveElement
  <2> QED
    BY <2>1, <2>2, FS_CardinalityType, FS_EmptySet
<1>2. 0 \in T
  <2>1. Small(0) = {{}}
    <3>1. {} \in SUBSET D /\ Cardinality({}) = 0
      BY FS_EmptySet
    <3> QED
      BY <1>1, <3>1
  <2>2. Upto([s \in {{}} |-> 0], 0)
    BY <2>1
  <2> HIDE DEF Upto
  <2> QED
    BY <2>2
<1>3. ASSUME NEW n \in Nat, n \in T PROVE n + 1 \in T
  <2>1. PICK g : Upto(g, n)
    BY <1>3
  <2> DEFINE h == [s \in Small(n + 1) |->
                      IF Cardinality(s) <= n THEN g[s] ELSE W(s) + g[s \ {Pick(s)}]]
  <2> HIDE DEF D, Pick, W
  <2>2. ASSUME NEW s \in Small(n + 1), s # {}
        PROVE  s \ {Pick(s)} \in Small(n) /\ s \ {Pick(s)} \in Small(n + 1)
    BY <1>1, <2>2
  <2>3. ASSUME NEW s \in Small(n + 1)
        PROVE  h[s] = IF s = {} THEN 0 ELSE W(s) + h[s \ {Pick(s)}]
    <3>1. CASE s = {}
      <4>1. s \in Small(n) /\ Cardinality(s) <= n
        BY <3>1, FS_EmptySet
      <4> QED
        BY <2>1, <3>1, <4>1
    <3>2. CASE s # {}
      <4>1. h[s \ {Pick(s)}] = g[s \ {Pick(s)}]
        BY <2>2, <3>2
      <4>2. CASE s \in Small(n)
        BY <2>1, <3>2, <4>1, <4>2
      <4>3. CASE s \notin Small(n)
        BY <3>2, <4>1, <4>3
      <4> QED
        BY <4>2, <4>3
    <3> QED
      BY <3>1, <3>2
  <2>4. Upto(h, n + 1)
    <3>1. h = [s \in Small(n + 1) |-> h[s]]
      OBVIOUS
    <3> HIDE DEF h, Small
    <3> QED
      BY <2>3, <3>1
  <2> HIDE DEF Upto, h
  <2> QED
    BY <2>4
<1>4. Cardinality(D) \in T
  <2> HIDE DEF T
  <2> QED
    BY <1>1, <1>2, <1>3, Induction
<1>5. Small(Cardinality(D)) = SUBSET D
  BY <1>1, FS_Subset
<1>6. \E g : g = [s \in SUBSET D |-> IF s = {} THEN 0 ELSE W(s) + g[s \ {Pick(s)}]]
  BY <1>4, <1>5, ZenonT(60)
<1> QED
  BY <1>6 DEF Summed

\* Which entry is counted first makes no difference.
LEMMA SummedAnyOrder ==
    ASSUME NEW c, IsFiniteSet(DOMAIN c), \A u \in DOMAIN c : EntryBytes(c[u]) \in Nat
    PROVE  /\ Summed(c)[{}] = 0
           /\ \A s \in SUBSET DOMAIN c :
                  /\ Summed(c)[s] \in Nat
                  /\ \A u \in s : Summed(c)[s] = EntryBytes(c[u]) + Summed(c)[s \ {u}]
<1> DEFINE D == DOMAIN c
           Pick(s) == CHOOSE x \in s : TRUE
           W(u) == EntryBytes(c[u])
           G == Summed(c)
           Good(s) == G[s] \in Nat /\ \A u \in s : G[s] = W(u) + G[s \ {u}]
           T == {n \in Nat : \A s \in SUBSET D : Cardinality(s) <= n => Good(s)}
<1>1. ASSUME NEW s \in SUBSET D
      PROVE  /\ IsFiniteSet(s) /\ Cardinality(s) \in Nat
             /\ Cardinality(s) = 0 <=> s = {}
             /\ s # {} => Pick(s) \in s
             /\ \A u \in s : Cardinality(s \ {u}) = Cardinality(s) - 1
  <2>1. IsFiniteSet(s)
    BY FS_Subset
  <2>2. \A x \in s : Cardinality(s \ {x}) = Cardinality(s) - 1
    BY <2>1, FS_RemoveElement
  <2> QED
    BY <2>1, <2>2, FS_CardinalityType, FS_EmptySet
<1>2. G[{}] = 0 /\ \A s \in SUBSET D : s # {} => G[s] = W(Pick(s)) + G[s \ {Pick(s)}]
  <2>1. G = [s \in SUBSET D |-> IF s = {} THEN 0 ELSE W(Pick(s)) + G[s \ {Pick(s)}]]
    BY SummedSteps
  <2> HIDE DEF G, W, Pick
  <2> QED
    BY <2>1
<1>3. \A u \in D : W(u) \in Nat
  OBVIOUS
<1> HIDE DEF G, W, D, Pick
<1>4. 0 \in T
  <2>1. \A s \in SUBSET D : Cardinality(s) <= 0 => s = {}
    BY <1>1
  <2>2. Good({})
    BY <1>2
  <2> HIDE DEF Good
  <2> QED
    BY <2>1, <2>2
<1>5. ASSUME NEW n \in Nat, n \in T PROVE n + 1 \in T
  <2> SUFFICES ASSUME NEW s \in SUBSET D, Cardinality(s) = n + 1 PROVE Good(s)
    <3> HIDE DEF Good
    <3>1. \A t \in SUBSET D : Cardinality(t) <= n + 1 => Cardinality(t) <= n \/ Cardinality(t) = n + 1
      BY <1>1
    <3>2. \A t \in SUBSET D : Cardinality(t) <= n + 1 => Good(t)
      BY <1>5, <3>1
    <3> QED
      BY <3>2
  <2> DEFINE y == Pick(s)
  <2>1. y \in s /\ W(y) \in Nat
    BY <1>1, <1>3
  <2>2. ASSUME NEW u \in s PROVE s \ {u} \in SUBSET D /\ Good(s \ {u})
    BY <1>1, <1>5, <2>2
  <2>3. G[s] = W(y) + G[s \ {y}]
    BY <1>2, <2>1
  <2>4. ASSUME NEW u \in s PROVE G[s] = W(u) + G[s \ {u}]
    <3>1. CASE u = y
      BY <2>3, <3>1
    <3>2. CASE u # y
      <4>1. u \in s \ {y} /\ y \in s \ {u} /\ W(u) \in Nat
        BY <1>3, <2>1, <3>2
      <4>2. G[s \ {y}] = W(u) + G[(s \ {u}) \ {y}]
        <5>1. G[s \ {y}] = W(u) + G[(s \ {y}) \ {u}]
          BY <2>1, <2>2, <4>1
        <5>2. (s \ {y}) \ {u} = (s \ {u}) \ {y}
          OBVIOUS
        <5> HIDE DEF y
        <5> QED
          BY <5>1, <5>2
      <4>3. G[s \ {u}] = W(y) + G[(s \ {u}) \ {y}]
        BY <2>2, <4>1
      <4>4. G[(s \ {u}) \ {y}] \in Nat
        <5> DEFINE r == (s \ {u}) \ {y}
        <5>1. s \ {u} \in SUBSET D /\ r \in SUBSET D
          OBVIOUS
        <5>2. Cardinality(s \ {u}) = n
          BY <1>1
        <5>3. Cardinality(r) = n - 1
          BY <1>1, <4>1, <5>1, <5>2
        <5> HIDE DEF r
        <5>4. Good(r)
          <6> HIDE DEF Good
          <6> QED
            BY <1>5, <5>1, <5>3
        <5> QED
          BY <5>4 DEF r
      <4> HIDE DEF y
      <4> QED
        BY <2>1, <2>3, <4>1, <4>2, <4>3, <4>4
    <3> QED
      BY <3>1, <3>2
  <2>5. G[s] \in Nat
    BY <2>1, <2>2, <2>3
  <2> QED
    BY <2>4, <2>5
<1>6. ASSUME NEW s \in SUBSET D PROVE Good(s)
  <2>1. \A n \in Nat : n \in T
    <3> HIDE DEF T
    <3> QED
      BY <1>4, <1>5, Induction
  <2> QED
    BY <1>1, <2>1
<1> QED
  BY <1>2, <1>6 DEF G, W, D

-----------------------------------------------------------------------------
(* The weight of a cache *)

LEMMA EntryBytesNat == \A list : Len(list) \in Nat => EntryBytes(list) \in Nat
  BY CacheAssumption DEF EntryBytes

\* Sums over the same entries are the same, whatever else the caches hold.
LEMMA SummedAlike ==
    ASSUME NEW c, IsFiniteSet(DOMAIN c), \A u \in DOMAIN c : Len(c[u]) \in Nat,
           NEW d, DOMAIN d \subseteq DOMAIN c, \A u \in DOMAIN d : d[u] = c[u]
    PROVE  TotalBytes(d) = Summed(c)[DOMAIN d]
<1> DEFINE D == DOMAIN d
           W(u) == EntryBytes(c[u])
           G == Summed(c)
           H == Summed(d)
           T == {n \in Nat : \A s \in SUBSET D : Cardinality(s) <= n => G[s] = H[s]}
<1>1. IsFiniteSet(D)
  BY FS_Subset
<1>2. /\ G[{}] = 0
      /\ \A s \in SUBSET D : \A u \in s : G[s] = W(u) + G[s \ {u}]
  <2>1. \A u \in DOMAIN c : EntryBytes(c[u]) \in Nat
    BY EntryBytesNat
  <2>2. /\ G[{}] = 0
        /\ \A s \in SUBSET DOMAIN c : \A u \in s : G[s] = EntryBytes(c[u]) + G[s \ {u}]
    BY <2>1, SummedAnyOrder
  <2> HIDE DEF G
  <2> QED
    BY <2>2
<1>3. /\ H[{}] = 0
      /\ \A s \in SUBSET D : \A u \in s : H[s] = W(u) + H[s \ {u}]
  <2>1. \A u \in DOMAIN d : EntryBytes(d[u]) \in Nat
    BY EntryBytesNat
  <2>2. /\ H[{}] = 0
        /\ \A s \in SUBSET D : \A u \in s : H[s] = EntryBytes(d[u]) + H[s \ {u}]
    BY <1>1, <2>1, SummedAnyOrder
  <2> HIDE DEF H
  <2> QED
    BY <2>2
<1> HIDE DEF D, W, G, H
<1>4. ASSUME NEW s \in SUBSET D
      PROVE  /\ IsFiniteSet(s) /\ Cardinality(s) \in Nat
             /\ Cardinality(s) = 0 <=> s = {}
             /\ \A u \in s : Cardinality(s \ {u}) = Cardinality(s) - 1
  <2>1. IsFiniteSet(s)
    BY <1>1, FS_Subset
  <2>2. \A x \in s : Cardinality(s \ {x}) = Cardinality(s) - 1
    BY <2>1, FS_RemoveElement
  <2> QED
    BY <2>1, <2>2, FS_CardinalityType, FS_EmptySet
<1>5. 0 \in T
  <2>1. \A s \in SUBSET D : Cardinality(s) <= 0 => s = {}
    BY <1>4
  <2> QED
    BY <1>2, <1>3, <2>1
<1>6. ASSUME NEW n \in Nat, n \in T PROVE n + 1 \in T
  <2> SUFFICES ASSUME NEW s \in SUBSET D, Cardinality(s) <= n + 1 PROVE G[s] = H[s]
    OBVIOUS
  <2> SUFFICES ASSUME s # {} PROVE G[s] = H[s]
    BY <1>2, <1>3
  <2>1. PICK u \in s : TRUE
    OBVIOUS
  <2>2. s \ {u} \in SUBSET D /\ Cardinality(s \ {u}) <= n
    BY <1>4, <2>1
  <2>3. G[s \ {u}] = H[s \ {u}]
    BY <1>6, <2>2
  <2> QED
    BY <1>2, <1>3, <2>1, <2>3
<1>7. G[D] = H[D]
  <2>1. Cardinality(D) \in T
    <3> HIDE DEF T
    <3> QED
      BY <1>4, <1>5, <1>6, Induction
  <2>2. D \in SUBSET D /\ Cardinality(D) <= Cardinality(D)
    BY <1>4
  <2> QED
    BY <2>1, <2>2
<1> QED
  BY <1>7, TotalIsSummed DEF D, G, H

\* Nothing weighs nothing.
LEMMA EmptyBytes == TotalBytes(<<>>) = 0
<1>1. DOMAIN <<>> = {} /\ IsFiniteSet({})
  BY FS_EmptySet
<1> QED
  BY <1>1, SummedAnyOrder, TotalIsSummed

LEMMA BytesNat ==
    ASSUME NEW c, IsFiniteSet(DOMAIN c), \A u \in DOMAIN c : Len(c[u]) \in Nat
    PROVE  TotalBytes(c) \in Nat
  BY EntryBytesNat, SummedAnyOrder, TotalIsSummed

\* A cache with the entries of another but one weighs that entry less.
LEMMA BytesWithout ==
    ASSUME NEW c, IsFiniteSet(DOMAIN c), \A u \in DOMAIN c : Len(c[u]) \in Nat,
           NEW u \in DOMAIN c,
           NEW d, DOMAIN d = DOMAIN c \ {u}, \A v \in DOMAIN d : d[v] = c[v]
    PROVE  /\ TotalBytes(c) = EntryBytes(c[u]) + TotalBytes(d)
           /\ TotalBytes(c) \in Nat /\ TotalBytes(d) \in Nat /\ EntryBytes(c[u]) \in Nat
<1>1. \A v \in DOMAIN c : EntryBytes(c[v]) \in Nat
  BY EntryBytesNat
<1>2. TotalBytes(d) = Summed(c)[DOMAIN c \ {u}]
  BY SummedAlike
<1>3. TotalBytes(c) = Summed(c)[DOMAIN c]
  BY TotalIsSummed
<1>4. /\ Summed(c)[DOMAIN c] = EntryBytes(c[u]) + Summed(c)[DOMAIN c \ {u}]
      /\ Summed(c)[DOMAIN c] \in Nat /\ Summed(c)[DOMAIN c \ {u}] \in Nat
  <2>1. \A s \in SUBSET DOMAIN c :
            /\ Summed(c)[s] \in Nat
            /\ \A v \in s : Summed(c)[s] = EntryBytes(c[v]) + Summed(c)[s \ {v}]
    BY <1>1, SummedAnyOrder
  <2>2. DOMAIN c \in SUBSET DOMAIN c /\ DOMAIN c \ {u} \in SUBSET DOMAIN c
    OBVIOUS
  <2> QED
    BY <2>1, <2>2
<1> QED
  BY <1>1, <1>2, <1>3, <1>4


-----------------------------------------------------------------------------
(* The inductive invariant: what holds of a cache c after calls that left  *)
(* the history h.                                                          *)

Occ(c) == {i \in DOMAIN c.nodes : c.nodes[i] # NoNode}

SlotLists(c) == [i \in Occ(c) |-> c.nodes[i].adjacency_list]

Fields(c) ==
    c = [policy |-> c.policy, current_bytes |-> c.current_bytes, sequence |-> c.sequence,
         lfu_index |-> c.lfu_index, locations |-> c.locations, nodes |-> c.nodes,
         free_indices |-> c.free_indices, head |-> c.head, tail |-> c.tail]

Slab == Seq(Node \cup {NoNode})

\* Users and occupied slots belong together in pairs.
Paired(c) ==
    /\ DOMAIN c.locations \subseteq CacheUsers
    /\ \A i \in Occ(c) :
          /\ c.nodes[i].user_id \in DOMAIN c.locations
          /\ c.locations[c.nodes[i].user_id] = i
          /\ c.nodes[i].bytes = EntryBytes(c.nodes[i].adjacency_list)
    /\ \A u \in DOMAIN c.locations :
          c.locations[u] \in Occ(c) /\ c.nodes[c.locations[u]].user_id = u

Typed(c) ==
    /\ Fields(c)
    /\ c.policy \in Policies
    /\ c.sequence \in 0 .. MaxCounter
    /\ c.nodes \in Slab

\* The other slots are listed once each.
Freed(c) ==
    /\ Len(c.nodes) <= Capacity
    /\ c.free_indices \in Seq(Nat)
    /\ IsInjective(c.free_indices)
    /\ ToSet(c.free_indices) = DOMAIN c.nodes \ Occ(c)

Weighed(c) ==
    /\ c.current_bytes = TotalBytes(Contents(c))
    /\ c.current_bytes = TotalBytes(SlotLists(c))
    /\ ByteCapacity = 0 \/ c.current_bytes <= ByteCapacity
    /\ Cardinality(DOMAIN c.locations) <= Capacity

Keyed(c) == c.lfu_index = IF c.policy = "Lfu" THEN {LfuKey(c, i) : i \in Occ(c)} ELSE {}

\* The linked list runs through the slots of I, in that order.
Linked(c, I) ==
    /\ I \in Seq(DOMAIN c.nodes)
    /\ IsInjective(I)
    /\ c.head = IF I = <<>> THEN None ELSE I[1]
    /\ c.tail = IF I = <<>> THEN None ELSE I[Len(I)]
    /\ \A k \in DOMAIN I :
          /\ c.nodes[I[k]].previous = IF k = 1 THEN None ELSE I[k - 1]
          /\ c.nodes[I[k]].next = IF k = Len(I) THEN None ELSE I[k + 1]

Listing(list, S) == list \in Seq(CacheUsers) /\ IsInjective(list) /\ ToSet(list) = S

\* The order in which the policy keeps the entries.
Order(c, h) == IF c.policy = "Lru" THEN h.byUse ELSE h.byInsertion

Positions(c, list) == [k \in DOMAIN list |-> c.locations[list[k]]]

Recorded(c, h) ==
    /\ h = [byUse |-> h.byUse, byInsertion |-> h.byInsertion, uses |-> h.uses]
    /\ Listing(h.byUse, DOMAIN c.locations)
    /\ Listing(h.byInsertion, DOMAIN c.locations)
    /\ h.uses = [u \in DOMAIN c.locations |-> c.nodes[c.locations[u]].frequency]

Stamp(c, u) == c.nodes[c.locations[u]].last_accessed_at

\* Later uses have later stamps, or the same when numbers saturate.
Stamped(c, h) ==
    /\ \A u \in DOMAIN c.locations : Stamp(c, u) <= c.sequence
    /\ \A j \in DOMAIN h.byUse, k \in DOMAIN h.byUse :
          j < k => Stamp(c, h.byUse[j]) <= Stamp(c, h.byUse[k])

Sound(c, h) ==
    /\ Typed(c) /\ Paired(c) /\ Freed(c) /\ Weighed(c) /\ Keyed(c)
    /\ Recorded(c, h) /\ Stamped(c, h)
    /\ Linked(c, Positions(c, Order(c, h)))

-----------------------------------------------------------------------------
(* Relinking *)

\* Two nodes differ in their links at most.
SameEntry(x, y) ==
    /\ y.user_id = x.user_id /\ y.adjacency_list = x.adjacency_list /\ y.bytes = x.bytes
    /\ y.frequency = x.frequency /\ y.inserted_at = x.inserted_at
    /\ y.last_accessed_at = x.last_accessed_at

\* d is c with other links.
Relinked(c, d) ==
    /\ Fields(d)
    /\ d.policy = c.policy /\ d.current_bytes = c.current_bytes /\ d.sequence = c.sequence
    /\ d.lfu_index = c.lfu_index /\ d.locations = c.locations /\ d.free_indices = c.free_indices
    /\ d.nodes \in Slab /\ Len(d.nodes) = Len(c.nodes) /\ DOMAIN d.nodes = DOMAIN c.nodes
    /\ Occ(d) = Occ(c)
    /\ \A i \in Occ(c) : SameEntry(c.nodes[i], d.nodes[i])

LEMMA OccupiedNode ==
    ASSUME NEW c, c.nodes \in Slab, NEW i \in Occ(c)
    PROVE  c.nodes[i] \in Node
  BY DEF Slab, Occ

LEMMA NodesOK == NoNode \notin Node
  BY SlabAssumption

WithPrevious(x, p) == [x EXCEPT !.previous = p]

WithNext(x, n) == [x EXCEPT !.next = n]

WithLinks(x, p, n) == [x EXCEPT !.previous = p, !.next = n]

\* What changes in the links of a node leaves it a node.
LEMMA PreviousLink ==
    ASSUME NEW x \in Node, NEW p \in Nat
    PROVE  /\ WithPrevious(x, p) \in Node /\ SameEntry(x, WithPrevious(x, p))
           /\ WithPrevious(x, p).previous = p /\ WithPrevious(x, p).next = x.next
  BY DEF Node, SameEntry, WithPrevious

LEMMA NextLink ==
    ASSUME NEW x \in Node, NEW n \in Nat
    PROVE  /\ WithNext(x, n) \in Node /\ SameEntry(x, WithNext(x, n))
           /\ WithNext(x, n).previous = x.previous /\ WithNext(x, n).next = n
  BY DEF Node, SameEntry, WithNext

LEMMA BothLinks ==
    ASSUME NEW x \in Node, NEW p \in Nat, NEW n \in Nat
    PROVE  /\ WithLinks(x, p, n) \in Node /\ SameEntry(x, WithLinks(x, p, n))
           /\ WithLinks(x, p, n).previous = p /\ WithLinks(x, p, n).next = n
  BY DEF Node, SameEntry, WithLinks

LEMMA RelinkedNodes ==
    ASSUME NEW c, c.nodes \in Slab, NEW d, Fields(d),
           d.nodes = [j \in DOMAIN c.nodes |-> d.nodes[j]],
           \A j \in DOMAIN c.nodes :
               IF c.nodes[j] = NoNode THEN d.nodes[j] = NoNode
               ELSE d.nodes[j] \in Node /\ SameEntry(c.nodes[j], d.nodes[j])
    PROVE  /\ d.nodes \in Slab /\ Len(d.nodes) = Len(c.nodes) /\ DOMAIN d.nodes = DOMAIN c.nodes
           /\ Occ(d) = Occ(c)
           /\ \A i \in Occ(c) : SameEntry(c.nodes[i], d.nodes[i])
<1>1. DOMAIN c.nodes = 1 .. Len(c.nodes) /\ Len(c.nodes) \in Nat
  BY DEF Slab
<1>2. DOMAIN d.nodes = DOMAIN c.nodes
  OBVIOUS
<1>3. d.nodes \in Slab
  <2>1. \A j \in 1 .. Len(c.nodes) : d.nodes[j] \in Node \cup {NoNode}
    BY <1>1
  <2>2. [j \in 1 .. Len(c.nodes) |-> d.nodes[j]] \in Seq(Node \cup {NoNode})
    BY <1>1, <2>1
  <2> QED
    BY <1>1, <2>2 DEF Slab
<1>4. Len(d.nodes) = Len(c.nodes)
  <2>1. Len([j \in 1 .. Len(c.nodes) |-> d.nodes[j]]) = Len(c.nodes)
    BY <1>1
  <2> QED
    BY <1>1, <2>1
<1>5. Occ(d) = Occ(c)
  BY <1>2, NodesOK DEF Occ
<1> QED
  BY <1>2, <1>3, <1>4, <1>5 DEF Occ

LEMMA DetachFields ==
    ASSUME NEW c, Fields(c), NEW i,
           c.nodes[i].previous = c.nodes[i].next => c.nodes[i].previous \notin DOMAIN c.nodes
    PROVE  /\ Fields(Detach(c, i))
           /\ Detach(c, i).policy = c.policy
           /\ Detach(c, i).current_bytes = c.current_bytes
           /\ Detach(c, i).sequence = c.sequence
           /\ Detach(c, i).lfu_index = c.lfu_index
           /\ Detach(c, i).locations = c.locations
           /\ Detach(c, i).free_indices = c.free_indices
           /\ Detach(c, i).nodes = [j \in DOMAIN c.nodes |-> Detach(c, i).nodes[j]]
           /\ \A j \in DOMAIN c.nodes :
                  Detach(c, i).nodes[j] =
                      IF j = i THEN WithLinks(c.nodes[j], None, None)
                      ELSE IF j = c.nodes[i].previous THEN WithNext(c.nodes[j], c.nodes[i].next)
                      ELSE IF j = c.nodes[i].next THEN WithPrevious(c.nodes[j], c.nodes[i].previous)
                      ELSE c.nodes[j]
           /\ Detach(c, i).head = IF c.nodes[i].previous = None THEN c.nodes[i].next ELSE c.head
           /\ Detach(c, i).tail = IF c.nodes[i].next = None THEN c.nodes[i].previous ELSE c.tail
<1> DEFINE d == Detach(c, i)
           p == c.nodes[i].previous
           n == c.nodes[i].next
           Alone(j) == [c.nodes[j] EXCEPT !.previous = None, !.next = None]
           Before(j) == [c.nodes[j] EXCEPT !.next = n]
           After(j) == [c.nodes[j] EXCEPT !.previous = p]
           At(j) == CASE j = i -> Alone(j)
                      [] j = p /\ j # i -> Before(j)
                      [] j = n /\ j # i -> After(j)
                      [] OTHER -> c.nodes[j]
           nodes == [j \in DOMAIN c.nodes |-> At(j)]
           head == IF p = None THEN n ELSE c.head
           tail == IF n = None THEN p ELSE c.tail
<1>0. p = n => p \notin DOMAIN c.nodes
  OBVIOUS
<1>1. d = [c EXCEPT !.nodes = nodes, !.head = head, !.tail = tail]
  BY DEF Detach
<1> HIDE DEF nodes, head, tail, d, At
<1>2. d = [policy |-> c.policy, current_bytes |-> c.current_bytes, sequence |-> c.sequence,
           lfu_index |-> c.lfu_index, locations |-> c.locations, nodes |-> nodes,
           free_indices |-> c.free_indices, head |-> head, tail |-> tail]
  BY <1>1 DEF Fields
<1>3. /\ d.policy = c.policy /\ d.current_bytes = c.current_bytes /\ d.sequence = c.sequence
      /\ d.lfu_index = c.lfu_index /\ d.locations = c.locations /\ d.nodes = nodes
      /\ d.free_indices = c.free_indices /\ d.head = head /\ d.tail = tail
  BY <1>2
<1>4. Fields(d)
  BY <1>2, <1>3 DEF Fields
<1>5. nodes = [j \in DOMAIN c.nodes |-> nodes[j]]
  BY DEF nodes
<1>6. \A j \in DOMAIN c.nodes : nodes[j] = At(j)
  BY DEF nodes
<1>7. ASSUME NEW j
      PROVE  /\ Alone(j) = WithLinks(c.nodes[j], None, None)
             /\ Before(j) = WithNext(c.nodes[j], n)
             /\ After(j) = WithPrevious(c.nodes[j], p)
  BY Zenon DEF Alone, Before, After, WithLinks, WithNext, WithPrevious
<1> HIDE DEF Alone, Before, After, p, n
<1>8. ASSUME NEW j \in DOMAIN c.nodes
      PROVE  At(j) = IF j = i THEN Alone(j)
                     ELSE IF j = p THEN Before(j)
                     ELSE IF j = n THEN After(j)
                     ELSE c.nodes[j]
  <2>1. CASE j = i
    BY <2>1, Zenon DEF At
  <2>2. CASE j # i /\ j = p
    <3>1. j # n
      BY <2>2, <1>0
    <3> QED
      BY <2>2, <3>1, Zenon DEF At
  <2>3. CASE j # i /\ j # p /\ j = n
    BY <2>3, Zenon DEF At
  <2>4. CASE j # i /\ j # p /\ j # n
    BY <2>4, Zenon DEF At
  <2> QED
    BY <2>1, <2>2, <2>3, <2>4
<1>9. ASSUME NEW j \in DOMAIN c.nodes
      PROVE  At(j) = IF j = i THEN WithLinks(c.nodes[j], None, None)
                     ELSE IF j = p THEN WithNext(c.nodes[j], n)
                     ELSE IF j = n THEN WithPrevious(c.nodes[j], p)
                     ELSE c.nodes[j]
  BY <1>7, <1>8
<1> QED
  BY <1>3, <1>4, <1>5, <1>6, <1>9 DEF head, tail, d, p, n

LEMMA AttachFields ==
    ASSUME NEW c, Fields(c), NEW i
    PROVE  /\ Fields(AttachAsMostRecent(c, i))
           /\ AttachAsMostRecent(c, i).policy = c.policy
           /\ AttachAsMostRecent(c, i).current_bytes = c.current_bytes
           /\ AttachAsMostRecent(c, i).sequence = c.sequence
           /\ AttachAsMostRecent(c, i).lfu_index = c.lfu_index
           /\ AttachAsMostRecent(c, i).locations = c.locations
           /\ AttachAsMostRecent(c, i).free_indices = c.free_indices
           /\ AttachAsMostRecent(c, i).nodes =
                  [j \in DOMAIN c.nodes |-> AttachAsMostRecent(c, i).nodes[j]]
           /\ \A j \in DOMAIN c.nodes :
                  AttachAsMostRecent(c, i).nodes[j] =
                      IF j = i THEN WithLinks(c.nodes[j], c.tail, None)
                      ELSE IF j = c.tail THEN WithNext(c.nodes[j], i)
                      ELSE c.nodes[j]
           /\ AttachAsMostRecent(c, i).head = IF c.tail = None THEN i ELSE c.head
           /\ AttachAsMostRecent(c, i).tail = i
<1> DEFINE d == AttachAsMostRecent(c, i)
           At(j) == CASE j = i -> [c.nodes[j] EXCEPT !.previous = c.tail, !.next = None]
                      [] j = c.tail /\ j # i -> [c.nodes[j] EXCEPT !.next = i]
                      [] OTHER -> c.nodes[j]
           nodes == [j \in DOMAIN c.nodes |-> At(j)]
           head == IF c.tail = None THEN i ELSE c.head
<1>1. d = [c EXCEPT !.nodes = nodes, !.head = head, !.tail = i]
  BY DEF AttachAsMostRecent
<1> HIDE DEF nodes, head, d, At
<1>2. d = [policy |-> c.policy, current_bytes |-> c.current_bytes, sequence |-> c.sequence,
           lfu_index |-> c.lfu_index, locations |-> c.locations, nodes |-> nodes,
           free_indices |-> c.free_indices, head |-> head, tail |-> i]
  BY <1>1 DEF Fields
<1>3. /\ d.policy = c.policy /\ d.current_bytes = c.current_bytes /\ d.sequence = c.sequence
      /\ d.lfu_index = c.lfu_index /\ d.locations = c.locations /\ d.nodes = nodes
      /\ d.free_indices = c.free_indices /\ d.head = head /\ d.tail = i
  BY <1>2
<1>4. Fields(d)
  BY <1>2, <1>3 DEF Fields
<1>5. nodes = [j \in DOMAIN c.nodes |-> nodes[j]]
  BY DEF nodes
<1>6. \A j \in DOMAIN c.nodes : nodes[j] = At(j)
  BY DEF nodes
<1>7. ASSUME NEW j
      PROVE  At(j) = IF j = i THEN WithLinks(c.nodes[j], c.tail, None)
                        ELSE IF j = c.tail THEN WithNext(c.nodes[j], i)
                        ELSE c.nodes[j]
  BY ZenonT(60) DEF At, WithLinks, WithNext, WithPrevious
<1> QED
  BY <1>3, <1>4, <1>5, <1>6, <1>7 DEF head, d

\* The links of the listed slots are slots or None.
LEMMA LinkTypes ==
    ASSUME NEW c, c.nodes \in Slab, NEW I, Linked(c, I)
    PROVE  /\ DOMAIN c.nodes = 1 .. Len(c.nodes) /\ Len(c.nodes) \in Nat
           /\ DOMAIN I = 1 .. Len(I) /\ Len(I) \in Nat /\ None \notin DOMAIN c.nodes
           /\ \A k \in DOMAIN I : I[k] \in DOMAIN c.nodes /\ I[k] \in Nat \ {None}
           /\ \A j \in DOMAIN I, k \in DOMAIN I : I[j] = I[k] => j = k
           /\ ToSet(I) \subseteq DOMAIN c.nodes
           /\ I = <<>> <=> Len(I) = 0
<1>1. DOMAIN c.nodes = 1 .. Len(c.nodes) /\ Len(c.nodes) \in Nat
  BY DEF Slab
<1>2. I \in Seq(DOMAIN c.nodes)
  BY DEF Linked
<1>3. DOMAIN I = 1 .. Len(I) /\ Len(I) \in Nat /\ \A k \in DOMAIN I : I[k] \in DOMAIN c.nodes
  BY <1>2
<1>4. I = <<>> <=> Len(I) = 0
  BY <1>2, EmptySeq
<1> QED
  BY <1>1, <1>3, <1>4 DEF Linked, None, IsInjective, ToSet

\* What else the nodes hold does not matter to the list.
LEMMA LinkedAlike ==
    ASSUME NEW c, NEW I, Linked(c, I),
           NEW d, DOMAIN c.nodes \subseteq DOMAIN d.nodes, d.head = c.head, d.tail = c.tail,
           \A k \in DOMAIN I : /\ d.nodes[I[k]].previous = c.nodes[I[k]].previous
                               /\ d.nodes[I[k]].next = c.nodes[I[k]].next
    PROVE  Linked(d, I)
<1>1. I \in Seq(DOMAIN d.nodes) /\ IsInjective(I)
  BY SeqMonotonic DEF Linked
<1>2. /\ d.head = IF I = <<>> THEN None ELSE I[1]
      /\ d.tail = IF I = <<>> THEN None ELSE I[Len(I)]
  BY DEF Linked
<1>3. \A k \in DOMAIN I :
          /\ d.nodes[I[k]].previous = IF k = 1 THEN None ELSE I[k - 1]
          /\ d.nodes[I[k]].next = IF k = Len(I) THEN None ELSE I[k + 1]
  BY DEF Linked
<1> QED
  BY <1>1, <1>2, <1>3 DEF Linked

\* Taken out of the list, a slot is skipped in both directions.
LEMMA DetachLinked ==
    ASSUME NEW c, Fields(c), c.nodes \in Slab, NEW I, Linked(c, I), ToSet(I) \subseteq Occ(c),
           NEW i \in ToSet(I)
    PROVE  Relinked(c, Detach(c, i)) /\ Linked(Detach(c, i), Without(I, i))
<1> DEFINE d == Detach(c, i)
           J == Without(I, i)
           n == Len(I)
<1>1. PICK p \in 1 .. n : I[p] = i
  BY DEF ToSet, Linked
<1>2. /\ DOMAIN I = 1 .. n /\ n \in Nat /\ p \in Nat /\ 1 <= p /\ p <= n
      /\ \A k \in 1 .. n : I[k] \in DOMAIN c.nodes /\ I[k] \in Nat /\ I[k] # None /\ I[k] \in Occ(c)
      /\ \A j \in 1 .. n, k \in 1 .. n : I[j] = I[k] => j = k
      /\ None \notin Occ(c) /\ None \in Nat
  <2>1. \A k \in DOMAIN I : I[k] \in ToSet(I)
    BY DEF ToSet
  <2>2. None \notin Occ(c) /\ None \in Nat
    BY LinkTypes DEF Occ, None
  <2> QED
    BY <1>1, <2>1, <2>2, LinkTypes
<1>3. /\ J \in Seq(DOMAIN c.nodes) /\ IsInjective(J) /\ Len(J) = n - 1
      /\ \A k \in 1 .. n - 1 : J[k] = I[IF k < p THEN k ELSE k + 1]
  BY <1>1, WithoutMember, ZenonT(60) DEF Linked
<1>4. \A k \in 1 .. n : /\ c.nodes[I[k]].previous = IF k = 1 THEN None ELSE I[k - 1]
                        /\ c.nodes[I[k]].next = IF k = n THEN None ELSE I[k + 1]
  BY <1>2 DEF Linked
<1>5. c.head = I[1] /\ c.tail = I[n]
  BY <1>2 DEF Linked
<1> HIDE DEF d, J, n
<1> DEFINE P == IF p = 1 THEN None ELSE I[p - 1]
           N == IF p = n THEN None ELSE I[p + 1]
<1>6. c.nodes[i].previous = P /\ c.nodes[i].next = N
  BY <1>1, <1>2, <1>4
<1>7. /\ P \in Nat /\ P # i /\ (P # None => P \in Occ(c)) /\ (P = None <=> p = 1)
      /\ N \in Nat /\ N # i /\ (N # None => N \in Occ(c)) /\ (N = None <=> p = n)
      /\ P = N => P = None
  <2>1. CASE p = 1
    <3>1. P = None
      BY <2>1
    <3>2. p # n => p + 1 \in 1 .. n
      BY <1>2, <2>1
    <3> QED
      BY <1>1, <1>2, <2>1, <3>1, <3>2
  <2>2. CASE p # 1
    <3>1. p - 1 \in 1 .. n /\ P = I[p - 1]
      BY <1>2, <2>2
    <3>2. p # n => p + 1 \in 1 .. n
      BY <1>2
    <3> QED
      BY <1>1, <1>2, <2>2, <3>1, <3>2
  <2> QED
    BY <2>1, <2>2
<1>8. /\ Fields(d)
      /\ d.policy = c.policy /\ d.current_bytes = c.current_bytes /\ d.sequence = c.sequence
      /\ d.lfu_index = c.lfu_index /\ d.locations = c.locations /\ d.free_indices = c.free_indices
      /\ d.nodes = [j \in DOMAIN c.nodes |-> d.nodes[j]]
      /\ \A j \in DOMAIN c.nodes :
             d.nodes[j] = IF j = i THEN WithLinks(c.nodes[j], None, None)
                          ELSE IF j = P THEN WithNext(c.nodes[j], N)
                          ELSE IF j = N THEN WithPrevious(c.nodes[j], P)
                          ELSE c.nodes[j]
      /\ d.head = IF P = None THEN N ELSE c.head
      /\ d.tail = IF N = None THEN P ELSE c.tail
  <2>1. P = N => P \notin DOMAIN c.nodes
    BY <1>7, LinkTypes
  <2> QED
    BY <1>6, <2>1, DetachFields DEF d
<1>9. DOMAIN d.nodes = DOMAIN c.nodes
  BY <1>8
<1> HIDE DEF P, N
<1>10. ASSUME NEW j \in Occ(c)
       PROVE  /\ d.nodes[j] \in Node /\ SameEntry(c.nodes[j], d.nodes[j])
              /\ d.nodes[j].previous = IF j = i THEN None ELSE IF j = N THEN P ELSE c.nodes[j].previous
              /\ d.nodes[j].next = IF j = i THEN None ELSE IF j = P THEN N ELSE c.nodes[j].next
  <2>1. c.nodes[j] \in Node /\ j \in DOMAIN c.nodes /\ j # None
    BY <1>2, OccupiedNode DEF Occ
  <2> DEFINE x == c.nodes[j]
  <2> HIDE DEF x
  <2>2. CASE j = i
    <3>1. d.nodes[j] = WithLinks(x, None, None)
      BY <1>8, <2>1, <2>2 DEF x
    <3>2. /\ WithLinks(x, None, None) \in Node /\ SameEntry(x, WithLinks(x, None, None))
          /\ WithLinks(x, None, None).previous = None /\ WithLinks(x, None, None).next = None
      <4>1. x \in Node /\ None \in Nat
        BY <1>2, <2>1 DEF x
      <4> QED
        BY <4>1, BothLinks
    <3> QED
      BY <2>2, <3>1, <3>2 DEF x
  <2>3. CASE j # i /\ j = P
    <3>1. d.nodes[j] = WithNext(x, N)
      BY <1>8, <2>1, <2>3 DEF x
    <3>2. /\ WithNext(x, N) \in Node /\ SameEntry(x, WithNext(x, N))
          /\ WithNext(x, N).previous = x.previous /\ WithNext(x, N).next = N
      BY <1>7, <2>1, NextLink DEF x
    <3>3. j # N
      BY <1>7, <2>1, <2>3
    <3> QED
      BY <2>3, <3>1, <3>2, <3>3 DEF x
  <2>4. CASE j # i /\ j # P /\ j = N
    <3>1. d.nodes[j] = WithPrevious(x, P)
      BY <1>8, <2>1, <2>4 DEF x
    <3>2. /\ WithPrevious(x, P) \in Node /\ SameEntry(x, WithPrevious(x, P))
          /\ WithPrevious(x, P).previous = P /\ WithPrevious(x, P).next = x.next
      BY <1>7, <2>1, PreviousLink DEF x
    <3> QED
      BY <2>4, <3>1, <3>2 DEF x
  <2>5. CASE j # i /\ j # P /\ j # N
    <3>1. d.nodes[j] = c.nodes[j]
      BY <1>8, <2>1, <2>5
    <3> QED
      BY <2>1, <2>5, <3>1 DEF SameEntry
  <2> QED
    BY <2>2, <2>3, <2>4, <2>5
<1>11. Relinked(c, d)
  <2>1. ASSUME NEW j \in DOMAIN c.nodes, c.nodes[j] = NoNode PROVE d.nodes[j] = NoNode
    <3>1. j \notin Occ(c) /\ j # None
      BY <2>1, LinkTypes DEF Occ
    <3>2. j # i /\ j # P /\ j # N
      BY <1>1, <1>2, <1>7, <3>1
    <3> QED
      BY <1>8, <2>1, <3>2
  <2>2. \A j \in DOMAIN c.nodes :
            IF c.nodes[j] = NoNode THEN d.nodes[j] = NoNode
            ELSE d.nodes[j] \in Node /\ SameEntry(c.nodes[j], d.nodes[j])
    BY <1>10, <2>1 DEF Occ
  <2>3. /\ d.nodes \in Slab /\ Len(d.nodes) = Len(c.nodes) /\ DOMAIN d.nodes = DOMAIN c.nodes
        /\ Occ(d) = Occ(c)
        /\ \A j \in Occ(c) : SameEntry(c.nodes[j], d.nodes[j])
    BY <1>8, <2>2, RelinkedNodes
  <2> QED
    BY <1>8, <2>3 DEF Relinked
<1>12. J = <<>> <=> n = 1
  BY <1>2, <1>3, EmptySeq
<1>13. d.head = IF J = <<>> THEN None ELSE J[1]
  <2>1. CASE p = 1
    <3>1. d.head = IF n = 1 THEN None ELSE I[2]
      BY <1>7, <1>8, <2>1 DEF N
    <3>2. n # 1 => J[1] = I[2]
      BY <1>2, <1>3, <2>1
    <3> QED
      BY <1>12, <3>1, <3>2
  <2>2. CASE p # 1
    <3>1. d.head = I[1] /\ n # 1
      BY <1>2, <1>5, <1>7, <1>8, <2>2
    <3>2. J[1] = I[1]
      BY <1>2, <1>3, <2>2
    <3> QED
      BY <1>12, <3>1, <3>2
  <2> QED
    BY <2>1, <2>2
<1>14. d.tail = IF J = <<>> THEN None ELSE J[n - 1]
  <2>1. CASE p = n
    <3>1. d.tail = IF n = 1 THEN None ELSE I[n - 1]
      BY <1>7, <1>8, <2>1 DEF P
    <3>2. n # 1 => J[n - 1] = I[n - 1]
      BY <1>2, <1>3, <2>1
    <3> QED
      BY <1>12, <3>1, <3>2
  <2>2. CASE p # n
    <3>1. d.tail = I[n] /\ n # 1
      BY <1>2, <1>5, <1>7, <1>8, <2>2
    <3>2. n - 1 \in 1 .. n - 1 /\ ~(n - 1 < p) /\ (n - 1) + 1 = n
      BY <1>2, <2>2
    <3>3. J[n - 1] = I[n]
      BY <1>3, <3>2
    <3> QED
      BY <1>12, <3>1, <3>3
  <2> QED
    BY <2>1, <2>2
<1>15. ASSUME NEW k \in 1 .. n - 1
       PROVE  /\ d.nodes[J[k]].previous = IF k = 1 THEN None ELSE J[k - 1]
              /\ d.nodes[J[k]].next = IF k = n - 1 THEN None ELSE J[k + 1]
  <2>1. k \in Nat /\ 1 <= k /\ k <= n - 1
    BY <1>2
  <2>2. k # 1 => J[k - 1] = I[IF k - 1 < p THEN k - 1 ELSE k]
    <3>1. k # 1 => k - 1 \in 1 .. n - 1 /\ (k - 1) + 1 = k
      BY <1>2, <2>1
    <3> QED
      BY <1>3, <3>1
  <2>3. k # n - 1 => J[k + 1] = I[IF k + 1 < p THEN k + 1 ELSE k + 2]
    <3>1. k # n - 1 => k + 1 \in 1 .. n - 1 /\ (k + 1) + 1 = k + 2
      BY <1>2, <2>1
    <3> QED
      BY <1>3, <3>1
  <2>4. CASE k < p
    <3>1. J[k] = I[k] /\ k \in 1 .. n /\ I[k] \in Occ(c) /\ I[k] # i
      BY <1>1, <1>2, <1>3, <2>1, <2>4
    <3>2. I[k] # N
      <4>1. CASE p = n
        BY <1>2, <3>1, <4>1 DEF N
      <4>2. CASE p # n
        <5>1. p + 1 \in 1 .. n /\ k # p + 1 /\ N = I[p + 1]
          BY <1>2, <2>1, <2>4, <4>2 DEF N
        <5> QED
          BY <1>2, <3>1, <5>1
      <4> QED
        BY <4>1, <4>2
    <3>3. I[k] = P <=> k = p - 1
      BY <1>2, <2>1, <2>4, <3>1 DEF P
    <3>4. /\ d.nodes[J[k]].previous = c.nodes[I[k]].previous
          /\ d.nodes[J[k]].next = IF k = p - 1 THEN N ELSE c.nodes[I[k]].next
      BY <1>10, <3>1, <3>2, <3>3
    <3>5. /\ d.nodes[J[k]].previous = IF k = 1 THEN None ELSE I[k - 1]
          /\ d.nodes[J[k]].next = IF k = p - 1 THEN N ELSE I[k + 1]
      BY <1>2, <1>4, <2>4, <3>1, <3>4
    <3>6. k # 1 => J[k - 1] = I[k - 1]
      BY <1>2, <2>1, <2>2, <2>4
    <3>7. k = p - 1 => N = IF k = n - 1 THEN None ELSE I[k + 2]
      BY <1>2, <2>1 DEF N
    <3>8. k # n - 1 => J[k + 1] = IF k = p - 1 THEN I[k + 2] ELSE I[k + 1]
      BY <1>2, <2>1, <2>3, <2>4
    <3>9. k = n - 1 => k = p - 1
      BY <1>2, <2>1, <2>4
    <3> QED
      BY <3>5, <3>6, <3>7, <3>8, <3>9
  <2>5. CASE k >= p
    <3>1. J[k] = I[k + 1] /\ k + 1 \in 1 .. n /\ I[k + 1] \in Occ(c) /\ I[k + 1] # i
      BY <1>1, <1>2, <1>3, <2>1, <2>5
    <3>2. I[k + 1] # P
      BY <1>2, <2>1, <2>5, <3>1, SMTT(30) DEF P
    <3>3. I[k + 1] = N <=> k = p
      BY <1>2, <2>1, <2>5, <3>1 DEF N
    <3>4. /\ d.nodes[J[k]].previous = IF k = p THEN P ELSE c.nodes[I[k + 1]].previous
          /\ d.nodes[J[k]].next = c.nodes[I[k + 1]].next
      BY <1>10, <3>1, <3>2, <3>3
    <3>5. /\ d.nodes[J[k]].previous = IF k = p THEN P ELSE I[k]
          /\ d.nodes[J[k]].next = IF k = n - 1 THEN None ELSE I[k + 2]
      <4>1. (k + 1) - 1 = k /\ (k + 1) + 1 = k + 2 /\ k + 1 # 1 /\ (k + 1 = n <=> k = n - 1)
        BY <1>2, <2>1
      <4>2. /\ c.nodes[I[k + 1]].previous = I[k]
            /\ c.nodes[I[k + 1]].next = IF k = n - 1 THEN None ELSE I[k + 2]
        BY <1>4, <3>1, <4>1
      <4> QED
        BY <3>4, <4>2
    <3>6. k # 1 => J[k - 1] = IF k = p THEN I[k - 1] ELSE I[k]
      BY <1>2, <2>1, <2>2, <2>5
    <3>7. k = p => P = IF k = 1 THEN None ELSE I[k - 1]
      BY DEF P
    <3>8. k # n - 1 => J[k + 1] = I[k + 2]
      BY <1>2, <2>1, <2>3, <2>5
    <3>9. k = 1 => k = p
      BY <1>2, <2>1, <2>5
    <3> QED
      BY <3>5, <3>6, <3>7, <3>8, <3>9
  <2> QED
    BY <1>2, <2>1, <2>4, <2>5
<1>16. DOMAIN J = 1 .. n - 1 /\ Len(J) = n - 1
  BY <1>3
<1>17. Linked(d, J)
  BY <1>3, <1>9, <1>13, <1>14, <1>15, <1>16 DEF Linked
<1> QED
  BY <1>11, <1>17 DEF d, J

\* Put at the end of the list, a slot is linked to the last one.
LEMMA AttachLinked ==
    ASSUME NEW c, Fields(c), c.nodes \in Slab, NEW I, Linked(c, I), ToSet(I) \subseteq Occ(c),
           NEW i \in Occ(c) \ ToSet(I)
    PROVE  Relinked(c, AttachAsMostRecent(c, i)) /\ Linked(AttachAsMostRecent(c, i), Append(I, i))
<1> DEFINE d == AttachAsMostRecent(c, i)
           J == Append(I, i)
           n == Len(I)
<1>1. i \in DOMAIN c.nodes /\ i \in Nat \ {None}
  BY LinkTypes DEF Occ, None
<1>2. /\ DOMAIN I = 1 .. n /\ n \in Nat
      /\ \A k \in 1 .. n : I[k] \in DOMAIN c.nodes /\ I[k] \in Nat \ {None} /\ I[k] \in Occ(c) /\ I[k] # i
      /\ \A j \in 1 .. n, k \in 1 .. n : I[j] = I[k] => j = k
      /\ I = <<>> <=> n = 0
  <2>1. \A k \in DOMAIN I : I[k] \in ToSet(I)
    BY DEF ToSet
  <2> QED
    BY <2>1, LinkTypes
<1>3. /\ J \in Seq(DOMAIN c.nodes) /\ Len(J) = n + 1 /\ DOMAIN J = 1 .. n + 1
      /\ \A k \in 1 .. n : J[k] = I[k]
      /\ J[n + 1] = i
      /\ J # <<>>
  <2>1. I \in Seq(DOMAIN c.nodes)
    BY DEF Linked
  <2> QED
    BY <1>1, <2>1, AppendProperties
<1>4. \A k \in 1 .. n : /\ c.nodes[I[k]].previous = IF k = 1 THEN None ELSE I[k - 1]
                        /\ c.nodes[I[k]].next = IF k = n THEN None ELSE I[k + 1]
                        /\ c.nodes[I[k]] \in Node
  BY <1>2, OccupiedNode DEF Linked
<1>5. /\ c.head = IF n = 0 THEN None ELSE I[1]
      /\ c.tail = IF n = 0 THEN None ELSE I[n]
  BY <1>2 DEF Linked
<1>6. c.tail \in Nat /\ c.tail # i /\ (c.tail = None <=> n = 0) /\ (c.tail # None => c.tail \in Occ(c))
  BY <1>1, <1>2, <1>5 DEF None
<1>7. /\ Fields(d)
      /\ d.policy = c.policy /\ d.current_bytes = c.current_bytes /\ d.sequence = c.sequence
      /\ d.lfu_index = c.lfu_index /\ d.locations = c.locations /\ d.free_indices = c.free_indices
      /\ d.nodes = [j \in DOMAIN c.nodes |-> d.nodes[j]]
      /\ \A j \in DOMAIN c.nodes :
             d.nodes[j] = IF j = i THEN WithLinks(c.nodes[j], c.tail, None)
                          ELSE IF j = c.tail THEN WithNext(c.nodes[j], i)
                          ELSE c.nodes[j]
      /\ d.head = IF c.tail = None THEN i ELSE c.head
      /\ d.tail = i
  BY AttachFields
<1> HIDE DEF d, J
<1>8. ASSUME NEW j \in Occ(c)
      PROVE  /\ d.nodes[j] \in Node /\ SameEntry(c.nodes[j], d.nodes[j])
             /\ d.nodes[j].previous = IF j = i THEN c.tail ELSE c.nodes[j].previous
             /\ d.nodes[j].next = IF j = i THEN None ELSE IF j = c.tail THEN i ELSE c.nodes[j].next
  <2> DEFINE x == c.nodes[j]
  <2>1. x \in Node /\ j \in DOMAIN c.nodes /\ None \in Nat /\ i \in Nat
    BY <1>1, OccupiedNode DEF Occ, None
  <2> HIDE DEF x
  <2>2. CASE j = i
    <3>1. d.nodes[j] = WithLinks(x, c.tail, None)
      BY <1>7, <2>1, <2>2 DEF x
    <3>2. /\ WithLinks(x, c.tail, None) \in Node /\ SameEntry(x, WithLinks(x, c.tail, None))
          /\ WithLinks(x, c.tail, None).previous = c.tail /\ WithLinks(x, c.tail, None).next = None
      <4>1. x \in Node /\ c.tail \in Nat /\ None \in Nat
        BY <1>6, <2>1
      <4>2. \A p \in Nat, m \in Nat :
                /\ WithLinks(x, p, m) \in Node /\ SameEntry(x, WithLinks(x, p, m))
                /\ WithLinks(x, p, m).previous = p /\ WithLinks(x, p, m).next = m
        BY <4>1, BothLinks
      <4> QED
        BY <4>1, <4>2, Zenon
    <3> QED
      BY <2>2, <3>1, <3>2 DEF x
  <2>3. CASE j # i /\ j = c.tail
    <3>1. d.nodes[j] = WithNext(x, i)
      BY <1>7, <2>1, <2>3 DEF x
    <3>2. /\ WithNext(x, i) \in Node /\ SameEntry(x, WithNext(x, i))
          /\ WithNext(x, i).previous = x.previous /\ WithNext(x, i).next = i
      BY <2>1, NextLink
    <3> QED
      BY <2>3, <3>1, <3>2 DEF x
  <2>4. CASE j # i /\ j # c.tail
    <3>1. d.nodes[j] = x
      BY <1>7, <2>1, <2>4 DEF x
    <3> QED
      BY <2>1, <2>4, <3>1 DEF SameEntry, x
  <2> QED
    BY <2>2, <2>3, <2>4
<1>9. Relinked(c, d)
  <2>1. ASSUME NEW j \in DOMAIN c.nodes, c.nodes[j] = NoNode PROVE d.nodes[j] = NoNode
    <3>1. j \notin Occ(c)
      BY <2>1 DEF Occ
    <3>2. j # i /\ j # c.tail
      BY <1>6, <3>1, LinkTypes
    <3> QED
      BY <1>7, <2>1, <3>2
  <2>2. d.nodes = [j \in DOMAIN c.nodes |-> d.nodes[j]]
    BY <1>7
  <2>3. \A j \in DOMAIN c.nodes :
            IF c.nodes[j] = NoNode THEN d.nodes[j] = NoNode
            ELSE d.nodes[j] \in Node /\ SameEntry(c.nodes[j], d.nodes[j])
    BY <1>8, <2>1 DEF Occ
  <2>4. /\ d.nodes \in Slab /\ Len(d.nodes) = Len(c.nodes) /\ DOMAIN d.nodes = DOMAIN c.nodes
        /\ Occ(d) = Occ(c)
        /\ \A j \in Occ(c) : SameEntry(c.nodes[j], d.nodes[j])
    BY <1>7, <2>2, <2>3, RelinkedNodes
  <2> QED
    BY <1>7, <2>4 DEF Relinked
<1>10. IsInjective(J)
  BY <1>2, <1>3 DEF IsInjective
<1>11. d.head = J[1] /\ d.tail = J[Len(J)]
  BY <1>2, <1>3, <1>5, <1>6, <1>7
<1>12. ASSUME NEW k \in DOMAIN J
       PROVE  /\ d.nodes[J[k]].previous = IF k = 1 THEN None ELSE J[k - 1]
              /\ d.nodes[J[k]].next = IF k = Len(J) THEN None ELSE J[k + 1]
  <2>1. CASE k = n + 1
    <3>1. d.nodes[i].previous = c.tail /\ d.nodes[i].next = None
      BY <1>8
    <3> QED
      BY <1>2, <1>3, <1>5, <2>1, <3>1
  <2>2. CASE k \in 1 .. n
    <3>1. I[k] \in Occ(c) /\ I[k] # i /\ J[k] = I[k]
      BY <1>2, <1>3, <2>2
    <3>2. I[k] = c.tail <=> k = n
      BY <1>2, <1>5, <2>2
    <3>3. /\ d.nodes[J[k]].previous = IF k = 1 THEN None ELSE I[k - 1]
          /\ d.nodes[J[k]].next = IF k = n THEN i ELSE I[k + 1]
      BY <1>4, <1>8, <2>2, <3>1, <3>2, SMTT(30)
    <3> QED
      BY <1>2, <1>3, <2>2, <3>3
  <2> QED
    BY <1>2, <1>3, <2>1, <2>2
<1>13. DOMAIN d.nodes = DOMAIN c.nodes
  BY <1>7
<1>14. Linked(d, J)
  BY <1>3, <1>10, <1>11, <1>12, <1>13 DEF Linked
<1> QED
  BY <1>9, <1>14 DEF d, J

-----------------------------------------------------------------------------
(* Removing *)

LEMMA UnindexedFields ==
    ASSUME NEW c, Fields(c), NEW i
    PROVE  /\ Fields(Unindexed(c, i))
           /\ Unindexed(c, i).policy = c.policy
           /\ Unindexed(c, i).current_bytes = c.current_bytes
           /\ Unindexed(c, i).sequence = c.sequence
           /\ Unindexed(c, i).lfu_index =
                  IF c.policy = "Lfu" THEN c.lfu_index \ {LfuKey(c, i)} ELSE c.lfu_index
           /\ Unindexed(c, i).locations = c.locations
           /\ Unindexed(c, i).nodes = c.nodes
           /\ Unindexed(c, i).free_indices = c.free_indices
           /\ Unindexed(c, i).head = c.head /\ Unindexed(c, i).tail = c.tail
<1> DEFINE k == LfuKey(c, i)
           d == Unindexed(c, i)
<1>1. d = IF c.policy = "Lfu" THEN [c EXCEPT !.lfu_index = c.lfu_index \ {k}] ELSE c
  BY DEF Unindexed
<1> HIDE DEF k, d
<1>2. /\ Fields(d)
      /\ d.policy = c.policy /\ d.current_bytes = c.current_bytes /\ d.sequence = c.sequence
      /\ d.lfu_index = IF c.policy = "Lfu" THEN c.lfu_index \ {k} ELSE c.lfu_index
      /\ d.locations = c.locations /\ d.nodes = c.nodes /\ d.free_indices = c.free_indices
      /\ d.head = c.head /\ d.tail = c.tail
  <2>1. CASE c.policy = "Lfu"
    BY <1>1, <2>1 DEF Fields
  <2>2. CASE c.policy # "Lfu"
    BY <1>1, <2>2 DEF Fields
  <2> QED
    BY <2>1, <2>2
<1> QED
  BY <1>2 DEF d, k

LEMMA IndexedFields ==
    ASSUME NEW c, Fields(c), NEW i
    PROVE  /\ Fields(Indexed(c, i))
           /\ Indexed(c, i).policy = c.policy
           /\ Indexed(c, i).current_bytes = c.current_bytes
           /\ Indexed(c, i).sequence = c.sequence
           /\ Indexed(c, i).lfu_index =
                  IF c.policy = "Lfu" THEN c.lfu_index \cup {LfuKey(c, i)} ELSE c.lfu_index
           /\ Indexed(c, i).locations = c.locations
           /\ Indexed(c, i).nodes = c.nodes
           /\ Indexed(c, i).free_indices = c.free_indices
           /\ Indexed(c, i).head = c.head /\ Indexed(c, i).tail = c.tail
<1> DEFINE k == LfuKey(c, i)
           d == Indexed(c, i)
<1>1. d = IF c.policy = "Lfu" THEN [c EXCEPT !.lfu_index = c.lfu_index \cup {k}] ELSE c
  BY DEF Indexed
<1> HIDE DEF k, d
<1>2. /\ Fields(d)
      /\ d.policy = c.policy /\ d.current_bytes = c.current_bytes /\ d.sequence = c.sequence
      /\ d.lfu_index = IF c.policy = "Lfu" THEN c.lfu_index \cup {k} ELSE c.lfu_index
      /\ d.locations = c.locations /\ d.nodes = c.nodes /\ d.free_indices = c.free_indices
      /\ d.head = c.head /\ d.tail = c.tail
  <2>1. CASE c.policy = "Lfu"
    BY <1>1, <2>1 DEF Fields
  <2>2. CASE c.policy # "Lfu"
    BY <1>1, <2>2 DEF Fields
  <2> QED
    BY <2>1, <2>2
<1> QED
  BY <1>2 DEF d, k

\* e is c without the entry in slot i, its links aside.
Removed(c, i, e) ==
    /\ Fields(e)
    /\ e.policy = c.policy /\ e.sequence = c.sequence
    /\ e.lfu_index = IF c.policy = "Lfu" THEN c.lfu_index \ {LfuKey(c, i)} ELSE c.lfu_index
    /\ e.free_indices = Append(c.free_indices, i)
    /\ e.current_bytes = IF c.current_bytes > c.nodes[i].bytes
                         THEN c.current_bytes - c.nodes[i].bytes ELSE 0
    /\ e.locations = Drop(c.locations, c.nodes[i].user_id)
    /\ e.nodes \in Slab /\ Len(e.nodes) = Len(c.nodes) /\ DOMAIN e.nodes = DOMAIN c.nodes
    /\ Occ(e) = Occ(c) \ {i}
    /\ \A j \in Occ(e) : SameEntry(c.nodes[j], e.nodes[j])

Emptied(nodes, i) == [nodes EXCEPT ![i] = NoNode]

LEMMA EmptiedSlab ==
    ASSUME NEW nodes \in Slab, NEW i \in DOMAIN nodes
    PROVE  /\ Emptied(nodes, i) \in Slab /\ Len(Emptied(nodes, i)) = Len(nodes)
           /\ DOMAIN Emptied(nodes, i) = DOMAIN nodes
           /\ Emptied(nodes, i)[i] = NoNode
           /\ \A j \in DOMAIN nodes \ {i} : Emptied(nodes, i)[j] = nodes[j]
<1>1. nodes \in Seq(Node \cup {NoNode}) /\ NoNode \in Node \cup {NoNode} /\ i \in 1 .. Len(nodes)
  BY DEF Slab
<1> HIDE DEF Slab
<1>2. Emptied(nodes, i) \in Seq(Node \cup {NoNode}) /\ Len(Emptied(nodes, i)) = Len(nodes)
  BY <1>1 DEF Emptied
<1>3. \A j \in DOMAIN nodes : Emptied(nodes, i)[j] = IF j = i THEN NoNode ELSE nodes[j]
  BY DEF Emptied
<1> QED
  BY <1>2, <1>3 DEF Emptied, Slab

\* remove_node, told by what it leaves.
LEMMA RemoveNodeFields ==
    ASSUME NEW c, Fields(c), NEW i, NEW d, Fields(d), d = Detach(Unindexed(c, i), i)
    PROVE  /\ Fields(RemoveNode(c, i))
           /\ RemoveNode(c, i).policy = d.policy
           /\ RemoveNode(c, i).current_bytes =
                  IF d.current_bytes > c.nodes[i].bytes THEN d.current_bytes - c.nodes[i].bytes ELSE 0
           /\ RemoveNode(c, i).sequence = d.sequence
           /\ RemoveNode(c, i).lfu_index = d.lfu_index
           /\ RemoveNode(c, i).locations = Drop(d.locations, c.nodes[i].user_id)
           /\ RemoveNode(c, i).nodes = Emptied(d.nodes, i)
           /\ RemoveNode(c, i).free_indices = Append(d.free_indices, i)
           /\ RemoveNode(c, i).head = d.head /\ RemoveNode(c, i).tail = d.tail
<1> DEFINE e == RemoveNode(c, i)
           locations == Drop(d.locations, c.nodes[i].user_id)
           bytes == IF d.current_bytes > c.nodes[i].bytes
                    THEN d.current_bytes - c.nodes[i].bytes ELSE 0
           nodes == Emptied(d.nodes, i)
           free == Append(d.free_indices, i)
<1>1. e = [d EXCEPT !.locations = locations, !.current_bytes = bytes, !.nodes = nodes,
                    !.free_indices = free]
  BY DEF RemoveNode, Drop, Emptied
<1> HIDE DEF e, locations, bytes, nodes, free
<1>2. e = [policy |-> d.policy, current_bytes |-> bytes, sequence |-> d.sequence,
           lfu_index |-> d.lfu_index, locations |-> locations, nodes |-> nodes,
           free_indices |-> free, head |-> d.head, tail |-> d.tail]
  BY <1>1 DEF Fields
<1>3. /\ e.policy = d.policy /\ e.current_bytes = bytes /\ e.sequence = d.sequence
      /\ e.lfu_index = d.lfu_index /\ e.locations = locations /\ e.nodes = nodes
      /\ e.free_indices = free /\ e.head = d.head /\ e.tail = d.tail
  BY <1>2
<1>4. Fields(e)
  BY <1>2, <1>3 DEF Fields
<1> QED
  BY <1>3, <1>4 DEF e, locations, bytes, nodes, free

\* remove_node takes the slot out of the list and out of everything else.
LEMMA RemoveNodeRemoves ==
    ASSUME NEW c, Fields(c), c.nodes \in Slab, NEW I, Linked(c, I), ToSet(I) = Occ(c),
           NEW i \in Occ(c)
    PROVE  Removed(c, i, RemoveNode(c, i)) /\ Linked(RemoveNode(c, i), Without(I, i))
<1> DEFINE b == Unindexed(c, i)
           d == Detach(b, i)
           e == RemoveNode(c, i)
           J == Without(I, i)
<1>1. /\ Fields(b)
      /\ b.policy = c.policy /\ b.current_bytes = c.current_bytes /\ b.sequence = c.sequence
      /\ b.lfu_index = IF c.policy = "Lfu" THEN c.lfu_index \ {LfuKey(c, i)} ELSE c.lfu_index
      /\ b.locations = c.locations /\ b.nodes = c.nodes /\ b.free_indices = c.free_indices
      /\ b.head = c.head /\ b.tail = c.tail
  BY UnindexedFields
<1> HIDE DEF b
<1>2. Linked(b, I) /\ Occ(b) = Occ(c)
  BY <1>1 DEF Linked, Occ
<1>3. Relinked(b, d) /\ Linked(d, J)
  BY <1>1, <1>2, DetachLinked
<1>4. i \in DOMAIN c.nodes
  BY DEF Occ
<1>5. /\ Fields(e)
      /\ e.policy = d.policy /\ e.sequence = d.sequence /\ e.lfu_index = d.lfu_index
      /\ e.current_bytes = IF d.current_bytes > c.nodes[i].bytes
                           THEN d.current_bytes - c.nodes[i].bytes ELSE 0
      /\ e.locations = Drop(d.locations, c.nodes[i].user_id)
      /\ e.nodes = Emptied(d.nodes, i) /\ e.free_indices = Append(d.free_indices, i)
      /\ e.head = d.head /\ e.tail = d.tail
  BY <1>3, RemoveNodeFields DEF Relinked, b
<1> HIDE DEF d, e
<1>6. /\ d.nodes \in Slab /\ Len(d.nodes) = Len(c.nodes) /\ DOMAIN d.nodes = DOMAIN c.nodes
      /\ Occ(d) = Occ(c)
      /\ \A j \in Occ(c) : SameEntry(c.nodes[j], d.nodes[j])
  BY <1>1, <1>2, <1>3 DEF Relinked
<1>7. /\ e.nodes \in Slab /\ Len(e.nodes) = Len(c.nodes) /\ DOMAIN e.nodes = DOMAIN c.nodes
      /\ e.nodes[i] = NoNode
      /\ \A j \in DOMAIN c.nodes \ {i} : e.nodes[j] = d.nodes[j]
  BY <1>4, <1>5, <1>6, EmptiedSlab
<1>8. Occ(e) = Occ(c) \ {i}
  BY <1>6, <1>7 DEF Occ
<1>9. \A j \in Occ(e) : e.nodes[j] = d.nodes[j] /\ j \in Occ(c)
  BY <1>7, <1>8 DEF Occ
<1>10. Removed(c, i, e)
  BY <1>1, <1>3, <1>5, <1>6, <1>7, <1>8, <1>9 DEF Removed, Relinked
<1>11. IsInjective(I) /\ I \in Seq(DOMAIN c.nodes)
  BY DEF Linked
<1>12. J \in Seq(DOMAIN c.nodes) /\ ToSet(J) = Occ(c) \ {i}
  BY <1>11, WithoutOther
<1> HIDE DEF J
<1>13. \A k \in DOMAIN J : J[k] \in DOMAIN c.nodes \ {i}
  BY <1>12 DEF ToSet, Occ
<1>14. Linked(e, J)
  <2>1. /\ DOMAIN d.nodes \subseteq DOMAIN e.nodes /\ e.head = d.head /\ e.tail = d.tail
        /\ \A k \in DOMAIN J : /\ e.nodes[J[k]].previous = d.nodes[J[k]].previous
                               /\ e.nodes[J[k]].next = d.nodes[J[k]].next
    BY <1>5, <1>6, <1>7, <1>13
  <2> QED
    BY <1>3, <2>1, LinkedAlike
<1> QED
  BY <1>10, <1>14 DEF e, J

-----------------------------------------------------------------------------
(* Users and slots *)

LEMMA DropFields ==
    ASSUME NEW f, NEW u
    PROVE  /\ Drop(f, u) = [v \in DOMAIN f \ {u} |-> f[v]]
           /\ DOMAIN Drop(f, u) = DOMAIN f \ {u}
           /\ \A v \in DOMAIN f \ {u} : Drop(f, u)[v] = f[v]
<1>1. DOMAIN f \cap (DOMAIN f \ {u}) = DOMAIN f \ {u}
  OBVIOUS
<1> QED
  BY <1>1 DEF Drop, Keep

\* There are as many cached users as occupied slots.
LEMMA Sizes ==
    ASSUME NEW c, Paired(c), c.nodes \in Slab
    PROVE  /\ IsFiniteSet(Occ(c)) /\ IsFiniteSet(DOMAIN c.locations)
           /\ Cardinality(Occ(c)) = Cardinality(DOMAIN c.locations)
           /\ Cardinality(Occ(c)) \in Nat
<1> DEFINE U == DOMAIN c.locations
           f == [u \in U |-> c.locations[u]]
<1>1. IsFiniteSet(Occ(c))
  <2>1. DOMAIN c.nodes = 1 .. Len(c.nodes) /\ Len(c.nodes) \in Nat
    BY DEF Slab
  <2>2. IsFiniteSet(1 .. Len(c.nodes))
    BY <2>1, FS_Interval
  <2> QED
    BY <2>1, <2>2, FS_Subset DEF Occ
<1>2. f \in [U -> Occ(c)]
  BY DEF Paired
<1>3. \A u \in U, v \in U : f[u] = f[v] => u = v
  BY DEF Paired
<1>4. \A i \in Occ(c) : \E u \in U : f[u] = i
  BY DEF Paired
<1>5. f \in Injection(U, Occ(c)) /\ f \in Surjection(U, Occ(c))
  BY <1>2, <1>3, <1>4 DEF Injection, Surjection, IsInjective
<1> HIDE DEF f, U
<1>6. IsFiniteSet(U) /\ Cardinality(U) = Cardinality(Occ(c))
  BY <1>1, <1>5, FS_Injection
<1>7. Cardinality(Occ(c)) \in Nat
  BY <1>1, FS_CardinalityType
<1> QED
  BY <1>1, <1>6, <1>7 DEF U

LEMMA PositionsList ==
    ASSUME NEW c, Paired(c), c.nodes \in Slab, NEW list, Listing(list, DOMAIN c.locations)
    PROVE  /\ list \in Seq(DOMAIN c.locations)
           /\ Positions(c, list) \in Seq(DOMAIN c.nodes)
           /\ Len(Positions(c, list)) = Len(list)
           /\ \A k \in 1 .. Len(list) : Positions(c, list)[k] = c.locations[list[k]]
           /\ IsInjective(Positions(c, list))
           /\ ToSet(Positions(c, list)) = Occ(c)
<1> DEFINE P == Positions(c, list)
           n == Len(list)
<1>1. list \in Seq(CacheUsers) /\ IsInjective(list) /\ ToSet(list) = DOMAIN c.locations
  BY DEF Listing
<1>2. DOMAIN list = 1 .. n /\ n \in Nat /\ \A k \in 1 .. n : list[k] \in DOMAIN c.locations
  BY <1>1 DEF ToSet
<1>3. list \in Seq(DOMAIN c.locations)
  <2>1. list = [k \in 1 .. n |-> list[k]]
    BY <1>1, <1>2
  <2> QED
    BY <1>2, <2>1
<1>4. P = [k \in 1 .. n |-> c.locations[list[k]]]
  BY <1>2 DEF Positions
<1>5. \A k \in 1 .. n : c.locations[list[k]] \in Occ(c)
  BY <1>2 DEF Paired
<1>6. P \in Seq(DOMAIN c.nodes) /\ Len(P) = n
  BY <1>2, <1>4, <1>5 DEF Occ
<1>7. \A k \in 1 .. n : P[k] = c.locations[list[k]]
  BY <1>4
<1>8. DOMAIN P = 1 .. n
  BY <1>4
<1> HIDE DEF P
<1>9. IsInjective(P)
  <2>1. ASSUME NEW j \in 1 .. n, NEW k \in 1 .. n, P[j] = P[k] PROVE j = k
    <3>1. list[j] = list[k]
      BY <1>2, <1>7, <2>1 DEF Paired
    <3> QED
      BY <1>1, <1>2, <3>1 DEF IsInjective
  <2> QED
    BY <1>8, <2>1 DEF IsInjective
<1>10. ToSet(P) = Occ(c)
  <2>1. ToSet(P) \subseteq Occ(c)
    BY <1>5, <1>7, <1>8 DEF ToSet
  <2>2. ASSUME NEW i \in Occ(c) PROVE i \in ToSet(P)
    <3>1. c.nodes[i].user_id \in ToSet(list) /\ c.locations[c.nodes[i].user_id] = i
      BY <1>1 DEF Paired
    <3>2. PICK k \in 1 .. n : list[k] = c.nodes[i].user_id
      BY <1>2, <3>1 DEF ToSet
    <3> QED
      BY <1>7, <1>8, <3>1, <3>2 DEF ToSet
  <2> QED
    BY <2>1, <2>2
<1> QED
  BY <1>3, <1>6, <1>7, <1>9, <1>10 DEF P

\* Taking a user out of the list takes its slot out.
LEMMA PositionsWithout ==
    ASSUME NEW c, Paired(c), c.nodes \in Slab, NEW list, Listing(list, DOMAIN c.locations),
           NEW u \in DOMAIN c.locations
    PROVE  Positions(c, Without(list, u)) = Without(Positions(c, list), c.locations[u])
<1> DEFINE P == Positions(c, list)
           n == Len(list)
           J == Without(list, u)
           K == Without(P, c.locations[u])
<1>1. /\ list \in Seq(DOMAIN c.locations) /\ IsInjective(list)
      /\ P \in Seq(DOMAIN c.nodes) /\ IsInjective(P) /\ Len(P) = n
      /\ \A k \in 1 .. n : P[k] = c.locations[list[k]]
  BY PositionsList DEF Listing
<1>2. PICK p \in 1 .. n : list[p] = u
  <2>1. u \in ToSet(list) /\ DOMAIN list = 1 .. n
    BY <1>1 DEF Listing
  <2> QED
    BY <2>1 DEF ToSet
<1>3. n \in Nat /\ P[p] = c.locations[u] /\ p \in Nat
  BY <1>1, <1>2
<1>4. /\ J \in Seq(DOMAIN c.locations) /\ Len(J) = n - 1
      /\ \A k \in 1 .. n - 1 : J[k] = list[IF k < p THEN k ELSE k + 1]
  <2>1. /\ Without(list, list[p]) \in Seq(DOMAIN c.locations)
        /\ Len(Without(list, list[p])) = n - 1
        /\ \A k \in 1 .. n - 1 :
               Without(list, list[p])[k] = list[IF k < p THEN k ELSE k + 1]
    BY <1>1, WithoutMember
  <2> QED
    BY <1>2, <2>1
<1> HIDE DEF P
<1>5. /\ K \in Seq(DOMAIN c.nodes) /\ Len(K) = n - 1
      /\ \A k \in 1 .. n - 1 : K[k] = P[IF k < p THEN k ELSE k + 1]
  <2>1. /\ Without(P, P[p]) \in Seq(DOMAIN c.nodes)
        /\ Len(Without(P, P[p])) = Len(P) - 1
        /\ \A k \in 1 .. Len(P) - 1 : Without(P, P[p])[k] = P[IF k < p THEN k ELSE k + 1]
    BY <1>1, <1>2, WithoutMember
  <2> QED
    BY <1>1, <1>3, <2>1
<1> HIDE DEF J, K
<1>6. K = [k \in 1 .. n - 1 |-> K[k]] /\ DOMAIN J = 1 .. n - 1
  <2>1. K \in [1 .. Len(K) -> DOMAIN c.nodes] /\ DOMAIN J = 1 .. Len(J)
    BY <1>4, <1>5, LenProperties
  <2> QED
    BY <1>4, <1>5, <2>1
<1>7. ASSUME NEW k \in 1 .. n - 1 PROVE c.locations[J[k]] = K[k]
  <2>1. CASE k < p
    <3>1. k \in 1 .. n
      BY <1>3
    <3> QED
      BY <1>1, <1>4, <1>5, <2>1, <3>1
  <2>2. CASE ~(k < p)
    <3>1. k + 1 \in 1 .. n
      BY <1>3
    <3> QED
      BY <1>1, <1>4, <1>5, <2>2, <3>1
  <2> QED
    BY <2>1, <2>2
<1>8. Positions(c, J) = [k \in 1 .. n - 1 |-> c.locations[J[k]]]
  BY <1>6 DEF Positions
<1>9. [k \in 1 .. n - 1 |-> c.locations[J[k]]] = [k \in 1 .. n - 1 |-> K[k]]
  BY <1>7
<1> QED
  BY <1>6, <1>8, <1>9 DEF J, K, P

LEMMA PositionsAppend ==
    ASSUME NEW S, NEW list \in Seq(S), NEW u, NEW c, NEW d,
           \A k \in DOMAIN list : /\ d.locations[list[k]] = c.locations[list[k]]
                                  /\ c.locations[list[k]] \in DOMAIN c.nodes
    PROVE  Positions(d, Append(list, u)) = Append(Positions(c, list), d.locations[u])
<1> DEFINE n == Len(list)
           P == Positions(c, list)
<1>1. DOMAIN list = 1 .. n /\ n \in Nat
  OBVIOUS
<1>2. P = [k \in 1 .. n |-> c.locations[list[k]]]
  BY <1>1 DEF Positions
<1>3. P \in Seq(DOMAIN c.nodes) /\ Len(P) = n
  BY <1>1, <1>2
<1>4. Append(P, d.locations[u]) = [k \in 1 .. n + 1 |-> IF k = n + 1 THEN d.locations[u] ELSE P[k]]
  BY <1>1, <1>3
<1>5. /\ DOMAIN Append(list, u) = 1 .. n + 1
      /\ Append(list, u)[n + 1] = u
      /\ \A k \in 1 .. n : Append(list, u)[k] = list[k]
  <2>1. list \in Seq(S \cup {u})
    OBVIOUS
  <2> QED
    BY <1>1, <2>1, AppendProperties
<1>6. \A k \in 1 .. n + 1 :
          d.locations[Append(list, u)[k]] = IF k = n + 1 THEN d.locations[u] ELSE P[k]
  <2>1. ASSUME NEW k \in 1 .. n + 1, k # n + 1
        PROVE  d.locations[Append(list, u)[k]] = P[k]
    <3>1. k \in 1 .. n
      BY <1>1, <2>1
    <3>2. Append(list, u)[k] = list[k]
      BY <1>5, <2>1
    <3> QED
      BY <1>1, <1>2, <3>1, <3>2
  <2> QED
    BY <1>1, <1>5, <2>1
<1> HIDE DEF P
<1>7. DOMAIN Append(list, u) = 1 .. n + 1
  BY <1>5
<1>8. Positions(d, Append(list, u)) = [k \in 1 .. n + 1 |-> d.locations[Append(list, u)[k]]]
  BY <1>7 DEF Positions
<1> QED
  BY <1>4, <1>6, <1>8 DEF P

-----------------------------------------------------------------------------
(* What remains after a removal is sound *)

LEMMA ContentsFields ==
    ASSUME NEW c
    PROVE  /\ DOMAIN Contents(c) = DOMAIN c.locations
           /\ \A u \in DOMAIN c.locations : Contents(c)[u] = c.nodes[c.locations[u]].adjacency_list
           /\ Contents(c) = [u \in DOMAIN c.locations |-> Contents(c)[u]]
  BY DEF Contents

LEMMA RemovedPaired ==
    ASSUME NEW c, Paired(c), c.nodes \in Slab, NEW u \in DOMAIN c.locations,
           NEW e, Removed(c, c.locations[u], e)
    PROVE  /\ Paired(e)
           /\ c.locations[u] \in Occ(c) /\ c.nodes[c.locations[u]].user_id = u
           /\ DOMAIN e.locations = DOMAIN c.locations \ {u}
           /\ \A v \in DOMAIN e.locations :
                  /\ e.locations[v] = c.locations[v]
                  /\ e.locations[v] \in Occ(e)
                  /\ SameEntry(c.nodes[c.locations[v]], e.nodes[e.locations[v]])
           /\ Contents(e) = Drop(Contents(c), u)
<1> DEFINE i == c.locations[u]
<1>1. i \in Occ(c) /\ c.nodes[i].user_id = u
  BY DEF Paired
<1> HIDE DEF i
<1>2. /\ e.locations = Drop(c.locations, u)
      /\ Occ(e) = Occ(c) \ {i}
      /\ \A j \in Occ(e) : SameEntry(c.nodes[j], e.nodes[j])
  BY <1>1 DEF Removed, i
<1>3. /\ DOMAIN e.locations = DOMAIN c.locations \ {u}
      /\ \A v \in DOMAIN e.locations : e.locations[v] = c.locations[v]
  <2>1. /\ DOMAIN Drop(c.locations, u) = DOMAIN c.locations \ {u}
        /\ \A v \in DOMAIN c.locations \ {u} : Drop(c.locations, u)[v] = c.locations[v]
    BY DropFields
  <2> QED
    BY <1>2, <2>1
<1>4. \A v \in DOMAIN e.locations : c.locations[v] \in Occ(e)
  BY <1>1, <1>2, <1>3 DEF Paired
<1>5. \A v \in DOMAIN e.locations : SameEntry(c.nodes[c.locations[v]], e.nodes[e.locations[v]])
  BY <1>2, <1>3, <1>4
<1>6. Paired(e)
  <2>1. DOMAIN e.locations \subseteq CacheUsers
    BY <1>3 DEF Paired
  <2>2. ASSUME NEW j \in Occ(e)
        PROVE  /\ e.nodes[j].user_id \in DOMAIN e.locations
               /\ e.locations[e.nodes[j].user_id] = j
               /\ e.nodes[j].bytes = EntryBytes(e.nodes[j].adjacency_list)
    <3>1. j \in Occ(c) /\ j # i /\ SameEntry(c.nodes[j], e.nodes[j])
      BY <1>2
    <3>2. /\ c.nodes[j].user_id \in DOMAIN c.locations
          /\ c.locations[c.nodes[j].user_id] = j
          /\ c.nodes[j].bytes = EntryBytes(c.nodes[j].adjacency_list)
      BY <3>1 DEF Paired
    <3>3. c.nodes[j].user_id # u
      BY <3>1, <3>2 DEF i
    <3> QED
      BY <1>3, <3>1, <3>2, <3>3 DEF SameEntry
  <2>3. ASSUME NEW v \in DOMAIN e.locations
        PROVE  e.locations[v] \in Occ(e) /\ e.nodes[e.locations[v]].user_id = v
    BY <1>3, <1>4, <1>5 DEF Paired, SameEntry
  <2> QED
    BY <2>1, <2>2, <2>3 DEF Paired
<1>7. Contents(e) = Drop(Contents(c), u)
  <2>1. /\ DOMAIN Contents(c) = DOMAIN c.locations
        /\ \A v \in DOMAIN c.locations : Contents(c)[v] = c.nodes[c.locations[v]].adjacency_list
    BY ContentsFields
  <2>2. /\ DOMAIN Contents(e) = DOMAIN e.locations
        /\ \A v \in DOMAIN e.locations : Contents(e)[v] = e.nodes[e.locations[v]].adjacency_list
        /\ Contents(e) = [v \in DOMAIN e.locations |-> Contents(e)[v]]
    BY ContentsFields
  <2>3. Drop(Contents(c), u) = [v \in DOMAIN c.locations \ {u} |-> Contents(c)[v]]
    <3>1. Drop(Contents(c), u) = [v \in DOMAIN Contents(c) \ {u} |-> Contents(c)[v]]
      BY DropFields
    <3> QED
      BY <2>1, <3>1
  <2>4. \A v \in DOMAIN e.locations : Contents(e)[v] = Contents(c)[v]
    BY <1>3, <1>5, <2>1, <2>2 DEF SameEntry
  <2> QED
    BY <1>3, <2>2, <2>3, <2>4
<1> QED
  BY <1>1, <1>3, <1>4, <1>5, <1>6, <1>7 DEF i

LEMMA AppendFresh ==
    ASSUME NEW S, NEW list \in Seq(S), NEW v \in S, v \notin ToSet(list), IsInjective(list)
    PROVE  /\ Append(list, v) \in Seq(S) /\ IsInjective(Append(list, v))
           /\ ToSet(Append(list, v)) = ToSet(list) \cup {v}
<1>1. WithTarget(list, v) = Append(list, v)
  BY DEF WithTarget
<1>2. WithTarget(list, v) \in Seq(S) /\ ToSet(WithTarget(list, v)) = ToSet(list) \cup {v}
  BY WithTargetList
<1>3. IsInjective(WithTarget(list, v))
  BY WithTargetInjective
<1> QED
  BY <1>1, <1>2, <1>3

LEMMA RemovedFreed ==
    ASSUME NEW c, c.nodes \in Slab, Freed(c), NEW i \in Occ(c), NEW e, Removed(c, i, e)
    PROVE  Freed(e)
<1>1. i \in Nat /\ i \in DOMAIN c.nodes
  BY DEF Slab, Occ
<1>2. /\ c.free_indices \in Seq(Nat) /\ IsInjective(c.free_indices)
      /\ ToSet(c.free_indices) = DOMAIN c.nodes \ Occ(c)
      /\ Len(c.nodes) <= Capacity
  BY DEF Freed
<1>3. i \notin ToSet(c.free_indices)
  BY <1>2
<1>4. /\ Append(c.free_indices, i) \in Seq(Nat) /\ IsInjective(Append(c.free_indices, i))
      /\ ToSet(Append(c.free_indices, i)) = ToSet(c.free_indices) \cup {i}
  BY <1>1, <1>2, <1>3, AppendFresh
<1>5. /\ e.free_indices = Append(c.free_indices, i) /\ Len(e.nodes) = Len(c.nodes)
      /\ DOMAIN e.nodes = DOMAIN c.nodes /\ Occ(e) = Occ(c) \ {i}
  BY DEF Removed
<1>6. ToSet(c.free_indices) \cup {i} = DOMAIN e.nodes \ Occ(e)
  BY <1>1, <1>2, <1>5
<1> QED
  BY <1>2, <1>4, <1>5, <1>6 DEF Freed

LEMMA KeysDiffer ==
    ASSUME NEW c, NEW d, NEW i, NEW j
    PROVE  LfuKey(c, i) = LfuKey(d, j) => i = j
  BY DEF LfuKey

LEMMA SameKey ==
    ASSUME NEW c, NEW d, NEW i, SameEntry(c.nodes[i], d.nodes[i])
    PROVE  LfuKey(d, i) = LfuKey(c, i)
  BY DEF LfuKey, SameEntry

LEMMA RemovedKeyed ==
    ASSUME NEW c, Keyed(c), NEW i \in Occ(c), NEW e, Removed(c, i, e)
    PROVE  Keyed(e)
<1>1. /\ Occ(e) = Occ(c) \ {i} /\ e.policy = c.policy
      /\ e.lfu_index = IF c.policy = "Lfu" THEN c.lfu_index \ {LfuKey(c, i)} ELSE c.lfu_index
      /\ \A j \in Occ(e) : SameEntry(c.nodes[j], e.nodes[j])
  BY DEF Removed
<1>2. CASE c.policy = "Lfu"
  <2>1. c.lfu_index = {LfuKey(c, j) : j \in Occ(c)}
    BY <1>2 DEF Keyed
  <2>2. \A j \in Occ(e) : LfuKey(e, j) = LfuKey(c, j)
    BY <1>1, SameKey
  <2>3. \A j \in Occ(e) : LfuKey(c, j) # LfuKey(c, i)
    BY <1>1, KeysDiffer
  <2>4. {LfuKey(c, j) : j \in Occ(c)} \ {LfuKey(c, i)} = {LfuKey(e, j) : j \in Occ(e)}
    BY <1>1, <2>2, <2>3
  <2> QED
    BY <1>1, <1>2, <2>1, <2>4 DEF Keyed
<1>3. CASE c.policy # "Lfu"
  BY <1>1, <1>3 DEF Keyed
<1> QED
  BY <1>2, <1>3

LEMMA ListLengths ==
    ASSUME NEW c, c.nodes \in Slab
    PROVE  \A i \in Occ(c) : Len(c.nodes[i].adjacency_list) \in Nat
<1>1. ASSUME NEW i \in Occ(c) PROVE Len(c.nodes[i].adjacency_list) \in Nat
  <2>1. c.nodes[i] \in Node
    BY OccupiedNode
  <2>2. c.nodes[i].adjacency_list \in CacheLists
    BY <2>1 DEF Node
  <2> QED
    BY <2>2, SlabAssumption
<1> QED
  BY <1>1

LEMMA SlotListsFields ==
    ASSUME NEW c
    PROVE  /\ DOMAIN SlotLists(c) = Occ(c)
           /\ \A i \in Occ(c) : SlotLists(c)[i] = c.nodes[i].adjacency_list
  BY DEF SlotLists

LEMMA RemovedWeighed ==
    ASSUME NEW c, Paired(c), c.nodes \in Slab, Weighed(c), NEW u \in DOMAIN c.locations,
           NEW e, Removed(c, c.locations[u], e)
    PROVE  Weighed(e)
<1> DEFINE i == c.locations[u]
           b == EntryBytes(c.nodes[i].adjacency_list)
<1>1. /\ i \in Occ(c) /\ c.nodes[i].user_id = u
      /\ DOMAIN e.locations = DOMAIN c.locations \ {u}
      /\ Contents(e) = Drop(Contents(c), u)
  BY RemovedPaired
<1>2. c.nodes[i].bytes = b
  BY <1>1 DEF Paired
<1> HIDE DEF i, b
<1>3. /\ Occ(e) = Occ(c) \ {i}
      /\ \A j \in Occ(e) : SameEntry(c.nodes[j], e.nodes[j])
      /\ e.current_bytes = IF c.current_bytes > c.nodes[i].bytes
                           THEN c.current_bytes - c.nodes[i].bytes ELSE 0
  BY DEF Removed, i
<1>4. /\ IsFiniteSet(Occ(c)) /\ IsFiniteSet(DOMAIN c.locations)
  BY Sizes
<1>5. /\ TotalBytes(Contents(c)) = b + TotalBytes(Contents(e))
      /\ TotalBytes(Contents(e)) \in Nat /\ b \in Nat
  <2>1. /\ DOMAIN Contents(c) = DOMAIN c.locations
        /\ \A v \in DOMAIN c.locations : Contents(c)[v] = c.nodes[c.locations[v]].adjacency_list
    BY ContentsFields
  <2>2. \A v \in DOMAIN Contents(c) : Len(Contents(c)[v]) \in Nat
    BY <2>1, ListLengths DEF Paired
  <2>3. /\ DOMAIN Contents(e) = DOMAIN Contents(c) \ {u}
        /\ \A v \in DOMAIN Contents(e) : Contents(e)[v] = Contents(c)[v]
    <3>1. /\ DOMAIN Drop(Contents(c), u) = DOMAIN Contents(c) \ {u}
          /\ \A v \in DOMAIN Contents(c) \ {u} : Drop(Contents(c), u)[v] = Contents(c)[v]
      BY DropFields
    <3> QED
      BY <1>1, <3>1
  <2>4. b = EntryBytes(Contents(c)[u])
    BY <2>1 DEF b, i
  <2>5. u \in DOMAIN Contents(c) /\ IsFiniteSet(DOMAIN Contents(c))
    BY <1>4, <2>1
  <2>6. /\ TotalBytes(Contents(c)) = EntryBytes(Contents(c)[u]) + TotalBytes(Contents(e))
        /\ TotalBytes(Contents(e)) \in Nat /\ EntryBytes(Contents(c)[u]) \in Nat
    BY <2>2, <2>3, <2>5, BytesWithout
  <2> QED
    BY <2>4, <2>6
<1>6. /\ TotalBytes(SlotLists(c)) = b + TotalBytes(SlotLists(e))
      /\ TotalBytes(SlotLists(e)) \in Nat
  <2>1. /\ DOMAIN SlotLists(c) = Occ(c)
        /\ \A j \in Occ(c) : SlotLists(c)[j] = c.nodes[j].adjacency_list
    BY SlotListsFields
  <2>2. \A j \in DOMAIN SlotLists(c) : Len(SlotLists(c)[j]) \in Nat
    BY <2>1, ListLengths
  <2>3. /\ DOMAIN SlotLists(e) = DOMAIN SlotLists(c) \ {i}
        /\ \A j \in DOMAIN SlotLists(e) : SlotLists(e)[j] = SlotLists(c)[j]
    <3>1. /\ DOMAIN SlotLists(e) = Occ(e)
          /\ \A j \in Occ(e) : SlotLists(e)[j] = e.nodes[j].adjacency_list
      BY SlotListsFields
    <3>2. \A j \in Occ(e) : j \in Occ(c) /\ e.nodes[j].adjacency_list = c.nodes[j].adjacency_list
      BY <1>3 DEF SameEntry
    <3> QED
      BY <1>3, <2>1, <3>1, <3>2
  <2>4. b = EntryBytes(SlotLists(c)[i]) /\ i \in DOMAIN SlotLists(c)
    BY <1>1, <2>1 DEF b
  <2>5. IsFiniteSet(DOMAIN SlotLists(c))
    BY <1>4, <2>1
  <2>6. /\ TotalBytes(SlotLists(c)) = EntryBytes(SlotLists(c)[i]) + TotalBytes(SlotLists(e))
        /\ TotalBytes(SlotLists(e)) \in Nat
    BY <2>2, <2>3, <2>4, <2>5, BytesWithout
  <2> QED
    BY <2>4, <2>6
<1>7. c.current_bytes = b + TotalBytes(Contents(e)) /\ c.current_bytes = b + TotalBytes(SlotLists(e))
  BY <1>5, <1>6 DEF Weighed
<1>8. e.current_bytes = TotalBytes(Contents(e)) /\ e.current_bytes = TotalBytes(SlotLists(e))
  BY <1>2, <1>3, <1>5, <1>6, <1>7
<1>9. ByteCapacity = 0 \/ e.current_bytes <= ByteCapacity
  BY <1>5, <1>7, <1>8, CacheAssumption DEF Weighed
<1>10. Cardinality(DOMAIN e.locations) <= Capacity
  <2>1. /\ Cardinality(DOMAIN e.locations) <= Cardinality(DOMAIN c.locations)
        /\ Cardinality(DOMAIN c.locations) \in Nat /\ Cardinality(DOMAIN e.locations) \in Nat
    BY <1>1, <1>4, FS_Subset, FS_CardinalityType
  <2> QED
    BY <2>1, CacheAssumption DEF Weighed
<1> QED
  BY <1>8, <1>9, <1>10 DEF Weighed

LEMMA ListingWithout ==
    ASSUME NEW S, NEW list, Listing(list, S), NEW u
    PROVE  Listing(Without(list, u), S \ {u})
<1>1. list \in Seq(CacheUsers) /\ IsInjective(list) /\ ToSet(list) = S
  BY DEF Listing
<1>2. /\ Without(list, u) \in Seq(CacheUsers) /\ ToSet(Without(list, u)) = ToSet(list) \ {u}
      /\ IsInjective(Without(list, u))
  BY <1>1, WithoutOther
<1> QED
  BY <1>1, <1>2 DEF Listing

LEMMA ListingAppend ==
    ASSUME NEW S, NEW list, Listing(list, S), NEW u \in CacheUsers \ S
    PROVE  Listing(Append(list, u), S \cup {u})
<1>1. list \in Seq(CacheUsers) /\ IsInjective(list) /\ ToSet(list) = S
  BY DEF Listing
<1>2. /\ Append(list, u) \in Seq(CacheUsers) /\ ToSet(Append(list, u)) = ToSet(list) \cup {u}
      /\ IsInjective(Append(list, u))
  BY <1>1, AppendFresh
<1> QED
  BY <1>1, <1>2 DEF Listing

LEMMA RemovedRecorded ==
    ASSUME NEW c, Paired(c), c.nodes \in Slab, NEW h, Recorded(c, h), NEW u \in DOMAIN c.locations,
           NEW e, Removed(c, c.locations[u], e)
    PROVE  Recorded(e, Forgotten(h, u))
<1> DEFINE g == Forgotten(h, u)
<1>1. /\ DOMAIN e.locations = DOMAIN c.locations \ {u}
      /\ \A v \in DOMAIN e.locations :
             SameEntry(c.nodes[c.locations[v]], e.nodes[e.locations[v]])
  BY RemovedPaired
<1>2. /\ g = [byUse |-> Without(h.byUse, u), byInsertion |-> Without(h.byInsertion, u),
              uses |-> Drop(h.uses, u)]
      /\ g.byUse = Without(h.byUse, u) /\ g.byInsertion = Without(h.byInsertion, u)
      /\ g.uses = Drop(h.uses, u)
  BY DEF Forgotten
<1> HIDE DEF g
<1>3. /\ Listing(h.byUse, DOMAIN c.locations) /\ Listing(h.byInsertion, DOMAIN c.locations)
      /\ h.uses = [v \in DOMAIN c.locations |-> c.nodes[c.locations[v]].frequency]
  BY DEF Recorded
<1>4. Listing(g.byUse, DOMAIN e.locations) /\ Listing(g.byInsertion, DOMAIN e.locations)
  BY <1>1, <1>2, <1>3, ListingWithout
<1>5. Drop(h.uses, u) = [v \in DOMAIN e.locations |-> e.nodes[e.locations[v]].frequency]
  <2>1. Drop(h.uses, u) = [v \in DOMAIN h.uses \ {u} |-> h.uses[v]]
    BY DropFields
  <2>2. /\ DOMAIN h.uses = DOMAIN c.locations
        /\ \A v \in DOMAIN c.locations : h.uses[v] = c.nodes[c.locations[v]].frequency
    BY <1>3
  <2>3. \A v \in DOMAIN e.locations : h.uses[v] = e.nodes[e.locations[v]].frequency
    BY <1>1, <2>2 DEF SameEntry
  <2> QED
    BY <1>1, <2>1, <2>2, <2>3
<1> QED
  BY <1>2, <1>4, <1>5 DEF Recorded, g

\* What is left of a list is in the order it was in.
LEMMA WithoutOrdered ==
    ASSUME NEW S, NEW list \in Seq(S), IsInjective(list), NEW u,
           NEW j \in DOMAIN Without(list, u), NEW k \in DOMAIN Without(list, u), j < k
    PROVE  \E a \in DOMAIN list, b \in DOMAIN list :
               a < b /\ list[a] = Without(list, u)[j] /\ list[b] = Without(list, u)[k]
<1> DEFINE n == Len(list)
<1>1. DOMAIN list = 1 .. n /\ n \in Nat
  OBVIOUS
<1>2. CASE u \in ToSet(list)
  <2>1. PICK p \in 1 .. n : list[p] = u
    BY <1>1, <1>2 DEF ToSet
  <2>2. /\ Without(list, list[p]) \in Seq(S) /\ Len(Without(list, list[p])) = n - 1
        /\ \A i \in 1 .. n - 1 : Without(list, list[p])[i] = list[IF i < p THEN i ELSE i + 1]
    BY WithoutMember
  <2> DEFINE J == Without(list, u)
  <2>3. /\ J \in Seq(S) /\ Len(J) = n - 1 /\ p \in Nat
        /\ \A i \in 1 .. n - 1 : J[i] = list[IF i < p THEN i ELSE i + 1]
    BY <1>1, <2>1, <2>2
  <2> HIDE DEF J, n
  <2>4. DOMAIN J = 1 .. n - 1
    BY <2>3
  <2>5. j \in 1 .. n - 1 /\ k \in 1 .. n - 1 /\ j \in Nat /\ k \in Nat
    BY <1>1, <2>4 DEF J
  <2> DEFINE a == IF j < p THEN j ELSE j + 1
             b == IF k < p THEN k ELSE k + 1
  <2>6. J[j] = list[a] /\ J[k] = list[b]
    BY <2>3, <2>5
  <2>7. a \in 1 .. n /\ b \in 1 .. n /\ a < b
    BY <1>1, <2>3, <2>5
  <2> HIDE DEF a, b
  <2> QED
    BY <1>1, <2>6, <2>7 DEF J
<1>3. CASE u \notin ToSet(list)
  BY <1>3, WithoutAbsent
<1> QED
  BY <1>2, <1>3

LEMMA WithoutStamped ==
    ASSUME NEW S, NEW list \in Seq(S), IsInjective(list), NEW u, NEW c,
           \A a \in DOMAIN list, b \in DOMAIN list : a < b => Stamp(c, list[a]) <= Stamp(c, list[b]),
           NEW j \in DOMAIN Without(list, u), NEW k \in DOMAIN Without(list, u), j < k
    PROVE  Stamp(c, Without(list, u)[j]) <= Stamp(c, Without(list, u)[k])
<1>1. \E a \in DOMAIN list, b \in DOMAIN list :
          a < b /\ list[a] = Without(list, u)[j] /\ list[b] = Without(list, u)[k]
  BY WithoutOrdered
<1> QED
  BY <1>1

LEMMA RemovedStamped ==
    ASSUME NEW c, Paired(c), c.nodes \in Slab, NEW h, Recorded(c, h), Stamped(c, h),
           NEW u \in DOMAIN c.locations, NEW e, Removed(c, c.locations[u], e)
    PROVE  Stamped(e, Forgotten(h, u))
<1> DEFINE J == Without(h.byUse, u)
<1>1. /\ DOMAIN e.locations = DOMAIN c.locations \ {u}
      /\ \A v \in DOMAIN e.locations :
             SameEntry(c.nodes[c.locations[v]], e.nodes[e.locations[v]])
  BY RemovedPaired
<1>2. \A v \in DOMAIN e.locations : Stamp(e, v) = Stamp(c, v)
  BY <1>1 DEF SameEntry, Stamp
<1>3. e.sequence = c.sequence
  BY DEF Removed
<1>4. \A v \in DOMAIN e.locations : Stamp(e, v) <= e.sequence
  BY <1>1, <1>2, <1>3 DEF Stamped
<1>5. Forgotten(h, u).byUse = J
  BY DEF Forgotten
<1>6. Listing(h.byUse, DOMAIN c.locations)
  BY DEF Recorded
<1>7. Listing(J, DOMAIN e.locations)
  BY <1>1, <1>6, ListingWithout
<1>8. h.byUse \in Seq(CacheUsers) /\ IsInjective(h.byUse) /\ ToSet(J) = DOMAIN e.locations
  BY <1>6, <1>7 DEF Listing
<1> HIDE DEF J
<1>9. ASSUME NEW j \in DOMAIN J, NEW k \in DOMAIN J, j < k
      PROVE  Stamp(e, J[j]) <= Stamp(e, J[k])
  <2>1. \E a \in DOMAIN h.byUse, b \in DOMAIN h.byUse :
            a < b /\ h.byUse[a] = J[j] /\ h.byUse[b] = J[k]
    BY <1>8, <1>9, WithoutOrdered DEF J
  <2>2. J[j] \in DOMAIN e.locations /\ J[k] \in DOMAIN e.locations
    BY <1>8 DEF ToSet
  <2>3. Stamp(c, J[j]) <= Stamp(c, J[k])
    BY <2>1 DEF Stamped
  <2> QED
    BY <1>2, <2>2, <2>3
<1> QED
  BY <1>4, <1>5, <1>9 DEF Stamped

\* remove_node keeps everything in step.
LEMMA RemoveSound ==
    ASSUME NEW c, NEW h, Sound(c, h), NEW u \in DOMAIN c.locations
    PROVE  /\ Sound(RemoveNode(c, c.locations[u]), Forgotten(h, u))
           /\ RemoveNode(c, c.locations[u]).policy = c.policy
           /\ DOMAIN RemoveNode(c, c.locations[u]).locations = DOMAIN c.locations \ {u}
           /\ Contents(RemoveNode(c, c.locations[u])) = Drop(Contents(c), u)
<1> DEFINE i == c.locations[u]
           e == RemoveNode(c, i)
           g == Forgotten(h, u)
           list == Order(c, h)
           I == Positions(c, list)
<1>1. /\ Fields(c) /\ c.nodes \in Slab /\ Paired(c) /\ Freed(c) /\ Weighed(c) /\ Keyed(c)
      /\ Recorded(c, h) /\ Stamped(c, h) /\ Linked(c, I)
      /\ c.policy \in Policies /\ c.sequence \in 0 .. MaxCounter
  BY DEF Sound, Typed
<1>2. Listing(list, DOMAIN c.locations)
  BY <1>1 DEF Recorded, Order
<1>3. ToSet(I) = Occ(c)
  BY <1>1, <1>2, PositionsList
<1>4. i \in Occ(c)
  BY <1>1 DEF Paired
<1>5. Removed(c, i, e) /\ Linked(e, Without(I, i))
  BY <1>1, <1>3, <1>4, RemoveNodeRemoves
<1>6. Removed(c, c.locations[u], e)
  BY <1>5
<1> HIDE DEF e
<1>7. /\ Paired(e) /\ DOMAIN e.locations = DOMAIN c.locations \ {u}
      /\ \A v \in DOMAIN e.locations : e.locations[v] = c.locations[v]
      /\ Contents(e) = Drop(Contents(c), u)
  BY <1>1, <1>6, RemovedPaired
<1>8. Fields(e) /\ e.policy = c.policy /\ e.sequence = c.sequence /\ e.nodes \in Slab
  BY <1>5 DEF Removed
<1>9. Freed(e) /\ Keyed(e)
  BY <1>1, <1>4, <1>5, RemovedFreed, RemovedKeyed
<1>10. Weighed(e)
  BY <1>1, <1>6, RemovedWeighed
<1>11. Recorded(e, g)
  BY <1>1, <1>6, RemovedRecorded
<1>12. Stamped(e, g)
  BY <1>1, <1>6, RemovedStamped
<1>13. Order(e, g) = Without(list, u)
  BY <1>8 DEF Order, Forgotten
<1>14. Positions(e, Order(e, g)) = Without(I, i)
  <2> DEFINE J == Without(list, u)
  <2>1. Positions(c, J) = Without(I, i)
    BY <1>1, <1>2, PositionsWithout
  <2>2. ToSet(J) = DOMAIN e.locations
    BY <1>2, <1>7, ListingWithout DEF Listing
  <2> HIDE DEF J
  <2>3. \A k \in DOMAIN J : e.locations[J[k]] = c.locations[J[k]]
    BY <1>7, <2>2 DEF ToSet
  <2>4. Positions(e, J) = Positions(c, J)
    BY <2>3 DEF Positions
  <2> QED
    BY <1>13, <2>1, <2>4 DEF J
<1>15. Linked(e, Positions(e, Order(e, g)))
  BY <1>5, <1>14
<1>16. Sound(e, g)
  BY <1>1, <1>7, <1>8, <1>9, <1>10, <1>11, <1>12, <1>15 DEF Sound, Typed
<1> QED
  BY <1>7, <1>8, <1>16 DEF e

-----------------------------------------------------------------------------
(* A hit *)

LEMMA BumpNumber ==
    /\ \A n \in 0 .. MaxCounter : Bump(n) \in 0 .. MaxCounter /\ n <= Bump(n)
    /\ \A n \in 1 .. MaxCounter : Bump(n) \in 1 .. MaxCounter
  BY SlabAssumption DEF Bump

\* Two nodes hold the same list of the same user, in links that are the same.
SameHolding(x, y) ==
    /\ y.user_id = x.user_id /\ y.adjacency_list = x.adjacency_list /\ y.bytes = x.bytes
    /\ y.inserted_at = x.inserted_at

LEMMA UsedNode ==
    ASSUME NEW x \in Node, NEW s \in 0 .. MaxCounter
    PROVE  /\ Used(x, s) \in Node /\ SameHolding(x, Used(x, s))
           /\ Used(x, s).previous = x.previous /\ Used(x, s).next = x.next
           /\ Used(x, s).frequency = Bump(x.frequency) /\ Used(x, s).last_accessed_at = s
<1> DEFINE f == Bump(x.frequency)
           y == [user_id |-> x.user_id, adjacency_list |-> x.adjacency_list, bytes |-> x.bytes,
                 frequency |-> f, inserted_at |-> x.inserted_at,
                 last_accessed_at |-> s, previous |-> x.previous, next |-> x.next]
<1>1. f \in 1 .. MaxCounter
  BY BumpNumber DEF Node
<1>2. Used(x, s) = [x EXCEPT !.frequency = f, !.last_accessed_at = s]
  BY DEF Used
<1> HIDE DEF f
<1>3. Used(x, s) = y
  BY <1>2 DEF Node
<1>4. y \in Node
  BY <1>1 DEF Node
<1> QED
  BY <1>3, <1>4 DEF f, SameHolding

\* c with the use of slot i counted.
Counted(c, i) == [Unindexed(c, i) EXCEPT !.nodes[i] = Used(@, c.sequence), !.sequence = Bump(@)]

LEMMA TouchedCounted ==
    ASSUME NEW c, NEW i
    PROVE  Touched(c, i) = IF c.policy = "Lru" THEN AttachAsMostRecent(Detach(Counted(c, i), i), i)
                           ELSE Indexed(Counted(c, i), i)
  BY DEF Touched, Counted

\* d is c with the use of slot i counted, links and index aside.
Reused(c, i, d) ==
    /\ Fields(d)
    /\ d.policy = c.policy /\ d.current_bytes = c.current_bytes
    /\ d.sequence = Bump(c.sequence)
    /\ d.locations = c.locations /\ d.free_indices = c.free_indices
    /\ d.nodes \in Slab /\ Len(d.nodes) = Len(c.nodes) /\ DOMAIN d.nodes = DOMAIN c.nodes
    /\ Occ(d) = Occ(c)
    /\ \A j \in Occ(c) \ {i} : SameEntry(c.nodes[j], d.nodes[j])
    /\ SameHolding(c.nodes[i], d.nodes[i])
    /\ d.nodes[i].frequency = Bump(c.nodes[i].frequency)
    /\ d.nodes[i].last_accessed_at = c.sequence

LEMMA CountedReused ==
    ASSUME NEW c, Fields(c), c.nodes \in Slab, c.sequence \in 0 .. MaxCounter, NEW i \in Occ(c),
           NEW I, Linked(c, I)
    PROVE  /\ Reused(c, i, Counted(c, i)) /\ Linked(Counted(c, i), I)
           /\ Counted(c, i).lfu_index =
                  IF c.policy = "Lfu" THEN c.lfu_index \ {LfuKey(c, i)} ELSE c.lfu_index
<1> DEFINE b == Unindexed(c, i)
           d == Counted(c, i)
           x == c.nodes[i]
           y == Used(x, c.sequence)
           nodes == [c.nodes EXCEPT ![i] = y]
           sequence == Bump(c.sequence)
<1>1. /\ Fields(b)
      /\ b.policy = c.policy /\ b.current_bytes = c.current_bytes /\ b.sequence = c.sequence
      /\ b.lfu_index = IF c.policy = "Lfu" THEN c.lfu_index \ {LfuKey(c, i)} ELSE c.lfu_index
      /\ b.locations = c.locations /\ b.nodes = c.nodes /\ b.free_indices = c.free_indices
      /\ b.head = c.head /\ b.tail = c.tail
  BY UnindexedFields
<1>2. x \in Node /\ i \in DOMAIN c.nodes /\ i \in Nat
  BY OccupiedNode DEF Occ, Slab
<1>3. d = [b EXCEPT !.nodes = nodes, !.sequence = sequence]
  BY <1>1 DEF Counted
<1>4. /\ y \in Node /\ SameHolding(x, y) /\ y.previous = x.previous /\ y.next = x.next
      /\ y.frequency = Bump(x.frequency) /\ y.last_accessed_at = c.sequence
  BY <1>2, UsedNode
<1> HIDE DEF b, d, y, x, sequence
<1>5. /\ nodes \in Slab /\ Len(nodes) = Len(c.nodes) /\ DOMAIN nodes = DOMAIN c.nodes
      /\ nodes[i] = y /\ \A j \in DOMAIN c.nodes \ {i} : nodes[j] = c.nodes[j]
  <2>1. c.nodes \in Seq(Node \cup {NoNode}) /\ y \in Node \cup {NoNode} /\ i \in 1 .. Len(c.nodes)
    BY <1>2, <1>4 DEF Slab
  <2>2. nodes \in Seq(Node \cup {NoNode}) /\ Len(nodes) = Len(c.nodes)
    BY <2>1, ExceptSeq
  <2> QED
    BY <1>2, <2>2 DEF Slab
<1> HIDE DEF nodes
<1>6. d = [policy |-> b.policy, current_bytes |-> b.current_bytes, sequence |-> sequence,
           lfu_index |-> b.lfu_index, locations |-> b.locations, nodes |-> nodes,
           free_indices |-> b.free_indices, head |-> b.head, tail |-> b.tail]
  BY <1>1, <1>3 DEF Fields
<1>7. /\ d.policy = b.policy /\ d.current_bytes = b.current_bytes /\ d.sequence = sequence
      /\ d.lfu_index = b.lfu_index /\ d.locations = b.locations /\ d.nodes = nodes
      /\ d.free_indices = b.free_indices /\ d.head = b.head /\ d.tail = b.tail
  BY <1>6
<1>8. Fields(d)
  BY <1>6, <1>7 DEF Fields
<1>9. Occ(d) = Occ(c)
  <2>1. y # NoNode
    BY <1>4, NodesOK
  <2>2. c.nodes[i] # NoNode
    BY DEF Occ
  <2> QED
    BY <1>2, <1>5, <1>7, <2>1, <2>2 DEF Occ
<1>10. \A j \in Occ(c) \ {i} : d.nodes[j] = c.nodes[j]
  BY <1>5, <1>7 DEF Occ
<1>11. Reused(c, i, d)
  <2>1. \A j \in Occ(c) \ {i} : SameEntry(c.nodes[j], d.nodes[j])
    BY <1>10 DEF SameEntry
  <2>2. d.nodes[i] = y
    BY <1>5, <1>7
  <2> QED
    BY <1>1, <1>4, <1>5, <1>7, <1>8, <1>9, <2>1, <2>2 DEF Reused, x, sequence
<1>12. Linked(d, I)
  <2>1. \A k \in DOMAIN I : I[k] \in DOMAIN c.nodes
    BY LinkTypes
  <2>2. \A j \in DOMAIN c.nodes : /\ d.nodes[j].previous = c.nodes[j].previous
                                  /\ d.nodes[j].next = c.nodes[j].next
    BY <1>4, <1>5, <1>7 DEF x
  <2>3. /\ DOMAIN c.nodes \subseteq DOMAIN d.nodes /\ d.head = c.head /\ d.tail = c.tail
        /\ \A k \in DOMAIN I : /\ d.nodes[I[k]].previous = c.nodes[I[k]].previous
                               /\ d.nodes[I[k]].next = c.nodes[I[k]].next
    BY <1>1, <1>5, <1>7, <2>1, <2>2
  <2> QED
    BY <2>3, LinkedAlike
<1> QED
  BY <1>1, <1>7, <1>11, <1>12 DEF d

LEMMA ReusedRelinked ==
    ASSUME NEW c, NEW i \in Occ(c), NEW d, Reused(c, i, d), NEW e, Relinked(d, e)
    PROVE  Reused(c, i, e) /\ e.lfu_index = d.lfu_index
<1>1. /\ Fields(e)
      /\ e.policy = d.policy /\ e.current_bytes = d.current_bytes /\ e.sequence = d.sequence
      /\ e.lfu_index = d.lfu_index /\ e.locations = d.locations /\ e.free_indices = d.free_indices
      /\ e.nodes \in Slab /\ Len(e.nodes) = Len(d.nodes) /\ DOMAIN e.nodes = DOMAIN d.nodes
      /\ Occ(e) = Occ(d)
      /\ \A j \in Occ(d) : SameEntry(d.nodes[j], e.nodes[j])
  BY DEF Relinked
<1>2. /\ d.policy = c.policy /\ d.current_bytes = c.current_bytes
      /\ d.sequence = Bump(c.sequence)
      /\ d.locations = c.locations /\ d.free_indices = c.free_indices
      /\ Len(d.nodes) = Len(c.nodes) /\ DOMAIN d.nodes = DOMAIN c.nodes
      /\ Occ(d) = Occ(c)
      /\ \A j \in Occ(c) \ {i} : SameEntry(c.nodes[j], d.nodes[j])
      /\ SameHolding(c.nodes[i], d.nodes[i])
      /\ d.nodes[i].frequency = Bump(c.nodes[i].frequency)
      /\ d.nodes[i].last_accessed_at = c.sequence
  BY DEF Reused
<1>3. \A j \in Occ(c) \ {i} : SameEntry(c.nodes[j], e.nodes[j])
  BY <1>1, <1>2 DEF SameEntry
<1>4. /\ SameHolding(c.nodes[i], e.nodes[i])
      /\ e.nodes[i].frequency = Bump(c.nodes[i].frequency)
      /\ e.nodes[i].last_accessed_at = c.sequence
  BY <1>1, <1>2 DEF SameEntry, SameHolding
<1> QED
  BY <1>1, <1>2, <1>3, <1>4 DEF Reused

\* A hit moves the slot to the end of the list under LRU and re-indexes it under LFU.
LEMMA TouchedReused ==
    ASSUME NEW c, Fields(c), c.nodes \in Slab, c.sequence \in 0 .. MaxCounter, NEW i \in Occ(c),
           NEW I, Linked(c, I), ToSet(I) = Occ(c)
    PROVE  /\ Reused(c, i, Touched(c, i))
           /\ Linked(Touched(c, i), IF c.policy = "Lru" THEN Append(Without(I, i), i) ELSE I)
           /\ Touched(c, i).lfu_index =
                  IF c.policy = "Lfu"
                  THEN (c.lfu_index \ {LfuKey(c, i)}) \cup {LfuKey(Touched(c, i), i)}
                  ELSE c.lfu_index
<1> DEFINE b == Counted(c, i)
           e == Touched(c, i)
           J == Without(I, i)
<1>1. /\ Reused(c, i, b) /\ Linked(b, I)
      /\ b.lfu_index = IF c.policy = "Lfu" THEN c.lfu_index \ {LfuKey(c, i)} ELSE c.lfu_index
  BY CountedReused
<1>2. e = IF c.policy = "Lru" THEN AttachAsMostRecent(Detach(b, i), i) ELSE Indexed(b, i)
  BY TouchedCounted
<1> HIDE DEF b, e
<1>3. Fields(b) /\ b.nodes \in Slab /\ Occ(b) = Occ(c) /\ b.policy = c.policy
  BY <1>1 DEF Reused
<1>4. CASE c.policy = "Lru"
  <2> DEFINE d == Detach(b, i)
  <2>1. Relinked(b, d) /\ Linked(d, J)
    BY <1>1, <1>3, DetachLinked
  <2>2. IsInjective(I) /\ I \in Seq(DOMAIN c.nodes)
    BY DEF Linked
  <2>3. ToSet(J) = Occ(c) \ {i}
    BY <2>2, WithoutOther
  <2> HIDE DEF d, J
  <2>4. Reused(c, i, d) /\ d.lfu_index = b.lfu_index
    BY <1>1, <2>1, ReusedRelinked
  <2>5. Fields(d) /\ d.nodes \in Slab /\ Occ(d) = Occ(c)
    BY <2>4 DEF Reused
  <2>6. ToSet(J) \subseteq Occ(d) /\ i \in Occ(d) \ ToSet(J)
    BY <2>3, <2>5
  <2>7. Relinked(d, AttachAsMostRecent(d, i)) /\ Linked(AttachAsMostRecent(d, i), Append(J, i))
    BY <2>1, <2>5, <2>6, AttachLinked
  <2>8. e = AttachAsMostRecent(d, i)
    BY <1>2, <1>4 DEF d
  <2>9. Relinked(d, e) /\ Linked(e, Append(J, i))
    BY <2>7, <2>8
  <2>10. Reused(c, i, e) /\ e.lfu_index = d.lfu_index
    BY <2>4, <2>9, ReusedRelinked
  <2> QED
    BY <1>1, <1>4, <2>4, <2>9, <2>10 DEF e, J
<1>5. CASE c.policy # "Lru"
  <2>1. e = Indexed(b, i)
    BY <1>2, <1>5
  <2>2. /\ Fields(Indexed(b, i))
        /\ Indexed(b, i).policy = b.policy
        /\ Indexed(b, i).current_bytes = b.current_bytes
        /\ Indexed(b, i).sequence = b.sequence
        /\ Indexed(b, i).lfu_index =
               IF b.policy = "Lfu" THEN b.lfu_index \cup {LfuKey(b, i)} ELSE b.lfu_index
        /\ Indexed(b, i).locations = b.locations
        /\ Indexed(b, i).nodes = b.nodes
        /\ Indexed(b, i).free_indices = b.free_indices
        /\ Indexed(b, i).head = b.head /\ Indexed(b, i).tail = b.tail
    BY <1>3, IndexedFields
  <2>3. /\ Fields(e)
        /\ e.policy = b.policy /\ e.current_bytes = b.current_bytes /\ e.sequence = b.sequence
        /\ e.lfu_index = IF b.policy = "Lfu" THEN b.lfu_index \cup {LfuKey(b, i)} ELSE b.lfu_index
        /\ e.locations = b.locations /\ e.nodes = b.nodes /\ e.free_indices = b.free_indices
        /\ e.head = b.head /\ e.tail = b.tail
    BY <2>1, <2>2
  <2>4. Occ(e) = Occ(b)
    BY <2>3 DEF Occ
  <2>5. Reused(c, i, e)
    BY <1>1, <2>3, <2>4 DEF Reused
  <2>6. Linked(e, I)
    BY <1>1, <2>3 DEF Linked
  <2>7. LfuKey(e, i) = LfuKey(b, i)
    BY <2>3 DEF LfuKey
  <2>8. e.lfu_index = IF c.policy = "Lfu"
                      THEN (c.lfu_index \ {LfuKey(c, i)}) \cup {LfuKey(e, i)} ELSE c.lfu_index
    BY <1>1, <1>3, <2>3, <2>7
  <2> QED
    BY <1>5, <2>5, <2>6, <2>8 DEF e
<1> QED
  BY <1>4, <1>5

\* The listed users are those of h, with u moved to the end.
LEMMA ListingMoved ==
    ASSUME NEW S, NEW list, Listing(list, S), NEW u \in S, u \in CacheUsers
    PROVE  Listing(Append(Without(list, u), u), S)
<1>1. Listing(Without(list, u), S \ {u})
  BY ListingWithout
<1>2. Listing(Append(Without(list, u), u), (S \ {u}) \cup {u})
  BY <1>1, ListingAppend
<1>3. (S \ {u}) \cup {u} = S
  OBVIOUS
<1> QED
  BY <1>2, <1>3

LEMMA NotedHitFields ==
    ASSUME NEW c, NEW h, Recorded(c, h), NEW u \in DOMAIN c.locations
    PROVE  /\ NotedHit(h, u) = [byUse |-> NotedHit(h, u).byUse,
                                byInsertion |-> NotedHit(h, u).byInsertion,
                                uses |-> NotedHit(h, u).uses]
           /\ NotedHit(h, u).byUse = Append(Without(h.byUse, u), u)
           /\ NotedHit(h, u).byInsertion = h.byInsertion
           /\ NotedHit(h, u).uses = [h.uses EXCEPT ![u] = Bump(@)]
<1> DEFINE list == Append(Without(h.byUse, u), u)
           uses == [h.uses EXCEPT ![u] = Bump(@)]
           g == NotedHit(h, u)
<1>1. h = [byUse |-> h.byUse, byInsertion |-> h.byInsertion, uses |-> h.uses]
  BY DEF Recorded
<1>2. g = [h EXCEPT !.byUse = list, !.uses = uses]
  BY DEF NotedHit
<1> HIDE DEF list, uses, g
<1>3. g = [byUse |-> list, byInsertion |-> h.byInsertion, uses |-> uses]
  BY <1>1, <1>2
<1> QED
  BY <1>3 DEF list, uses, g

LEMMA ReusedPaired ==
    ASSUME NEW c, Paired(c), c.nodes \in Slab, NEW u \in DOMAIN c.locations,
           NEW e, Reused(c, c.locations[u], e)
    PROVE  /\ Paired(e) /\ Contents(e) = Contents(c) /\ SlotLists(e) = SlotLists(c)
           /\ \A j \in Occ(c) : SameHolding(c.nodes[j], e.nodes[j])
<1> DEFINE i == c.locations[u]
<1>1. /\ e.locations = c.locations /\ Occ(e) = Occ(c)
      /\ \A j \in Occ(c) \ {i} : SameEntry(c.nodes[j], e.nodes[j])
      /\ SameHolding(c.nodes[i], e.nodes[i])
  BY DEF Reused
<1> HIDE DEF i
<1>2. \A j \in Occ(c) : SameHolding(c.nodes[j], e.nodes[j])
  BY <1>1 DEF SameEntry, SameHolding
<1>3. Paired(e)
  <2>1. DOMAIN e.locations \subseteq CacheUsers
    BY <1>1 DEF Paired
  <2>2. ASSUME NEW j \in Occ(e)
        PROVE  /\ e.nodes[j].user_id \in DOMAIN e.locations
               /\ e.locations[e.nodes[j].user_id] = j
               /\ e.nodes[j].bytes = EntryBytes(e.nodes[j].adjacency_list)
    BY <1>1, <1>2 DEF Paired, SameHolding
  <2>3. ASSUME NEW v \in DOMAIN e.locations
        PROVE  e.locations[v] \in Occ(e) /\ e.nodes[e.locations[v]].user_id = v
    BY <1>1, <1>2 DEF Paired, SameHolding
  <2> QED
    BY <2>1, <2>2, <2>3 DEF Paired
<1>4. Contents(e) = Contents(c)
  <2>1. \A v \in DOMAIN c.locations :
            e.nodes[e.locations[v]].adjacency_list = c.nodes[c.locations[v]].adjacency_list
    BY <1>1, <1>2 DEF SameHolding, Paired
  <2> QED
    BY <1>1, <2>1 DEF Contents
<1>5. SlotLists(e) = SlotLists(c)
  BY <1>1, <1>2 DEF SlotLists, SameHolding
<1> QED
  BY <1>2, <1>3, <1>4, <1>5

LEMMA ReusedKeyed ==
    ASSUME NEW c, Keyed(c), NEW i \in Occ(c), NEW e, Reused(c, i, e),
           e.lfu_index = IF c.policy = "Lfu"
                         THEN (c.lfu_index \ {LfuKey(c, i)}) \cup {LfuKey(e, i)} ELSE c.lfu_index
    PROVE  Keyed(e)
<1>1. /\ Occ(e) = Occ(c) /\ e.policy = c.policy
      /\ \A j \in Occ(c) \ {i} : SameEntry(c.nodes[j], e.nodes[j])
  BY DEF Reused
<1>2. CASE c.policy = "Lfu"
  <2>1. c.lfu_index = {LfuKey(c, j) : j \in Occ(c)}
    BY <1>2 DEF Keyed
  <2>2. \A j \in Occ(c) \ {i} : LfuKey(e, j) = LfuKey(c, j)
    BY <1>1, SameKey
  <2>3. \A j \in Occ(c) \ {i} : LfuKey(c, j) # LfuKey(c, i)
    BY KeysDiffer
  <2>4. {LfuKey(c, j) : j \in Occ(c)} \ {LfuKey(c, i)} = {LfuKey(e, j) : j \in Occ(c) \ {i}}
    BY <2>2, <2>3
  <2>5. {LfuKey(e, j) : j \in Occ(c) \ {i}} \cup {LfuKey(e, i)} = {LfuKey(e, j) : j \in Occ(c)}
    OBVIOUS
  <2> QED
    BY <1>1, <1>2, <2>1, <2>4, <2>5 DEF Keyed
<1>3. CASE c.policy # "Lfu"
  BY <1>1, <1>3 DEF Keyed
<1> QED
  BY <1>2, <1>3

LEMMA ReusedRecorded ==
    ASSUME NEW c, Paired(c), c.nodes \in Slab, NEW h, Recorded(c, h), NEW u \in DOMAIN c.locations,
           NEW e, Reused(c, c.locations[u], e)
    PROVE  Recorded(e, NotedHit(h, u))
<1> DEFINE g == NotedHit(h, u)
           i == c.locations[u]
<1>1. /\ e.locations = c.locations /\ Occ(e) = Occ(c)
      /\ \A j \in Occ(c) \ {i} : SameEntry(c.nodes[j], e.nodes[j])
      /\ e.nodes[i].frequency = Bump(c.nodes[i].frequency)
  BY DEF Reused
<1>2. /\ g = [byUse |-> g.byUse, byInsertion |-> g.byInsertion, uses |-> g.uses]
      /\ g.byUse = Append(Without(h.byUse, u), u) /\ g.byInsertion = h.byInsertion
      /\ g.uses = [h.uses EXCEPT ![u] = Bump(@)]
  BY NotedHitFields
<1> HIDE DEF g
<1>3. /\ Listing(h.byUse, DOMAIN c.locations) /\ Listing(h.byInsertion, DOMAIN c.locations)
      /\ h.uses = [v \in DOMAIN c.locations |-> c.nodes[c.locations[v]].frequency]
  BY DEF Recorded
<1>4. u \in CacheUsers
  BY DEF Paired
<1>5. Listing(g.byUse, DOMAIN c.locations)
  BY <1>2, <1>3, <1>4, ListingMoved
<1>6. \A v \in DOMAIN c.locations :
          e.nodes[c.locations[v]].frequency =
              IF v = u THEN Bump(c.nodes[i].frequency) ELSE c.nodes[c.locations[v]].frequency
  BY <1>1 DEF Paired, SameEntry
<1>7. g.uses = [v \in DOMAIN c.locations |-> e.nodes[c.locations[v]].frequency]
  <2>1. g.uses = [v \in DOMAIN c.locations |-> IF v = u THEN Bump(h.uses[u]) ELSE h.uses[v]]
    BY <1>2, <1>3
  <2>2. h.uses[u] = c.nodes[i].frequency
        /\ \A v \in DOMAIN c.locations : h.uses[v] = c.nodes[c.locations[v]].frequency
    BY <1>3
  <2> HIDE DEF i
  <2>3. \A v \in DOMAIN c.locations :
            (IF v = u THEN Bump(h.uses[u]) ELSE h.uses[v]) = e.nodes[c.locations[v]].frequency
    BY <1>6, <2>2
  <2> QED
    BY <2>1, <2>3
<1> QED
  BY <1>1, <1>2, <1>3, <1>5, <1>7 DEF Recorded, g

LEMMA ReusedStamped ==
    ASSUME NEW c, Paired(c), c.nodes \in Slab, c.sequence \in 0 .. MaxCounter,
           NEW h, Recorded(c, h), Stamped(c, h), NEW u \in DOMAIN c.locations,
           NEW e, Reused(c, c.locations[u], e)
    PROVE  Stamped(e, NotedHit(h, u))
<1> DEFINE i == c.locations[u]
           J == Without(h.byUse, u)
           n == Len(J)
<1>1. /\ e.locations = c.locations /\ Occ(e) = Occ(c) /\ e.sequence = Bump(c.sequence)
      /\ \A j \in Occ(c) \ {i} : SameEntry(c.nodes[j], e.nodes[j])
      /\ e.nodes[i].last_accessed_at = c.sequence
  BY DEF Reused
<1>2. NotedHit(h, u).byUse = Append(J, u)
  <2>1. /\ NotedHit(h, u) = [byUse |-> NotedHit(h, u).byUse,
                               byInsertion |-> NotedHit(h, u).byInsertion,
                               uses |-> NotedHit(h, u).uses]
        /\ NotedHit(h, u).byUse = Append(Without(h.byUse, u), u)
        /\ NotedHit(h, u).byInsertion = h.byInsertion
        /\ NotedHit(h, u).uses = [h.uses EXCEPT ![u] = Bump(@)]
    BY NotedHitFields
  <2> QED
    BY <2>1
<1>3. \A v \in DOMAIN c.locations : Stamp(e, v) = IF v = u THEN c.sequence ELSE Stamp(c, v)
  BY <1>1 DEF Paired, SameEntry, Stamp
<1>4. \A v \in DOMAIN c.locations : Stamp(c, v) <= c.sequence /\ Stamp(c, v) \in Nat
  <2>1. \A v \in DOMAIN c.locations : Stamp(c, v) <= c.sequence
    BY DEF Stamped
  <2>2. ASSUME NEW v \in DOMAIN c.locations PROVE Stamp(c, v) \in Nat
    <3>1. c.nodes[c.locations[v]] \in Node
      BY OccupiedNode DEF Paired
    <3> QED
      BY <3>1 DEF Stamp, Node
  <2> QED
    BY <2>1, <2>2
<1>5. c.sequence \in Nat /\ Bump(c.sequence) \in Nat /\ c.sequence <= Bump(c.sequence)
  BY BumpNumber
<1>6. \A v \in DOMAIN e.locations : Stamp(e, v) <= e.sequence
  BY <1>1, <1>3, <1>4, <1>5
<1>7. Listing(h.byUse, DOMAIN c.locations)
  BY DEF Recorded
<1>8. /\ h.byUse \in Seq(CacheUsers) /\ IsInjective(h.byUse)
      /\ J \in Seq(CacheUsers) /\ ToSet(J) = DOMAIN c.locations \ {u}
  BY <1>7, ListingWithout DEF Listing
<1> HIDE DEF J, i, n
<1>9. ASSUME NEW j \in DOMAIN J, NEW k \in DOMAIN J, j < k
      PROVE  Stamp(c, J[j]) <= Stamp(c, J[k])
  <2>1. \A a \in DOMAIN h.byUse, b \in DOMAIN h.byUse :
            a < b => Stamp(c, h.byUse[a]) <= Stamp(c, h.byUse[b])
    BY DEF Stamped
  <2> QED
    BY <1>8, <1>9, <2>1, WithoutStamped DEF J
<1>10. \A k \in DOMAIN J : J[k] \in DOMAIN c.locations \ {u}
  BY <1>8 DEF ToSet
<1>11. /\ DOMAIN J = 1 .. n /\ n \in Nat
       /\ DOMAIN Append(J, u) = 1 .. n + 1 /\ Append(J, u)[n + 1] = u
       /\ \A k \in 1 .. n : Append(J, u)[k] = J[k]
  <2>1. J \in Seq(CacheUsers \cup {u})
    BY <1>8
  <2> QED
    BY <2>1, AppendProperties DEF n
<1>12. ASSUME NEW j \in DOMAIN Append(J, u), NEW k \in DOMAIN Append(J, u), j < k
       PROVE  Stamp(e, Append(J, u)[j]) <= Stamp(e, Append(J, u)[k])
  <2>1. j \in 1 .. n
    BY <1>11, <1>12
  <2>2. Stamp(e, Append(J, u)[j]) = Stamp(c, J[j]) /\ J[j] \in DOMAIN c.locations
    BY <1>3, <1>10, <1>11, <2>1
  <2>3. CASE k = n + 1
    <3>1. Stamp(e, Append(J, u)[k]) = c.sequence
      BY <1>3, <1>11, <2>3
    <3> QED
      BY <1>4, <2>2, <3>1
  <2>4. CASE k \in 1 .. n
    <3>1. Stamp(e, Append(J, u)[k]) = Stamp(c, J[k])
      BY <1>3, <1>10, <1>11, <2>4
    <3> QED
      BY <1>9, <1>11, <1>12, <2>1, <2>2, <2>4, <3>1
  <2> QED
    BY <1>11, <2>3, <2>4
<1> QED
  BY <1>2, <1>6, <1>12 DEF Stamped

\* A hit keeps everything in step.
LEMMA TouchSound ==
    ASSUME NEW c, NEW h, Sound(c, h), NEW u \in DOMAIN c.locations
    PROVE  /\ Sound(Touched(c, c.locations[u]), NotedHit(h, u))
           /\ Touched(c, c.locations[u]).policy = c.policy
           /\ DOMAIN Touched(c, c.locations[u]).locations = DOMAIN c.locations
           /\ Contents(Touched(c, c.locations[u])) = Contents(c)
<1> DEFINE i == c.locations[u]
           e == Touched(c, i)
           g == NotedHit(h, u)
           list == Order(c, h)
           I == Positions(c, list)
<1>1. /\ Fields(c) /\ c.nodes \in Slab /\ Paired(c) /\ Freed(c) /\ Weighed(c) /\ Keyed(c)
      /\ Recorded(c, h) /\ Stamped(c, h) /\ Linked(c, I)
      /\ c.policy \in Policies /\ c.sequence \in 0 .. MaxCounter
  BY DEF Sound, Typed
<1>2. Listing(list, DOMAIN c.locations)
  BY <1>1 DEF Recorded, Order
<1>3. ToSet(I) = Occ(c)
  BY <1>1, <1>2, PositionsList
<1>4. i \in Occ(c)
  BY <1>1 DEF Paired
<1>5. /\ Reused(c, i, e)
      /\ Linked(e, IF c.policy = "Lru" THEN Append(Without(I, i), i) ELSE I)
      /\ e.lfu_index = IF c.policy = "Lfu"
                       THEN (c.lfu_index \ {LfuKey(c, i)}) \cup {LfuKey(e, i)} ELSE c.lfu_index
  BY <1>1, <1>3, <1>4, TouchedReused
<1>6. Reused(c, c.locations[u], e)
  BY <1>5
<1> HIDE DEF e
<1>7. Paired(e) /\ Contents(e) = Contents(c) /\ SlotLists(e) = SlotLists(c)
  BY <1>1, <1>6, ReusedPaired
<1>8. /\ Fields(e) /\ e.policy = c.policy /\ e.sequence \in 0 .. MaxCounter /\ e.nodes \in Slab
      /\ e.locations = c.locations /\ e.current_bytes = c.current_bytes
      /\ e.free_indices = c.free_indices /\ Len(e.nodes) = Len(c.nodes)
      /\ DOMAIN e.nodes = DOMAIN c.nodes /\ Occ(e) = Occ(c)
  BY <1>1, <1>5, BumpNumber DEF Reused
<1>9. Freed(e) /\ Weighed(e)
  BY <1>1, <1>7, <1>8 DEF Freed, Weighed
<1>10. Keyed(e)
  BY <1>1, <1>4, <1>5, ReusedKeyed
<1>11. Recorded(e, g)
  BY <1>1, <1>6, ReusedRecorded
<1>12. Stamped(e, g)
  BY <1>1, <1>6, ReusedStamped
<1>13. Linked(e, Positions(e, Order(e, g)))
  <2>1. g.byUse = Append(Without(h.byUse, u), u) /\ g.byInsertion = h.byInsertion
    <3>0. Recorded(c, h)
      BY <1>1
    <3> HIDE DEF g, i, list, I
    <3>1. /\ NotedHit(h, u) = [byUse |-> NotedHit(h, u).byUse,
                                 byInsertion |-> NotedHit(h, u).byInsertion,
                                 uses |-> NotedHit(h, u).uses]
          /\ NotedHit(h, u).byUse = Append(Without(h.byUse, u), u)
          /\ NotedHit(h, u).byInsertion = h.byInsertion
          /\ NotedHit(h, u).uses = [h.uses EXCEPT ![u] = Bump(@)]
      BY <3>0, NotedHitFields
    <3> QED
      BY <3>1 DEF g
  <2>2. CASE c.policy = "Lru"
    <3> DEFINE J == Without(list, u)
    <3>1. list = h.byUse /\ Order(e, g) = Append(J, u)
      BY <1>8, <2>1, <2>2 DEF Order
    <3>2. Positions(c, J) = Without(I, i)
      BY <1>1, <1>2, PositionsWithout
    <3>3. J \in Seq(CacheUsers) /\ ToSet(J) = DOMAIN c.locations \ {u}
      BY <1>2, ListingWithout DEF Listing
    <3> HIDE DEF J
    <3>4. \A k \in DOMAIN J : e.locations[J[k]] = c.locations[J[k]] /\ c.locations[J[k]] \in DOMAIN c.nodes
      BY <1>1, <1>8, <3>3 DEF ToSet, Paired, Occ
    <3>5. Positions(e, Append(J, u)) = Append(Positions(c, J), e.locations[u])
      BY <3>3, <3>4, PositionsAppend
    <3> QED
      BY <1>5, <1>8, <2>2, <3>1, <3>2, <3>5
  <2>3. CASE c.policy # "Lru"
    <3>1. Order(e, g) = list
      BY <1>8, <2>1, <2>3 DEF Order
    <3>2. Positions(e, list) = I
      BY <1>8 DEF Positions
    <3> QED
      BY <1>5, <2>3, <3>1, <3>2
  <2> QED
    BY <2>2, <2>3
<1>14. Sound(e, g)
  BY <1>1, <1>7, <1>8, <1>9, <1>10, <1>11, <1>12, <1>13 DEF Sound, Typed
<1> QED
  BY <1>7, <1>8, <1>14 DEF e

-----------------------------------------------------------------------------
(* A new entry *)

LEMMA FrontFields ==
    ASSUME NEW S, NEW list \in Seq(S), list # <<>>, IsInjective(list)
    PROVE  /\ Front(list) \in Seq(S) /\ IsInjective(Front(list))
           /\ ToSet(Front(list)) = ToSet(list) \ {Last(list)}
           /\ Last(list) \in ToSet(list)
<1> DEFINE n == Len(list)
           F == Front(list)
<1>1. n \in Nat /\ n # 0 /\ DOMAIN list = 1 .. n /\ Last(list) = list[n]
  BY EmptySeq DEF Last
<1>2. n - 1 \in Int /\ 1 \in Int /\ \A k \in 1 .. n - 1 : k \in 1 .. n
  BY <1>1
<1>3. \A k \in 1 .. n : list[k] \in S
  BY <1>1
<1>4. /\ SubSeq(list, 1, n - 1) \in Seq(S)
      /\ Len(SubSeq(list, 1, n - 1)) = IF 1 <= n - 1 THEN (n - 1) - 1 + 1 ELSE 0
      /\ \A k \in 1 .. (n - 1) - 1 + 1 : SubSeq(list, 1, n - 1)[k] = list[1 + k - 1]
  BY <1>2, <1>3, SubSeqProperties
<1>5. F = SubSeq(list, 1, n - 1)
  BY DEF Front
<1> HIDE DEF F, n
<1>6. F \in Seq(S) /\ Len(F) = n - 1 /\ \A k \in 1 .. n - 1 : F[k] = list[k]
  <2>1. (n - 1) - 1 + 1 = n - 1 /\ (1 <= n - 1 \/ n - 1 = 0) /\ \A k \in 1 .. n - 1 : 1 + k - 1 = k
    BY <1>1
  <2> QED
    BY <1>4, <1>5, <2>1
<1>7. DOMAIN F = 1 .. n - 1
  BY <1>6
<1>8. IsInjective(F)
  BY <1>1, <1>2, <1>6, <1>7 DEF IsInjective
<1>9. n \in 1 .. n /\ \A k \in 1 .. n - 1 : k # n
  BY <1>1
<1>10. ToSet(F) = ToSet(list) \ {list[n]}
  <2>1. \A k \in 1 .. n : k = n \/ k \in 1 .. n - 1
    BY <1>1
  <2>2. \A k \in 1 .. n - 1 : list[k] # list[n]
    BY <1>1, <1>2, <1>9 DEF IsInjective
  <2> QED
    BY <1>1, <1>2, <1>6, <1>7, <2>1, <2>2 DEF ToSet
<1> QED
  BY <1>1, <1>6, <1>8, <1>9, <1>10 DEF F, ToSet

NewNode(c, u, list) ==
    [user_id |-> u, adjacency_list |-> list, bytes |-> EntryBytes(list),
     frequency |-> 1, inserted_at |-> c.sequence, last_accessed_at |-> c.sequence,
     previous |-> None, next |-> None]

Slot(c) == IF c.free_indices = <<>> THEN Len(c.nodes) + 1 ELSE Last(c.free_indices)

NodesWith(c, node) ==
    IF c.free_indices = <<>> THEN Append(c.nodes, node) ELSE [c.nodes EXCEPT ![Slot(c)] = node]

FreeAfter(c) == IF c.free_indices = <<>> THEN c.free_indices ELSE Front(c.free_indices)

Placed(c, u, list) ==
    [c EXCEPT !.nodes = NodesWith(c, NewNode(c, u, list)), !.free_indices = FreeAfter(c),
              !.sequence = Bump(@), !.locations = Put(@, u, Slot(c)),
              !.current_bytes = @ + EntryBytes(list)]

LEMMA AllocatePlaces ==
    ASSUME NEW c, NEW u, NEW list
    PROVE  AllocateNode(c, u, list) =
               Indexed(AttachAsMostRecent(Placed(c, u, list), Slot(c)), Slot(c))
  BY DEF AllocateNode, Placed, Slot, NodesWith, FreeAfter, NewNode

\* A free slot, or the next one while the slab is smaller than the capacity.
LEMMA SlotFree ==
    ASSUME NEW c, c.nodes \in Slab, Paired(c), Freed(c), Cardinality(DOMAIN c.locations) < Capacity
    PROVE  /\ Slot(c) \in Nat \ {None} /\ Slot(c) \notin Occ(c)
           /\ c.free_indices = <<>> => Slot(c) = Len(c.nodes) + 1 /\ Len(c.nodes) + 1 <= Capacity
           /\ c.free_indices # <<>> => Slot(c) \in DOMAIN c.nodes
           /\ FreeAfter(c) \in Seq(Nat) /\ IsInjective(FreeAfter(c))
           /\ ToSet(FreeAfter(c)) = ToSet(c.free_indices) \ {Slot(c)}
<1>1. DOMAIN c.nodes = 1 .. Len(c.nodes) /\ Len(c.nodes) \in Nat
  BY DEF Slab
<1>2. /\ c.free_indices \in Seq(Nat) /\ IsInjective(c.free_indices)
      /\ ToSet(c.free_indices) = DOMAIN c.nodes \ Occ(c)
  BY DEF Freed
<1>3. CASE c.free_indices = <<>>
  <2>1. Slot(c) = Len(c.nodes) + 1 /\ FreeAfter(c) = c.free_indices
    BY <1>3 DEF Slot, FreeAfter
  <2>2. ToSet(c.free_indices) = {}
    BY <1>3 DEF ToSet
  <2>3. Occ(c) = 1 .. Len(c.nodes)
    BY <1>1, <1>2, <2>2 DEF Occ
  <2>4. Cardinality(1 .. Len(c.nodes)) = Len(c.nodes)
    BY <1>1, FS_Interval
  <2>5. Len(c.nodes) < Capacity
    BY <2>3, <2>4, Sizes
  <2> QED
    BY <1>1, <1>2, <1>3, <2>1, <2>2, <2>3, <2>5, CacheAssumption DEF None
<1>4. CASE c.free_indices # <<>>
  <2>1. Slot(c) = Last(c.free_indices) /\ FreeAfter(c) = Front(c.free_indices)
    BY <1>4 DEF Slot, FreeAfter
  <2>2. /\ Front(c.free_indices) \in Seq(Nat) /\ IsInjective(Front(c.free_indices))
        /\ ToSet(Front(c.free_indices)) = ToSet(c.free_indices) \ {Last(c.free_indices)}
        /\ Last(c.free_indices) \in ToSet(c.free_indices)
    BY <1>2, <1>4, FrontFields
  <2> QED
    BY <1>1, <1>2, <1>4, <2>1, <2>2 DEF None
<1> QED
  BY <1>3, <1>4

LEMMA NodesWithSlab ==
    ASSUME NEW c, c.nodes \in Slab, NEW node \in Node,
           c.free_indices = <<>> => Slot(c) = Len(c.nodes) + 1,
           c.free_indices # <<>> => Slot(c) \in DOMAIN c.nodes
    PROVE  /\ NodesWith(c, node) \in Slab
           /\ DOMAIN NodesWith(c, node) = DOMAIN c.nodes \cup {Slot(c)}
           /\ Len(NodesWith(c, node)) =
                  IF c.free_indices = <<>> THEN Len(c.nodes) + 1 ELSE Len(c.nodes)
           /\ NodesWith(c, node)[Slot(c)] = node
           /\ \A j \in DOMAIN c.nodes \ {Slot(c)} : NodesWith(c, node)[j] = c.nodes[j]
<1> DEFINE S == Node \cup {NoNode}
           n == Len(c.nodes)
<1>1. c.nodes \in Seq(S) /\ DOMAIN c.nodes = 1 .. n /\ n \in Nat /\ node \in S
  BY DEF Slab
<1> HIDE DEF S
<1>2. CASE c.free_indices = <<>>
  <2>1. NodesWith(c, node) = Append(c.nodes, node) /\ Slot(c) = n + 1
    BY <1>2 DEF NodesWith
  <2>2. /\ Append(c.nodes, node) \in Seq(S) /\ Len(Append(c.nodes, node)) = n + 1
        /\ \A j \in 1 .. n : Append(c.nodes, node)[j] = c.nodes[j]
        /\ Append(c.nodes, node)[n + 1] = node
    BY <1>1, AppendProperties
  <2>3. DOMAIN Append(c.nodes, node) = 1 .. n + 1
    BY <2>2
  <2>4. 1 .. n + 1 = 1 .. n \cup {n + 1}
    BY <1>1
  <2> QED
    BY <1>1, <1>2, <2>1, <2>2, <2>3, <2>4 DEF S, Slab
<1>3. CASE c.free_indices # <<>>
  <2> DEFINE i == Slot(c)
             N == [c.nodes EXCEPT ![i] = node]
  <2>1. NodesWith(c, node) = N /\ i \in 1 .. n
    BY <1>1, <1>3 DEF NodesWith
  <2> HIDE DEF i
  <2>2. /\ N \in Seq(S) /\ Len(N) = n /\ \A j \in 1 .. n : N[j] = IF j = i THEN node ELSE c.nodes[j]
    BY <1>1, <2>1, ExceptSeq
  <2>3. DOMAIN N = DOMAIN c.nodes
    OBVIOUS
  <2> HIDE DEF N
  <2> QED
    BY <1>1, <1>3, <2>1, <2>2, <2>3 DEF S, Slab, i
<1> QED
  BY <1>2, <1>3

LEMMA PlacedFields ==
    ASSUME NEW c, Fields(c), NEW u, NEW list
    PROVE  /\ Fields(Placed(c, u, list))
           /\ Placed(c, u, list).policy = c.policy
           /\ Placed(c, u, list).current_bytes = c.current_bytes + EntryBytes(list)
           /\ Placed(c, u, list).sequence = Bump(c.sequence)
           /\ Placed(c, u, list).lfu_index = c.lfu_index
           /\ Placed(c, u, list).locations = Put(c.locations, u, Slot(c))
           /\ Placed(c, u, list).nodes = NodesWith(c, NewNode(c, u, list))
           /\ Placed(c, u, list).free_indices = FreeAfter(c)
           /\ Placed(c, u, list).head = c.head /\ Placed(c, u, list).tail = c.tail
<1> DEFINE d == Placed(c, u, list)
           nodes == NodesWith(c, NewNode(c, u, list))
           free == FreeAfter(c)
           sequence == Bump(c.sequence)
           locations == Put(c.locations, u, Slot(c))
           bytes == c.current_bytes + EntryBytes(list)
<1>1. d = [c EXCEPT !.nodes = nodes, !.free_indices = free, !.sequence = sequence,
                    !.locations = locations, !.current_bytes = bytes]
  BY DEF Placed
<1> HIDE DEF d, nodes, free, sequence, locations, bytes
<1>2. d = [policy |-> c.policy, current_bytes |-> bytes, sequence |-> sequence,
           lfu_index |-> c.lfu_index, locations |-> locations, nodes |-> nodes,
           free_indices |-> free, head |-> c.head, tail |-> c.tail]
  BY <1>1 DEF Fields
<1>3. /\ d.policy = c.policy /\ d.current_bytes = bytes /\ d.sequence = sequence
      /\ d.lfu_index = c.lfu_index /\ d.locations = locations /\ d.nodes = nodes
      /\ d.free_indices = free /\ d.head = c.head /\ d.tail = c.tail
  BY <1>2
<1>4. Fields(d)
  BY <1>2, <1>3 DEF Fields
<1> QED
  BY <1>3, <1>4 DEF d, nodes, free, sequence, locations, bytes

\* e is c with an entry in slot i as well, links and index aside.
Added(c, u, list, e) ==
    /\ Fields(e)
    /\ e.policy = c.policy
    /\ e.current_bytes = c.current_bytes + EntryBytes(list)
    /\ e.sequence = Bump(c.sequence)
    /\ e.locations = Put(c.locations, u, Slot(c))
    /\ e.free_indices = FreeAfter(c)
    /\ e.nodes \in Slab /\ DOMAIN e.nodes = DOMAIN c.nodes \cup {Slot(c)}
    /\ Len(e.nodes) = IF c.free_indices = <<>> THEN Len(c.nodes) + 1 ELSE Len(c.nodes)
    /\ Occ(e) = Occ(c) \cup {Slot(c)}
    /\ \A j \in Occ(c) : SameEntry(c.nodes[j], e.nodes[j])
    /\ SameEntry(NewNode(c, u, list), e.nodes[Slot(c)])

LEMMA NewNodeNode ==
    ASSUME NEW c, c.sequence \in 0 .. MaxCounter, NEW u \in CacheUsers, NEW list \in CacheLists
    PROVE  NewNode(c, u, list) \in Node
<1>1. EntryBytes(list) \in Nat /\ 1 \in 1 .. MaxCounter /\ None \in Nat
  BY EntryBytesNat, SlabAssumption DEF None
<1> DEFINE b == EntryBytes(list)
<1> HIDE DEF b, None
<1> QED
  BY <1>1 DEF NewNode, Node, b

\* The new entry comes last in the list.
LEMMA AllocateAdds ==
    ASSUME NEW c, Fields(c), c.nodes \in Slab, Paired(c), Freed(c), c.sequence \in 0 .. MaxCounter,
           Cardinality(DOMAIN c.locations) < Capacity,
           NEW I, Linked(c, I), ToSet(I) = Occ(c),
           NEW u \in CacheUsers, NEW list \in CacheLists
    PROVE  /\ Added(c, u, list, AllocateNode(c, u, list))
           /\ Linked(AllocateNode(c, u, list), Append(I, Slot(c)))
           /\ AllocateNode(c, u, list).lfu_index =
                  IF c.policy = "Lfu"
                  THEN c.lfu_index \cup {LfuKey(AllocateNode(c, u, list), Slot(c))}
                  ELSE c.lfu_index
<1> DEFINE i == Slot(c)
           node == NewNode(c, u, list)
           d == Placed(c, u, list)
           a == AttachAsMostRecent(d, i)
           e == AllocateNode(c, u, list)
<1>1. /\ i \in Nat \ {None} /\ i \notin Occ(c)
      /\ c.free_indices = <<>> => i = Len(c.nodes) + 1
      /\ c.free_indices # <<>> => i \in DOMAIN c.nodes
  BY SlotFree
<1>2. node \in Node
  BY NewNodeNode
<1>3. /\ NodesWith(c, node) \in Slab
      /\ DOMAIN NodesWith(c, node) = DOMAIN c.nodes \cup {i}
      /\ Len(NodesWith(c, node)) = IF c.free_indices = <<>> THEN Len(c.nodes) + 1 ELSE Len(c.nodes)
      /\ NodesWith(c, node)[i] = node
      /\ \A j \in DOMAIN c.nodes \ {i} : NodesWith(c, node)[j] = c.nodes[j]
  BY <1>1, <1>2, NodesWithSlab
<1>4. /\ Fields(d)
      /\ d.policy = c.policy /\ d.current_bytes = c.current_bytes + EntryBytes(list)
      /\ d.sequence = Bump(c.sequence) /\ d.lfu_index = c.lfu_index
      /\ d.locations = Put(c.locations, u, i) /\ d.nodes = NodesWith(c, node)
      /\ d.free_indices = FreeAfter(c) /\ d.head = c.head /\ d.tail = c.tail
  BY PlacedFields
<1>5. e = Indexed(a, i)
  BY AllocatePlaces
<1> HIDE DEF i, node, d, e
<1>6. Occ(d) = Occ(c) \cup {i}
  <2>1. node # NoNode
    BY <1>2, NodesOK
  <2> QED
    BY <1>1, <1>3, <1>4, <2>1 DEF Occ
<1>7. \A j \in Occ(c) : d.nodes[j] = c.nodes[j]
  BY <1>1, <1>3, <1>4 DEF Occ
<1>8. Linked(d, I)
  <2>1. \A k \in DOMAIN I : I[k] \in Occ(c)
    BY DEF ToSet
  <2>2. /\ DOMAIN c.nodes \subseteq DOMAIN d.nodes
        /\ \A k \in DOMAIN I : /\ d.nodes[I[k]].previous = c.nodes[I[k]].previous
                               /\ d.nodes[I[k]].next = c.nodes[I[k]].next
    BY <1>3, <1>4, <1>7, <2>1
  <2>3. d.head = c.head /\ d.tail = c.tail
    BY <1>4
  <2> QED
    BY <2>2, <2>3, LinkedAlike
<1>9. Relinked(d, a) /\ Linked(a, Append(I, i))
  <2>1. d.nodes \in Slab /\ ToSet(I) \subseteq Occ(d) /\ i \in Occ(d) \ ToSet(I)
    BY <1>1, <1>3, <1>4, <1>6
  <2> QED
    BY <1>4, <1>8, <2>1, AttachLinked
<1> HIDE DEF a
<1>10. /\ Fields(a)
       /\ a.policy = d.policy /\ a.current_bytes = d.current_bytes /\ a.sequence = d.sequence
       /\ a.lfu_index = d.lfu_index /\ a.locations = d.locations /\ a.free_indices = d.free_indices
       /\ a.nodes \in Slab /\ Len(a.nodes) = Len(d.nodes) /\ DOMAIN a.nodes = DOMAIN d.nodes
       /\ Occ(a) = Occ(d)
       /\ \A j \in Occ(d) : SameEntry(d.nodes[j], a.nodes[j])
  BY <1>9 DEF Relinked
<1>11. /\ Fields(Indexed(a, i))
       /\ Indexed(a, i).policy = a.policy
       /\ Indexed(a, i).current_bytes = a.current_bytes
       /\ Indexed(a, i).sequence = a.sequence
       /\ Indexed(a, i).lfu_index =
              IF a.policy = "Lfu" THEN a.lfu_index \cup {LfuKey(a, i)} ELSE a.lfu_index
       /\ Indexed(a, i).locations = a.locations
       /\ Indexed(a, i).nodes = a.nodes
       /\ Indexed(a, i).free_indices = a.free_indices
       /\ Indexed(a, i).head = a.head /\ Indexed(a, i).tail = a.tail
  BY <1>10, IndexedFields
<1>12. /\ Fields(e)
       /\ e.policy = a.policy /\ e.current_bytes = a.current_bytes /\ e.sequence = a.sequence
       /\ e.lfu_index = IF a.policy = "Lfu" THEN a.lfu_index \cup {LfuKey(a, i)} ELSE a.lfu_index
       /\ e.locations = a.locations /\ e.nodes = a.nodes /\ e.free_indices = a.free_indices
       /\ e.head = a.head /\ e.tail = a.tail
  BY <1>5, <1>11
<1>13. Occ(e) = Occ(a) /\ LfuKey(e, i) = LfuKey(a, i)
  BY <1>12 DEF Occ, LfuKey
<1>14. Linked(e, Append(I, i))
  BY <1>9, <1>12, ZenonT(60) DEF Linked
<1>15. /\ \A j \in Occ(c) : SameEntry(c.nodes[j], e.nodes[j])
       /\ SameEntry(node, e.nodes[i])
  BY <1>3, <1>4, <1>6, <1>7, <1>10, <1>12
<1>16. Added(c, u, list, e)
  <2>1. /\ Fields(e) /\ e.policy = c.policy /\ e.current_bytes = c.current_bytes + EntryBytes(list)
        /\ e.sequence = Bump(c.sequence) /\ e.locations = Put(c.locations, u, i)
        /\ e.free_indices = FreeAfter(c)
    BY <1>4, <1>10, <1>12
  <2>2. /\ e.nodes \in Slab /\ DOMAIN e.nodes = DOMAIN c.nodes \cup {i}
        /\ Len(e.nodes) = IF c.free_indices = <<>> THEN Len(c.nodes) + 1 ELSE Len(c.nodes)
        /\ Occ(e) = Occ(c) \cup {i}
    BY <1>3, <1>4, <1>6, <1>10, <1>12, <1>13
  <2> QED
    BY <1>15, <2>1, <2>2 DEF Added, i, node
<1>17. e.lfu_index = IF c.policy = "Lfu" THEN c.lfu_index \cup {LfuKey(e, i)} ELSE c.lfu_index
  BY <1>4, <1>10, <1>12, <1>13
<1> QED
  BY <1>14, <1>16, <1>17 DEF e, i

LEMMA AddedPaired ==
    ASSUME NEW c, Paired(c), c.nodes \in Slab, Slot(c) \notin Occ(c),
           NEW u \in CacheUsers \ DOMAIN c.locations, NEW list, NEW e, Added(c, u, list, e)
    PROVE  /\ Paired(e)
           /\ DOMAIN e.locations = DOMAIN c.locations \cup {u}
           /\ e.locations[u] = Slot(c)
           /\ \A v \in DOMAIN c.locations :
                  /\ e.locations[v] = c.locations[v]
                  /\ SameEntry(c.nodes[c.locations[v]], e.nodes[e.locations[v]])
           /\ Contents(e) = Put(Contents(c), u, list)
<1> DEFINE i == Slot(c)
           x == NewNode(c, u, list)
<1>1. /\ e.locations = Put(c.locations, u, i)
      /\ Occ(e) = Occ(c) \cup {i}
      /\ \A j \in Occ(c) : SameEntry(c.nodes[j], e.nodes[j])
      /\ SameEntry(x, e.nodes[i])
  BY DEF Added
<1>2. x.user_id = u /\ x.adjacency_list = list /\ x.bytes = EntryBytes(list)
  BY DEF NewNode
<1> HIDE DEF i, x
<1>3. /\ DOMAIN e.locations = DOMAIN c.locations \cup {u}
      /\ e.locations[u] = i
      /\ \A v \in DOMAIN c.locations : e.locations[v] = c.locations[v]
  <2>1. /\ DOMAIN Put(c.locations, u, i) = DOMAIN c.locations \cup {u}
        /\ Put(c.locations, u, i)[u] = i
        /\ \A v \in DOMAIN c.locations \ {u} : Put(c.locations, u, i)[v] = c.locations[v]
    BY Zenon DEF Put
  <2> QED
    BY <1>1, <2>1
<1>4. \A v \in DOMAIN c.locations :
          /\ c.locations[v] \in Occ(c)
          /\ SameEntry(c.nodes[c.locations[v]], e.nodes[e.locations[v]])
  BY <1>1, <1>3 DEF Paired
<1>5. e.nodes[i].user_id = u /\ e.nodes[i].adjacency_list = list
      /\ e.nodes[i].bytes = EntryBytes(list)
  BY <1>1, <1>2 DEF SameEntry
<1>6. Paired(e)
  <2>1. DOMAIN e.locations \subseteq CacheUsers
    BY <1>3 DEF Paired
  <2>2. ASSUME NEW j \in Occ(e)
        PROVE  /\ e.nodes[j].user_id \in DOMAIN e.locations
               /\ e.locations[e.nodes[j].user_id] = j
               /\ e.nodes[j].bytes = EntryBytes(e.nodes[j].adjacency_list)
    <3>1. CASE j = i
      BY <1>3, <1>5, <3>1
    <3>2. CASE j \in Occ(c)
      <4>1. SameEntry(c.nodes[j], e.nodes[j])
        BY <1>1, <3>2
      <4>2. /\ c.nodes[j].user_id \in DOMAIN c.locations
            /\ c.locations[c.nodes[j].user_id] = j
            /\ c.nodes[j].bytes = EntryBytes(c.nodes[j].adjacency_list)
        BY <3>2 DEF Paired
      <4> QED
        BY <1>3, <4>1, <4>2 DEF SameEntry
    <3> QED
      BY <1>1, <3>1, <3>2
  <2>3. ASSUME NEW v \in DOMAIN e.locations
        PROVE  e.locations[v] \in Occ(e) /\ e.nodes[e.locations[v]].user_id = v
    <3>1. CASE v = u
      BY <1>1, <1>3, <1>5, <3>1
    <3>2. CASE v \in DOMAIN c.locations
      BY <1>1, <1>3, <1>4, <3>2 DEF Paired, SameEntry
    <3> QED
      BY <1>3, <3>1, <3>2
  <2> QED
    BY <2>1, <2>2, <2>3 DEF Paired
<1>7. Contents(e) = Put(Contents(c), u, list)
  <2>1. /\ DOMAIN Contents(c) = DOMAIN c.locations
        /\ \A v \in DOMAIN c.locations : Contents(c)[v] = c.nodes[c.locations[v]].adjacency_list
    BY ContentsFields
  <2>2. /\ DOMAIN Contents(e) = DOMAIN e.locations
        /\ \A v \in DOMAIN e.locations : Contents(e)[v] = e.nodes[e.locations[v]].adjacency_list
        /\ Contents(e) = [v \in DOMAIN e.locations |-> Contents(e)[v]]
    BY ContentsFields
  <2>3. Put(Contents(c), u, list) =
            [v \in DOMAIN c.locations \cup {u} |-> IF v = u THEN list ELSE Contents(c)[v]]
    BY <2>1 DEF Put
  <2>4. \A v \in DOMAIN e.locations :
            Contents(e)[v] = IF v = u THEN list ELSE Contents(c)[v]
    <3>1. Contents(e)[u] = list
      BY <1>3, <1>5, <2>2
    <3>2. \A v \in DOMAIN c.locations : Contents(e)[v] = Contents(c)[v]
      BY <1>3, <1>4, <2>1, <2>2, ZenonT(60) DEF SameEntry
    <3> QED
      BY <1>3, <3>1, <3>2
  <2> QED
    BY <1>3, <2>2, <2>3, <2>4
<1> QED
  BY <1>3, <1>4, <1>6, <1>7 DEF i

LEMMA AddedFreed ==
    ASSUME NEW c, c.nodes \in Slab, Paired(c), Freed(c), Cardinality(DOMAIN c.locations) < Capacity,
           NEW u, NEW list, NEW e, Added(c, u, list, e)
    PROVE  Freed(e)
<1> DEFINE i == Slot(c)
<1>1. /\ e.free_indices = FreeAfter(c)
      /\ DOMAIN e.nodes = DOMAIN c.nodes \cup {i} /\ Occ(e) = Occ(c) \cup {i}
      /\ Len(e.nodes) = IF c.free_indices = <<>> THEN Len(c.nodes) + 1 ELSE Len(c.nodes)
  BY DEF Added
<1>2. /\ i \notin Occ(c)
      /\ c.free_indices = <<>> => Len(c.nodes) + 1 <= Capacity
      /\ FreeAfter(c) \in Seq(Nat) /\ IsInjective(FreeAfter(c))
      /\ ToSet(FreeAfter(c)) = ToSet(c.free_indices) \ {i}
  BY SlotFree
<1> HIDE DEF i
<1>3. ToSet(c.free_indices) = DOMAIN c.nodes \ Occ(c) /\ Len(c.nodes) <= Capacity
  BY DEF Freed
<1>4. ToSet(e.free_indices) = DOMAIN e.nodes \ Occ(e)
  BY <1>1, <1>2, <1>3
<1> QED
  BY <1>1, <1>2, <1>3, <1>4 DEF Freed

LEMMA AddedKeyed ==
    ASSUME NEW c, Keyed(c), NEW u, NEW list, NEW e, Added(c, u, list, e),
           e.lfu_index = IF c.policy = "Lfu" THEN c.lfu_index \cup {LfuKey(e, Slot(c))}
                         ELSE c.lfu_index
    PROVE  Keyed(e)
<1> DEFINE i == Slot(c)
<1>1. /\ Occ(e) = Occ(c) \cup {i} /\ e.policy = c.policy
      /\ \A j \in Occ(c) : SameEntry(c.nodes[j], e.nodes[j])
  BY DEF Added
<1> HIDE DEF i
<1>2. CASE c.policy = "Lfu"
  <2>1. c.lfu_index = {LfuKey(c, j) : j \in Occ(c)}
    BY <1>2 DEF Keyed
  <2>2. \A j \in Occ(c) : LfuKey(e, j) = LfuKey(c, j)
    BY <1>1, SameKey
  <2>3. {LfuKey(c, j) : j \in Occ(c)} \cup {LfuKey(e, i)} = {LfuKey(e, j) : j \in Occ(e)}
    BY <1>1, <2>2
  <2> QED
    BY <1>1, <1>2, <2>1, <2>3 DEF Keyed, i
<1>3. CASE c.policy # "Lfu"
  BY <1>1, <1>3 DEF Keyed
<1> QED
  BY <1>2, <1>3

LEMMA AddedWeighed ==
    ASSUME NEW c, Paired(c), c.nodes \in Slab, Weighed(c), Slot(c) \notin Occ(c),
           NEW u \in CacheUsers \ DOMAIN c.locations, NEW list \in CacheLists,
           ~MustEvict(c, EntryBytes(list)), NEW e, Added(c, u, list, e)
    PROVE  Weighed(e)
<1> DEFINE i == Slot(c)
           b == EntryBytes(list)
<1>1. /\ Paired(e) /\ DOMAIN e.locations = DOMAIN c.locations \cup {u}
      /\ Contents(e) = Put(Contents(c), u, list)
  BY AddedPaired
<1>2. /\ e.nodes \in Slab /\ Occ(e) = Occ(c) \cup {i}
      /\ e.current_bytes = c.current_bytes + b
      /\ \A j \in Occ(c) : SameEntry(c.nodes[j], e.nodes[j])
      /\ SameEntry(NewNode(c, u, list), e.nodes[i])
  BY DEF Added
<1> HIDE DEF i, b
<1>3. /\ IsFiniteSet(Occ(e)) /\ IsFiniteSet(DOMAIN e.locations)
      /\ IsFiniteSet(DOMAIN c.locations)
  BY <1>1, <1>2, Sizes
<1>4. i \notin Occ(c)
  BY DEF i
<1>5. /\ TotalBytes(Contents(e)) = b + TotalBytes(Contents(c))
      /\ TotalBytes(Contents(c)) \in Nat /\ b \in Nat
  <2>1. DOMAIN Contents(c) = DOMAIN c.locations /\ DOMAIN Contents(e) = DOMAIN e.locations
    BY ContentsFields
  <2>2. /\ Put(Contents(c), u, list)[u] = list
        /\ \A v \in DOMAIN Contents(c) \ {u} : Put(Contents(c), u, list)[v] = Contents(c)[v]
        /\ DOMAIN Put(Contents(c), u, list) = DOMAIN Contents(c) \cup {u}
    BY Zenon DEF Put
  <2>3. \A v \in DOMAIN c.locations : v # u
    OBVIOUS
  <2>4. /\ Contents(e)[u] = list
        /\ \A v \in DOMAIN Contents(c) : Contents(c)[v] = Contents(e)[v]
    BY <1>1, <2>1, <2>2, <2>3
  <2>5. \A v \in DOMAIN Contents(e) : Len(Contents(e)[v]) \in Nat
    <3>1. \A v \in DOMAIN e.locations : Contents(e)[v] = e.nodes[e.locations[v]].adjacency_list
      BY ContentsFields
    <3>2. \A j \in Occ(e) : Len(e.nodes[j].adjacency_list) \in Nat
      BY <1>2, ListLengths
    <3> QED
      BY <1>1, <2>1, <3>1, <3>2 DEF Paired
  <2>6. /\ u \in DOMAIN Contents(e) /\ IsFiniteSet(DOMAIN Contents(e))
        /\ DOMAIN Contents(c) = DOMAIN Contents(e) \ {u}
    BY <1>1, <1>3, <2>1, <2>3
  <2>7. /\ TotalBytes(Contents(e)) = EntryBytes(Contents(e)[u]) + TotalBytes(Contents(c))
        /\ TotalBytes(Contents(c)) \in Nat /\ EntryBytes(Contents(e)[u]) \in Nat
    BY <2>4, <2>5, <2>6, BytesWithout, ZenonT(60)
  <2> QED
    BY <2>4, <2>7 DEF b
<1>6. /\ TotalBytes(SlotLists(e)) = b + TotalBytes(SlotLists(c))
      /\ TotalBytes(SlotLists(c)) \in Nat
  <2>1. DOMAIN SlotLists(c) = Occ(c) /\ DOMAIN SlotLists(e) = Occ(e)
    BY SlotListsFields
  <2>2. /\ \A j \in Occ(c) : SlotLists(c)[j] = c.nodes[j].adjacency_list
        /\ \A j \in Occ(e) : SlotLists(e)[j] = e.nodes[j].adjacency_list
    BY SlotListsFields
  <2>3. SlotLists(e)[i] = list
    BY <1>2, <2>2 DEF SameEntry, NewNode
  <2>4. \A j \in DOMAIN SlotLists(c) : SlotLists(c)[j] = SlotLists(e)[j]
    BY <1>2, <2>1, <2>2 DEF SameEntry
  <2>5. \A j \in DOMAIN SlotLists(e) : Len(SlotLists(e)[j]) \in Nat
    <3>1. \A j \in Occ(e) : Len(e.nodes[j].adjacency_list) \in Nat
      BY <1>2, ListLengths
    <3> QED
      BY <2>1, <2>2, <3>1
  <2>6. /\ i \in DOMAIN SlotLists(e) /\ IsFiniteSet(DOMAIN SlotLists(e))
        /\ DOMAIN SlotLists(c) = DOMAIN SlotLists(e) \ {i}
    BY <1>2, <1>3, <1>4, <2>1
  <2>7. /\ TotalBytes(SlotLists(e)) = EntryBytes(SlotLists(e)[i]) + TotalBytes(SlotLists(c))
        /\ TotalBytes(SlotLists(c)) \in Nat
    BY <2>4, <2>5, <2>6, BytesWithout
  <2> QED
    BY <2>3, <2>7 DEF b
<1>7. c.current_bytes = TotalBytes(Contents(c)) /\ c.current_bytes = TotalBytes(SlotLists(c))
  BY DEF Weighed
<1>8. e.current_bytes = TotalBytes(Contents(e)) /\ e.current_bytes = TotalBytes(SlotLists(e))
  BY <1>2, <1>5, <1>6, <1>7
<1>9. Cardinality(DOMAIN c.locations) \in Nat
  BY <1>3, FS_CardinalityType
<1>10. /\ Cardinality(DOMAIN c.locations) < Capacity
       /\ ByteCapacity = 0 \/ c.current_bytes + b <= ByteCapacity
  BY <1>5, <1>7, <1>9, CacheAssumption DEF MustEvict, b
<1>11. Cardinality(DOMAIN e.locations) = Cardinality(DOMAIN c.locations) + 1
  BY <1>1, <1>3, FS_AddElement
<1>12. Cardinality(DOMAIN e.locations) <= Capacity
  BY <1>9, <1>10, <1>11, CacheAssumption
<1> QED
  BY <1>2, <1>8, <1>10, <1>12 DEF Weighed

LEMMA AddedRecorded ==
    ASSUME NEW c, Paired(c), c.nodes \in Slab, Slot(c) \notin Occ(c), NEW h, Recorded(c, h),
           NEW u \in CacheUsers \ DOMAIN c.locations, NEW list, NEW e, Added(c, u, list, e)
    PROVE  Recorded(e, NotedInsert(h, u))
<1> DEFINE g == NotedInsert(h, u)
<1>1. /\ DOMAIN e.locations = DOMAIN c.locations \cup {u}
      /\ e.locations[u] = Slot(c)
      /\ \A v \in DOMAIN c.locations :
             /\ e.locations[v] = c.locations[v]
             /\ SameEntry(c.nodes[c.locations[v]], e.nodes[e.locations[v]])
  BY AddedPaired
<1>2. SameEntry(NewNode(c, u, list), e.nodes[Slot(c)])
  BY DEF Added
<1>3. /\ g = [byUse |-> Append(h.byUse, u), byInsertion |-> Append(h.byInsertion, u),
              uses |-> Put(h.uses, u, 1)]
      /\ g.byUse = Append(h.byUse, u) /\ g.byInsertion = Append(h.byInsertion, u)
      /\ g.uses = Put(h.uses, u, 1)
  BY DEF NotedInsert
<1> HIDE DEF g
<1>4. /\ Listing(h.byUse, DOMAIN c.locations) /\ Listing(h.byInsertion, DOMAIN c.locations)
      /\ h.uses = [v \in DOMAIN c.locations |-> c.nodes[c.locations[v]].frequency]
  BY DEF Recorded
<1>5. /\ Listing(Append(h.byUse, u), DOMAIN c.locations \cup {u})
      /\ Listing(Append(h.byInsertion, u), DOMAIN c.locations \cup {u})
  BY <1>4, ListingAppend
<1>6. Put(h.uses, u, 1) = [v \in DOMAIN e.locations |-> e.nodes[e.locations[v]].frequency]
  <2>1. DOMAIN h.uses = DOMAIN c.locations
        /\ \A v \in DOMAIN c.locations : h.uses[v] = c.nodes[c.locations[v]].frequency
    BY <1>4
  <2>2. Put(h.uses, u, 1) = [v \in DOMAIN e.locations |-> IF v = u THEN 1 ELSE h.uses[v]]
    BY <1>1, <2>1 DEF Put
  <2>3. e.nodes[e.locations[u]].frequency = 1
    BY <1>1, <1>2 DEF SameEntry, NewNode
  <2>4. \A v \in DOMAIN c.locations : e.nodes[e.locations[v]].frequency = h.uses[v]
    BY <1>1, <2>1 DEF SameEntry
  <2> QED
    BY <1>1, <2>2, <2>3, <2>4
<1> QED
  BY <1>1, <1>3, <1>5, <1>6 DEF Recorded, g

LEMMA AddedStamped ==
    ASSUME NEW c, Paired(c), c.nodes \in Slab, Slot(c) \notin Occ(c), c.sequence \in 0 .. MaxCounter,
           NEW h, Recorded(c, h), Stamped(c, h),
           NEW u \in CacheUsers \ DOMAIN c.locations, NEW list, NEW e, Added(c, u, list, e)
    PROVE  Stamped(e, NotedInsert(h, u))
<1> DEFINE J == h.byUse
           n == Len(J)
<1>1. /\ DOMAIN e.locations = DOMAIN c.locations \cup {u}
      /\ e.locations[u] = Slot(c)
      /\ \A v \in DOMAIN c.locations :
             /\ e.locations[v] = c.locations[v]
             /\ SameEntry(c.nodes[c.locations[v]], e.nodes[e.locations[v]])
  BY AddedPaired
<1>2. SameEntry(NewNode(c, u, list), e.nodes[Slot(c)]) /\ e.sequence = Bump(c.sequence)
  BY DEF Added
<1>3. /\ Stamp(e, u) = c.sequence
      /\ \A v \in DOMAIN c.locations : Stamp(e, v) = Stamp(c, v)
  BY <1>1, <1>2 DEF SameEntry, Stamp, NewNode
<1>4. \A v \in DOMAIN c.locations : Stamp(c, v) <= c.sequence /\ Stamp(c, v) \in Nat
  <2>1. \A v \in DOMAIN c.locations : Stamp(c, v) <= c.sequence
    BY DEF Stamped
  <2>2. ASSUME NEW v \in DOMAIN c.locations PROVE Stamp(c, v) \in Nat
    <3>1. c.nodes[c.locations[v]] \in Node
      BY OccupiedNode DEF Paired
    <3> QED
      BY <3>1 DEF Stamp, Node
  <2> QED
    BY <2>1, <2>2
<1>5. c.sequence \in Nat /\ Bump(c.sequence) \in Nat /\ c.sequence <= Bump(c.sequence)
  BY BumpNumber
<1>6. \A v \in DOMAIN e.locations : Stamp(e, v) <= e.sequence
  BY <1>1, <1>2, <1>3, <1>4, <1>5
<1>7. Listing(J, DOMAIN c.locations)
  BY DEF Recorded
<1>8. J \in Seq(CacheUsers) /\ ToSet(J) = DOMAIN c.locations
  BY <1>7 DEF Listing
<1>9. \A j \in DOMAIN J, k \in DOMAIN J : j < k => Stamp(c, J[j]) <= Stamp(c, J[k])
  BY DEF Stamped
<1>10. NotedInsert(h, u).byUse = Append(J, u)
  BY DEF NotedInsert
<1> HIDE DEF J, n
<1>11. \A k \in DOMAIN J : J[k] \in DOMAIN c.locations
  BY <1>8 DEF ToSet
<1>12. /\ DOMAIN J = 1 .. n /\ n \in Nat
       /\ DOMAIN Append(J, u) = 1 .. n + 1 /\ Append(J, u)[n + 1] = u
       /\ \A k \in 1 .. n : Append(J, u)[k] = J[k]
  <2>1. J \in Seq(CacheUsers \cup {u})
    BY <1>8
  <2> QED
    BY <2>1, AppendProperties DEF n
<1>13. ASSUME NEW j \in DOMAIN Append(J, u), NEW k \in DOMAIN Append(J, u), j < k
       PROVE  Stamp(e, Append(J, u)[j]) <= Stamp(e, Append(J, u)[k])
  <2>1. j \in 1 .. n
    BY <1>12, <1>13
  <2>2. Stamp(e, Append(J, u)[j]) = Stamp(c, J[j]) /\ J[j] \in DOMAIN c.locations
    BY <1>3, <1>11, <1>12, <2>1
  <2>3. CASE k = n + 1
    <3>1. Stamp(e, Append(J, u)[k]) = c.sequence
      BY <1>3, <1>12, <2>3
    <3> QED
      BY <1>4, <2>2, <3>1
  <2>4. CASE k \in 1 .. n
    <3>1. Stamp(e, Append(J, u)[k]) = Stamp(c, J[k])
      BY <1>3, <1>11, <1>12, <2>4
    <3> QED
      BY <1>9, <1>12, <1>13, <2>1, <2>2, <2>4, <3>1
  <2> QED
    BY <1>12, <2>3, <2>4
<1> QED
  BY <1>6, <1>10, <1>13 DEF Stamped

\* With room for it, a new entry keeps everything in step.
LEMMA AllocateSound ==
    ASSUME NEW c, NEW h, Sound(c, h), NEW u \in CacheUsers \ DOMAIN c.locations,
           NEW list \in CacheLists, ~MustEvict(c, EntryBytes(list))
    PROVE  /\ Sound(AllocateNode(c, u, list), NotedInsert(h, u))
           /\ AllocateNode(c, u, list).policy = c.policy
           /\ DOMAIN AllocateNode(c, u, list).locations = DOMAIN c.locations \cup {u}
           /\ Contents(AllocateNode(c, u, list)) = Put(Contents(c), u, list)
<1> DEFINE i == Slot(c)
           e == AllocateNode(c, u, list)
           g == NotedInsert(h, u)
           L == Order(c, h)
           I == Positions(c, L)
<1>1. /\ Fields(c) /\ c.nodes \in Slab /\ Paired(c) /\ Freed(c) /\ Weighed(c) /\ Keyed(c)
      /\ Recorded(c, h) /\ Stamped(c, h) /\ Linked(c, I)
      /\ c.policy \in Policies /\ c.sequence \in 0 .. MaxCounter
  BY DEF Sound, Typed
<1>2. Listing(L, DOMAIN c.locations)
  BY <1>1 DEF Recorded, Order
<1>3. ToSet(I) = Occ(c)
  BY <1>1, <1>2, PositionsList
<1>4. Cardinality(DOMAIN c.locations) < Capacity
  <2>1. Cardinality(DOMAIN c.locations) \in Nat
    BY <1>1, Sizes, FS_CardinalityType
  <2> QED
    BY <2>1, CacheAssumption DEF MustEvict
<1>5. /\ Added(c, u, list, e) /\ Linked(e, Append(I, i))
      /\ e.lfu_index = IF c.policy = "Lfu" THEN c.lfu_index \cup {LfuKey(e, i)} ELSE c.lfu_index
  <2>1. u \in CacheUsers
    OBVIOUS
  <2> QED
    BY <1>1, <1>3, <1>4, <2>1, AllocateAdds
<1>6. Slot(c) \notin Occ(c)
  BY <1>1, <1>4, SlotFree
<1> HIDE DEF e
<1>7. /\ Paired(e) /\ DOMAIN e.locations = DOMAIN c.locations \cup {u}
      /\ e.locations[u] = Slot(c)
      /\ \A v \in DOMAIN c.locations : e.locations[v] = c.locations[v]
      /\ Contents(e) = Put(Contents(c), u, list)
  BY <1>1, <1>5, <1>6, AddedPaired
<1>8. Fields(e) /\ e.policy = c.policy /\ e.sequence \in 0 .. MaxCounter /\ e.nodes \in Slab
  BY <1>1, <1>5, BumpNumber DEF Added
<1>9. Freed(e)
  BY <1>1, <1>4, <1>5, AddedFreed
<1>10. Keyed(e)
  BY <1>1, <1>5, AddedKeyed
<1>11. Weighed(e)
  BY <1>1, <1>5, <1>6, AddedWeighed
<1>12. Recorded(e, g)
  BY <1>1, <1>5, <1>6, AddedRecorded
<1>13. Stamped(e, g)
  BY <1>1, <1>5, <1>6, AddedStamped
<1>14. Linked(e, Positions(e, Order(e, g)))
  <2>1. Order(e, g) = Append(L, u)
    BY <1>8 DEF Order, NotedInsert
  <2>2. L \in Seq(CacheUsers) /\ ToSet(L) = DOMAIN c.locations
    BY <1>2 DEF Listing
  <2> HIDE DEF L, I, i
  <2>3. \A k \in DOMAIN L : /\ e.locations[L[k]] = c.locations[L[k]]
                            /\ c.locations[L[k]] \in DOMAIN c.nodes
    BY <1>1, <1>7, <2>2 DEF ToSet, Paired, Occ
  <2>4. Positions(e, Append(L, u)) = Append(Positions(c, L), e.locations[u])
    BY <2>2, <2>3, PositionsAppend
  <2> QED
    BY <1>5, <1>7, <2>1, <2>4 DEF I, i
<1>15. Sound(e, g)
  BY <1>1, <1>7, <1>8, <1>9, <1>10, <1>11, <1>12, <1>13, <1>14 DEF Sound, Typed
<1> QED
  BY <1>7, <1>8, <1>15 DEF e

-----------------------------------------------------------------------------
(* The victim *)

LEMMA Least ==
    ASSUME NEW S, S \subseteq Nat, S # {}
    PROVE  \E m \in S : \A x \in S : m <= x
<1> DEFINE R == {ss \in Nat \X Nat : ss[1] < ss[2]}
<1>1. PICK m \in S : \A x \in S : <<x, m>> \notin R
  <2> HIDE DEF R
  <2> QED
    BY LessThanWellFounded, WFMin DEF R
<1>2. \A x \in S : <<x, m>> \in R <=> x < m
  OBVIOUS
<1>3. \A x \in S : x \in Nat /\ m \in Nat /\ ~(x < m)
  <2> HIDE DEF R
  <2> QED
    BY <1>1, <1>2
<1> QED
  BY <1>3

Key == Nat \X Nat \X Nat \X Nat

\* Of keys that differ in their last component one precedes all others.
LEMMA FirstKey ==
    ASSUME NEW K, K \subseteq Key, K # {}, \A k \in K, l \in K : k[4] = l[4] => k = l
    PROVE  \E k \in K : \A l \in K \ {k} : Precedes(k, l)
<1>1. PICK a \in K : \A l \in K : a[1] <= l[1]
  <2> DEFINE S == {l[1] : l \in K}
  <2>1. S \subseteq Nat /\ S # {}
    BY DEF Key
  <2> HIDE DEF S
  <2>2. PICK m \in S : \A x \in S : m <= x
    BY <2>1, Least
  <2> QED
    BY <2>2 DEF S
<1> DEFINE K1 == {l \in K : l[1] = a[1]}
<1>2. PICK b \in K1 : \A l \in K1 : b[2] <= l[2]
  <2> DEFINE S == {l[2] : l \in K1}
  <2>1. S \subseteq Nat /\ S # {}
    BY DEF Key
  <2> HIDE DEF S
  <2>2. PICK m \in S : \A x \in S : m <= x
    BY <2>1, Least
  <2> QED
    BY <2>2 DEF S
<1> DEFINE K2 == {l \in K1 : l[2] = b[2]}
<1>3. PICK c \in K2 : \A l \in K2 : c[3] <= l[3]
  <2> DEFINE S == {l[3] : l \in K2}
  <2>1. S \subseteq Nat /\ S # {}
    BY DEF Key
  <2> HIDE DEF S
  <2>2. PICK m \in S : \A x \in S : m <= x
    BY <2>1, Least
  <2> QED
    BY <2>2 DEF S
<1> DEFINE K3 == {l \in K2 : l[3] = c[3]}
<1>4. PICK k \in K3 : \A l \in K3 : k[4] <= l[4]
  <2> DEFINE S == {l[4] : l \in K3}
  <2>1. S \subseteq Nat /\ S # {}
    BY DEF Key
  <2> HIDE DEF S
  <2>2. PICK m \in S : \A x \in S : m <= x
    BY <2>1, Least
  <2> QED
    BY <2>2 DEF S
<1>5. k \in K /\ k[1] = a[1] /\ k[2] = b[2] /\ k[3] = c[3]
  OBVIOUS
<1>6. ASSUME NEW l \in K \ {k} PROVE Precedes(k, l)
  <2>1. /\ k[1] \in Nat /\ k[2] \in Nat /\ k[3] \in Nat /\ k[4] \in Nat
        /\ l[1] \in Nat /\ l[2] \in Nat /\ l[3] \in Nat /\ l[4] \in Nat
    BY <1>5 DEF Key
  <2>2. k[4] # l[4]
    BY <1>5
  <2>3. CASE l[1] # a[1]
    <3>1. k[1] < l[1]
      BY <1>1, <1>5, <2>1, <2>3
    <3>2. 1 \in 1 .. 4 /\ \A j \in 1 .. 1 - 1 : k[j] = l[j]
      OBVIOUS
    <3> QED
      BY <3>1, <3>2 DEF Precedes
  <2>4. CASE l[1] = a[1] /\ l[2] # b[2]
    <3>1. k[2] < l[2] /\ k[1] = l[1]
      BY <1>2, <1>5, <2>1, <2>4
    <3>2. 2 \in 1 .. 4 /\ \A j \in 1 .. 2 - 1 : j = 1
      OBVIOUS
    <3> QED
      BY <3>1, <3>2 DEF Precedes
  <2>5. CASE l[1] = a[1] /\ l[2] = b[2] /\ l[3] # c[3]
    <3>1. k[3] < l[3] /\ k[1] = l[1] /\ k[2] = l[2]
      BY <1>3, <1>5, <2>1, <2>5
    <3>2. 3 \in 1 .. 4 /\ \A j \in 1 .. 3 - 1 : j = 1 \/ j = 2
      OBVIOUS
    <3> QED
      BY <3>1, <3>2 DEF Precedes
  <2>6. CASE l[1] = a[1] /\ l[2] = b[2] /\ l[3] = c[3]
    <3>1. k[4] < l[4] /\ k[1] = l[1] /\ k[2] = l[2] /\ k[3] = l[3]
      BY <1>4, <1>5, <2>1, <2>2, <2>6
    <3>2. 4 \in 1 .. 4 /\ \A j \in 1 .. 4 - 1 : j = 1 \/ j = 2 \/ j = 3
      OBVIOUS
    <3> QED
      BY <3>1, <3>2 DEF Precedes
  <2> QED
    BY <2>3, <2>4, <2>5, <2>6
<1> QED
  BY <1>5, <1>6

\* The victim under LFU has the key that precedes all others.
LEMMA LfuVictim ==
    ASSUME NEW c, NEW h, Sound(c, h), c.policy = "Lfu", Occ(c) # {}
    PROVE  /\ EvictionCandidate(c) \in Occ(c)
           /\ \A i \in Occ(c) \ {EvictionCandidate(c)} :
                  Precedes(LfuKey(c, EvictionCandidate(c)), LfuKey(c, i))
<1> DEFINE K == {LfuKey(c, i) : i \in Occ(c)}
           first == CHOOSE k \in K : \A l \in K \ {k} : Precedes(k, l)
<1>1. c.nodes \in Slab /\ c.lfu_index = K
  BY DEF Sound, Typed, Keyed
<1>2. ASSUME NEW i \in Occ(c) PROVE LfuKey(c, i) \in Key /\ LfuKey(c, i)[4] = i
  <2>1. c.nodes[i] \in Node /\ i \in Nat
    BY <1>1, OccupiedNode DEF Occ, Slab
  <2>2. /\ c.nodes[i].frequency \in Nat /\ c.nodes[i].last_accessed_at \in Nat
        /\ c.nodes[i].inserted_at \in Nat
    BY <2>1, SlabAssumption DEF Node
  <2> QED
    BY <2>1, <2>2 DEF LfuKey, Key
<1>3. K \subseteq Key /\ K # {} /\ \A k \in K, l \in K : k[4] = l[4] => k = l
  BY <1>2
<1> HIDE DEF K
<1>4. \E k \in K : \A l \in K \ {k} : Precedes(k, l)
  BY <1>3, FirstKey
<1>5. first \in K /\ \A l \in K \ {first} : Precedes(first, l)
  BY <1>4
<1>6. EvictionCandidate(c) = first[4]
  BY <1>1 DEF EvictionCandidate
<1> HIDE DEF first
<1>7. PICK i \in Occ(c) : first = LfuKey(c, i)
  BY <1>5 DEF K
<1>8. EvictionCandidate(c) = i
  BY <1>2, <1>6, <1>7
<1>9. \A j \in Occ(c) \ {i} : LfuKey(c, j) \in K \ {first}
  <2>1. \A j \in Occ(c) \ {i} : LfuKey(c, j) # LfuKey(c, i)
    BY KeysDiffer
  <2> QED
    BY <1>7, <2>1 DEF K
<1> QED
  BY <1>5, <1>7, <1>8, <1>9

\* The victim under LRU and FIFO comes first in the list.
LEMMA ListVictim ==
    ASSUME NEW c, NEW h, Sound(c, h), Occ(c) # {}
    PROVE  /\ c.head \in Occ(c) /\ Order(c, h) # <<>>
           /\ c.nodes[c.head].user_id = Order(c, h)[1]
<1> DEFINE L == Order(c, h)
           I == Positions(c, L)
<1>1. c.nodes \in Slab /\ Paired(c) /\ Linked(c, I) /\ Listing(L, DOMAIN c.locations)
  BY DEF Sound, Typed, Recorded, Order
<1>2. /\ L \in Seq(DOMAIN c.locations) /\ Len(I) = Len(L) /\ ToSet(I) = Occ(c)
      /\ \A k \in 1 .. Len(L) : I[k] = c.locations[L[k]]
  BY <1>1, PositionsList
<1> HIDE DEF L, I
<1>3. I # <<>>
  BY <1>2 DEF ToSet
<1>4. c.head = I[1] /\ I \in Seq(DOMAIN c.nodes)
  BY <1>1, <1>3 DEF Linked
<1>5. Len(L) \in Nat \ {0} /\ DOMAIN I = 1 .. Len(L)
  BY <1>2, <1>3, <1>4, EmptySeq
<1>6. 1 \in 1 .. Len(L) /\ 1 \in DOMAIN I /\ L # <<>>
  BY <1>2, <1>5, EmptySeq
<1>7. I[1] \in Occ(c) /\ I[1] = c.locations[L[1]] /\ L[1] \in DOMAIN c.locations
  BY <1>2, <1>6 DEF ToSet
<1>8. c.nodes[c.head].user_id = L[1]
  BY <1>1, <1>4, <1>7 DEF Paired
<1> QED
  BY <1>4, <1>6, <1>7, <1>8 DEF L

\* A cache with entries has a victim among them.
LEMMA VictimOccupied ==
    ASSUME NEW c, NEW h, Sound(c, h), Occ(c) # {}
    PROVE  EvictionCandidate(c) \in Occ(c)
<1>1. CASE c.policy = "Lfu"
  BY <1>1, LfuVictim
<1>2. CASE c.policy # "Lfu"
  BY <1>2, ListVictim DEF EvictionCandidate
<1> QED
  BY <1>1, <1>2

\* A slot is removed with the user it belongs to.
LEMMA SlotOwner ==
    ASSUME NEW c, NEW h, Sound(c, h), NEW i \in Occ(c)
    PROVE  /\ c.nodes[i].user_id \in DOMAIN c.locations
           /\ c.locations[c.nodes[i].user_id] = i
  BY DEF Sound, Paired

\* None is left in the list only when the cache is empty.
LEMMA NoHead ==
    ASSUME NEW c, NEW h, Sound(c, h)
    PROVE  /\ c.head = None => Occ(c) = {}
           /\ Occ(c) = {} => DOMAIN c.locations = {}
           /\ c.head # None => c.head \in Occ(c)
<1>1. None \notin Occ(c)
  BY DEF Sound, Typed, Slab, Occ, None
<1>2. Occ(c) # {} => c.head \in Occ(c)
  BY ListVictim
<1>3. Occ(c) = {} => DOMAIN c.locations = {}
  BY DEF Sound, Paired
<1>4. c.head # None => Occ(c) # {}
  <2> DEFINE I == Positions(c, Order(c, h))
  <2>1. c.nodes \in Slab /\ Paired(c) /\ Linked(c, I) /\ Listing(Order(c, h), DOMAIN c.locations)
    BY DEF Sound, Typed, Recorded, Order
  <2>2. ToSet(I) = Occ(c) /\ I \in Seq(DOMAIN c.nodes)
    BY <2>1, PositionsList
  <2> HIDE DEF I
  <2>3. c.head # None => I # <<>>
    BY <2>1 DEF Linked
  <2>4. I # <<>> => ToSet(I) # {}
    <3>1. I # <<>> => Len(I) \in Nat \ {0} /\ DOMAIN I = 1 .. Len(I)
      BY <2>2, EmptySeq
    <3> QED
      BY <3>1 DEF ToSet
  <2> QED
    BY <2>2, <2>3, <2>4
<1> QED
  BY <1>1, <1>2, <1>3, <1>4

-----------------------------------------------------------------------------
(* The invariant *)

Cached(c) == c = [u \in DOMAIN c |-> c[u]] /\ IsFiniteSet(DOMAIN c)

\* While an insert evicts, what is left is part of what was cached before, and
\* with the last victim still there the new entry had no room.
CallOK ==
    \/ op = Idle
    \/ op = [kind |-> "clear", before |-> op.before]
    \/ /\ op = [kind |-> "insert", user |-> op.user, list |-> op.list, before |-> op.before]
       /\ op.user \in CacheUsers /\ op.list \in CacheLists /\ ~Oversized(op.list)
       /\ Cached(op.before)
       /\ DOMAIN cache.locations \subseteq DOMAIN op.before \ {op.user}
       /\ Contents(cache) = Keep(op.before, DOMAIN cache.locations)
       /\ \/ DOMAIN cache.locations = DOMAIN op.before \ {op.user}
          \/ \E v \in DOMAIN op.before \ (DOMAIN cache.locations \cup {op.user}) :
                ~HasRoom(Keep(op.before, DOMAIN cache.locations \cup {v}), EntryBytes(op.list))

IInv == Sound(cache, history) /\ CallOK

LEMMA Kinds ==
    ASSUME CallOK
    PROVE  /\ op.kind = "clear" => op = [kind |-> "clear", before |-> op.before]
           /\ op.kind = "insert" =>
               /\ op = [kind |-> "insert", user |-> op.user, list |-> op.list, before |-> op.before]
               /\ op.user \in CacheUsers /\ op.list \in CacheLists /\ ~Oversized(op.list)
               /\ Cached(op.before)
               /\ DOMAIN cache.locations \subseteq DOMAIN op.before \ {op.user}
               /\ Contents(cache) = Keep(op.before, DOMAIN cache.locations)
               /\ \/ DOMAIN cache.locations = DOMAIN op.before \ {op.user}
                  \/ \E v \in DOMAIN op.before \ (DOMAIN cache.locations \cup {op.user}) :
                        ~HasRoom(Keep(op.before, DOMAIN cache.locations \cup {v}),
                                 EntryBytes(op.list))
<1>1. CASE op = Idle
  <2>1. op.kind = "idle"
    BY <1>1 DEF Idle
  <2> QED
    BY <2>1
<1>2. CASE op = [kind |-> "clear", before |-> op.before]
  <2>1. op.kind = "clear"
    BY <1>2
  <2> QED
    BY <1>2, <2>1
<1>3. CASE op = [kind |-> "insert", user |-> op.user, list |-> op.list, before |-> op.before]
  <2>1. op.kind = "insert" /\ op # Idle
    BY <1>3 DEF Idle
  <2> QED
    BY <1>3, <2>1 DEF CallOK
<1> QED
  BY <1>1, <1>2, <1>3 DEF CallOK

\* What the cache counts decides as what the contract counts.
LEMMA Room ==
    ASSUME NEW c, NEW h, Sound(c, h), NEW b \in Nat
    PROVE  HasRoom(Contents(c), b) <=> ~MustEvict(c, b)
<1>1. c.current_bytes = TotalBytes(Contents(c)) /\ DOMAIN Contents(c) = DOMAIN c.locations
  BY ContentsFields DEF Sound, Weighed
<1>2. Cardinality(DOMAIN c.locations) \in Nat
  BY Sizes DEF Sound, Typed
<1>3. TotalBytes(Contents(c)) \in Nat
  <2>1. Paired(c) /\ c.nodes \in Slab
    BY DEF Sound, Typed
  <2>2. IsFiniteSet(DOMAIN Contents(c))
    BY <1>1, <2>1, Sizes
  <2>3. \A u \in DOMAIN c.locations : Contents(c)[u] = c.nodes[c.locations[u]].adjacency_list
    BY ContentsFields
  <2>4. \A i \in Occ(c) : Len(c.nodes[i].adjacency_list) \in Nat
    BY <2>1, ListLengths
  <2>5. \A u \in DOMAIN Contents(c) : Len(Contents(c)[u]) \in Nat
    BY <1>1, <2>1, <2>3, <2>4 DEF Paired
  <2> QED
    BY <2>2, <2>5, BytesNat
<1> DEFINE n == Cardinality(DOMAIN c.locations)
           t == c.current_bytes
<1>4. n \in Nat /\ t \in Nat /\ Capacity \in Nat /\ ByteCapacity \in Nat
  BY <1>1, <1>2, <1>3, CacheAssumption
<1>5. MustEvict(c, b) <=> n >= Capacity \/ (ByteCapacity # 0 /\ t + b > ByteCapacity)
  BY DEF MustEvict
<1>6. HasRoom(Contents(c), b) <=> n < Capacity /\ (ByteCapacity = 0 \/ t + b <= ByteCapacity)
  BY <1>1 DEF HasRoom
<1> HIDE DEF n, t
<1> QED
  BY <1>4, <1>5, <1>6

\* A cache that has to evict for a list that fits alone has something to evict.
LEMMA EvictionOccupied ==
    ASSUME NEW c, NEW h, Sound(c, h), NEW list \in CacheLists, ~Oversized(list),
           MustEvict(c, EntryBytes(list))
    PROVE  Occ(c) # {}
<1> SUFFICES ASSUME Occ(c) = {} PROVE FALSE
  OBVIOUS
<1>1. DOMAIN c.locations = {}
  BY NoHead
<1>2. Cardinality(DOMAIN c.locations) = 0
  BY <1>1, FS_EmptySet
<1>3. c.current_bytes = 0
  <2>1. DOMAIN SlotLists(c) = {}
    BY SlotListsFields
  <2>2. SlotLists(c) = <<>>
    BY <2>1 DEF SlotLists
  <2> QED
    BY <2>2, EmptyBytes DEF Sound, Weighed
<1>4. EntryBytes(list) \in Nat
  BY EntryBytesNat, SlabAssumption
<1> QED
  BY <1>2, <1>3, <1>4, CacheAssumption DEF MustEvict, Oversized

LEMMA ContentsCached ==
    ASSUME NEW c, NEW h, Sound(c, h)
    PROVE  Cached(Contents(c)) /\ DOMAIN Contents(c) = DOMAIN c.locations
<1>1. IsFiniteSet(DOMAIN c.locations)
  BY Sizes DEF Sound, Typed
<1> QED
  BY <1>1, ContentsFields DEF Cached

\* Nothing is forgotten of a user that is not cached.
LEMMA ForgottenAbsent ==
    ASSUME NEW c, NEW h, Sound(c, h), NEW u, u \notin DOMAIN c.locations
    PROVE  Forgotten(h, u) = h
<1>1. /\ h = [byUse |-> h.byUse, byInsertion |-> h.byInsertion, uses |-> h.uses]
      /\ Listing(h.byUse, DOMAIN c.locations) /\ Listing(h.byInsertion, DOMAIN c.locations)
      /\ h.uses = [v \in DOMAIN c.locations |-> c.nodes[c.locations[v]].frequency]
  BY DEF Sound, Recorded
<1>2. Without(h.byUse, u) = h.byUse /\ Without(h.byInsertion, u) = h.byInsertion
  BY <1>1, WithoutAbsent DEF Listing
<1>3. Drop(h.uses, u) = h.uses
  <2>1. Drop(h.uses, u) = [v \in DOMAIN h.uses \ {u} |-> h.uses[v]]
    BY DropFields
  <2>2. DOMAIN h.uses \ {u} = DOMAIN h.uses /\ h.uses = [v \in DOMAIN h.uses |-> h.uses[v]]
    BY <1>1
  <2> QED
    BY <2>1, <2>2
<1> QED
  BY <1>1, <1>2, <1>3 DEF Forgotten

\* An insert drops the old entry of its user, if there is one.
LEMMA EntryDropped ==
    ASSUME NEW c, NEW h, Sound(c, h), NEW u,
           NEW d, d = IF u \in DOMAIN c.locations THEN RemoveNode(c, c.locations[u]) ELSE c
    PROVE  /\ Sound(d, Forgotten(h, u))
           /\ DOMAIN d.locations = DOMAIN c.locations \ {u}
           /\ Contents(d) = Drop(Contents(c), u)
<1> DEFINE B == Contents(c)
<1>1. Cached(B) /\ DOMAIN B = DOMAIN c.locations
  BY ContentsCached
<1>2. CASE u \in DOMAIN c.locations
  <2>1. /\ Sound(RemoveNode(c, c.locations[u]), Forgotten(h, u))
        /\ DOMAIN RemoveNode(c, c.locations[u]).locations = DOMAIN c.locations \ {u}
        /\ Contents(RemoveNode(c, c.locations[u])) = Drop(Contents(c), u)
    BY <1>2, RemoveSound
  <2> QED
    BY <1>2, <2>1
<1>3. CASE u \notin DOMAIN c.locations
  <2>1. Forgotten(h, u) = h /\ d = c
    BY <1>3, ForgottenAbsent
  <2>2. Drop(B, u) = [v \in DOMAIN B \ {u} |-> B[v]]
    BY DropFields
  <2>3. DOMAIN B \ {u} = DOMAIN B /\ B = [v \in DOMAIN B |-> B[v]]
    BY <1>1, <1>3 DEF Cached
  <2>4. Drop(B, u) = B
    BY <2>2, <2>3
  <2> QED
    BY <1>1, <2>1, <2>3, <2>4
<1> QED
  BY <1>2, <1>3

LEMMA InitSound == Init => IInv
<1> SUFFICES ASSUME Init PROVE IInv
  OBVIOUS
<1> DEFINE c == cache
           I == Positions(c, Order(c, history))
<1>1. /\ c \in [policy : Policies, current_bytes : {0}, sequence : {0}, lfu_index : {{}},
                locations : {<<>>}, nodes : {<<>>}, free_indices : {<<>>},
                head : {None}, tail : {None}]
      /\ op = Idle /\ history = [byUse |-> <<>>, byInsertion |-> <<>>, uses |-> <<>>]
  BY DEF Init
<1>2. /\ c.policy \in Policies /\ c.current_bytes = 0 /\ c.sequence = 0 /\ c.lfu_index = {}
      /\ c.locations = <<>> /\ c.nodes = <<>> /\ c.free_indices = <<>>
      /\ c.head = None /\ c.tail = None /\ Fields(c)
  BY <1>1 DEF Fields
<1>3. history.byUse = <<>> /\ history.byInsertion = <<>> /\ history.uses = <<>>
  BY <1>1
<1>4. DOMAIN <<>> = {} /\ ToSet(<<>>) = {} /\ IsInjective(<<>>) /\ Len(<<>>) = 0
  BY DEF ToSet, IsInjective
<1>5. Occ(c) = {}
  BY <1>2, <1>4 DEF Occ
<1>6. Typed(c)
  BY <1>2, SlabAssumption DEF Typed, Slab
<1>7. Paired(c)
  BY <1>2, <1>4, <1>5 DEF Paired
<1>8. Freed(c)
  BY <1>2, <1>4, <1>5, CacheAssumption DEF Freed
<1>9. Weighed(c)
  <2>1. Contents(c) = <<>>
    BY <1>2, <1>4 DEF Contents
  <2>2. SlotLists(c) = <<>>
    BY <1>5 DEF SlotLists
  <2>3. Cardinality(DOMAIN c.locations) = 0
    BY <1>2, <1>4, FS_EmptySet
  <2> QED
    BY <1>2, <2>1, <2>2, <2>3, EmptyBytes, CacheAssumption DEF Weighed
<1>10. Keyed(c)
  BY <1>2, <1>5 DEF Keyed
<1>11. Recorded(c, history)
  <2>1. Listing(<<>>, {})
    BY <1>4 DEF Listing
  <2>2. <<>> = [u \in DOMAIN c.locations |-> c.nodes[c.locations[u]].frequency]
    BY <1>2, <1>4
  <2> QED
    BY <1>1, <1>2, <1>3, <1>4, <2>1, <2>2 DEF Recorded
<1>12. Stamped(c, history)
  BY <1>2, <1>3, <1>4 DEF Stamped
<1>13. Linked(c, I)
  <2>1. I = <<>>
    BY <1>3, <1>4 DEF Order, Positions
  <2> QED
    BY <1>2, <1>4, <2>1 DEF Linked
<1>14. Sound(c, history)
  BY <1>6, <1>7, <1>8, <1>9, <1>10, <1>11, <1>12, <1>13 DEF Sound
<1> QED
  BY <1>1, <1>14 DEF IInv, CallOK

\* An eviction takes one more entry of those cached before the insert.
LEMMA EvictKeeps ==
    ASSUME NEW B, Cached(B), NEW K, K \subseteq DOMAIN B, NEW v \in K
    PROVE  Drop(Keep(B, K), v) = Keep(B, K \ {v}) /\ Keep(B, (K \ {v}) \cup {v}) = Keep(B, K)
<1>1. (K \ {v}) \cup {v} = K
  OBVIOUS
<1>2. DOMAIN Keep(B, K) = K /\ \A u \in K : Keep(B, K)[u] = B[u]
  BY DEF Keep
<1>3. Drop(Keep(B, K), v) = [u \in DOMAIN Keep(B, K) \ {v} |-> Keep(B, K)[u]]
  BY DropFields
<1>4. Keep(B, K \ {v}) = [u \in K \ {v} |-> B[u]]
  <2>1. DOMAIN B \cap (K \ {v}) = K \ {v}
    OBVIOUS
  <2> QED
    BY <2>1 DEF Keep
<1> QED
  BY <1>1, <1>2, <1>3, <1>4

LEMMA NextSound == IInv /\ [Next]_vars => IInv'
<1> SUFFICES ASSUME IInv, [Next]_vars PROVE IInv'
  OBVIOUS
<1>1. Sound(cache, history) /\ CallOK
  BY DEF IInv
<1>2. ASSUME NEW u \in CacheUsers, Hit(u) PROVE IInv'
  <2>1. /\ u \in DOMAIN cache.locations /\ op = Idle /\ op' = op
        /\ cache' = Touched(cache, cache.locations[u]) /\ history' = NotedHit(history, u)
    BY <1>2 DEF Hit
  <2>2. Sound(Touched(cache, cache.locations[u]), NotedHit(history, u))
    BY <1>1, <2>1, TouchSound
  <2> QED
    BY <2>1, <2>2 DEF IInv, CallOK
<1>3. ASSUME NEW u \in CacheUsers, Invalidate(u) PROVE IInv'
  <2>1. /\ u \in DOMAIN cache.locations /\ op = Idle /\ op' = op
        /\ cache' = RemoveNode(cache, cache.locations[u]) /\ history' = Forgotten(history, u)
    BY <1>3 DEF Invalidate
  <2>2. Sound(RemoveNode(cache, cache.locations[u]), Forgotten(history, u))
    BY <1>1, <2>1, RemoveSound
  <2> QED
    BY <2>1, <2>2 DEF IInv, CallOK
<1>4. ASSUME NEW u \in CacheUsers, NEW list \in CacheLists, InsertBegin(u, list) PROVE IInv'
  <2> DEFINE B == Contents(cache)
  <2>1. /\ cache' = IF u \in DOMAIN cache.locations
                    THEN RemoveNode(cache, cache.locations[u]) ELSE cache
        /\ history' = Forgotten(history, u)
        /\ op' = IF Oversized(list) THEN Idle
                 ELSE [kind |-> "insert", user |-> u, list |-> list, before |-> B]
    BY <1>4 DEF InsertBegin
  <2>2. Cached(B) /\ DOMAIN B = DOMAIN cache.locations
    BY <1>1, ContentsCached
  <2>3. /\ Sound(cache', history')
        /\ DOMAIN cache'.locations = DOMAIN B \ {u}
        /\ Contents(cache') = Drop(B, u)
    BY <1>1, <2>1, <2>2, EntryDropped
  <2>4. Contents(cache') = Keep(B, DOMAIN cache'.locations)
    BY <2>3 DEF Drop
  <2> HIDE DEF B
  <2>5. CallOK'
    <3>1. CASE Oversized(list)
      BY <2>1, <3>1 DEF CallOK
    <3>2. CASE ~Oversized(list)
      <4>1. op' = [kind |-> "insert", user |-> u, list |-> list, before |-> B]
        BY <2>1, <3>2
      <4>2. op'.user = u /\ op'.list = list /\ op'.before = B
        BY <4>1
      <4> QED
        BY <2>2, <2>3, <2>4, <3>2, <4>1, <4>2 DEF CallOK
    <3> QED
      BY <3>1, <3>2
  <2> QED
    BY <2>3, <2>5 DEF IInv
<1>5. CASE InsertEvict
  <2> DEFINE i == EvictionCandidate(cache)
             v == cache.nodes[i].user_id
             B == op.before
             b == EntryBytes(op.list)
             D == DOMAIN cache.locations
  <2>1. /\ op.kind = "insert" /\ op' = op /\ MustEvict(cache, b)
        /\ cache' = RemoveNode(cache, i) /\ history' = Forgotten(history, v)
    BY <1>5 DEF InsertEvict
  <2>2. /\ op = [kind |-> "insert", user |-> op.user, list |-> op.list, before |-> B]
        /\ op.user \in CacheUsers /\ op.list \in CacheLists /\ ~Oversized(op.list)
        /\ Cached(B) /\ D \subseteq DOMAIN B \ {op.user}
        /\ Contents(cache) = Keep(B, D)
    BY <1>1, <2>1, Kinds
  <2>3. i \in Occ(cache)
    BY <1>1, <2>1, <2>2, EvictionOccupied, VictimOccupied
  <2>4. v \in D /\ cache.locations[v] = i
    BY <1>1, <2>3, SlotOwner
  <2> HIDE DEF i, v
  <2>5. /\ Sound(RemoveNode(cache, cache.locations[v]), Forgotten(history, v))
        /\ DOMAIN RemoveNode(cache, cache.locations[v]).locations = D \ {v}
        /\ Contents(RemoveNode(cache, cache.locations[v])) = Drop(Contents(cache), v)
    BY <1>1, <2>4, RemoveSound
  <2>6. /\ Sound(cache', history') /\ DOMAIN cache'.locations = D \ {v}
        /\ Contents(cache') = Drop(Contents(cache), v)
    BY <2>1, <2>4, <2>5
  <2> HIDE DEF B, b, D
  <2>7. Drop(Keep(B, D), v) = Keep(B, D \ {v}) /\ Keep(B, (D \ {v}) \cup {v}) = Keep(B, D)
    <3>1. D \subseteq DOMAIN B
      BY <2>2
    <3> QED
      BY <2>2, <2>4, <3>1, EvictKeeps
  <2>8. ~HasRoom(Keep(B, (D \ {v}) \cup {v}), b)
    <3>1. b \in Nat
      BY <2>2, EntryBytesNat, SlabAssumption DEF b
    <3>2. ~HasRoom(Contents(cache), b)
      BY <1>1, <2>1, <3>1, Room DEF b
    <3> QED
      BY <2>2, <2>7, <3>2
  <2>9. v \in DOMAIN B \ ((D \ {v}) \cup {op.user}) /\ D \ {v} \subseteq DOMAIN B \ {op.user}
    BY <2>2, <2>4
  <2>10. Contents(cache') = Keep(B, D \ {v})
    BY <2>2, <2>6, <2>7
  <2>11. CallOK'
    <3>1. op'.user = op.user /\ op'.list = op.list /\ op'.before = B
      BY <2>1 DEF B
    <3>2. op' = [kind |-> "insert", user |-> op'.user, list |-> op'.list, before |-> op'.before]
      BY <2>1, <2>2, <3>1
    <3>3. \E w \in DOMAIN op'.before \ (DOMAIN cache'.locations \cup {op'.user}) :
              ~HasRoom(Keep(op'.before, DOMAIN cache'.locations \cup {w}), EntryBytes(op'.list))
      BY <2>6, <2>8, <2>9, <3>1 DEF b
    <3> QED
      BY <2>2, <2>6, <2>9, <2>10, <3>1, <3>2, <3>3 DEF CallOK
  <2> QED
    BY <2>6, <2>11 DEF IInv
<1>6. CASE InsertEnd
  <2>1. /\ op.kind = "insert" /\ op' = Idle /\ ~MustEvict(cache, EntryBytes(op.list))
        /\ cache' = AllocateNode(cache, op.user, op.list)
        /\ history' = NotedInsert(history, op.user)
    BY <1>6 DEF InsertEnd
  <2>2. op.list \in CacheLists /\ op.user \in CacheUsers \ DOMAIN cache.locations
    BY <1>1, <2>1, Kinds
  <2>3. Sound(AllocateNode(cache, op.user, op.list), NotedInsert(history, op.user))
    BY <1>1, <2>1, <2>2, AllocateSound
  <2> QED
    BY <2>1, <2>3 DEF IInv, CallOK
<1>7. CASE ClearBegin
  <2>1. op' = [kind |-> "clear", before |-> Contents(cache)] /\ cache' = cache /\ history' = history
    BY <1>7 DEF ClearBegin
  <2>2. op'.before = Contents(cache)
    BY <2>1
  <2> QED
    BY <1>1, <2>1, <2>2 DEF IInv, CallOK
<1>8. CASE ClearOne
  <2> DEFINE i == cache.head
             v == cache.nodes[i].user_id
  <2>1. /\ op.kind = "clear" /\ op' = op /\ i # None
        /\ cache' = RemoveNode(cache, i) /\ history' = Forgotten(history, v)
    BY <1>8 DEF ClearOne
  <2>2. op = [kind |-> "clear", before |-> op.before]
    BY <1>1, <2>1, Kinds
  <2>3. i \in Occ(cache)
    BY <1>1, <2>1, NoHead
  <2>4. v \in DOMAIN cache.locations /\ cache.locations[v] = i
    BY <1>1, <2>3, SlotOwner
  <2> HIDE DEF i, v
  <2>5. Sound(RemoveNode(cache, cache.locations[v]), Forgotten(history, v))
    BY <1>1, <2>4, RemoveSound
  <2> QED
    BY <2>1, <2>2, <2>4, <2>5 DEF IInv, CallOK
<1>9. CASE ClearEnd
  BY <1>1, <1>9 DEF ClearEnd, IInv, CallOK
<1>10. CASE UNCHANGED vars
  BY <1>1, <1>10 DEF vars, IInv, CallOK
<1> QED
  BY <1>2, <1>3, <1>4, <1>5, <1>6, <1>7, <1>8, <1>9, <1>10 DEF Next

LEMMA Invariance == Spec => []IInv
  BY InitSound, NextSound, PTL DEF Spec

-----------------------------------------------------------------------------
(* The properties of the structure *)

LEMMA OccupiedSlots ==
    ASSUME Sound(cache, history)
    PROVE  /\ Slots = DOMAIN cache.nodes /\ Occupied = Occ(cache)
           /\ Len(cache.nodes) \in Nat
<1>1. DOMAIN cache.nodes = 1 .. Len(cache.nodes) /\ Len(cache.nodes) \in Nat
  BY DEF Sound, Typed, Slab
<1> QED
  BY <1>1 DEF Slots, Occupied, Occ

\* The ordered index of LFU names every entry under its present key and
\* nothing else, so that no removal misses its key (insert, get and
\* remove_node of src/cache.rs re-index by hand).
THEOREM IndexAlwaysExact == Spec => []IndexExact
<1>1. IInv => IndexExact
  BY OccupiedSlots DEF IInv, Sound, Keyed, IndexExact
<1> QED
  BY <1>1, Invariance, PTL

\* Between any two steps of any call the cache keeps both of its limits, and
\* its byte count is the sum over its entries.
THEOREM LimitsAlwaysRespected == Spec => []LimitsRespected
<1>1. ASSUME IInv PROVE LimitsRespected
  <2>1. Sound(cache, history) /\ Occupied = Occ(cache)
    BY <1>1, OccupiedSlots DEF IInv
  <2>2. /\ cache.current_bytes = TotalBytes(SlotLists(cache))
        /\ ByteCapacity = 0 \/ cache.current_bytes <= ByteCapacity
        /\ Cardinality(DOMAIN cache.locations) <= Capacity
    BY <2>1 DEF Sound, Weighed
  <2>3. Cardinality(Occ(cache)) = Cardinality(DOMAIN cache.locations)
    BY <2>1, Sizes DEF Sound, Typed
  <2> QED
    BY <2>1, <2>2, <2>3 DEF LimitsRespected, SlotLists
<1> QED
  BY <1>1, Invariance, PTL

LEMMA NodeNumbers ==
    ASSUME NEW x \in Node
    PROVE  x.last_accessed_at \in Nat /\ x.frequency \in Nat
<1>1. x.last_accessed_at \in 0 .. MaxCounter /\ x.frequency \in 1 .. MaxCounter
  BY DEF Node
<1> QED
  BY <1>1, SlabAssumption

\* The users come in the order of their stamps.
LEMMA LaterStamp ==
    ASSUME NEW c, NEW h, Sound(c, h), NEW u \in DOMAIN c.locations, NEW v \in DOMAIN c.locations,
           Stamp(c, v) < Stamp(c, u)
    PROVE  (CHOOSE k \in DOMAIN h.byUse : h.byUse[k] = v)
               < (CHOOSE k \in DOMAIN h.byUse : h.byUse[k] = u)
<1> DEFINE rank(w) == CHOOSE k \in DOMAIN h.byUse : h.byUse[k] = w
<1>1. h.byUse \in Seq(CacheUsers) /\ ToSet(h.byUse) = DOMAIN c.locations
  BY DEF Sound, Recorded, Listing
<1>2. \A w \in DOMAIN c.locations : \E k \in DOMAIN h.byUse : h.byUse[k] = w
  BY <1>1 DEF ToSet
<1>3. \A w \in DOMAIN c.locations : rank(w) \in DOMAIN h.byUse /\ h.byUse[rank(w)] = w
  BY <1>2
<1>4. \A j \in DOMAIN h.byUse, k \in DOMAIN h.byUse :
          j < k => Stamp(c, h.byUse[j]) <= Stamp(c, h.byUse[k])
  BY DEF Sound, Stamped
<1>5. DOMAIN h.byUse \subseteq Nat
  BY <1>1
<1>6. \A w \in DOMAIN c.locations : Stamp(c, w) \in Nat
  <2> TAKE w \in DOMAIN c.locations
  <2>1. c.locations[w] \in Occ(c) /\ c.nodes \in Slab
    BY DEF Sound, Paired, Typed
  <2>2. c.nodes[c.locations[w]] \in Node
    BY <2>1, OccupiedNode
  <2> QED
    BY <2>2, SlabAssumption DEF Node, Stamp
<1> HIDE DEF rank
<1> DEFINE j == rank(u)
           k == rank(v)
<1>7. /\ j \in Nat /\ k \in Nat /\ j \in DOMAIN h.byUse /\ k \in DOMAIN h.byUse
      /\ h.byUse[j] = u /\ h.byUse[k] = v
  BY <1>3, <1>5
<1> HIDE DEF j, k
<1>8. j # k
  BY <1>6, <1>7
<1>9. ~(j < k)
  BY <1>4, <1>6, <1>7
<1>10. k < j
  BY <1>7, <1>8, <1>9
<1> QED
  BY <1>10 DEF j, k, rank

\* The next victim is the user the policy promises, judged by the calls made
\* and not by the structure: eviction_candidate of src/cache.rs reads a list
\* and an index that every call has to keep in order.
THEOREM VictimAlwaysOfPolicy == Spec => []VictimOfPolicy
<1>1. ASSUME IInv PROVE VictimOfPolicy
  <2> DEFINE i == EvictionCandidate(cache)
             v == cache.nodes[i].user_id
             D == DOMAIN cache.locations
             rank(u) == CHOOSE k \in DOMAIN history.byUse : history.byUse[k] = u
             stamp(u) == cache.nodes[cache.locations[u]].last_accessed_at
             Rarely(u) == \/ history.uses[v] < history.uses[u]
                          \/ /\ history.uses[v] = history.uses[u]
                             /\ stamp(v) # stamp(u) => rank(v) < rank(u)
  <2>1. Sound(cache, history) /\ Occupied = Occ(cache)
    BY <1>1, OccupiedSlots DEF IInv
  <2>2. SUFFICES ASSUME Occ(cache) # {}
                 PROVE  /\ cache.policy = "Lru" => v = Head(history.byUse)
                        /\ cache.policy = "Fifo" => v = Head(history.byInsertion)
                        /\ cache.policy = "Lfu" => \A u \in DOMAIN history.uses \ {v} : Rarely(u)
    <3>1. cache.policy \in {"Lru", "Fifo", "Lfu"}
      BY <2>1, SlabAssumption DEF Sound, Typed
    <3> HIDE DEF i, v, Rarely
    <3>2. ASSUME /\ cache.policy = "Lru" => v = Head(history.byUse)
                 /\ cache.policy = "Fifo" => v = Head(history.byInsertion)
                 /\ cache.policy = "Lfu" => \A u \in DOMAIN history.uses \ {v} : Rarely(u)
          PROVE  CASE cache.policy = "Lru" -> v = Head(history.byUse)
                   [] cache.policy = "Fifo" -> v = Head(history.byInsertion)
                   [] cache.policy = "Lfu" -> \A u \in DOMAIN history.uses \ {v} : Rarely(u)
      <4>1. CASE cache.policy = "Lru"
        BY <3>2, <4>1
      <4>2. CASE cache.policy = "Fifo"
        BY <3>2, <4>2
      <4>3. CASE cache.policy = "Lfu"
        BY <3>2, <4>3
      <4> QED
        BY <3>1, <4>1, <4>2, <4>3
    <3> QED
      BY <2>1, <3>2 DEF VictimOfPolicy, i, v, Rarely
  <2>3. ASSUME cache.policy # "Lfu" PROVE v = Head(Order(cache, history))
    <3>1. i = cache.head
      BY <2>3 DEF EvictionCandidate
    <3>2. Order(cache, history) # <<>> /\ v = Order(cache, history)[1]
      BY <2>1, <2>2, <3>1, ListVictim
    <3> QED
      BY <3>2
  <2>4. ASSUME cache.policy = "Lfu", NEW u \in DOMAIN history.uses \ {v} PROVE Rarely(u)
    <3> DEFINE j == cache.locations[u]
    <3>1. /\ DOMAIN history.uses = D /\ \A w \in D : history.uses[w] = cache.nodes[cache.locations[w]].frequency
      BY <2>1 DEF Sound, Recorded
    <3>2. i \in Occ(cache) /\ \A s \in Occ(cache) \ {i} : Precedes(LfuKey(cache, i), LfuKey(cache, s))
      BY <2>1, <2>2, <2>4, LfuVictim
    <3>3. v \in D /\ cache.locations[v] = i
      BY <2>1, <3>2, SlotOwner
    <3>4. u \in D /\ j \in Occ(cache) /\ cache.nodes[j].user_id = u
      BY <2>1, <2>4, <3>1 DEF Sound, Paired
    <3>5. j # i /\ cache.nodes \in Slab
      BY <2>1, <2>4, <3>4 DEF Sound, Typed
    <3> HIDE DEF i, v, j
    <3>6. Precedes(LfuKey(cache, i), LfuKey(cache, j))
      BY <3>2, <3>4, <3>5
    <3>7. cache.nodes[i] \in Node /\ cache.nodes[j] \in Node
      BY <3>2, <3>4, <3>5, OccupiedNode
    <3>8. /\ cache.nodes[i].last_accessed_at \in Nat /\ cache.nodes[j].last_accessed_at \in Nat
          /\ cache.nodes[i].frequency \in Nat /\ cache.nodes[j].frequency \in Nat
      BY <3>7, NodeNumbers
    <3>9. \/ cache.nodes[i].frequency < cache.nodes[j].frequency
          \/ /\ cache.nodes[i].frequency = cache.nodes[j].frequency
             /\ \/ cache.nodes[i].last_accessed_at < cache.nodes[j].last_accessed_at
                \/ cache.nodes[i].last_accessed_at = cache.nodes[j].last_accessed_at
      <4>1. PICK m \in 1 .. 4 : /\ LfuKey(cache, i)[m] < LfuKey(cache, j)[m]
                                /\ \A n \in 1 .. m - 1 : LfuKey(cache, i)[n] = LfuKey(cache, j)[n]
        BY <3>6 DEF Precedes
      <4>2. /\ LfuKey(cache, i)[1] = cache.nodes[i].frequency
            /\ LfuKey(cache, j)[1] = cache.nodes[j].frequency
            /\ LfuKey(cache, i)[2] = cache.nodes[i].last_accessed_at
            /\ LfuKey(cache, j)[2] = cache.nodes[j].last_accessed_at
        BY DEF LfuKey
      <4>3. m = 1 \/ (m = 2 /\ 1 \in 1 .. m - 1) \/ (m > 2 /\ 1 \in 1 .. m - 1 /\ 2 \in 1 .. m - 1)
        BY <4>1
      <4> QED
        BY <4>1, <4>2, <4>3
    <3>10. stamp(v) = cache.nodes[i].last_accessed_at /\ stamp(u) = cache.nodes[j].last_accessed_at
      BY <3>3 DEF j
    <3>11. stamp(v) < stamp(u) => rank(v) < rank(u)
      BY <2>1, <3>3, <3>4, LaterStamp DEF Stamp
    <3>12. history.uses[v] = cache.nodes[i].frequency /\ history.uses[u] = cache.nodes[j].frequency
      BY <3>1, <3>3, <3>4 DEF j
    <3> HIDE DEF stamp, rank
    <3> QED
      BY <3>9, <3>10, <3>11, <3>12 DEF Rarely
  <2> HIDE DEF v, i, Rarely
  <2> QED
    BY <2>3, <2>4 DEF Order
<1> QED
  BY <1>1, Invariance, PTL

-----------------------------------------------------------------------------
(* The chain of next from head *)

Following(i) == IF i \in Occupied THEN cache.nodes[i].next ELSE None

\* The steps of Chain: what is met after n of them.
Met ==
    CHOOSE g : g = [n \in 0 .. Len(cache.nodes) |->
                       IF n = 0 THEN IF cache.head = None THEN <<>> ELSE <<cache.head>>
                       ELSE LET before == g[n - 1]
                            IN IF before = <<>> \/ Following(Last(before)) = None THEN before
                               ELSE Append(before, Following(Last(before)))]

LEMMA ChainIsMet == Chain = Met[Len(cache.nodes)]
  BY DEF Chain, Met, Following

\* The slots of I met after n steps.
Reached(I, n) == [k \in 1 .. (IF n < Len(I) THEN n + 1 ELSE Len(I)) |-> I[k]]

LEMMA ReachedSlots ==
    ASSUME NEW I \in Seq(Nat \ {None}), NEW n \in Nat
    PROVE  /\ Reached(I, n) \in Seq(Nat \ {None})
           /\ Len(Reached(I, n)) = IF n < Len(I) THEN n + 1 ELSE Len(I)
           /\ \A k \in 1 .. Len(Reached(I, n)) : Reached(I, n)[k] = I[k]
           /\ n >= Len(I) => Reached(I, n) = I
<1> DEFINE m == IF n < Len(I) THEN n + 1 ELSE Len(I)
<1>1. m \in Nat /\ m <= Len(I) /\ DOMAIN I = 1 .. Len(I) /\ Len(I) \in Nat
  OBVIOUS
<1>2. \A k \in 1 .. m : I[k] \in Nat \ {None}
  BY <1>1
<1>3. Reached(I, n) = [k \in 1 .. m |-> I[k]]
  BY DEF Reached
<1>4. n >= Len(I) => m = Len(I)
  OBVIOUS
<1> HIDE DEF m
<1>5. [k \in 1 .. m |-> I[k]] \in Seq(Nat \ {None}) /\ Len([k \in 1 .. m |-> I[k]]) = m
  BY <1>1, <1>2
<1>6. m = Len(I) => [k \in 1 .. m |-> I[k]] = I
  BY <1>1
<1>7. \A k \in 1 .. m : Reached(I, n)[k] = I[k]
  BY <1>3
<1>8. Reached(I, n) \in Seq(Nat \ {None}) /\ Len(Reached(I, n)) = m
  BY <1>3, <1>5
<1>9. n >= Len(I) => Reached(I, n) = I
  BY <1>3, <1>4, <1>6
<1> QED
  BY <1>7, <1>8, <1>9 DEF m

LEMMA SeqAsFunction == \A S : \A s \in Seq(S) : s = [k \in 1 .. Len(s) |-> s[k]]
  OBVIOUS

\* One step further along the list.
LEMMA OneFurther ==
    ASSUME NEW I \in Seq(Nat \ {None}), NEW n \in Nat,
           \A k \in 1 .. Len(I) : Following(I[k]) = IF k = Len(I) THEN None ELSE I[k + 1]
    PROVE  Reached(I, n + 1) = IF Reached(I, n) = <<>> \/ Following(Last(Reached(I, n))) = None
                            THEN Reached(I, n)
                            ELSE Append(Reached(I, n), Following(Last(Reached(I, n))))
<1> DEFINE P == Reached(I, n)
           Q == Reached(I, n + 1)
           L == Len(I)
<1>1. /\ P \in Seq(Nat \ {None}) /\ Len(P) = (IF n < L THEN n + 1 ELSE L)
      /\ \A k \in 1 .. Len(P) : P[k] = I[k]
      /\ n >= L => P = I
      /\ Q \in Seq(Nat \ {None}) /\ Len(Q) = (IF n + 1 < L THEN n + 2 ELSE L)
      /\ \A k \in 1 .. Len(Q) : Q[k] = I[k]
      /\ n + 1 >= L => Q = I
  <2>1. n + 1 \in Nat /\ (IF n + 1 < L THEN (n + 1) + 1 ELSE L) = (IF n + 1 < L THEN n + 2 ELSE L)
    OBVIOUS
  <2>2. /\ P \in Seq(Nat \ {None}) /\ Len(P) = (IF n < L THEN n + 1 ELSE L)
        /\ \A k \in 1 .. Len(P) : P[k] = I[k]
        /\ n >= L => P = I
    BY ReachedSlots
  <2> DEFINE m == n + 1
  <2> HIDE DEF m
  <2>3. /\ Reached(I, m) \in Seq(Nat \ {None})
        /\ Len(Reached(I, m)) = (IF m < L THEN m + 1 ELSE L)
        /\ \A k \in 1 .. Len(Reached(I, m)) : Reached(I, m)[k] = I[k]
        /\ m >= L => Reached(I, m) = I
    <3>1. m \in Nat
      BY <2>1 DEF m
    <3> QED
      BY <3>1, ReachedSlots
  <2> QED
    BY <2>1, <2>2, <2>3 DEF m
<1>2. L \in Nat /\ I = <<>> <=> L = 0
  BY EmptySeq
<1>3. P = <<>> <=> Len(P) = 0
  BY <1>1, EmptySeq
<1> HIDE DEF P, Q
<1>4. CASE n >= L
  <2>1. P = I /\ Q = I
    BY <1>1, <1>2, <1>4
  <2>2. L # 0 => Following(Last(I)) = None
    BY <1>2 DEF Last
  <2> QED
    BY <1>2, <2>1, <2>2 DEF P, Q
<1>5. CASE n < L
  <2>1. Len(P) = n + 1 /\ n + 1 \in 1 .. Len(P) /\ n + 1 \in 1 .. L
    BY <1>1, <1>2, <1>5
  <2>2. Last(P) = I[n + 1] /\ P # <<>>
    BY <1>1, <1>3, <2>1 DEF Last
  <2>3. Following(Last(P)) = IF n + 1 = L THEN None ELSE I[n + 2]
    BY <2>1, <2>2
  <2>4. CASE n + 1 = L
    <3>1. Q = I /\ Following(Last(P)) = None
      BY <1>1, <2>3, <2>4
    <3>2. P = I
      <4>1. P = [k \in 1 .. Len(P) |-> P[k]] /\ I = [k \in 1 .. L |-> I[k]]
        BY <1>1, SeqAsFunction
      <4> QED
        BY <1>1, <2>1, <2>4, <4>1
    <3> QED
      BY <3>1, <3>2 DEF P, Q
  <2>5. CASE n + 1 # L
    <3>1. n + 2 \in 1 .. L /\ I[n + 2] # None
      BY <1>2, <1>5, <2>5
    <3>2. Following(Last(P)) = I[n + 2] /\ Following(Last(P)) # None
      BY <2>3, <2>5, <3>1
    <3>3. Len(Q) = n + 2
      BY <1>1, <1>2, <1>5, <2>5
    <3>4. Q = Append(P, I[n + 2])
      <4> DEFINE R == Append(P, I[n + 2])
      <4>1. R \in Seq(Nat \ {None}) /\ Len(R) = n + 2
        BY <1>1, <2>1, <3>1
      <4>2. \A k \in 1 .. n + 2 : R[k] = I[k]
        <5>1. \A k \in 1 .. n + 1 : R[k] = P[k]
          BY <1>1, <2>1, <3>1
        <5>2. R[n + 2] = I[n + 2]
          BY <1>1, <2>1, <3>1
        <5>3. \A k \in 1 .. n + 2 : k = n + 2 \/ k \in 1 .. n + 1
          OBVIOUS
        <5> HIDE DEF R
        <5> QED
          BY <1>1, <2>1, <5>1, <5>2, <5>3
      <4>3. Q = [k \in 1 .. Len(Q) |-> Q[k]] /\ R = [k \in 1 .. Len(R) |-> R[k]]
        <5> HIDE DEF R
        <5> QED
          BY <1>1, <4>1, SeqAsFunction
      <4> HIDE DEF R
      <4>4. Q = R
        BY <1>1, <3>3, <4>1, <4>2, <4>3
      <4> QED
        BY <4>4 DEF R
    <3> QED
      BY <2>2, <3>2, <3>4 DEF P, Q
  <2> QED
    BY <2>4, <2>5
<1> QED
  BY <1>2, <1>4, <1>5

\* Followed from head, the links give the users' slots in the policy's order.
LEMMA ChainInOrder ==
    ASSUME Sound(cache, history)
    PROVE  Chain = Positions(cache, Order(cache, history))
<1> DEFINE I == Positions(cache, Order(cache, history))
           N == Len(cache.nodes)
           Start == IF cache.head = None THEN <<>> ELSE <<cache.head>>
           Further(b) == IF b = <<>> \/ Following(Last(b)) = None THEN b
                         ELSE Append(b, Following(Last(b)))
           Walk(g) == [n \in 0 .. N |-> IF n = 0 THEN Start ELSE Further(g[n - 1])]
           M == [n \in 0 .. N |-> Reached(I, n)]
<1>1. /\ cache.nodes \in Slab /\ Paired(cache) /\ Linked(cache, I)
      /\ Listing(Order(cache, history), DOMAIN cache.locations)
  BY DEF Sound, Typed, Recorded, Order
<1>2. Occupied = Occ(cache) /\ N \in Nat /\ DOMAIN cache.nodes = 1 .. N
  BY OccupiedSlots DEF Slots
<1>3. ToSet(I) = Occ(cache)
  BY <1>1, PositionsList
<1> HIDE DEF I
<1>4. /\ DOMAIN I = 1 .. Len(I) /\ Len(I) \in Nat /\ I \in Seq(DOMAIN cache.nodes)
      /\ \A k \in DOMAIN I : I[k] \in DOMAIN cache.nodes /\ I[k] \in Nat \ {None}
      /\ I = <<>> <=> Len(I) = 0
  BY <1>1, LinkTypes, ZenonT(60) DEF Linked
<1>5. I \in Seq(Nat \ {None})
  <2>1. I = [k \in 1 .. Len(I) |-> I[k]] /\ \A k \in 1 .. Len(I) : I[k] \in Nat \ {None}
    BY <1>4
  <2> QED
    BY <1>4, <2>1
<1>6. \A k \in 1 .. Len(I) : Following(I[k]) = IF k = Len(I) THEN None ELSE I[k + 1]
  BY <1>1, <1>2, <1>3, <1>4 DEF Linked, Following, ToSet
<1>7. Len(I) <= N
  <2>1. [k \in 1 .. Len(I) |-> I[k]] \in Injection(1 .. Len(I), 1 .. N)
    BY <1>1, <1>2, <1>4 DEF Linked, Injection, IsInjective
  <2>2. IsFiniteSet(1 .. N) /\ Cardinality(1 .. N) = N /\ Cardinality(1 .. Len(I)) = Len(I)
    <3>1. ASSUME NEW n \in Nat PROVE IsFiniteSet(1 .. n) /\ Cardinality(1 .. n) = n
      <4>1. IsFiniteSet(1 .. n) /\ Cardinality(1 .. n) = IF 1 > n THEN 0 ELSE n - 1 + 1
        BY FS_Interval
      <4> QED
        BY <4>1
    <3> HIDE DEF N
    <3> QED
      BY <1>2, <1>4, <3>1
  <2>3. Cardinality(1 .. Len(I)) <= Cardinality(1 .. N)
    BY <2>1, <2>2, FS_Injection
  <2> QED
    BY <2>2, <2>3
<1>8. Reached(I, 0) = Start
  <2>1. /\ Reached(I, 0) \in Seq(Nat \ {None})
        /\ Len(Reached(I, 0)) = IF 0 < Len(I) THEN 0 + 1 ELSE Len(I)
        /\ \A k \in 1 .. Len(Reached(I, 0)) : Reached(I, 0)[k] = I[k]
        /\ 0 >= Len(I) => Reached(I, 0) = I
    BY <1>5, ReachedSlots
  <2>2. CASE I = <<>>
    BY <1>1, <1>4, <2>1, <2>2 DEF Linked
  <2>3. CASE I # <<>>
    <3>1. cache.head = I[1] /\ I[1] # None
      BY <1>1, <1>4, <2>3 DEF Linked
    <3>2. Len(Reached(I, 0)) = 1 /\ Reached(I, 0)[1] = I[1]
      BY <1>4, <2>1, <2>3
    <3>3. Reached(I, 0) = <<I[1]>>
      BY <2>1, <3>2
    <3> QED
      BY <3>1, <3>3
  <2> QED
    BY <2>2, <2>3
<1> HIDE DEF Start
<1>9. \A n \in Nat : Reached(I, n + 1) = Further(Reached(I, n))
  BY <1>5, <1>6, OneFurther
<1> HIDE DEF Further
<1>10. M = Walk(M)
  <2>1. ASSUME NEW n \in 0 .. N
        PROVE  M[n] = IF n = 0 THEN Start ELSE Further(M[n - 1])
    <3>1. CASE n = 0
      BY <1>8, <3>1
    <3>2. CASE n # 0
      <4>1. n - 1 \in Nat /\ n - 1 \in 0 .. N /\ (n - 1) + 1 = n
        BY <3>2
      <4>2. Reached(I, (n - 1) + 1) = Further(Reached(I, n - 1))
        BY <1>9, <4>1
      <4> QED
        BY <3>2, <4>1, <4>2
    <3> QED
      BY <3>1, <3>2
  <2>2. M = [n \in 0 .. N |-> M[n]]
    OBVIOUS
  <2> HIDE DEF M
  <2> QED
    BY <2>1, <2>2
<1>11. Met = Walk(Met)
  <2>1. Met = CHOOSE g : g = Walk(g)
    BY DEF Met, Start, Further
  <2> HIDE DEF Walk, M
  <2> QED
    BY <1>10, <2>1
<1>12. Met[0] = Start /\ \A n \in 0 .. N - 1 : Met[n + 1] = Further(Met[n])
  <2> HIDE DEF M
  <2>1. \A n \in 0 .. N : Met[n] = IF n = 0 THEN Start ELSE Further(Met[n - 1])
    BY <1>11, Zenon
  <2> HIDE DEF Walk
  <2>2. \A n \in 0 .. N - 1 : n + 1 \in 0 .. N /\ n + 1 # 0 /\ (n + 1) - 1 = n
    BY <1>2
  <2> QED
    BY <1>2, <2>1, <2>2
<1> DEFINE T == {n \in Nat : Met[n] = Reached(I, n)}
<1>13. 0 \in T
  BY <1>8, <1>12
<1>14. \A n \in 0 .. N - 1 : n \in T => n + 1 \in T
  <2> TAKE n \in 0 .. N - 1
  <2>1. n \in Nat /\ n + 1 \in Nat
    BY <1>2
  <2>2. Met[n + 1] = Further(Met[n]) /\ Reached(I, n + 1) = Further(Reached(I, n))
    BY <1>9, <1>12, <2>1
  <2> HIDE DEF M, Walk
  <2> QED
    BY <2>1, <2>2
<1> HIDE DEF T, M, Walk
<1>15. N \in T
  <2>1. \A n \in 0 .. N : n \in T
    BY <1>2, <1>13, <1>14, InductionTo
  <2> QED
    BY <1>2, <2>1
<1>16. Reached(I, N) = I
  BY <1>2, <1>5, <1>7, ReachedSlots
<1> QED
  BY <1>15, <1>16, ChainIsMet DEF T, I

\* The linked list runs through every entry once and the same way in both
\* directions, every slot is either found through exactly one user or waits to
\* be used again, and the slab never outgrows the capacity, whatever the order
\* of the calls (detach, attach_as_most_recent, allocate_node and remove_node
\* of src/cache.rs).
THEOREM SlabAlwaysConsistent == Spec => []SlabConsistent
<1>1. ASSUME IInv PROVE SlabConsistent
  <2> DEFINE c == cache
             I == Positions(cache, Order(cache, history))
  <2>1. /\ Sound(cache, history) /\ Occupied = Occ(cache) /\ Slots = DOMAIN cache.nodes
        /\ Chain = I
    BY <1>1, OccupiedSlots, ChainInOrder DEF IInv
  <2>2. /\ cache.nodes \in Slab /\ Paired(cache) /\ Freed(cache) /\ Linked(cache, I)
        /\ Listing(Order(cache, history), DOMAIN cache.locations)
    BY <2>1 DEF Sound, Typed, Recorded, Order
  <2>3. ToSet(I) = Occ(cache)
    BY <2>2, PositionsList
  <2>4. Cardinality(Occ(cache)) = Cardinality(DOMAIN cache.locations)
    BY <2>2, Sizes
  <2> HIDE DEF I
  <2>5. LinksConsistent
    BY <2>1, <2>2, <2>3 DEF LinksConsistent, Linked, Last
  <2>6. SlotsConsistent
    BY <2>1, <2>2, <2>4 DEF SlotsConsistent, Freed, Paired
  <2> QED
    BY <2>5, <2>6 DEF SlabConsistent
<1> QED
  BY <1>1, Invariance, PTL

\* An insert that still has to evict finds something to evict: the loop of
\* insert_shared (src/cache.rs) never meets its expect.
THEOREM EvictionFindsVictim ==
    Spec => [](op.kind = "insert" /\ MustEvict(cache, EntryBytes(op.list))
                   => EvictionCandidate(cache) \in Occupied)
<1>1. ASSUME IInv, op.kind = "insert", MustEvict(cache, EntryBytes(op.list))
      PROVE  EvictionCandidate(cache) \in Occupied
  <2>1. Sound(cache, history) /\ CallOK /\ Occupied = Occ(cache)
    BY <1>1, OccupiedSlots DEF IInv
  <2>2. op.list \in CacheLists /\ ~Oversized(op.list)
    BY <1>1, <2>1, Kinds
  <2> QED
    BY <1>1, <2>1, <2>2, EvictionOccupied, VictimOccupied
<1> QED
  BY <1>1, Invariance, PTL

-----------------------------------------------------------------------------
(* Refinement of CacheContract *)

\* The entries a caller has been shown.
Shown == IF op = Idle THEN Contents(cache) ELSE op.before

\* The contract's instance of BoundedCache says the same.
LEMMA ContractTotal ==
    ASSUME NEW c
    PROVE  Contract!TotalBytes(c) = TotalBytes(c)
<1>1. \A list : Contract!EntryBytes(list) = EntryBytes(list)
  BY DEF Contract!EntryBytes, EntryBytes
<1>2. Contract!TotalBytes(c) = Summed(c)[DOMAIN c]
  BY Zenon DEF Contract!TotalBytes, Contract!MapThenSumSet, Contract!MapThenFoldSet, Summed,
               Contract!EntryBytes, EntryBytes
<1> QED
  BY <1>2, TotalIsSummed

LEMMA ContractInsert ==
    ASSUME NEW c, NEW u, NEW list
    PROVE  Contract!InsertOutcomes(c, u, list) = InsertOutcomes(c, u, list)
<1>1. Contract!EntryBytes(list) = EntryBytes(list)
  BY DEF Contract!EntryBytes, EntryBytes
<1>2. Contract!Oversized(list) <=> Oversized(list)
  BY <1>1 DEF Contract!Oversized, Oversized
<1>3. \A d, K : Contract!Keep(d, K) = Keep(d, K)
  BY DEF Contract!Keep, Keep
<1>4. \A d, v : Contract!Drop(d, v) = Drop(d, v)
  BY <1>3 DEF Contract!Drop, Drop
<1>5. \A d, v, l : Contract!Put(d, v, l) = Put(d, v, l)
  BY DEF Contract!Put, Put
<1>6. \A d, b : Contract!HasRoom(d, b) <=> HasRoom(d, b)
  <2> TAKE d, b
  <2>1. Contract!TotalBytes(d) = TotalBytes(d)
    BY ContractTotal
  <2> QED
    BY <2>1 DEF Contract!HasRoom, HasRoom, Contract!Cardinality, Cardinality
<1>7. \A d, b : Contract!Survivors(d, b) = Survivors(d, b)
  BY <1>3, <1>6 DEF Contract!Survivors, Survivors
<1> QED
  BY <1>1, <1>2, <1>3, <1>4, <1>5, <1>7 DEF Contract!InsertOutcomes, InsertOutcomes

\* What is left after the evictions is what the contract may leave.
LEMMA EvictedAsPromised ==
    ASSUME NEW B, NEW u, NEW list, NEW K, K \subseteq DOMAIN B \ {u}, ~Oversized(list),
           HasRoom(Keep(B, K), EntryBytes(list)),
           \/ K = DOMAIN B \ {u}
           \/ \E v \in DOMAIN B \ (K \cup {u}) : ~HasRoom(Keep(B, K \cup {v}), EntryBytes(list))
    PROVE  Put(Keep(B, K), u, list) \in InsertOutcomes(B, u, list)
<1> DEFINE D == Drop(B, u)
           b == EntryBytes(list)
<1>1. DOMAIN D = DOMAIN B \ {u} /\ \A v \in DOMAIN D : D[v] = B[v]
  <2>1. /\ DOMAIN Drop(B, u) = DOMAIN B \ {u}
        /\ \A v \in DOMAIN B \ {u} : Drop(B, u)[v] = B[v]
    BY DropFields
  <2> QED
    BY <2>1
<1>2. ASSUME NEW S, S \subseteq DOMAIN D PROVE Keep(D, S) = Keep(B, S)
  <2>1. DOMAIN D \cap S = S /\ DOMAIN B \cap S = S
    BY <1>1, <1>2
  <2> QED
    BY <1>1, <1>2, <2>1 DEF Keep
<1> HIDE DEF D, b
<1>3. K \in SUBSET DOMAIN D /\ HasRoom(Keep(D, K), b)
  BY <1>1, <1>2 DEF b
<1>4. K = DOMAIN D \/ \E v \in DOMAIN D \ K : ~HasRoom(Keep(D, K \cup {v}), b)
  <2>1. CASE K = DOMAIN B \ {u}
    BY <1>1, <2>1
  <2>2. CASE \E v \in DOMAIN B \ (K \cup {u}) : ~HasRoom(Keep(B, K \cup {v}), EntryBytes(list))
    <3>1. PICK v \in DOMAIN B \ (K \cup {u}) : ~HasRoom(Keep(B, K \cup {v}), b)
      BY <2>2 DEF b
    <3>2. v \in DOMAIN D \ K /\ K \cup {v} \subseteq DOMAIN D
      BY <1>1, <3>1
    <3> QED
      BY <1>2, <3>1, <3>2
  <2> QED
    BY <2>1, <2>2
<1>5. K \in Survivors(D, b)
  BY <1>3, <1>4 DEF Survivors
<1> QED
  BY <1>5 DEF InsertOutcomes, D, b

LEMMA InitRefines == Init => Contract!Init
<1> SUFFICES ASSUME Init PROVE Contract!Init
  OBVIOUS
<1>1. op = Idle /\ cache.locations = <<>>
  BY DEF Init
<1>2. Contents(cache) = <<>>
  BY <1>1 DEF Contents
<1> QED
  BY <1>1, <1>2 DEF Contract!Init

LEMMA StepRefines ==
    ASSUME IInv, [Next]_vars
    PROVE  Contract!Next \/ Shown' = Shown
<1>1. Sound(cache, history) /\ CallOK /\ Idle.kind = "idle"
  BY DEF IInv, Idle
<1>2. ASSUME NEW u \in CacheUsers, Hit(u) PROVE Shown' = Shown
  <2>1. /\ u \in DOMAIN cache.locations /\ op = Idle /\ op' = Idle
        /\ cache' = Touched(cache, cache.locations[u])
    BY <1>2 DEF Hit
  <2>2. Contents(Touched(cache, cache.locations[u])) = Contents(cache)
    BY <1>1, <2>1, TouchSound
  <2> QED
    BY <2>1, <2>2 DEF Shown
<1>3. ASSUME NEW u \in CacheUsers, Invalidate(u) PROVE Contract!Next
  <2>1. /\ u \in DOMAIN cache.locations /\ op = Idle /\ op' = Idle
        /\ cache' = RemoveNode(cache, cache.locations[u])
    BY <1>3 DEF Invalidate
  <2>2. Contents(RemoveNode(cache, cache.locations[u])) = Drop(Contents(cache), u)
    BY <1>1, <2>1, RemoveSound
  <2>3. u \in DOMAIN Shown /\ Shown' = Drop(Shown, u)
    BY <2>1, <2>2, ContentsFields DEF Shown
  <2>4. Contract!Invalidate(u)
    BY <2>3 DEF Contract!Invalidate, Contract!Drop, Contract!Keep, Drop, Keep, Shown
  <2> QED
    BY <2>4 DEF Contract!Next
<1>4. ASSUME NEW u \in CacheUsers, NEW list \in CacheLists, InsertBegin(u, list)
      PROVE  Contract!Next \/ Shown' = Shown
  <2>1. /\ op = Idle
        /\ cache' = IF u \in DOMAIN cache.locations
                    THEN RemoveNode(cache, cache.locations[u]) ELSE cache
        /\ op' = IF Oversized(list) THEN Idle
                 ELSE [kind |-> "insert", user |-> u, list |-> list, before |-> Contents(cache)]
    BY <1>4 DEF InsertBegin
  <2>2. CASE Oversized(list)
    <3>1. Contents(cache') = Drop(Contents(cache), u)
      BY <1>1, <2>1, EntryDropped
    <3>2. Shown' \in InsertOutcomes(Shown, u, list)
      BY <2>1, <2>2, <3>1 DEF Shown, InsertOutcomes
    <3>3. Contract!Insert(u, list)
      BY <3>2, ContractInsert DEF Contract!Insert, Shown
    <3> QED
      BY <3>3 DEF Contract!Next
  <2>3. CASE ~Oversized(list)
    <3>1. op'.kind = "insert" /\ op'.before = Contents(cache)
      BY <2>1, <2>3
    <3>2. op' # Idle
      BY <1>1, <3>1
    <3> QED
      BY <2>1, <3>1, <3>2 DEF Shown
  <2> QED
    BY <2>2, <2>3
<1>5. CASE InsertEvict
  <2>1. op.kind = "insert" /\ op' = op
    BY <1>5 DEF InsertEvict
  <2> QED
    BY <1>1, <2>1 DEF Shown
<1>6. CASE InsertEnd
  <2> DEFINE B == op.before
             u == op.user
             list == op.list
             K == DOMAIN cache.locations
  <2>1. /\ op.kind = "insert" /\ op' = Idle /\ ~MustEvict(cache, EntryBytes(list))
        /\ cache' = AllocateNode(cache, u, list)
    BY <1>6 DEF InsertEnd
  <2>2. /\ u \in CacheUsers /\ list \in CacheLists /\ ~Oversized(list)
        /\ K \subseteq DOMAIN B \ {u} /\ Contents(cache) = Keep(B, K)
        /\ \/ K = DOMAIN B \ {u}
           \/ \E v \in DOMAIN B \ (K \cup {u}) : ~HasRoom(Keep(B, K \cup {v}), EntryBytes(list))
    BY <1>1, <2>1, Kinds
  <2>3. Shown = B /\ Shown' = Contents(cache')
    BY <1>1, <2>1 DEF Shown
  <2> HIDE DEF B, u, list, K
  <2>4. EntryBytes(list) \in Nat
    BY <2>2, EntryBytesNat, SlabAssumption
  <2>5. HasRoom(Keep(B, K), EntryBytes(list))
    BY <1>1, <2>1, <2>2, <2>4, Room
  <2>6. u \in CacheUsers \ DOMAIN cache.locations
    BY <2>2 DEF K
  <2>7. Contents(AllocateNode(cache, u, list)) = Put(Contents(cache), u, list)
    BY <1>1, <2>1, <2>2, <2>6, AllocateSound
  <2>8. Put(Keep(B, K), u, list) \in InsertOutcomes(B, u, list)
    BY <2>2, <2>5, EvictedAsPromised
  <2>9. Shown' \in InsertOutcomes(Shown, u, list)
    BY <2>1, <2>2, <2>3, <2>7, <2>8
  <2>10. Contract!Insert(u, list)
    BY <2>9, ContractInsert DEF Contract!Insert, Shown
  <2> QED
    BY <2>2, <2>10 DEF Contract!Next
<1>7. CASE ClearBegin
  <2>1. /\ op = Idle /\ op' = [kind |-> "clear", before |-> Contents(cache)]
    BY <1>7 DEF ClearBegin
  <2>2. op'.kind = "clear" /\ op'.before = Contents(cache)
    BY <2>1
  <2>3. op' # Idle
    BY <1>1, <2>2
  <2> QED
    BY <2>1, <2>2, <2>3 DEF Shown
<1>8. CASE ClearOne
  <2>1. op.kind = "clear" /\ op' = op
    BY <1>8 DEF ClearOne
  <2> QED
    BY <1>1, <2>1 DEF Shown
<1>9. CASE ClearEnd
  <2>1. op' = Idle /\ cache' = cache /\ cache.head = None
    BY <1>9 DEF ClearEnd
  <2>2. DOMAIN cache.locations = {}
    BY <1>1, <2>1, NoHead
  <2>3. Contents(cache) = <<>>
    BY <2>2 DEF Contents
  <2>4. Shown' = <<>>
    BY <2>1, <2>3 DEF Shown
  <2> QED
    BY <2>4 DEF Contract!Next, Contract!Clear, Shown
<1>10. CASE UNCHANGED vars
  BY <1>10 DEF vars, Shown, Contents
<1> QED
  BY <1>2, <1>3, <1>4, <1>5, <1>6, <1>7, <1>8, <1>9, <1>10 DEF Next

\* Slab, linked list and indices implement the contract ShardedGraph is built
\* on: an insert replaces the old entry and evicts one entry at a time, only
\* while the new one has no room; an invalidation or a clear removes what it
\* names; a hit changes no entry.
THEOREM CacheImplementsContract == Spec => CacheSpec
<1>1. IInv /\ [Next]_vars => [Shown' # Shown /\ Contract!Next]_Shown
  BY StepRefines
<1> QED
  BY <1>1, InitRefines, Invariance, PTL DEF Spec, CacheSpec, Contract!Spec, Shown

-----------------------------------------------------------------------------
(* The simulator *)

\* While the simulator is compared, it is one access ahead of an insert that
\* has not ended, and of the one eviction that makes room for it.
SimInv ==
    entries # Unrelated =>
        /\ cache.policy = "Lru"
        /\ op = Idle \/ op.kind = "insert"
        /\ op = Idle => entries = history.byUse
        /\ op.kind = "insert" =>
               \/ /\ Len(history.byUse) < Capacity
                  /\ entries = Append(history.byUse, op.user)
               \/ /\ Len(history.byUse) = Capacity
                  /\ entries = Append(Tail(history.byUse), op.user)

\* As many users are listed as are cached.
LEMMA ListedCount ==
    ASSUME NEW c, NEW h, Sound(c, h)
    PROVE  /\ Len(h.byUse) = Cardinality(DOMAIN c.locations)
           /\ Len(h.byUse) \in Nat /\ Len(h.byUse) <= Capacity
           /\ h.byUse \in Seq(CacheUsers) /\ IsInjective(h.byUse)
           /\ ToSet(h.byUse) = DOMAIN c.locations
<1> DEFINE L == h.byUse
           S == DOMAIN c.locations
           n == Len(L)
           f == [k \in 1 .. n |-> L[k]]
<1>1. L \in Seq(CacheUsers) /\ IsInjective(L) /\ ToSet(L) = S
  BY DEF Sound, Recorded, Listing
<1>2. DOMAIN L = 1 .. n /\ n \in Nat
  BY <1>1
<1>3. IsFiniteSet(S) /\ Cardinality(S) <= Capacity
  BY Sizes DEF Sound, Typed, Weighed
<1>4. f \in Injection(1 .. n, S) /\ f \in Surjection(1 .. n, S)
  <2>1. /\ \A k \in 1 .. n : L[k] \in S
        /\ \A j \in 1 .. n, k \in 1 .. n : L[j] = L[k] => j = k
        /\ \A u \in S : \E k \in 1 .. n : L[k] = u
    BY <1>1, <1>2 DEF ToSet, IsInjective
  <2> HIDE DEF L, S, n
  <2> QED
    BY <2>1 DEF Injection, Surjection, IsInjective
<1> HIDE DEF f, L, S, n
<1>5. Cardinality(1 .. n) = Cardinality(S)
  BY <1>3, <1>4, FS_Injection
<1>6. Cardinality(1 .. n) = n
  <2>1. Cardinality(1 .. n) = IF 1 > n THEN 0 ELSE n - 1 + 1
    BY <1>2, FS_Interval
  <2> QED
    BY <1>2, <2>1
<1> QED
  BY <1>1, <1>2, <1>3, <1>5, <1>6 DEF L, S, n

LEMMA SimulatedStep == SimulatedNext => Next
<1> SUFFICES ASSUME SimulatedNext PROVE Next
  OBVIOUS
<1>1. ASSUME NEW u \in CacheUsers, NEW list \in CacheLists, Access(u, list) PROVE Next
  BY <1>1 DEF Access, Next
<1>2. CASE Insert
  BY <1>2 DEF Insert, Next
<1>3. CASE OtherUse
  BY <1>3 DEF OtherUse, Next
<1> QED
  BY <1>1, <1>2, <1>3 DEF SimulatedNext

\* Whatever is done to the two, the cache is used as Spec allows, so that the
\* theorems above hold of it.
THEOREM SimulatedUse == SimulatedSpec => Spec
<1>1. SimulatedInit => Init
  BY DEF SimulatedInit
<1>2. [SimulatedNext]_simulatedVars => [Next]_vars
  BY SimulatedStep DEF simulatedVars, vars
<1> QED
  BY <1>1, <1>2, PTL DEF SimulatedSpec, Spec

LEMMA InitSimulated == SimulatedInit => SimInv
<1> SUFFICES ASSUME SimulatedInit, entries # Unrelated PROVE SimInv
  BY DEF SimInv
<1>1. /\ op = Idle /\ history = [byUse |-> <<>>, byInsertion |-> <<>>, uses |-> <<>>]
      /\ cache.policy = "Lru" /\ entries = <<>>
  BY DEF SimulatedInit, Init
<1>2. op.kind # "insert" /\ history.byUse = <<>>
  BY <1>1 DEF Idle
<1> QED
  BY <1>1, <1>2 DEF SimInv

LEMMA StepSimulated == IInv /\ SimInv /\ [SimulatedNext]_simulatedVars => SimInv'
<1> SUFFICES ASSUME IInv, SimInv, [SimulatedNext]_simulatedVars, entries' # Unrelated
             PROVE  SimInv'
  BY DEF SimInv
<1> DEFINE L == history.byUse
<1>1. Sound(cache, history) /\ CallOK /\ Idle.kind = "idle"
  BY DEF IInv, Idle
<1>2. /\ Len(L) = Cardinality(DOMAIN cache.locations)
      /\ Len(L) \in Nat /\ Len(L) <= Capacity /\ Capacity \in Nat
      /\ L \in Seq(CacheUsers) /\ IsInjective(L) /\ ToSet(L) = DOMAIN cache.locations
  BY <1>1, ListedCount, CacheAssumption
<1>3. ASSUME NEW u \in CacheUsers, NEW list \in CacheLists, Access(u, list) PROVE SimInv'
  <2>1. entries # Unrelated /\ entries' = Accessed(entries, u)
    BY <1>3 DEF Access
  <2>2. CASE u \in DOMAIN cache.locations
    <3>1. /\ op = Idle /\ op' = Idle /\ history' = NotedHit(history, u)
          /\ cache' = Touched(cache, cache.locations[u])
      BY <1>3, <2>2 DEF Access, Hit
    <3>2. cache'.policy = cache.policy
      BY <1>1, <2>2, <3>1, TouchSound
    <3>3. entries = L /\ cache.policy = "Lru"
      BY <2>1, <3>1 DEF SimInv
    <3>4. entries' = Append(Without(L, u), u)
      BY <1>2, <2>1, <2>2, <3>3 DEF Accessed
    <3>5. history = [byUse |-> L, byInsertion |-> history.byInsertion, uses |-> history.uses]
      BY <1>1 DEF Sound, Recorded
    <3>6. history'.byUse = Append(Without(L, u), u)
      BY <3>1, <3>5 DEF NotedHit
    <3> HIDE DEF L
    <3> QED
      BY <1>1, <3>1, <3>2, <3>3, <3>4, <3>6 DEF SimInv
  <2>3. CASE u \notin DOMAIN cache.locations
    <3>1. /\ op = Idle /\ cache' = cache /\ history' = Forgotten(history, u)
          /\ op' = [kind |-> "insert", user |-> u, list |-> list, before |-> Contents(cache)]
      BY <1>3, <2>3 DEF Access, InsertBegin
    <3>2. history' = history
      BY <1>1, <2>3, <3>1, ForgottenAbsent
    <3>3. entries = L /\ cache.policy = "Lru"
      BY <2>1, <3>1 DEF SimInv
    <3>4. entries' = IF Len(L) = Capacity THEN Append(Tail(L), u) ELSE Append(L, u)
      BY <1>2, <2>1, <2>3, <3>3 DEF Accessed
    <3>5. op'.kind = "insert" /\ op'.user = u
      BY <3>1
    <3>6. op' # Idle
      BY <1>1, <3>5
    <3> QED
      BY <1>2, <3>1, <3>2, <3>3, <3>4, <3>5, <3>6 DEF SimInv
  <2> QED
    BY <2>2, <2>3
<1>4. CASE Insert
  <2>1. CASE InsertEvict
    <3> DEFINE i == EvictionCandidate(cache)
               v == cache.nodes[i].user_id
    <3>1. /\ op.kind = "insert" /\ op' = op /\ MustEvict(cache, EntryBytes(op.list))
          /\ cache' = RemoveNode(cache, i) /\ history' = Forgotten(history, v)
      BY <2>1 DEF InsertEvict
    <3>2. ~(Cardinality(DOMAIN cache.locations) < Capacity) /\ entries' = entries
      BY <1>4, <2>1 DEF Insert
    <3>3. op # Idle /\ entries # Unrelated
      BY <1>1, <3>1, <3>2
    <3>4. cache.policy = "Lru" /\ Len(L) = Capacity /\ entries = Append(Tail(L), op.user)
      BY <1>2, <3>1, <3>2, <3>3 DEF SimInv
    <3>5. op.list \in CacheLists /\ ~Oversized(op.list)
      BY <1>1, <3>1, Kinds
    <3>6. Occ(cache) # {} /\ i = cache.head /\ Order(cache, history) = L
      BY <1>1, <3>1, <3>4, <3>5, EvictionOccupied DEF EvictionCandidate, Order
    <3>7. i \in Occ(cache) /\ L # <<>> /\ v = L[1]
      BY <1>1, <3>6, ListVictim
    <3>8. v \in DOMAIN cache.locations /\ cache.locations[v] = i
      BY <1>1, <3>7, SlotOwner
    <3> HIDE DEF i, v
    <3>9. cache'.policy = "Lru"
      BY <1>1, <3>1, <3>4, <3>8, RemoveSound
    <3>10. history'.byUse = Without(L, v)
      BY <3>1 DEF Forgotten
    <3> HIDE DEF L
    <3>11. Without(L, v) = Tail(L)
      BY <1>2, <3>7, WithoutFirst
    <3>12. Len(Tail(L)) = Capacity - 1
      BY <1>2, <3>4, <3>7
    <3> QED
      BY <1>2, <3>1, <3>3, <3>4, <3>2, <3>9, <3>10, <3>11, <3>12 DEF SimInv
  <2>2. CASE InsertEnd
    <3>1. /\ op.kind = "insert" /\ op' = Idle /\ ~MustEvict(cache, EntryBytes(op.list))
          /\ cache' = AllocateNode(cache, op.user, op.list)
          /\ history' = NotedInsert(history, op.user)
      BY <2>2 DEF InsertEnd
    <3>2. entries' = entries
      BY <1>4, <3>1 DEF Insert, InsertEvict
    <3>3. op.list \in CacheLists /\ op.user \in CacheUsers \ DOMAIN cache.locations
      BY <1>1, <3>1, Kinds
    <3>4. cache'.policy = cache.policy
      BY <1>1, <3>1, <3>3, AllocateSound
    <3>5. Cardinality(DOMAIN cache.locations) < Capacity
      <4> DEFINE n == Cardinality(DOMAIN cache.locations)
      <4>1. ~(n >= Capacity)
        BY <3>1 DEF MustEvict
      <4>2. n \in Nat
        BY <1>2
      <4> HIDE DEF n
      <4>3. n < Capacity
        BY <1>2, <4>1, <4>2
      <4> QED
        BY <4>3 DEF n
    <3>6. cache.policy = "Lru" /\ entries = Append(L, op.user)
      BY <1>2, <3>1, <3>2, <3>5 DEF SimInv
    <3>7. history'.byUse = Append(L, op.user)
      BY <3>1 DEF NotedInsert
    <3>8. op'.kind # "insert"
      BY <1>1, <3>1
    <3> QED
      BY <3>1, <3>2, <3>4, <3>6, <3>7, <3>8 DEF SimInv
  <2> QED
    BY <1>4, <2>1, <2>2 DEF Insert
<1>5. CASE OtherUse
  BY <1>5 DEF OtherUse
<1>6. CASE UNCHANGED simulatedVars
  BY <1>6 DEF simulatedVars, SimInv
<1> QED
  BY <1>3, <1>4, <1>5, <1>6 DEF SimulatedNext

\* The benchmark's IdLruSimulator (src/cache.rs) holds what the real cache
\* holds, in the order in which that one would evict it, as long as the cache
\* never evicts for its bytes: the hits it counts are those of the cache.
THEOREM SimulatorAlwaysAgrees == SimulatedSpec => []SimulatorAgrees
<1>1. ASSUME IInv, SimInv PROVE SimulatorAgrees
  <2> SUFFICES ASSUME op = Idle, entries # Unrelated
               PROVE  entries = [k \in DOMAIN Chain |-> cache.nodes[Chain[k]].user_id]
    BY DEF SimulatorAgrees
  <2> DEFINE L == history.byUse
  <2>1. Sound(cache, history) /\ cache.policy = "Lru" /\ entries = L
    BY <1>1 DEF IInv, SimInv
  <2>2. Chain = Positions(cache, L)
    BY <2>1, ChainInOrder DEF Order
  <2>3. L \in Seq(CacheUsers) /\ ToSet(L) = DOMAIN cache.locations
    BY <2>1, ListedCount
  <2>4. \A u \in DOMAIN cache.locations : cache.nodes[cache.locations[u]].user_id = u
    BY <2>1 DEF Sound, Paired
  <2> HIDE DEF L
  <2>5. DOMAIN Chain = DOMAIN L /\ \A k \in DOMAIN L : Chain[k] = cache.locations[L[k]]
    BY <2>2 DEF Positions
  <2>6. \A k \in DOMAIN L : cache.nodes[Chain[k]].user_id = L[k]
    BY <2>3, <2>4, <2>5 DEF ToSet
  <2>7. L = [k \in DOMAIN L |-> L[k]]
    BY <2>3
  <2> QED
    BY <2>1, <2>5, <2>6, <2>7
<1>2. SimulatedSpec => []IInv
  BY SimulatedUse, Invariance, PTL
<1> QED
  BY <1>1, <1>2, InitSimulated, StepSimulated, PTL DEF SimulatedSpec

==============================================================================
