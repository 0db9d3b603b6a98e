------------------------- MODULE ShardedGraphProofs --------------------------
(***************************************************************************)
(* Proofs about ShardedGraph, for every number of users and shards, every  *)
(* placement and every cache limit: first for replica-aware callers, then  *)
(* for every caller.  The last part is about the three ways to run a query *)
(* of ShardedQueries.                                                      *)
(***************************************************************************)
EXTENDS ShardedQueries, AdjacencyListProofs, FiniteSetTheorems

-----------------------------------------------------------------------------
(* Caches *)

\* Every entry of c is the list that lists gives for its user.
Holds(c, lists) == \A u \in DOMAIN c : u \in Users /\ c[u] = lists[u]

\* Invalidating u leaves the other entries, and none of u.
LEMMA DropEntries ==
    ASSUME NEW c, NEW u
    PROVE  /\ DOMAIN Drop(c, u) = DOMAIN c \ {u}
           /\ \A v \in DOMAIN c \ {u} : Drop(c, u)[v] = c[v]
  BY DEF Drop, Keep

\* An insertion evicts what it likes but never alters another user's entry.
LEMMA InsertEntries ==
    ASSUME NEW c, NEW u, NEW list, NEW d \in InsertOutcomes(c, u, list)
    PROVE  /\ DOMAIN d \subseteq DOMAIN c \cup {u}
           /\ \A v \in DOMAIN d : d[v] = IF v = u THEN list ELSE c[v]
<1>1. CASE Oversized(list)
  <2>1. d = Drop(c, u)
    BY <1>1 DEF InsertOutcomes
  <2> QED
    BY <2>1 DEF Drop, Keep
<1>2. CASE ~Oversized(list)
  <2>1. PICK K \in Survivors(Drop(c, u), EntryBytes(list)) :
            d = Put(Keep(c, K), u, list)
    BY <1>2 DEF InsertOutcomes
  <2>2. K \subseteq DOMAIN c \ {u}
    BY DropEntries DEF Survivors
  <2>3. DOMAIN Keep(c, K) = K /\ \A v \in K : Keep(c, K)[v] = c[v]
    BY <2>2 DEF Keep
  <2> QED
    BY <2>1, <2>2, <2>3 DEF Put
<1> QED
  BY <1>1, <1>2

\* A filled cache holds lists of the shard it is filled from.
LEMMA FillEntries ==
    ASSUME NEW lists, NEW S \in SUBSET DOMAIN lists, NEW newest,
           NEW d \in FillOutcomes(lists, S, newest)
    PROVE  /\ DOMAIN d \subseteq S
           /\ \A v \in DOMAIN d : d[v] = lists[v]
<1>1. PICK K \in SUBSET S : d = Keep(lists, K)
  BY DEF FillOutcomes
<1> QED
  BY <1>1 DEF Keep

\* A coherent cache stays coherent when an entry is inserted with the list the
\* shard has for it afterwards, the other lists of the shard unchanged.
LEMMA InsertHolds ==
    ASSUME NEW c, NEW u \in Users, NEW old, NEW new, Holds(c, old),
           \A v \in Users \ {u} : new[v] = old[v],
           NEW d \in InsertOutcomes(c, u, new[u])
    PROVE  Holds(d, new)
<1>1. /\ DOMAIN d \subseteq DOMAIN c \cup {u}
      /\ \A v \in DOMAIN d : d[v] = IF v = u THEN new[u] ELSE c[v]
  BY InsertEntries
<1> QED
  BY <1>1 DEF Holds

\* It stays coherent when the entry of the only list that changed is dropped.
LEMMA DropHolds ==
    ASSUME NEW c, NEW u \in Users, NEW old, NEW new, Holds(c, old),
           \A v \in Users \ {u} : new[v] = old[v]
    PROVE  Holds(Drop(c, u), new)
<1> SUFFICES ASSUME NEW v \in DOMAIN c \ {u}
             PROVE  v \in Users /\ Drop(c, u)[v] = new[v]
  BY DropEntries DEF Holds
<1>1. v \in Users \ {u} /\ c[v] = old[v]
  BY DEF Holds
<1> QED
  BY <1>1, DropEntries

-----------------------------------------------------------------------------
(* The inductive invariant *)

\* Facts about homes and known users, used throughout.
LEMMA HomeFacts ==
    ASSUME TypeOK
    PROVE  /\ \A u \in Placed : u \in Users /\ Home[u] \in Shards
           /\ \A u \in Placed : Following(u) = follows[Home[u]][u] /\ Following(u) \in Seq(Users)
           /\ \A u : Known(u) => u \in Placed
  BY ShardedAssumption DEF TypeOK, Placed, Following, Known

\* The caches, seen through Holds.
LEMMA CachesHold ==
    ASSUME TypeOK, CachesCoherent
    PROVE  \A s \in Shards : Holds(cache[s], follows[s])
  BY DEF TypeOK, CachesCoherent, Holds

\* And back: caches that hold the lists of their shards are typed and coherent.
LEMMA HoldsCaches ==
    ASSUME follows \in [Shards -> [Users -> Seq(Users)]],
           \A s \in Shards : Holds(cache[s], follows[s])
    PROVE  /\ \A s \in Shards : DOMAIN cache[s] \subseteq Users
           /\ \A s \in Shards : \A u \in DOMAIN cache[s] : cache[s][u] \in Seq(Users)
           /\ CachesCoherent
<1>1. \A s \in Shards : \A u \in DOMAIN cache[s] :
          u \in Users /\ cache[s][u] = follows[s][u] /\ follows[s][u] \in Seq(Users)
  BY DEF Holds
<1> QED
  BY <1>1 DEF CachesCoherent

\* No user exists, so nothing is there to disagree.
LEMMA InitIInv == Init => IInv
<1> SUFFICES ASSUME Init PROVE IInv
  OBVIOUS
<1> USE DEF Init, Idle, CallOK
<1>1. follows \in [Shards -> [Users -> Seq(Users)]]
  OBVIOUS
<1>2. \A s \in Shards : Holds(cache[s], follows[s])
  BY DEF Holds
<1>3. TypeOK
  <2>1. observed \in [Shards -> [Users -> Nat]]
    OBVIOUS
  <2> QED
    BY <1>1, <1>2, <2>1, HoldsCaches DEF TypeOK
<1>4. EdgesKnown
  BY <1>3, HomeFacts DEF EdgesKnown, ToSet
<1>5. NoLeftovers
  BY <1>3, HomeFacts DEF NoLeftovers, ReplicaShards
<1>6. NoRepeats
  BY <1>3, HomeFacts DEF NoRepeats, IsInjective
<1> QED
  BY <1>1, <1>2, <1>3, <1>4, <1>5, <1>6, HoldsCaches DEF IInv, ReplicasMirrorHome, QueryPartial

\* A change of u's list on all its copies, with the cached copies dropped,
\* keeps the invariant: replicas and home stay equal, caches coherent.
LEMMA EditStep ==
    ASSUME IInv, op = Idle,
           NEW u, Known(u),
           NEW L \in Seq(Users), \A v \in ToSet(L) : Known(v), IsInjective(L),
           follows' = [s \in Shards |-> IF s \in Copies(u)
                                        THEN [follows[s] EXCEPT ![u] = L] ELSE follows[s]],
           cache' = [s \in Shards |-> IF s \in Copies(u)
                                      THEN Drop(cache[s], u) ELSE cache[s]],
           UNCHANGED <<users, observed, replicated, op>>
    PROVE  IInv'
<1> USE DEF IInv
<1>1. u \in Users /\ u \in Placed /\ Home[u] \in Shards /\ Home[u] \in Copies(u)
  BY HomeFacts DEF Copies
<1>2. follows' \in [Shards -> [Users -> Seq(Users)]]
  BY DEF TypeOK
<1>3. \A s \in Shards : Holds(cache'[s], follows'[s])
  <2> TAKE s \in Shards
  <2>1. Holds(cache[s], follows[s])
    BY CachesHold
  <2>2. CASE s \in Copies(u)
    <3>1. \A v \in Users \ {u} : follows'[s][v] = follows[s][v]
      BY <2>2 DEF TypeOK
    <3>2. cache'[s] = Drop(cache[s], u)
      BY <2>2
    <3>3. \A c, old, new : Holds(c, old) /\ (\A v \in Users \ {u} : new[v] = old[v])
                               => Holds(Drop(c, u), new)
      BY <1>1, DropHolds
    <3>4. Holds(Drop(cache[s], u), follows'[s])
      BY <2>1, <3>1, <3>3
    <3> QED
      BY <3>2, <3>4
  <2>3. CASE s \notin Copies(u)
    BY <2>1, <2>3
  <2> QED
    BY <2>2, <2>3
<1>4. CachesCoherent'
  BY <1>2, <1>3 DEF CachesCoherent, Holds
<1>5. TypeOK'
  <2>1. ASSUME NEW s \in Shards, NEW v \in DOMAIN cache'[s]
        PROVE  v \in Users /\ cache'[s][v] \in Seq(Users)
    <3>1. v \in Users /\ cache'[s][v] = follows'[s][v]
      BY <1>3 DEF Holds
    <3> QED
      BY <1>2, <3>1
  <2>2. op' = Idle
    OBVIOUS
  <2> QED
    BY <1>2, <2>1, <2>2 DEF TypeOK, CallOK
<1>6. \A w : Known(w)' <=> Known(w)
  BY DEF Known
<1>7. /\ Following(u)' = L
      /\ \A w \in Placed \ {u} : Following(w)' = Following(w)
  BY <1>1, HomeFacts DEF Following, TypeOK, Copies
<1>8. EdgesKnown'
  BY <1>1, <1>6, <1>7 DEF EdgesKnown
<1>9. ReplicasMirrorHome'
  <2> SUFFICES ASSUME NEW w \in replicated, NEW s \in Shards
               PROVE  w \in users[s] /\ follows'[s][w] = Following(w)'
    BY DEF ReplicasMirrorHome
  <2>1. w \in users[s] /\ follows[s][w] = Following(w) /\ w \in Placed /\ w \in Users
    BY HomeFacts DEF ReplicasMirrorHome, TypeOK
  <2>2. CASE w = u
    BY <1>1, <1>7, <2>1, <2>2 DEF Copies, TypeOK
  <2>3. CASE w # u
    BY <1>7, <2>1, <2>3 DEF TypeOK
  <2> QED
    BY <2>2, <2>3
<1>10. NoLeftovers'
  <2> SUFFICES ASSUME NEW w \in Placed \ replicated, NEW s \in ReplicaShards(w)
               PROVE  w \notin users[s] /\ follows'[s][w] = <<>>
    BY DEF NoLeftovers
  <2>1. w \notin users[s] /\ follows[s][w] = <<>> /\ s \in Shards /\ s # Home[w]
    BY DEF NoLeftovers, ReplicaShards
  <2>2. CASE w = u
    BY <2>1, <2>2 DEF Copies
  <2>3. CASE w # u
    BY <2>1, <2>3, HomeFacts DEF TypeOK
  <2> QED
    BY <2>1, <2>2, <2>3
<1>11. QueryPartial'
  BY DEF QueryPartial, Idle
<1>12. NoRepeats'
  BY <1>1, <1>7 DEF NoRepeats, Placed
<1> QED
  BY <1>4, <1>5, <1>8, <1>9, <1>10, <1>11, <1>12

\* A step that leaves users, lists and replicas alone keeps the invariant when
\* it keeps the caches coherent and the call under way consistent.
LEMMA LookStep ==
    ASSUME IInv, UNCHANGED <<users, follows, replicated>>,
           \A s \in Shards : Holds(cache'[s], follows[s]),
           observed' \in [Shards -> [Users -> Nat]],
           CallOK', QueryPartial'
    PROVE  IInv'
<1> USE DEF IInv
<1>1. ASSUME NEW s \in Shards, NEW v \in DOMAIN cache'[s]
      PROVE  v \in Users /\ cache'[s][v] = follows[s][v] /\ cache'[s][v] \in Seq(Users)
  <2>1. v \in Users /\ cache'[s][v] = follows[s][v]
    BY DEF Holds
  <2> QED
    BY <2>1 DEF TypeOK
<1>2. TypeOK' /\ CachesCoherent'
  BY <1>1 DEF TypeOK, CachesCoherent, Placed
<1>3. EdgesKnown'
  BY DEF EdgesKnown, Known, Following, Placed
<1>4. ReplicasMirrorHome' /\ NoLeftovers' /\ NoRepeats'
  BY DEF ReplicasMirrorHome, NoLeftovers, NoRepeats, Following, Placed, ReplicaShards
<1> QED
  BY <1>2, <1>3, <1>4

\* add_user: the newcomer has no edges yet, here or elsewhere.
LEMMA NewUserStep ==
    ASSUME IInv, NEW u \in Users, NewUser(u)
    PROVE  IInv'
<1> USE DEF IInv, NewUser
<1>1. \A w : Known(w) => Known(w)'
  BY DEF Known, TypeOK, Placed
<1>2. TypeOK'
  BY DEF TypeOK, CallOK, Placed, Idle
<1>3. EdgesKnown'
  BY <1>1 DEF EdgesKnown, Following, Placed
<1>4. ReplicasMirrorHome'
  BY DEF ReplicasMirrorHome, Following, Placed, TypeOK
<1>5. NoLeftovers'
  <2> SUFFICES ASSUME NEW w \in Placed \ replicated, NEW s \in ReplicaShards(w)
               PROVE  w \notin users'[s] /\ follows[s][w] = <<>>
    BY DEF NoLeftovers, Placed
  <2>1. w \notin users[s] /\ follows[s][w] = <<>> /\ s \in Shards /\ s # Home[w]
    BY DEF NoLeftovers, ReplicaShards
  <2> QED
    BY <2>1 DEF TypeOK
<1> QED
  BY <1>2, <1>3, <1>4, <1>5
     DEF CachesCoherent, QueryPartial, NoRepeats, Following, Placed, Idle

\* Edge mutations by the replica-aware methods.
LEMMA FollowStep ==
    ASSUME IInv, NEW u \in Users, NEW v \in Users, Follow(u, v, Copies(u))
    PROVE  IInv'
<1> DEFINE L == WithTarget(Following(u), v)
<1> USE DEF IInv, Follow
<1>1. Following(u) \in Seq(Users) /\ u \in Placed /\ Home[u] \in Shards
  BY HomeFacts
<1>2. /\ L \in Seq(Users) /\ ToSet(L) \subseteq ToSet(Following(u)) \cup {v}
      /\ IsInjective(L)
  BY <1>1, WithTargetList, WithTargetInjective DEF NoRepeats
<1>3. \A w \in ToSet(L) : Known(w)
  BY <1>1, <1>2 DEF EdgesKnown
<1>4. \A s \in Copies(u) : s \in Shards /\ u \in users[s] /\ follows[s][u] = Following(u)
  BY <1>1, HomeFacts DEF Copies, ReplicasMirrorHome, Known
<1>5. follows' = [s \in Shards |-> IF s \in Copies(u)
                                   THEN [follows[s] EXCEPT ![u] = L] ELSE follows[s]]
  BY <1>4
<1> HIDE DEF L
<1> QED
  BY <1>2, <1>3, <1>5, EditStep

\* Likewise for the removal of an edge.
LEMMA UnfollowStep ==
    ASSUME IInv, NEW u \in Users, NEW v \in Users, Unfollow(u, v, Copies(u))
    PROVE  IInv'
<1> DEFINE L == Without(Following(u), v)
<1> USE DEF IInv, Unfollow
<1>1. Following(u) \in Seq(Users) /\ u \in Placed /\ Home[u] \in Shards
  BY HomeFacts
<1>2. /\ L \in Seq(Users) /\ ToSet(L) \subseteq ToSet(Following(u))
      /\ IsInjective(L)
  BY <1>1, WithoutList, WithoutInjective DEF NoRepeats
<1>3. \A w \in ToSet(L) : Known(w)
  BY <1>1, <1>2 DEF EdgesKnown
<1>4. \A s \in Copies(u) : s \in Shards /\ u \in users[s] /\ follows[s][u] = Following(u)
  BY <1>1, HomeFacts DEF Copies, ReplicasMirrorHome, Known
<1>5. follows' = [s \in Shards |-> IF s \in Copies(u)
                                   THEN [follows[s] EXCEPT ![u] = L] ELSE follows[s]]
  BY <1>4
<1> HIDE DEF L
<1> QED
  BY <1>2, <1>3, <1>5, EditStep

\* replicate_user: with nothing left over from an earlier replica, every shard
\* ends up with the home list, and so does its cache.
LEMMA ReplicateStep ==
    ASSUME IInv, NEW u \in Users, Replicate(u), CallOK', op'.kind # "query"
    PROVE  IInv'
<1> DEFINE F == Following(u)
<1> USE DEF IInv
<1>1. /\ u \in Placed /\ Home[u] \in Shards /\ u \in users[Home[u]]
      /\ F \in Seq(Users) /\ F = follows[Home[u]][u]
  BY HomeFacts DEF Replicate, Known
<1>2. \A s \in ReplicaShards(u) : s \in Shards /\ s # Home[u] /\ follows[s][u] = <<>>
  BY <1>1 DEF NoLeftovers, ReplicaShards, Replicate
<1>3. \A s \in Shards \ {Home[u]} : Merge(follows[s][u], F) = F
  <2>1. Merge(<<>>, F) = F
    BY <1>1, MergeCopies DEF NoRepeats
  <2> QED
    BY <1>2, <2>1 DEF ReplicaShards
<1>4. follows' = [s \in Shards |-> IF s = Home[u] THEN follows[s]
                                   ELSE [follows[s] EXCEPT ![u] = F]]
  BY <1>3 DEF Replicate
<1>5. /\ users' = [s \in Shards |-> users[s] \cup {u}]
      /\ replicated' = replicated \cup {u}
      /\ observed' = observed
  BY DEF Replicate
<1> HIDE DEF F
<1>6. follows' \in [Shards -> [Users -> Seq(Users)]]
  BY <1>1, <1>4 DEF TypeOK
<1>7. \A s \in Shards : /\ follows'[s][u] = F
                        /\ \A w \in Users \ {u} : follows'[s][w] = follows[s][w]
  BY <1>1, <1>4 DEF TypeOK
<1>8. \A s \in Shards : Holds(cache'[s], follows'[s])
  <2> TAKE s \in Shards
  <2>1. Holds(cache[s], follows[s])
    BY CachesHold
  <2>2. cache'[s] \in (IF s = Home[u] THEN {cache[s]} ELSE InsertOutcomes(cache[s], u, F))
    BY DEF Replicate, F
  <2>3. CASE s = Home[u]
    BY <1>4, <2>1, <2>2, <2>3
  <2>4. CASE s # Home[u]
    <3>1. \A c, old, new, d :
              Holds(c, old) /\ (\A w \in Users \ {u} : new[w] = old[w])
                  /\ d \in InsertOutcomes(c, u, new[u]) => Holds(d, new)
      BY InsertHolds
    <3>2. cache'[s] \in InsertOutcomes(cache[s], u, follows'[s][u])
      BY <1>7, <2>2, <2>4
    <3> QED
      BY <1>7, <2>1, <3>1, <3>2
  <2> QED
    BY <2>3, <2>4
<1>9. TypeOK'
  <2>1. ASSUME NEW s \in Shards, NEW v \in DOMAIN cache'[s]
        PROVE  v \in Users /\ cache'[s][v] \in Seq(Users)
    <3>1. v \in Users /\ cache'[s][v] = follows'[s][v]
      BY <1>8 DEF Holds
    <3> QED
      BY <1>6, <3>1
  <2> QED
    BY <1>1, <1>5, <1>6, <2>1 DEF TypeOK, Placed
<1>10. CachesCoherent'
  BY <1>8 DEF CachesCoherent, Holds
<1>11. \A w \in Placed : Following(w)' = Following(w)
  BY <1>1, <1>7, HomeFacts DEF Following, Placed
<1>12. EdgesKnown'
  <2>1. \A w : Known(w) => Known(w)'
    BY <1>5, HomeFacts DEF Known, Placed
  <2> QED
    BY <1>11, <2>1 DEF EdgesKnown, Placed
<1>13. ReplicasMirrorHome'
  <2> SUFFICES ASSUME NEW w \in replicated \cup {u}, NEW s \in Shards
               PROVE  w \in users'[s] /\ follows'[s][w] = Following(w)'
    BY <1>5 DEF ReplicasMirrorHome
  <2>1. CASE w = u
    BY <1>1, <1>5, <1>7, <1>11, <2>1 DEF F
  <2>2. CASE w # u
    <3>1. w \in replicated /\ w \in Placed /\ w \in Users
      BY <2>2, HomeFacts DEF TypeOK
    <3> QED
      BY <1>5, <1>7, <1>11, <2>2, <3>1 DEF ReplicasMirrorHome
  <2> QED
    BY <2>1, <2>2
<1>14. NoLeftovers'
  <2> SUFFICES ASSUME NEW w \in Placed \ (replicated \cup {u}), NEW s \in ReplicaShards(w)
               PROVE  w \notin users'[s] /\ follows'[s][w] = <<>>
    BY <1>5 DEF NoLeftovers, Placed, ReplicaShards
  <2>1. w \notin users[s] /\ follows[s][w] = <<>> /\ s \in Shards /\ w \in Users \ {u}
    BY HomeFacts DEF NoLeftovers, ReplicaShards
  <2> QED
    BY <1>5, <1>7, <2>1
<1>15. QueryPartial'
  BY DEF QueryPartial
<1>16. NoRepeats'
  BY <1>11 DEF NoRepeats, Placed
<1> QED
  BY <1>9, <1>10, <1>12, <1>13, <1>14, <1>15, <1>16

\* unreplicate_user: the home list covers all a replica holds, so nothing stays.
LEMMA UnreplicateStep ==
    ASSUME IInv, NEW u \in Users, UnreplicateUser(u)
    PROVE  IInv'
<1> USE DEF IInv
<1>1. u \in Placed /\ Home[u] \in Shards /\ Following(u) = follows[Home[u]][u]
  BY HomeFacts DEF UnreplicateUser, TypeOK
<1>2. \A s \in Shards : u \in users[s] /\ follows[s][u] = Following(u)
  BY DEF ReplicasMirrorHome, UnreplicateUser
<1>3. \A s \in ReplicaShards(u) : Minus(follows[s][u], Append(Following(u), u)) = <<>>
  <2>1. Following(u) \in Seq(Users) /\ IsInjective(Following(u))
    BY <1>1, HomeFacts DEF NoRepeats
  <2>2. Minus(Following(u), Append(Following(u), u)) = <<>>
    BY <2>1, MinusAll
  <2> QED
    BY <1>2, <2>2 DEF ReplicaShards
<1>4. follows' = [s \in Shards |-> IF s = Home[u] THEN follows[s]
                                   ELSE [follows[s] EXCEPT ![u] = <<>>]]
  BY <1>2, <1>3 DEF UnreplicateUser, ReplicaShards
<1>5. /\ users' = [s \in Shards |-> IF s = Home[u] THEN users[s] ELSE users[s] \ {u}]
      /\ cache' = [s \in Shards |-> IF s = Home[u] THEN cache[s] ELSE Drop(cache[s], u)]
      /\ replicated' = replicated \ {u}
      /\ UNCHANGED <<observed, op>> /\ op = Idle
  BY DEF UnreplicateUser
<1>6. follows' \in [Shards -> [Users -> Seq(Users)]]
  BY <1>4 DEF TypeOK
<1>7. \A s \in Shards : \A w \in Users \ {u} : follows'[s][w] = follows[s][w]
  BY <1>4 DEF TypeOK
<1>8. \A s \in Shards : Holds(cache'[s], follows'[s])
  <2> TAKE s \in Shards
  <2>1. Holds(cache[s], follows[s])
    BY CachesHold
  <2>2. CASE s = Home[u]
    BY <1>4, <1>5, <2>1, <2>2
  <2>3. CASE s # Home[u]
    <3>1. \A c, old, new : Holds(c, old) /\ (\A v \in Users \ {u} : new[v] = old[v])
                               => Holds(Drop(c, u), new)
      BY DropHolds
    <3>2. Holds(Drop(cache[s], u), follows'[s])
      BY <1>7, <2>1, <3>1
    <3> QED
      BY <1>5, <2>3, <3>2
  <2> QED
    BY <2>2, <2>3
<1>9. TypeOK'
  <2>1. ASSUME NEW s \in Shards, NEW v \in DOMAIN cache'[s]
        PROVE  v \in Users /\ cache'[s][v] \in Seq(Users)
    <3>1. v \in Users /\ cache'[s][v] = follows'[s][v]
      BY <1>8 DEF Holds
    <3> QED
      BY <1>6, <3>1
  <2> QED
    BY <1>1, <1>5, <1>6, <2>1 DEF TypeOK, Placed, CallOK, Idle
<1>10. CachesCoherent'
  BY <1>8 DEF CachesCoherent, Holds
<1>11. \A w \in Placed : Following(w)' = Following(w)
  BY <1>1, <1>4, <1>7, HomeFacts DEF Following, Placed
<1>12. EdgesKnown'
  <2>1. \A w : Known(w) => Known(w)'
    BY <1>5, HomeFacts DEF Known, Placed
  <2> QED
    BY <1>11, <2>1 DEF EdgesKnown, Placed
<1>13. ReplicasMirrorHome'
  <2> SUFFICES ASSUME NEW w \in replicated \ {u}, NEW s \in Shards
               PROVE  w \in users'[s] /\ follows'[s][w] = Following(w)'
    BY <1>5 DEF ReplicasMirrorHome
  <2>1. w \in Placed /\ w \in Users
    BY HomeFacts DEF TypeOK
  <2> QED
    BY <1>5, <1>7, <1>11, <2>1 DEF ReplicasMirrorHome
<1>14. NoLeftovers'
  <2> SUFFICES ASSUME NEW w \in Placed, w \notin replicated \ {u}, NEW s \in ReplicaShards(w)
               PROVE  w \notin users'[s] /\ follows'[s][w] = <<>>
    BY <1>5 DEF NoLeftovers, Placed, ReplicaShards
  <2>1. CASE w = u
    BY <1>4, <1>5, <2>1 DEF ReplicaShards, TypeOK
  <2>2. CASE w # u
    <3>1. w \notin users[s] /\ follows[s][w] = <<>> /\ s \in Shards /\ w \in Users \ {u}
      BY <2>2, HomeFacts DEF NoLeftovers, ReplicaShards
    <3> QED
      BY <1>5, <1>7, <3>1
  <2> QED
    BY <2>1, <2>2
<1>15. QueryPartial'
  BY <1>5 DEF QueryPartial, Idle
<1>16. NoRepeats'
  BY <1>11 DEF NoRepeats, Placed
<1> QED
  BY <1>9, <1>10, <1>12, <1>13, <1>14, <1>15, <1>16

\* Starting or ending a call, and skipping or refusing a hub, only moves `op'.
LEMMA CallStep ==
    ASSUME IInv, UNCHANGED <<users, follows, cache, observed, replicated>>, CallOK', QueryPartial'
    PROVE  IInv'
<1>1. \A s \in Shards : Holds(cache'[s], follows[s])
  BY CachesHold DEF IInv
<1>2. observed' \in [Shards -> [Users -> Nat]]
  BY DEF IInv, TypeOK
<1> QED
  BY <1>1, <1>2, LookStep

LEMMA HubsStep ==
    ASSUME IInv, \/ \E hubs \in SeqOf(Users, MaxHubs) : HubsBegin(hubs)
                 \/ HubsReplicate \/ HubsSkip \/ HubsAbort \/ HubsEnd
    PROVE  IInv'
<1> USE DEF IInv
<1>1. ASSUME NEW hubs \in SeqOf(Users, MaxHubs), HubsBegin(hubs) PROVE IInv'
  <2>1. hubs \in Seq(Users)
    BY DEF SeqOf
  <2> QED
    BY <1>1, <2>1, CallStep DEF HubsBegin, CallOK, QueryPartial
<1>2. CASE HubsSkip
  <2>1. op.kind = "hubs" /\ op \in [kind : {"hubs"}, todo : Seq(Users)] /\ op.todo # <<>>
    BY <1>2 DEF HubsSkip, TypeOK, CallOK, Idle
  <2>2. CallOK' /\ op'.kind = "hubs"
    <3>1. Tail(op.todo) \in Seq(Users)
      BY <2>1
    <3>2. op' = [op EXCEPT !.todo = Tail(op.todo)]
      BY <1>2 DEF HubsSkip
    <3>3. op' \in [kind : {"hubs"}, todo : Seq(Users)]
      BY <2>1, <3>1, <3>2
    <3> QED
      BY <3>3 DEF CallOK
  <2> QED
    BY <1>2, <2>2, CallStep DEF HubsSkip, QueryPartial
<1>3. CASE HubsAbort \/ HubsEnd
  BY <1>3, CallStep DEF HubsAbort, HubsEnd, CallOK, QueryPartial, Idle
<1>4. CASE HubsReplicate
  <2>1. op.kind = "hubs" /\ op \in [kind : {"hubs"}, todo : Seq(Users)] /\ op.todo # <<>>
    BY <1>4 DEF HubsReplicate, TypeOK, CallOK, Idle
  <2>2. Head(op.todo) \in Users
    BY <2>1
  <2>3. CallOK' /\ op'.kind # "query"
    <3>1. Tail(op.todo) \in Seq(Users)
      BY <2>1
    <3>2. op' = [op EXCEPT !.todo = Tail(op.todo)]
      BY <1>4 DEF HubsReplicate
    <3>3. op' \in [kind : {"hubs"}, todo : Seq(Users)]
      BY <2>1, <3>1, <3>2
    <3> QED
      BY <3>3 DEF CallOK
  <2> QED
    BY <1>4, <2>2, <2>3, ReplicateStep DEF HubsReplicate
<1> QED
  BY <1>1, <1>2, <1>3, <1>4

\* A query copies the first hops, then adds what one more list holds: read on
\* a replica or at home, cached or not, it is the home list.
LEMMA QueryBeginStep ==
    ASSUME IInv, NEW u \in Users, QueryBegin(u)
    PROVE  IInv'
<1> USE DEF IInv, QueryBegin
<1>1. Following(u) \in Seq(Users)
  BY HomeFacts
<1>2. CallOK'
  BY <1>1 DEF CallOK, Placed
<1>3. QueryPartial'
  <2>1. op' = [kind |-> "query", source |-> u, hops |-> Following(u), read |-> 0, ids |-> {}]
    OBVIOUS
  <2>2. (op.hops = Following(op.source))'
    BY <2>1 DEF Following, Placed
  <2>3. op'.ids = Found(Lists', op'.hops, op'.read, op'.source)
    BY <2>1 DEF Found
  <2>4. op'.read \in 0 .. Len(op'.hops)
    BY <1>1, <2>1
  <2> QED
    BY <2>2, <2>3, <2>4 DEF QueryPartial
<1> QED
  BY <1>2, <1>3, CallStep

LEMMA QueryReadStep ==
    ASSUME IInv, QueryRead
    PROVE  IInv'
<1> USE DEF IInv
<1> DEFINE v == op.hops[op.read + 1]
           s == LocalFirst(v, Home[op.source])
           hit == v \in DOMAIN cache[s]
           list == IF hit THEN cache[s][v] ELSE follows[s][v]
<1>1. /\ op \in [kind : {"query"}, source : Placed, hops : Seq(Users), read : Nat, ids : SUBSET Users]
      /\ op.read < Len(op.hops)
  <2>1. op.kind = "query" /\ op.read < Len(op.hops)
    BY DEF QueryRead
  <2>2. CallOK
    BY DEF TypeOK
  <2> QED
    BY <2>1, <2>2 DEF CallOK, Idle
<1>2. /\ op.hops = Following(op.source)
      /\ op.ids = Found(Lists, op.hops, op.read, op.source)
  BY <1>1 DEF QueryPartial
<1>3. v \in ToSet(Following(op.source)) /\ v \in Users
  BY <1>1, <1>2 DEF ToSet
<1>4. Known(v) /\ v \in Placed /\ Home[v] \in Shards /\ Home[op.source] \in Shards
  BY <1>1, <1>3, HomeFacts DEF EdgesKnown
<1>5. s \in Shards /\ follows[s][v] = Following(v)
  BY <1>4, HomeFacts DEF LocalFirst, ReplicasMirrorHome
<1>6. list = Following(v)
  BY <1>5 DEF CachesCoherent
<1>7. ToSet(Following(v)) \subseteq Placed
  BY <1>4, HomeFacts DEF EdgesKnown
<1>8. /\ observed' = [observed EXCEPT ![s][v] = IF @ < MaxCount THEN @ + 1 ELSE @]
      /\ \E c \in (IF hit THEN {cache[s]} ELSE InsertOutcomes(cache[s], v, list)) :
             cache' = [cache EXCEPT ![s] = c]
      /\ op' = [op EXCEPT !.read = @ + 1,
                          !.ids = @ \cup ((ToSet(list) \cap Placed) \ {op.source})]
      /\ UNCHANGED <<users, follows, replicated>>
  BY DEF QueryRead
<1> HIDE DEF v, s, hit, list
<1>9. observed' \in [Shards -> [Users -> Nat]]
  <2>1. (IF observed[s][v] < MaxCount THEN observed[s][v] + 1 ELSE observed[s][v]) \in Nat
    BY <1>3, <1>5 DEF TypeOK
  <2> QED
    BY <1>3, <1>5, <1>8, <2>1 DEF TypeOK
<1>10. \A t \in Shards : Holds(cache'[t], follows[t])
  <2> TAKE t \in Shards
  <2>1. PICK c \in (IF hit THEN {cache[s]} ELSE InsertOutcomes(cache[s], v, list)) :
            cache' = [cache EXCEPT ![s] = c]
    BY <1>8
  <2>2. \A e \in Shards : Holds(cache[e], follows[e])
    BY CachesHold
  <2>3. Holds(c, follows[s])
    <3>1. CASE hit
      BY <1>5, <2>1, <2>2, <3>1
    <3>2. CASE ~hit
      <4>1. \A d, f, e : Holds(d, f) /\ e \in InsertOutcomes(d, v, f[v]) => Holds(e, f)
        BY <1>3, InsertHolds
      <4>2. c \in InsertOutcomes(cache[s], v, follows[s][v])
        BY <1>5, <1>6, <2>1, <3>2
      <4> QED
        BY <1>5, <2>2, <4>1, <4>2
    <3> QED
      BY <3>1, <3>2
  <2>4. cache'[t] = cache[t] \/ (t = s /\ cache'[t] = c)
    BY <2>1
  <2> QED
    BY <2>2, <2>3, <2>4
<1>11. op' = [op EXCEPT !.read = op.read + 1, !.ids = op.ids \cup (ToSet(Following(v)) \ {op.source})]
  BY <1>1, <1>6, <1>7, <1>8
<1>12. CallOK'
  <2>1. ToSet(Following(v)) \subseteq Users
    BY <1>7 DEF Placed
  <2>2. /\ op.ids \cup (ToSet(Following(v)) \ {op.source}) \in SUBSET Users
        /\ op.read + 1 \in Nat
    BY <1>1, <2>1
  <2>3. op' \in [kind : {"query"}, source : Placed, hops : Seq(Users), read : Nat, ids : SUBSET Users]
    BY <1>1, <1>11, <2>2
  <2> QED
    BY <2>3 DEF CallOK, Placed
<1>13. QueryPartial'
  <2>1. Lists' = Lists
    BY <1>8 DEF Lists, Following, Placed
  <2>2. /\ op'.source = op.source /\ op'.hops = op.hops /\ op'.read = op.read + 1
        /\ op'.ids = op.ids \cup (ToSet(Following(v)) \ {op.source})
    BY <1>1, <1>11
  <2>3. (op.hops = Following(op.source))' /\ op'.read \in 0 .. Len(op'.hops)
    <3>1. Following(op.source)' = Following(op.source)
      BY <1>8, <2>2 DEF Following, Placed
    <3> QED
      BY <1>1, <1>2, <2>2, <3>1
  <2>4. op'.ids = Found(Lists, op.hops, op.read + 1, op.source)
    <3>1. Lists[op.hops[op.read + 1]] = Following(v)
      BY <1>3 DEF Lists, v
    <3>2. ToSet(Following(v)) \subseteq Users
      BY <1>7 DEF Placed
    <3> DEFINE In(i) == ToSet(Lists[op.hops[i]])
    <3>3. \A x : (\E i \in 1 .. op.read + 1 : x \in In(i))
                 <=> (\E i \in 1 .. op.read : x \in In(i)) \/ x \in In(op.read + 1)
      <4> HIDE DEF In
      <4> QED
        BY <1>1
    <3> QED
      BY <1>2, <2>2, <3>1, <3>2, <3>3 DEF Found
  <2>5. op'.ids = Found(Lists', op'.hops, op'.read, op'.source)
    BY <2>1, <2>2, <2>4
  <2> QED
    BY <2>3, <2>5 DEF QueryPartial
<1> QED
  BY <1>8, <1>9, <1>10, <1>12, <1>13, LookStep

LEMMA QueryEndStep ==
    ASSUME IInv, QueryEnd
    PROVE  IInv'
  BY CallStep DEF QueryEnd, CallOK, QueryPartial, Idle

\* Warming fills a cache with lists of its own shard.
LEMMA WarmUserStep ==
    ASSUME IInv, NEW u \in Users, WarmUser(u)
    PROVE  IInv'
<1> USE DEF IInv
<1>1. u \in Placed /\ Home[u] \in Shards /\ Following(u) = follows[Home[u]][u]
  BY HomeFacts DEF WarmUser
<1>2. PICK c \in InsertOutcomes(cache[Home[u]], u, follows[Home[u]][u]) :
          cache' = [cache EXCEPT ![Home[u]] = c]
  BY <1>1 DEF WarmUser
<1>3. Holds(c, follows[Home[u]])
  <2>1. \A d, f, e : Holds(d, f) /\ e \in InsertOutcomes(d, u, f[u]) => Holds(e, f)
    BY InsertHolds
  <2> QED
    BY <1>1, <1>2, <2>1, CachesHold
<1>4. \A s \in Shards : Holds(cache'[s], follows[s])
  <2> TAKE s \in Shards
  <2>1. cache'[s] = cache[s] \/ (s = Home[u] /\ cache'[s] = c)
    BY <1>2
  <2> QED
    BY <1>3, <2>1, CachesHold
<1>5. /\ UNCHANGED <<users, follows, observed, replicated, op>>
      /\ op = Idle
  BY DEF WarmUser
<1>6. observed' \in [Shards -> [Users -> Nat]]
  BY <1>5 DEF TypeOK
<1> QED
  BY <1>4, <1>5, <1>6, LookStep DEF CallOK, QueryPartial, Idle

LEMMA WarmFromObservedStep ==
    ASSUME IInv, NEW k \in 1 .. Capacity, WarmFromObserved(k)
    PROVE  IInv'
<1> USE DEF IInv
<1>1. ASSUME NEW s \in Shards
      PROVE  \E S \in SUBSET Users : \E n : cache'[s] \in FillOutcomes(follows[s], S, n)
  BY DEF WarmFromObserved, Selected, Seen
<1>2. ASSUME NEW s \in Shards
      PROVE  Holds(cache'[s], follows[s])
  <2>1. PICK S \in SUBSET Users : \E n : cache'[s] \in FillOutcomes(follows[s], S, n)
    BY <1>1
  <2>2. PICK n : cache'[s] \in FillOutcomes(follows[s], S, n)
    BY <2>1
  <2>3. DOMAIN follows[s] = Users
    BY DEF TypeOK
  <2>4. \A lists : \A T \in SUBSET DOMAIN lists : \A m : \A d \in FillOutcomes(lists, T, m) :
            DOMAIN d \subseteq T /\ \A v \in DOMAIN d : d[v] = lists[v]
    BY FillEntries
  <2>5. /\ DOMAIN cache'[s] \subseteq S
        /\ \A v \in DOMAIN cache'[s] : cache'[s][v] = follows[s][v]
    BY <2>2, <2>3, <2>4
  <2> QED
    BY <2>5 DEF Holds
<1>3. UNCHANGED <<users, follows, observed, replicated, op>> /\ op = Idle
  BY DEF WarmFromObserved
<1>4. observed' \in [Shards -> [Users -> Nat]]
  BY <1>3 DEF TypeOK
<1> QED
  BY <1>2, <1>3, <1>4, LookStep DEF CallOK, QueryPartial, Idle

LEMMA ClearObservedStep ==
    ASSUME IInv, ClearObserved
    PROVE  IInv'
<1> USE DEF IInv, ClearObserved
<1>1. \A s \in Shards : Holds(cache'[s], follows[s])
  BY CachesHold
<1>2. observed' \in [Shards -> [Users -> Nat]]
  OBVIOUS
<1> QED
  BY <1>1, <1>2, LookStep DEF CallOK, QueryPartial, Idle

-----------------------------------------------------------------------------
(* Theorems *)

\* Every step of a replica-aware caller keeps the invariant.
LEMMA StepIInv == IInv /\ [AwareNext]_vars => IInv'
<1> SUFFICES ASSUME IInv, [AwareNext]_vars PROVE IInv'
  OBVIOUS
<1>1. ASSUME NEW u \in Users, NewUser(u) PROVE IInv'
  BY <1>1, NewUserStep
<1>2. ASSUME NEW u \in Users, ReplicateUser(u) PROVE IInv'
  BY <1>2, ReplicateStep DEF ReplicateUser, CallOK, Idle
<1>3. ASSUME NEW u \in Users, UnreplicateUser(u) PROVE IInv'
  BY <1>3, UnreplicateStep
<1>4. ASSUME NEW u \in Users, QueryBegin(u) PROVE IInv'
  BY <1>4, QueryBeginStep
<1>5. ASSUME NEW u \in Users, WarmUser(u) PROVE IInv'
  BY <1>5, WarmUserStep
<1>6. ASSUME NEW u \in Users, NEW v \in Users, AddFollowReplicated(u, v) PROVE IInv'
  BY <1>6, FollowStep DEF AddFollowReplicated
<1>7. ASSUME NEW u \in Users, NEW v \in Users, RemoveFollowReplicated(u, v) PROVE IInv'
  BY <1>7, UnfollowStep DEF RemoveFollowReplicated
<1>8. ASSUME NEW u \in Users \ replicated, NEW v \in Users,
             PlainAddFollow(u, v) \/ PlainRemoveFollow(u, v)
      PROVE  IInv'
  <2>1. Copies(u) = {Home[u]}
    BY DEF Copies
  <2> QED
    BY <1>8, <2>1, FollowStep, UnfollowStep DEF PlainAddFollow, PlainRemoveFollow
<1>9. CASE \/ \E hubs \in SeqOf(Users, MaxHubs) : HubsBegin(hubs)
           \/ HubsReplicate \/ HubsSkip \/ HubsAbort \/ HubsEnd
  BY <1>9, HubsStep
<1>10. CASE QueryRead
  BY <1>10, QueryReadStep
<1>11. CASE QueryEnd
  BY <1>11, QueryEndStep
<1>12. ASSUME NEW k \in 1 .. Capacity, WarmFromObserved(k) PROVE IInv'
  BY <1>12, WarmFromObservedStep
<1>13. CASE ClearObserved
  BY <1>13, ClearObservedStep
<1>14. CASE UNCHANGED vars
  BY <1>14, CallStep DEF vars, IInv, TypeOK, CallOK, QueryPartial, Lists, Following, Placed
<1> QED
  BY <1>1, <1>2, <1>3, <1>4, <1>5, <1>6, <1>7, <1>8, <1>9, <1>10, <1>11, <1>12, <1>13, <1>14
     DEF AwareNext, CommonNext

\* The inductive invariant holds of every behaviour of replica-aware callers.
THEOREM Invariance == AwareSpec => []IInv
  BY InitIInv, StepIInv, PTL DEF AwareSpec

\* A completed query has found the two-hop set of the home lists.
LEMMA DoneIsExact == IInv => QueryExact
<1> SUFFICES ASSUME IInv, QueryDone PROVE Exact
  BY DEF QueryExact
<1>1. op \in [kind : {"query"}, source : Placed, hops : Seq(Users), read : Nat, ids : SUBSET Users]
  BY DEF IInv, TypeOK, CallOK, QueryDone, Idle
<1>2. /\ op.hops = Lists[op.source]
      /\ op.ids = Found(Lists, op.hops, Len(op.hops), op.source)
  BY <1>1 DEF IInv, QueryPartial, QueryDone, Lists, Placed
<1> DEFINE f == Lists
           hops == f[op.source]
<1>3. hops \in Seq(Users) /\ f \in [Users -> Seq(Users)] /\ ToSet(hops) = {hops[i] : i \in 1 .. Len(hops)}
  <2>1. \A v \in Users : Following(v) \in Seq(Users)
    BY HomeFacts DEF IInv, Following
  <2>2. hops \in Seq(Users) /\ Len(hops) \in Nat /\ DOMAIN hops = 1 .. Len(hops)
    BY <1>1, <1>2
  <2> QED
    BY <2>1, <2>2 DEF Lists, ToSet
<1>4. \A v \in Users : ToSet(f[v]) \subseteq Users
  <2> HIDE DEF f
  <2> QED
    BY <1>3 DEF ToSet
<1>5. \A i \in 1 .. Len(hops) : hops[i] \in ToSet(hops) /\ ToSet(f[hops[i]]) \subseteq Users
  <2> HIDE DEF f, hops
  <2> QED
    BY <1>3, <1>4
<1>6. ASSUME NEW x
      PROVE  x \in Found(f, hops, Len(hops), op.source) <=> x \in TwoHop(f, op.source)
  <2>1. x \in TwoHop(f, op.source)
            <=> x # op.source /\ \E v \in ToSet(hops) : x \in ToSet(f[v])
    BY TwoHopMember
  <2> HIDE DEF f, hops
  <2>2. (\E v \in ToSet(hops) : x \in ToSet(f[v]))
            <=> \E i \in 1 .. Len(hops) : x \in ToSet(f[hops[i]])
    BY <1>3
  <2> QED
    BY <1>5, <2>1, <2>2 DEF Found
<1>7. Found(f, hops, Len(hops), op.source) = TwoHop(f, op.source)
  <2> HIDE DEF f, hops
  <2>1. TwoHop(f, op.source) = {x \in TwoHop(f, op.source) : TRUE}
    OBVIOUS
  <2> QED
    BY <1>6, <2>1 DEF Found
<1> QED
  BY <1>2, <1>7 DEF Exact

\* The state keeps its shape (TypeOK).
THEOREM TypeCorrect == AwareSpec => []TypeOK
  BY Invariance, PTL DEF IInv

\* The users a query meets on its way always exist: no edge dangles.
THEOREM EdgesKnownCorrect == AwareSpec => []EdgesKnown
  BY Invariance, PTL DEF IInv

\* "Identical adjacency lists on every shard" holds as long as replicated users
\* are mutated by the replica-aware methods.
THEOREM MirrorCorrect == AwareSpec => []ReplicasMirrorHome
  BY Invariance, PTL DEF IInv

\* Taking a replica down leaves nothing of it.
THEOREM NoLeftoversCorrect == AwareSpec => []NoLeftovers
  BY Invariance, PTL DEF IInv

\* No cache of any shard ever serves a stale list.
THEOREM CachesCorrect == AwareSpec => []CachesCoherent
  BY Invariance, PTL DEF IInv

\* Cached queries over replicas answer what uncached ones over home shards do.
THEOREM QueryCorrect == AwareSpec => []QueryExact
  BY Invariance, DoneIsExact, PTL

-----------------------------------------------------------------------------
(* Refinement of FollowGraph *)

\* A step that leaves users and home lists as they are, and no answer ready
\* before or after, is invisible.
LEMMA InvisibleStep ==
    ASSUME TypeOK,
           \A u \in Placed : Known(u)' = Known(u) /\ Following(u)' = Following(u),
           ~QueryDone, ~QueryDone'
    PROVE  UNCHANGED Graph!vars
<1>1. KnownUsers' = KnownUsers
  BY HomeFacts DEF KnownUsers, Known, Placed
<1>2. Lists' = Lists
  BY DEF Lists, Following, Placed
<1> QED
  BY <1>1, <1>2 DEF Answer, Graph!vars

\* Edge mutations of any kind are the abstract ones of the same edge.
LEMMA MutationRefines ==
    ASSUME IInv, NEW u \in Users, NEW v \in Users
    PROVE  /\ Follow(u, v, Copies(u)) => Graph!AddFollow(u, v)
           /\ Unfollow(u, v, Copies(u)) => Graph!RemoveFollow(u, v)
<1> SUFFICES ASSUME Follow(u, v, Copies(u)) \/ Unfollow(u, v, Copies(u))
             PROVE  /\ Follow(u, v, Copies(u)) => Graph!AddFollow(u, v)
                    /\ Unfollow(u, v, Copies(u)) => Graph!RemoveFollow(u, v)
  OBVIOUS
<1> USE DEF IInv, Follow, Unfollow
<1>1. /\ u \in Placed /\ Home[u] \in Shards /\ u \in users[Home[u]]
      /\ Following(u) = follows[Home[u]][u] /\ Home[u] \in Copies(u)
      /\ {u, v} \subseteq KnownUsers
  BY HomeFacts DEF Copies, Known, KnownUsers
<1>2. UNCHANGED <<users, op>> /\ op = Idle
  OBVIOUS
<1>3. KnownUsers' = KnownUsers /\ Answer = Idle /\ Answer' = Idle
  BY <1>2 DEF KnownUsers, Known, Placed, Answer, QueryDone, Idle
<1>4. Lists[u] = Following(u)
  BY DEF Lists
<1>5. ASSUME NEW w \in Users, w # u PROVE Following(w)' = Following(w)
  <2>1. \A s \in Shards : follows'[s][w] = follows[s][w]
    <3>1. CASE Follow(u, v, Copies(u))
      BY <1>5, <3>1 DEF TypeOK
    <3>2. CASE Unfollow(u, v, Copies(u))
      BY <1>5, <3>2 DEF TypeOK
    <3> QED
      BY <3>1, <3>2
  <2> QED
    BY <2>1, HomeFacts DEF Following, Placed
<1>6. ASSUME Follow(u, v, Copies(u)) PROVE Graph!AddFollow(u, v)
  <2>1. v \notin ToSet(Following(u))
    BY <1>6
  <2>2. follows'[Home[u]][u] = WithTarget(Following(u), v)
    BY <1>1, <1>6 DEF TypeOK
  <2>3. Following(u)' = Append(Following(u), v)
    BY <1>1, <2>1, <2>2 DEF Following, Placed, WithTarget
  <2>4. Lists' = [Lists EXCEPT ![u] = Append(@, v)]
    BY <1>4, <1>5, <2>3 DEF Lists
  <2> QED
    BY <1>1, <1>3, <1>4, <2>1, <2>4 DEF Graph!AddFollow, Graph!ToSet, ToSet
<1>7. ASSUME Unfollow(u, v, Copies(u)) PROVE Graph!RemoveFollow(u, v)
  <2>1. v \in ToSet(Following(u))
    BY <1>7
  <2>2. follows'[Home[u]][u] = Without(Following(u), v)
    BY <1>1, <1>7 DEF TypeOK
  <2>3. Following(u)' = Without(Following(u), v)
    BY <1>1, <2>2 DEF Following, Placed
  <2>4. Lists' = [Lists EXCEPT ![u] = Without(@, v)]
    BY <1>4, <1>5, <2>3 DEF Lists
  <2> QED
    BY <1>1, <1>3, <1>4, <2>1, <2>4
       DEF Graph!RemoveFollow, Graph!ToSet, ToSet, Graph!Without, Without
<1> QED
  BY <1>6, <1>7

LEMMA NewUserRefines ==
    ASSUME IInv, NEW u \in Users, NewUser(u)
    PROVE  Graph!AddUser(u)
<1> USE DEF IInv, NewUser
<1>1. u \notin KnownUsers
  BY DEF KnownUsers, Known
<1>2. KnownUsers' = KnownUsers \cup {u}
  BY HomeFacts DEF KnownUsers, Known, Placed, TypeOK
<1>3. Lists' = Lists
  BY DEF Lists, Following, Placed
<1>4. Answer' = Answer
  BY DEF Answer, QueryDone
<1> QED
  BY <1>1, <1>2, <1>3, <1>4 DEF Graph!AddUser

\* Replicas come and go without a trace in the home shards.
LEMMA ReplicaRefines ==
    ASSUME IInv, NEW u \in Users, Replicate(u) \/ UnreplicateUser(u),
           ~QueryDone, ~QueryDone'
    PROVE  UNCHANGED Graph!vars
<1> USE DEF IInv
<1>1. u \in Placed /\ Home[u] \in Shards
  BY HomeFacts DEF Replicate, UnreplicateUser, TypeOK
<1>2. ASSUME NEW w \in Placed
      PROVE  Known(w)' = Known(w) /\ Following(w)' = Following(w)
  <2>1. w \in Users /\ Home[w] \in Shards
    BY HomeFacts
  <2>2. CASE Replicate(u)
    <3>1. w \in users'[Home[w]] <=> w \in users[Home[w]]
      BY <2>1, <2>2 DEF Replicate, Known, TypeOK
    <3>2. follows'[Home[w]][w] = follows[Home[w]][w]
      BY <2>1, <2>2 DEF Replicate, TypeOK
    <3> QED
      BY <3>1, <3>2 DEF Known, Following, Placed
  <2>3. CASE UnreplicateUser(u)
    <3>1. w \in users'[Home[w]] <=> w \in users[Home[w]]
      BY <2>1, <2>3 DEF UnreplicateUser, TypeOK
    <3>2. follows'[Home[w]][w] = follows[Home[w]][w]
      BY <2>1, <2>3 DEF UnreplicateUser, ReplicaShards, TypeOK
    <3> QED
      BY <3>1, <3>2 DEF Known, Following, Placed
  <2> QED
    BY <2>2, <2>3
<1> QED
  BY <1>2, InvisibleStep

\* A query is invisible until its answer is ready, and the answer is exact.
LEMMA QueryRefines ==
    ASSUME IInv, IInv', (\E u \in Users : QueryBegin(u)) \/ QueryRead
    PROVE  (\E u \in Users : Graph!Answer(u)) \/ UNCHANGED Graph!vars
<1> USE DEF IInv
<1>1. UNCHANGED <<users, follows>> /\ ~QueryDone
  <2>1. CASE \E u \in Users : QueryBegin(u)
    BY <2>1 DEF QueryBegin, QueryDone, Idle
  <2>2. CASE QueryRead
    <3>1. op.kind = "query" /\ op.read < Len(op.hops) /\ UNCHANGED <<users, follows>>
      BY <2>2 DEF QueryRead
    <3>2. op.read \in Nat /\ Len(op.hops) \in Nat
      BY <3>1 DEF TypeOK, CallOK, Idle
    <3> QED
      BY <3>1, <3>2 DEF QueryDone
  <2> QED
    BY <2>1, <2>2
<1>2. KnownUsers' = KnownUsers /\ Lists' = Lists
  BY <1>1 DEF KnownUsers, Known, Lists, Following, Placed
<1>3. CASE ~QueryDone'
  BY <1>1, <1>2, <1>3 DEF Answer, Graph!vars
<1>4. CASE QueryDone'
  <2>1. op'.kind = "query" /\ op' # Idle /\ op'.source \in Users
    BY <1>4 DEF QueryDone, Idle, TypeOK, CallOK, Placed
  <2>2. Exact'
    BY <1>4, DoneIsExact, PTL DEF QueryExact
  <2>3. op'.ids = TwoHop(Lists, op'.source)
    BY <1>2, <2>2 DEF Exact, TwoHop
  <2>4. Answer = Idle /\ Answer' = [source |-> op'.source, ids |-> op'.ids]
    BY <1>1, <1>4 DEF Answer
  <2>5. Graph!Answer(op'.source)
    BY <1>2, <2>3, <2>4 DEF Graph!Answer, Graph!TwoHop, TwoHop, Graph!ToSet, ToSet
  <2> QED
    BY <2>1, <2>5
<1> QED
  BY <1>3, <1>4

LEMMA QueryEndRefines ==
    ASSUME QueryEnd
    PROVE  Graph!Forget
<1>1. Answer = [source |-> op.source, ids |-> op.ids] /\ Answer' = Idle
  BY DEF QueryEnd, Answer, QueryDone, Idle
<1>2. Answer # Idle
  BY <1>1 DEF Idle
<1>3. KnownUsers' = KnownUsers /\ Lists' = Lists
  BY DEF QueryEnd, KnownUsers, Known, Lists, Following, Placed
<1> QED
  BY <1>1, <1>2, <1>3 DEF Graph!Forget

\* Every other step concerns caches, counters and hub lists only.
LEMMA OtherRefines ==
    ASSUME IInv,
           \/ \E u \in Users : WarmUser(u)
           \/ \E hubs \in SeqOf(Users, MaxHubs) : HubsBegin(hubs)
           \/ HubsSkip \/ HubsAbort \/ HubsEnd
           \/ \E k \in 1 .. Capacity : WarmFromObserved(k)
           \/ ClearObserved
    PROVE  UNCHANGED Graph!vars
<1>1. UNCHANGED <<users, follows>>
  BY DEF WarmUser, HubsBegin, HubsSkip, HubsAbort, HubsEnd, WarmFromObserved, ClearObserved
<1>2. ~QueryDone /\ ~QueryDone'
  <2>1. op.kind # "query"
    BY DEF WarmUser, HubsBegin, HubsSkip, HubsAbort, HubsEnd, WarmFromObserved, ClearObserved, Idle
  <2>2. CASE HubsSkip
    <3>1. op \in [kind : {"hubs"}, todo : Seq(Users)] /\ op' = [op EXCEPT !.todo = Tail(@)]
      BY <2>2 DEF HubsSkip, IInv, TypeOK, CallOK, Idle
    <3> QED
      BY <2>1, <3>1 DEF QueryDone
  <2>3. CASE ~HubsSkip
    <3>1. op'.kind # "query"
      BY <2>1, <2>3
         DEF WarmUser, HubsBegin, HubsAbort, HubsEnd, WarmFromObserved, ClearObserved, Idle
    <3> QED
      BY <2>1, <3>1 DEF QueryDone
  <2> QED
    BY <2>2, <2>3
<1>3. TypeOK /\ \A u \in Placed : Known(u)' = Known(u) /\ Following(u)' = Following(u)
  BY <1>1 DEF IInv, Known, Following, Placed
<1> QED
  BY <1>2, <1>3, InvisibleStep

LEMMA HubsReplicateRefines ==
    ASSUME IInv, HubsReplicate
    PROVE  UNCHANGED Graph!vars
<1>1. op \in [kind : {"hubs"}, todo : Seq(Users)] /\ op.todo # <<>>
  BY DEF HubsReplicate, IInv, TypeOK, CallOK, Idle
<1>2. Replicate(Head(op.todo)) /\ op' = [op EXCEPT !.todo = Tail(@)]
  BY DEF HubsReplicate
<1>3. Head(op.todo) \in Users /\ ~QueryDone /\ ~QueryDone'
  BY <1>1, <1>2 DEF QueryDone
<1> QED
  BY <1>2, <1>3, ReplicaRefines

LEMMA StepRefines == IInv /\ IInv' /\ [AwareNext]_vars => [Graph!Next]_(Graph!vars)
<1> SUFFICES ASSUME IInv, IInv', [AwareNext]_vars
             PROVE  Graph!Next \/ UNCHANGED Graph!vars
  BY DEF Graph!vars
<1>1. ASSUME NEW u \in Users, NewUser(u) PROVE Graph!Next
  BY <1>1, NewUserRefines DEF Graph!Next
<1>2. ASSUME NEW u \in Users, ReplicateUser(u) \/ UnreplicateUser(u)
      PROVE  UNCHANGED Graph!vars
  <2>1. ~QueryDone /\ ~QueryDone'
    BY <1>2 DEF ReplicateUser, UnreplicateUser, QueryDone, Idle
  <2> QED
    BY <1>2, <2>1, ReplicaRefines DEF ReplicateUser
<1>3. ASSUME (\E u \in Users : QueryBegin(u)) \/ QueryRead
      PROVE  Graph!Next \/ UNCHANGED Graph!vars
  BY <1>3, QueryRefines DEF Graph!Next
<1>4. ASSUME NEW u \in Users, NEW v \in Users,
             \/ AddFollowReplicated(u, v) \/ RemoveFollowReplicated(u, v)
             \/ u \notin replicated /\ (PlainAddFollow(u, v) \/ PlainRemoveFollow(u, v))
      PROVE  Graph!Next
  <2>1. Follow(u, v, Copies(u)) \/ Unfollow(u, v, Copies(u))
    BY <1>4 DEF AddFollowReplicated, RemoveFollowReplicated, PlainAddFollow,
                PlainRemoveFollow, Copies
  <2> QED
    BY <2>1, MutationRefines DEF Graph!Next
<1>5. CASE HubsReplicate
  BY <1>5, HubsReplicateRefines
<1>6. CASE QueryEnd
  BY <1>6, QueryEndRefines DEF Graph!Next
<1>7. CASE \/ \E u \in Users : WarmUser(u)
           \/ \E hubs \in SeqOf(Users, MaxHubs) : HubsBegin(hubs)
           \/ HubsSkip \/ HubsAbort \/ HubsEnd
           \/ \E k \in 1 .. Capacity : WarmFromObserved(k)
           \/ ClearObserved
  BY <1>7, OtherRefines
<1>8. CASE UNCHANGED vars
  BY <1>8 DEF vars, Graph!vars, KnownUsers, Known, Lists, Following, Placed, Answer, QueryDone
<1> QED
  BY <1>1, <1>2, <1>3, <1>4, <1>5, <1>6, <1>7, <1>8 DEF AwareNext, CommonNext

LEMMA InitRefines == Init => Graph!Init
<1> SUFFICES ASSUME Init PROVE Graph!Init
  OBVIOUS
<1>1. IInv
  BY InitIInv
<1>2. \A u \in Placed : users[Home[u]] = {} /\ follows[Home[u]][u] = <<>>
  BY <1>1, HomeFacts DEF Init, IInv
<1>3. KnownUsers = {}
  BY <1>2 DEF KnownUsers, Known
<1>4. Lists = [u \in Users |-> <<>>]
  BY <1>2 DEF Lists, Following
<1>5. Answer = Idle
  BY DEF Init, Answer, QueryDone, Idle
<1> QED
  BY <1>3, <1>4, <1>5 DEF Graph!Init

\* Sharding, replication, caching and warming implement one plain graph.
THEOREM Refinement == AwareSpec => GraphSpec
  BY InitRefines, StepRefines, Invariance, PTL DEF AwareSpec, Graph!Spec, GraphSpec

-----------------------------------------------------------------------------
(* Every caller: replicated users may be mutated by the plain methods, so   *)
(* that the lists of foreign shards may be anything.  What is left is proved *)
(* from the home shards alone.                                              *)

-----------------------------------------------------------------------------
(* The home shard's cache *)

\* Every shard has a cache and a list for every user.
Shape ==
    /\ DOMAIN cache = Shards
    /\ DOMAIN follows = Shards
    /\ \A s \in Shards : DOMAIN follows[s] = Users

\* What is cached at home for a user is its list, on one shard.
HomeHolds(c, lists, s) ==
    \A u \in Users : Home[u] = s /\ u \in DOMAIN c => c[u] = lists[u]

LEMMA HomeOfPlaced == \A u \in Placed : u \in Users /\ Home[u] \in Shards
  BY ShardedAssumption DEF Placed

LEMMA HomeCachesHold ==
    ASSUME HomeCacheCoherent
    PROVE  \A s \in Shards : HomeHolds(cache[s], follows[s], s)
<1>1. \A u \in Users : Home[u] \in Shards => u \in Placed
  BY ShardedAssumption DEF Placed
<1> QED
  BY <1>1 DEF HomeCacheCoherent, HomeHolds, Following

LEMMA HoldHomeCaches ==
    ASSUME \A s \in Shards : HomeHolds(cache'[s], follows'[s], s)
    PROVE  HomeCacheCoherent'
  BY HomeOfPlaced DEF HomeCacheCoherent, HomeHolds, Following, Placed

\* A shard whose list of u changes, and whose entry of u is dropped.
LEMMA DropKeepsHome ==
    ASSUME NEW c, NEW u, NEW old, NEW new, NEW s, HomeHolds(c, old, s),
           \A v \in Users \ {u} : new[v] = old[v]
    PROVE  HomeHolds(Drop(c, u), new, s)
<1> SUFFICES ASSUME NEW v \in Users, Home[v] = s, v \in DOMAIN c \ {u}
             PROVE  Drop(c, u)[v] = new[v]
  BY DropEntries DEF HomeHolds
<1>1. Drop(c, u)[v] = c[v]
  BY DropEntries
<1>2. c[v] = old[v] /\ new[v] = old[v]
  BY DEF HomeHolds
<1> QED
  BY <1>1, <1>2

\* A shard whose entry of u is replaced by its list of u.
LEMMA InsertKeepsHome ==
    ASSUME NEW c, NEW u, NEW lists, NEW s, HomeHolds(c, lists, s),
           NEW d \in InsertOutcomes(c, u, lists[u])
    PROVE  HomeHolds(d, lists, s)
<1>1. /\ DOMAIN d \subseteq DOMAIN c \cup {u}
      /\ \A v \in DOMAIN d : d[v] = IF v = u THEN lists[u] ELSE c[v]
  BY InsertEntries
<1> QED
  BY <1>1 DEF HomeHolds

\* A shard that is not u's home, whatever becomes of its entry and list of u.
LEMMA ForeignKeepsHome ==
    ASSUME NEW c, NEW u, NEW list, NEW old, NEW new, NEW s, HomeHolds(c, old, s),
           Home[u] # s, \A v \in Users \ {u} : new[v] = old[v],
           NEW d \in InsertOutcomes(c, u, list)
    PROVE  HomeHolds(d, new, s)
<1>1. /\ DOMAIN d \subseteq DOMAIN c \cup {u}
      /\ \A v \in DOMAIN d : d[v] = IF v = u THEN list ELSE c[v]
  BY InsertEntries
<1> QED
  BY <1>1 DEF HomeHolds

-----------------------------------------------------------------------------
(* The caches at home, step by step *)

\* An edge of u changes on some shards, whose entries of u are dropped.
LEMMA EditKeepsHome ==
    ASSUME Shape, HomeCacheCoherent, NEW u, NEW v, NEW S, Follow(u, v, S) \/ Unfollow(u, v, S)
    PROVE  Shape' /\ HomeCacheCoherent'
<1>1. /\ cache' = [s \in Shards |-> IF s \in S THEN Drop(cache[s], u) ELSE cache[s]]
      /\ DOMAIN follows' = Shards
      /\ \A s \in Shards \ S : follows'[s] = follows[s]
  BY DEF Follow, Unfollow
<1>2. ASSUME NEW s \in Shards
      PROVE  DOMAIN follows'[s] = Users /\ \A w \in Users \ {u} : follows'[s][w] = follows[s][w]
  <2>1. CASE Follow(u, v, S)
    BY <2>1 DEF Follow, Shape
  <2>2. CASE Unfollow(u, v, S)
    BY <2>2 DEF Unfollow, Shape
  <2> QED
    BY <2>1, <2>2
<1>3. Shape'
  BY <1>1, <1>2 DEF Shape
<1>4. ASSUME NEW s \in Shards PROVE HomeHolds(cache'[s], follows'[s], s)
  <2>1. HomeHolds(cache[s], follows[s], s)
    BY HomeCachesHold
  <2>2. HomeHolds(Drop(cache[s], u), follows'[s], s)
    BY <1>2, <2>1, DropKeepsHome
  <2> QED
    BY <1>1, <2>1, <2>2
<1> QED
  BY <1>3, <1>4, HoldHomeCaches

\* A replica brings lists and entries to the other shards only.
LEMMA ReplicateKeepsHome ==
    ASSUME Shape, HomeCacheCoherent, NEW u, Replicate(u)
    PROVE  Shape' /\ HomeCacheCoherent'
<1>1. follows' = [s \in Shards |-> IF s = Home[u] THEN follows[s]
                                   ELSE [follows[s] EXCEPT ![u] = Merge(@, Following(u))]]
  BY DEF Replicate
<1>2. \A s \in Shards : DOMAIN follows'[s] = Users
                        /\ \A w \in Users \ {u} : follows'[s][w] = follows[s][w]
  BY <1>1 DEF Shape
<1>3. /\ DOMAIN cache' = Shards
      /\ \A s \in Shards : cache'[s] \in (IF s = Home[u] THEN {cache[s]}
                                         ELSE InsertOutcomes(cache[s], u, Following(u)))
  BY DEF Replicate
<1>4. Shape'
  BY <1>1, <1>2, <1>3 DEF Shape
<1>5. ASSUME NEW s \in Shards PROVE HomeHolds(cache'[s], follows'[s], s)
  <2>1. HomeHolds(cache[s], follows[s], s)
    BY HomeCachesHold
  <2>2. CASE s = Home[u]
    BY <1>1, <1>3, <2>1, <2>2
  <2>3. CASE s # Home[u]
    <3>1. cache'[s] \in InsertOutcomes(cache[s], u, Following(u))
      BY <1>3, <2>3
    <3> HIDE DEF HomeHolds
    <3> QED
      BY <1>2, <2>1, <2>3, <3>1, ForeignKeepsHome
  <2> QED
    BY <2>2, <2>3
<1> QED
  BY <1>4, <1>5, HoldHomeCaches

\* Taking the replicas of u down leaves its home shard alone.
LEMMA UnreplicateKeepsHome ==
    ASSUME Shape, HomeCacheCoherent, NEW u, UnreplicateUser(u)
    PROVE  Shape' /\ HomeCacheCoherent'
<1>1. follows' = [s \in Shards |->
                     IF s \in ReplicaShards(u) /\ u \in users[s]
                     THEN [follows[s] EXCEPT ![u] = Minus(@, Append(Following(u), u))]
                     ELSE follows[s]]
  BY DEF UnreplicateUser
<1>2. /\ \A s \in Shards : DOMAIN follows'[s] = Users
                          /\ \A w \in Users \ {u} : follows'[s][w] = follows[s][w]
      /\ \A s \in Shards : s = Home[u] => follows'[s] = follows[s]
  BY <1>1 DEF Shape, ReplicaShards
<1>3. cache' = [s \in Shards |-> IF s = Home[u] THEN cache[s] ELSE Drop(cache[s], u)]
  BY DEF UnreplicateUser
<1>4. Shape'
  BY <1>1, <1>2, <1>3 DEF Shape
<1>5. ASSUME NEW s \in Shards PROVE HomeHolds(cache'[s], follows'[s], s)
  <2>1. HomeHolds(cache[s], follows[s], s)
    BY HomeCachesHold
  <2>2. HomeHolds(Drop(cache[s], u), follows'[s], s)
    BY <1>2, <2>1, DropKeepsHome
  <2> QED
    BY <1>2, <1>3, <2>1, <2>2
<1> QED
  BY <1>4, <1>5, HoldHomeCaches

\* A read caches the list of the shard it reads, whichever that is.
LEMMA ReadKeepsHome ==
    ASSUME Shape, HomeCacheCoherent, QueryRead
    PROVE  Shape' /\ HomeCacheCoherent'
<1> DEFINE v == op.hops[op.read + 1]
           s == LocalFirst(v, Home[op.source])
           hit == v \in DOMAIN cache[s]
           list == IF hit THEN cache[s][v] ELSE follows[s][v]
<1>1. PICK c \in (IF hit THEN {cache[s]} ELSE InsertOutcomes(cache[s], v, list)) :
          cache' = [cache EXCEPT ![s] = c]
  BY DEF QueryRead
<1>2. follows' = follows
  BY DEF QueryRead
<1> HIDE DEF v, s
<1>3. ASSUME NEW t \in Shards PROVE HomeHolds(cache'[t], follows'[t], t)
  <2>1. HomeHolds(cache[t], follows[t], t)
    BY HomeCachesHold
  <2>2. CASE t = s
    <3>1. CASE hit
      BY <1>1, <1>2, <2>1, <2>2, <3>1 DEF Shape
    <3>2. CASE ~hit
      <4>1. c \in InsertOutcomes(cache[t], v, follows[t][v])
        BY <1>1, <2>2, <3>2
      <4>2. cache'[t] = c
        BY <1>1, <2>2 DEF Shape
      <4> QED
        BY <1>2, <2>1, <4>1, <4>2, InsertKeepsHome
    <3> QED
      BY <3>1, <3>2
  <2>3. CASE t # s
    BY <1>1, <1>2, <2>1, <2>3 DEF Shape
  <2> QED
    BY <2>2, <2>3
<1>4. Shape'
  BY <1>1, <1>2 DEF Shape
<1> QED
  BY <1>3, <1>4, HoldHomeCaches

\* Warming caches lists of the shard that is warmed.
LEMMA WarmKeepsHome ==
    ASSUME Shape, HomeCacheCoherent,
           (\E u \in Users : WarmUser(u)) \/ (\E k \in 1 .. Capacity : WarmFromObserved(k))
    PROVE  Shape' /\ HomeCacheCoherent'
<1>1. ASSUME NEW u \in Users, WarmUser(u) PROVE Shape' /\ HomeCacheCoherent'
  <2>1. u \in Placed /\ follows' = follows
    BY <1>1 DEF WarmUser, Known
  <2>2. PICK c \in InsertOutcomes(cache[Home[u]], u, follows[Home[u]][u]) :
            cache' = [cache EXCEPT ![Home[u]] = c]
    BY <1>1, <2>1 DEF WarmUser, Following
  <2>3. Home[u] \in Shards /\ HomeHolds(cache[Home[u]], follows[Home[u]], Home[u])
    BY <2>1, HomeOfPlaced, HomeCachesHold
  <2>4. HomeHolds(c, follows[Home[u]], Home[u])
    BY <2>2, <2>3, InsertKeepsHome
  <2>5. ASSUME NEW s \in Shards PROVE HomeHolds(cache'[s], follows'[s], s)
    BY <2>1, <2>2, <2>4, HomeCachesHold DEF Shape
  <2> QED
    BY <2>1, <2>2, <2>5, HoldHomeCaches DEF Shape
<1>2. ASSUME NEW k \in 1 .. Capacity, WarmFromObserved(k) PROVE Shape' /\ HomeCacheCoherent'
  <2>1. follows' = follows /\ DOMAIN cache' = Shards
    BY <1>2 DEF WarmFromObserved
  <2>2. ASSUME NEW s \in Shards PROVE HomeHolds(cache'[s], follows'[s], s)
    <3>1. \E S \in SUBSET Users : \E n : cache'[s] \in FillOutcomes(follows[s], S, n)
      BY <1>2 DEF WarmFromObserved, Selected, Seen
    <3>2. PICK S \in SUBSET Users : \E n : cache'[s] \in FillOutcomes(follows[s], S, n)
      BY <3>1
    <3>3. PICK n : cache'[s] \in FillOutcomes(follows[s], S, n)
      BY <3>2
    <3>4. \A u \in DOMAIN cache'[s] : cache'[s][u] = follows[s][u]
      BY <3>3, FillEntries DEF Shape
    <3> QED
      BY <2>1, <3>4 DEF HomeHolds
  <2> QED
    BY <2>1, <2>2, HoldHomeCaches DEF Shape
<1> QED
  BY <1>1, <1>2

\* Every call of the public API keeps the caches of the home shards coherent.
LEMMA ApiKeepsHome ==
    ASSUME Shape, HomeCacheCoherent, ApiNext \/ UNCHANGED vars
    PROVE  Shape' /\ HomeCacheCoherent'
<1>1. ASSUME UNCHANGED <<follows, cache>> PROVE Shape' /\ HomeCacheCoherent'
  BY <1>1 DEF Shape, HomeCacheCoherent, Following, Placed
<1>2. ASSUME NEW u \in Users, NewUser(u) \/ QueryBegin(u) PROVE Shape' /\ HomeCacheCoherent'
  BY <1>1, <1>2 DEF NewUser, QueryBegin
<1>3. ASSUME NEW u \in Users, ReplicateUser(u) \/ UnreplicateUser(u)
      PROVE  Shape' /\ HomeCacheCoherent'
  BY <1>3, ReplicateKeepsHome, UnreplicateKeepsHome DEF ReplicateUser
<1>4. CASE HubsReplicate
  BY <1>4, ReplicateKeepsHome DEF HubsReplicate
<1>5. CASE (\E hubs \in SeqOf(Users, MaxHubs) : HubsBegin(hubs)) \/ HubsSkip \/ HubsAbort \/ HubsEnd
            \/ QueryEnd \/ ClearObserved \/ UNCHANGED vars
  BY <1>1, <1>5 DEF HubsBegin, HubsSkip, HubsAbort, HubsEnd, QueryEnd, ClearObserved, vars
<1>6. ASSUME NEW u \in Users, NEW v \in Users,
             \/ AddFollowReplicated(u, v) \/ RemoveFollowReplicated(u, v)
             \/ PlainAddFollow(u, v) \/ PlainRemoveFollow(u, v)
      PROVE  Shape' /\ HomeCacheCoherent'
  BY <1>6, EditKeepsHome
     DEF AddFollowReplicated, RemoveFollowReplicated, PlainAddFollow, PlainRemoveFollow
<1> QED
  BY <1>2, <1>3, <1>4, <1>5, <1>6, ReadKeepsHome, WarmKeepsHome DEF ApiNext, CommonNext

-----------------------------------------------------------------------------
(* The inductive invariant *)

\* Types, without the lists of foreign shards.
ApiTypes ==
    /\ users \in [Shards -> SUBSET Users]
    /\ \A u \in Placed : Following(u) \in Seq(Users)
    /\ replicated \subseteq Placed
    /\ CallOK

\* Half-way, a query that has met no replicated hop has found what the home
\* lists read so far hold.
ApiPartial ==
    op.kind = "query" =>
        /\ op.hops = Following(op.source)
        /\ op.read \in 0 .. Len(op.hops)
        /\ (\A i \in 1 .. op.read : op.hops[i] \notin replicated) =>
               op.ids = Found(Lists, op.hops, op.read, op.source)

\* The inductive invariant of ApiSpec.
ApiInv ==
    /\ ApiTypes
    /\ EdgesKnown
    /\ ReplicaPresence
    /\ ApiPartial
    /\ Shape
    /\ HomeCacheCoherent

\* All of it but the caches.
Rest == ApiTypes /\ EdgesKnown /\ ReplicaPresence /\ ApiPartial

LEMMA ApiFacts ==
    ASSUME ApiTypes
    PROVE  /\ \A u \in Placed : /\ u \in Users /\ Home[u] \in Shards
                                /\ Following(u) = follows[Home[u]][u] /\ Following(u) \in Seq(Users)
           /\ \A u : Known(u) => u \in Placed
           /\ \A u \in Users : Following(u) \in Seq(Users)
  BY HomeOfPlaced DEF ApiTypes, Placed, Following, Known

LEMMA InitApiInv == Init => ApiInv
<1> SUFFICES ASSUME Init PROVE ApiInv
  OBVIOUS
<1> USE DEF Init, Idle
<1>1. \A u \in Users : Following(u) = <<>>
  BY HomeOfPlaced DEF Following
<1>2. ApiTypes
  <2>1. \A u \in Placed : Following(u) \in Seq(Users)
    <3>1. <<>> \in Seq(Users)
      OBVIOUS
    <3> QED
      BY <1>1, <3>1, HomeOfPlaced, Zenon
  <2>2. CallOK
    BY DEF CallOK
  <2> QED
    BY <2>1, <2>2 DEF ApiTypes
<1>3. EdgesKnown
  BY <1>1 DEF EdgesKnown, ToSet, Placed
<1>4. ReplicaPresence
  BY DEF ReplicaPresence, ReplicaShards
<1>5. Shape /\ HomeCacheCoherent
  BY HomeOfPlaced DEF Shape, HomeCacheCoherent
<1>6. ApiPartial
  BY DEF ApiPartial
<1> QED
  BY <1>2, <1>3, <1>4, <1>5, <1>6 DEF ApiInv

\* A step that leaves users, home lists and replicas alone only has to keep the
\* call under way consistent.
LEMMA ApiCallStep ==
    ASSUME Rest, UNCHANGED <<users, follows, replicated>>, CallOK', ApiPartial'
    PROVE  Rest'
<1>1. ApiTypes'
  BY DEF Rest, ApiTypes, Following, Placed
<1>2. EdgesKnown' /\ ReplicaPresence'
  BY DEF Rest, EdgesKnown, ReplicaPresence, Known, Following, Placed, ReplicaShards
<1> QED
  BY <1>1, <1>2 DEF Rest

LEMMA ApiNewUserStep ==
    ASSUME Rest, NEW u \in Users, NewUser(u)
    PROVE  Rest'
<1> USE DEF Rest, NewUser
<1>1. u \in Placed /\ Home[u] \in Shards
  BY HomeOfPlaced
<1>2. users' \in [Shards -> SUBSET Users] /\ \A s \in Shards : users'[s] =
          IF s = Home[u] THEN users[s] \cup {u} ELSE users[s]
  BY <1>1 DEF ApiTypes
<1>3. ApiTypes'
  BY <1>2 DEF ApiTypes, CallOK, Following, Placed, Idle
<1>4. EdgesKnown'
  <2>1. \A w : Known(w) => Known(w)'
    BY <1>2, HomeOfPlaced DEF Known, Placed
  <2> QED
    BY <2>1 DEF EdgesKnown, Following, Placed
<1>5. ReplicaPresence'
  <2> SUFFICES ASSUME NEW w \in Placed, NEW s \in ReplicaShards(w)
               PROVE  w \in users'[s] <=> w \in replicated
    BY DEF ReplicaPresence, ReplicaShards, Placed
  <2>1. s \in Shards /\ s # Home[w] /\ (w \in users[s] <=> w \in replicated)
    BY DEF ReplicaPresence, ReplicaShards
  <2> QED
    BY <1>2, <2>1
<1> QED
  BY <1>3, <1>4, <1>5 DEF ApiPartial, Idle

\* An edge of u changes at home, and perhaps elsewhere.
LEMMA ApiEditStep ==
    ASSUME Rest, Shape, NEW u \in Users, NEW v \in Users, NEW S, Home[u] \in S,
           Follow(u, v, S) \/ Unfollow(u, v, S)
    PROVE  Rest'
<1> USE DEF Rest
<1>1. /\ Known(u) /\ Known(v) /\ u \in Placed /\ Home[u] \in Shards
      /\ Following(u) = follows[Home[u]][u] /\ Following(u) \in Seq(Users)
      /\ op = Idle /\ UNCHANGED <<users, observed, replicated, op>>
  BY ApiFacts DEF Follow, Unfollow
<1>2. \A w \in Placed \ {u} : Following(w)' = Following(w)
  <2>1. CASE Follow(u, v, S)
    BY <2>1, HomeOfPlaced DEF Follow, Following, Placed, Shape
  <2>2. CASE Unfollow(u, v, S)
    BY <2>2, HomeOfPlaced DEF Unfollow, Following, Placed, Shape
  <2> QED
    BY <2>1, <2>2
<1>3. Following(u)' = follows'[Home[u]][u] /\ DOMAIN follows[Home[u]] = Users /\ u \in users[Home[u]]
  BY <1>1 DEF Following, Placed, Shape, Known
<1>4. /\ Following(u)' \in Seq(Users)
      /\ ToSet(Following(u)') \subseteq ToSet(Following(u)) \cup {v}
  <2>1. CASE Follow(u, v, S)
    <3>1. Following(u)' = WithTarget(Following(u), v)
      BY <1>1, <1>3, <2>1 DEF Follow
    <3> QED
      BY <1>1, <3>1, WithTargetList
  <2>2. CASE Unfollow(u, v, S)
    <3>1. Following(u)' = Without(Following(u), v)
      BY <1>1, <1>3, <2>2 DEF Unfollow
    <3> QED
      BY <1>1, <3>1, WithoutList
  <2> QED
    BY <2>1, <2>2
<1>5. ApiTypes'
  BY <1>1, <1>2, <1>4 DEF ApiTypes, CallOK, Placed
<1>6. \A w : Known(w)' <=> Known(w)
  BY <1>1 DEF Known, Placed
<1>7. EdgesKnown'
  BY <1>1, <1>2, <1>4, <1>6 DEF EdgesKnown, Placed
<1>8. ReplicaPresence' /\ ApiPartial'
  BY <1>1 DEF ReplicaPresence, ReplicaShards, ApiPartial, Idle, Placed
<1> QED
  BY <1>5, <1>7, <1>8

\* replicate_user puts the user on every shard; its list at home stays.
LEMMA ApiReplicateStep ==
    ASSUME Rest, Shape, NEW u \in Users, Replicate(u), CallOK', op'.kind # "query"
    PROVE  Rest'
<1> USE DEF Rest
<1>1. /\ u \in Placed /\ Home[u] \in Shards
      /\ users' = [s \in Shards |-> users[s] \cup {u}]
      /\ replicated' = replicated \cup {u}
  BY ApiFacts DEF Replicate
<1>2. \A w \in Placed : Following(w)' = Following(w)
  BY HomeOfPlaced DEF Replicate, Following, Placed, Shape
<1>3. ApiTypes'
  BY <1>1, <1>2 DEF ApiTypes, Placed
<1>4. EdgesKnown'
  <2>1. \A w : Known(w) => Known(w)'
    BY <1>1, HomeOfPlaced DEF Known, Placed
  <2> QED
    BY <1>2, <2>1 DEF EdgesKnown, Placed
<1>5. ReplicaPresence'
  BY <1>1 DEF ReplicaPresence, ReplicaShards, Placed
<1> QED
  BY <1>3, <1>4, <1>5 DEF ApiPartial

\* unreplicate_user takes it off the other shards.
LEMMA ApiUnreplicateStep ==
    ASSUME Rest, Shape, NEW u \in Users, UnreplicateUser(u)
    PROVE  Rest'
<1> USE DEF Rest
<1>1. /\ users' = [s \in Shards |-> IF s = Home[u] THEN users[s] ELSE users[s] \ {u}]
      /\ replicated' = replicated \ {u}
      /\ UNCHANGED <<observed, op>> /\ op = Idle
  BY DEF UnreplicateUser
<1>2. \A w \in Placed : Following(w)' = Following(w)
  BY HomeOfPlaced DEF UnreplicateUser, Following, Placed, Shape, ReplicaShards
<1>3. ApiTypes'
  BY <1>1, <1>2 DEF ApiTypes, Placed, CallOK
<1>4. EdgesKnown'
  <2>1. \A w : Known(w) => Known(w)'
    BY <1>1, HomeOfPlaced DEF Known, Placed
  <2> QED
    BY <1>2, <2>1 DEF EdgesKnown, Placed
<1>5. ReplicaPresence'
  BY <1>1 DEF ReplicaPresence, ReplicaShards, Placed
<1> QED
  BY <1>1, <1>3, <1>4, <1>5 DEF ApiPartial, Idle

\* Calls over a list of hubs: each hub is replicated, skipped or refused.
LEMMA ApiHubsStep ==
    ASSUME Rest, Shape, \/ \E hubs \in SeqOf(Users, MaxHubs) : HubsBegin(hubs)
                        \/ HubsReplicate \/ HubsSkip \/ HubsAbort \/ HubsEnd
    PROVE  Rest'
<1>1. ASSUME NEW hubs \in SeqOf(Users, MaxHubs), HubsBegin(hubs) PROVE Rest'
  <2>1. hubs \in Seq(Users)
    BY DEF SeqOf
  <2> QED
    BY <1>1, <2>1, ApiCallStep DEF HubsBegin, CallOK, ApiPartial
<1>2. CASE HubsSkip \/ HubsReplicate
  <2>1. op.kind = "hubs" /\ op.todo # <<>> /\ op' = [op EXCEPT !.todo = Tail(op.todo)]
    BY <1>2 DEF HubsSkip, HubsReplicate
  <2>2. op \in [kind : {"hubs"}, todo : Seq(Users)]
    BY <2>1 DEF Rest, ApiTypes, CallOK, Idle
  <2>3. Tail(op.todo) \in Seq(Users) /\ Head(op.todo) \in Users
    BY <2>1, <2>2
  <2>4. op' \in [kind : {"hubs"}, todo : Seq(Users)]
    BY <2>1, <2>2, <2>3
  <2>5. CallOK' /\ op'.kind # "query"
    BY <2>4 DEF CallOK
  <2> QED
    BY <1>2, <2>3, <2>5, ApiCallStep, ApiReplicateStep DEF HubsSkip, HubsReplicate, ApiPartial
<1>3. CASE HubsAbort \/ HubsEnd
  BY <1>3, ApiCallStep DEF HubsAbort, HubsEnd, CallOK, ApiPartial, Idle
<1> QED
  BY <1>1, <1>2, <1>3

LEMMA ApiQueryBeginStep ==
    ASSUME Rest, NEW u \in Users, QueryBegin(u)
    PROVE  Rest'
<1> USE DEF Rest, QueryBegin
<1>1. Following(u) \in Seq(Users) /\ Len(Following(u)) \in Nat
  BY ApiFacts
<1>2. CallOK'
  BY <1>1 DEF CallOK, Placed
<1>3. ApiPartial'
  <2>1. op' = [kind |-> "query", source |-> u, hops |-> Following(u), read |-> 0, ids |-> {}]
    OBVIOUS
  <2>2. (op.hops = Following(op.source))'
    BY <2>1 DEF Following, Placed
  <2>3. op'.ids = Found(Lists', op'.hops, op'.read, op'.source)
    BY <2>1 DEF Found
  <2>4. op'.read \in 0 .. Len(op'.hops)
    BY <1>1, <2>1
  <2> QED
    BY <2>2, <2>3, <2>4 DEF ApiPartial
<1> QED
  BY <1>2, <1>3, ApiCallStep

\* A read of a hop that is not replicated goes to its home shard, where the
\* cache is coherent.
LEMMA ApiQueryReadStep ==
    ASSUME Rest, HomeCacheCoherent, QueryRead
    PROVE  Rest'
<1> DEFINE v == op.hops[op.read + 1]
           s == LocalFirst(v, Home[op.source])
           hit == v \in DOMAIN cache[s]
           list == IF hit THEN cache[s][v] ELSE follows[s][v]
           fresh == (ToSet(list) \cap Placed) \ {op.source}
           Unmet(k) == \A i \in 1 .. k : op.hops[i] \notin replicated
<1>1. /\ op \in [kind : {"query"}, source : Placed, hops : Seq(Users), read : Nat, ids : SUBSET Users]
      /\ op.read < Len(op.hops)
  <2>1. op.kind = "query" /\ op.read < Len(op.hops)
    BY DEF QueryRead
  <2>2. CallOK
    BY DEF Rest, ApiTypes
  <2> QED
    BY <2>1, <2>2 DEF CallOK, Idle
<1>2. /\ op.hops = Following(op.source)
      /\ Unmet(op.read) => op.ids = Found(Lists, op.hops, op.read, op.source)
  BY <1>1 DEF ApiPartial, Rest
<1>3. v \in ToSet(Following(op.source)) /\ v \in Users
  BY <1>1, <1>2 DEF ToSet
<1>4. Known(v) /\ v \in Placed /\ Following(v) = follows[Home[v]][v]
  BY <1>1, <1>3, ApiFacts DEF EdgesKnown, Rest
<1>5. v \notin replicated => list = Following(v)
  BY <1>4 DEF LocalFirst, HomeCacheCoherent
<1>6. ToSet(Following(v)) \subseteq Placed
  BY <1>4, ApiFacts DEF EdgesKnown, Rest
<1>7. /\ op' = [op EXCEPT !.read = op.read + 1, !.ids = op.ids \cup fresh]
      /\ UNCHANGED <<users, follows, replicated>>
  BY DEF QueryRead
<1>8. fresh \subseteq Users
  BY DEF Placed
<1>9. v \notin replicated => fresh = ToSet(Following(v)) \ {op.source}
  BY <1>5, <1>6
<1>10. v = op.hops[op.read + 1]
  OBVIOUS
<1> HIDE DEF v, s, hit, list, fresh
<1>11. CallOK'
  <2>1. op.ids \cup fresh \in SUBSET Users /\ op.read + 1 \in Nat
    BY <1>1, <1>8
  <2>2. op' \in [kind : {"query"}, source : Placed, hops : Seq(Users), read : Nat, ids : SUBSET Users]
    BY <1>1, <1>7, <2>1
  <2> QED
    BY <2>2 DEF CallOK, Placed
<1>12. ApiPartial'
  <2>1. Lists' = Lists
    BY <1>7 DEF Lists, Following, Placed
  <2>2. /\ op'.source = op.source /\ op'.hops = op.hops /\ op'.read = op.read + 1
        /\ op'.ids = op.ids \cup fresh
    BY <1>1, <1>7
  <2>3. (op.hops = Following(op.source))' /\ op'.read \in 0 .. Len(op'.hops)
    <3>1. Following(op.source)' = Following(op.source)
      BY <1>7, <2>2 DEF Following, Placed
    <3> QED
      BY <1>1, <1>2, <2>2, <3>1
  <2>4. ASSUME Unmet(op.read + 1)
        PROVE  op'.ids = Found(Lists, op.hops, op.read + 1, op.source)
    <3>1. v \notin replicated /\ Unmet(op.read)
      BY <1>1, <1>10, <2>4
    <3>2. Lists[op.hops[op.read + 1]] = Following(v)
      BY <1>3, <1>10 DEF Lists
    <3>3. ToSet(Following(v)) \subseteq Users
      BY <1>6 DEF Placed
    <3> DEFINE In(i) == ToSet(Lists[op.hops[i]])
    <3>4. \A x : (\E i \in 1 .. op.read + 1 : x \in In(i))
                 <=> (\E i \in 1 .. op.read : x \in In(i)) \/ x \in In(op.read + 1)
      <4> HIDE DEF In
      <4> QED
        BY <1>1
    <3>5. /\ op'.ids = op.ids \cup (ToSet(Following(v)) \ {op.source})
          /\ op.ids = Found(Lists, op.hops, op.read, op.source)
      BY <1>2, <1>9, <2>2, <3>1
    <3> QED
      BY <3>2, <3>3, <3>4, <3>5 DEF Found
  <2>5. (\A i \in 1 .. op'.read : op'.hops[i] \notin replicated') =>
            op'.ids = Found(Lists', op'.hops, op'.read, op'.source)
    BY <1>7, <2>1, <2>2, <2>4
  <2> QED
    BY <2>3, <2>5 DEF ApiPartial
<1> QED
  BY <1>7, <1>11, <1>12, ApiCallStep

\* Every call of the public API keeps the invariant.
LEMMA StepApiInv == ApiInv /\ [ApiNext]_vars => ApiInv'
<1> SUFFICES ASSUME ApiInv, [ApiNext]_vars PROVE ApiInv'
  OBVIOUS
<1> USE DEF ApiInv
<1>1. Shape' /\ HomeCacheCoherent'
  BY ApiKeepsHome
<1>2. Rest
  BY DEF Rest
<1> SUFFICES Rest'
  BY <1>1 DEF Rest
<1>3. ASSUME NEW u \in Users, NewUser(u) PROVE Rest'
  BY <1>2, <1>3, ApiNewUserStep
<1>4. ASSUME NEW u \in Users, ReplicateUser(u) PROVE Rest'
  BY <1>2, <1>4, ApiReplicateStep DEF ReplicateUser, CallOK, Idle
<1>5. ASSUME NEW u \in Users, UnreplicateUser(u) PROVE Rest'
  BY <1>2, <1>5, ApiUnreplicateStep
<1>6. ASSUME NEW u \in Users, QueryBegin(u) PROVE Rest'
  BY <1>2, <1>6, ApiQueryBeginStep
<1>7. ASSUME NEW u \in Users, NEW v \in Users,
             \/ AddFollowReplicated(u, v) \/ RemoveFollowReplicated(u, v)
             \/ PlainAddFollow(u, v) \/ PlainRemoveFollow(u, v)
      PROVE  Rest'
  <2>1. Known(u) => Home[u] \in Copies(u)
    BY HomeOfPlaced DEF Copies, Known
  <2> QED
    BY <1>2, <1>7, <2>1, ApiEditStep
       DEF AddFollowReplicated, RemoveFollowReplicated, PlainAddFollow, PlainRemoveFollow,
           Follow, Unfollow
<1>8. CASE \/ \E hubs \in SeqOf(Users, MaxHubs) : HubsBegin(hubs)
           \/ HubsReplicate \/ HubsSkip \/ HubsAbort \/ HubsEnd
  BY <1>2, <1>8, ApiHubsStep
<1>9. CASE QueryRead
  BY <1>2, <1>9, ApiQueryReadStep
<1>10. CASE \/ \E u \in Users : WarmUser(u)
            \/ \E k \in 1 .. Capacity : WarmFromObserved(k)
            \/ ClearObserved \/ QueryEnd
  BY <1>2, <1>10, ApiCallStep
     DEF WarmUser, WarmFromObserved, ClearObserved, QueryEnd, CallOK, ApiPartial, Idle
<1>11. CASE UNCHANGED vars
  <2>1. Lists' = Lists /\ Following(op.source)' = Following(op.source)
    BY <1>11 DEF vars, Lists, Following, Placed
  <2>2. CallOK' /\ ApiPartial'
    BY <1>11, <2>1 DEF vars, ApiTypes, CallOK, ApiPartial, Placed
  <2> QED
    BY <1>2, <1>11, <2>2, ApiCallStep DEF vars
<1> QED
  BY <1>3, <1>4, <1>5, <1>6, <1>7, <1>8, <1>9, <1>10, <1>11 DEF ApiNext, CommonNext

-----------------------------------------------------------------------------
(* Theorems *)

\* The inductive invariant holds of every behaviour of the public API.
THEOREM ApiInvariance == ApiSpec => []ApiInv
  BY InitApiInv, StepApiInv, PTL DEF ApiSpec

\* However replicated users are mutated, a foreign shard has a user exactly
\* while it is replicated: what replicate_user puts there, unreplicate_user
\* takes away, and a plain mutation never reaches it.
THEOREM PresenceCorrect == ApiSpec => []ReplicaPresence
  BY ApiInvariance, PTL DEF ApiInv

\* What the lists of all first hops hold is the two-hop answer.
LEMMA FoundIsTwoHop ==
    ASSUME NEW f \in [Users -> Seq(Users)], NEW u \in Users
    PROVE  Found(f, f[u], Len(f[u]), u) = TwoHop(f, u)
<1> DEFINE hops == f[u]
<1>1. hops \in Seq(Users) /\ Len(hops) \in Nat /\ DOMAIN hops = 1 .. Len(hops)
  OBVIOUS
<1>2. \A v \in Users : ToSet(f[v]) \subseteq Users
  BY DEF ToSet
<1>3. ToSet(hops) = {hops[i] : i \in 1 .. Len(hops)}
  BY <1>1 DEF ToSet
<1>4. \A i \in 1 .. Len(hops) : hops[i] \in Users
  BY <1>1
<1> HIDE DEF hops
<1>5. ASSUME NEW x
      PROVE  x \in Found(f, hops, Len(hops), u) <=> x # u /\ \E v \in ToSet(hops) : x \in ToSet(f[v])
  <2>1. (\E v \in ToSet(hops) : x \in ToSet(f[v]))
            <=> \E i \in 1 .. Len(hops) : x \in ToSet(f[hops[i]])
    BY <1>3
  <2>2. (\E i \in 1 .. Len(hops) : x \in ToSet(f[hops[i]])) => x \in Users
    BY <1>2, <1>4
  <2> QED
    BY <2>1, <2>2 DEF Found
<1>6. \A x : x \in TwoHop(f, u) <=> x # u /\ \E v \in ToSet(hops) : x \in ToSet(f[v])
  BY TwoHopMember DEF hops
<1>7. TwoHop(f, u) = {x \in TwoHop(f, u) : TRUE}
  OBVIOUS
<1> QED
  BY <1>5, <1>6, <1>7 DEF Found, hops

\* Whatever callers do, a wrong answer needs a first hop that is replicated: the
\* reads of a query that has none go to caches and lists of home shards, and no
\* trace of a replica taken down is ever read.
LEMMA UnreplicatedIsExact == ApiInv => ExactWithoutReplicas
<1> SUFFICES ASSUME ApiInv, QueryDone, \A i \in DOMAIN op.hops : op.hops[i] \notin replicated
             PROVE  Exact
  BY DEF ExactWithoutReplicas
<1>1. op \in [kind : {"query"}, source : Placed, hops : Seq(Users), read : Nat, ids : SUBSET Users]
  BY DEF ApiInv, ApiTypes, CallOK, QueryDone, Idle
<1>2. /\ op.source \in Users /\ op.hops = Following(op.source) /\ op.read = Len(op.hops)
      /\ DOMAIN op.hops = 1 .. op.read
  BY <1>1, HomeOfPlaced DEF ApiInv, ApiPartial, QueryDone
<1>3. op.ids = Found(Lists, op.hops, op.read, op.source)
  BY <1>1, <1>2 DEF ApiInv, ApiPartial
<1>4. Lists \in [Users -> Seq(Users)] /\ Lists[op.source] = op.hops
  BY <1>2, ApiFacts DEF ApiInv, Lists
<1>5. Found(Lists, Lists[op.source], Len(Lists[op.source]), op.source) = TwoHop(Lists, op.source)
  <2> HIDE DEF Lists
  <2> QED
    BY <1>2, <1>4, FoundIsTwoHop
<1> QED
  BY <1>2, <1>3, <1>4, <1>5 DEF Exact

\* A query none of whose hops is replicated answers the two-hop set of the home
\* lists (ExactWithoutReplicas).
THEOREM UnreplicatedQueryCorrect == ApiSpec => []ExactWithoutReplicas
  BY ApiInvariance, UnreplicatedIsExact, PTL

-----------------------------------------------------------------------------
(* The answers of a list of second hops *)

\* Answering with one more second hop, as a step of a fold.
AnswerStep(V, source) ==
    [p \in Seq(V) \X V |-> IF p[2] = source THEN p[1] ELSE WithTarget(p[1], p[2])]

\* The answers are a fold over the second hops.
LEMMA AnswersIsFold ==
    ASSUME NEW V, NEW source, NEW list \in Seq(V)
    PROVE  /\ AnswerStep(V, source) \in Steps(Seq(V), V)
           /\ \A x \in Seq(V), v \in V :
                  AnswerStep(V, source)[<<x, v>>] = IF v = source THEN x ELSE WithTarget(x, v)
           /\ Answers(list, source) = FoldOf(AnswerStep(V, source), <<>>, list)
<1> DEFINE step == AnswerStep(V, source)
           none == <<>>
           T == Seq(V)
           Eq(g) == g = [s \in SUBSET DOMAIN list |->
                            IF s = {} THEN none
                            ELSE IF list[Max(s)] = source
                                 THEN g[s \ {Max(s)}]
                                 ELSE WithTarget(g[s \ {Max(s)}], list[Max(s)])]
<1>1. step \in Steps(T, V) /\ none \in T
  <2>1. \A x \in Seq(V), v \in V : WithTarget(x, v) \in Seq(V)
    BY WithTargetList
  <2>2. \A p \in Seq(V) \X V : WithTarget(p[1], p[2]) \in Seq(V)
    BY <2>1
  <2> QED
    BY <2>2 DEF Steps, AnswerStep
<1>2. \A x \in T, v \in V : step[<<x, v>>] = IF v = source THEN x ELSE WithTarget(x, v)
  BY DEF AnswerStep
<1> HIDE DEF step, none, T
<1>3. \E g : Eq(g)
  <2>1. PICK g : /\ g = [s \in SUBSET DOMAIN list |-> g[s]]
                 /\ g[{}] = none
                 /\ FoldsUp(g, T, step, list)
                 /\ AllIn(g, T, list)
                 /\ \A s \in SUBSET DOMAIN list : s # {} => list[Max(s)] \in V
    BY <1>1, FoldExists
  <2>2. Eq(g)
    BY <1>2, <2>1 DEF FoldsUp, AllIn
  <2> QED
    BY <2>2
<1>4. ASSUME NEW g, Eq(g) PROVE g[DOMAIN list] = FoldOf(step, none, list)
  <2>1. g[{}] = none
    BY <1>4
  <2>2. \A s \in SUBSET DOMAIN list : s # {} => list[Max(s)] \in V
    BY <1>1, FoldExists
  <2>3. FoldsUp(g, T, step, list)
    <3>1. ASSUME NEW s \in SUBSET DOMAIN list, s # {}, g[s \ {Max(s)}] \in T
          PROVE  g[s] = step[<<g[s \ {Max(s)}], list[Max(s)]>>]
      <4>1. g[s] = IF list[Max(s)] = source THEN g[s \ {Max(s)}]
                   ELSE WithTarget(g[s \ {Max(s)}], list[Max(s)])
        BY ONLY <1>4, <3>1
      <4>2. list[Max(s)] \in V
        BY <2>2, <3>1
      <4> HIDE DEF Eq
      <4> QED
        BY <1>2, <3>1, <4>1, <4>2
    <3> HIDE DEF Eq
    <3> QED
      BY <3>1 DEF FoldsUp
  <2> QED
    BY <1>1, <2>1, <2>3, FoldUnique
<1>5. Answers(list, source) = (CHOOSE g : Eq(g))[DOMAIN list]
  BY Zenon DEF Answers, FoldLeft, MapThenFoldSet, none
<1> HIDE DEF Eq
<1> QED
  BY <1>1, <1>2, <1>3, <1>4, <1>5 DEF step, none, T

\* No second hops, no answers.
LEMMA AnswersEmpty == \A source : Answers(<<>>, source) = <<>>
<1> TAKE source
<1> DEFINE none == <<>>
<1>1. none \in Seq({})
  OBVIOUS
<1>2. Answers(none, source) = FoldOf(AnswerStep({}, source), none, none)
  BY <1>1, AnswersIsFold
<1>3. FoldOf(AnswerStep({}, source), none, none) = none
  BY FoldOfEmpty
<1> QED
  BY <1>2, <1>3

\* One more second hop is a new answer, or passed over.
LEMMA AnswersAppend ==
    ASSUME NEW V, NEW source, NEW list \in Seq(V), NEW v \in V
    PROVE  /\ Answers(list, source) \in Seq(V)
           /\ Answers(Append(list, v), source) =
                  IF v = source THEN Answers(list, source) ELSE WithTarget(Answers(list, source), v)
<1> DEFINE none == <<>>
           more == Append(list, v)
           step == AnswerStep(V, source)
<1>1. none \in Seq(V) /\ more \in Seq(V)
  OBVIOUS
<1>2. step \in Steps(Seq(V), V)
  BY <1>1, AnswersIsFold
<1>3. \A x \in Seq(V) : step[<<x, v>>] = IF v = source THEN x ELSE WithTarget(x, v)
  BY DEF AnswerStep
<1>4. Answers(list, source) = FoldOf(step, none, list)
  BY <1>1, AnswersIsFold
<1>5. Answers(more, source) = FoldOf(step, none, more)
  BY <1>1, AnswersIsFold
<1> HIDE DEF none, step
<1>7. FoldOf(step, none, list) \in Seq(V) /\ FoldOf(step, none, more) = step[<<FoldOf(step, none, list), v>>]
  BY <1>1, <1>2, FoldOfAppend
<1> QED
  BY <1>3, <1>4, <1>5, <1>7

\* The answers are the members but for the source.
LEMMA AnswersFacts ==
    ASSUME NEW V, NEW source, NEW list \in Seq(V)
    PROVE  /\ Answers(list, source) \in Seq(V)
           /\ ToSet(Answers(list, source)) = ToSet(list) \ {source}
<1> DEFINE W == {l \in Seq(V) : /\ Answers(l, source) \in Seq(V)
                                /\ ToSet(Answers(l, source)) = ToSet(l) \ {source}}
<1>1. <<>> \in W
  <2> DEFINE none == <<>>
  <2>1. ToSet(none) = {} /\ none \in Seq(V)
    BY DEF ToSet
  <2>2. Answers(none, source) = none
    BY AnswersEmpty
  <2> HIDE DEF none
  <2>3. none \in W
    BY <2>1, <2>2
  <2> QED
    BY <2>3 DEF none
<1>2. ASSUME NEW front \in Seq(V), NEW v \in V, front \in W PROVE Append(front, v) \in W
  <2> DEFINE more == Append(front, v)
             a == Answers(front, source)
  <2>1. more \in Seq(V) /\ ToSet(more) = ToSet(front) \cup {v}
    BY AppendedSet
  <2>2. Answers(more, source) = IF v = source THEN a ELSE WithTarget(a, v)
    BY AnswersAppend
  <2>3. a \in Seq(V) /\ ToSet(a) = ToSet(front) \ {source}
    BY <1>2
  <2> HIDE DEF a, more, W
  <2>4. WithTarget(a, v) \in Seq(V) /\ ToSet(WithTarget(a, v)) = ToSet(a) \cup {v}
    BY <2>3, WithTargetList
  <2>5. Answers(more, source) \in Seq(V)
    BY <2>2, <2>3, <2>4
  <2>6. ToSet(Answers(more, source)) = ToSet(more) \ {source}
    BY <2>1, <2>2, <2>3, <2>4
  <2>7. more \in W
    BY <2>1, <2>5, <2>6 DEF W
  <2> QED
    BY <2>7 DEF more
<1> HIDE DEF W
<1>3. list \in W
  BY <1>1, <1>2, ListInduction
<1> QED
  BY <1>3 DEF W

\* Answering the answers again changes nothing.
LEMMA AnswersAgain ==
    ASSUME NEW V, NEW source, NEW list \in Seq(V)
    PROVE  Answers(Answers(list, source), source) = Answers(list, source)
<1> DEFINE W == {l \in Seq(V) : Answers(Answers(l, source), source) = Answers(l, source)}
<1>1. <<>> \in W
  <2>1. Answers(<<>>, source) = <<>> /\ <<>> \in Seq(V)
    BY AnswersEmpty
  <2> QED
    BY <2>1
<1>2. ASSUME NEW front \in Seq(V), NEW v \in V, front \in W PROVE Append(front, v) \in W
  <2> DEFINE more == Append(front, v)
             a == Answers(front, source)
  <2>1. more \in Seq(V)
    OBVIOUS
  <2>2. Answers(more, source) = IF v = source THEN a ELSE WithTarget(a, v)
    BY AnswersAppend
  <2>3. a \in Seq(V) /\ Answers(a, source) = a
    BY <1>2, AnswersFacts
  <2> HIDE DEF a, more, W
  <2>4. Answers(Append(a, v), source) = IF v = source THEN Answers(a, source) ELSE WithTarget(Answers(a, source), v)
    BY <2>3, AnswersAppend
  <2>5. Answers(Answers(more, source), source) = Answers(more, source)
    BY <2>2, <2>3, <2>4 DEF WithTarget
  <2>7. more \in W
    BY <2>1, <2>5 DEF W
  <2> QED
    BY <2>7 DEF more
<1> HIDE DEF W
<1>3. list \in W
  BY <1>1, <1>2, ListInduction
<1> QED
  BY <1>3 DEF W

\* The answers so far may stand for the list that they answer.
LEMMA AnswersGoOn ==
    ASSUME NEW V, NEW source, NEW list \in Seq(V), NEW more \in Seq(V)
    PROVE  Answers(Answers(list, source) \o more, source) = Answers(list \o more, source)
<1> DEFINE step == AnswerStep(V, source)
           none == <<>>
           a == Answers(list, source)
           T == Seq(V)
<1>1. step \in Steps(T, V) /\ none \in T
  <2>1. none \in T
    OBVIOUS
  <2> QED
    BY <2>1, AnswersIsFold
<1>2. a \in T /\ Answers(a, source) = a
  BY AnswersFacts, AnswersAgain
<1>3. \A l \in T : Answers(l, source) = FoldOf(step, none, l)
  BY AnswersIsFold
<1>4. a \o more \in T /\ list \o more \in T /\ list \in T /\ more \in T
  BY <1>2
<1> HIDE DEF step, none, a
<1>5. FoldOf(step, none, a \o more) = FoldOf(step, FoldOf(step, none, a), more)
  BY <1>1, <1>2, FoldOfConcat
<1>6. FoldOf(step, none, list \o more) = FoldOf(step, FoldOf(step, none, list), more)
  BY <1>1, FoldOfConcat
<1>7. a = FoldOf(step, none, list)
  BY <1>3, <1>4 DEF a
<1> QED
  BY <1>2, <1>3, <1>4, <1>5, <1>6, <1>7 DEF a

-----------------------------------------------------------------------------
(* What a traversal finds and counts *)

\* For each user, the second hops behind it and the edges to them that cross.
Reached == [v \in Users |-> Reachable(Following(v))]

Crossed == [v \in Users |-> Crossings(Home[v], Reachable(Following(v)))]

\* The second hops behind the hops, in the order of the reads.
Second(hops) == FlatMap(Reached, hops)

\* The users whose home is another shard.
Away(shard) == {v \in Placed : Home[v] # shard}

\* What the lists of one state give for each user.
LEMMA ReachedFacts ==
    ASSUME TypeOK
    PROVE  /\ Reached \in Into(Users, Seq(Users)) /\ Crossed \in Weights(Users)
           /\ \A v \in Users : /\ Following(v) \in Seq(Users)
                               /\ Reached[v] = Reachable(Following(v))
                               /\ ToSet(Reached[v]) = ToSet(Following(v)) \cap Placed
<1>1. \A v \in Users : Following(v) \in Seq(Users)
  <2> DEFINE none == <<>>
  <2>1. none \in Seq(Users)
    OBVIOUS
  <2> HIDE DEF none
  <2>2. \A v \in Placed : follows[Home[v]][v] \in Seq(Users)
    BY HomeFacts DEF TypeOK
  <2> QED
    BY <2>1, <2>2 DEF Following, none
<1>2. \A l \in Seq(Users) : /\ Reachable(l) \in Seq(Users)
                            /\ ToSet(Reachable(l)) = ToSet(l) \cap Placed
  BY KeptFacts DEF Reachable
<1>3. \A l \in Seq(Users) : \A s : Crossings(s, l) \in Nat
  <2> TAKE l \in Seq(Users)
  <2> TAKE s
  <2>1. Kept(l, Away(s)) \in Seq(Users)
    BY KeptFacts
  <2>2. Len(Kept(l, Away(s))) \in Nat
    BY <2>1
  <2> QED
    BY <2>2 DEF Crossings, Away
<1>4. Reached \in Into(Users, Seq(Users))
  BY <1>1, <1>2 DEF Reached, Into
<1>5. Crossed \in Weights(Users)
  BY <1>1, <1>2, <1>3 DEF Crossed, Weights
<1> QED
  BY <1>1, <1>2, <1>4, <1>5 DEF Reached

\* The crossings counted along the hops are a sum of what each hop adds.
LEMMA CrossingIsWeigh ==
    ASSUME TypeOK, NEW hops \in Seq(Users), NEW base \in Nat
    PROVE  FoldLeft(LAMBDA n, v : n + Crossings(Home[v], Reachable(Following(v))), base, hops) =
               base + Weigh(Users, Crossed, hops)
<1> DEFINE w == Crossed
           step == WeighStep(Users, w)
           T == Nat
           V == Users
           Eq(g) == g = [s \in SUBSET DOMAIN hops |->
                            IF s = {} THEN base
                            ELSE g[s \ {Max(s)}] + Crossings(Home[hops[Max(s)]], Reachable(Following(hops[Max(s)])))]
<1>0. w \in Weights(V) /\ \A v \in V : w[v] = Crossings(Home[v], Reachable(Following(v)))
  BY ReachedFacts DEF Crossed
<1>1. step \in Steps(T, V) /\ base \in T /\ \A n \in T, v \in V : step[<<n, v>>] = n + w[v]
  BY <1>0, WeighSteps
<1> HIDE DEF step, T, w
<1>3. \E g : Eq(g)
  <2>1. PICK g : /\ g = [s \in SUBSET DOMAIN hops |-> g[s]]
                 /\ g[{}] = base
                 /\ FoldsUp(g, T, step, hops)
                 /\ AllIn(g, T, hops)
                 /\ \A s \in SUBSET DOMAIN hops : s # {} => hops[Max(s)] \in V
    BY <1>1, FoldExists
  <2>2. ASSUME NEW s \in SUBSET DOMAIN hops
        PROVE  g[s] = IF s = {} THEN base
                      ELSE g[s \ {Max(s)}] + Crossings(Home[hops[Max(s)]], Reachable(Following(hops[Max(s)])))
    <3>1. CASE s = {}
      BY <2>1, <3>1
    <3>2. CASE s # {}
      <4>1. hops[Max(s)] \in V /\ g[s \ {Max(s)}] \in T
        BY <2>1, <3>2 DEF AllIn
      <4>2. g[s] = step[<<g[s \ {Max(s)}], hops[Max(s)]>>]
        BY <2>1, <3>2, <4>1 DEF FoldsUp
      <4> QED
        BY <1>0, <1>1, <3>2, <4>1, <4>2
    <3> QED
      BY <3>1, <3>2
  <2>3. Eq(g)
    BY <2>1, <2>2
  <2> QED
    BY <2>3
<1>4. ASSUME NEW g, Eq(g) PROVE g[DOMAIN hops] = FoldOf(step, base, hops)
  <2>1. g[{}] = base
    BY <1>4
  <2>2. \A s \in SUBSET DOMAIN hops : s # {} => hops[Max(s)] \in V
    BY <1>1, FoldExists
  <2>3. FoldsUp(g, T, step, hops)
    <3>1. ASSUME NEW s \in SUBSET DOMAIN hops, s # {}, g[s \ {Max(s)}] \in T
          PROVE  g[s] = step[<<g[s \ {Max(s)}], hops[Max(s)]>>]
      <4>1. g[s] = g[s \ {Max(s)}] + Crossings(Home[hops[Max(s)]], Reachable(Following(hops[Max(s)])))
        BY ONLY <1>4, <3>1
      <4>2. hops[Max(s)] \in V
        BY <2>2, <3>1
      <4> HIDE DEF Eq
      <4> QED
        BY <1>0, <1>1, <3>1, <4>1, <4>2
    <3> HIDE DEF Eq
    <3> QED
      BY <3>1 DEF FoldsUp
  <2> QED
    BY <1>1, <2>1, <2>3, FoldUnique
<1>5. FoldLeft(LAMBDA n, v : n + Crossings(Home[v], Reachable(Following(v))), base, hops) =
          (CHOOSE g : Eq(g))[DOMAIN hops]
  BY Zenon DEF FoldLeft, MapThenFoldSet
<1>6. FoldOf(step, base, hops) = base + Weigh(Users, w, hops)
  <2> HIDE DEF V
  <2> QED
    BY <1>0, WeighFrom DEF step, T, V
<1> HIDE DEF Eq
<1> QED
  BY <1>3, <1>4, <1>5, <1>6 DEF w

\* A traversal, part by part.
LEMMA TraversalFacts ==
    ASSUME TypeOK, NEW source \in Users, NEW hops \in Seq(Users)
    PROVE  /\ Second(hops) \in Seq(Users)
           /\ Traversal(source, hops).user_ids = Answers(Second(hops), source)
           /\ Traversal(source, hops).shards_touched =
                  {Home[v] : v \in {source} \cup ToSet(hops) \cup ToSet(Second(hops))}
           /\ Traversal(source, hops).cross_shard_hops =
                  Crossings(Home[source], hops) + Weigh(Users, Crossed, hops)
           /\ Crossings(Home[source], hops) = Weigh(Users, Counting(Users, Away(Home[source])), hops)
<1> DEFINE base == Crossings(Home[source], hops)
           cross == FoldLeft(LAMBDA n, v : n + Crossings(Home[v], Reachable(Following(v))), base, hops)
           second == FlattenSeq([i \in DOMAIN hops |-> Reachable(Following(hops[i]))])
<1>1. second = Second(hops)
  <2>1. \A i \in DOMAIN hops : hops[i] \in Users /\ Reachable(Following(hops[i])) = Reached[hops[i]]
    BY DEF Reached
  <2>2. [i \in DOMAIN hops |-> Reachable(Following(hops[i]))] = [i \in DOMAIN hops |-> Reached[hops[i]]]
    BY <2>1
  <2> QED
    BY <2>2 DEF Second, FlatMap, Mapped
<1>2. Second(hops) \in Seq(Users)
  BY ReachedFacts, FlatMapFacts DEF Second
<1>3. base = Weigh(Users, Counting(Users, Away(Home[source])), hops)
  BY KeptLength DEF Crossings, Away
<1>4. base \in Nat
  <2>1. Kept(hops, Away(Home[source])) \in Seq(Users)
    BY KeptFacts
  <2> QED
    BY <2>1 DEF Crossings, Away
<1>5. cross = base + Weigh(Users, Crossed, hops)
  <2> HIDE DEF base
  <2> QED
    BY <1>4, CrossingIsWeigh
<1>6. Traversal(source, hops) =
          [user_ids |-> Answers(second, source),
           shards_touched |-> {Home[v] : v \in {source} \cup ToSet(hops) \cup ToSet(second)},
           cross_shard_hops |-> cross]
  BY Zenon DEF Traversal
<1> HIDE DEF cross, base, second
<1> QED
  BY <1>1, <1>2, <1>3, <1>5, <1>6 DEF base

-----------------------------------------------------------------------------
(* The batched query *)

\* There are no more values than elements.
LEMMA ImageIsSmall ==
    ASSUME NEW V, NEW f, NEW list \in Seq(V)
    PROVE  /\ IsFiniteSet({f[v] : v \in ToSet(list)})
           /\ Cardinality({f[v] : v \in ToSet(list)}) <= Len(list)
<1> DEFINE Image(l) == {f[v] : v \in ToSet(l)}
           Good(l) == IsFiniteSet(Image(l)) /\ Cardinality(Image(l)) <= Len(l)
           W == {l \in Seq(V) : Good(l)}
<1>1. <<>> \in W
  <2> DEFINE none == <<>>
  <2>1. none \in Seq(V) /\ Image(none) = {} /\ Len(none) = 0
    BY DEF ToSet
  <2> HIDE DEF none, Image
  <2>2. IsFiniteSet(Image(none)) /\ Cardinality(Image(none)) = 0
    BY <2>1, FS_EmptySet
  <2>3. Good(none)
    BY <2>1, <2>2
  <2> HIDE DEF Good
  <2> QED
    BY <2>1, <2>3 DEF none
<1>2. ASSUME NEW front \in Seq(V), NEW x \in V, front \in W PROVE Append(front, x) \in W
  <2> DEFINE more == Append(front, x)
  <2>1. more \in Seq(V) /\ ToSet(more) = ToSet(front) \cup {x}
    BY AppendedSet
  <2>2. Len(more) = Len(front) + 1 /\ Len(front) \in Nat
    OBVIOUS
  <2>3. IsFiniteSet(Image(front)) /\ Cardinality(Image(front)) <= Len(front)
    BY <1>2
  <2> HIDE DEF more, W
  <2>4. Image(more) = Image(front) \cup {f[x]}
    BY <2>1
  <2> HIDE DEF Image
  <2>5. /\ IsFiniteSet(Image(front) \cup {f[x]})
        /\ Cardinality(Image(front) \cup {f[x]}) =
               IF f[x] \in Image(front) THEN Cardinality(Image(front)) ELSE Cardinality(Image(front)) + 1
    BY <2>3, FS_AddElement
  <2>6. Cardinality(Image(front)) \in Nat
    BY <2>3, FS_CardinalityType
  <2>7. Good(more)
    BY <2>2, <2>3, <2>4, <2>5, <2>6
  <2> HIDE DEF Good
  <2> QED
    BY <2>1, <2>7 DEF W, more
<1> HIDE DEF Good
<1>3. list \in W
  <2> HIDE DEF W
  <2> QED
    BY <1>1, <1>2, ListInduction
<1>4. Good(list)
  BY <1>3
<1> QED
  BY <1>4 DEF Good

\* No hop is passed over: both ends of an edge are placed.
LEMMA HopsPlaced ==
    ASSUME TypeOK, EdgesKnown, NEW u \in Placed
    PROVE  /\ Following(u) \in Seq(Users) /\ ToSet(Following(u)) \subseteq Placed
           /\ Reachable(Following(u)) = Following(u)
<1>1. Following(u) \in Seq(Users) /\ ToSet(Following(u)) \subseteq Placed
  BY HomeFacts DEF EdgesKnown
<1>2. Kept(Following(u), Placed) = Following(u)
  BY <1>1, KeptFacts
<1> QED
  BY <1>1, <1>2 DEF Reachable

\* The hops of the batched query are those of the direct one, sorted by shard.
LEMMA BatchedFacts ==
    ASSUME TypeOK, EdgesKnown, NEW u \in Placed
    PROVE  /\ BatchedHops(u) \in Seq(Users)
           /\ ToSet(BatchedHops(u)) = ToSet(Following(u))
           /\ \A w \in Weights(Users) : Weigh(Users, w, BatchedHops(u)) = Weigh(Users, w, Following(u))
<1> DEFINE hops == Following(u)
           n == Cardinality(Shards)
           class == [i \in 1 .. n |-> {v \in Placed : Home[v] = i - 1}]
<1>1. hops \in Seq(Users) /\ ToSet(hops) \subseteq Placed /\ Reachable(hops) = hops
  BY HopsPlaced
<1>2. n \in Nat /\ Shards = 0 .. n - 1
  BY QueriesAssumption, FS_CardinalityType
<1>3. BatchedHops(u) = ByClass(hops, class, n)
  <2>1. BatchedHops(u) = FlattenSeq([i \in 1 .. n |-> Kept(Reachable(hops), {v \in Placed : Home[v] = i - 1})])
    BY Zenon DEF BatchedHops
  <2>2. \A i \in 1 .. n : class[i] = {v \in Placed : Home[v] = i - 1}
    OBVIOUS
  <2> HIDE DEF class, n, hops
  <2>3. [i \in 1 .. n |-> Kept(hops, {v \in Placed : Home[v] = i - 1})] = [i \in 1 .. n |-> Kept(hops, class[i])]
    BY <2>2
  <2> QED
    BY <1>1, <2>1, <2>3 DEF ByClass
<1> HIDE DEF hops, n
<1>4. United(class, n) = Placed
  <2>1. ASSUME NEW v \in Placed PROVE v \in United(class, n)
    <3>1. Home[v] \in 0 .. n - 1
      BY <1>2, HomeFacts
    <3>2. Home[v] + 1 \in 1 .. n /\ (Home[v] + 1) - 1 = Home[v]
      BY <1>2, <3>1
    <3>3. v \in class[Home[v] + 1]
      BY <3>2
    <3> HIDE DEF class
    <3> QED
      BY <3>2, <3>3 DEF United
  <2>2. \A i \in 1 .. n : class[i] \subseteq Placed
    OBVIOUS
  <2> HIDE DEF class
  <2> QED
    BY <2>1, <2>2 DEF United
<1>5. NoOverlap(class, n)
  <2>1. ASSUME NEW i \in 1 .. n, NEW j \in 1 .. n, i # j PROVE class[i] \cap class[j] = {}
    <3>1. i - 1 # j - 1
      BY <1>2, <2>1
    <3> QED
      BY <3>1
  <2> QED
    BY <2>1 DEF NoOverlap
<1> HIDE DEF class
<1>6. /\ ByClass(hops, class, n) \in Seq(Users)
      /\ ToSet(ByClass(hops, class, n)) = ToSet(hops) \cap United(class, n)
      /\ \A w \in Weights(Users) :
             Weigh(Users, w, ByClass(hops, class, n)) = Weigh(Users, w, Kept(hops, United(class, n)))
  BY <1>1, <1>2, <1>5, ByClassFacts
<1>7. Kept(hops, Placed) = hops
  BY <1>1 DEF Reachable
<1>8. Crossed \in Weights(Users)
  BY ReachedFacts
<1> QED
  BY <1>1, <1>3, <1>4, <1>6, <1>7, <1>8 DEF hops

\* Direct and batched queries agree.
LEMMA BatchedAgreement == TypeOK /\ EdgesKnown => BatchedAgrees
<1> SUFFICES ASSUME TypeOK, EdgesKnown, NEW u \in Placed
             PROVE  /\ ToSet(Batched(u).user_ids) = ToSet(Direct(u).user_ids)
                    /\ Batched(u).shards_touched = Direct(u).shards_touched
                    /\ Batched(u).cross_shard_hops = Direct(u).cross_shard_hops
                    /\ BatchedRequests(u) <= DirectRequests(u)
                    /\ BatchedRequests(u) <= 1 + Cardinality(Shards)
  BY DEF BatchedAgrees
<1> DEFINE hops == Following(u)
           sorted == BatchedHops(u)
<1>1. hops \in Seq(Users) /\ ToSet(hops) \subseteq Placed /\ Reachable(hops) = hops /\ u \in Users
  BY HopsPlaced DEF Placed
<1>2. /\ sorted \in Seq(Users) /\ ToSet(sorted) = ToSet(hops)
      /\ \A w \in Weights(Users) : Weigh(Users, w, sorted) = Weigh(Users, w, hops)
  BY BatchedFacts
<1>3. /\ Direct(u) = Traversal(u, hops) /\ Batched(u) = Traversal(u, sorted)
      /\ DirectRequests(u) = 1 + Len(hops)
      /\ BatchedRequests(u) = 1 + Cardinality({Home[v] : v \in ToSet(sorted)})
  BY <1>1 DEF Direct, Batched, DirectRequests, BatchedRequests
<1> HIDE DEF hops, sorted
<1>4. ToSet(Second(sorted)) = ToSet(Second(hops))
  <2>1. \A l \in Seq(Users) : ToSet(Second(l)) = UNION {ToSet(Reached[v]) : v \in ToSet(l)}
    BY ReachedFacts, FlatMapFacts DEF Second
  <2> QED
    BY <1>1, <1>2, <2>1
<1>5. ASSUME NEW l \in Seq(Users)
      PROVE  /\ Second(l) \in Seq(Users)
             /\ Traversal(u, l).user_ids = Answers(Second(l), u)
             /\ Traversal(u, l).shards_touched = {Home[v] : v \in {u} \cup ToSet(l) \cup ToSet(Second(l))}
             /\ Traversal(u, l).cross_shard_hops =
                    Weigh(Users, Counting(Users, Away(Home[u])), l) + Weigh(Users, Crossed, l)
  BY <1>1, TraversalFacts
<1>6. ToSet(Traversal(u, sorted).user_ids) = ToSet(Traversal(u, hops).user_ids)
  <2>1. \A l \in Seq(Users) : ToSet(Answers(l, u)) = ToSet(l) \ {u}
    BY AnswersFacts
  <2> QED
    BY <1>1, <1>2, <1>4, <1>5, <2>1
<1>7. Traversal(u, sorted).shards_touched = Traversal(u, hops).shards_touched
  BY <1>1, <1>2, <1>4, <1>5
<1>8. Traversal(u, sorted).cross_shard_hops = Traversal(u, hops).cross_shard_hops
  <2>1. Counting(Users, Away(Home[u])) \in Weights(Users) /\ Crossed \in Weights(Users)
    BY ReachedFacts DEF Counting, Weights
  <2> QED
    BY <1>1, <1>2, <1>5, <2>1
<1>9. Cardinality({Home[v] : v \in ToSet(sorted)}) <= Len(hops)
  BY <1>1, <1>2, ImageIsSmall
<1>10. Cardinality({Home[v] : v \in ToSet(sorted)}) <= Cardinality(Shards)
  <2>1. {Home[v] : v \in ToSet(sorted)} \in SUBSET Shards
    BY <1>1, <1>2, HomeFacts
  <2> QED
    BY <2>1, QueriesAssumption, FS_Subset
<1>11. /\ Len(hops) \in Nat /\ Cardinality(Shards) \in Nat
       /\ Cardinality({Home[v] : v \in ToSet(sorted)}) \in Nat
  <2>1. Len(hops) \in Nat
    BY <1>1
  <2>2. Cardinality(Shards) \in Nat
    BY QueriesAssumption, FS_CardinalityType
  <2>3. IsFiniteSet({Home[v] : v \in ToSet(sorted)})
    BY <1>2, ImageIsSmall
  <2>4. Cardinality({Home[v] : v \in ToSet(sorted)}) \in Nat
    BY <2>3, FS_CardinalityType
  <2> QED
    BY <2>1, <2>2, <2>4
<1>12. BatchedRequests(u) <= DirectRequests(u) /\ BatchedRequests(u) <= 1 + Cardinality(Shards)
  BY <1>3, <1>9, <1>10, <1>11
<1> QED
  BY <1>3, <1>6, <1>7, <1>8, <1>12

-----------------------------------------------------------------------------
(* The counters of the cached query *)

\* The shards met on the way from source over the hops and what is behind them.
Met(source, hops, reached) ==
    {Home[v] : v \in {source} \cup ToSet(hops) \cup ToSet(FlatMap(reached, hops))}

\* The edges to the hops and from them that cross between home shards.
Crossing(source, hops, crossed) ==
    Weigh(Users, Counting(Users, Away(Home[source])), hops) + Weigh(Users, crossed, hops)

\* st counts the reads of these n hops of source.
Tallied(st, source, hops, n, reached, crossed, marked) ==
    /\ st.user_ids = Answers(FlatMap(reached, hops), source)
    /\ st.shard_requests = 1 + n
    /\ st.hits \in Nat /\ st.misses \in Nat /\ st.hits + st.misses = n
    /\ st.shards_touched \subseteq Met(source, hops, reached)
    /\ marked = {} => /\ st.shards_touched = Met(source, hops, reached)
                      /\ st.cross_shard_hops = Crossing(source, hops, crossed)

\* During a query the counters are those of the hops read so far.
StatsInv ==
    op.kind = "query" =>
        Tallied(stats, op.source, SubSeq(op.hops, 1, op.read), op.read, Reached, Crossed, replicated)

\* A query begins with the counters of no hop.
LEMMA BeginTallies ==
    ASSUME IInv, NEW u \in Users, CountedBegin(u)
    PROVE  StatsInv'
<1> DEFINE none == <<>>
           st == [NoStats EXCEPT !.shards_touched = {Home[u]}, !.shard_requests = 1]
<1>1. /\ u \in Placed /\ stats' = st
      /\ op' = [kind |-> "query", source |-> u, hops |-> Following(u), read |-> 0, ids |-> {}]
  BY DEF CountedBegin, QueryBegin
<1>2. st.user_ids = none /\ st.shards_touched = {Home[u]} /\ st.cross_shard_hops = 0
      /\ st.shard_requests = 1 /\ st.hits = 0 /\ st.misses = 0
  BY DEF NoStats
<1>3. SubSeq(Following(u), 1, 0) = none
  <2>1. Following(u) \in Seq(Users)
    BY <1>1, HomeFacts DEF IInv
  <2> QED
    BY <2>1, FrontEnds
<1>4. \A reached : FlatMap(reached, none) = none /\ Answers(none, u) = none
  BY FlatMapEmpty, AnswersEmpty
<1>5. \A w : Weigh(Users, w, none) = 0
  BY WeighEmpty
<1>6. ToSet(none) = {}
  BY DEF ToSet
<1> HIDE DEF st, none
<1>7. ASSUME NEW reached PROVE Met(u, none, reached) = {Home[u]}
  BY <1>4, <1>6 DEF Met
<1>8. ASSUME NEW crossed PROVE Crossing(u, none, crossed) = 0
  <2>1. Weigh(Users, Counting(Users, Away(Home[u])), none) = 0 /\ Weigh(Users, crossed, none) = 0
    BY <1>5
  <2> QED
    BY <2>1 DEF Crossing
<1>9. ASSUME NEW reached, NEW crossed, NEW marked PROVE Tallied(st, u, none, 0, reached, crossed, marked)
  BY <1>2, <1>4, <1>7, <1>8 DEF Tallied
<1>10. op'.source = u /\ op'.read = 0 /\ SubSeq(op'.hops, 1, op'.read) = none
  BY <1>1, <1>3
<1>11. Tallied(stats', op'.source, SubSeq(op'.hops, 1, op'.read), op'.read, Reached', Crossed', replicated')
  BY <1>1, <1>9, <1>10
<1> QED
  BY <1>11 DEF StatsInv

\* What the read of one hop gives and where, as in QueryReadStep.
LEMMA ReadGives ==
    ASSUME IInv, QueryRead
    PROVE  LET v == op.hops[op.read + 1]
               s == LocalFirst(v, Home[op.source])
           IN /\ op \in [kind : {"query"}, source : Placed, hops : Seq(Users), read : Nat, ids : SUBSET Users]
              /\ op.read \in 0 .. Len(op.hops) - 1
              /\ v \in Placed /\ s \in {Home[v], Home[op.source]}
              /\ (IF v \in DOMAIN cache[s] THEN cache[s][v] ELSE follows[s][v]) = Following(v)
<1> USE DEF IInv
<1> DEFINE v == op.hops[op.read + 1]
           s == LocalFirst(v, Home[op.source])
<1>1. /\ op \in [kind : {"query"}, source : Placed, hops : Seq(Users), read : Nat, ids : SUBSET Users]
      /\ op.read < Len(op.hops)
  <2>1. op.kind = "query" /\ op.read < Len(op.hops)
    BY DEF QueryRead
  <2>2. CallOK
    BY DEF TypeOK
  <2> QED
    BY <2>1, <2>2 DEF CallOK, Idle
<1>2. op.read \in 0 .. Len(op.hops) - 1
  BY <1>1
<1>3. op.hops = Following(op.source)
  BY <1>1 DEF QueryPartial
<1>4. v \in ToSet(Following(op.source)) /\ v \in Users
  BY <1>1, <1>3 DEF ToSet
<1>5. Known(v) /\ v \in Placed /\ Home[v] \in Shards /\ Home[op.source] \in Shards
  BY <1>1, <1>4, HomeFacts DEF EdgesKnown
<1>6. s \in Shards /\ follows[s][v] = Following(v) /\ s \in {Home[v], Home[op.source]}
  BY <1>5, HomeFacts DEF LocalFirst, ReplicasMirrorHome
<1>7. (IF v \in DOMAIN cache[s] THEN cache[s][v] ELSE follows[s][v]) = Following(v)
  BY <1>6 DEF CachesCoherent
<1> HIDE DEF v, s
<1> QED
  BY <1>1, <1>2, <1>5, <1>6, <1>7 DEF v, s

\* A read adds to the counters what its hop adds to a traversal.
LEMMA ReadTallies ==
    ASSUME IInv, StatsInv, CountedRead
    PROVE  StatsInv'
<1> DEFINE v == op.hops[op.read + 1]
           s == LocalFirst(v, Home[op.source])
           hit == v \in DOMAIN cache[s]
           list == IF hit THEN cache[s][v] ELSE follows[s][v]
           source == op.source
           front == SubSeq(op.hops, 1, op.read)
           more == SubSeq(op.hops, 1, op.read + 1)
           second == Reachable(list)
           near == Counting(Users, Away(Home[source]))
           crossing == Kept(second, {w \in Placed : LocalFirst(w, s) # s})
<1>1. TypeOK /\ QueryRead /\ op.kind = "query"
  BY DEF IInv, CountedRead, QueryRead
<1>2. /\ op \in [kind : {"query"}, source : Placed, hops : Seq(Users), read : Nat, ids : SUBSET Users]
      /\ op.read \in 0 .. Len(op.hops) - 1
      /\ v \in Placed /\ s \in {Home[v], Home[source]}
      /\ list = Following(v)
  BY <1>1, ReadGives
<1>3. /\ stats' = Counted(v, s, list, hit)
      /\ op' = [op EXCEPT !.read = @ + 1,
                          !.ids = @ \cup ((ToSet(list) \cap Placed) \ {op.source})]
      /\ UNCHANGED <<users, follows, replicated>>
  BY DEF CountedRead, QueryRead
<1>4. op'.source = source /\ op'.hops = op.hops /\ op'.read = op.read + 1
  BY <1>2, <1>3
<1>5. Reached' = Reached /\ Crossed' = Crossed
  BY <1>3 DEF Reached, Crossed, Following, Placed
<1>6. /\ stats'.user_ids = Answers(stats.user_ids \o second, source)
      /\ stats'.shards_touched = stats.shards_touched \cup {s} \cup {LocalFirst(w, s) : w \in ToSet(second)}
      /\ stats'.cross_shard_hops =
             stats.cross_shard_hops + (IF s # Home[source] THEN 1 ELSE 0) + Len(crossing)
      /\ stats'.shard_requests = stats.shard_requests + 1
      /\ stats'.hits = stats.hits + (IF hit THEN 1 ELSE 0)
      /\ stats'.misses = stats.misses + (IF hit THEN 0 ELSE 1)
  <2> HIDE DEF v, s, hit, list
  <2> QED
    BY <1>3 DEF Counted
<1>7. v \in Users /\ second = Reached[v] /\ source \in Users
      /\ Reached \in Into(Users, Seq(Users)) /\ Crossed \in Weights(Users)
      /\ near \in Weights(Users) /\ near[v] = IF Home[v] # Home[source] THEN 1 ELSE 0
  <2>1. v \in Users /\ source \in Users
    BY <1>2 DEF Placed
  <2> HIDE DEF v, source
  <2>2. second = Reached[v]
    BY <1>2, <2>1 DEF Reached
  <2>3. near \in Weights(Users) /\ near[v] = IF Home[v] # Home[source] THEN 1 ELSE 0
    BY <1>2, <2>1 DEF Counting, Weights, Away
  <2> QED
    BY <1>1, <2>1, <2>2, <2>3, ReachedFacts
<1>8. front \in Seq(Users) /\ more = Append(front, v)
  <2> DEFINE hops == op.hops
             k == op.read
  <2>1. hops \in Seq(Users) /\ k \in 0 .. Len(hops) - 1
    BY <1>2
  <2> HIDE DEF hops, k
  <2>2. SubSeq(hops, 1, k) \in Seq(Users) /\ SubSeq(hops, 1, k + 1) = Append(SubSeq(hops, 1, k), hops[k + 1])
    BY <2>1, FrontAppended
  <2> QED
    BY <2>2 DEF hops, k
<1>9. Tallied(stats, source, front, op.read, Reached, Crossed, replicated)
  BY <1>1 DEF StatsInv
<1>10. op.read \in Nat
  BY <1>2
<1>11. \A w, r : LocalFirst(w, r) \in {r, Home[w]} /\ (replicated = {} => LocalFirst(w, r) = Home[w])
  BY DEF LocalFirst
<1>12. replicated = {} => s = Home[v]
  BY <1>11
<1>13. replicated = {} => Len(crossing) = Crossed[v]
  <2> HIDE DEF v, s
  <2> SUFFICES ASSUME replicated = {} PROVE Len(crossing) = Crossed[v]
    OBVIOUS
  <2>1. {w \in Placed : LocalFirst(w, s) # s} = {w \in Placed : Home[w] # Home[v]}
    BY <1>11, <1>12
  <2>2. second = Reachable(Following(v))
    BY <1>2
  <2>3. Crossed[v] = Crossings(Home[v], Reachable(Following(v)))
    BY <1>7 DEF Crossed
  <2> HIDE DEF second
  <2> QED
    BY <2>1, <2>2, <2>3 DEF Crossings
<1> HIDE DEF v, s, hit, list, source, front, more, second, near, crossing
<1>14. /\ FlatMap(Reached, front) \in Seq(Users) /\ second \in Seq(Users)
       /\ FlatMap(Reached, more) = FlatMap(Reached, front) \o second
  BY <1>7, <1>8, FlatMapAppend
<1>15. ToSet(FlatMap(Reached, more)) = ToSet(FlatMap(Reached, front)) \cup ToSet(second)
       /\ ToSet(more) = ToSet(front) \cup {v}
  BY <1>7, <1>8, <1>14, ConcatSet, AppendedSet
<1>16. stats'.user_ids = Answers(FlatMap(Reached, more), source)
  <2>1. stats.user_ids = Answers(FlatMap(Reached, front), source)
    BY <1>9 DEF Tallied
  <2> QED
    BY <1>6, <1>14, <2>1, AnswersGoOn
<1>17. stats'.shard_requests = 1 + (op.read + 1)
  BY <1>6, <1>9, <1>10 DEF Tallied
<1>18. stats'.hits \in Nat /\ stats'.misses \in Nat /\ stats'.hits + stats'.misses = op.read + 1
  <2>1. stats.hits \in Nat /\ stats.misses \in Nat /\ stats.hits + stats.misses = op.read
    BY <1>9 DEF Tallied
  <2> QED
    BY <1>6, <1>10, <2>1
<1>19. Met(source, more, Reached) =
           Met(source, front, Reached) \cup {Home[v]} \cup {Home[w] : w \in ToSet(second)}
  BY <1>15 DEF Met
<1>20. Home[source] \in Met(source, front, Reached)
  BY DEF Met
<1>21. stats'.shards_touched \subseteq Met(source, more, Reached)
  <2>1. stats.shards_touched \subseteq Met(source, front, Reached)
    BY <1>9 DEF Tallied
  <2>2. s \in {Home[v], Home[source]}
    BY <1>2
  <2>3. \A w : LocalFirst(w, s) \in {s, Home[w]}
    BY <1>11
  <2> QED
    BY <1>6, <1>19, <1>20, <2>1, <2>2, <2>3
<1>22. replicated = {} => stats'.shards_touched = Met(source, more, Reached)
  <2> SUFFICES ASSUME replicated = {} PROVE stats'.shards_touched = Met(source, more, Reached)
    OBVIOUS
  <2>1. stats.shards_touched = Met(source, front, Reached)
    BY <1>9 DEF Tallied
  <2>2. \A w : LocalFirst(w, s) = Home[w]
    BY <1>11
  <2> QED
    BY <1>6, <1>12, <1>19, <2>1, <2>2
<1>23. replicated = {} => stats'.cross_shard_hops = Crossing(source, more, Crossed)
  <2> SUFFICES ASSUME replicated = {} PROVE stats'.cross_shard_hops = Crossing(source, more, Crossed)
    OBVIOUS
  <2>1. stats.cross_shard_hops = Weigh(Users, near, front) + Weigh(Users, Crossed, front)
    BY <1>9 DEF Tallied, Crossing, near
  <2>2. /\ Weigh(Users, near, front) \in Nat /\ near[v] \in Nat
        /\ Weigh(Users, near, more) = Weigh(Users, near, front) + near[v]
    BY <1>7, <1>8, WeighAppend
  <2>3. /\ Weigh(Users, Crossed, front) \in Nat /\ Crossed[v] \in Nat
        /\ Weigh(Users, Crossed, more) = Weigh(Users, Crossed, front) + Crossed[v]
    BY <1>7, <1>8, WeighAppend
  <2>4. Crossing(source, more, Crossed) = Weigh(Users, near, more) + Weigh(Users, Crossed, more)
    BY DEF Crossing, near
  <2> QED
    BY <1>6, <1>7, <1>12, <1>13, <2>1, <2>2, <2>3, <2>4
<1>24. Tallied(stats', source, more, op.read + 1, Reached, Crossed, replicated)
  BY <1>16, <1>17, <1>18, <1>21, <1>22, <1>23 DEF Tallied
<1>25. SubSeq(op'.hops, 1, op'.read) = more
  BY <1>4 DEF more
<1>26. Tallied(stats', op'.source, SubSeq(op'.hops, 1, op'.read), op'.read, Reached', Crossed', replicated')
  BY <1>3, <1>4, <1>5, <1>24, <1>25
<1> QED
  BY <1>26 DEF StatsInv

\* Every step keeps the invariant of the counters.
LEMMA StepStats == IInv /\ StatsInv /\ [CountedNext]_countedVars => StatsInv'
<1> SUFFICES ASSUME IInv, StatsInv, [CountedNext]_countedVars PROVE StatsInv'
  OBVIOUS
<1>1. CASE Uncounted
  BY <1>1 DEF Uncounted, StatsInv
<1>2. ASSUME NEW u \in Users, CountedBegin(u) PROVE StatsInv'
  BY <1>2, BeginTallies
<1>3. CASE CountedRead
  BY <1>3, ReadTallies
<1>4. CASE CountedEnd
  BY <1>4 DEF CountedEnd, QueryEnd, Idle, StatsInv
<1>5. CASE UNCHANGED countedVars
  <2>1. /\ op' = op /\ stats' = stats /\ replicated' = replicated /\ follows' = follows
    BY <1>5 DEF countedVars
  <2>2. Reached' = Reached /\ Crossed' = Crossed
    BY <2>1 DEF Reached, Crossed, Following, Placed
  <2> QED
    BY <2>1, <2>2 DEF StatsInv
<1> QED
  BY <1>1, <1>2, <1>3, <1>4, <1>5 DEF CountedNext

\* Counting changes nothing about the calls.
LEMMA CountedIsAware == [CountedNext]_countedVars => [AwareNext]_vars
  BY DEF CountedNext, countedVars, vars, Uncounted, CountedBegin, CountedRead, CountedEnd, AwareNext, CommonNext

\* The counters of all hops are those of the direct query.
LEMMA CachedAgreement == IInv /\ StatsInv => CachedAgrees /\ CachedCounters
<1> SUFFICES ASSUME IInv, StatsInv, QueryDone
             PROVE  /\ stats.user_ids = Direct(op.source).user_ids
                    /\ stats.shard_requests = DirectRequests(op.source)
                    /\ stats.hits + stats.misses + 1 = stats.shard_requests
                    /\ stats.shards_touched \subseteq Direct(op.source).shards_touched
                    /\ replicated = {} =>
                          /\ stats.shards_touched = Direct(op.source).shards_touched
                          /\ stats.cross_shard_hops = Direct(op.source).cross_shard_hops
  BY DEF CachedAgrees, CachedCounters
<1> DEFINE source == op.source
           hops == op.hops
<1>1. op \in [kind : {"query"}, source : Placed, hops : Seq(Users), read : Nat, ids : SUBSET Users]
      /\ op.read = Len(op.hops)
  BY DEF IInv, TypeOK, CallOK, QueryDone, Idle
<1>2. /\ hops = Following(source) /\ source \in Placed /\ source \in Users /\ hops \in Seq(Users)
      /\ TypeOK /\ EdgesKnown
  BY <1>1 DEF IInv, QueryPartial, Placed
<1>3. Reachable(hops) = hops /\ Reachable(Following(source)) = hops
  <2> HIDE DEF source, hops
  <2> QED
    BY <1>2, HopsPlaced
<1>4. SubSeq(hops, 1, op.read) = hops
  BY <1>1, FrontEnds
<1>5. Tallied(stats, source, hops, Len(hops), Reached, Crossed, replicated)
  BY <1>1, <1>4 DEF StatsInv
<1>6. Direct(source) = Traversal(source, hops) /\ DirectRequests(source) = 1 + Len(hops)
  BY <1>3 DEF Direct, DirectRequests
<1> HIDE DEF source, hops
<1>7. /\ Traversal(source, hops).user_ids = Answers(Second(hops), source)
      /\ Traversal(source, hops).shards_touched = Met(source, hops, Reached)
      /\ Traversal(source, hops).cross_shard_hops = Crossing(source, hops, Crossed)
  <2>1. /\ Traversal(source, hops).user_ids = Answers(Second(hops), source)
        /\ Traversal(source, hops).shards_touched =
               {Home[v] : v \in {source} \cup ToSet(hops) \cup ToSet(Second(hops))}
        /\ Traversal(source, hops).cross_shard_hops =
               Weigh(Users, Counting(Users, Away(Home[source])), hops) + Weigh(Users, Crossed, hops)
    BY <1>2, TraversalFacts
  <2> QED
    BY <2>1 DEF Met, Crossing, Second
<1>8. Len(hops) \in Nat
  BY <1>2
<1>9. stats.user_ids = Direct(source).user_ids
  BY <1>5, <1>6, <1>7 DEF Tallied, Second
<1>10. stats.shard_requests = DirectRequests(source) /\ stats.hits + stats.misses + 1 = stats.shard_requests
  BY <1>5, <1>6, <1>8 DEF Tallied
<1>11. /\ stats.shards_touched \subseteq Direct(source).shards_touched
       /\ replicated = {} => /\ stats.shards_touched = Direct(source).shards_touched
                             /\ stats.cross_shard_hops = Direct(source).cross_shard_hops
  BY <1>5, <1>6, <1>7 DEF Tallied
<1> QED
  BY <1>9, <1>10, <1>11 DEF source

\* Direct, batched and cached queries agree.
THEOREM QueriesAgreeCorrect == CountedSpec => []QueriesAgree
<1>1. CountedInit => IInv /\ StatsInv
  BY InitIInv DEF CountedInit, Init, Idle, StatsInv
<1>2. IInv /\ StatsInv /\ [CountedNext]_countedVars => (IInv /\ StatsInv)'
  BY CountedIsAware, StepIInv, StepStats
<1>3. IInv /\ StatsInv => QueriesAgree
  BY BatchedAgreement, CachedAgreement DEF IInv, QueriesAgree
<1> QED
  BY <1>1, <1>2, <1>3, PTL DEF CountedSpec

=============================================================================
