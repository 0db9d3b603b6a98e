--------------------------- MODULE RebalanceProofs ---------------------------
(***************************************************************************)
(* Proofs about Rebalance: plans computed or made up, applied when fresh or *)
(* stale, between any calls of the public API.                             *)
(***************************************************************************)
EXTENDS Rebalance, ShardedGraphProofs, FiniteSetTheorems

-----------------------------------------------------------------------------
(* Caches of the home shards *)

\* A move drops the cached lists of the user it moves on both shards.
LEMMA MoveKeepsHome ==
    ASSUME Shape, HomeCacheCoherent, MoveUser \/ MoveFails
    PROVE  Shape' /\ HomeCacheCoherent'
<1> DEFINE a == Head(op.todo)
<1>1. \/ /\ follows' = [FollowsLeft(a) EXCEPT ![a.to][a.user] = Merge(@, follows[a.from][a.user])]
         /\ cache' = [CachesLeft(a) EXCEPT ![a.to] = Drop(@, a.user)]
      \/ /\ follows' = FollowsLeft(a)
         /\ cache' = CachesLeft(a)
  BY DEF MoveUser, MoveFails
<1> HIDE DEF a
<1>2. /\ DOMAIN FollowsLeft(a) = Shards
      /\ \A s \in Shards : DOMAIN FollowsLeft(a)[s] = Users
      /\ \A s \in Shards : \A u \in Users \ {a.user} : FollowsLeft(a)[s][u] = follows[s][u]
      /\ \A s \in Shards \ {a.from} : FollowsLeft(a)[s] = follows[s]
  BY DEF FollowsLeft, Shape
<1>3. /\ DOMAIN CachesLeft(a) = Shards
      /\ \A s \in Shards : CachesLeft(a)[s] = IF s = a.from THEN Drop(cache[s], a.user) ELSE cache[s]
  BY DEF CachesLeft, Shape
<1>4. ASSUME NEW s \in Shards PROVE HomeHolds(CachesLeft(a)[s], FollowsLeft(a)[s], s)
  <2>1. HomeHolds(cache[s], follows[s], s)
    BY HomeCachesHold
  <2>2. HomeHolds(Drop(cache[s], a.user), FollowsLeft(a)[s], s)
    BY <1>2, <2>1, DropKeepsHome
  <2> QED
    BY <1>2, <1>3, <2>1, <2>2
<1>5. CASE follows' = FollowsLeft(a) /\ cache' = CachesLeft(a)
  BY <1>2, <1>3, <1>4, <1>5, HoldHomeCaches DEF Shape
<1>6. CASE /\ follows' = [FollowsLeft(a) EXCEPT ![a.to][a.user] = Merge(@, follows[a.from][a.user])]
           /\ cache' = [CachesLeft(a) EXCEPT ![a.to] = Drop(@, a.user)]
  <2>1. /\ DOMAIN follows' = Shards /\ DOMAIN cache' = Shards
        /\ \A s \in Shards : DOMAIN follows'[s] = Users
        /\ \A s \in Shards : \A u \in Users \ {a.user} : follows'[s][u] = FollowsLeft(a)[s][u]
        /\ \A s \in Shards \ {a.to} : follows'[s] = FollowsLeft(a)[s]
        /\ \A s \in Shards : cache'[s] = IF s = a.to THEN Drop(CachesLeft(a)[s], a.user)
                                         ELSE CachesLeft(a)[s]
    BY <1>2, <1>3, <1>6
  <2>2. ASSUME NEW s \in Shards PROVE HomeHolds(cache'[s], follows'[s], s)
    <3>1. HomeHolds(CachesLeft(a)[s], FollowsLeft(a)[s], s)
      BY <1>4
    <3>2. HomeHolds(Drop(CachesLeft(a)[s], a.user), follows'[s], s)
      BY <2>1, <3>1, DropKeepsHome
    <3> QED
      BY <2>1, <3>1, <3>2
  <2> QED
    BY <2>1, <2>2, HoldHomeCaches DEF Shape
<1> QED
  BY <1>1, <1>5, <1>6

LEMMA StepHomeCaches ==
    Shape /\ HomeCacheCoherent /\ [PlanCall \/ Unplanned(ApiNext)]_allVars
        => Shape' /\ HomeCacheCoherent'
<1> SUFFICES ASSUME Shape, HomeCacheCoherent, [PlanCall \/ Unplanned(ApiNext)]_allVars
             PROVE  Shape' /\ HomeCacheCoherent'
  OBVIOUS
<1>1. CASE Unplanned(ApiNext)
  BY <1>1, ApiKeepsHome DEF Unplanned
<1>2. CASE UNCHANGED <<follows, cache>>
  BY <1>2 DEF Shape, HomeCacheCoherent, Following, Placed
<1>3. CASE MoveUser \/ MoveFails
  BY <1>3, MoveKeepsHome
<1>4. PlanCall \/ UNCHANGED allVars => MoveUser \/ MoveFails \/ UNCHANGED <<follows, cache>>
  BY DEF PlanCall, ComputePlan, MakePlan, DiscardPlan, ApplyBegin, ApplyEnd, vars, allVars
<1> QED
  BY <1>1, <1>2, <1>3, <1>4

LEMMA InitHomeCaches == RebalanceInit => Shape /\ HomeCacheCoherent
  BY HomeOfPlaced DEF RebalanceInit, Init, Shape, HomeCacheCoherent

\* What the home shard has cached of a user is its list there, whatever was
\* planned, moved, replicated or mutated by the plain methods.
THEOREM HomeCachesCorrect == RebalanceSpec => []HomeCacheCoherent
<1>1. RebalanceSpec => [](Shape /\ HomeCacheCoherent)
  BY InitHomeCaches, StepHomeCaches, PTL DEF RebalanceSpec
<1> QED
  BY <1>1, PTL

-----------------------------------------------------------------------------
(* The planning loop *)

\* s is the first of the shards of R with the fewest users.
Least(counts, R, s) ==
    \A t \in R : counts[s] < counts[t] \/ (counts[s] = counts[t] /\ s <= t)

\* There is always a least loaded shard: the choice of the code is one of its
\* shards.
LEMMA LeastLoadedExists ==
    ASSUME NEW S \in SUBSET Nat, IsFiniteSet(S), S # {}, NEW counts \in [S -> Int]
    PROVE  FindLeastLoaded(counts) \in S
<1> DEFINE T == {n \in Nat : \A R \in SUBSET S : Cardinality(R) = n + 1 => \E s \in R : Least(counts, R, s)}
<1>1. 0 \in T
  <2> SUFFICES ASSUME NEW R \in SUBSET S, Cardinality(R) = 1
               PROVE  \E s \in R : Least(counts, R, s)
    OBVIOUS
  <2>1. IsFiniteSet(R)
    BY FS_Subset
  <2>2. PICK s : R = {s}
    BY <2>1, FS_Singleton
  <2>3. s \in Nat /\ s \in R
    BY <2>2
  <2> QED
    BY <2>2, <2>3 DEF Least
<1>2. ASSUME NEW n \in Nat, n \in T PROVE n + 1 \in T
  <2> SUFFICES ASSUME NEW R \in SUBSET S, Cardinality(R) = n + 2
               PROVE  \E s \in R : Least(counts, R, s)
    OBVIOUS
  <2>1. IsFiniteSet(R)
    BY FS_Subset
  <2>2. R # {}
    <3> HIDE DEF T
    <3>1. n + 2 # 0
      OBVIOUS
    <3> QED
      BY <3>1, FS_EmptySet
  <2>3. PICK x : x \in R
    BY <2>2
  <2>4. Cardinality(R \ {x}) = n + 1
    <3> HIDE DEF T
    <3>1. Cardinality(R \ {x}) = Cardinality(R) - 1
      BY <2>1, <2>3, FS_RemoveElement
    <3> QED
      BY <3>1
  <2>5. PICK s \in R \ {x} : Least(counts, R \ {x}, s)
    BY <1>2, <2>4
  <2>6. /\ s \in S /\ x \in S /\ s \in Nat /\ x \in Nat
        /\ counts[s] \in Int /\ counts[x] \in Int
        /\ \A t \in R : t \in Nat /\ counts[t] \in Int
    BY <2>3
  <2>7. CASE counts[s] < counts[x] \/ (counts[s] = counts[x] /\ s <= x)
    BY <2>5, <2>7 DEF Least
  <2>8. CASE ~(counts[s] < counts[x] \/ (counts[s] = counts[x] /\ s <= x))
    <3>1. counts[x] < counts[s] \/ (counts[x] = counts[s] /\ x <= s)
      BY <2>6, <2>8
    <3>2. ASSUME NEW t \in R
          PROVE  counts[x] < counts[t] \/ (counts[x] = counts[t] /\ x <= t)
      <4>1. t = x \/ counts[s] < counts[t] \/ (counts[s] = counts[t] /\ s <= t)
        BY <2>5 DEF Least
      <4> QED
        BY <2>6, <3>1, <4>1
    <3> QED
      BY <2>3, <3>2 DEF Least
  <2> QED
    BY <2>7, <2>8
<1> HIDE DEF T
<1>3. \A n \in Nat : n \in T
  BY <1>1, <1>2, Induction
<1>4. Cardinality(S) - 1 \in Nat /\ (Cardinality(S) - 1) + 1 = Cardinality(S)
  BY FS_CardinalityType, FS_EmptySet
<1>5. \E s \in S : Least(counts, S, s)
  BY <1>3, <1>4 DEF T
<1>6. DOMAIN counts = S
  OBVIOUS
<1> QED
  BY <1>5, <1>6 DEF Least, FindLeastLoaded

\* The moves under consideration are finitely many, so the sorted list of them
\* is one and names none twice.
LEMMA CandidateListFacts ==
    ASSUME NEW list \in CandidateLists
    PROVE  /\ Len(list) \in Nat
           /\ DOMAIN list = 1 .. Len(list)
           /\ \A i \in 1 .. Len(list) : list[i] \in Candidates
           /\ \A i, j \in 1 .. Len(list) : list[i] = list[j] => i = j
<1>1. IsFiniteSet(Users \X Shards)
  BY RebalanceAssumption, FS_Product
<1> DEFINE f == [c \in Candidates |-> <<c.user, c.from>>]
<1>2. f \in Injection(Candidates, Users \X Shards)
  <2>1. \A c \in Candidates : c \in [user : Users, from : Shards]
    BY DEF Candidates
  <2>2. f \in [Candidates -> Users \X Shards]
    BY <2>1
  <2>3. ASSUME NEW c \in Candidates, NEW d \in Candidates, f[c] = f[d] PROVE c = d
    BY <2>1, <2>3
  <2> HIDE DEF f
  <2> QED
    BY <2>2, <2>3 DEF Injection, IsInjective
<1> HIDE DEF f
<1>3. Cardinality(Candidates) \in Nat
  BY <1>1, <1>2, FS_Injection, FS_CardinalityType
<1>4. /\ list \in [1 .. Cardinality(Candidates) -> Candidates]
      /\ \A i, j \in 1 .. Cardinality(Candidates) : i # j => list[i] # list[j]
  BY DEF CandidateLists, SetToSeqs
<1>5. Len(list) = Cardinality(Candidates)
  BY <1>3, <1>4
<1> QED
  BY <1>3, <1>4, <1>5

-----------------------------------------------------------------------------
(* What a plan says and what it promises *)

Action == [user : Users, from : Shards, to : Shards]

Leaving(actions, s) == {a \in ToSet(actions) : a.from = s}

Arriving(actions, s) == {a \in ToSet(actions) : a.to = s}

\* A plan for shards with the users of table: it moves users where they are,
\* none twice from the same shard, and counts what is there after the moves.
Fits(table, actions, counts) ==
    /\ \A a \in ToSet(actions) : a.user \in table[a.from]
    /\ \A i, j \in DOMAIN actions :
           actions[i].user = actions[j].user /\ actions[i].from = actions[j].from => i = j
    /\ counts \in [Shards -> Int]
    /\ \A s \in Shards :
           counts[s] = Cardinality(table[s]) - Cardinality(Leaving(actions, s))
                           + Cardinality(Arriving(actions, s))

\* A shard has finitely many users.
LEMMA TableFinite ==
    ASSUME NEW table \in [Shards -> SUBSET Users]
    PROVE  \A s \in Shards : IsFiniteSet(table[s]) /\ Cardinality(table[s]) \in Nat
  BY RebalanceAssumption, FS_Subset, FS_CardinalityType

LEMMA MoveSetsFinite ==
    ASSUME NEW actions \in Seq(Action)
    PROVE  /\ ToSet(actions) \subseteq Action
           /\ \A s \in Shards : /\ IsFiniteSet(Leaving(actions, s))
                                /\ IsFiniteSet(Arriving(actions, s))
                                /\ Cardinality(Leaving(actions, s)) \in Nat
                                /\ Cardinality(Arriving(actions, s)) \in Nat
<1>1. ToSet(actions) \subseteq Action
  BY DEF ToSet
<1>2. IsFiniteSet(Users \X (Shards \X Shards))
  BY RebalanceAssumption, FS_Product
<1> DEFINE f == [a \in Action |-> <<a.user, <<a.from, a.to>>>>]
<1>3. f \in Injection(Action, Users \X (Shards \X Shards))
  <2>1. f \in [Action -> Users \X (Shards \X Shards)]
    BY DEF Action
  <2>2. ASSUME NEW a \in Action, NEW b \in Action, f[a] = f[b] PROVE a = b
    BY <2>2 DEF Action
  <2> HIDE DEF f
  <2> QED
    BY <2>1, <2>2 DEF Injection, IsInjective
<1> HIDE DEF f
<1>4. IsFiniteSet(Action)
  BY <1>2, <1>3, FS_Injection
<1>5. \A s \in Shards : Leaving(actions, s) \in SUBSET Action /\ Arriving(actions, s) \in SUBSET Action
  BY <1>1 DEF Leaving, Arriving
<1>6. \A R \in SUBSET Action : IsFiniteSet(R) /\ Cardinality(R) \in Nat
  BY <1>4, FS_Subset, FS_CardinalityType
<1> QED
  BY <1>1, <1>5, <1>6

\* One more move of a user who is where it says.
LEMMA AppendFits ==
    ASSUME NEW table \in [Shards -> SUBSET Users], NEW actions \in Seq(Action), NEW counts,
           Fits(table, actions, counts), NEW a \in Action, a.user \in table[a.from],
           \A i \in DOMAIN actions : ~(actions[i].user = a.user /\ actions[i].from = a.from)
    PROVE  /\ Append(actions, a) \in Seq(Action)
           /\ Fits(table, Append(actions, a),
                   [[counts EXCEPT ![a.from] = @ - 1] EXCEPT ![a.to] = @ + 1])
<1> DEFINE longer == Append(actions, a)
           moved == [[counts EXCEPT ![a.from] = @ - 1] EXCEPT ![a.to] = @ + 1]
<1>1. a.user \in Users /\ a.from \in Shards /\ a.to \in Shards
  BY DEF Action
<1>2. /\ longer \in Seq(Action) /\ Len(longer) = Len(actions) + 1
      /\ \A i \in 1 .. Len(actions) : longer[i] = actions[i]
      /\ longer[Len(actions) + 1] = a
      /\ DOMAIN longer = 1 .. Len(actions) + 1 /\ DOMAIN actions = 1 .. Len(actions)
      /\ Len(actions) \in Nat
  BY AppendProperties
<1> HIDE DEF longer
<1>3. ToSet(longer) = ToSet(actions) \cup {a}
  BY <1>2 DEF ToSet
<1>4. a \notin ToSet(actions)
  BY DEF ToSet
<1>5. \A b \in ToSet(longer) : b.user \in table[b.from]
  BY <1>3 DEF Fits
<1>6. ASSUME NEW i \in DOMAIN longer, NEW j \in DOMAIN longer,
             longer[i].user = longer[j].user, longer[i].from = longer[j].from
      PROVE  i = j
  <2>1. CASE i \in DOMAIN actions /\ j \in DOMAIN actions
    BY <1>2, <1>6, <2>1 DEF Fits
  <2>2. CASE i = Len(actions) + 1 /\ j = Len(actions) + 1
    BY <2>2
  <2>3. CASE i \in DOMAIN actions /\ j = Len(actions) + 1
    BY <1>2, <1>6, <2>3
  <2>4. CASE i = Len(actions) + 1 /\ j \in DOMAIN actions
    BY <1>2, <1>6, <2>4
  <2> QED
    BY <1>2, <2>1, <2>2, <2>3, <2>4
<1>7. moved \in [Shards -> Int]
  BY <1>1 DEF Fits
<1>8. ASSUME NEW s \in Shards
      PROVE  moved[s] = Cardinality(table[s]) - Cardinality(Leaving(longer, s))
                            + Cardinality(Arriving(longer, s))
  <2>1. counts[s] = Cardinality(table[s]) - Cardinality(Leaving(actions, s))
                        + Cardinality(Arriving(actions, s))
    BY DEF Fits
  <2>2. /\ IsFiniteSet(Leaving(actions, s)) /\ IsFiniteSet(Arriving(actions, s))
        /\ Cardinality(Leaving(actions, s)) \in Nat /\ Cardinality(Arriving(actions, s)) \in Nat
        /\ Cardinality(table[s]) \in Nat
    BY MoveSetsFinite, TableFinite
  <2>3. Cardinality(Leaving(longer, s)) =
            Cardinality(Leaving(actions, s)) + IF a.from = s THEN 1 ELSE 0
    <3>1. a \notin Leaving(actions, s)
      BY <1>4 DEF Leaving
    <3>2. CASE a.from = s
      <4>1. Leaving(longer, s) = Leaving(actions, s) \cup {a}
        BY <1>3, <3>2 DEF Leaving
      <4> QED
        BY <2>2, <3>1, <3>2, <4>1, FS_AddElement
    <3>3. CASE a.from # s
      <4>1. Leaving(longer, s) = Leaving(actions, s)
        BY <1>3, <3>3 DEF Leaving
      <4> QED
        BY <2>2, <3>3, <4>1
    <3> QED
      BY <3>2, <3>3
  <2>4. Cardinality(Arriving(longer, s)) =
            Cardinality(Arriving(actions, s)) + IF a.to = s THEN 1 ELSE 0
    <3>1. a \notin Arriving(actions, s)
      BY <1>4 DEF Arriving
    <3>2. CASE a.to = s
      <4>1. Arriving(longer, s) = Arriving(actions, s) \cup {a}
        BY <1>3, <3>2 DEF Arriving
      <4> QED
        BY <2>2, <3>1, <3>2, <4>1, FS_AddElement
    <3>3. CASE a.to # s
      <4>1. Arriving(longer, s) = Arriving(actions, s)
        BY <1>3, <3>3 DEF Arriving
      <4> QED
        BY <2>2, <3>3, <4>1
    <3> QED
      BY <3>2, <3>3
  <2>5. moved[s] = counts[s] - (IF a.from = s THEN 1 ELSE 0) + (IF a.to = s THEN 1 ELSE 0)
    BY <1>1 DEF Fits
  <2> HIDE DEF moved
  <2> QED
    BY <2>1, <2>2, <2>3, <2>4, <2>5
<1> HIDE DEF moved
<1>9. Fits(table, longer, moved)
  BY <1>5, <1>6, <1>7, <1>8 DEF Fits
<1> QED
  BY <1>2, <1>9 DEF longer, moved

\* The first move of a plan and the others: no other one takes the same user
\* from the same shard.
Splits(actions, a, rest) ==
    /\ ToSet(actions) = ToSet(rest) \cup {a}
    /\ \A b \in ToSet(rest) : ~(b.user = a.user /\ b.from = a.from)
    /\ \A i, j \in DOMAIN rest :
           rest[i].user = rest[j].user /\ rest[i].from = rest[j].from => i = j

\* The shards before the move a, after its first half, and after it.
Moves(table, left, after, a) ==
    /\ a.user \in table[a.from] /\ a.user \notin left[a.to]
    /\ \A s \in Shards : left[s] = IF s = a.from THEN table[s] \ {a.user} ELSE table[s]
    /\ \A s \in Shards : after[s] = IF s = a.to THEN left[s] \cup {a.user} ELSE left[s]

LEMMA FirstAndRest ==
    ASSUME NEW table, NEW actions \in Seq(Action), actions # <<>>, NEW counts,
           Fits(table, actions, counts), NEW a, a = Head(actions), NEW rest, rest = Tail(actions)
    PROVE  /\ a \in Action /\ a.user \in table[a.from]
           /\ rest \in Seq(Action)
           /\ Splits(actions, a, rest)
<1>1. /\ a = actions[1] /\ a \in Action
      /\ rest \in Seq(Action) /\ Len(rest) = Len(actions) - 1
      /\ \A i \in 1 .. Len(rest) : rest[i] = actions[i + 1]
      /\ DOMAIN rest = 1 .. Len(rest) /\ DOMAIN actions = 1 .. Len(actions)
      /\ Len(actions) \in Nat \ {0}
  BY HeadTailProperties
<1>2. 1 \in DOMAIN actions
  BY <1>1
<1>3. a \in ToSet(actions) /\ a.user \in table[a.from]
  BY <1>1, <1>2 DEF Fits, ToSet
<1>4. \A i \in 2 .. Len(actions) : ~(actions[i].user = a.user /\ actions[i].from = a.from)
  <2> SUFFICES ASSUME NEW i \in 2 .. Len(actions),
                      actions[i].user = actions[1].user, actions[i].from = actions[1].from
               PROVE  FALSE
    BY <1>1
  <2>1. i \in DOMAIN actions /\ i # 1
    BY <1>1
  <2> QED
    BY <1>2, <2>1 DEF Fits
<1>5. \A b \in ToSet(rest) : b \in ToSet(actions) /\ ~(b.user = a.user /\ b.from = a.from)
  <2> TAKE b \in ToSet(rest)
  <2>1. PICK i \in 1 .. Len(rest) : b = rest[i]
    BY <1>1 DEF ToSet
  <2>2. b = actions[i + 1] /\ i + 1 \in 2 .. Len(actions) /\ i + 1 \in DOMAIN actions
    BY <1>1, <2>1
  <2> QED
    BY <1>4, <2>2 DEF ToSet
<1>6. ToSet(actions) = ToSet(rest) \cup {a}
  <2>1. ASSUME NEW b \in ToSet(actions), b # a PROVE b \in ToSet(rest)
    <3>1. PICK i \in 1 .. Len(actions) : b = actions[i]
      BY <1>1 DEF ToSet
    <3>2. i - 1 \in 1 .. Len(rest) /\ (i - 1) + 1 = i
      BY <1>1, <2>1, <3>1
    <3>3. rest[i - 1] = b
      BY <1>1, <3>1, <3>2
    <3> QED
      BY <1>1, <3>2, <3>3 DEF ToSet
  <2> QED
    BY <1>3, <1>5, <2>1
<1>7. ASSUME NEW i \in DOMAIN rest, NEW j \in DOMAIN rest,
             rest[i].user = rest[j].user, rest[i].from = rest[j].from
      PROVE  i = j
  <2>1. /\ i \in Nat /\ j \in Nat /\ i + 1 \in DOMAIN actions /\ j + 1 \in DOMAIN actions
        /\ rest[i] = actions[i + 1] /\ rest[j] = actions[j + 1]
    BY <1>1
  <2>2. i + 1 = j + 1
    BY <1>7, <2>1 DEF Fits
  <2> QED
    BY <2>1, <2>2
<1> QED
  BY <1>1, <1>3, <1>5, <1>6, <1>7 DEF Splits

\* After the first move, of a user who was not on its target, the rest of the
\* plan fits the shards as they are then.
LEMMA MoveFits ==
    ASSUME NEW table \in [Shards -> SUBSET Users], NEW left \in [Shards -> SUBSET Users],
           NEW after \in [Shards -> SUBSET Users],
           NEW actions \in Seq(Action), NEW rest \in Seq(Action), NEW a \in Action,
           NEW counts, Fits(table, actions, counts),
           Splits(actions, a, rest), Moves(table, left, after, a)
    PROVE  Fits(after, rest, counts)
<1>1. a.user \in Users /\ a.from \in Shards /\ a.to \in Shards
  BY DEF Action
<1>2. ASSUME NEW b \in ToSet(rest) PROVE b.user \in after[b.from]
  <2>1. b \in Action
    BY <1>2 DEF ToSet
  <2>2. b.from \in Shards
    BY <2>1 DEF Action
  <2>3. b.user \in table[b.from] /\ ~(b.user = a.user /\ b.from = a.from)
    BY <1>2 DEF Fits, Splits
  <2> QED
    BY <2>2, <2>3 DEF Moves
<1>3. ASSUME NEW s \in Shards
       PROVE  counts[s] = Cardinality(after[s]) - Cardinality(Leaving(rest, s))
                              + Cardinality(Arriving(rest, s))
  <2>1. counts[s] = Cardinality(table[s]) - Cardinality(Leaving(actions, s))
                        + Cardinality(Arriving(actions, s))
    BY DEF Fits
  <2>2. /\ IsFiniteSet(Leaving(rest, s)) /\ IsFiniteSet(Arriving(rest, s))
        /\ Cardinality(Leaving(rest, s)) \in Nat /\ Cardinality(Arriving(rest, s)) \in Nat
        /\ IsFiniteSet(table[s]) /\ IsFiniteSet(left[s])
        /\ Cardinality(table[s]) \in Nat /\ Cardinality(left[s]) \in Nat
        /\ Cardinality(after[s]) \in Nat
    BY MoveSetsFinite, TableFinite
  <2>3. Cardinality(Leaving(actions, s)) =
            Cardinality(Leaving(rest, s)) + IF a.from = s THEN 1 ELSE 0
    <3>1. a \notin Leaving(rest, s)
      BY DEF Splits, Leaving
    <3>2. CASE a.from = s
      <4>1. Leaving(actions, s) = Leaving(rest, s) \cup {a}
        BY <3>2 DEF Splits, Leaving
      <4> QED
        BY <2>2, <3>1, <3>2, <4>1, FS_AddElement
    <3>3. CASE a.from # s
      <4>1. Leaving(actions, s) = Leaving(rest, s)
        BY <3>3 DEF Splits, Leaving
      <4> QED
        BY <2>2, <3>3, <4>1
    <3> QED
      BY <3>2, <3>3
  <2>4. Cardinality(Arriving(actions, s)) =
            Cardinality(Arriving(rest, s)) + IF a.to = s THEN 1 ELSE 0
    <3>1. a \notin Arriving(rest, s)
      BY DEF Splits, Arriving
    <3>2. CASE a.to = s
      <4>1. Arriving(actions, s) = Arriving(rest, s) \cup {a}
        BY <3>2 DEF Splits, Arriving
      <4> QED
        BY <2>2, <3>1, <3>2, <4>1, FS_AddElement
    <3>3. CASE a.to # s
      <4>1. Arriving(actions, s) = Arriving(rest, s)
        BY <3>3 DEF Splits, Arriving
      <4> QED
        BY <2>2, <3>3, <4>1
    <3> QED
      BY <3>2, <3>3
  <2>5. Cardinality(left[s]) = Cardinality(table[s]) - IF a.from = s THEN 1 ELSE 0
    <3>1. CASE a.from = s
      <4>1. left[s] = table[s] \ {a.user} /\ a.user \in table[s]
        BY <1>1, <3>1 DEF Moves
      <4> QED
        BY <2>2, <3>1, <4>1, FS_RemoveElement
    <3>2. CASE a.from # s
      BY <1>1, <2>2, <3>2 DEF Moves
    <3> QED
      BY <3>1, <3>2
  <2>6. Cardinality(after[s]) = Cardinality(left[s]) + IF a.to = s THEN 1 ELSE 0
    <3>1. CASE a.to = s
      <4>1. after[s] = left[s] \cup {a.user} /\ a.user \notin left[s]
        BY <1>1, <3>1 DEF Moves
      <4> QED
        BY <2>2, <3>1, <4>1, FS_AddElement
    <3>2. CASE a.to # s
      BY <1>1, <2>2, <3>2 DEF Moves
    <3> QED
      BY <3>1, <3>2
  <2> DEFINE lost == IF a.from = s THEN 1 ELSE 0
             gained == IF a.to = s THEN 1 ELSE 0
  <2>7. lost \in Int /\ gained \in Int
    OBVIOUS
  <2>8. /\ Cardinality(Leaving(actions, s)) = Cardinality(Leaving(rest, s)) + lost
        /\ Cardinality(Arriving(actions, s)) = Cardinality(Arriving(rest, s)) + gained
        /\ Cardinality(left[s]) = Cardinality(table[s]) - lost
        /\ Cardinality(after[s]) = Cardinality(left[s]) + gained
    BY <2>3, <2>4, <2>5, <2>6
  <2> HIDE DEF lost, gained
  <2> QED
    BY <2>1, <2>2, <2>7, <2>8
<1> QED
  BY <1>2, <1>3 DEF Fits, Splits

-----------------------------------------------------------------------------
(* The plan of the planning loop *)

Start(percent) ==
    [actions |-> <<>>, counts |-> UsersPerShard, stopped |-> ImbalanceAtMost(UsersPerShard, percent)]

\* The steps of ComputePlan: the plan after i candidates.
Considered(list, percent) ==
    CHOOSE g : g = [i \in 0 .. Len(list) |->
                       IF i = 0 THEN Start(percent) ELSE Consider(g[i - 1], list[i], percent)]

LEMMA ConsideredSteps ==
    ASSUME NEW list, NEW percent, Len(list) \in Nat
    PROVE  Considered(list, percent) =
               [i \in 0 .. Len(list) |->
                   IF i = 0 THEN Start(percent)
                   ELSE Consider(Considered(list, percent)[i - 1], list[i], percent)]
<1> DEFINE Upto(g, k) ==
               g = [i \in 0 .. k |->
                       IF i = 0 THEN Start(percent) ELSE Consider(g[i - 1], list[i], percent)]
           T == {k \in Nat : \E g : Upto(g, k)}
<1>1. 0 \in T
  <2>1. Upto([i \in 0 .. 0 |-> Start(percent)], 0)
    OBVIOUS
  <2> HIDE DEF Upto
  <2> QED
    BY <2>1
<1>2. ASSUME NEW k \in Nat, k \in T PROVE k + 1 \in T
  <2>1. PICK g : Upto(g, k)
    BY <1>2
  <2> DEFINE h == [i \in 0 .. k + 1 |->
                      IF i <= k THEN g[i] ELSE Consider(g[k], list[k + 1], percent)]
  <2>2. \A i \in 0 .. k + 1 :
            h[i] = IF i = 0 THEN Start(percent) ELSE Consider(h[i - 1], list[i], percent)
    <3> TAKE i \in 0 .. k + 1
    <3>1. CASE i = 0
      BY <2>1, <3>1
    <3>2. CASE i \in 1 .. k
      <4>1. h[i] = g[i] /\ h[i - 1] = g[i - 1]
        BY <3>2
      <4> QED
        BY <2>1, <3>2, <4>1
    <3>3. CASE i = k + 1
      <4>1. h[i] = Consider(g[k], list[k + 1], percent) /\ h[i - 1] = g[k]
        BY <3>3
      <4> QED
        BY <3>3, <4>1
    <3> QED
      BY <3>1, <3>2, <3>3
  <2>3. Upto(h, k + 1)
    <3>1. h = [i \in 0 .. k + 1 |-> h[i]]
      OBVIOUS
    <3> HIDE DEF h
    <3> QED
      BY <2>2, <3>1
  <2> HIDE DEF Upto, h
  <2> QED
    BY <2>3
<1> HIDE DEF T
<1>3. Len(list) \in T
  BY <1>1, <1>2, Induction
<1> QED
  BY <1>3 DEF T, Considered

\* Before the first candidate the plan is empty and counts what is there.
LEMMA StartFits ==
    ASSUME users \in [Shards -> SUBSET Users]
    PROVE  <<>> \in Seq(Action) /\ Fits(users, <<>>, UsersPerShard)
<1>1. ToSet(<<>>) = {} /\ DOMAIN <<>> = {} /\ <<>> \in Seq(Action)
  BY DEF ToSet
<1>2. \A s \in Shards : Leaving(<<>>, s) = {} /\ Arriving(<<>>, s) = {}
  BY <1>1 DEF Leaving, Arriving
<1>3. \A s \in Shards : Cardinality(users[s]) \in Nat
  BY TableFinite
<1>4. /\ UsersPerShard \in [Shards -> Int]
      /\ \A s \in Shards : UsersPerShard[s] = Cardinality(users[s])
  BY <1>3 DEF UsersPerShard
<1>5. \A s \in Shards : UsersPerShard[s] = Cardinality(users[s]) - Cardinality(Leaving(<<>>, s))
                                               + Cardinality(Arriving(<<>>, s))
  <2> TAKE s \in Shards
  <2>1. Cardinality(Leaving(<<>>, s)) = 0 /\ Cardinality(Arriving(<<>>, s)) = 0
    <3>1. Leaving(<<>>, s) = {} /\ Arriving(<<>>, s) = {}
      BY <1>2
    <3> QED
      BY <3>1, FS_EmptySet
  <2>2. UsersPerShard[s] = Cardinality(users[s]) /\ Cardinality(users[s]) \in Nat
    BY <1>3, <1>4
  <2> QED
    BY <2>1, <2>2
<1> QED
  BY <1>1, <1>4, <1>5 DEF Fits

\* Every candidate is used at most once, so each step keeps the plan fitting.
LEMMA ComputedFits ==
    ASSUME users \in [Shards -> SUBSET Users], NEW percent, NEW list \in CandidateLists,
           NEW end, end = Considered(list, percent)[Len(list)]
    PROVE  end.actions \in Seq(Action) /\ Fits(users, end.actions, end.counts)
<1> DEFINE M == Considered(list, percent)
           Chosen(actions, k) ==
               \A i \in DOMAIN actions : \E j \in 1 .. k :
                   actions[i].user = list[j].user /\ actions[i].from = list[j].from
           Good(k) == /\ M[k].actions \in Seq(Action)
                      /\ Fits(users, M[k].actions, M[k].counts)
                      /\ Chosen(M[k].actions, k)
           T == {k \in Nat : Good(k)}
<1>1. /\ Len(list) \in Nat
      /\ \A i \in 1 .. Len(list) : list[i] \in Candidates
      /\ \A i, j \in 1 .. Len(list) : list[i] = list[j] => i = j
  BY CandidateListFacts
<1>2. /\ M[0] = Start(percent)
      /\ \A k \in 0 .. Len(list) - 1 : M[k + 1] = Consider(M[k], list[k + 1], percent)
  BY <1>1, ConsideredSteps
<1> HIDE DEF M
<1>3. 0 \in T
  <2>1. M[0].actions = <<>> /\ M[0].counts = UsersPerShard
    BY <1>2 DEF Start
  <2>2. DOMAIN <<>> = {}
    OBVIOUS
  <2>3. Good(0)
    BY <2>1, <2>2, StartFits
  <2> QED
    BY <2>3
<1>4. ASSUME NEW k \in 0 .. Len(list) - 1, k \in T PROVE k + 1 \in T
  <2> DEFINE p == M[k]
             c == list[k + 1]
             to == FindLeastLoaded(p.counts)
             a == [user |-> c.user, from |-> c.from, to |-> to]
  <2>1. /\ p.actions \in Seq(Action)
        /\ Fits(users, p.actions, p.counts)
        /\ Chosen(p.actions, k)
    BY <1>4
  <2>2. /\ k + 1 \in 1 .. Len(list) /\ c \in Candidates
        /\ c.user \in Users /\ c.from \in Shards /\ c.user \in users[c.from]
    BY <1>1 DEF Candidates
  <2>3. to \in Shards
    <3>1. p.counts \in [Shards -> Int]
      BY <2>1 DEF Fits
    <3> HIDE DEF p, c
    <3> QED
      BY <2>2, <3>1, LeastLoadedExists, RebalanceAssumption
  <2>4. M[k + 1] = Consider(p, c, percent)
    BY <1>2
  <2> HIDE DEF p, c, to, Chosen
  <2>5. a \in Action /\ a.user = c.user /\ a.from = c.from /\ a.to = to
    BY <2>2, <2>3 DEF Action
  <2>6. CASE M[k + 1] = p
    <3>1. Chosen(p.actions, k + 1)
      BY <2>1 DEF Chosen
    <3>2. Good(k + 1)
      BY <2>1, <2>6, <3>1
    <3> HIDE DEF Good
    <3> QED
      BY <3>2
  <2>7. CASE /\ M[k + 1].actions = Append(p.actions, a)
             /\ M[k + 1].counts = [[p.counts EXCEPT ![a.from] = @ - 1] EXCEPT ![a.to] = @ + 1]
    <3> HIDE DEF a
    <3>1. \A i \in DOMAIN p.actions : ~(p.actions[i].user = a.user /\ p.actions[i].from = a.from)
      <4> SUFFICES ASSUME NEW i \in DOMAIN p.actions,
                          p.actions[i].user = c.user, p.actions[i].from = c.from
                   PROVE  FALSE
        BY <2>5
      <4>1. PICK j \in 1 .. k : p.actions[i].user = list[j].user /\ p.actions[i].from = list[j].from
        BY <2>1 DEF Chosen
      <4>2. j \in 1 .. Len(list) /\ j # k + 1 /\ list[j] \in Candidates
        BY <1>1, <2>2
      <4>3. list[j] \in [user : Users, from : Shards] /\ c \in [user : Users, from : Shards]
        BY <2>2, <4>2 DEF Candidates
      <4>4. list[j].user = c.user /\ list[j].from = c.from
        BY <4>1
      <4>5. list[j] = c
        <5> HIDE DEF T
        <5> QED
          BY <4>3, <4>4
      <4> QED
        BY <1>1, <2>2, <4>2, <4>5 DEF c
    <3>2. /\ Append(p.actions, a) \in Seq(Action)
          /\ Fits(users, Append(p.actions, a), M[k + 1].counts)
      <4>1. a.user \in users[a.from]
        BY <2>2, <2>5
      <4>2. /\ Append(p.actions, a) \in Seq(Action)
            /\ Fits(users, Append(p.actions, a),
                    [[p.counts EXCEPT ![a.from] = @ - 1] EXCEPT ![a.to] = @ + 1])
        <5> HIDE DEF T
        <5> QED
          BY <2>1, <2>5, <3>1, <4>1, AppendFits
      <4> QED
        BY <2>7, <4>2
    <3>3. Chosen(Append(p.actions, a), k + 1)
      <4>1. /\ DOMAIN Append(p.actions, a) = 1 .. Len(p.actions) + 1
            /\ \A i \in 1 .. Len(p.actions) : Append(p.actions, a)[i] = p.actions[i]
            /\ Append(p.actions, a)[Len(p.actions) + 1] = a
            /\ DOMAIN p.actions = 1 .. Len(p.actions) /\ Len(p.actions) \in Nat
        BY <2>1
      <4>2. ASSUME NEW i \in DOMAIN Append(p.actions, a)
            PROVE  \E j \in 1 .. k + 1 : /\ Append(p.actions, a)[i].user = list[j].user
                                         /\ Append(p.actions, a)[i].from = list[j].from
        <5>1. CASE i \in 1 .. Len(p.actions)
          BY <2>1, <4>1, <5>1 DEF Chosen
        <5>2. CASE i = Len(p.actions) + 1
          BY <2>5, <4>1, <5>2 DEF c
        <5> QED
          BY <4>1, <5>1, <5>2
      <4> QED
        BY <4>2 DEF Chosen
    <3>4. Good(k + 1)
      BY <2>7, <3>2, <3>3
    <3> HIDE DEF Good
    <3> QED
      BY <3>4
  <2>8. \/ M[k + 1] = p
        \/ /\ M[k + 1].actions = Append(p.actions, a)
           /\ M[k + 1].counts = [[p.counts EXCEPT ![a.from] = @ - 1] EXCEPT ![a.to] = @ + 1]
    BY <2>4 DEF Consider, to
  <2> QED
    BY <2>6, <2>7, <2>8
<1> HIDE DEF T
<1>5. Len(list) \in T
  <2>1. \A k \in 0 .. Len(list) : k \in T
    BY <1>1, <1>3, <1>4, InductionTo
  <2> QED
    BY <1>1, <2>1
<1> QED
  BY <1>5 DEF T, M

-----------------------------------------------------------------------------
(* Types while users move *)

\* The tables and lists of all shards, foreign ones included.
Tables ==
    /\ users \in [Shards -> SUBSET Users]
    /\ \A s \in Shards, u \in Users : follows[s][u] \in Seq(Users)

LEMMA FollowingTyped ==
    ASSUME Tables, NEW u \in Users
    PROVE  Following(u) \in Seq(Users)
<1>1. <<>> \in Seq(Users)
  OBVIOUS
<1> QED
  BY <1>1, HomeOfPlaced DEF Tables, Following

LEMMA EditKeepsTables ==
    ASSUME Shape, Tables, NEW u \in Users, NEW v \in Users, NEW S, Follow(u, v, S) \/ Unfollow(u, v, S)
    PROVE  Tables'
<1>1. users' = users
  BY DEF Follow, Unfollow
<1>2. ASSUME NEW s \in Shards, NEW w \in Users PROVE follows'[s][w] \in Seq(Users)
  <2>1. \/ follows'[s] = follows[s]
        \/ follows'[s] = [follows[s] EXCEPT ![u] = WithTarget(@, v)]
        \/ follows'[s] = [follows[s] EXCEPT ![u] = Without(@, v)]
    <3>1. CASE Follow(u, v, S)
      BY <3>1 DEF Follow
    <3>2. CASE Unfollow(u, v, S)
      BY <3>2 DEF Unfollow
    <3> QED
      BY <3>1, <3>2
  <2>2. follows[s][w] \in Seq(Users) /\ follows[s][u] \in Seq(Users) /\ DOMAIN follows[s] = Users
    BY DEF Tables, Shape
  <2>3. WithTarget(follows[s][u], v) \in Seq(Users) /\ Without(follows[s][u], v) \in Seq(Users)
    BY <2>2, WithTargetList, WithoutList
  <2> QED
    BY <2>1, <2>2, <2>3
<1> QED
  BY <1>1, <1>2 DEF Tables

LEMMA ReplicateKeepsTables ==
    ASSUME Shape, Tables, NEW u \in Users, Replicate(u)
    PROVE  Tables'
<1>1. users' = [s \in Shards |-> users[s] \cup {u}]
  BY DEF Replicate
<1>2. ASSUME NEW s \in Shards, NEW w \in Users PROVE follows'[s][w] \in Seq(Users)
  <2>1. \/ follows'[s] = follows[s]
        \/ follows'[s] = [follows[s] EXCEPT ![u] = Merge(@, Following(u))]
    BY DEF Replicate
  <2>2. follows[s][w] \in Seq(Users) /\ follows[s][u] \in Seq(Users) /\ DOMAIN follows[s] = Users
    BY DEF Tables, Shape
  <2>3. Merge(follows[s][u], Following(u)) \in Seq(Users)
    BY <2>2, FollowingTyped, MergeFacts
  <2> QED
    BY <2>1, <2>2, <2>3
<1> QED
  BY <1>1, <1>2 DEF Tables

LEMMA UnreplicateKeepsTables ==
    ASSUME Shape, Tables, NEW u \in Users, UnreplicateUser(u)
    PROVE  Tables'
<1>1. users' = [s \in Shards |-> IF s = Home[u] THEN users[s] ELSE users[s] \ {u}]
  BY DEF UnreplicateUser
<1>2. ASSUME NEW s \in Shards, NEW w \in Users PROVE follows'[s][w] \in Seq(Users)
  <2>1. \/ follows'[s] = follows[s]
        \/ follows'[s] = [follows[s] EXCEPT ![u] = Minus(@, Append(Following(u), u))]
    BY DEF UnreplicateUser
  <2>2. follows[s][w] \in Seq(Users) /\ follows[s][u] \in Seq(Users) /\ DOMAIN follows[s] = Users
    BY DEF Tables, Shape
  <2>3. Len(Append(Following(u), u)) \in Nat
    BY FollowingTyped
  <2>4. Minus(follows[s][u], Append(Following(u), u)) \in Seq(Users)
    BY <2>2, <2>3, MinusFacts
  <2> QED
    BY <2>1, <2>2, <2>4
<1> QED
  BY <1>1, <1>2 DEF Tables

\* Every call of the public API keeps the types, and is no application of a plan.
LEMMA ApiKeepsTables ==
    ASSUME Shape, Tables, ApiNext
    PROVE  Tables'
<1>1. ASSUME UNCHANGED <<users, follows>> PROVE Tables'
  BY <1>1 DEF Tables
<1>2. ASSUME NEW u \in Users, NewUser(u) PROVE Tables'
  <2>1. users' = [users EXCEPT ![Home[u]] = @ \cup {u}] /\ follows' = follows
    BY <1>2 DEF NewUser
  <2> QED
    BY <2>1 DEF Tables
<1>3. ASSUME NEW u \in Users, ReplicateUser(u) \/ UnreplicateUser(u) PROVE Tables'
  BY <1>3, ReplicateKeepsTables, UnreplicateKeepsTables DEF ReplicateUser
<1>4. CASE HubsReplicate
  <2>1. Replicate(Head(op.todo)) /\ Head(op.todo) \in Users
    BY <1>4 DEF HubsReplicate, Replicate, Known, Placed
  <2> QED
    BY <2>1, ReplicateKeepsTables
<1>5. CASE \/ \E u \in Users : QueryBegin(u) \/ WarmUser(u)
           \/ \E hubs \in SeqOf(Users, MaxHubs) : HubsBegin(hubs)
           \/ HubsSkip \/ HubsAbort \/ HubsEnd \/ QueryRead \/ QueryEnd
           \/ \E k \in 1 .. Capacity : WarmFromObserved(k)
           \/ ClearObserved
  BY <1>1, <1>5 DEF QueryBegin, WarmUser, HubsBegin, HubsSkip, HubsAbort, HubsEnd, QueryRead, QueryEnd,
                    WarmFromObserved, ClearObserved
<1>6. ASSUME NEW u \in Users, NEW v \in Users,
             \/ AddFollowReplicated(u, v) \/ RemoveFollowReplicated(u, v)
             \/ PlainAddFollow(u, v) \/ PlainRemoveFollow(u, v)
      PROVE  Tables'
  BY <1>6, EditKeepsTables
     DEF AddFollowReplicated, RemoveFollowReplicated, PlainAddFollow, PlainRemoveFollow
<1> QED
  BY <1>2, <1>3, <1>4, <1>5, <1>6 DEF ApiNext, CommonNext

LEMMA ApiIsNoMove ==
    ASSUME "kind" \in DOMAIN op, ApiNext
    PROVE  op.kind # "rebalance" /\ "kind" \in DOMAIN op' /\ op'.kind # "rebalance"
<1>1. Idle.kind = "idle" /\ DOMAIN Idle = {"kind"}
  BY DEF Idle
<1>2. ASSUME op.kind # "rebalance", op' = op
      PROVE  op.kind # "rebalance" /\ "kind" \in DOMAIN op' /\ op'.kind # "rebalance"
  BY <1>2
<1>3. ASSUME NEW u \in Users, \/ NewUser(u) \/ ReplicateUser(u) \/ UnreplicateUser(u) \/ WarmUser(u)
      PROVE  op.kind # "rebalance" /\ op' = op
  BY <1>1, <1>3 DEF NewUser, ReplicateUser, UnreplicateUser, WarmUser
<1>4. ASSUME NEW u \in Users, QueryBegin(u)
      PROVE  op.kind # "rebalance" /\ "kind" \in DOMAIN op' /\ op'.kind # "rebalance"
  BY <1>1, <1>4 DEF QueryBegin
<1>5. ASSUME NEW hubs, HubsBegin(hubs)
      PROVE  op.kind # "rebalance" /\ "kind" \in DOMAIN op' /\ op'.kind # "rebalance"
  BY <1>1, <1>5 DEF HubsBegin
<1>6. ASSUME HubsReplicate \/ HubsSkip \/ HubsAbort \/ HubsEnd \/ QueryRead \/ QueryEnd
      PROVE  op.kind # "rebalance" /\ "kind" \in DOMAIN op' /\ op'.kind # "rebalance"
  BY <1>1, <1>6 DEF HubsReplicate, HubsSkip, HubsAbort, HubsEnd, QueryRead, QueryEnd, QueryDone
<1>7. ASSUME ClearObserved \/ \E k \in 1 .. Capacity : WarmFromObserved(k)
      PROVE  op.kind # "rebalance" /\ op' = op
  BY <1>1, <1>7 DEF ClearObserved, WarmFromObserved
<1>8. ASSUME NEW u \in Users, NEW v \in Users,
             \/ AddFollowReplicated(u, v) \/ RemoveFollowReplicated(u, v)
             \/ PlainAddFollow(u, v) \/ PlainRemoveFollow(u, v)
      PROVE  op.kind # "rebalance" /\ op' = op
  BY <1>1, <1>8 DEF AddFollowReplicated, RemoveFollowReplicated, PlainAddFollow, PlainRemoveFollow,
                    Follow, Unfollow
<1> QED
  BY <1>2, <1>3, <1>4, <1>5, <1>6, <1>7, <1>8 DEF ApiNext, CommonNext

-----------------------------------------------------------------------------
(* Plans and their application *)

\* The caller's plan, and what is left of the one being applied.
PlanTypes ==
    /\ plan = [actions |-> plan.actions, target_shard_counts |-> plan.target_shard_counts,
               fresh |-> plan.fresh]
    /\ plan.actions \in Seq(Action)
    /\ plan.fresh \in BOOLEAN
    /\ "kind" \in DOMAIN op
    /\ op.kind = "rebalance" =>
          /\ op = [kind |-> "rebalance", todo |-> op.todo, promised |-> op.promised, sound |-> op.sound]
          /\ op.todo \in Seq(Action)
          /\ ~plan.fresh

SingleHolders == \A u \in Users : \A s, t \in Holders(u) : s = t

\* A fresh plan fits the graph it was computed from; what is left of one that
\* was applied fresh fits the graph as it is after the moves so far.
PlansFit ==
    /\ plan.fresh => Fits(users, plan.actions, plan.target_shard_counts)
    /\ (op.kind = "rebalance" /\ op.sound) => SingleHolders /\ Fits(users, op.todo, op.promised)

RebalanceInv == Tables /\ PlanTypes /\ PlansFit

LEMMA InitRebalanceInv == RebalanceInit => RebalanceInv
<1> SUFFICES ASSUME RebalanceInit PROVE RebalanceInv
  OBVIOUS
<1>1. <<>> \in Seq(Users) /\ <<>> \in Seq(Action)
  OBVIOUS
<1>2. Tables
  BY <1>1 DEF RebalanceInit, Init, Tables
<1>3. op.kind = "idle" /\ DOMAIN op = {"kind"} /\ plan = NoPlan
  BY DEF RebalanceInit, Init, Idle
<1>4. PlanTypes /\ PlansFit
  BY <1>1, <1>3 DEF NoPlan, PlanTypes, PlansFit
<1> QED
  BY <1>2, <1>4 DEF RebalanceInv

LEMMA ComputeStep ==
    ASSUME RebalanceInv, NEW percent, ComputePlan(percent)
    PROVE  RebalanceInv'
<1>1. op = Idle /\ op' = op /\ users' = users /\ follows' = follows
  BY DEF ComputePlan, vars
<1>2. PICK list \in CandidateLists :
          plan' = [actions |-> Considered(list, percent)[Len(list)].actions,
                   target_shard_counts |-> Considered(list, percent)[Len(list)].counts,
                   fresh |-> TRUE]
  BY DEF ComputePlan, Considered, Start
<1>3. /\ Considered(list, percent)[Len(list)].actions \in Seq(Action)
      /\ Fits(users, Considered(list, percent)[Len(list)].actions,
              Considered(list, percent)[Len(list)].counts)
  BY ComputedFits DEF RebalanceInv, Tables
<1>4. op.kind = "idle" /\ "kind" \in DOMAIN op
  BY <1>1 DEF Idle
<1>5. Tables'
  BY <1>1 DEF RebalanceInv, Tables
<1>6. PlanTypes'
  BY <1>1, <1>2, <1>3, <1>4 DEF PlanTypes
<1>7. PlansFit'
  BY <1>1, <1>2, <1>3, <1>4 DEF PlansFit
<1> QED
  BY <1>5, <1>6, <1>7 DEF RebalanceInv

LEMMA MakeStep ==
    ASSUME RebalanceInv, NEW actions \in Seq(Action), MakePlan(actions) \/ DiscardPlan
    PROVE  RebalanceInv'
<1>1. op = Idle /\ op' = op /\ users' = users /\ follows' = follows
  BY DEF MakePlan, DiscardPlan, vars
<1>2. op.kind = "idle" /\ "kind" \in DOMAIN op /\ <<>> \in Seq(Action)
  BY <1>1 DEF Idle
<1>3. PICK list \in Seq(Action) :
          plan' = [actions |-> list, target_shard_counts |-> <<>>, fresh |-> FALSE]
  <2>1. CASE MakePlan(actions)
    BY <2>1 DEF MakePlan, NoPlan
  <2>2. CASE DiscardPlan
    BY <1>2, <2>2 DEF DiscardPlan, NoPlan
  <2> QED
    BY <2>1, <2>2
<1>4. Tables'
  BY <1>1 DEF RebalanceInv, Tables
<1>5. /\ plan' = [actions |-> plan'.actions, target_shard_counts |-> plan'.target_shard_counts,
                  fresh |-> plan'.fresh]
      /\ plan'.actions \in Seq(Action) /\ plan'.fresh = FALSE
  BY <1>3
<1>6. PlanTypes'
  BY <1>1, <1>2, <1>5 DEF PlanTypes
<1>7. PlansFit'
  BY <1>1, <1>2, <1>5 DEF PlansFit
<1> QED
  BY <1>4, <1>6, <1>7 DEF RebalanceInv

LEMMA BeginStep ==
    ASSUME RebalanceInv, ApplyBegin
    PROVE  RebalanceInv'
<1>1. /\ op' = [kind |-> "rebalance", todo |-> plan.actions, promised |-> plan.target_shard_counts,
                sound |-> plan.fresh /\ \A u \in Users : Cardinality(Holders(u)) <= 1]
      /\ plan' = NoPlan /\ users' = users /\ follows' = follows
  BY DEF ApplyBegin
<1>2. <<>> \in Seq(Action)
  OBVIOUS
<1>3. Tables'
  BY <1>1 DEF RebalanceInv, Tables
<1>4. PlanTypes'
  BY <1>1, <1>2 DEF RebalanceInv, PlanTypes, NoPlan
<1>5. ASSUME \A u \in Users : Cardinality(Holders(u)) <= 1 PROVE SingleHolders
  <2> SUFFICES ASSUME NEW u \in Users, NEW s \in Holders(u), NEW t \in Holders(u) PROVE s = t
    BY DEF SingleHolders
  <2>1. IsFiniteSet(Holders(u)) /\ Cardinality(Holders(u)) \in Nat
    BY RebalanceAssumption, FS_Subset, FS_CardinalityType DEF Holders
  <2>2. Cardinality(Holders(u)) # 0
    BY <2>1, FS_EmptySet
  <2>3. Cardinality(Holders(u)) = 1
    BY <1>5, <2>1, <2>2
  <2> QED
    BY <2>1, <2>3, FS_Singleton
<1>6. PlansFit'
  <2>1. SingleHolders' <=> SingleHolders
    BY <1>1 DEF SingleHolders, Holders
  <2>2. ~plan'.fresh
    BY <1>1 DEF NoPlan
  <2> QED
    BY <1>1, <1>5, <2>1, <2>2 DEF RebalanceInv, PlansFit
<1> QED
  BY <1>3, <1>4, <1>6 DEF RebalanceInv

\* Where the users are after the two halves of a move.
LEMMA MovedUsers ==
    ASSUME RebalanceInv, Shape, MoveUser \/ MoveFails, NEW a, a = Head(op.todo)
    PROVE  /\ op.kind = "rebalance" /\ a \in Action /\ Tail(op.todo) \in Seq(Action)
           /\ UsersLeft(a) \in [Shards -> SUBSET Users]
           /\ \A s \in Shards :
                  UsersLeft(a)[s] = IF s = a.from THEN users[s] \ {a.user} ELSE users[s]
           /\ \A s \in Shards : FollowsLeft(a)[s] =
                  IF s = a.from /\ a.user \in users[s] THEN [follows[s] EXCEPT ![a.user] = <<>>]
                  ELSE follows[s]
           /\ DOMAIN FollowsLeft(a) = Shards
           /\ \A s \in Shards : DOMAIN FollowsLeft(a)[s] = Users
<1>1. op.kind = "rebalance" /\ op.todo # <<>> /\ op.todo \in Seq(Action)
  BY DEF MoveUser, MoveFails, RebalanceInv, PlanTypes
<1>2. a \in Action /\ Tail(op.todo) \in Seq(Action)
  BY <1>1, HeadTailProperties
<1>3. a.user \in Users /\ a.from \in Shards /\ a.to \in Shards
  BY <1>2 DEF Action
<1>4. users \in [Shards -> SUBSET Users]
  BY DEF RebalanceInv, Tables
<1>5. /\ UsersLeft(a) \in [Shards -> SUBSET Users]
      /\ \A s \in Shards :
             UsersLeft(a)[s] = IF s = a.from THEN users[s] \ {a.user} ELSE users[s]
  BY <1>3, <1>4 DEF UsersLeft
<1>6. FollowsLeft(a) = follows \/ FollowsLeft(a) = [follows EXCEPT ![a.from][a.user] = <<>>]
  BY DEF FollowsLeft
<1>7. /\ DOMAIN FollowsLeft(a) = Shards
      /\ \A s \in Shards : DOMAIN FollowsLeft(a)[s] = Users
  BY <1>6 DEF Shape
<1>8. \A s \in Shards : FollowsLeft(a)[s] =
          IF s = a.from /\ a.user \in users[s] THEN [follows[s] EXCEPT ![a.user] = <<>>]
          ELSE follows[s]
  BY DEF FollowsLeft, Shape
<1> QED
  BY <1>1, <1>2, <1>5, <1>7, <1>8

\* Where everything is after the move.
LEMMA MoveEffect ==
    ASSUME RebalanceInv, Shape, MoveUser, NEW a, a = Head(op.todo)
    PROVE  /\ a.user \notin UsersLeft(a)[a.to]
           /\ users' \in [Shards -> SUBSET Users]
           /\ \A s \in Shards : users'[s] =
                  IF s = a.to THEN UsersLeft(a)[s] \cup {a.user} ELSE UsersLeft(a)[s]
           /\ \A s \in Shards, u \in Users : follows'[s][u] =
                  IF s = a.to /\ u = a.user
                  THEN Merge(FollowsLeft(a)[s][u], follows[a.from][u])
                  ELSE FollowsLeft(a)[s][u]
           /\ op' = [op EXCEPT !.todo = Tail(@)]
<1>1. /\ a.user \notin UsersLeft(a)[a.to]
      /\ users' = [UsersLeft(a) EXCEPT ![a.to] = @ \cup {a.user}]
      /\ follows' = [FollowsLeft(a) EXCEPT ![a.to][a.user] = Merge(@, follows[a.from][a.user])]
      /\ op' = [op EXCEPT !.todo = Tail(@)]
  BY DEF MoveUser
<1>2. /\ a \in Action
      /\ UsersLeft(a) \in [Shards -> SUBSET Users]
      /\ DOMAIN FollowsLeft(a) = Shards
      /\ \A s \in Shards : DOMAIN FollowsLeft(a)[s] = Users
  BY MovedUsers
<1>3. a.user \in Users /\ a.from \in Shards /\ a.to \in Shards
  BY <1>2 DEF Action
<1>4. /\ users' \in [Shards -> SUBSET Users]
      /\ \A s \in Shards : users'[s] =
             IF s = a.to THEN UsersLeft(a)[s] \cup {a.user} ELSE UsersLeft(a)[s]
  BY <1>1, <1>2, <1>3
<1>5. \A s \in Shards, u \in Users : follows'[s][u] =
          IF s = a.to /\ u = a.user
          THEN Merge(FollowsLeft(a)[s][u], follows[a.from][u])
          ELSE FollowsLeft(a)[s][u]
  BY <1>1, <1>2, <1>3
<1> QED
  BY <1>1, <1>4, <1>5

LEMMA MoveKeepsTables ==
    ASSUME RebalanceInv, Shape, MoveUser \/ MoveFails
    PROVE  Tables'
<1> DEFINE a == Head(op.todo)
<1>1. /\ a \in Action
      /\ UsersLeft(a) \in [Shards -> SUBSET Users]
      /\ \A s \in Shards : FollowsLeft(a)[s] =
             IF s = a.from /\ a.user \in users[s] THEN [follows[s] EXCEPT ![a.user] = <<>>]
             ELSE follows[s]
  BY MovedUsers
<1>2. a.user \in Users /\ a.from \in Shards /\ a.to \in Shards
  BY <1>1 DEF Action
<1>3. CASE MoveFails
  <2>1. users' = UsersLeft(a) /\ follows' = FollowsLeft(a)
    BY <1>3 DEF MoveFails
  <2> HIDE DEF a
  <2>2. ASSUME NEW s \in Shards, NEW u \in Users PROVE FollowsLeft(a)[s][u] \in Seq(Users)
    <3>1. <<>> \in Seq(Users)
      OBVIOUS
    <3>2. follows[s][u] \in Seq(Users) /\ DOMAIN follows[s] = Users
      BY DEF RebalanceInv, Tables, Shape
    <3> QED
      BY <1>1, <3>1, <3>2
  <2> QED
    BY <1>1, <2>1, <2>2 DEF Tables
<1>4. CASE MoveUser
  <2>1. /\ users' \in [Shards -> SUBSET Users]
        /\ \A s \in Shards, u \in Users : follows'[s][u] =
               IF s = a.to /\ u = a.user
               THEN Merge(FollowsLeft(a)[s][u], follows[a.from][u])
               ELSE FollowsLeft(a)[s][u]
    BY <1>4, MoveEffect
  <2> HIDE DEF a
  <2>2. ASSUME NEW s \in Shards, NEW u \in Users PROVE FollowsLeft(a)[s][u] \in Seq(Users)
    <3>1. <<>> \in Seq(Users)
      OBVIOUS
    <3>2. follows[s][u] \in Seq(Users) /\ DOMAIN follows[s] = Users
      BY DEF RebalanceInv, Tables, Shape
    <3> QED
      BY <1>1, <3>1, <3>2
  <2>3. ASSUME NEW s \in Shards, NEW u \in Users PROVE follows'[s][u] \in Seq(Users)
    <3>1. follows[a.from][u] \in Seq(Users)
      BY <1>2 DEF RebalanceInv, Tables
    <3>2. Merge(FollowsLeft(a)[s][u], follows[a.from][u]) \in Seq(Users)
      BY <2>2, <3>1, MergeFacts
    <3> QED
      BY <2>1, <2>2, <3>2
  <2> QED
    BY <2>1, <2>3 DEF Tables
<1> QED
  BY <1>3, <1>4

\* A sound plan goes on as it was computed: the user is there, the next
\* actions are not concerned, and the counts come one closer.
LEMMA MoveStep ==
    ASSUME RebalanceInv, Shape, MoveUser \/ MoveFails
    PROVE  RebalanceInv'
<1>1. Tables'
  BY MoveKeepsTables
<1>2. CASE MoveFails
  <2>1. op' = Idle /\ plan' = plan /\ op.kind = "rebalance"
    BY <1>2 DEF MoveFails
  <2>2. op'.kind = "idle" /\ "kind" \in DOMAIN op' /\ ~plan.fresh
    BY <2>1 DEF Idle, RebalanceInv, PlanTypes
  <2>3. PlanTypes'
    BY <2>1, <2>2 DEF RebalanceInv, PlanTypes
  <2>4. PlansFit'
    BY <2>1, <2>2 DEF PlansFit
  <2> QED
    BY <1>1, <2>3, <2>4 DEF RebalanceInv
<1>3. CASE MoveUser
  <2> DEFINE a == Head(op.todo)
             rest == Tail(op.todo)
  <2>1. /\ op.kind = "rebalance" /\ op.todo # <<>> /\ plan' = plan
    BY <1>3 DEF MoveUser
  <2>2. /\ op = [kind |-> "rebalance", todo |-> op.todo, promised |-> op.promised, sound |-> op.sound]
        /\ op.todo \in Seq(Action) /\ ~plan.fresh
    BY <2>1 DEF RebalanceInv, PlanTypes
  <2>3. /\ a \in Action /\ rest \in Seq(Action)
        /\ UsersLeft(a) \in [Shards -> SUBSET Users]
        /\ \A s \in Shards :
               UsersLeft(a)[s] = IF s = a.from THEN users[s] \ {a.user} ELSE users[s]
    BY MovedUsers
  <2>4. /\ a.user \notin UsersLeft(a)[a.to]
        /\ users' \in [Shards -> SUBSET Users]
        /\ \A s \in Shards : users'[s] =
               IF s = a.to THEN UsersLeft(a)[s] \cup {a.user} ELSE UsersLeft(a)[s]
        /\ op' = [op EXCEPT !.todo = rest]
    BY <1>3, MoveEffect
  <2>5. op' = [kind |-> "rebalance", todo |-> rest, promised |-> op.promised, sound |-> op.sound]
    <3> HIDE DEF rest
    <3> QED
      BY <2>2, <2>4
  <2>6. PlanTypes'
    <3> HIDE DEF rest, a
    <3> QED
      BY <2>1, <2>2, <2>3, <2>5 DEF RebalanceInv, PlanTypes
  <2>7. ASSUME op.sound PROVE SingleHolders' /\ Fits(users', rest, op.promised)
    <3>1. SingleHolders /\ Fits(users, op.todo, op.promised)
      BY <2>1, <2>7 DEF RebalanceInv, PlansFit
    <3>2. a.user \in users[a.from] /\ Splits(op.todo, a, rest)
      BY <2>1, <2>2, <3>1, FirstAndRest
    <3> HIDE DEF a, rest
    <3>3. Moves(users, UsersLeft(a), users', a)
      BY <2>3, <2>4, <3>2 DEF Moves
    <3>4. users \in [Shards -> SUBSET Users]
      BY DEF RebalanceInv, Tables
    <3>5. Fits(users', rest, op.promised)
      BY <2>2, <2>3, <2>4, <3>1, <3>2, <3>3, <3>4, MoveFits
    <3>6. ASSUME NEW u \in Users, NEW s \in Shards, u \in users'[s], NEW t \in Shards, u \in users'[t]
          PROVE  s = t
      <4>1. a.from \in Shards /\ \A x, y \in Shards : u \in users[x] /\ u \in users[y] => x = y
        BY <2>3, <3>1 DEF SingleHolders, Holders, Action
      <4>2. CASE u = a.user
        BY <2>3, <2>4, <3>2, <3>6, <4>1, <4>2
      <4>3. CASE u # a.user
        BY <2>3, <2>4, <3>6, <4>1, <4>3
      <4> QED
        BY <4>2, <4>3
    <3> QED
      BY <3>5, <3>6 DEF SingleHolders, Holders
  <2>8. PlansFit'
    <3> HIDE DEF rest, a
    <3> QED
      BY <2>1, <2>2, <2>5, <2>7 DEF PlansFit
  <2> QED
    BY <1>1, <2>6, <2>8 DEF RebalanceInv
<1> QED
  BY <1>2, <1>3

\* Calls other than an application leave the plan what it is, and fresh only as
\* long as they do not touch users and lists.
LEMMA UnplannedStep ==
    ASSUME RebalanceInv, Shape, Unplanned(ApiNext)
    PROVE  RebalanceInv'
<1>1. /\ op.kind # "rebalance" /\ "kind" \in DOMAIN op' /\ op'.kind # "rebalance"
  BY ApiIsNoMove DEF Unplanned, RebalanceInv, PlanTypes
<1>2. Tables'
  BY ApiKeepsTables DEF Unplanned, RebalanceInv
<1>3. PICK kept \in BOOLEAN :
          /\ plan' = [plan EXCEPT !.fresh = kept]
          /\ kept => plan.fresh /\ users' = users
  <2>1. plan.fresh \in BOOLEAN
    BY DEF RebalanceInv, PlanTypes
  <2>2. plan' = [plan EXCEPT !.fresh = plan.fresh /\ UNCHANGED <<users, follows>>]
    BY DEF Unplanned
  <2> QED
    BY <2>1, <2>2
<1>4. /\ plan = [actions |-> plan.actions, target_shard_counts |-> plan.target_shard_counts,
                 fresh |-> plan.fresh]
      /\ plan.actions \in Seq(Action)
  BY DEF RebalanceInv, PlanTypes
<1>5. plan' = [actions |-> plan.actions, target_shard_counts |-> plan.target_shard_counts,
               fresh |-> kept]
  BY <1>3, <1>4
<1>6. PlanTypes'
  BY <1>1, <1>4, <1>5 DEF PlanTypes
<1>7. PlansFit'
  BY <1>1, <1>3, <1>5 DEF RebalanceInv, PlansFit
<1> QED
  BY <1>2, <1>6, <1>7 DEF RebalanceInv

LEMMA StepRebalanceInv ==
    RebalanceInv /\ Shape /\ [PlanCall \/ Unplanned(ApiNext)]_allVars => RebalanceInv'
<1> SUFFICES ASSUME RebalanceInv, Shape, [PlanCall \/ Unplanned(ApiNext)]_allVars
             PROVE  RebalanceInv'
  OBVIOUS
<1>1. CASE \E percent \in Thresholds : ComputePlan(percent)
  BY <1>1, ComputeStep
<1>2. CASE \E n \in 1 .. MaxPlan :
              \E actions \in [1 .. n -> [user : Users, from : Shards, to : Shards]] : MakePlan(actions)
  <2>1. PICK n \in 1 .. MaxPlan : \E actions \in [1 .. n -> Action] : MakePlan(actions)
    BY <1>2 DEF Action
  <2>2. PICK actions \in [1 .. n -> Action] : MakePlan(actions)
    BY <2>1
  <2>3. actions \in Seq(Action)
    BY <2>2, RebalanceAssumption
  <2> QED
    BY <2>2, <2>3, MakeStep
<1>3. CASE DiscardPlan
  <2>1. <<>> \in Seq(Action)
    OBVIOUS
  <2> QED
    BY <1>3, <2>1, MakeStep
<1>4. CASE ApplyBegin
  BY <1>4, BeginStep
<1>5. CASE MoveUser \/ MoveFails
  BY <1>5, MoveStep
<1>6. CASE ApplyEnd
  <2>1. op' = Idle /\ UNCHANGED <<users, follows, plan>> /\ op.kind = "rebalance"
    BY <1>6 DEF ApplyEnd, ApplyDone
  <2>2. op'.kind = "idle" /\ "kind" \in DOMAIN op' /\ ~plan.fresh
    BY <2>1 DEF Idle, RebalanceInv, PlanTypes
  <2>3. Tables'
    BY <2>1 DEF RebalanceInv, Tables
  <2>4. PlanTypes'
    BY <2>1, <2>2 DEF RebalanceInv, PlanTypes
  <2>5. PlansFit'
    BY <2>1, <2>2 DEF PlansFit
  <2> QED
    BY <2>3, <2>4, <2>5 DEF RebalanceInv
<1>7. CASE Unplanned(ApiNext)
  BY <1>7, UnplannedStep
<1>8. CASE UNCHANGED allVars
  <2>1. users' = users /\ follows' = follows /\ op' = op /\ plan' = plan
    BY <1>8 DEF allVars
  <2>2. Tables'
    BY <2>1 DEF RebalanceInv, Tables
  <2>3. PlanTypes'
    BY <2>1 DEF RebalanceInv, PlanTypes
  <2>4. PlansFit'
    BY <2>1 DEF RebalanceInv, PlansFit, SingleHolders, Holders
  <2> QED
    BY <2>2, <2>3, <2>4 DEF RebalanceInv
<1> QED
  BY <1>1, <1>2, <1>3, <1>4, <1>5, <1>6, <1>7, <1>8 DEF PlanCall

\* The invariant of planning and applying, with the types of the whole graph.
THEOREM RebalanceInvariance == RebalanceSpec => [](Shape /\ RebalanceInv)
<1>1. RebalanceSpec => [](Shape /\ HomeCacheCoherent)
  BY InitHomeCaches, StepHomeCaches, PTL DEF RebalanceSpec
<1> QED
  BY <1>1, InitRebalanceInv, StepRebalanceInv, PTL DEF RebalanceSpec

\* What a fitting plan says of its first action and, when none is left, of its
\* counts.
LEMMA FittingIsKept == RebalanceInv => SoundPlanKept
<1> SUFFICES ASSUME RebalanceInv, op.kind = "rebalance", op.sound
             PROVE  /\ op.todo # <<>> => Head(op.todo).user \in users[Head(op.todo).from]
                    /\ op.todo = <<>> => UsersPerShard = op.promised
  BY DEF SoundPlanKept
<1>1. Fits(users, op.todo, op.promised) /\ op.todo \in Seq(Action)
  BY DEF RebalanceInv, PlansFit, PlanTypes
<1>2. CASE op.todo # <<>>
  BY <1>1, <1>2, FirstAndRest
<1>3. CASE op.todo = <<>>
  <2>1. users \in [Shards -> SUBSET Users]
    BY DEF RebalanceInv, Tables
  <2>2. ASSUME NEW s \in Shards PROVE op.promised[s] = UsersPerShard[s]
    <3>1. ToSet(<<>>) = {}
      BY DEF ToSet
    <3>2. Leaving(op.todo, s) = {} /\ Arriving(op.todo, s) = {}
      BY <1>3, <3>1 DEF Leaving, Arriving
    <3>3. Cardinality(Leaving(op.todo, s)) = 0 /\ Cardinality(Arriving(op.todo, s)) = 0
      BY <3>2, FS_EmptySet
    <3>4. Cardinality(users[s]) \in Nat
      BY <2>1, TableFinite
    <3>5. op.promised[s] = Cardinality(users[s]) - Cardinality(Leaving(op.todo, s))
                               + Cardinality(Arriving(op.todo, s))
      BY <1>1 DEF Fits
    <3>6. op.promised[s] = Cardinality(users[s])
      BY <3>3, <3>4, <3>5
    <3> QED
      BY <3>6 DEF UsersPerShard
  <2>3. op.promised \in [Shards -> Int]
    BY <1>1 DEF Fits
  <2> QED
    BY <1>3, <2>2, <2>3 DEF UsersPerShard
<1> QED
  BY <1>2, <1>3

\* A plan applied to the graph it was computed from, each user on one shard,
\* finds every user where it says and ends with the counts it promised, for any
\* number of shards and users and any thresholds.
THEOREM SoundPlansKept == RebalanceSpec => []SoundPlanKept
  BY RebalanceInvariance, FittingIsKept, PTL

-----------------------------------------------------------------------------
(* Nothing is lost *)

\* A move takes a user to its target, merged with what is there; one that fails
\* found the user on its target already.
LEMMA MoveLosesNothing ==
    ASSUME RebalanceInv, Shape, MoveUser \/ MoveFails, NEW u \in Users
    PROVE  /\ Holders(u) # {} => Holders(u)' # {}
           /\ Alike(u) => Targets(u)' = Targets(u)
<1> DEFINE a == Head(op.todo)
<1>1. /\ a \in Action
      /\ \A s \in Shards : UsersLeft(a)[s] = IF s = a.from THEN users[s] \ {a.user} ELSE users[s]
      /\ \A s \in Shards : FollowsLeft(a)[s] =
             IF s = a.from /\ a.user \in users[s] THEN [follows[s] EXCEPT ![a.user] = <<>>]
             ELSE follows[s]
  BY MovedUsers
<1>2. \/ /\ a.user \in UsersLeft(a)[a.to]
         /\ \A s \in Shards : users'[s] = UsersLeft(a)[s]
         /\ \A s \in Shards, w \in Users : follows'[s][w] = FollowsLeft(a)[s][w]
      \/ /\ \A s \in Shards : users'[s] =
                IF s = a.to THEN UsersLeft(a)[s] \cup {a.user} ELSE UsersLeft(a)[s]
         /\ \A s \in Shards, w \in Users : follows'[s][w] =
                IF s = a.to /\ w = a.user
                THEN Merge(FollowsLeft(a)[s][w], follows[a.from][w])
                ELSE FollowsLeft(a)[s][w]
  <2>1. CASE MoveFails
    BY <2>1 DEF MoveFails
  <2>2. CASE MoveUser
    <3>1. \A s \in Shards : users'[s] =
              IF s = a.to THEN UsersLeft(a)[s] \cup {a.user} ELSE UsersLeft(a)[s]
      BY <2>2, MoveEffect
    <3>2. \A s \in Shards, w \in Users : follows'[s][w] =
              IF s = a.to /\ w = a.user
              THEN Merge(FollowsLeft(a)[s][w], follows[a.from][w])
              ELSE FollowsLeft(a)[s][w]
      BY <2>2, MoveEffect
    <3> HIDE DEF a
    <3> QED
      BY <3>1, <3>2
  <2> QED
    BY <2>1, <2>2
<1> HIDE DEF a
<1>3. a.user \in Users /\ a.from \in Shards /\ a.to \in Shards
  BY <1>1 DEF Action
<1>4. Holders(u) # {} => Holders(u)' # {}
  <2> SUFFICES ASSUME NEW s \in Shards, u \in users[s] PROVE \E t \in Shards : u \in users'[t]
    BY DEF Holders
  <2>1. CASE u = a.user
    BY <1>1, <1>2, <1>3, <2>1
  <2>2. CASE u # a.user
    BY <1>1, <1>2, <1>3, <2>2
  <2> QED
    BY <2>1, <2>2
<1>5. ASSUME NEW s \in Shards
      PROVE  /\ follows[s][u] \in Seq(Users) /\ DOMAIN follows[s] = Users
             /\ FollowsLeft(a)[s][u] =
                    IF s = a.from /\ u = a.user /\ u \in users[s] THEN <<>> ELSE follows[s][u]
  BY <1>1, <1>3 DEF RebalanceInv, Tables, Shape
<1>6. ASSUME NEW x
      PROVE  /\ x \in Targets(u) <=> \E s \in Shards : x \in ToSet(follows[s][u])
             /\ x \in Targets(u)' <=> \E s \in Shards : x \in ToSet(follows'[s][u])
  BY DEF Targets
<1>7. CASE u # a.user
  <2>1. \A s \in Shards : follows'[s][u] = follows[s][u]
    BY <1>2, <1>3, <1>5, <1>7
  <2> QED
    BY <1>4, <1>6, <2>1
<1>8. CASE u = a.user
  <2> SUFFICES ASSUME Alike(u), NEW x
               PROVE  x \in Targets(u)' <=> x \in Targets(u)
    BY <1>4
  <2>1. ToSet(<<>>) = {} /\ <<>> \in Seq(Users)
    BY DEF ToSet
  <2>2. ASSUME NEW s \in Shards
        PROVE  /\ FollowsLeft(a)[s][u] \in Seq(Users)
               /\ ToSet(FollowsLeft(a)[s][u]) =
                      IF s = a.from /\ u \in users[s] THEN {} ELSE ToSet(follows[s][u])
    BY <1>5, <1>8, <2>1
  <2>3. CASE /\ a.user \in UsersLeft(a)[a.to]
             /\ \A s \in Shards, w \in Users : follows'[s][w] = FollowsLeft(a)[s][w]
    <3>1. u \in users[a.to] /\ a.to # a.from
      BY <1>1, <1>3, <1>8, <2>3
    <3>2. u \in users[a.from] => follows[a.from][u] = follows[a.to][u]
      BY <1>3, <3>1 DEF Alike, Holders
    <3>3. \A s \in Shards : ToSet(follows'[s][u]) =
              IF s = a.from /\ u \in users[s] THEN {} ELSE ToSet(follows[s][u])
      BY <2>2, <2>3
    <3> QED
      BY <1>3, <1>6, <3>1, <3>2, <3>3
  <2>4. CASE \A s \in Shards, w \in Users : follows'[s][w] =
                 IF s = a.to /\ w = a.user
                 THEN Merge(FollowsLeft(a)[s][w], follows[a.from][w])
                 ELSE FollowsLeft(a)[s][w]
    <3>1. ToSet(Merge(FollowsLeft(a)[a.to][u], follows[a.from][u]))
              = ToSet(FollowsLeft(a)[a.to][u]) \cup ToSet(follows[a.from][u])
      BY <1>3, <1>5, <2>2, MergeFacts
    <3>2. \A s \in Shards : ToSet(follows'[s][u]) =
              IF s = a.to THEN ToSet(FollowsLeft(a)[s][u]) \cup ToSet(follows[a.from][u])
              ELSE ToSet(FollowsLeft(a)[s][u])
      BY <1>8, <2>4, <3>1
    <3> QED
      BY <1>3, <1>6, <2>2, <3>2
  <2> QED
    BY <1>2, <2>3, <2>4
<1> QED
  BY <1>7, <1>8

LEMMA StepLosesNothing ==
    Shape /\ RebalanceInv /\ [PlanCall \/ Unplanned(ApiNext)]_allVars =>
        [op.kind = "rebalance" =>
            \A u \in Users : /\ Holders(u) # {} => Holders(u)' # {}
                             /\ Alike(u) => Targets(u)' = Targets(u)]_allVars
<1> SUFFICES ASSUME Shape, RebalanceInv, PlanCall \/ Unplanned(ApiNext), op.kind = "rebalance",
                    NEW u \in Users
             PROVE  /\ Holders(u) # {} => Holders(u)' # {}
                    /\ Alike(u) => Targets(u)' = Targets(u)
  OBVIOUS
<1>1. ~Unplanned(ApiNext)
  BY ApiIsNoMove DEF Unplanned, RebalanceInv, PlanTypes
<1>2. op # Idle
  BY DEF Idle
<1>3. MoveUser \/ MoveFails \/ ApplyEnd
  BY <1>1, <1>2 DEF PlanCall, ComputePlan, MakePlan, DiscardPlan, ApplyBegin
<1>4. CASE ApplyEnd
  BY <1>4 DEF ApplyEnd, Holders, Targets
<1> QED
  BY <1>3, <1>4, MoveLosesNothing

\* No application of a plan, fresh, stale or made up, complete or cut short,
\* removes a user from its last shard, or an edge of a user whose copies are
\* alike.
THEOREM NothingLost == RebalanceSpec => MovesLoseNothing
<1>1. RebalanceSpec => [](Shape /\ RebalanceInv)
  BY RebalanceInvariance
<1> QED
  BY <1>1, StepLosesNothing, PTL DEF RebalanceSpec, MovesLoseNothing
=============================================================================
