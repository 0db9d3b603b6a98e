---------------------------- MODULE StandaloneProofs ---------------------------
(***************************************************************************)
(* Proofs about StandaloneParts: the query through a cache of the caller,   *)
(* the planning of a rebalance and the measurement of latencies, for any    *)
(* number of users, shards, sources and repetitions.                       *)
(***************************************************************************)
EXTENDS StandaloneParts, AdjacencyListProofs, FiniteSetTheorems

-----------------------------------------------------------------------------
(* Queries through a cache of the caller *)

\* What a first hop adds to the answer, as a function that can be folded.
PushStep(start) ==
    [p \in Seq(Users) \X Users |->
        IF p[2] = start \/ p[2] \in ToSet(p[1]) THEN p[1] ELSE Append(p[1], p[2])]

\* Operators of the instance are those of the library.
LEMMA InstanceMax == \A S : Querying!Max(S) = Max(S)
  BY Zenon DEF Querying!Max, Max

LEMMA InstanceToSet == \A s : Querying!ToSet(s) = ToSet(s)
  BY Zenon DEF Querying!ToSet, ToSet

\* What one list adds to the answer is a fold,
LEMMA PushedIsFold ==
    ASSUME NEW start, NEW base \in Seq(Users), NEW list \in Seq(Users)
    PROVE  /\ PushStep(start) \in Steps(Seq(Users), Users)
           /\ Querying!Pushed(base, list, start) = FoldOf(PushStep(start), base, list)
<1> DEFINE step == PushStep(start)
           T == Seq(Users)
           Eq(g) == g = [s \in SUBSET DOMAIN list |->
                            IF s = {} THEN base
                            ELSE IF list[Querying!Max(s)] = start
                                    \/ list[Querying!Max(s)]
                                         \in Querying!ToSet(g[s \ {Querying!Max(s)}])
                                 THEN g[s \ {Querying!Max(s)}]
                                 ELSE Append(g[s \ {Querying!Max(s)}], list[Querying!Max(s)])]
<1>1. step \in Steps(T, Users) /\ base \in T
  BY DEF Steps, PushStep
<1>2. \A x \in T, v \in Users :
          step[<<x, v>>] = IF v = start \/ v \in ToSet(x) THEN x ELSE Append(x, v)
  BY DEF PushStep
<1> HIDE DEF step, T
<1>3. \E g : Eq(g)
  <2>1. PICK g : /\ g = [s \in SUBSET DOMAIN list |-> g[s]]
                 /\ g[{}] = base
                 /\ FoldsUp(g, T, step, list)
                 /\ AllIn(g, T, list)
                 /\ \A s \in SUBSET DOMAIN list : s # {} => list[Max(s)] \in Users
    BY <1>1, FoldExists
  <2>2. ASSUME NEW s \in SUBSET DOMAIN list, s # {}
        PROVE  g[s] = IF list[Querying!Max(s)] = start
                         \/ list[Querying!Max(s)] \in Querying!ToSet(g[s \ {Querying!Max(s)}])
                      THEN g[s \ {Querying!Max(s)}]
                      ELSE Append(g[s \ {Querying!Max(s)}], list[Querying!Max(s)])
    <3> DEFINE x == g[s \ {Max(s)}]
               v == list[Max(s)]
    <3>1. x \in T /\ v \in Users
      BY <2>1, <2>2 DEF AllIn
    <3>2. g[s] = step[<<x, v>>]
      BY <2>1, <2>2, <3>1 DEF FoldsUp
    <3>3. g[s] = IF v = start \/ v \in ToSet(x) THEN x ELSE Append(x, v)
      BY <1>2, <3>1, <3>2
    <3> QED
      BY <3>3, InstanceMax, InstanceToSet
  <2>3. Eq(g)
    BY <2>1, <2>2
  <2> QED
    BY <2>3
<1>4. ASSUME NEW g, Eq(g) PROVE g[DOMAIN list] = FoldOf(step, base, list)
  <2>1. g[{}] = base
    BY <1>4
  <2>2. \A s \in SUBSET DOMAIN list : s # {} => list[Max(s)] \in Users
    BY <1>1, FoldExists
  <2>3. ASSUME NEW s \in SUBSET DOMAIN list, s # {}, g[s \ {Max(s)}] \in T
        PROVE  g[s] = step[<<g[s \ {Max(s)}], list[Max(s)]>>]
    <3> DEFINE x == g[s \ {Max(s)}]
               v == list[Max(s)]
    <3>1. v \in Users /\ x \in T
      BY <2>2, <2>3
    <3>2. g[s] = IF v = start \/ v \in ToSet(x) THEN x ELSE Append(x, v)
      BY <1>4, <2>3, InstanceMax, InstanceToSet
    <3> HIDE DEF x, v
    <3>3. step[<<x, v>>] = IF v = start \/ v \in ToSet(x) THEN x ELSE Append(x, v)
      BY <1>2, <3>1
    <3> QED
      BY <3>2, <3>3 DEF x, v
  <2>4. FoldsUp(g, T, step, list)
    BY <2>3 DEF FoldsUp
  <2> QED
    BY <1>1, <2>1, <2>4, FoldUnique
<1>5. Querying!Pushed(base, list, start) = (CHOOSE g : Eq(g))[DOMAIN list]
  BY Zenon DEF Querying!Pushed, Querying!FoldLeft, Querying!MapThenFoldSet
<1> HIDE DEF Eq
<1> QED
  BY <1>1, <1>3, <1>4, <1>5 DEF step, T

\* What the list of a first hop adds, for the lists f.
HopStep(f, start) ==
    [p \in Seq(Users) \X Users |-> Querying!Pushed(p[1], f[p[2]], start)]

\* of users if they all are.
LEMMA PushedList ==
    ASSUME NEW start, NEW x \in Seq(Users), NEW list \in Seq(Users)
    PROVE  Querying!Pushed(x, list, start) \in Seq(Users)
<1>1. /\ PushStep(start) \in Steps(Seq(Users), Users)
      /\ Querying!Pushed(x, list, start) = FoldOf(PushStep(start), x, list)
  BY PushedIsFold
<1>2. AllIn(FoldedSets(PushStep(start), x, list), Seq(Users), list)
  BY <1>1, FoldedSetsSteps
<1> QED
  BY <1>1, <1>2 DEF AllIn, FoldOf

\* Each list is a step from answer to answer.
LEMMA HopStepIs ==
    ASSUME NEW f \in [Users -> Seq(Users)], NEW start
    PROVE  /\ HopStep(f, start) \in Steps(Seq(Users), Users)
           /\ \A x \in Seq(Users), v \in Users :
                  HopStep(f, start)[<<x, v>>] = Querying!Pushed(x, f[v], start)
<1>1. ASSUME NEW x \in Seq(Users), NEW v \in Users
      PROVE  Querying!Pushed(x, f[v], start) \in Seq(Users)
  <2>1. f[v] \in Seq(Users)
    OBVIOUS
  <2> QED
    BY <2>1, PushedList
<1>2. \A p \in Seq(Users) \X Users : p[1] \in Seq(Users) /\ p[2] \in Users
  OBVIOUS
<1>3. \A p \in Seq(Users) \X Users : Querying!Pushed(p[1], f[p[2]], start) \in Seq(Users)
  BY <1>1, <1>2
<1>4. HopStep(f, start) \in Steps(Seq(Users), Users)
  BY <1>3 DEF HopStep, Steps
<1>5. ASSUME NEW x \in Seq(Users), NEW v \in Users
      PROVE  HopStep(f, start)[<<x, v>>] = Querying!Pushed(x, f[v], start)
  BY DEF HopStep
<1> QED
  BY <1>4, <1>5

\* The answer is the fold of those steps.
LEMMA TwoHopIsFold ==
    ASSUME NEW start \in Users, following \in [Users -> Seq(Users)]
    PROVE  Querying!TwoHopIds(start) = FoldOf(HopStep(following, start), <<>>, following[start])
<1> DEFINE list == following[start]
           f == following
           step == HopStep(f, start)
           T == Seq(Users)
           none == <<>>
           Eq(g) == g = [s \in SUBSET DOMAIN list |->
                            IF s = {} THEN none
                            ELSE Querying!Pushed(g[s \ {Querying!Max(s)}],
                                                 f[list[Querying!Max(s)]], start)]
<1>1. step \in Steps(T, Users) /\ none \in T
  BY HopStepIs
<1>2. \A x \in T, v \in Users : step[<<x, v>>] = Querying!Pushed(x, f[v], start)
  BY HopStepIs
<1>5. Querying!TwoHopIds(start) = (CHOOSE g : Eq(g))[DOMAIN list]
  BY Zenon DEF Querying!TwoHopIds, Querying!FoldLeft, Querying!MapThenFoldSet
<1>0. list \in Seq(Users)
  OBVIOUS
<1> HIDE DEF step, T, f, list, none
<1>3. \E g : Eq(g)
  <2>1. PICK g : /\ g = [s \in SUBSET DOMAIN list |-> g[s]]
                 /\ g[{}] = none
                 /\ FoldsUp(g, T, step, list)
                 /\ AllIn(g, T, list)
                 /\ \A s \in SUBSET DOMAIN list : s # {} => list[Max(s)] \in Users
    BY <1>0, <1>1, FoldExists
  <2>2. ASSUME NEW s \in SUBSET DOMAIN list, s # {}
        PROVE  g[s] = Querying!Pushed(g[s \ {Querying!Max(s)}], f[list[Querying!Max(s)]], start)
    <3>1. g[s \ {Max(s)}] \in T /\ list[Max(s)] \in Users
      BY <2>1, <2>2 DEF AllIn
    <3>2. g[s] = step[<<g[s \ {Max(s)}], list[Max(s)]>>]
      BY <2>1, <2>2, <3>1 DEF FoldsUp
    <3>3. step[<<g[s \ {Max(s)}], list[Max(s)]>>]
              = Querying!Pushed(g[s \ {Max(s)}], f[list[Max(s)]], start)
      BY <1>2, <3>1
    <3> QED
      BY <3>2, <3>3, InstanceMax
  <2>3. g = [s \in SUBSET DOMAIN list |->
                IF s = {} THEN none
                ELSE Querying!Pushed(g[s \ {Querying!Max(s)}], f[list[Querying!Max(s)]], start)]
    BY <2>1, <2>2
  <2> QED
    BY <2>3
<1>4. ASSUME NEW g, Eq(g) PROVE g[DOMAIN list] = FoldOf(step, none, list)
  <2>1. g[{}] = none
    BY <1>4
  <2>2. \A s \in SUBSET DOMAIN list : s # {} => list[Max(s)] \in Users
    BY <1>0, <1>1, FoldExists
  <2>3. ASSUME NEW s \in SUBSET DOMAIN list, s # {}, g[s \ {Max(s)}] \in T
        PROVE  g[s] = step[<<g[s \ {Max(s)}], list[Max(s)]>>]
    <3>1. g[s] = Querying!Pushed(g[s \ {Max(s)}], f[list[Max(s)]], start)
      BY <1>4, <2>3, InstanceMax
    <3>2. list[Max(s)] \in Users
      BY <2>2, <2>3
    <3>3. step[<<g[s \ {Max(s)}], list[Max(s)]>>]
              = Querying!Pushed(g[s \ {Max(s)}], f[list[Max(s)]], start)
      BY <1>2, <2>3, <3>2
    <3> QED
      BY <3>1, <3>3
  <2>4. FoldsUp(g, T, step, list)
    BY <2>3 DEF FoldsUp
  <2> QED
    BY <1>0, <1>1, <2>1, <2>4, FoldUnique
<1> HIDE DEF Eq
<1> QED
  BY <1>1, <1>3, <1>4, <1>5 DEF step, T, f, list, none

\* The first of the first hops is pushed, then the others.
LEMMA HopFirst ==
    ASSUME NEW f \in [Users -> Seq(Users)], NEW start,
           NEW r \in Seq(Users), NEW todo \in Seq(Users), todo # <<>>
    PROVE  /\ Head(todo) \in Users /\ Tail(todo) \in Seq(Users)
           /\ Querying!Pushed(r, f[Head(todo)], start) \in Seq(Users)
           /\ FoldOf(HopStep(f, start), r, todo)
                = FoldOf(HopStep(f, start), Querying!Pushed(r, f[Head(todo)], start), Tail(todo))
<1> DEFINE step == HopStep(f, start)
           v == Head(todo)
           rest == Tail(todo)
           one == <<v>>
           none == <<>>
<1>1. /\ step \in Steps(Seq(Users), Users)
      /\ \A x \in Seq(Users), w \in Users : step[<<x, w>>] = Querying!Pushed(x, f[w], start)
  BY HopStepIs
<1>2. v \in Users /\ rest \in Seq(Users) /\ one \in Seq(Users) /\ none \in Seq(Users)
  OBVIOUS
<1>3. todo = one \o rest /\ one = Append(none, v)
  OBVIOUS
<1>4. FoldOf(step, r, none) = r
  BY FoldOfEmpty
<1> HIDE DEF step, v, rest, one, none
<1>5. FoldOf(step, r, Append(none, v)) = step[<<FoldOf(step, r, none), v>>]
  BY <1>1, <1>2, FoldOfAppend
<1>6. FoldOf(step, r, one) = Querying!Pushed(r, f[v], start)
  BY <1>1, <1>2, <1>3, <1>4, <1>5
<1>7. FoldOf(step, r, one) \in Seq(Users)
  <2>1. AllIn(FoldedSets(step, r, one), Seq(Users), one)
    BY <1>1, <1>2, FoldedSetsSteps
  <2> QED
    BY <2>1 DEF AllIn, FoldOf
<1>8. FoldOf(step, r, one \o rest) = FoldOf(step, FoldOf(step, r, one), rest)
  BY <1>1, <1>2, FoldOfConcat
<1> QED
  BY <1>2, <1>3, <1>6, <1>7, <1>8 DEF step, v, rest

\* A query under way.
Queries ==
    [kind : {"query"}, source : Users, todo : Seq(Users), result : Seq(Users),
     hits : Nat, misses : Nat, fresh : BOOLEAN]

\* The invariant of queries through a cache, part by part.
QueryTypes ==
    /\ following \in [Users -> Seq(Users)]
    /\ op \in Queries \cup {Querying!Idle}
    /\ careful \in BOOLEAN
    /\ \A v \in DOMAIN cache : cache[v] \in Seq(Users)

\* A careful caller leaves no stale list.
CacheFresh == careful => \A v \in Users : Querying!Fresh(v)

\* What is left to do leads from the result so far to the answer, and will be
\* read from fresh lists.
OnTheWay ==
    (op.kind = "query" /\ (careful \/ op.fresh)) =>
        /\ \A v \in ToSet(op.todo) : Querying!Fresh(v)
        /\ FoldOf(HopStep(following, op.source), op.result, op.todo)
             = Querying!TwoHopIds(op.source)

QueryInv == QueryTypes /\ CacheFresh /\ OnTheWay

\* The lists change as the lemmas on adjacency lists say.
LEMMA InstanceLists ==
    \A s, v : /\ Querying!WithTarget(s, v) = WithTarget(s, v)
              /\ Querying!Without(s, v) = Without(s, v)
  BY Zenon DEF Querying!WithTarget, WithTarget, Querying!Without, Without,
               Querying!ToSet, ToSet

\* An inserted entry is the list that was read, or there is none; the others go
\* or stay as they were.
LEMMA InsertKeeps ==
    ASSUME NEW c, NEW u, NEW list, NEW d \in Querying!InsertOutcomes(c, u, list)
    PROVE  /\ u \in DOMAIN d => d[u] = list
           /\ \A w : w # u /\ w \in DOMAIN d => w \in DOMAIN c /\ d[w] = c[w]
<1>1. CASE Querying!Oversized(list)
  <2>1. d = Querying!Drop(c, u)
    BY <1>1 DEF Querying!InsertOutcomes
  <2> QED
    BY <2>1 DEF Querying!Drop, Querying!Keep
<1>2. CASE ~Querying!Oversized(list)
  <2>1. PICK K \in Querying!Survivors(Querying!Drop(c, u), Querying!EntryBytes(list)) :
            d = Querying!Put(Querying!Keep(c, K), u, list)
    BY <1>2, Zenon DEF Querying!InsertOutcomes
  <2>2. /\ DOMAIN Querying!Keep(c, K) = DOMAIN c \cap K
        /\ \A w \in DOMAIN c \cap K : Querying!Keep(c, K)[w] = c[w]
    BY DEF Querying!Keep
  <2> QED
    BY <2>1, <2>2 DEF Querying!Put
<1> QED
  BY <1>1, <1>2

\* The same for the lists of a state, in a form that holds of the next one too.
Lists == following \in [Users -> Seq(Users)]

Folded ==
    \A start \in Users :
        Querying!TwoHopIds(start) = FoldOf(HopStep(following, start), <<>>, following[start])

LEMMA TwoHopFolded == Lists => Folded
  BY TwoHopIsFold DEF Lists, Folded

\* The answer depends on the lists alone.
LEMMA TwoHopSame ==
    Lists /\ UNCHANGED following =>
        \A start \in Users : Querying!TwoHopIds(start)' = Querying!TwoHopIds(start)
<1> SUFFICES ASSUME Lists, UNCHANGED following, NEW start \in Users
             PROVE  Querying!TwoHopIds(start)' = Querying!TwoHopIds(start)
  OBVIOUS
<1>1. (Lists => Folded) /\ (Lists' => Folded')
  BY TwoHopFolded, PTL
<1>2. HopStep(following, start)' = HopStep(following, start)
  BY DEF HopStep
<1> QED
  BY <1>1, <1>2 DEF Lists, Folded

\* A new graph.
LEMMA QueryStarts == Querying!Init => QueryInv
  BY DEF Querying!Init, Querying!Idle, Querying!Fresh,
         QueryInv, QueryTypes, CacheFresh, OnTheWay

\* While no query is under way.
LEMMA IdleKeeps ==
    ASSUME op = Querying!Idle, QueryTypes', CacheFresh', op' = op
    PROVE  QueryInv'
  BY DEF QueryInv, OnTheWay, Querying!Idle

\* A list changes, and is invalidated if the caller is cautious.
LEMMA ChangeKeeps ==
    ASSUME QueryInv, op = Querying!Idle, op' = op,
           NEW u \in Users, NEW list \in Seq(Users), NEW cautious \in BOOLEAN,
           following' = [following EXCEPT ![u] = list],
           cache' = IF cautious THEN Querying!Drop(cache, u) ELSE cache,
           careful' = (careful /\ cautious)
    PROVE  QueryInv'
<1>1. QueryTypes'
  <2>1. /\ following' \in [Users -> Seq(Users)] /\ careful' \in BOOLEAN
        /\ op' \in Queries \cup {Querying!Idle}
    BY DEF QueryInv, QueryTypes
  <2>2. \A v \in DOMAIN cache : cache[v] \in Seq(Users)
    BY DEF QueryInv, QueryTypes
  <2>3. CASE cautious
    <3>1. cache' = Querying!Drop(cache, u)
      BY <2>3
    <3>2. DOMAIN cache' = DOMAIN cache \ {u} /\ \A w \in DOMAIN cache' : cache'[w] = cache[w]
      BY <3>1 DEF Querying!Drop, Querying!Keep
    <3> QED
      BY <2>1, <2>2, <3>2 DEF QueryTypes
  <2>4. CASE ~cautious
    BY <2>1, <2>2, <2>4 DEF QueryTypes
  <2> QED
    BY <2>3, <2>4
<1>2. CacheFresh'
  <2> SUFFICES ASSUME careful', NEW v \in Users, v \in DOMAIN cache' PROVE cache'[v] = following'[v]
    BY DEF CacheFresh, Querying!Fresh
  <2>1. careful /\ cautious /\ cache' = Querying!Drop(cache, u)
    BY DEF QueryInv, QueryTypes
  <2>2. v \in DOMAIN cache \ {u} /\ cache'[v] = cache[v]
    <3>1. DOMAIN cache' = DOMAIN cache \ {u} /\ \A w \in DOMAIN cache' : cache'[w] = cache[w]
      BY <2>1 DEF Querying!Drop, Querying!Keep
    <3> QED
      BY <3>1
  <2>3. cache[v] = following[v]
    BY <2>1, <2>2 DEF QueryInv, CacheFresh, Querying!Fresh
  <2>4. following'[v] = following[v]
    BY <2>2 DEF QueryInv, QueryTypes
  <2> QED
    BY <2>2, <2>3, <2>4
<1> QED
  BY <1>1, <1>2, IdleKeeps

\* A query begins.
LEMMA BeginKeeps ==
    ASSUME QueryInv, NEW start \in Users, Querying!QueryBegin(start)
    PROVE  QueryInv'
<1>1. /\ op' = [kind |-> "query", source |-> start, todo |-> following[start], result |-> <<>>,
                hits |-> 0, misses |-> 0,
                fresh |-> \A v \in ToSet(following[start]) : Querying!Fresh(v)]
      /\ UNCHANGED <<known, following, cache, careful>>
  BY InstanceToSet DEF Querying!QueryBegin
<1>2. QueryTypes
  BY DEF QueryInv
<1>3. following[start] \in Seq(Users)
  BY <1>2 DEF QueryTypes
<1>4. QueryTypes'
  BY <1>1, <1>2, <1>3 DEF QueryTypes, Queries
<1>5. CacheFresh'
  BY <1>1 DEF QueryInv, CacheFresh, Querying!Fresh
<1>6. /\ op'.source = start /\ op'.todo = following[start] /\ op'.result = <<>>
      /\ op'.fresh = \A v \in ToSet(following[start]) : Querying!Fresh(v)
  BY <1>1
<1>7. OnTheWay'
  <2> SUFFICES ASSUME careful' \/ op'.fresh
               PROVE  /\ \A v \in ToSet(op'.todo) : Querying!Fresh(v)'
                      /\ FoldOf(HopStep(following, op.source)', op'.result, op'.todo)
                           = Querying!TwoHopIds(op.source)'
    BY DEF OnTheWay
  <2>1. ToSet(following[start]) \subseteq Users
    BY <1>3 DEF ToSet
  <2>2. \A v \in ToSet(following[start]) : Querying!Fresh(v)
    BY <1>1, <1>6, <2>1 DEF QueryInv, CacheFresh
  <2>3. \A v \in ToSet(op'.todo) : Querying!Fresh(v)'
    BY <1>1, <1>6, <2>2 DEF Querying!Fresh
  <2>4. Querying!TwoHopIds(op.source)'
            = FoldOf(HopStep(following, op.source)', <<>>, following'[start])
    <3>1. Lists' => Folded'
      BY TwoHopFolded, PTL
    <3>2. Lists' /\ op'.source \in Users
      BY <1>4, <1>6 DEF QueryTypes, Lists
    <3> QED
      BY <1>6, <3>1, <3>2 DEF Folded
  <2> QED
    BY <1>1, <1>6, <2>3, <2>4
<1> QED
  BY <1>4, <1>5, <1>7 DEF QueryInv

\* A first hop, read from the cache or inserted into it.
LEMMA HopKeeps ==
    ASSUME QueryInv, Querying!QueryHop
    PROVE  QueryInv'
<1> DEFINE v == Head(op.todo)
           hit == v \in DOMAIN cache
           list == IF hit THEN cache[v] ELSE following[v]
<1>1. /\ op.kind = "query" /\ op.todo # <<>>
      /\ cache' \in (IF hit THEN {cache} ELSE Querying!InsertOutcomes(cache, v, list))
      /\ op' = [op EXCEPT !.todo = Tail(@),
                          !.result = Querying!Pushed(@, list, op.source),
                          !.hits = IF hit THEN @ + 1 ELSE @,
                          !.misses = IF hit THEN @ ELSE @ + 1]
      /\ UNCHANGED <<known, following, careful>>
  BY DEF Querying!QueryHop
<1>2. QueryTypes /\ CacheFresh /\ OnTheWay
  BY DEF QueryInv
<1>3. op \in Queries /\ following \in [Users -> Seq(Users)]
  BY <1>1, <1>2 DEF QueryTypes, Querying!Idle
<1>4. op.todo \in Seq(Users) /\ op.result \in Seq(Users) /\ op.source \in Users
  BY <1>3 DEF Queries
<1>5. v \in Users /\ Tail(op.todo) \in Seq(Users)
  BY <1>1, <1>4
<1>6. ASSUME NEW w \in Users, Querying!Fresh(w) PROVE Querying!Fresh(w)'
  <2>1. CASE hit
    <3>1. cache' = cache /\ following' = following
      BY <1>1, <2>1
    <3> QED
      BY <1>6, <3>1 DEF Querying!Fresh
  <2>2. CASE ~hit
    <3>1. cache' \in Querying!InsertOutcomes(cache, v, following[v]) /\ following' = following
      BY <1>1, <2>2
    <3> HIDE DEF v
    <3>2. /\ v \in DOMAIN cache' => cache'[v] = following[v]
          /\ \A x : x # v /\ x \in DOMAIN cache' => x \in DOMAIN cache /\ cache'[x] = cache[x]
      BY <3>1, InsertKeeps
    <3> QED
      BY <1>6, <3>1, <3>2 DEF Querying!Fresh
  <2> QED
    BY <2>1, <2>2
<1>7. CacheFresh'
  BY <1>1, <1>2, <1>6 DEF CacheFresh
<1> DEFINE next == Querying!Pushed(op.result, list, op.source)
<1>8. /\ op'.kind = "query" /\ op'.source = op.source /\ op'.todo = Tail(op.todo)
      /\ op'.result = next /\ op'.fresh = op.fresh
  <2> HIDE DEF next, hit
  <2> QED
    BY <1>1, <1>3 DEF Queries, next
<1>9. OnTheWay'
  <2> SUFFICES ASSUME careful \/ op.fresh
               PROVE  /\ \A w \in ToSet(Tail(op.todo)) : Querying!Fresh(w)'
                      /\ FoldOf(HopStep(following, op.source), next, Tail(op.todo))
                           = Querying!TwoHopIds(op.source)'
    BY <1>1, <1>8 DEF OnTheWay, HopStep
  <2>1. /\ \A w \in ToSet(op.todo) : Querying!Fresh(w)
        /\ FoldOf(HopStep(following, op.source), op.result, op.todo)
             = Querying!TwoHopIds(op.source)
    BY <1>1, <1>2 DEF OnTheWay
  <2>2. v \in ToSet(op.todo) /\ ToSet(Tail(op.todo)) \subseteq ToSet(op.todo)
    BY <1>1, <1>4 DEF ToSet
  <2>3. list = following[v]
    BY <2>1, <2>2 DEF Querying!Fresh
  <2>4. ToSet(op.todo) \subseteq Users
    BY <1>4 DEF ToSet
  <2>5. \A w \in ToSet(Tail(op.todo)) : Querying!Fresh(w)'
    BY <1>6, <2>1, <2>2, <2>4
  <2>6. FoldOf(HopStep(following, op.source), op.result, op.todo)
          = FoldOf(HopStep(following, op.source),
                   Querying!Pushed(op.result, following[v], op.source), Tail(op.todo))
    <3> DEFINE f == following
               r == op.result
               todo == op.todo
    <3>1. f \in [Users -> Seq(Users)] /\ r \in Seq(Users) /\ todo \in Seq(Users) /\ todo # <<>>
      BY <1>1, <1>3, <1>4
    <3> HIDE DEF f, r, todo
    <3>2. FoldOf(HopStep(f, op.source), r, todo)
            = FoldOf(HopStep(f, op.source), Querying!Pushed(r, f[Head(todo)], op.source), Tail(todo))
      BY <3>1, HopFirst
    <3> QED
      BY <3>2 DEF f, r, todo
  <2>7. Querying!TwoHopIds(op.source)' = Querying!TwoHopIds(op.source)
    BY <1>1, <1>3, <1>4, <1>8, TwoHopSame DEF Lists
  <2> QED
    BY <2>1, <2>3, <2>5, <2>6, <2>7
<1>10. QueryTypes'
  <2>1. next \in Seq(Users)
    <3>1. list \in Seq(Users)
      BY <1>2, <1>3, <1>5 DEF QueryTypes
    <3> HIDE DEF list
    <3> QED
      BY <1>4, <3>1, PushedList
  <2>2. op' \in Queries
    <3> HIDE DEF next, hit, v
    <3>1. op' = [op EXCEPT !.todo = Tail(@), !.result = next,
                           !.hits = IF hit THEN @ + 1 ELSE @,
                           !.misses = IF hit THEN @ ELSE @ + 1]
      BY <1>1, <1>3 DEF Queries, next
    <3>2. /\ op.kind = "query" /\ op.source \in Users /\ op.fresh \in BOOLEAN
          /\ op.hits \in Nat /\ op.misses \in Nat
      BY <1>3 DEF Queries
    <3> DEFINE todo == Tail(op.todo)
               hits == IF hit THEN op.hits + 1 ELSE op.hits
               misses == IF hit THEN op.misses ELSE op.misses + 1
    <3>3. hits \in Nat /\ misses \in Nat /\ todo \in Seq(Users)
      BY <1>5, <3>2
    <3>4. op' = [kind |-> "query", source |-> op.source, todo |-> todo, result |-> next,
                 hits |-> hits, misses |-> misses, fresh |-> op.fresh]
      BY <1>3, <3>1 DEF Queries
    <3> HIDE DEF todo, hits, misses
    <3> QED
      BY <2>1, <3>2, <3>3, <3>4 DEF Queries
  <2>3. \A w \in DOMAIN cache' : cache'[w] \in Seq(Users)
    <3>1. CASE hit
      BY <1>1, <1>2, <3>1 DEF QueryTypes
    <3>2. CASE ~hit
      <4>1. cache' \in Querying!InsertOutcomes(cache, v, following[v]) /\ following[v] \in Seq(Users)
        BY <1>1, <1>3, <1>5, <3>2
      <4> HIDE DEF v
      <4>2. /\ v \in DOMAIN cache' => cache'[v] = following[v]
            /\ \A x : x # v /\ x \in DOMAIN cache' => x \in DOMAIN cache /\ cache'[x] = cache[x]
        BY <4>1, InsertKeeps
      <4> QED
        BY <1>2, <4>1, <4>2 DEF QueryTypes
    <3> QED
      BY <3>1, <3>2
  <2> QED
    BY <1>1, <1>2, <2>2, <2>3 DEF QueryTypes
<1> QED
  BY <1>7, <1>9, <1>10 DEF QueryInv

\* Every operation of the graph.
LEMMA QueryNextKeeps == QueryInv /\ Querying!Next => QueryInv'
<1> SUFFICES ASSUME QueryInv, Querying!Next PROVE QueryInv'
  OBVIOUS
<1>1. QueryTypes /\ CacheFresh
  BY DEF QueryInv
<1>2. ASSUME NEW u \in Users, Querying!AddUser(u) \/ Querying!RemoveUser(u) PROVE QueryInv'
  <2>1. op = Querying!Idle /\ UNCHANGED <<following, cache, op, careful>>
    BY <1>2 DEF Querying!AddUser, Querying!RemoveUser
  <2>2. QueryTypes' /\ CacheFresh'
    BY <1>1, <2>1 DEF QueryTypes, CacheFresh, Querying!Fresh
  <2> QED
    BY <2>1, <2>2, IdleKeeps
<1>3. ASSUME NEW u \in Users, Querying!QueryBegin(u) PROVE QueryInv'
  BY <1>3, BeginKeeps
<1>4. ASSUME NEW u \in Users, NEW v \in Users, NEW cautious \in BOOLEAN,
             Querying!AddFollow(u, v, cautious)
      PROVE  QueryInv'
  <2> DEFINE list == WithTarget(following[u], v)
  <2>1. list \in Seq(Users)
    BY <1>1, WithTargetList DEF QueryTypes
  <2>2. /\ op = Querying!Idle /\ op' = op
        /\ following' = [following EXCEPT ![u] = list]
        /\ cache' = IF cautious THEN Querying!Drop(cache, u) ELSE cache
        /\ careful' = (careful /\ cautious)
    BY <1>1, <1>4, InstanceLists DEF Querying!AddFollow, QueryTypes
  <2> HIDE DEF list
  <2> QED
    BY <2>1, <2>2, ChangeKeeps
<1>5. ASSUME NEW u \in Users, NEW v \in Users, NEW cautious \in BOOLEAN,
             Querying!RemoveFollow(u, v, cautious)
      PROVE  QueryInv'
  <2> DEFINE list == Without(following[u], v)
  <2>1. list \in Seq(Users)
    BY <1>1, WithoutList DEF QueryTypes
  <2>2. /\ op = Querying!Idle /\ op' = op
        /\ following' = [following EXCEPT ![u] = list]
        /\ cache' = IF cautious THEN Querying!Drop(cache, u) ELSE cache
        /\ careful' = (careful /\ cautious)
    BY <1>1, <1>5, InstanceLists DEF Querying!RemoveFollow, QueryTypes
  <2> HIDE DEF list
  <2> QED
    BY <2>1, <2>2, ChangeKeeps
<1>6. CASE Querying!QueryHop
  BY <1>6, HopKeeps
<1>7. CASE Querying!QueryEnd
  BY <1>1, <1>7 DEF Querying!QueryEnd, QueryInv, QueryTypes, CacheFresh, OnTheWay,
                    Querying!Fresh, Querying!Idle
<1> QED
  BY <1>2, <1>3, <1>4, <1>5, <1>6, <1>7 DEF Querying!Next

QueryJob == job = "query" => QueryInv

\* Every step of any job keeps the queries as they should be.
LEMMA QueryStep == QueryJob /\ [Next]_vars => QueryJob'
<1> SUFFICES ASSUME QueryJob, [Next]_vars, job' = "query" PROVE QueryInv'
  BY DEF QueryJob
<1>1. CASE Query
  BY <1>1, QueryNextKeeps DEF Query, QueryJob
<1>2. CASE UNCHANGED vars \/ Balance \/ Split \/ Plan \/ Generate \/ Measure
  <2>1. job = "query" /\ UNCHANGED querying
    BY <1>2 DEF vars, Balance, Split, Plan, Generate, Measure
  <2>2. QueryInv /\ UNCHANGED <<known, following, cache, op, careful>>
    BY <2>1 DEF QueryJob, querying
  <2>3. QueryTypes' /\ CacheFresh'
    BY <2>2 DEF QueryInv, QueryTypes, CacheFresh, Querying!Fresh
  <2>4. CASE op.kind # "query"
    BY <2>2, <2>3, <2>4 DEF QueryInv, OnTheWay
  <2>5. CASE op.kind = "query"
    <3>1. op.source \in Users /\ Lists
      BY <2>2, <2>5 DEF QueryInv, QueryTypes, Queries, Querying!Idle, Lists
    <3>2. Querying!TwoHopIds(op.source)' = Querying!TwoHopIds(op.source)
      BY <2>2, <3>1, TwoHopSame
    <3> QED
      BY <2>2, <2>3, <3>2 DEF QueryInv, OnTheWay, Querying!Fresh, HopStep
  <2> QED
    BY <2>4, <2>5
<1> QED
  BY <1>1, <1>2 DEF Next

\* With nothing left to do, the result is the answer.
LEMMA QueryExact == QueryJob => AnswerExact
<1> SUFFICES ASSUME QueryInv, op.kind = "query", op.todo = <<>>, careful \/ op.fresh
             PROVE  op.result = Querying!TwoHopIds(op.source)
  BY DEF QueryJob, AnswerExact, Querying!AnswerExact, Querying!QueryDone
<1>1. FoldOf(HopStep(following, op.source), op.result, op.todo) = Querying!TwoHopIds(op.source)
  BY DEF QueryInv, OnTheWay
<1> QED
  BY <1>1, FoldOfEmpty

\* get_two_hop_ids_with_cache, for any graph, cache and sequence of mutations: if
\* the caller invalidated all it changed, or no first hop was stale when the query
\* began, the answer is that of get_two_hop_ids, in its order.
THEOREM AnswersExact == Spec => []AnswerExact
<1>1. Init => QueryJob
  BY QueryStarts DEF Init, QueryJob
<1> QED
  BY <1>1, QueryStep, QueryExact, PTL DEF Spec

-----------------------------------------------------------------------------
(* Planning a rebalance *)

LEMMA SumAddUp == \A f, S : FoldFunctionOnSet(LAMBDA n, sum : n + sum, 0, f, S) = SumOver(f, S)
  BY Zenon DEF FoldFunctionOnSet, MapThenFoldSet, SumOver, Sums

\* A set of natural numbers has a least.
LEMMA LeastNumber ==
    ASSUME NEW T \in SUBSET Nat, T # {}
    PROVE  \E n \in T : \A m \in T : n <= m
<1> DEFINE Below == {k \in Nat : \A m \in T : k <= m}
<1> SUFFICES ASSUME \A n \in T : \E m \in T : m < n
             PROVE  FALSE
  OBVIOUS
<1>1. 0 \in Below
  OBVIOUS
<1>2. ASSUME NEW k \in Nat, k \in Below PROVE k + 1 \in Below
  <2>1. k \notin T
    BY <1>2
  <2>2. \A m \in T : k <= m /\ m # k
    BY <1>2, <2>1
  <2> QED
    BY <2>2
<1>3. \A k \in Nat : k \in Below
  <2> HIDE DEF Below
  <2> QED
    BY <1>1, <1>2, Induction
<1>4. PICK n \in T : TRUE
  OBVIOUS
<1>5. n + 1 \in Below
  BY <1>3, <1>4
<1> QED
  BY <1>4, <1>5

Loads == [Shards -> Nat]

\* The shard that the next candidate is offered: none has fewer users.
LEMMA LeastLoaded ==
    ASSUME StandaloneAssumption, NEW c \in Loads
    PROVE  /\ Planning!FindLeastLoaded(c) \in Shards
           /\ \A s \in Shards : c[Planning!FindLeastLoaded(c)] <= c[s]
<1> DEFINE First(s) == \A t \in Shards : c[s] < c[t] \/ (c[s] = c[t] /\ s <= t)
<1>0. Shards \in SUBSET Nat /\ Shards # {} /\ DOMAIN c = Shards /\ \A s \in Shards : c[s] \in Nat
  BY DEF StandaloneAssumption, Loads
<1>1. PICK n \in {c[s] : s \in Shards} : \A m \in {c[s] : s \in Shards} : n <= m
  <2> DEFINE T == {c[s] : s \in Shards}
  <2>1. T \in SUBSET Nat /\ T # {}
    BY <1>0
  <2> HIDE DEF T
  <2>2. \E n \in T : \A m \in T : n <= m
    BY <2>1, LeastNumber
  <2> QED
    BY <2>2 DEF T
<1>2. PICK s \in {t \in Shards : c[t] = n} : \A t \in {t \in Shards : c[t] = n} : s <= t
  <2> DEFINE T == {t \in Shards : c[t] = n}
  <2>1. T \in SUBSET Nat /\ T # {}
    BY <1>0, <1>1
  <2> HIDE DEF T
  <2>2. \E m \in T : \A t \in T : m <= t
    BY <2>1, LeastNumber
  <2> QED
    BY <2>2 DEF T
<1>3. s \in Shards /\ First(s)
  <2>1. \A t \in Shards : n <= c[t] /\ t \in Nat /\ c[t] \in Nat
    BY <1>0, <1>1
  <2>2. s \in Shards /\ c[s] = n
    BY <1>2
  <2>3. \A t \in Shards : c[t] = n => s <= t
    BY <1>2
  <2> QED
    BY <2>1, <2>2, <2>3
<1> DEFINE l == CHOOSE r \in Shards : First(r)
<1>4. l \in Shards /\ First(l)
  BY <1>3, Zenon
<1>5. Planning!FindLeastLoaded(c) = l
  BY <1>0 DEF Planning!FindLeastLoaded
<1>6. \A t \in Shards : c[l] <= c[t]
  <2>1. \A t \in Shards : c[l] < c[t] \/ (c[l] = c[t] /\ l <= t)
    BY <1>4
  <2> HIDE DEF l
  <2> QED
    BY <1>0, <1>4, <2>1
<1> QED
  BY <1>4, <1>5, <1>6

\* The totals of the plan are sums over the shards.
LEMMA TotalIsSum == \A c : Planning!TotalOf(c) = SumOver(c, DOMAIN c)
  BY Zenon DEF Planning!TotalOf, Planning!MapThenSumSet, Planning!MapThenFoldSet, SumOver, Sums

\* The shards are finitely many, so their loads can be summed.
LEMMA LoadsValued == StandaloneAssumption => \A c \in Loads : Valued(c, Shards) /\ DOMAIN c = Shards
  BY DEF StandaloneAssumption, Loads, Valued

LEMMA TotalNat ==
    ASSUME StandaloneAssumption, NEW c \in Loads
    PROVE  /\ Planning!TotalOf(c) = SumOver(c, Shards)
           /\ Planning!TotalOf(c) \in Nat
           /\ \A s \in Shards : c[s] <= Planning!TotalOf(c)
<1>1. Valued(c, Shards) /\ DOMAIN c = Shards
  BY LoadsValued
<1>2. Planning!TotalOf(c) = SumOver(c, Shards)
  BY <1>1, TotalIsSum
<1>3. SumOver(c, Shards) \in Nat
  BY <1>1, SumNat
<1>4. ASSUME NEW s \in Shards PROVE c[s] <= SumOver(c, Shards)
  <2>1. SameValues(c, c, Shards \ {s})
    BY DEF SameValues
  <2> DEFINE rest == SumOver(c, Shards \ {s})
  <2>2. SumOver(c, Shards) = c[s] + rest /\ rest \in Nat /\ c[s] \in Nat
    BY <1>1, <2>1, SumWithout
  <2> HIDE DEF rest
  <2> QED
    BY <2>2
<1> QED
  BY <1>2, <1>3, <1>4

\* The fullest shard.
LEMMA MostLoadedOf ==
    ASSUME StandaloneAssumption, NEW c \in Loads
    PROVE  /\ \E s \in Shards : Planning!MostLoaded(c) = c[s]
           /\ \A s \in Shards : c[s] <= Planning!MostLoaded(c)
<1> DEFINE T == {c[s] : s \in Shards}
           Above == {k \in Nat : \A m \in T : m <= k}
<1>0. Shards # {} /\ DOMAIN c = Shards /\ \A s \in Shards : c[s] \in Nat
  BY DEF StandaloneAssumption, Loads
<1>1. T \in SUBSET Nat /\ T # {}
  BY <1>0
<1>2. Planning!TotalOf(c) \in Above
  BY TotalNat
<1> HIDE DEF T
<1>3. PICK k \in Above : \A j \in Above : k <= j
  <2> Above \in SUBSET Nat /\ Above # {}
    BY <1>2
  <2> HIDE DEF Above
  <2> QED
    BY LeastNumber
<1>4. k \in T
  <2> SUFFICES ASSUME k \notin T PROVE FALSE
    OBVIOUS
  <2>1. \A m \in T : m \in Nat /\ m <= k /\ m # k
    BY <1>1, <1>3
  <2>2. k # 0 /\ k \in Nat
    <3>1. PICK m \in T : m \in Nat
      BY <1>1
    <3>2. k \in Nat
      BY <1>3
    <3> HIDE DEF Above
    <3> QED
      BY <2>1, <3>1, <3>2
  <2>3. k - 1 \in Above
    BY <2>1, <2>2
  <2> QED
    BY <1>3, <2>2, <2>3
<1>5. \E x \in T : \A y \in T : x >= y
  BY <1>1, <1>3, <1>4
<1>6. Planning!MostLoaded(c) = CHOOSE x \in T : \A y \in T : x >= y
  BY <1>0 DEF Planning!MostLoaded, Planning!Max, T
<1>7. Planning!MostLoaded(c) \in T /\ \A y \in T : Planning!MostLoaded(c) >= y
  BY <1>5, <1>6
<1> QED
  BY <1>1, <1>7 DEF T

\* The cardinality of the instance is that of the finite sets.
LEMMA SizeOf == \A S : Planning!Cardinality(S) = Cardinality(S)
  BY Zenon DEF Planning!Cardinality, Cardinality

\* A shard gives users only if it has more than the average, rounded up.
LEMMA OverloadedIsAbove ==
    ASSUME StandaloneAssumption, NEW c \in Loads
    PROVE  /\ Planning!Ceiling(c) \in Nat
           /\ \A s \in Shards : Planning!Overloaded(c, s) => Planning!Ceiling(c) < c[s]
<1> DEFINE n == Cardinality(Shards)
           T == Planning!TotalOf(c)
           K == Planning!Ceiling(c)
<1>1. n \in Nat /\ n > 0
  <2>1. n \in Nat /\ n # 0
    BY FS_CardinalityType, FS_EmptySet DEF StandaloneAssumption
  <2> QED
    BY <2>1
<1>2. T \in Nat
  BY TotalNat
<1>0. DOMAIN c = Shards
  BY LoadsValued
<1>3. K = (105 * T) \div (100 * n)
  BY <1>0, SizeOf DEF Planning!Ceiling
<1> HIDE DEF n, T, K
<1> DEFINE m == 100 * n
<1>4. m \in Nat /\ m > 0
  BY <1>1
<1>5. K \in Nat /\ K * m <= 105 * T
  <2> DEFINE a == 105 * T
  <2>1. a \in Nat /\ K = a \div m
    BY <1>2, <1>3
  <2> HIDE DEF m, a
  <2>2. K \in Nat /\ K * m <= a
    BY <1>4, <2>1
  <2> QED
    BY <2>2 DEF a
<1>6. ASSUME NEW s \in Shards, Planning!Overloaded(c, s) PROVE K < c[s]
  <2>1. 10 * c[s] * n > 11 * T
    BY <1>0, <1>6, SizeOf DEF Planning!Overloaded, n, T
  <2>2. c[s] \in Nat
    BY DEF Loads
  <2> DEFINE b == c[s]
  <2>3. b * m > 105 * T
    <3>1. b * m = 10 * (10 * b * n)
      BY <1>1, <2>2
    <3> DEFINE x == 10 * b * n
    <3>2. x \in Nat
      BY <1>1, <2>2
    <3> HIDE DEF x
    <3> QED
      BY <1>2, <2>1, <2>2, <3>1, <3>2 DEF x
  <2> HIDE DEF b, m
  <2>4. b * m > K * m
    BY <1>2, <1>4, <1>5, <2>2, <2>3 DEF b
  <2>5. b > K
    BY <1>4, <1>5, <2>2, <2>4 DEF b
  <2> QED
    BY <2>5 DEF b
<1> QED
  BY <1>5, <1>6 DEF K

\* The invariant of planning, part by part.
PlanTypes ==
    /\ initial \in Loads /\ counts \in Loads /\ left \in Loads
    /\ moves \in [Shards -> Loads]

PlanLeft ==
    /\ stopped = Planning!ImbalanceAtMost(counts, target)
    /\ \A s \in Shards : left[s] <= counts[s]
    /\ \A s \in Shards : left[s] > 0 => Planning!Overloaded(initial, s)

\* The shards that gain users do so below the ceiling, and only if one is overloaded.
Gained ==
    \A s \in Shards :
        counts[s] > initial[s] => /\ counts[s] <= Planning!Ceiling(initial)
                                  /\ \E t \in Shards : Planning!Overloaded(initial, t)

\* A shard that is to lose users still has candidates for all above the ceiling,
\* until no shard is below it.
Lowered ==
    \/ \A s \in Shards : counts[s] >= Planning!Ceiling(initial)
    \/ \A s \in Shards : Planning!Overloaded(initial, s) =>
                             counts[s] <= left[s] \/ counts[s] <= Planning!Ceiling(initial)

PlanInv == PlanTypes /\ PlanLeft /\ Gained /\ Lowered /\ Planning!CountsAddUp

\* Nothing adds up to nothing.
LEMMA SumOfZeros ==
    ASSUME NEW S, IsFiniteSet(S)
    PROVE  SumOver([x \in S |-> 0], S) = 0
<1> DEFINE f == [x \in S |-> 0]
           W == {D \in SUBSET S : SumOver(f, D) = 0}
<1>1. \A D \in SUBSET S : Valued(f, D)
  BY FS_Subset DEF Valued
<1>2. \A s \in SUBSET S : Sums(f, S)[s] \in Nat
  BY <1>1, SumsAnyOrder
<1> DEFINE T == {n \in Nat : \A D \in SUBSET S : Cardinality(D) = n => SumOver(f, D) = 0}
<1>3. 0 \in T
  <2>1. \A D \in SUBSET S : Cardinality(D) = 0 => D = {}
    BY FS_Subset, FS_EmptySet
  <2> HIDE DEF f
  <2> QED
    BY <2>1, SumEmpty
<1>4. ASSUME NEW n \in Nat, n \in T PROVE n + 1 \in T
  <2> SUFFICES ASSUME NEW D \in SUBSET S, Cardinality(D) = n + 1 PROVE SumOver(f, D) = 0
    OBVIOUS
  <2>1. IsFiniteSet(D)
    BY FS_Subset
  <2>2. D # {}
    BY FS_EmptySet
  <2>3. PICK x \in D : TRUE
    BY <2>2
  <2>4. Cardinality(D \ {x}) = n
    <3>1. Cardinality(D \ {x}) = Cardinality(D) - 1
      BY <2>1, <2>3, FS_RemoveElement
    <3> QED
      BY <3>1
  <2>5. SumOver(f, D \ {x}) = 0
    BY <1>4, <2>4
  <2>6. SameValues(f, f, D \ {x}) /\ f[x] = 0 /\ Valued(f, D)
    BY <1>1 DEF SameValues
  <2> HIDE DEF f
  <2>7. SumOver(f, D) = f[x] + SumOver(f, D \ {x})
    BY <2>3, <2>6, SumWithout
  <2> QED
    BY <2>5, <2>6, <2>7
<1>5. Cardinality(S) \in T
  <2> HIDE DEF T
  <2>1. Cardinality(S) \in Nat
    BY FS_CardinalityType
  <2> QED
    BY <1>3, <1>4, <2>1, Induction
<1> QED
  BY <1>5

\* A new plan.
LEMMA PlanStarts == StandaloneAssumption /\ Planning!Init => PlanInv
<1> SUFFICES ASSUME StandaloneAssumption, Planning!Init PROVE PlanInv
  OBVIOUS
<1>0. Shards # {} /\ IsFiniteSet(Shards) /\ Shards \subseteq Nat /\ UsersOfShard \in Nat
  BY DEF StandaloneAssumption
<1> DEFINE zeros == [t \in Shards |-> 0]
<1>1. /\ initial \in Loads /\ counts = initial
      /\ left = [s \in Shards |-> IF Planning!Overloaded(initial, s) THEN initial[s] ELSE 0]
      /\ moves = [s \in Shards |-> zeros]
      /\ stopped = Planning!ImbalanceAtMost(initial, target)
  BY <1>0 DEF Planning!Init, Loads
<1>2. PlanTypes
  BY <1>1 DEF PlanTypes, Loads
<1>3. \A s \in Shards : initial[s] \in Nat
  BY <1>1 DEF Loads
<1>4. PlanLeft /\ Gained /\ Lowered
  BY <1>1, <1>3 DEF PlanLeft, Gained, Lowered
<1>5. Planning!CountsAddUp
  <2>1. zeros \in Loads
    BY DEF Loads
  <2>2. Planning!TotalOf(zeros) = 0
    BY <1>0, <2>1, TotalNat, SumOfZeros
  <2>3. ASSUME NEW s \in Shards
        PROVE  moves[s] = zeros /\ [t \in Shards |-> moves[t][s]] = zeros
    BY <1>1, <2>3
  <2> HIDE DEF zeros
  <2>4. \A s \in Shards :
            counts[s] = initial[s] - Planning!TotalOf(moves[s]) + Planning!TotalOf([t \in Shards |-> moves[t][s]])
    BY <1>1, <1>3, <2>2, <2>3
  <2> QED
    BY <2>4 DEF Planning!CountsAddUp
<1> QED
  BY <1>2, <1>4, <1>5 DEF PlanInv

\* A move changes the totals of its two shards alone.
LEMMA TotalCounted ==
    ASSUME StandaloneAssumption, NEW c \in Loads, NEW u \in Shards
    PROVE  Planning!TotalOf([c EXCEPT ![u] = @ + 1]) = Planning!TotalOf(c) + 1
<1> DEFINE d == [c EXCEPT ![u] = @ + 1]
<1>1. c[u] \in Nat /\ d[u] = c[u] + 1 /\ d[u] \in Nat /\ d \in Loads
  BY DEF Loads
<1>2. SameValues(c, d, Shards \ {u})
  BY DEF SameValues, Loads
<1>3. Valued(c, Shards)
  BY LoadsValued
<1>4. Planning!TotalOf(d) = SumOver(d, Shards) /\ Planning!TotalOf(c) = SumOver(c, Shards)
  BY <1>1, TotalNat
<1>5. SumOver(c, Shards) \in Nat
  BY <1>3, SumNat
<1> HIDE DEF d
<1>6. SumOver(d, Shards) = SumOver(c, Shards) - c[u] + d[u]
  <2>1. d[u] \in Nat
    BY <1>1
  <2> QED
    BY ONLY <1>2, <1>3, <2>1, u \in Shards, SumChanged
<1> QED
  BY <1>1, <1>4, <1>5, <1>6 DEF d

\* A candidate planned to move, or passed over.
LEMMA ConsiderKeeps ==
    ASSUME StandaloneAssumption, PlanInv, NEW from \in Shards, Planning!Consider(from)
    PROVE  PlanInv'
<1> DEFINE to == Planning!FindLeastLoaded(counts)
           K == Planning!Ceiling(initial)
           moved == [[counts EXCEPT ![from] = @ - 1] EXCEPT ![to] = @ + 1]
           Over(s) == Planning!Overloaded(initial, s)
<1>1. /\ initial \in Loads /\ counts \in Loads /\ left \in Loads /\ moves \in [Shards -> Loads]
      /\ stopped = Planning!ImbalanceAtMost(counts, target)
      /\ \A s \in Shards : left[s] <= counts[s]
      /\ \A s \in Shards : left[s] > 0 => Over(s)
      /\ Gained /\ Lowered /\ Planning!CountsAddUp
  BY DEF PlanInv, PlanTypes, PlanLeft
<1>2. /\ left[from] > 0 /\ left' = [left EXCEPT ![from] = @ - 1]
      /\ initial' = initial /\ target' = target
  BY DEF Planning!Consider
<1>3. \/ /\ counts[to] < K /\ counts' = moved
         /\ moves' = [moves EXCEPT ![from][to] = @ + 1]
         /\ stopped' = Planning!ImbalanceAtMost(moved, target)
      \/ /\ ~(counts[to] < K) /\ UNCHANGED <<counts, moves, stopped>>
  BY DEF Planning!Consider
<1>4. to \in Shards /\ \A s \in Shards : counts[to] <= counts[s]
  BY <1>1, LeastLoaded
<1>5. K \in Nat
  BY <1>1, OverloadedIsAbove
<1>6. \A s \in Shards : initial[s] \in Nat /\ counts[s] \in Nat /\ left[s] \in Nat
  BY <1>1 DEF Loads
<1>7. Over(from)
  BY <1>1, <1>2
<1>8. left' \in Loads /\ \A s \in Shards : left'[s] = IF s = from THEN left[s] - 1 ELSE left[s]
  BY <1>1, <1>2, <1>6 DEF Loads
<1>9. K' = K /\ \A s \in Shards : Planning!Overloaded(initial, s)' <=> Over(s)
  BY <1>2
<1>10. CASE counts[to] < K /\ counts' = moved
  <2>1. \A s \in Shards : moved[s] = counts[s] - (IF s = from THEN 1 ELSE 0) + (IF s = to THEN 1 ELSE 0)
    BY <1>1, <1>4, <1>6 DEF Loads
  <2>2. counts[from] > 0
    BY <1>1, <1>2, <1>6
  <2>3. moved \in Loads
    <3> HIDE DEF to
    <3>1. moved = [s \in Shards |-> moved[s]]
      BY <1>1, <1>4 DEF Loads
    <3> HIDE DEF moved
    <3>2. \A s \in Shards : moved[s] \in Nat
      BY <1>6, <2>1, <2>2
    <3> QED
      BY <3>1, <3>2 DEF Loads
  <2>4. moves' = [moves EXCEPT ![from][to] = @ + 1] /\ stopped' = Planning!ImbalanceAtMost(moved, target)
    BY <1>3, <1>10
  <2>5. moves' \in [Shards -> Loads]
    <3>1. \A m \in [Shards -> Loads] : [m EXCEPT ![from][to] = @ + 1] \in [Shards -> Loads]
      <4> HIDE DEF to
      <4> SUFFICES ASSUME NEW m \in [Shards -> Loads]
                   PROVE  [m EXCEPT ![from][to] = @ + 1] \in [Shards -> Loads]
        OBVIOUS
      <4>1. [m[from] EXCEPT ![to] = @ + 1] \in Loads
        BY <1>4 DEF Loads
      <4> QED
        BY <4>1
    <3> QED
      BY <1>1, <2>4, <3>1
  <2>6. PlanTypes'
    BY <1>1, <1>2, <1>8, <1>10, <2>3, <2>5 DEF PlanTypes
  <2>7. \A s \in Shards : counts'[s] = counts[s] - (IF s = from THEN 1 ELSE 0) + (IF s = to THEN 1 ELSE 0)
    BY <1>10, <2>1
  <2>8. PlanLeft'
    <3>1. stopped' = Planning!ImbalanceAtMost(counts, target)'
      BY <1>2, <1>10, <2>4
    <3>2. \A s \in Shards : left'[s] <= counts'[s]
      BY <1>1, <1>6, <1>8, <2>7
    <3>3. \A s \in Shards : left'[s] > 0 => Over(s)
      BY <1>1, <1>6, <1>8
    <3> HIDE DEF Over
    <3>4. \A s \in Shards : left'[s] > 0 => Planning!Overloaded(initial, s)'
      BY <1>9, <3>3
    <3> QED
      BY <3>1, <3>2, <3>4 DEF PlanLeft
  <2>9. Gained'
    <3> HIDE DEF K, to, moved, Over
    <3>1. \A s \in Shards : counts'[s] > initial[s] =>
              /\ counts'[s] <= K
              /\ \E t \in Shards : Over(t)
      BY <1>1, <1>4, <1>5, <1>6, <1>7, <1>10, <2>7 DEF Gained, K
    <3>2. \A s \in Shards : counts'[s] > initial'[s] =>
              /\ counts'[s] <= K'
              /\ \E t \in Shards : Planning!Overloaded(initial, t)'
      BY <1>2, <1>9, <3>1
    <3> QED
      BY <3>2 DEF Gained, K
  <2>10. Lowered'
    <3>1. \A s \in Shards : Over(s) => counts[s] <= left[s] \/ counts[s] <= K
      <4>1. \/ \A s \in Shards : counts[s] >= K
            \/ \A s \in Shards : Over(s) => counts[s] <= left[s] \/ counts[s] <= K
        BY <1>1 DEF Lowered
      <4> HIDE DEF K, to, moved, Over
      <4> QED
        BY <1>4, <1>5, <1>6, <1>10, <4>1
    <3> HIDE DEF K, to, moved, Over
    <3>2. \A s \in Shards : Over(s) => counts'[s] <= left'[s] \/ counts'[s] <= K
      BY <1>4, <1>5, <1>6, <1>8, <1>10, <2>7, <3>1
    <3>3. \A s \in Shards : Planning!Overloaded(initial, s)' => counts'[s] <= left'[s] \/ counts'[s] <= K'
      BY <1>9, <3>2
    <3> QED
      BY <3>3 DEF Lowered, K
  <2>11. Planning!CountsAddUp'
    <3> HIDE DEF to, moved, K, Over
    <3> DEFINE column(s) == [t \in Shards |-> moves[t][s]]
               after(s) == [t \in Shards |-> moves'[t][s]]
    <3>1. ASSUME NEW s \in Shards
          PROVE  /\ moves[s] \in Loads /\ column(s) \in Loads
                 /\ Planning!TotalOf(moves[s]) \in Nat /\ Planning!TotalOf(column(s)) \in Nat
      <4>1. moves[s] \in Loads /\ column(s) \in Loads
        BY <1>1 DEF Loads
      <4> HIDE DEF column
      <4> QED
        BY <4>1, TotalNat
    <3>2. ASSUME NEW s \in Shards
          PROVE  Planning!TotalOf(moves'[s]) = Planning!TotalOf(moves[s]) + IF s = from THEN 1 ELSE 0
      <4>1. CASE s = from
        <5>1. moves'[s] = [moves[s] EXCEPT ![to] = @ + 1]
          BY <1>1, <1>4, <2>4, <4>1
        <5>2. moves[s] \in Loads
          BY <3>1
        <5>3. Planning!TotalOf([moves[s] EXCEPT ![to] = @ + 1]) = Planning!TotalOf(moves[s]) + 1
          BY <1>4, <5>2, TotalCounted
        <5> QED
          BY <4>1, <5>1, <5>3
      <4>2. CASE s # from
        <5>1. moves'[s] = moves[s]
          BY <1>1, <2>4, <4>2
        <5> DEFINE n == Planning!TotalOf(moves[s])
        <5>2. n \in Nat /\ Planning!TotalOf(moves'[s]) = n
          BY <3>1, <5>1
        <5> HIDE DEF n
        <5>3. Planning!TotalOf(moves'[s]) = n + IF s = from THEN 1 ELSE 0
          BY <4>2, <5>2
        <5> QED
          BY <5>3 DEF n
      <4> QED
        BY <4>1, <4>2
    <3>3. ASSUME NEW s \in Shards
          PROVE  Planning!TotalOf(after(s)) = Planning!TotalOf(column(s)) + IF s = to THEN 1 ELSE 0
      <4>0. \A t, r \in Shards : moves'[t][r] = IF t = from /\ r = to THEN moves[t][r] + 1 ELSE moves[t][r]
        BY <1>1, <1>4, <2>4 DEF Loads
      <4>1. CASE s = to
        <5>1. after(s) = [column(s) EXCEPT ![from] = @ + 1]
          BY <4>0, <4>1
        <5> HIDE DEF after, column
        <5> QED
          BY <3>1, <4>1, <5>1, TotalCounted
      <4>2. CASE s # to
        <5>1. after(s) = column(s)
          BY <4>0, <4>2
        <5> HIDE DEF after, column
        <5> QED
          BY <3>1, <4>2, <5>1
      <4> QED
        BY <4>1, <4>2
    <3> HIDE DEF after, column
    <3>4. \A s \in Shards : counts[s] = initial[s] - Planning!TotalOf(moves[s]) + Planning!TotalOf(column(s))
      BY <1>1 DEF Planning!CountsAddUp, column
    <3>5. \A s \in Shards :
              counts'[s] = initial[s] - Planning!TotalOf(moves'[s]) + Planning!TotalOf(after(s))
      BY <1>6, <2>7, <3>1, <3>2, <3>3, <3>4
    <3> QED
      BY <1>2, <3>5 DEF Planning!CountsAddUp, after
  <2> QED
    BY <2>6, <2>8, <2>9, <2>10, <2>11 DEF PlanInv
<1>11. CASE ~(counts[to] < K) /\ UNCHANGED <<counts, moves, stopped>>
  <2>1. \A s \in Shards : counts[s] >= K
    <3> HIDE DEF K, to
    <3> QED
      BY <1>4, <1>5, <1>6, <1>11
  <2>2. PlanTypes' /\ Gained' /\ Lowered' /\ Planning!CountsAddUp'
    BY <1>1, <1>2, <1>8, <1>11, <2>1 DEF PlanTypes, Gained, Lowered, Planning!CountsAddUp
  <2>3. stopped' = Planning!ImbalanceAtMost(counts, target)'
    BY <1>1, <1>2, <1>11
  <2>4. \A s \in Shards : left'[s] <= counts'[s]
    BY <1>1, <1>6, <1>8, <1>11
  <2>5. \A s \in Shards : left'[s] > 0 => Planning!Overloaded(initial, s)'
    BY <1>1, <1>6, <1>8, <1>9
  <2> QED
    BY <2>2, <2>3, <2>4, <2>5 DEF PlanInv, PlanLeft
<1> QED
  BY <1>3, <1>10, <1>11

\* The plan of a step that does not touch it.
LEMMA PlanUntouched ==
    ASSUME NEW from \in Shards, PlanInv, UNCHANGED planning
    PROVE  PlanInv'
  BY DEF planning, PlanInv, PlanTypes, PlanLeft, Gained, Lowered, Planning!CountsAddUp

PlanJob == job = "plan" => PlanInv

\* Every step of any job keeps the plan as it should be.
LEMMA PlanStep == PlanJob /\ [Next]_vars => PlanJob'
<1> SUFFICES ASSUME PlanJob, [Next]_vars, job' = "plan" PROVE PlanInv'
  BY DEF PlanJob
<1> USE StandaloneAssumption
<1>1. CASE Plan
  <2>1. PlanInv /\ Planning!Next
    BY <1>1 DEF Plan, PlanJob
  <2>2. PICK from \in Shards : Planning!Consider(from)
    BY <2>1 DEF Planning!Next
  <2> QED
    BY <2>1, <2>2, ConsiderKeeps
<1>2. CASE ~Plan
  <2>1. job = "plan" /\ UNCHANGED planning
    BY <1>2 DEF Next, vars, Query, Balance, Split, Generate, Measure
  <2>2. Shards # {}
    BY DEF StandaloneAssumption
  <2> QED
    BY <2>1, <2>2, PlanUntouched DEF PlanJob
<1> QED
  BY <1>1, <1>2

\* What the invariant says of a finished plan.
LEMMA PlanImproving == PlanJob => PlanImproves
<1> SUFFICES ASSUME PlanInv PROVE Planning!NeverWorse /\ Planning!PlanComplete /\ Planning!CountsAddUp
  BY DEF PlanJob, PlanImproves
<1> USE StandaloneAssumption
<1> DEFINE K == Planning!Ceiling(initial)
<1>1. /\ initial \in Loads /\ counts \in Loads /\ left \in Loads
      /\ stopped = Planning!ImbalanceAtMost(counts, target)
      /\ Gained /\ Lowered /\ Planning!CountsAddUp
  BY DEF PlanInv, PlanTypes, PlanLeft
<1>2. /\ K \in Nat /\ \A s \in Shards : Planning!Overloaded(initial, s) => K < initial[s]
      /\ \A s \in Shards : initial[s] \in Nat /\ counts[s] \in Nat /\ left[s] \in Nat
  BY <1>1, OverloadedIsAbove DEF Loads
<1>3. Planning!NeverWorse
  <2>1. \A s \in Shards : counts[s] > initial[s] =>
            counts[s] <= K /\ \E t \in Shards : Planning!Overloaded(initial, t)
    BY <1>1 DEF Gained
  <2> DEFINE m == Planning!MostLoaded(initial)
  <2>2. \A s \in Shards : initial[s] <= m
    BY <1>1, MostLoadedOf
  <2>3. m \in Nat
    BY <1>1, <1>2, MostLoadedOf
  <2>4. PICK s \in Shards : Planning!MostLoaded(counts) = counts[s]
    BY <1>1, MostLoadedOf
  <2> HIDE DEF K, m
  <2>5. counts[s] <= m
    <3>1. CASE counts[s] > initial[s]
      <4>1. PICK t \in Shards : K < initial[t]
        BY <1>2, <2>1, <3>1
      <4> QED
        BY <1>2, <2>1, <2>2, <2>3, <3>1, <4>1
    <3>2. CASE ~(counts[s] > initial[s])
      BY <1>2, <2>2, <2>3, <3>2
    <3> QED
      BY <3>1, <3>2
  <2> QED
    BY <2>1, <2>4, <2>5 DEF Planning!NeverWorse, K, m
<1>4. Planning!PlanComplete
  <2> SUFFICES ASSUME \A s \in Shards : left[s] = 0
               PROVE  \/ \A s \in Shards : counts[s] >= K
                      \/ \A s \in Shards : Planning!Overloaded(initial, s) => counts[s] <= K
    BY <1>1 DEF Planning!PlanComplete, Planning!Done
  <2>1. \/ \A s \in Shards : counts[s] >= K
        \/ \A s \in Shards : Planning!Overloaded(initial, s) => counts[s] <= left[s] \/ counts[s] <= K
    BY <1>1 DEF Lowered
  <2> HIDE DEF K
  <2> QED
    BY <1>2, <2>1
<1> QED
  BY <1>1, <1>3, <1>4

\* compute_rebalance_plan, for any distribution of users and any threshold: no move
\* makes the fullest shard fuller than it was at first, a finished plan reached the
\* threshold, or has no candidate left above the ceiling, or has filled every shard
\* to it, and the counts it reports are those its moves lead to.
THEOREM PlansImprove == Spec => []PlanImproves
<1>1. Init => PlanJob
  BY StandaloneAssumption, PlanStarts DEF Init, PlanJob
<1> QED
  BY <1>1, PlanStep, PlanImproving, PTL DEF Spec

-----------------------------------------------------------------------------
(* Measuring latencies *)

\* The number of samples, and of those up to a duration, as sums.
LEMMA CountIsSum == \A bag : Measuring!Count(bag) = SumOver(bag, DOMAIN bag)
  BY Zenon DEF Measuring!Count, Measuring!FoldFunction, Measuring!FoldFunctionOnSet,
                Measuring!MapThenFoldSet, SumOver, Sums

LEMMA AtMostIsSum ==
    \A bag, d : Measuring!AtMost(bag, d) = SumOver(bag, {e \in Durations : e <= d})
  BY Zenon DEF Measuring!AtMost, Measuring!FoldFunctionOnSet, Measuring!MapThenFoldSet, SumOver, Sums

\* More elements, no smaller a sum.
LEMMA SumMonotone ==
    ASSUME NEW f, NEW S, Valued(f, S), NEW A \in SUBSET S
    PROVE  SumOver(f, A) \in Nat /\ SumOver(f, A) <= SumOver(f, S)
<1> DEFINE G == Sums(f, S)
           T == {n \in Nat : \A B \in SUBSET S : A \subseteq B /\ Cardinality(B) <= n => G[A] <= G[B]}
<1>1. \A s \in SUBSET S : G[s] \in Nat /\ \A u \in s : G[s] = f[u] + G[s \ {u}]
  BY SumsAnyOrder
<1>2. IsFiniteSet(S) /\ \A u \in S : f[u] \in Nat
  BY DEF Valued
<1> HIDE DEF G
<1>3. ASSUME NEW s \in SUBSET S
      PROVE  /\ IsFiniteSet(s) /\ Cardinality(s) \in Nat
             /\ Cardinality(s) = 0 <=> s = {}
             /\ \A u \in s : Cardinality(s \ {u}) = Cardinality(s) - 1
  <2>1. IsFiniteSet(s)
    BY <1>2, FS_Subset
  <2>2. \A x \in s : Cardinality(s \ {x}) = Cardinality(s) - 1
    BY <2>1, FS_RemoveElement
  <2> QED
    BY <2>1, <2>2, FS_CardinalityType, FS_EmptySet
<1>4. 0 \in T
  <2> SUFFICES ASSUME NEW B \in SUBSET S, A \subseteq B, Cardinality(B) <= 0 PROVE G[A] <= G[B]
    OBVIOUS
  <2>1. A = B
    BY <1>3
  <2> QED
    BY <1>1, <2>1
<1>5. ASSUME NEW n \in Nat, n \in T PROVE n + 1 \in T
  <2> SUFFICES ASSUME NEW B \in SUBSET S, A \subseteq B, Cardinality(B) <= n + 1 PROVE G[A] <= G[B]
    OBVIOUS
  <2>1. CASE A = B
    BY <1>1, <2>1
  <2>2. CASE A # B
    <3>1. PICK u \in B : u \notin A
      BY <2>2
    <3>2. B \ {u} \in SUBSET S /\ A \subseteq B \ {u} /\ Cardinality(B \ {u}) <= n
      BY <1>3, <3>1
    <3>3. G[A] <= G[B \ {u}]
      BY <1>5, <3>2
    <3>4. G[B] = f[u] + G[B \ {u}] /\ f[u] \in Nat /\ G[B \ {u}] \in Nat /\ G[A] \in Nat
      BY <1>1, <1>2, <3>1, <3>2
    <3> QED
      BY <3>3, <3>4
  <2> QED
    BY <2>1, <2>2
<1>6. G[A] <= G[S] /\ G[A] \in Nat
  <2>1. Cardinality(S) \in Nat
    BY <1>3
  <2>2. Cardinality(S) \in T
    <3> HIDE DEF T
    <3> QED
      BY <1>4, <1>5, <2>1, Induction
  <2> QED
    BY <1>1, <2>1, <2>2
<1>7. SameValues(f, f, A)
  BY DEF SameValues
<1>8. SumOver(f, A) = G[A]
  BY <1>7, SumsAlike DEF G
<1> QED
  BY <1>6, <1>8 DEF SumOver, G

\* A bag of samples, and the durations up to d.
Samples == [Durations -> Nat]

Upto(d) == {x \in Durations : x <= d}

\* The durations are finitely many, so their samples can be counted.
LEMMA SamplesValued ==
    ASSUME StandaloneAssumption, NEW bag \in Samples
    PROVE  /\ \A D \in SUBSET Durations : Valued(bag, D)
           /\ DOMAIN bag = Durations
           /\ \A d \in Durations : bag[d] \in Nat
  BY FS_Subset DEF StandaloneAssumption, Samples, Valued

\* What AtMost counts grows with the duration, from one to the next by the
\* samples of that.
LEMMA AtMostGrows ==
    ASSUME StandaloneAssumption, NEW bag \in Samples
    PROVE  /\ Measuring!Count(bag) \in Nat
           /\ \A d \in Durations :
                  /\ Measuring!AtMost(bag, d) \in Nat
                  /\ Measuring!AtMost(bag, d) <= Measuring!Count(bag)
                  /\ bag[d] <= Measuring!AtMost(bag, d)
                  /\ \A e \in Durations : e < d =>
                         Measuring!AtMost(bag, e) <= Measuring!AtMost(bag, d) - bag[d]
<1> DEFINE Sum(D) == SumOver(bag, D)
<1>0. Durations \in SUBSET Nat
  BY DEF StandaloneAssumption
<1>1. /\ \A D \in SUBSET Durations : Valued(bag, D)
      /\ DOMAIN bag = Durations
      /\ \A d \in Durations : bag[d] \in Nat
  BY SamplesValued
<1>2. Measuring!Count(bag) = Sum(Durations) /\ \A d : Measuring!AtMost(bag, d) = Sum(Upto(d))
  BY <1>1, CountIsSum, AtMostIsSum DEF Upto
<1>3. Sum(Durations) \in Nat
  BY <1>1, SumNat
<1>4. ASSUME NEW d \in Durations
      PROVE  /\ Sum(Upto(d)) \in Nat /\ Sum(Upto(d)) <= Sum(Durations)
             /\ Sum(Upto(d)) = bag[d] + Sum(Upto(d) \ {d}) /\ Sum(Upto(d) \ {d}) \in Nat
             /\ \A e \in Durations : e < d => Sum(Upto(e)) \in Nat /\ Sum(Upto(e)) <= Sum(Upto(d) \ {d})
  <2>1. Upto(d) \in SUBSET Durations /\ d \in Upto(d)
    BY <1>0 DEF Upto
  <2>2. Sum(Upto(d)) \in Nat /\ Sum(Upto(d)) <= Sum(Durations)
    BY <1>1, <2>1, SumMonotone
  <2>3. Valued(bag, Upto(d)) /\ SameValues(bag, bag, Upto(d) \ {d})
    BY <1>1, <2>1 DEF SameValues
  <2>4. Sum(Upto(d)) = bag[d] + Sum(Upto(d) \ {d}) /\ Sum(Upto(d) \ {d}) \in Nat
    BY <2>1, <2>3, SumWithout
  <2>5. ASSUME NEW e \in Durations, e < d
        PROVE  Sum(Upto(e)) \in Nat /\ Sum(Upto(e)) <= Sum(Upto(d) \ {d})
    <3>1. Upto(e) \in SUBSET (Upto(d) \ {d})
      <4>1. d \in Nat /\ e \in Nat /\ \A x \in Durations : x \in Nat
        BY <1>0
      <4>2. \A x \in Durations : x <= e => x <= d /\ x # d
        BY <2>5, <4>1
      <4> QED
        BY <4>2 DEF Upto
    <3>2. Valued(bag, Upto(d) \ {d})
      <4> Upto(d) \ {d} \in SUBSET Durations
        BY <2>1
      <4> QED
        BY <1>1
    <3> QED
      BY <3>1, <3>2, SumMonotone
  <2> QED
    BY <2>2, <2>4, <2>5
<1>5. ASSUME NEW d \in Durations
      PROVE  /\ Sum(Upto(d)) \in Nat /\ Sum(Upto(d)) <= Sum(Durations) /\ bag[d] <= Sum(Upto(d))
             /\ \A e \in Durations : e < d => Sum(Upto(e)) <= Sum(Upto(d)) - bag[d]
  <2> DEFINE rest == Sum(Upto(d) \ {d})
  <2>1. bag[d] \in Nat
    BY <1>1
  <2>2. /\ Sum(Upto(d)) \in Nat /\ Sum(Upto(d)) <= Sum(Durations)
        /\ Sum(Upto(d)) = bag[d] + rest /\ rest \in Nat
        /\ \A e \in Durations : e < d => Sum(Upto(e)) \in Nat /\ Sum(Upto(e)) <= rest
    BY <1>4
  <2> HIDE DEF Sum, rest
  <2> QED
    BY <2>1, <2>2
<1> HIDE DEF Sum
<1> QED
  BY <1>2, <1>3, <1>5

\* Without the samples of the duration itself.
LEMMA AtMostLess ==
    ASSUME StandaloneAssumption, NEW bag \in Samples, NEW d \in Durations
    PROVE  /\ Measuring!AtMost(bag, d) - bag[d] = SumOver(bag, Upto(d) \ {d})
           /\ \A e \in Durations : Measuring!AtMost(bag, e) = SumOver(bag, Upto(e))
<1>1. Upto(d) \in SUBSET Durations /\ d \in Upto(d)
  BY DEF Upto, StandaloneAssumption
<1>2. Valued(bag, Upto(d)) /\ SameValues(bag, bag, Upto(d) \ {d})
  BY <1>1, SamplesValued DEF SameValues
<1> DEFINE rest == SumOver(bag, Upto(d) \ {d})
<1>3. SumOver(bag, Upto(d)) = bag[d] + rest /\ rest \in Nat /\ bag[d] \in Nat
  <2>1. d \in Upto(d)
    BY <1>1
  <2> QED
    BY <1>2, <2>1, SumWithout
<1>4. \A e : Measuring!AtMost(bag, e) = SumOver(bag, Upto(e))
  BY AtMostIsSum DEF Upto
<1> HIDE DEF rest
<1> QED
  BY <1>3, <1>4 DEF rest

\* A finite, nonempty set of natural numbers has a greatest.
LEMMA GreatestNumber ==
    ASSUME NEW T \in SUBSET Nat, T # {}, IsFiniteSet(T)
    PROVE  \E n \in T : \A m \in T : m <= n
<1> DEFINE f == [x \in T |-> x]
           Above == {k \in Nat : \A m \in T : m <= k}
<1>1. Valued(f, T)
  BY DEF Valued
<1>2. ASSUME NEW m \in T PROVE m <= SumOver(f, T) /\ SumOver(f, T) \in Nat
  <2>1. SameValues(f, f, T \ {m}) /\ f[m] = m
    BY DEF SameValues
  <2> DEFINE rest == SumOver(f, T \ {m})
  <2> HIDE DEF f
  <2>2. SumOver(f, T) = f[m] + rest /\ rest \in Nat /\ f[m] \in Nat
    BY <1>1, <2>1, SumWithout
  <2> HIDE DEF rest
  <2> QED
    BY <2>1, <2>2
<1> HIDE DEF f
<1>3. PICK k \in Above : \A j \in Above : k <= j
  <2>1. Above \in SUBSET Nat /\ Above # {}
    BY <1>2
  <2> HIDE DEF Above
  <2> QED
    BY <2>1, LeastNumber
<1>4. k \in T
  <2> SUFFICES ASSUME k \notin T PROVE FALSE
    OBVIOUS
  <2>1. k \in Nat /\ \A m \in T : m \in Nat /\ m <= k /\ m # k
    BY <1>3
  <2>2. PICK m \in T : m \in Nat
    OBVIOUS
  <2>3. k # 0
    BY <2>1, <2>2
  <2>4. k - 1 \in Above
    BY <2>1, <2>3
  <2> QED
    BY <1>3, <2>1, <2>3, <2>4
<1> QED
  BY <1>3, <1>4

\* The sorted samples have one at each position.
LEMMA SampleFound ==
    ASSUME StandaloneAssumption, NEW bag \in Samples, NEW k \in 1 .. Measuring!Count(bag)
    PROVE  /\ Measuring!SampleAt(bag, k) \in Durations
           /\ k <= Measuring!AtMost(bag, Measuring!SampleAt(bag, k))
           /\ \A e \in Durations : e < Measuring!SampleAt(bag, k) => Measuring!AtMost(bag, e) < k
<1> DEFINE A(d) == Measuring!AtMost(bag, d)
           N == Measuring!Count(bag)
           Enough == {d \in Durations : k <= A(d)}
<1>0. Durations \in SUBSET Nat /\ Durations # {} /\ IsFiniteSet(Durations)
  BY DEF StandaloneAssumption
<1>1. /\ N \in Nat
      /\ \A d \in Durations : A(d) \in Nat /\ A(d) <= N /\ bag[d] \in Nat /\ bag[d] <= A(d)
      /\ \A d \in Durations : \A e \in Durations : e < d => A(e) <= A(d) - bag[d]
  BY AtMostGrows, SamplesValued
<1>2. Enough # {}
  <2>1. PICK d \in Durations : \A e \in Durations : e <= d
    BY <1>0, GreatestNumber
  <2>2. Upto(d) = Durations
    BY <2>1 DEF Upto
  <2>3. A(d) = N
    BY <2>2, SamplesValued, CountIsSum, AtMostIsSum DEF Upto
  <2>4. k <= A(d)
    BY <1>1, <2>3
  <2> QED
    BY <2>1, <2>4
<1> HIDE DEF N
<1>3. PICK d \in Enough : \A e \in Enough : d <= e
  <2>1. Enough \in SUBSET Nat
    BY <1>0
  <2> HIDE DEF Enough
  <2> QED
    BY <1>2, <2>1, LeastNumber
<1>4. \A e \in Durations : e < d => A(e) < k
  <2> SUFFICES ASSUME NEW e \in Durations, e < d PROVE A(e) < k
    OBVIOUS
  <2>1. e \notin Enough /\ d \in Nat /\ e \in Nat
    BY <1>0, <1>3
  <2>2. A(e) \in Nat /\ k \in Nat
    BY <1>1
  <2> HIDE DEF A
  <2> QED
    BY <2>1, <2>2
<1>10. d \in Durations /\ d \in Nat /\ \A x \in Durations : x \in Nat
  BY <1>0, <1>3
<1>5. A(d) - bag[d] < k
  <2>1. CASE \E e \in Durations : e < d
    <3> DEFINE Lower == {e \in Durations : e < d}
    <3>1. Lower \in SUBSET Nat /\ Lower # {} /\ IsFiniteSet(Lower)
      BY <1>0, <2>1, FS_Subset
    <3> HIDE DEF Lower
    <3>2. PICK e \in Lower : \A x \in Lower : x <= e
      BY <3>1, GreatestNumber
    <3>3. Upto(d) \ {d} = Upto(e)
      <4>1. e \in Durations /\ e \in Nat /\ e < d /\ \A x \in Durations : x < d => x <= e
        BY <1>10, <3>2 DEF Lower
      <4>2. \A x \in Durations : (x <= d /\ x # d) <=> x <= e
        BY <1>10, <4>1
      <4> QED
        BY <4>2 DEF Upto
    <3>4. A(e) = A(d) - bag[d]
      <4>1. e \in Durations
        BY <3>2 DEF Lower
      <4> QED
        BY <1>10, <3>3, <4>1, AtMostLess
    <3>5. A(e) < k
      BY <1>4, <3>2 DEF Lower
    <3> QED
      BY <3>4, <3>5
  <2>2. CASE ~\E e \in Durations : e < d
    <3>1. Upto(d) \ {d} = {}
      <4>1. \A x \in Durations : ~(x <= d /\ x # d)
        BY <1>10, <2>2
      <4> QED
        BY <4>1 DEF Upto
    <3>2. A(d) - bag[d] = 0
      BY <1>10, <3>1, AtMostLess, SumEmpty
    <3> QED
      BY <3>2
  <2> QED
    BY <2>1, <2>2
<1> DEFINE Is(e) == bag[e] > 0 /\ k <= A(e) /\ A(e) - bag[e] < k
<1>6. Is(d) /\ d \in Durations
  <2>1. A(d) \in Nat /\ bag[d] \in Nat /\ k \in Nat /\ k <= A(d) /\ d \in Durations
    BY <1>1, <1>3
  <2> HIDE DEF A
  <2> QED
    BY <1>5, <2>1
<1> DEFINE r == CHOOSE e \in Durations : Is(e)
<1>7. r \in Durations /\ Is(r)
  BY <1>6, Zenon
<1>8. Measuring!SampleAt(bag, k) = r
  BY DEF Measuring!SampleAt
<1>9. \A e \in Durations : e < r => A(e) < k
  <2>1. \A e \in Durations : e < r => A(e) <= A(r) - bag[r]
    BY <1>1, <1>7
  <2>2. A(r) \in Nat /\ bag[r] \in Nat /\ k \in Nat /\ \A e \in Durations : A(e) \in Nat
    <3>1. r \in Durations
      BY <1>7
    <3> HIDE DEF r
    <3> QED
      BY <1>1, <3>1
  <2>3. A(r) - bag[r] < k
    BY <1>7
  <2> HIDE DEF r, A
  <2> QED
    BY <2>1, <2>2, <2>3
<1> QED
  BY <1>7, <1>8, <1>9

\* Quotient and rest, which no other numbers are.
LEMMA DivMod ==
    ASSUME NEW p \in Nat, NEW n \in Nat, n > 0
    PROVE  /\ p \div n \in Nat /\ p % n \in Nat /\ p % n < n
           /\ p = n * (p \div n) + (p % n)
  OBVIOUS

LEMMA OnlyOneDivMod ==
    ASSUME NEW n \in Nat, n > 0, NEW q \in Nat, NEW m \in Nat, m < n, NEW r \in Nat, NEW l \in Nat, l < n,
           n * q + m = n * r + l
    PROVE  q = r /\ m = l
<1>1. ASSUME q < r PROVE FALSE
  <2>1. n * r >= n * (q + 1)
    BY <1>1
  <2>2. n * (q + 1) = n * q + n
    OBVIOUS
  <2> QED
    BY <2>1, <2>2
<1>2. ASSUME r < q PROVE FALSE
  <2>1. n * q >= n * (r + 1)
    BY <1>2
  <2>2. n * (r + 1) = n * r + n
    OBVIOUS
  <2> QED
    BY <2>1, <2>2
<1>3. q = r
  BY <1>1, <1>2
<1> QED
  BY <1>3

\* The pair after this one: the next source, or the first of the next repetition.
LEMMA NextPair ==
    ASSUME NEW p \in Nat, NEW n \in Nat, n > 0
    PROVE  /\ (p % n) + 1 < n => (p + 1) \div n = p \div n /\ (p + 1) % n = (p % n) + 1
           /\ (p % n) + 1 = n => (p + 1) \div n = p \div n + 1 /\ (p + 1) % n = 0
<1> DEFINE q == p \div n
           m == p % n
           r == (p + 1) \div n
           l == (p + 1) % n
<1>1. q \in Nat /\ m \in Nat /\ m < n /\ p = n * q + m
  BY DivMod
<1>2. r \in Nat /\ l \in Nat /\ l < n /\ p + 1 = n * r + l
  <2>1. p + 1 \in Nat
    OBVIOUS
  <2> QED
    BY <2>1, DivMod
<1> HIDE DEF q, m, r, l
<1>3. CASE m + 1 < n
  <2>1. n * r + l = n * q + (m + 1)
    BY <1>1, <1>2
  <2>2. m + 1 \in Nat
    BY <1>1
  <2>3. r = q /\ l = m + 1
    BY <1>1, <1>2, <1>3, <2>1, <2>2, OnlyOneDivMod
  <2> QED
    BY <1>1, <1>3, <2>3 DEF q, m, r, l
<1>4. CASE m + 1 = n
  <2>1. n * r + l = n * (q + 1) + 0
    <3>1. n * (q + 1) = n * q + n
      BY <1>1
    <3>2. n * q \in Nat /\ n * r \in Nat /\ n * (q + 1) \in Nat
      BY <1>1, <1>2
    <3> QED
      BY <1>1, <1>2, <1>4, <3>1, <3>2
  <2>2. q + 1 \in Nat
    BY <1>1
  <2>3. r = q + 1 /\ l = 0
    BY <1>1, <1>2, <2>1, <2>2, OnlyOneDivMod
  <2> QED
    BY <1>1, <1>4, <2>3 DEF q, m, r, l
<1> QED
  BY <1>1, <1>3, <1>4 DEF q, m, r, l

\* The pairs of a source that direct began, less those that batched did, when r
\* repetitions are over and m pairs of the next begun.
LeadAt(r, m, i) ==
    IF (IF i < m THEN r + 1 ELSE r) % 2 = 0 THEN 0 ELSE IF i % 2 = 0 THEN 1 ELSE -1

\* The same over all n sources.
AheadAt(n, r, m) == IF r % 2 = 0 THEN m % 2 ELSE (n % 2) - (m % 2)

\* How many pairs each strategy began, per source.
Firsts(n) == [Measuring!Strategies -> [0 .. n - 1 -> Nat]]

BalancedAt(f, n, r, m) ==
    /\ \A i \in 0 .. n - 1 : f["direct"][i] - f["batched"][i] = LeadAt(r, m, i)
    /\ Measuring!Count(f["direct"]) - Measuring!Count(f["batched"]) = AheadAt(n, r, m)

\* One more pair begun with a source.
LEMMA CountedOnce ==
    ASSUME NEW S, IsFiniteSet(S), NEW bag \in [S -> Nat], NEW x \in S
    PROVE  /\ Measuring!Count([bag EXCEPT ![x] = @ + 1]) = Measuring!Count(bag) + 1
           /\ Measuring!Count(bag) \in Nat
<1> DEFINE d == [bag EXCEPT ![x] = @ + 1]
<1>1. /\ bag[x] \in Nat /\ d[x] = bag[x] + 1 /\ d[x] \in Nat /\ DOMAIN d = S /\ DOMAIN bag = S
  OBVIOUS
<1>2. SameValues(bag, d, S \ {x})
  BY DEF SameValues
<1>3. Valued(bag, S)
  BY DEF Valued
<1>4. Measuring!Count(d) = SumOver(d, S) /\ Measuring!Count(bag) = SumOver(bag, S)
  BY <1>1, CountIsSum
<1>5. SumOver(bag, S) \in Nat
  BY <1>3, SumNat
<1> HIDE DEF d
<1>6. SumOver(d, S) = SumOver(bag, S) - bag[x] + d[x]
  BY <1>1, <1>2, <1>3, SumChanged
<1> QED
  BY <1>1, <1>4, <1>5, <1>6 DEF d

\* The sources are finitely many.
LEMMA SourcesFinite ==
    ASSUME NEW n \in Nat
    PROVE  IsFiniteSet(0 .. n - 1)
  BY FS_Interval

\* No pair has begun.
LEMMA CountOfZeros ==
    ASSUME NEW S, IsFiniteSet(S)
    PROVE  Measuring!Count([x \in S |-> 0]) = 0
  BY SumOfZeros, CountIsSum

\* The two strategies.
LEMMA StrategiesAre == Measuring!Strategies = {"direct", "batched"} /\ Measuring!None = "none"
  BY DEF Measuring!Strategies, Measuring!None

\* From one source to the next, who is ahead changes as LeadAt and AheadAt say.
LEMMA BalancedBegins ==
    ASSUME NEW n \in Nat, NEW r \in Nat, NEW m \in 0 .. n - 1, NEW f \in Firsts(n), BalancedAt(f, n, r, m),
           NEW s, s = (IF (r + m) % 2 = 0 THEN "direct" ELSE "batched")
    PROVE  BalancedAt([f EXCEPT ![s][m] = @ + 1], n, r, m + 1)
<1> DEFINE g == [f EXCEPT ![s][m] = @ + 1]
           I == 0 .. n - 1
<1>1. /\ f["direct"] \in [I -> Nat] /\ f["batched"] \in [I -> Nat] /\ s \in {"direct", "batched"}
      /\ g["direct"] = IF s = "direct" THEN [f["direct"] EXCEPT ![m] = @ + 1] ELSE f["direct"]
      /\ g["batched"] = IF s = "batched" THEN [f["batched"] EXCEPT ![m] = @ + 1] ELSE f["batched"]
  BY StrategiesAre DEF Firsts
<1>2. \A i \in I : f["direct"][i] - f["batched"][i] = LeadAt(r, m, i)
  BY DEF BalancedAt
<1>3. Measuring!Count(f["direct"]) - Measuring!Count(f["batched"]) = AheadAt(n, r, m)
  BY DEF BalancedAt
<1>4. IsFiniteSet(I) /\ m \in I /\ m \in Nat
  BY SourcesFinite
<1> HIDE DEF g, I
<1> DEFINE a == Measuring!Count(f["direct"])
           b == Measuring!Count(f["batched"])
<1>5. /\ Measuring!Count([f["direct"] EXCEPT ![m] = @ + 1]) = a + 1 /\ a \in Nat
      /\ Measuring!Count([f["batched"] EXCEPT ![m] = @ + 1]) = b + 1 /\ b \in Nat
  <2>1. ASSUME NEW bag \in [I -> Nat]
        PROVE  /\ Measuring!Count([bag EXCEPT ![m] = @ + 1]) = Measuring!Count(bag) + 1
               /\ Measuring!Count(bag) \in Nat
    BY <1>4, <2>1, CountedOnce
  <2> QED
    BY <1>1, <2>1
<1>6. /\ Measuring!Count(g["direct"]) = a + IF s = "direct" THEN 1 ELSE 0
      /\ Measuring!Count(g["batched"]) = b + IF s = "batched" THEN 1 ELSE 0
  BY <1>1, <1>5
<1>7. Measuring!Count(g["direct"]) - Measuring!Count(g["batched"]) = AheadAt(n, r, m + 1)
  <2> HIDE DEF a, b
  <2>1. a - b = AheadAt(n, r, m)
    BY <1>3 DEF a, b
  <2>4. /\ (m + 1) % 2 = 1 - (m % 2) /\ m % 2 \in {0, 1} /\ r % 2 \in {0, 1} /\ n % 2 \in {0, 1}
        /\ (r + m) % 2 = 0 <=> r % 2 = m % 2
    BY <1>4
  <2>2. CASE s = "direct"
    <3>1. (r + m) % 2 = 0 /\ s # "batched"
      BY <2>2
    <3>2. Measuring!Count(g["direct"]) - Measuring!Count(g["batched"]) = a - b + 1
      BY <1>5, <1>6, <2>2, <3>1
    <3>3. AheadAt(n, r, m + 1) = AheadAt(n, r, m) + 1
      BY <2>4, <3>1 DEF AheadAt
    <3> QED
      BY <2>1, <3>2, <3>3
  <2>3. CASE s = "batched"
    <3>1. (r + m) % 2 = 1 /\ s # "direct"
      BY <1>4, <2>3
    <3>2. Measuring!Count(g["direct"]) - Measuring!Count(g["batched"]) = a - b - 1
      BY <1>5, <1>6, <2>3, <3>1
    <3>3. AheadAt(n, r, m + 1) = AheadAt(n, r, m) - 1
      BY <2>4, <3>1 DEF AheadAt
    <3> QED
      BY <2>1, <3>2, <3>3
  <2> QED
    BY <1>1, <2>2, <2>3
<1>8. ASSUME NEW i \in I PROVE g["direct"][i] - g["batched"][i] = LeadAt(r, m + 1, i)
  <2> DEFINE x == f["direct"][i]
             y == f["batched"][i]
  <2>1. x \in Nat /\ y \in Nat /\ x - y = LeadAt(r, m, i) /\ i \in Nat
    BY <1>1, <1>2 DEF I
  <2>2. /\ g["direct"][i] = x + IF s = "direct" /\ i = m THEN 1 ELSE 0
        /\ g["batched"][i] = y + IF s = "batched" /\ i = m THEN 1 ELSE 0
    BY <1>1, <2>1
  <2> HIDE DEF x, y
  <2>3. CASE i = m
    <3>1. x - y = IF r % 2 = 0 THEN 0 ELSE IF m % 2 = 0 THEN 1 ELSE -1
      BY <1>4, <2>1, <2>3 DEF LeadAt
    <3>2. LeadAt(r, m + 1, i) = IF (r + 1) % 2 = 0 THEN 0 ELSE IF m % 2 = 0 THEN 1 ELSE -1
      BY <1>4, <2>3 DEF LeadAt
    <3>3. CASE s = "direct"
      <4>1. (r + m) % 2 = 0 /\ s # "batched"
        BY <3>3
      <4>2. g["direct"][i] - g["batched"][i] = x - y + 1
        BY <2>1, <2>2, <2>3, <3>3, <4>1
      <4> QED
        BY <1>4, <3>1, <3>2, <4>1, <4>2
    <3>4. CASE s = "batched"
      <4>1. (r + m) % 2 = 1 /\ s # "direct"
        BY <1>4, <3>4
      <4>2. g["direct"][i] - g["batched"][i] = x - y - 1
        BY <2>1, <2>2, <2>3, <3>4, <4>1
      <4> QED
        BY <1>4, <3>1, <3>2, <4>1, <4>2
    <3> QED
      BY <1>1, <3>3, <3>4
  <2>4. CASE i # m
    <3>1. LeadAt(r, m + 1, i) = LeadAt(r, m, i)
      BY <1>4, <2>1, <2>4 DEF LeadAt
    <3>2. g["direct"][i] = x /\ g["batched"][i] = y
      BY <2>1, <2>2, <2>4
    <3> QED
      BY <2>1, <3>1, <3>2
  <2> QED
    BY <2>3, <2>4
<1> QED
  BY <1>7, <1>8 DEF BalancedAt, g, I

\* A repetition that is over is the start of the next.
LEMMA RoundEnds ==
    ASSUME NEW n \in Nat, NEW r \in Nat, NEW f \in Firsts(n), BalancedAt(f, n, r, n)
    PROVE  BalancedAt(f, n, r + 1, 0)
<1>1. \A i \in 0 .. n - 1 : LeadAt(r, n, i) = LeadAt(r + 1, 0, i)
  BY DEF LeadAt
<1>2. AheadAt(n, r, n) = AheadAt(n, r + 1, 0)
  BY DEF AheadAt
<1> QED
  BY <1>1, <1>2 DEF BalancedAt

\* Neither is ever ahead by more than one.
LEMMA BalancedWithinOne ==
    ASSUME NEW n \in Nat, NEW r \in Nat, NEW m \in Nat, NEW f, BalancedAt(f, n, r, m)
    PROVE  /\ Measuring!Count(f["direct"]) - Measuring!Count(f["batched"]) \in -1 .. 1
           /\ \A i \in 0 .. n - 1 : f["direct"][i] - f["batched"][i] \in -1 .. 1
<1>1. AheadAt(n, r, m) \in -1 .. 1
  BY DEF AheadAt
<1>2. \A i \in 0 .. n - 1 : LeadAt(r, m, i) \in -1 .. 1
  BY DEF LeadAt
<1> QED
  BY <1>1, <1>2 DEF BalancedAt

Begun == IF started = Measuring!None THEN 0 ELSE 1

\* The invariant of measuring, part by part.
MeasureTypes ==
    /\ sources \in Nat /\ repetitions \in Nat /\ pair \in Nat
    /\ started \in Measuring!Strategies \cup {Measuring!None}
    /\ samples \in [Measuring!Strategies -> Samples]
    /\ firsts \in Firsts(sources)

Progress ==
    /\ phase \in {"called", "refused"} => pair = 0 /\ started = Measuring!None
    /\ phase \notin {"called", "refused"} => sources > 0 /\ repetitions > 0
    /\ phase = "summarized" => pair = sources * repetitions
    /\ started # Measuring!None => pair < sources * repetitions

Sampled ==
    \A s \in Measuring!Strategies :
        Measuring!Count(samples[s]) = pair + IF started = s THEN 1 ELSE 0

Balanced ==
    /\ sources = 0 => Measuring!Count(firsts["direct"]) = 0 /\ Measuring!Count(firsts["batched"]) = 0
    /\ sources > 0 => BalancedAt(firsts, sources, Measuring!Repetition, Measuring!SourceIndex + Begun)

MeasureInv == MeasureTypes /\ Progress /\ Sampled /\ Balanced

\* A new measurement.
LEMMA MeasureStarts == StandaloneAssumption /\ Measuring!Init => MeasureInv
<1> SUFFICES ASSUME StandaloneAssumption, Measuring!Init PROVE MeasureInv
  OBVIOUS
<1> DEFINE none == [d \in Durations |-> 0]
           never == [i \in 0 .. sources - 1 |-> 0]
<1>1. /\ sources \in Nat /\ repetitions \in Nat /\ pair = 0 /\ started = Measuring!None
      /\ samples = [s \in Measuring!Strategies |-> none]
      /\ firsts = [s \in Measuring!Strategies |-> never]
      /\ phase = "called"
  BY DEF Measuring!Init, StandaloneAssumption
<1>2. none \in Samples /\ never \in [0 .. sources - 1 -> Nat]
  BY DEF Samples
<1>3. Measuring!Count(none) = 0 /\ Measuring!Count(never) = 0
  <2>1. IsFiniteSet(Durations) /\ IsFiniteSet(0 .. sources - 1)
    BY <1>1, SourcesFinite DEF StandaloneAssumption
  <2> QED
    BY <2>1, CountOfZeros
<1>4. \A i \in 0 .. sources - 1 : never[i] = 0
  OBVIOUS
<1> HIDE DEF none, never
<1>5. MeasureTypes /\ Progress
  BY <1>1, <1>2 DEF MeasureTypes, Progress, Firsts
<1>6. Sampled
  BY <1>1, <1>3, StrategiesAre DEF Sampled
<1>7. firsts["direct"] = never /\ firsts["batched"] = never
  BY <1>1, StrategiesAre
<1>8. ASSUME sources > 0
      PROVE  BalancedAt(firsts, sources, Measuring!Repetition, Measuring!SourceIndex + Begun)
  <2>1. 0 = sources * 0 + 0
    BY <1>1
  <2>2. /\ 0 \div sources \in Nat /\ 0 % sources \in Nat /\ 0 % sources < sources
        /\ 0 = sources * (0 \div sources) + (0 % sources)
    BY <1>1, <1>8, DivMod
  <2>3. 0 \div sources = 0 /\ 0 % sources = 0
    BY <1>1, <1>8, <2>1, <2>2, OnlyOneDivMod
  <2>4. Measuring!Repetition = 0 /\ Measuring!SourceIndex + Begun = 0
    BY <1>1, <2>3 DEF Measuring!Repetition, Measuring!SourceIndex, Begun
  <2>5. BalancedAt(firsts, sources, 0, 0)
    <3>1. \A i \in 0 .. sources - 1 : LeadAt(0, 0, i) = 0
      BY DEF LeadAt
    <3>2. AheadAt(sources, 0, 0) = 0
      BY DEF AheadAt
    <3> QED
      BY <1>3, <1>4, <1>7, <3>1, <3>2 DEF BalancedAt
  <2> QED
    BY <2>4, <2>5
<1> QED
  BY <1>3, <1>5, <1>6, <1>7, <1>8 DEF MeasureInv, Balanced

\* The steps that take no sample.
LEMMA MeasureRest ==
    ASSUME MeasureInv, UNCHANGED <<sources, repetitions, pair, started, samples, firsts>>, Progress'
    PROVE  MeasureInv'
  BY DEF MeasureInv, MeasureTypes, Sampled, Balanced, Begun, Measuring!Repetition, Measuring!SourceIndex

\* One more sample of e in the bag of w.
Taken(f, g, w, e) == g = [f EXCEPT ![w][e] = @ + 1]

\* One more sample.
LEMMA TookOne ==
    ASSUME StandaloneAssumption, NEW f \in [Measuring!Strategies -> Samples],
           NEW w \in Measuring!Strategies, NEW e \in Durations,
           NEW g, Taken(f, g, w, e)
    PROVE  /\ g \in [Measuring!Strategies -> Samples]
           /\ Measuring!Count(g[w]) = Measuring!Count(f[w]) + 1
           /\ \A v \in Measuring!Strategies : v # w => Measuring!Count(g[v]) = Measuring!Count(f[v])
<1>0. g = [f EXCEPT ![w][e] = @ + 1]
  BY DEF Taken
<1>1. f[w] \in Samples /\ [f[w] EXCEPT ![e] = @ + 1] \in Samples
  BY DEF Samples
<1>2. g[w] = [f[w] EXCEPT ![e] = @ + 1]
  BY <1>0
<1>3. Measuring!Count(g[w]) = Measuring!Count(f[w]) + 1
  <2>1. f[w] \in [Durations -> Nat] /\ IsFiniteSet(Durations)
    BY <1>1 DEF Samples, StandaloneAssumption
  <2> DEFINE bag == f[w]
  <2> HIDE DEF bag
  <2>2. Measuring!Count([bag EXCEPT ![e] = @ + 1]) = Measuring!Count(bag) + 1
    BY <2>1, CountedOnce DEF bag
  <2> QED
    BY <1>2, <2>2 DEF bag
<1>4. \A v \in Measuring!Strategies : v # w => g[v] = f[v]
  BY <1>0
<1>5. g \in [Measuring!Strategies -> Samples]
  BY <1>0, <1>1
<1> QED
  BY <1>3, <1>4, <1>5

\* The repetition and the source of the pair under way.
LEMMA IndexFacts ==
    ASSUME MeasureInv, sources > 0
    PROVE  /\ Measuring!Repetition \in Nat
           /\ Measuring!SourceIndex \in Nat /\ Measuring!SourceIndex \in 0 .. sources - 1
<1>1. pair \in Nat /\ sources \in Nat
  BY DEF MeasureInv, MeasureTypes
<1>2. pair \div sources \in Nat /\ pair % sources \in Nat /\ pair % sources < sources
  BY <1>1, DivMod
<1> QED
  BY <1>1, <1>2 DEF Measuring!Repetition, Measuring!SourceIndex

\* The first query of a pair.
LEMMA MeasureFirstKeeps ==
    ASSUME StandaloneAssumption, MeasureInv, NEW d \in Durations, Measuring!MeasureFirst(d)
    PROVE  MeasureInv'
<1>1. /\ phase = "measuring" /\ started = Measuring!None /\ pair < sources * repetitions
      /\ samples' = [samples EXCEPT ![Measuring!First][d] = @ + 1]
      /\ firsts' = [firsts EXCEPT ![Measuring!First][Measuring!SourceIndex] = @ + 1]
      /\ started' = Measuring!First
      /\ sources' = sources /\ repetitions' = repetitions /\ pair' = pair /\ phase' = phase
  BY DEF Measuring!MeasureFirst, Measuring!Took
<1>2. MeasureTypes /\ Progress /\ Sampled /\ Balanced
  BY DEF MeasureInv
<1>3. sources > 0 /\ sources \in Nat
  BY <1>1, <1>2 DEF Progress, MeasureTypes
<1> DEFINE r == Measuring!Repetition
           m == Measuring!SourceIndex
           s == Measuring!First
<1>4. r \in Nat /\ m \in 0 .. sources - 1 /\ m \in Nat
  BY <1>3, IndexFacts
<1>5. s = (IF (r + m) % 2 = 0 THEN "direct" ELSE "batched") /\ s \in Measuring!Strategies
      /\ s # Measuring!None
  BY StrategiesAre DEF Measuring!First
<1>6. BalancedAt(firsts, sources, r, m)
  BY <1>1, <1>2, <1>3, <1>4 DEF Balanced, Begun
<1>7. firsts \in Firsts(sources) /\ samples \in [Measuring!Strategies -> Samples]
  BY <1>2 DEF MeasureTypes
<1>8. r' = r /\ (m + Begun)' = m + 1
  BY <1>1, <1>5 DEF Measuring!Repetition, Measuring!SourceIndex, Begun
<1> HIDE DEF r, m, s
<1>9. BalancedAt(firsts', sources, r, m + 1)
  BY <1>1, <1>3, <1>4, <1>5, <1>6, <1>7, BalancedBegins DEF s, m
<1>10. firsts' \in Firsts(sources)
  <2>1. firsts' = [firsts EXCEPT ![s][m] = @ + 1]
    BY <1>1 DEF s, m
  <2>2. [firsts[s] EXCEPT ![m] = @ + 1] \in [0 .. sources - 1 -> Nat]
    <3>1. firsts[s] \in [0 .. sources - 1 -> Nat]
      BY <1>5, <1>7 DEF Firsts
    <3>2. \A S : \A h \in [S -> Nat], x \in S : [h EXCEPT ![x] = @ + 1] \in [S -> Nat]
      OBVIOUS
    <3> QED
      BY <1>4, <3>1, <3>2
  <2> QED
    BY <1>5, <1>7, <2>1, <2>2 DEF Firsts
<1>11. /\ samples' \in [Measuring!Strategies -> Samples]
       /\ \A t \in Measuring!Strategies :
              Measuring!Count(samples'[t]) =
                  IF t = s THEN Measuring!Count(samples[t]) + 1 ELSE Measuring!Count(samples[t])
  <2>1. Taken(samples, samples', s, d)
    BY <1>1 DEF Taken, s
  <2>2. /\ samples' \in [Measuring!Strategies -> Samples]
        /\ Measuring!Count(samples'[s]) = Measuring!Count(samples[s]) + 1
        /\ \A t \in Measuring!Strategies :
               t # s => Measuring!Count(samples'[t]) = Measuring!Count(samples[t])
    BY <1>5, <1>7, <2>1, TookOne
  <2> QED
    BY <2>2
<1>12. started' = s
  BY <1>1 DEF s
<1>13. MeasureTypes'
  BY <1>1, <1>2, <1>5, <1>10, <1>11, <1>12, StrategiesAre DEF MeasureTypes
<1>14. Progress'
  BY <1>1, <1>2 DEF Progress
<1>15. Sampled'
  <2>1. \A t \in Measuring!Strategies : Measuring!Count(samples[t]) = pair /\ t # Measuring!None
    BY <1>1, <1>2, StrategiesAre DEF Sampled, MeasureTypes
  <2>2. \A t \in Measuring!Strategies : Measuring!Count(samples'[t]) = pair + IF s = t THEN 1 ELSE 0
    <3>1. pair \in Nat
      BY <1>2 DEF MeasureTypes
    <3> QED
      BY <1>11, <2>1, <3>1
  <2> QED
    BY <1>1, <1>12, <2>2, StrategiesAre DEF Sampled, Measuring!Strategies
<1>16. Balanced'
  <2>1. BalancedAt(firsts', sources', r', (m + Begun)')
    BY <1>1, <1>8, <1>9
  <2> QED
    BY <1>1, <1>3, <2>1 DEF Balanced, r, m
<1> QED
  BY <1>13, <1>14, <1>15, <1>16 DEF MeasureInv

\* The second query of a pair.
LEMMA MeasureSecondKeeps ==
    ASSUME StandaloneAssumption, MeasureInv, NEW d \in Durations, Measuring!MeasureSecond(d)
    PROVE  MeasureInv'
<1>1. PICK s \in Measuring!Strategies \ {started} : samples' = [samples EXCEPT ![s][d] = @ + 1]
  BY DEF Measuring!MeasureSecond, Measuring!Took
<1>2. /\ phase = "measuring" /\ started # Measuring!None
      /\ started' = Measuring!None /\ pair' = pair + 1
      /\ sources' = sources /\ repetitions' = repetitions /\ firsts' = firsts /\ phase' = phase
  BY DEF Measuring!MeasureSecond
<1>3. MeasureTypes /\ Progress /\ Sampled /\ Balanced
  BY DEF MeasureInv
<1>4. sources > 0 /\ sources \in Nat /\ pair \in Nat /\ repetitions \in Nat
  BY <1>2, <1>3 DEF Progress, MeasureTypes
<1> DEFINE r == Measuring!Repetition
           m == Measuring!SourceIndex
<1>5. r \in Nat /\ m \in 0 .. sources - 1 /\ m \in Nat
  BY <1>4, IndexFacts
<1>6. /\ samples' \in [Measuring!Strategies -> Samples]
      /\ \A t \in Measuring!Strategies :
             Measuring!Count(samples'[t]) =
                 IF t = s THEN Measuring!Count(samples[t]) + 1 ELSE Measuring!Count(samples[t])
  <2>1. samples \in [Measuring!Strategies -> Samples] /\ s \in Measuring!Strategies
    BY <1>1, <1>3 DEF MeasureTypes
  <2>2. Taken(samples, samples', s, d)
    BY <1>1 DEF Taken
  <2>3. /\ samples' \in [Measuring!Strategies -> Samples]
        /\ Measuring!Count(samples'[s]) = Measuring!Count(samples[s]) + 1
        /\ \A t \in Measuring!Strategies :
               t # s => Measuring!Count(samples'[t]) = Measuring!Count(samples[t])
    BY <2>1, <2>2, TookOne
  <2> QED
    BY <2>3
<1>7. MeasureTypes'
  BY <1>2, <1>3, <1>4, <1>6 DEF MeasureTypes
<1>8. Progress'
  BY <1>2, <1>3 DEF Progress
<1>9. Sampled'
  <2>1. \A t \in Measuring!Strategies : t = s \/ t = started
    BY <1>1, <1>2, <1>3, StrategiesAre DEF MeasureTypes
  <2>2. \A t \in Measuring!Strategies :
            Measuring!Count(samples[t]) = (IF started = t THEN pair + 1 ELSE pair) /\ t # Measuring!None
    BY <1>3, <1>4, StrategiesAre DEF Sampled
  <2>3. \A t \in Measuring!Strategies : Measuring!Count(samples'[t]) = pair + 1
    BY <1>1, <1>4, <1>6, <2>1, <2>2
  <2>4. \A t \in Measuring!Strategies :
            Measuring!Count(samples'[t]) = pair' + IF started' = t THEN 1 ELSE 0
    BY <1>2, <1>4, <2>2, <2>3
  <2> QED
    BY <2>4 DEF Sampled, Measuring!Strategies
<1>10. BalancedAt(firsts, sources, r, m + 1)
  BY <1>2, <1>3, <1>4 DEF Balanced, Begun
<1>11. Begun' = 0
  BY <1>2 DEF Begun
<1>12. /\ m + 1 < sources => r' = r /\ m' = m + 1
       /\ m + 1 = sources => r' = r + 1 /\ m' = 0
  BY <1>2, <1>4, NextPair DEF Measuring!Repetition, Measuring!SourceIndex
<1>13. firsts \in Firsts(sources)
  BY <1>3 DEF MeasureTypes
<1> HIDE DEF r, m
<1>14. BalancedAt(firsts, sources, r', m')
  <2>1. CASE m + 1 < sources
    BY <1>10, <1>12, <2>1
  <2>2. CASE m + 1 = sources
    <3>1. BalancedAt(firsts, sources, r, sources)
      BY <1>10, <2>2
    <3>2. BalancedAt(firsts, sources, r + 1, 0)
      BY <1>4, <1>5, <1>13, <3>1, RoundEnds
    <3> QED
      BY <1>12, <2>2, <3>2
  <2> QED
    BY <1>4, <1>5, <2>1, <2>2
<1>15. Balanced'
  <2>1. m' \in Nat
    BY <1>4, <1>5, <1>12
  <2>2. m' + Begun' = m'
    <3>1. \A x \in Nat : x + 0 = x
      OBVIOUS
    <3>2. m' + 0 = m'
      BY <2>1, <3>1
    <3> QED
      BY <1>11, <3>2
  <2>3. BalancedAt(firsts', sources', r', m' + Begun')
    BY <1>2, <1>14, <2>2
  <2> QED
    BY <1>2, <1>4, <2>3 DEF Balanced, r, m
<1> QED
  BY <1>7, <1>8, <1>9, <1>15 DEF MeasureInv

\* Every step of a measurement.
LEMMA MeasureNextKeeps == StandaloneAssumption /\ MeasureInv /\ Measuring!Next => MeasureInv'
<1> SUFFICES ASSUME StandaloneAssumption, MeasureInv, Measuring!Next PROVE MeasureInv'
  OBVIOUS
<1>1. CASE Measuring!Refuse \/ Measuring!Begin \/ Measuring!QueryFails \/ Measuring!Summarize
  <2>1. /\ UNCHANGED <<sources, repetitions, pair, started, samples, firsts>>
        /\ \/ phase = "called" /\ phase' = "refused"
           \/ phase = "called" /\ phase' = "measuring" /\ sources > 0 /\ repetitions > 0
           \/ phase = "measuring" /\ phase' = "failed"
           \/ phase = "measuring" /\ phase' = "summarized" /\ pair = sources * repetitions
    BY <1>1 DEF Measuring!Refuse, Measuring!Begin, Measuring!QueryFails, Measuring!Summarize
  <2>2. Progress
    BY DEF MeasureInv
  <2>3. Progress'
    BY <2>1, <2>2 DEF Progress
  <2> QED
    BY <2>1, <2>3, MeasureRest
<1>2. CASE \E d \in Durations : Measuring!MeasureFirst(d) \/ Measuring!MeasureSecond(d)
  BY <1>2, MeasureFirstKeeps, MeasureSecondKeeps
<1> QED
  BY <1>1, <1>2 DEF Measuring!Next

MeasureJob == job = "measure" => MeasureInv

\* Every step of any job keeps the measurement as it should be.
LEMMA MeasureStep == MeasureJob /\ [Next]_vars => MeasureJob'
<1> SUFFICES ASSUME MeasureJob, [Next]_vars, job' = "measure" PROVE MeasureInv'
  BY DEF MeasureJob
<1>1. CASE Measure
  BY <1>1, StandaloneAssumption, MeasureNextKeeps DEF Measure, MeasureJob
<1>2. CASE ~Measure
  <2>1. job = "measure" /\ UNCHANGED measuring /\ UNCHANGED phase
    BY <1>2 DEF Next, vars, Query, Balance, Split, Plan, Generate
  <2>2. MeasureInv /\ Progress
    BY <2>1 DEF MeasureJob, MeasureInv
  <2>3. UNCHANGED <<sources, repetitions, pair, started, samples, firsts>> /\ phase' = phase
    BY <2>1 DEF measuring
  <2>4. Progress'
    BY <2>2, <2>3 DEF Progress
  <2> QED
    BY <2>2, <2>3, <2>4, MeasureRest
<1> QED
  BY <1>1, <1>2

\* What the invariant says of who went first.
LEMMA MeasureIsFair == MeasureJob => ComparisonFair
<1> SUFFICES ASSUME MeasureInv PROVE Measuring!OrderUnbiased /\ Measuring!SamplesComplete
  BY DEF MeasureJob, ComparisonFair
<1>1. MeasureTypes /\ Progress /\ Sampled /\ Balanced
  BY DEF MeasureInv
<1>2. sources \in Nat /\ repetitions \in Nat /\ pair \in Nat
  BY <1>1 DEF MeasureTypes
<1>3. CASE sources = 0
  <2>1. Measuring!Count(firsts["direct"]) = 0 /\ Measuring!Count(firsts["batched"]) = 0
    BY <1>1, <1>3 DEF Balanced
  <2>2. 0 .. sources - 1 = {}
    BY <1>3
  <2> QED
    BY <1>1, <1>3, <2>1, <2>2 DEF Measuring!OrderUnbiased, Measuring!SamplesComplete, Progress
<1>4. CASE sources > 0
  <2> DEFINE m == Measuring!SourceIndex + Begun
  <2>1. Measuring!Repetition \in Nat /\ m \in Nat
    BY <1>4, IndexFacts DEF Begun
  <2>2. BalancedAt(firsts, sources, Measuring!Repetition, m)
    BY <1>1, <1>4 DEF Balanced
  <2> HIDE DEF m
  <2>3. Measuring!OrderUnbiased
    BY <1>2, <2>1, <2>2, BalancedWithinOne DEF Measuring!OrderUnbiased
  <2>4. Measuring!SamplesComplete
    <3> SUFFICES ASSUME phase = "summarized", NEW s \in Measuring!Strategies
                 PROVE  Measuring!Count(samples[s]) = sources * repetitions
      BY DEF Measuring!SamplesComplete
    <3>1. pair = sources * repetitions
      BY <1>1 DEF Progress
    <3>2. ~(pair < sources * repetitions)
      BY <1>2, <3>1
    <3>3. started = Measuring!None /\ s # Measuring!None
      BY <1>1, <3>2, StrategiesAre DEF Progress
    <3> QED
      BY <1>1, <1>2, <3>1, <3>3 DEF Sampled
  <2> QED
    BY <2>3, <2>4
<1> QED
  BY <1>2, <1>3, <1>4

\* The nearest rank is a position in the sorted samples.
LEMMA RankFacts ==
    ASSUME NEW N \in Nat, N > 0, NEW p \in {50, 95, 99}
    PROVE  LET k == (p * N + 99) \div 100
           IN /\ k \in 1 .. N /\ k # 0
              /\ 100 * k >= p * N
              /\ 100 * (k - 1) < p * N
  OBVIOUS

\* The least duration whose samples, with all that are shorter, reach the rank.
LEMMA MeasurePercentiles == MeasureJob => PercentilesCorrect
<1> SUFFICES ASSUME MeasureInv, phase = "summarized",
                    NEW s \in Measuring!Strategies, NEW p \in {50, 95, 99}
             PROVE  LET enough == {d \in Durations :
                                      100 * Measuring!AtMost(samples[s], d) >= p * Measuring!Count(samples[s])}
                    IN /\ Measuring!NearestRank(samples[s], p) \in enough
                       /\ \A d \in enough : Measuring!NearestRank(samples[s], p) <= d
  BY DEF MeasureJob, PercentilesCorrect, Measuring!PercentilesCorrect
<1> USE StandaloneAssumption
<1> DEFINE bag == samples[s]
           N == Measuring!Count(bag)
           A(d) == Measuring!AtMost(bag, d)
           k == (p * N + 99) \div 100
           x == Measuring!SampleAt(bag, k)
<1>1. MeasureTypes /\ Progress /\ Sampled
  BY DEF MeasureInv
<1>2. bag \in Samples
  BY <1>1 DEF MeasureTypes
<1>3. N \in Nat /\ N > 0
  <2>1. N \in Nat
    BY <1>2, AtMostGrows
  <2>2. /\ pair = sources * repetitions /\ pair \in Nat
        /\ sources \in Nat /\ repetitions \in Nat /\ sources > 0 /\ repetitions > 0
    BY <1>1 DEF Progress, MeasureTypes
  <2>3. pair > 0
    BY <2>2
  <2>4. N = pair \/ N = pair + 1
    BY <1>1, <2>2 DEF Sampled
  <2> HIDE DEF N
  <2> QED
    BY <2>1, <2>2, <2>3, <2>4
<1>4. /\ k \in 1 .. N /\ k # 0 /\ 100 * k >= p * N /\ 100 * (k - 1) < p * N
  <2> HIDE DEF N
  <2> QED
    BY <1>3, RankFacts
<1>5. Measuring!NearestRank(bag, p) = x
  BY <1>4 DEF Measuring!NearestRank
<1>6. x \in Durations /\ k <= A(x) /\ \A e \in Durations : e < x => A(e) < k
  <2> HIDE DEF k, bag
  <2> QED
    BY <1>2, <1>4, SampleFound
<1>7. \A d \in Durations : A(d) \in Nat /\ d \in Nat
  <2>1. Durations \subseteq Nat
    BY DEF StandaloneAssumption
  <2> HIDE DEF bag
  <2>2. \A d \in Durations : Measuring!AtMost(bag, d) \in Nat
    BY <1>2, AtMostGrows
  <2> QED
    BY <2>1, <2>2
<1>8. p * N \in Nat /\ k \in Nat
  BY <1>3, <1>4
<1> HIDE DEF x, N, A, k, bag
<1>9. 100 * A(x) >= p * N
  BY <1>4, <1>6, <1>7, <1>8
<1>10. ASSUME NEW d \in Durations, 100 * A(d) >= p * N PROVE x <= d
  <2>1. CASE d < x
    <3>1. A(d) <= k - 1
      BY <1>6, <1>7, <1>8, <2>1
    <3>2. 100 * A(d) <= 100 * (k - 1)
      BY <1>7, <1>8, <3>1
    <3> DEFINE n == p * N
    <3> HIDE DEF n
    <3>3. n \in Nat /\ 100 * A(d) >= n /\ 100 * (k - 1) < n
      BY <1>4, <1>8, <1>10 DEF n
    <3> QED
      BY <1>7, <1>8, <3>2, <3>3
  <2> QED
    BY <1>6, <1>7, <2>1
<1> QED
  BY <1>5, <1>6, <1>9, <1>10 DEF x, N, A, bag

\* benchmark_two_hop_latencies, for any number of sources and repetitions: the
\* strategies take turns at going first, so that neither leads by more than one
\* pair for a source, or over all of them, and both are sampled once per pair.
THEOREM ComparisonAlwaysFair == Spec => []ComparisonFair
<1>1. Init => MeasureJob
  BY StandaloneAssumption, MeasureStarts DEF Init, MeasureJob
<1> QED
  BY <1>1, MeasureStep, MeasureIsFair, PTL DEF Spec

\* summarize_latencies with nearest_rank, for any samples: each percentile is a
\* measured duration that covers its share of the samples, and no shorter one does.
THEOREM PercentilesAlwaysCorrect == Spec => []PercentilesCorrect
<1>1. Init => MeasureJob
  BY StandaloneAssumption, MeasureStarts DEF Init, MeasureJob
<1> QED
  BY <1>1, MeasureStep, MeasurePercentiles, PTL DEF Spec

=============================================================================
