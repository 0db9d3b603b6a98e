------------------------ MODULE AdjacencyListProofs --------------------------
(***************************************************************************)
(* What the operators on adjacency lists return, what folds over lists       *)
(* compute and what sums over finite sets are, for lists of any length and   *)
(* sets of any size.                                                       *)
(***************************************************************************)
EXTENDS AdjacencyLists, SequenceTheorems, WellFoundedInduction, FiniteSetTheorems, TLAPS

-----------------------------------------------------------------------------
(* Induction over the natural numbers, for a set instead of a predicate *)

LEMMA LessThanWellFounded == IsWellFoundedOn({ss \in Nat \X Nat : ss[1] < ss[2]}, Nat)
  BY NatLessThanWellFounded DEF OpToRel

\* A set with 0 that has n + 1 whenever it has n has every number: otherwise
\* the smallest number outside would follow one inside.
LEMMA Induction ==
    ASSUME NEW T, 0 \in T, \A n \in Nat : n \in T => n + 1 \in T
    PROVE  \A n \in Nat : n \in T
<1> DEFINE R == {ss \in Nat \X Nat : ss[1] < ss[2]}
           Outside == {n \in Nat : n \notin T}
<1> SUFFICES ASSUME Outside # {} PROVE FALSE
  OBVIOUS
<1>1. \A x, y \in Nat : <<y, x>> \in R <=> y < x
  OBVIOUS
<1>2. PICK x \in Outside : \A y \in Outside : <<y, x>> \notin R
  <2>1. Outside \subseteq Nat
    OBVIOUS
  <2> HIDE DEF R, Outside
  <2> QED
    BY <2>1, LessThanWellFounded, WFMin DEF R
<1>3. x \in Nat \ {0} /\ x - 1 \in Nat /\ x - 1 < x /\ (x - 1) + 1 = x
  OBVIOUS
<1>4. x - 1 \notin Outside
  BY <1>1, <1>2, <1>3
<1> QED
  BY <1>3, <1>4

\* The same up to n.
LEMMA InductionTo ==
    ASSUME NEW n \in Nat, NEW T, 0 \in T, \A k \in 0 .. n - 1 : k \in T => k + 1 \in T
    PROVE  \A k \in 0 .. n : k \in T
<1> DEFINE U == {k \in Nat : k <= n => k \in T}
<1>1. 0 \in U /\ \A k \in Nat : k \in U => k + 1 \in U
  OBVIOUS
<1> HIDE DEF U
<1>2. \A k \in Nat : k \in U
  BY <1>1, Induction
<1> QED
  BY <1>2 DEF U

-----------------------------------------------------------------------------
(* One target *)

\* Adding a target keeps a list a list of users and adds nothing else.
LEMMA WithTargetList ==
    ASSUME NEW S, NEW list \in Seq(S), NEW v \in S
    PROVE  /\ WithTarget(list, v) \in Seq(S)
           /\ ToSet(WithTarget(list, v)) = ToSet(list) \cup {v}
<1>1. CASE v \in ToSet(list)
  BY <1>1 DEF WithTarget
<1>2. CASE v \notin ToSet(list)
  <2>1. WithTarget(list, v) = Append(list, v)
    BY <1>2 DEF WithTarget
  <2>2. Append(list, v) \in Seq(S)
    OBVIOUS
  <2>3. \A i \in DOMAIN Append(list, v) : Append(list, v)[i] \in ToSet(list) \cup {v}
    BY DEF ToSet
  <2> QED
    BY <2>1, <2>2, <2>3 DEF ToSet
<1> QED
  BY <1>1, <1>2

\* Taking a target out keeps a list a list of users and adds nothing.
LEMMA WithoutList ==
    ASSUME NEW S, NEW list \in Seq(S), NEW v
    PROVE  /\ Without(list, v) \in Seq(S)
           /\ ToSet(Without(list, v)) \subseteq ToSet(list)
<1> DEFINE p == CHOOSE i \in DOMAIN list : list[i] = v
           At(i) == list[IF i < p THEN i ELSE i + 1]
<1>1. CASE v \notin ToSet(list)
  BY <1>1 DEF Without
<1>2. CASE v \in ToSet(list)
  <2>1. p \in DOMAIN list
    BY <1>2 DEF ToSet
  <2>2. Without(list, v) = [i \in 1 .. Len(list) - 1 |-> At(i)]
    BY <1>2 DEF Without
  <2>3. Len(list) \in Nat \ {0} /\ DOMAIN list = 1 .. Len(list)
    BY <2>1
  <2>4. \A i \in 1 .. Len(list) - 1 : At(i) \in S /\ At(i) \in ToSet(list)
    <3> HIDE DEF p
    <3> TAKE i \in 1 .. Len(list) - 1
    <3>1. (IF i < p THEN i ELSE i + 1) \in DOMAIN list
      BY <2>1, <2>3
    <3> QED
      BY <3>1 DEF ToSet
  <2> HIDE DEF At
  <2>5. Len(list) - 1 \in Nat
    BY <2>3
  <2>6. [i \in 1 .. Len(list) - 1 |-> At(i)] \in Seq(S)
    BY <2>4, <2>5
  <2> QED
    BY <2>2, <2>4, <2>6 DEF ToSet
<1> QED
  BY <1>1, <1>2

\* Neither lists a target twice.
LEMMA WithTargetInjective ==
    ASSUME NEW S, NEW list \in Seq(S), NEW v, IsInjective(list)
    PROVE  IsInjective(WithTarget(list, v))
<1>1. CASE v \in ToSet(list)
  BY <1>1 DEF WithTarget
<1>2. CASE v \notin ToSet(list)
  <2>1. WithTarget(list, v) = Append(list, v)
    BY <1>2 DEF WithTarget
  <2>2. /\ DOMAIN Append(list, v) = 1 .. Len(list) + 1
        /\ \A i \in 1 .. Len(list) : Append(list, v)[i] = list[i] /\ list[i] # v
        /\ Append(list, v)[Len(list) + 1] = v
    BY <1>2 DEF ToSet
  <2>3. Len(list) \in Nat /\ DOMAIN list = 1 .. Len(list)
    OBVIOUS
  <2>4. ASSUME NEW i \in 1 .. Len(list) + 1, NEW j \in 1 .. Len(list) + 1,
               Append(list, v)[i] = Append(list, v)[j]
        PROVE  i = j
    BY <2>2, <2>3, <2>4 DEF IsInjective
  <2> QED
    BY <2>1, <2>2, <2>4 DEF IsInjective
<1> QED
  BY <1>1, <1>2

LEMMA WithoutInjective ==
    ASSUME NEW S, NEW list \in Seq(S), NEW v, IsInjective(list)
    PROVE  IsInjective(Without(list, v))
<1> DEFINE p == CHOOSE i \in DOMAIN list : list[i] = v
           From(i) == IF i < p THEN i ELSE i + 1
<1>1. CASE v \notin ToSet(list)
  BY <1>1 DEF Without
<1>2. CASE v \in ToSet(list)
  <2>1. p \in DOMAIN list
    BY <1>2 DEF ToSet
  <2>2. Without(list, v) = [i \in 1 .. Len(list) - 1 |-> list[From(i)]]
    BY <1>2 DEF Without
  <2>3. Len(list) \in Nat /\ DOMAIN list = 1 .. Len(list)
    OBVIOUS
  <2> HIDE DEF p
  <2>4. ASSUME NEW i \in 1 .. Len(list) - 1, NEW j \in 1 .. Len(list) - 1,
               list[From(i)] = list[From(j)]
        PROVE  i = j
    <3>1. From(i) \in DOMAIN list /\ From(j) \in DOMAIN list
      BY <2>1, <2>3
    <3>2. From(i) = From(j)
      <4> HIDE DEF From
      <4> QED
        BY <2>4, <3>1 DEF IsInjective
    <3> QED
      BY <2>1, <2>3, <3>2
  <2> HIDE DEF From
  <2> QED
    BY <2>2, <2>4 DEF IsInjective
<1> QED
  BY <1>1, <1>2

\* Removing the first target leaves the others.
LEMMA WithoutFirst ==
    ASSUME NEW S, NEW list \in Seq(S), list # <<>>, IsInjective(list)
    PROVE  Without(list, list[1]) = Tail(list)
<1> DEFINE p == CHOOSE i \in DOMAIN list : list[i] = list[1]
<1>1. 1 \in DOMAIN list /\ Len(list) \in Nat /\ DOMAIN list = 1 .. Len(list)
  OBVIOUS
<1>2. p = 1
  BY <1>1 DEF IsInjective
<1>3. list[1] \in ToSet(list)
  BY <1>1 DEF ToSet
<1>4. Without(list, list[1]) = [i \in 1 .. Len(list) - 1 |-> list[IF i < p THEN i ELSE i + 1]]
  BY <1>3 DEF Without
<1> HIDE DEF p
<1>5. [i \in 1 .. Len(list) - 1 |-> list[IF i < p THEN i ELSE i + 1]]
          = [i \in 1 .. Len(list) - 1 |-> list[i + 1]]
  BY <1>2
<1>6. /\ Tail(list) \in Seq(S) /\ Len(Tail(list)) = Len(list) - 1
      /\ \A i \in 1 .. Len(list) - 1 : Tail(list)[i] = list[i + 1]
  BY <1>1
<1>7. Without(list, list[1]) \in Seq(S) /\ Len(Without(list, list[1])) = Len(list) - 1
  <2>1. Len([i \in 1 .. Len(list) - 1 |-> list[i + 1]]) = Len(list) - 1
    BY <1>1
  <2> QED
    BY <1>4, <1>5, <2>1, WithoutList
<1>8. \A i \in 1 .. Len(list) - 1 : Without(list, list[1])[i] = list[i + 1]
  BY <1>4, <1>5
<1> QED
  BY <1>6, <1>7, <1>8, SeqEqual

\* In a list without repetitions the others close the gap.
LEMMA WithoutMember ==
    ASSUME NEW S, NEW list \in Seq(S), IsInjective(list), NEW p \in 1 .. Len(list)
    PROVE  /\ Without(list, list[p]) \in Seq(S)
           /\ Len(Without(list, list[p])) = Len(list) - 1
           /\ \A i \in 1 .. Len(list) - 1 :
                  Without(list, list[p])[i] = list[IF i < p THEN i ELSE i + 1]
           /\ ToSet(Without(list, list[p])) = ToSet(list) \ {list[p]}
           /\ IsInjective(Without(list, list[p]))
<1> DEFINE q == CHOOSE i \in DOMAIN list : list[i] = list[p]
           w == Without(list, list[p])
           At(i) == list[IF i < p THEN i ELSE i + 1]
<1>1. p \in DOMAIN list /\ Len(list) \in Nat /\ DOMAIN list = 1 .. Len(list)
  OBVIOUS
<1>2. q = p
  BY <1>1 DEF IsInjective
<1>3. list[p] \in ToSet(list)
  BY <1>1 DEF ToSet
<1>4. w = [i \in 1 .. Len(list) - 1 |-> list[IF i < q THEN i ELSE i + 1]]
  BY <1>3 DEF Without
<1> HIDE DEF q
<1>5. w = [i \in 1 .. Len(list) - 1 |-> At(i)]
  BY <1>2, <1>4
<1>6. w \in Seq(S) /\ IsInjective(w)
  BY WithoutList, WithoutInjective
<1> HIDE DEF w
<1>7. \A i \in 1 .. Len(list) - 1 : w[i] = At(i)
  BY <1>5
<1>8. Len(w) = Len(list) - 1
  <2>1. Len([i \in 1 .. Len(list) - 1 |-> At(i)]) = Len(list) - 1
    BY <1>1
  <2> QED
    BY <1>5, <2>1
<1>9. ToSet(w) \subseteq ToSet(list) \ {list[p]}
  <2> SUFFICES ASSUME NEW i \in 1 .. Len(list) - 1 PROVE At(i) \in ToSet(list) \ {list[p]}
    BY <1>5, <1>7 DEF ToSet
  <2>1. (IF i < p THEN i ELSE i + 1) \in DOMAIN list \ {p}
    BY <1>1
  <2> QED
    BY <1>1, <2>1 DEF ToSet, IsInjective
<1>10. ToSet(list) \ {list[p]} \subseteq ToSet(w)
  <2> SUFFICES ASSUME NEW j \in DOMAIN list, j # p PROVE list[j] \in ToSet(w)
    BY DEF ToSet
  <2>1. CASE j < p
    <3>1. j \in 1 .. Len(list) - 1 /\ At(j) = list[j]
      BY <1>1, <2>1
    <3> QED
      BY <1>5, <1>7, <3>1 DEF ToSet
  <2>2. CASE j > p
    <3>1. j - 1 \in 1 .. Len(list) - 1 /\ At(j - 1) = list[j]
      BY <1>1, <2>2
    <3> QED
      BY <1>5, <1>7, <3>1 DEF ToSet
  <2> QED
    BY <1>1, <2>1, <2>2
<1> QED
  BY <1>6, <1>7, <1>8, <1>9, <1>10 DEF w

LEMMA WithoutAbsent ==
    ASSUME NEW list, NEW v, v \notin ToSet(list)
    PROVE  Without(list, v) = list
  BY DEF Without

\* Only the removed target is missing, and the others keep their order.
LEMMA WithoutOther ==
    ASSUME NEW S, NEW list \in Seq(S), IsInjective(list), NEW v
    PROVE  /\ Without(list, v) \in Seq(S)
           /\ ToSet(Without(list, v)) = ToSet(list) \ {v}
           /\ IsInjective(Without(list, v))
<1>1. CASE v \in ToSet(list)
  <2>1. PICK p \in 1 .. Len(list) : list[p] = v
    BY <1>1 DEF ToSet
  <2> QED
    BY <2>1, WithoutMember
<1>2. CASE v \notin ToSet(list)
  BY <1>2, WithoutAbsent
<1> QED
  BY <1>1, <1>2

\* What it takes to be in a two-hop answer.
LEMMA TwoHopMember ==
    ASSUME NEW f, NEW u, NEW x
    PROVE  x \in TwoHop(f, u) <=> x # u /\ \E v \in ToSet(f[u]) : x \in ToSet(f[v])
  BY DEF TwoHop

-----------------------------------------------------------------------------
(* Adding targets one after the other *)

\* The steps of Merge: the list after i targets.
Merged(old, new) ==
    CHOOSE g : g = [i \in 0 .. Len(new) |-> IF i = 0 THEN old ELSE WithTarget(g[i - 1], new[i])]

LEMMA MergeIsMerged ==
    ASSUME NEW old, NEW new
    PROVE  Merge(old, new) = Merged(old, new)[Len(new)]
  BY DEF Merge, Merged

\* They exist, each from the one before.
LEMMA MergedSteps ==
    ASSUME NEW old, NEW new, Len(new) \in Nat
    PROVE  Merged(old, new) =
               [i \in 0 .. Len(new) |->
                   IF i = 0 THEN old ELSE WithTarget(Merged(old, new)[i - 1], new[i])]
<1> DEFINE Upto(g, k) ==
               g = [i \in 0 .. k |-> IF i = 0 THEN old ELSE WithTarget(g[i - 1], new[i])]
           T == {k \in Nat : \E g : Upto(g, k)}
<1>1. 0 \in T
  <2>1. Upto([i \in 0 .. 0 |-> old], 0)
    OBVIOUS
  <2> HIDE DEF Upto
  <2> QED
    BY <2>1
<1>2. ASSUME NEW k \in Nat, k \in T PROVE k + 1 \in T
  <2>1. PICK g : Upto(g, k)
    BY <1>2
  <2> DEFINE h == [i \in 0 .. k + 1 |-> IF i <= k THEN g[i] ELSE WithTarget(g[k], new[k + 1])]
  <2>2. \A i \in 0 .. k + 1 : h[i] = IF i = 0 THEN old ELSE WithTarget(h[i - 1], new[i])
    <3> TAKE i \in 0 .. k + 1
    <3>1. CASE i = 0
      BY <2>1, <3>1
    <3>2. CASE i \in 1 .. k
      <4>1. h[i] = g[i] /\ h[i - 1] = g[i - 1]
        BY <3>2
      <4> QED
        BY <2>1, <3>2, <4>1
    <3>3. CASE i = k + 1
      <4>1. h[i] = WithTarget(g[k], new[k + 1]) /\ h[i - 1] = g[k]
        BY <3>3
      <4> QED
        BY <3>3, <4>1
    <3> QED
      BY <3>1, <3>2, <3>3
  <2>3. Upto(h, k + 1)
    <3>1. h = [i \in 0 .. k + 1 |-> h[i]]
      OBVIOUS
    <3> HIDE DEF h
    <3> QED
      BY <2>2, <3>1
  <2> HIDE DEF Upto, h
  <2> QED
    BY <2>3
<1> HIDE DEF T
<1>3. Len(new) \in T
  BY <1>1, <1>2, Induction
<1> QED
  BY <1>3 DEF T, Merged

\* A merged list has the targets of both, and none twice.
LEMMA MergeFacts ==
    ASSUME NEW S, NEW old \in Seq(S), NEW new \in Seq(S)
    PROVE  /\ Merge(old, new) \in Seq(S)
           /\ ToSet(Merge(old, new)) = ToSet(old) \cup ToSet(new)
           /\ IsInjective(old) => IsInjective(Merge(old, new))
<1> DEFINE M == Merged(old, new)
           First(k) == {new[i] : i \in 1 .. k}
           Good(k) == /\ M[k] \in Seq(S)
                      /\ ToSet(M[k]) = ToSet(old) \cup First(k)
                      /\ IsInjective(old) => IsInjective(M[k])
           T == {k \in Nat : Good(k)}
<1>1. /\ Len(new) \in Nat
      /\ \A i \in 1 .. Len(new) : new[i] \in S
      /\ ToSet(new) = First(Len(new))
  BY DEF ToSet
<1>2. M[0] = old /\ \A k \in 0 .. Len(new) - 1 : M[k + 1] = WithTarget(M[k], new[k + 1])
  BY <1>1, MergedSteps
<1> HIDE DEF M
<1>3. 0 \in T
  BY <1>2
<1>4. ASSUME NEW k \in 0 .. Len(new) - 1, k \in T PROVE k + 1 \in T
  <2>1. M[k + 1] = WithTarget(M[k], new[k + 1]) /\ new[k + 1] \in S /\ M[k] \in Seq(S)
    BY <1>1, <1>2, <1>4
  <2>2. First(k + 1) = First(k) \cup {new[k + 1]}
    BY <1>1
  <2>3. /\ WithTarget(M[k], new[k + 1]) \in Seq(S)
        /\ ToSet(WithTarget(M[k], new[k + 1])) = ToSet(M[k]) \cup {new[k + 1]}
    BY <2>1, WithTargetList, SMTT(30)
  <2>4. IsInjective(M[k]) => IsInjective(WithTarget(M[k], new[k + 1]))
    BY <2>1, WithTargetInjective
  <2> HIDE DEF First
  <2>5. Good(k + 1)
    BY <1>4, <2>1, <2>2, <2>3, <2>4
  <2> HIDE DEF Good
  <2> QED
    BY <2>5
<1> HIDE DEF T
<1>5. Len(new) \in T
  <2>1. \A k \in 0 .. Len(new) : k \in T
    BY <1>1, <1>3, <1>4, InductionTo
  <2> QED
    BY <1>1, <2>1
<1> QED
  BY <1>1, <1>5, MergeIsMerged DEF T, M

\* Merged into an empty list, a list without repetitions is copied.
LEMMA MergeCopies ==
    ASSUME NEW S, NEW new \in Seq(S), IsInjective(new)
    PROVE  Merge(<<>>, new) = new
<1> DEFINE M == Merged(<<>>, new)
           Good(k) == /\ M[k] \in Seq(S) /\ Len(M[k]) = k
                      /\ \A i \in 1 .. k : M[k][i] = new[i]
           T == {k \in Nat : Good(k)}
<1>1. /\ Len(new) \in Nat /\ DOMAIN new = 1 .. Len(new)
      /\ \A i \in 1 .. Len(new) : new[i] \in S
  OBVIOUS
<1>2. M[0] = <<>> /\ \A k \in 0 .. Len(new) - 1 : M[k + 1] = WithTarget(M[k], new[k + 1])
  BY <1>1, MergedSteps
<1> HIDE DEF M
<1>3. 0 \in T
  <2>1. <<>> \in Seq(S) /\ Len(<<>>) = 0 /\ 1 .. 0 = {}
    OBVIOUS
  <2>2. Good(0)
    BY <1>2, <2>1
  <2> QED
    BY <2>2
<1>4. ASSUME NEW k \in 0 .. Len(new) - 1, k \in T PROVE k + 1 \in T
  <2>1. M[k + 1] = WithTarget(M[k], new[k + 1]) /\ new[k + 1] \in S /\ M[k] \in Seq(S)
    BY <1>1, <1>2, <1>4
  <2>2. DOMAIN M[k] = 1 .. k /\ \A i \in 1 .. k : M[k][i] = new[i]
    BY <1>4, <2>1
  <2>3. new[k + 1] \notin ToSet(M[k])
    BY <1>1, <2>2 DEF ToSet, IsInjective
  <2>4. M[k + 1] = Append(M[k], new[k + 1])
    BY <2>1, <2>3 DEF WithTarget
  <2>5. /\ Append(M[k], new[k + 1]) \in Seq(S)
        /\ Len(Append(M[k], new[k + 1])) = Len(M[k]) + 1
        /\ \A i \in 1 .. Len(M[k]) : Append(M[k], new[k + 1])[i] = M[k][i]
        /\ Append(M[k], new[k + 1])[Len(M[k]) + 1] = new[k + 1]
    BY <2>1, AppendProperties
  <2>6. Len(M[k]) = k
    BY <1>4
  <2>7. Good(k + 1)
    BY <2>2, <2>4, <2>5, <2>6
  <2> HIDE DEF Good
  <2> QED
    BY <2>7
<1> HIDE DEF T
<1>5. Len(new) \in T
  <2>1. \A k \in 0 .. Len(new) : k \in T
    BY <1>1, <1>3, <1>4, InductionTo
  <2> QED
    BY <1>1, <2>1
<1>6. Merge(<<>>, new) = M[Len(new)]
  BY MergeIsMerged DEF M
<1> QED
  BY <1>5, <1>6, SeqEqual DEF T

-----------------------------------------------------------------------------
(* Removing targets one after the other *)

\* The steps of Minus: what is left after i targets.
Left(list, targets) ==
    CHOOSE g : g = [i \in 0 .. Len(targets) |->
                       IF i = 0 THEN list ELSE Without(g[i - 1], targets[i])]

LEMMA MinusIsLeft ==
    ASSUME NEW list, NEW targets
    PROVE  Minus(list, targets) = Left(list, targets)[Len(targets)]
  BY DEF Minus, Left

LEMMA LeftSteps ==
    ASSUME NEW list, NEW targets, Len(targets) \in Nat
    PROVE  Left(list, targets) =
               [i \in 0 .. Len(targets) |->
                   IF i = 0 THEN list ELSE Without(Left(list, targets)[i - 1], targets[i])]
<1> DEFINE Upto(g, k) ==
               g = [i \in 0 .. k |-> IF i = 0 THEN list ELSE Without(g[i - 1], targets[i])]
           T == {k \in Nat : \E g : Upto(g, k)}
<1>1. 0 \in T
  <2>1. Upto([i \in 0 .. 0 |-> list], 0)
    OBVIOUS
  <2> HIDE DEF Upto
  <2> QED
    BY <2>1
<1>2. ASSUME NEW k \in Nat, k \in T PROVE k + 1 \in T
  <2>1. PICK g : Upto(g, k)
    BY <1>2
  <2> DEFINE h == [i \in 0 .. k + 1 |-> IF i <= k THEN g[i] ELSE Without(g[k], targets[k + 1])]
  <2>2. \A i \in 0 .. k + 1 : h[i] = IF i = 0 THEN list ELSE Without(h[i - 1], targets[i])
    <3> TAKE i \in 0 .. k + 1
    <3>1. CASE i = 0
      BY <2>1, <3>1
    <3>2. CASE i \in 1 .. k
      <4>1. h[i] = g[i] /\ h[i - 1] = g[i - 1]
        BY <3>2
      <4> QED
        BY <2>1, <3>2, <4>1
    <3>3. CASE i = k + 1
      <4>1. h[i] = Without(g[k], targets[k + 1]) /\ h[i - 1] = g[k]
        BY <3>3
      <4> QED
        BY <3>3, <4>1
    <3> QED
      BY <3>1, <3>2, <3>3
  <2>3. Upto(h, k + 1)
    <3>1. h = [i \in 0 .. k + 1 |-> h[i]]
      OBVIOUS
    <3> HIDE DEF h
    <3> QED
      BY <2>2, <3>1
  <2> HIDE DEF Upto, h
  <2> QED
    BY <2>3
<1> HIDE DEF T
<1>3. Len(targets) \in T
  BY <1>1, <1>2, Induction
<1> QED
  BY <1>3 DEF T, Left

\* What is left of a list is a list of some of its targets, none twice.
LEMMA MinusFacts ==
    ASSUME NEW S, NEW list \in Seq(S), NEW targets, Len(targets) \in Nat
    PROVE  /\ Minus(list, targets) \in Seq(S)
           /\ ToSet(Minus(list, targets)) \subseteq ToSet(list)
           /\ IsInjective(list) => IsInjective(Minus(list, targets))
<1> DEFINE M == Left(list, targets)
           Good(k) == /\ M[k] \in Seq(S)
                      /\ ToSet(M[k]) \subseteq ToSet(list)
                      /\ IsInjective(list) => IsInjective(M[k])
           T == {k \in Nat : Good(k)}
<1>1. M[0] = list /\ \A k \in 0 .. Len(targets) - 1 : M[k + 1] = Without(M[k], targets[k + 1])
  BY LeftSteps
<1> HIDE DEF M
<1>2. 0 \in T
  BY <1>1
<1>3. ASSUME NEW k \in 0 .. Len(targets) - 1, k \in T PROVE k + 1 \in T
  <2>1. M[k + 1] = Without(M[k], targets[k + 1]) /\ M[k] \in Seq(S)
    BY <1>1, <1>3
  <2>2. /\ Without(M[k], targets[k + 1]) \in Seq(S)
        /\ ToSet(Without(M[k], targets[k + 1])) \subseteq ToSet(M[k])
    BY <2>1, WithoutList
  <2>3. IsInjective(M[k]) => IsInjective(Without(M[k], targets[k + 1]))
    BY <2>1, WithoutInjective
  <2>4. Good(k + 1)
    BY <1>3, <2>1, <2>2, <2>3
  <2> HIDE DEF Good
  <2> QED
    BY <2>4
<1> HIDE DEF T
<1>4. Len(targets) \in T
  <2>1. \A k \in 0 .. Len(targets) : k \in T
    BY <1>2, <1>3, InductionTo
  <2> QED
    BY <2>1
<1> QED
  BY <1>4, MinusIsLeft DEF T, M

\* When all its targets are removed, and one more, nothing is left.
LEMMA MinusAll ==
    ASSUME NEW S, NEW list \in Seq(S), IsInjective(list), NEW u \in S
    PROVE  Minus(list, Append(list, u)) = <<>>
<1> DEFINE targets == Append(list, u)
           n == Len(list)
           M == Left(list, targets)
           Good(k) == /\ M[k] \in Seq(S) /\ Len(M[k]) = n - k
                      /\ \A i \in 1 .. n - k : M[k][i] = list[k + i]
           T == {k \in 0 .. n : Good(k)}
<1>1. /\ n \in Nat /\ DOMAIN list = 1 .. n
      /\ Len(targets) = n + 1 /\ targets[n + 1] = u
      /\ \A i \in 1 .. n : targets[i] = list[i] /\ list[i] \in S
  BY AppendProperties
<1>2. M[0] = list /\ \A k \in 0 .. n : M[k + 1] = Without(M[k], targets[k + 1])
  <2> HIDE DEF targets, n
  <2>1. M = [i \in 0 .. n + 1 |-> IF i = 0 THEN list ELSE Without(M[i - 1], targets[i])]
    BY <1>1, LeftSteps, SMTT(30)
  <2> HIDE DEF M
  <2> QED
    BY <1>1, <2>1
<1>3. Minus(list, targets) = M[n + 1]
  BY <1>1, MinusIsLeft
<1> HIDE DEF M, n, targets
<1>4. 0 \in T
  <2>1. M[0] = list /\ Len(list) = n - 0 /\ \A i \in 1 .. n - 0 : list[i] = list[0 + i]
    BY <1>1, <1>2 DEF n
  <2>2. Good(0)
    BY <2>1
  <2> QED
    BY <1>1, <2>2
<1>5. ASSUME NEW k \in 0 .. n - 1, k \in T PROVE k + 1 \in T
  <2>1. /\ M[k] \in Seq(S) /\ Len(M[k]) = n - k
        /\ \A i \in 1 .. n - k : M[k][i] = list[k + i]
    BY <1>5
  <2>2. M[k] # <<>> /\ M[k][1] = targets[k + 1] /\ DOMAIN M[k] = 1 .. n - k
    BY <1>1, <2>1
  <2>3. IsInjective(M[k])
    <3> SUFFICES ASSUME NEW i \in 1 .. n - k, NEW j \in 1 .. n - k, M[k][i] = M[k][j]
                 PROVE  i = j
      BY <2>2 DEF IsInjective
    <3>1. list[k + i] = list[k + j] /\ k + i \in 1 .. n /\ k + j \in 1 .. n
      BY <1>1, <2>1, SMTT(30)
    <3>2. k + i = k + j
      BY <1>1, <3>1 DEF IsInjective
    <3> QED
      BY <1>1, <3>2
  <2>4. M[k + 1] = Tail(M[k])
    <3>1. Without(M[k], M[k][1]) = Tail(M[k])
      BY <2>1, <2>2, <2>3, WithoutFirst
    <3> QED
      BY <1>1, <1>2, <2>2, <3>1
  <2>5. /\ Tail(M[k]) \in Seq(S) /\ Len(Tail(M[k])) = Len(M[k]) - 1
        /\ \A i \in 1 .. Len(Tail(M[k])) : Tail(M[k])[i] = M[k][i + 1]
    BY <2>1, <2>2, HeadTailProperties
  <2>6. Good(k + 1)
    <3>1. Len(M[k + 1]) = n - (k + 1)
      BY <1>1, <2>1, <2>4, <2>5
    <3>2. ASSUME NEW i \in 1 .. n - (k + 1) PROVE M[k + 1][i] = list[(k + 1) + i]
      <4>1. M[k + 1][i] = M[k][i + 1] /\ i + 1 \in 1 .. n - k
        BY <1>1, <2>1, <2>4, <2>5
      <4>2. M[k][i + 1] = list[k + (i + 1)] /\ k + (i + 1) = (k + 1) + i
        BY <2>1, <4>1
      <4> QED
        BY <4>1, <4>2
    <3> QED
      BY <2>4, <2>5, <3>1, <3>2
  <2> HIDE DEF Good
  <2> QED
    BY <1>1, <2>6
<1> HIDE DEF T
<1>6. n \in T
  <2>1. \A k \in 0 .. n : k \in T
    BY <1>1, <1>4, <1>5, InductionTo
  <2> QED
    BY <1>1, <2>1
<1>7. M[n] = <<>>
  BY <1>1, <1>6 DEF T
<1>8. M[n + 1] = Without(<<>>, u)
  BY <1>1, <1>2, <1>7
<1>9. Without(<<>>, u) = <<>>
  BY DEF Without, ToSet
<1> QED
  BY <1>3, <1>8, <1>9 DEF targets

-----------------------------------------------------------------------------
(* Folds.  FoldLeft(op, base, list) is a function over the sets of positions *)
(* of the list, each set taken from its highest member on.  An operator is  *)
(* no value: what follows is about folds by a function `step', and a fold by *)
(* an operator is shown to be one by its function.                          *)

\* The highest of a set of positions.
LEMMA MaxOf ==
    ASSUME NEW n \in Nat, NEW s \in SUBSET (1 .. n), s # {}
    PROVE  /\ Max(s) \in s
           /\ \A x \in s : x <= Max(s)
<1> DEFINE T == {k \in Nat : \A t \in SUBSET (1 .. k) : t # {} => \E x \in t : \A y \in t : x >= y}
<1>1. 0 \in T
  <2>1. \A t \in SUBSET (1 .. 0) : t = {}
    OBVIOUS
  <2> QED
    BY <2>1
<1>2. ASSUME NEW k \in Nat, k \in T PROVE k + 1 \in T
  <2> SUFFICES ASSUME NEW t \in SUBSET (1 .. k + 1), t # {} PROVE \E x \in t : \A y \in t : x >= y
    OBVIOUS
  <2>1. CASE k + 1 \in t
    BY <2>1
  <2>2. CASE k + 1 \notin t
    <3>1. t \in SUBSET (1 .. k)
      BY <2>2
    <3> QED
      BY <1>2, <3>1
  <2> QED
    BY <2>1, <2>2
<1>3. n \in T
  <2> HIDE DEF T
  <2> QED
    BY <1>1, <1>2, Induction
<1>4. \E x \in s : \A y \in s : x >= y
  BY <1>3
<1> QED
  BY <1>4 DEF Max

\* Of all positions, it is the last.
LEMMA MaxUpTo ==
    ASSUME NEW n \in Nat \ {0}
    PROVE  Max(1 .. n) = n /\ (1 .. n) \ {n} = 1 .. n - 1
<1>1. 1 .. n \in SUBSET (1 .. n) /\ 1 .. n # {} /\ n \in 1 .. n
  OBVIOUS
<1>2. Max(1 .. n) \in 1 .. n /\ \A x \in 1 .. n : x <= Max(1 .. n)
  BY <1>1, MaxOf
<1> QED
  BY <1>1, <1>2

\* Without it, the others are lower.
LEMMA BelowMax ==
    ASSUME NEW n \in Nat, NEW k \in Nat, NEW s \in SUBSET (1 .. n), s \subseteq 1 .. k + 1, s # {}
    PROVE  Max(s) \in 1 .. n /\ s \ {Max(s)} \in SUBSET (1 .. n) /\ s \ {Max(s)} \subseteq 1 .. k
<1> DEFINE m == Max(s)
<1>1. m \in s /\ \A x \in s : x <= m
  BY MaxOf
<1> HIDE DEF m
<1>2. \A x \in s \ {m} : x \in 1 .. k
  BY <1>1
<1> QED
  BY <1>1, <1>2 DEF m

\* Induction over sets of positions.
LEMMA PositionInduction ==
    ASSUME NEW n \in Nat, NEW W, {} \in W,
           \A s \in SUBSET (1 .. n) : s # {} /\ s \ {Max(s)} \in W => s \in W
    PROVE  \A s \in SUBSET (1 .. n) : s \in W
<1> DEFINE T == {k \in Nat : \A s \in SUBSET (1 .. n) : s \subseteq 1 .. k => s \in W}
<1>1. 0 \in T
  <2>1. \A s \in SUBSET (1 .. n) : s \subseteq 1 .. 0 => s = {}
    OBVIOUS
  <2> QED
    BY <2>1
<1>2. ASSUME NEW k \in Nat, k \in T PROVE k + 1 \in T
  <2> SUFFICES ASSUME NEW s \in SUBSET (1 .. n), s \subseteq 1 .. k + 1, s # {} PROVE s \in W
    OBVIOUS
  <2>1. s \ {Max(s)} \in SUBSET (1 .. n) /\ s \ {Max(s)} \subseteq 1 .. k
    BY BelowMax
  <2>2. s \ {Max(s)} \in W
    BY <1>2, <2>1
  <2> QED
    BY <2>2
<1>3. n \in T
  <2> HIDE DEF T
  <2> QED
    BY <1>1, <1>2, Induction
<1> QED
  BY <1>3

\* The functions by which a fold goes on, from a value and an element.
Steps(T, V) == [T \X V -> T]

\* The fold of a list, a value for each set of positions.
FoldedSets(step, base, list) ==
    CHOOSE g : g = [s \in SUBSET DOMAIN list |->
                       IF s = {} THEN base ELSE step[<<g[s \ {Max(s)}], list[Max(s)]>>]]

FoldOf(step, base, list) == FoldedSets(step, base, list)[DOMAIN list]

\* The value of each set follows from that of the set without its highest member.
FoldsUp(g, T, step, list) ==
    \A s \in SUBSET DOMAIN list :
        s # {} /\ g[s \ {Max(s)}] \in T => g[s] = step[<<g[s \ {Max(s)}], list[Max(s)]>>]

\* All values are in the set that the step stays in.
AllIn(g, T, list) == \A s \in SUBSET DOMAIN list : g[s] \in T

\* The fold satisfies its equation.
LEMMA FoldedSetsSteps ==
    ASSUME NEW T, NEW V, NEW step \in Steps(T, V), NEW base \in T, NEW list \in Seq(V)
    PROVE  /\ FoldedSets(step, base, list)[{}] = base
           /\ FoldsUp(FoldedSets(step, base, list), T, step, list)
           /\ AllIn(FoldedSets(step, base, list), T, list)
<1> DEFINE n == Len(list)
           D == 1 .. n
           Small(k) == SUBSET (1 .. k)
           Upto(g, k) == g = [s \in Small(k) |->
                                 IF s = {} THEN base ELSE step[<<g[s \ {Max(s)}], list[Max(s)]>>]]
           K == {k \in Nat : k <= n => \E g : Upto(g, k)}
<1>1. n \in Nat /\ DOMAIN list = D /\ \A i \in D : list[i] \in V
  OBVIOUS
<1>2. 0 \in K
  <2>1. Small(0) = {{}}
    OBVIOUS
  <2>2. Upto([s \in {{}} |-> base], 0)
    BY <2>1
  <2> HIDE DEF Upto
  <2> QED
    BY <2>2
<1>3. ASSUME NEW k \in Nat, k \in K PROVE k + 1 \in K
  <2> HIDE DEF Upto
  <2> SUFFICES ASSUME k + 1 <= n PROVE \E g : Upto(g, k + 1)
    OBVIOUS
  <2>1. PICK g : Upto(g, k)
    BY <1>1, <1>3
  <2> DEFINE h == [s \in Small(k + 1) |->
                      IF s \in Small(k) THEN g[s] ELSE step[<<g[s \ {Max(s)}], list[Max(s)]>>]]
  <2>2. ASSUME NEW s \in Small(k + 1), s # {}
        PROVE  s \ {Max(s)} \in Small(k) /\ s \ {Max(s)} \in Small(k + 1)
    <3>1. k + 1 \in Nat
      OBVIOUS
    <3>2. s \ {Max(s)} \in SUBSET (1 .. k + 1) /\ s \ {Max(s)} \subseteq 1 .. k
      BY <2>2, <3>1, BelowMax
    <3> QED
      BY <3>2
  <2>3. ASSUME NEW s \in Small(k + 1)
        PROVE  h[s] = IF s = {} THEN base ELSE step[<<h[s \ {Max(s)}], list[Max(s)]>>]
    <3>1. {} \in Small(k)
      OBVIOUS
    <3>2. \A t \in Small(k) : g[t] = IF t = {} THEN base ELSE step[<<g[t \ {Max(t)}], list[Max(t)]>>]
      BY <2>1 DEF Upto
    <3>3. \A t \in Small(k + 1) :
              h[t] = IF t \in Small(k) THEN g[t] ELSE step[<<g[t \ {Max(t)}], list[Max(t)]>>]
      OBVIOUS
    <3> HIDE DEF Small, h
    <3>4. CASE s = {}
      BY <3>1, <3>2, <3>3, <3>4
    <3>5. CASE s # {}
      <4>1. h[s \ {Max(s)}] = g[s \ {Max(s)}]
        BY <2>2, <3>3, <3>5
      <4> QED
        BY <3>2, <3>3, <3>5, <4>1
    <3> QED
      BY <3>4, <3>5
  <2>4. Upto(h, k + 1)
    <3>1. h = [s \in Small(k + 1) |-> h[s]]
      OBVIOUS
    <3> HIDE DEF h, Small
    <3> QED
      BY <2>3, <3>1 DEF Upto
  <2> HIDE DEF h
  <2> QED
    BY <2>4
<1>4. \E g : Upto(g, n)
  <2> HIDE DEF Upto
  <2>1. n \in K
    <3> HIDE DEF K
    <3> QED
      BY <1>1, <1>2, <1>3, Induction
  <2> QED
    BY <1>1, <2>1
<1> DEFINE G == FoldedSets(step, base, list)
<1>5. Upto(G, n)
  <2>1. G = CHOOSE g : Upto(g, n)
    BY <1>1, Zenon DEF FoldedSets
  <2> HIDE DEF Upto, G
  <2> QED
    BY <1>4, <2>1
<1>6. \A s \in SUBSET D : G[s] \in T
  <2> DEFINE W == {s \in SUBSET D : G[s] \in T}
  <2> HIDE DEF G
  <2>1. {} \in W
    BY <1>5
  <2>2. ASSUME NEW s \in SUBSET D, s # {}, s \ {Max(s)} \in W PROVE s \in W
    <3>1. Max(s) \in D
      BY <1>1, <2>2, MaxOf
    <3>2. G[s] = step[<<G[s \ {Max(s)}], list[Max(s)]>>]
      BY <1>5, <2>2
    <3> HIDE DEF D
    <3> QED
      BY <1>1, <2>2, <3>1, <3>2 DEF Steps
  <2> HIDE DEF W
  <2>3. \A s \in SUBSET D : s \in W
    BY <1>1, <2>1, <2>2, PositionInduction
  <2> QED
    BY <2>3 DEF W
<1>7. G = [s \in SUBSET D |-> IF s = {} THEN base ELSE step[<<G[s \ {Max(s)}], list[Max(s)]>>]]
  BY <1>5
<1> HIDE DEF G, D
<1>8. \A s \in SUBSET D : G[s] = IF s = {} THEN base ELSE step[<<G[s \ {Max(s)}], list[Max(s)]>>]
  BY <1>7
<1> QED
  BY <1>1, <1>6, <1>8 DEF G, FoldsUp, AllIn

\* An empty list leaves the base.
LEMMA FoldOfEmpty ==
    ASSUME NEW T, NEW step, NEW base
    PROVE  FoldOf(step, base, <<>>) = base
<1>1. \A s \in SUBSET DOMAIN <<>> : s = {}
  OBVIOUS
<1>2. [s \in SUBSET DOMAIN <<>> |-> base] =
          [s \in SUBSET DOMAIN <<>> |->
              IF s = {} THEN base
              ELSE step[<<[t \in SUBSET DOMAIN <<>> |-> base][s \ {Max(s)}], <<>>[Max(s)]>>]]
  BY <1>1
<1>3. \E g : g = [s \in SUBSET DOMAIN <<>> |->
                     IF s = {} THEN base ELSE step[<<g[s \ {Max(s)}], <<>>[Max(s)]>>]]
  BY <1>2, Zenon
<1>4. FoldedSets(step, base, <<>>) =
          [s \in SUBSET DOMAIN <<>> |->
              IF s = {} THEN base
              ELSE step[<<FoldedSets(step, base, <<>>)[s \ {Max(s)}], <<>>[Max(s)]>>]]
  BY <1>3, Zenon DEF FoldedSets
<1>5. DOMAIN <<>> = {} /\ DOMAIN <<>> \in SUBSET DOMAIN <<>>
  OBVIOUS
<1> QED
  BY <1>4, <1>5, Zenon DEF FoldOf

\* An element more is a step more.
LEMMA FoldOfAppend ==
    ASSUME NEW T, NEW V, NEW step \in Steps(T, V), NEW base \in T, NEW list \in Seq(V), NEW v \in V
    PROVE  /\ FoldOf(step, base, list) \in T
           /\ FoldOf(step, base, Append(list, v)) = step[<<FoldOf(step, base, list), v>>]
<1> DEFINE n == Len(list)
           more == Append(list, v)
           F == FoldedSets(step, base, list)
           G == FoldedSets(step, base, more)
           W == {s \in SUBSET (1 .. n) : G[s] = F[s]}
<1>1. /\ n \in Nat /\ DOMAIN list = 1 .. n
      /\ more \in Seq(V) /\ DOMAIN more = 1 .. n + 1 /\ more[n + 1] = v
      /\ \A i \in 1 .. n : more[i] = list[i]
  OBVIOUS
<1>2. \A s \in SUBSET (1 .. n) :
          /\ F[s] \in T
          /\ F[s] = IF s = {} THEN base ELSE step[<<F[s \ {Max(s)}], list[Max(s)]>>]
  <2>1. F[{}] = base /\ FoldsUp(F, T, step, list) /\ AllIn(F, T, list)
    BY FoldedSetsSteps
  <2> HIDE DEF F
  <2> QED
    BY <1>1, <2>1 DEF FoldsUp, AllIn
<1>3. \A s \in SUBSET (1 .. n + 1) :
          G[s] = IF s = {} THEN base ELSE step[<<G[s \ {Max(s)}], more[Max(s)]>>]
  <2>1. G[{}] = base /\ FoldsUp(G, T, step, more) /\ AllIn(G, T, more)
    <3>1. more \in Seq(V)
      BY <1>1
    <3> HIDE DEF more
    <3> QED
      BY <3>1, FoldedSetsSteps
  <2> HIDE DEF G
  <2> QED
    BY <1>1, <2>1 DEF FoldsUp, AllIn
<1>4. FoldOf(step, base, list) = F[1 .. n] /\ FoldOf(step, base, more) = G[1 .. n + 1]
  BY <1>1 DEF FoldOf
<1> HIDE DEF F, G, more, n
<1>5. 1 .. n \subseteq 1 .. n + 1
  BY <1>1
<1>6. {} \in W
  BY <1>2, <1>3
<1>7. ASSUME NEW s \in SUBSET (1 .. n), s # {}, s \ {Max(s)} \in W PROVE s \in W
  <2>1. Max(s) \in 1 .. n
    BY <1>1, <1>7, MaxOf
  <2>2. more[Max(s)] = list[Max(s)]
    BY <1>1, <2>1
  <2>3. F[s] = step[<<F[s \ {Max(s)}], list[Max(s)]>>]
    BY <1>2, <1>7
  <2>4. G[s] = step[<<G[s \ {Max(s)}], more[Max(s)]>>]
    BY <1>3, <1>5, <1>7
  <2> QED
    BY <1>7, <2>2, <2>3, <2>4
<1>8. 1 .. n \in W
  <2> HIDE DEF W
  <2> QED
    BY <1>1, <1>6, <1>7, PositionInduction
<1>9. n + 1 \in Nat \ {0} /\ Max(1 .. n + 1) = n + 1 /\ (1 .. n + 1) \ {n + 1} = 1 .. n
  <2>1. \A m \in Nat \ {0} : Max(1 .. m) = m /\ (1 .. m) \ {m} = 1 .. m - 1
    BY MaxUpTo
  <2>2. n + 1 \in Nat \ {0} /\ (n + 1) - 1 = n
    BY <1>1
  <2> QED
    BY <2>1, <2>2
<1>10. G[1 .. n + 1] = step[<<G[1 .. n], v>>]
  <2>1. n + 1 \in 1 .. n + 1
    BY <1>1
  <2>2. G[1 .. n + 1] = step[<<G[(1 .. n + 1) \ {Max(1 .. n + 1)}], more[Max(1 .. n + 1)]>>]
    BY <1>3, <2>1
  <2> QED
    BY <1>1, <1>9, <2>2
<1> QED
  BY <1>2, <1>4, <1>8, <1>10 DEF more

\* A list grows from the empty one, an element at a time.
LEMMA FrontAppended ==
    ASSUME NEW V, NEW list \in Seq(V), NEW k \in 0 .. Len(list) - 1
    PROVE  /\ SubSeq(list, 1, k) \in Seq(V) /\ list[k + 1] \in V
           /\ SubSeq(list, 1, k + 1) = Append(SubSeq(list, 1, k), list[k + 1])
<1> DEFINE a == SubSeq(list, 1, k)
           b == SubSeq(list, 1, k + 1)
           c == Append(a, list[k + 1])
<1>1. k \in Nat /\ k + 1 \in 1 .. Len(list) /\ list[k + 1] \in V /\ Len(list) \in Nat
  OBVIOUS
<1>2. a \in Seq(V) /\ Len(a) = k /\ \A i \in 1 .. k : a[i] = list[i]
  BY <1>1
<1>3. b \in Seq(V) /\ Len(b) = k + 1 /\ \A i \in 1 .. k + 1 : b[i] = list[i]
  BY <1>1
<1> HIDE DEF a, b
<1>4. /\ c \in Seq(V) /\ Len(c) = k + 1
      /\ \A i \in 1 .. k : c[i] = a[i]
      /\ c[k + 1] = list[k + 1]
  BY <1>1, <1>2
<1> HIDE DEF c
<1>5. \A i \in 1 .. k + 1 : b[i] = c[i]
  BY <1>1, <1>2, <1>3, <1>4
<1>6. b = c
  BY <1>3, <1>4, <1>5, SeqEqual
<1> QED
  BY <1>1, <1>2, <1>6 DEF a, b, c

\* From the empty list to the whole.
LEMMA FrontEnds ==
    ASSUME NEW V, NEW list \in Seq(V)
    PROVE  SubSeq(list, 1, 0) = <<>> /\ SubSeq(list, 1, Len(list)) = list
<1>1. Len(list) \in Nat
  OBVIOUS
<1>2. SubSeq(list, 1, 0) = <<>>
  BY <1>1
<1>3. /\ SubSeq(list, 1, Len(list)) \in Seq(V) /\ Len(SubSeq(list, 1, Len(list))) = Len(list)
      /\ \A i \in 1 .. Len(list) : SubSeq(list, 1, Len(list))[i] = list[i]
  BY <1>1
<1> QED
  BY <1>2, <1>3, SeqEqual

\* A fold over two lists goes on from the first over the second.
LEMMA FoldOfConcat ==
    ASSUME NEW T, NEW V, NEW step \in Steps(T, V), NEW base \in T,
           NEW list \in Seq(V), NEW more \in Seq(V)
    PROVE  FoldOf(step, base, list \o more) = FoldOf(step, FoldOf(step, base, list), more)
<1> DEFINE n == Len(more)
           At(k) == SubSeq(more, 1, k)
           Good(k) == FoldOf(step, base, list \o At(k)) = FoldOf(step, FoldOf(step, base, list), At(k))
           K == {k \in 0 .. n : Good(k)}
<1>1. n \in Nat /\ At(0) = <<>> /\ At(n) = more
  BY FrontEnds
<1>2. FoldOf(step, base, list) \in T
  <2> SUFFICES ASSUME V # {} PROVE FoldOf(step, base, list) \in T
    <3>1. CASE V = {}
      <4>1. list = <<>>
        BY <3>1
      <4> QED
        BY <4>1, FoldOfEmpty
    <3> QED
      BY <3>1
  <2> QED
    BY FoldOfAppend
<1>3. 0 \in K
  <2>1. list \o <<>> = list
    OBVIOUS
  <2>2. Good(0)
    BY <1>1, <2>1, FoldOfEmpty
  <2> QED
    BY <1>1, <2>2
<1>4. ASSUME NEW k \in 0 .. n - 1, k \in K PROVE k + 1 \in K
  <2>1. At(k) \in Seq(V) /\ more[k + 1] \in V /\ At(k + 1) = Append(At(k), more[k + 1])
    BY FrontAppended
  <2>2. Good(k)
    BY <1>4
  <2>3. list \o Append(At(k), more[k + 1]) = Append(list \o At(k), more[k + 1])
    <3> HIDE DEF At
    <3> QED
      BY <2>1
  <2>4. list \o At(k) \in Seq(V)
    BY <2>1
  <2> HIDE DEF At
  <2>8. \A b \in T, l \in Seq(V), v \in V :
            FoldOf(step, b, Append(l, v)) = step[<<FoldOf(step, b, l), v>>]
    BY FoldOfAppend
  <2>5. FoldOf(step, base, Append(list \o At(k), more[k + 1])) =
            step[<<FoldOf(step, base, list \o At(k)), more[k + 1]>>]
    BY <2>1, <2>4, <2>8
  <2>6. FoldOf(step, FoldOf(step, base, list), Append(At(k), more[k + 1])) =
            step[<<FoldOf(step, FoldOf(step, base, list), At(k)), more[k + 1]>>]
    BY <1>2, <2>1, <2>8
  <2>7. Good(k + 1)
    BY <2>1, <2>2, <2>3, <2>5, <2>6
  <2> HIDE DEF Good
  <2> QED
    BY <1>1, <2>7
<1>5. n \in K
  <2> HIDE DEF K
  <2>1. \A k \in 0 .. n : k \in K
    BY <1>1, <1>3, <1>4, InductionTo
  <2> QED
    BY <1>1, <2>1
<1> QED
  BY <1>1, <1>5

\* Whatever satisfies the equation of the fold is the fold.
LEMMA FoldUnique ==
    ASSUME NEW T, NEW V, NEW step \in Steps(T, V), NEW base \in T, NEW list \in Seq(V),
           NEW g, g[{}] = base, FoldsUp(g, T, step, list)
    PROVE  g[DOMAIN list] = FoldOf(step, base, list)
<1> DEFINE n == Len(list)
           F == FoldedSets(step, base, list)
           W == {s \in SUBSET (1 .. n) : g[s] = F[s]}
<1>1. n \in Nat /\ DOMAIN list = 1 .. n
  OBVIOUS
<1>2. F[{}] = base /\ FoldsUp(F, T, step, list) /\ AllIn(F, T, list)
  BY FoldedSetsSteps
<1> HIDE DEF F, n
<1>3. {} \in W
  BY <1>1, <1>2
<1>4. ASSUME NEW s \in SUBSET (1 .. n), s # {}, s \ {Max(s)} \in W PROVE s \in W
  <2>1. F[s \ {Max(s)}] \in T /\ g[s \ {Max(s)}] = F[s \ {Max(s)}]
    BY <1>1, <1>2, <1>4 DEF AllIn
  <2> QED
    BY <1>1, <1>2, <1>4, <2>1 DEF FoldsUp
<1>5. 1 .. n \in W
  <2> HIDE DEF W
  <2> QED
    BY <1>1, <1>3, <1>4, PositionInduction
<1> QED
  BY <1>1, <1>5 DEF F, FoldOf

\* There is one.
LEMMA FoldExists ==
    ASSUME NEW T, NEW V, NEW step \in Steps(T, V), NEW base \in T, NEW list \in Seq(V)
    PROVE  \E g : /\ g = [s \in SUBSET DOMAIN list |-> g[s]]
                  /\ g[{}] = base
                  /\ FoldsUp(g, T, step, list)
                  /\ AllIn(g, T, list)
                  /\ \A s \in SUBSET DOMAIN list : s # {} => list[Max(s)] \in V
<1> DEFINE F == FoldedSets(step, base, list)
           h == [s \in SUBSET DOMAIN list |-> F[s]]
<1>1. F[{}] = base /\ FoldsUp(F, T, step, list) /\ AllIn(F, T, list)
  BY FoldedSetsSteps
<1> HIDE DEF F
<1>2. \A s \in SUBSET DOMAIN list : h[s] = F[s]
  OBVIOUS
<1>3. h = [s \in SUBSET DOMAIN list |-> h[s]]
  OBVIOUS
<1> HIDE DEF h
<1>4. h[{}] = base /\ FoldsUp(h, T, step, list) /\ AllIn(h, T, list)
  BY <1>1, <1>2 DEF FoldsUp, AllIn
<1>5. ASSUME NEW s \in SUBSET DOMAIN list, s # {} PROVE list[Max(s)] \in V
  <2>1. DOMAIN list = 1 .. Len(list) /\ Len(list) \in Nat /\ \A i \in 1 .. Len(list) : list[i] \in V
    OBVIOUS
  <2>2. Max(s) \in s
    BY <1>5, <2>1, MaxOf
  <2> QED
    BY <1>5, <2>1, <2>2
<1> QED
  BY <1>3, <1>4, <1>5

-----------------------------------------------------------------------------
(* Lists made by folds *)

\* What holds of the empty list, and of each list with an element more, holds of all.
LEMMA ListInduction ==
    ASSUME NEW V, NEW W, <<>> \in W,
           \A front \in Seq(V), v \in V : front \in W => Append(front, v) \in W
    PROVE  \A list \in Seq(V) : list \in W
<1> SUFFICES ASSUME NEW list \in Seq(V) PROVE list \in W
  OBVIOUS
<1> DEFINE n == Len(list)
           T == {k \in 0 .. n : SubSeq(list, 1, k) \in W}
<1>1. n \in Nat /\ SubSeq(list, 1, 0) = <<>> /\ SubSeq(list, 1, n) = list
  BY FrontEnds
<1> HIDE DEF n
<1>2. 0 \in T
  <2>1. 0 \in 0 .. n
    BY <1>1
  <2>2. SubSeq(list, 1, 0) \in W
    BY <1>1
  <2> QED
    BY <2>1, <2>2
<1>3. ASSUME NEW k \in 0 .. n - 1, k \in T PROVE k + 1 \in T
  <2>1. /\ SubSeq(list, 1, k) \in Seq(V) /\ list[k + 1] \in V
        /\ SubSeq(list, 1, k + 1) = Append(SubSeq(list, 1, k), list[k + 1])
    BY FrontAppended DEF n
  <2>2. SubSeq(list, 1, k + 1) \in W
    BY <1>3, <2>1
  <2> QED
    BY <1>1, <2>2
<1> HIDE DEF T
<1>4. \A k \in 0 .. n : k \in T
  BY ONLY <1>1, <1>2, <1>3, InductionTo
<1>5. n \in T
  BY <1>1, <1>4
<1> QED
  BY <1>1, <1>5 DEF T

\* Keeping a member of S, as a step of a fold.
KeptStep(V, S) == [p \in Seq(V) \X V |-> IF p[2] \in S THEN Append(p[1], p[2]) ELSE p[1]]

\* What is kept of a list is a fold over it.
LEMMA KeptIsFold ==
    ASSUME NEW V, NEW S, NEW list \in Seq(V)
    PROVE  /\ KeptStep(V, S) \in Steps(Seq(V), V)
           /\ Kept(list, S) = FoldOf(KeptStep(V, S), <<>>, list)
<1> DEFINE step == KeptStep(V, S)
           none == <<>>
           T == Seq(V)
           Eq(g) == g = [s \in SUBSET DOMAIN list |->
                            IF s = {} THEN none
                            ELSE IF list[Max(s)] \in S
                                 THEN Append(g[s \ {Max(s)}], list[Max(s)])
                                 ELSE g[s \ {Max(s)}]]
<1>1. step \in Steps(T, V) /\ none \in T
  BY DEF Steps, KeptStep
<1>2. \A x \in T, v \in V : step[<<x, v>>] = IF v \in S THEN Append(x, v) ELSE x
  BY DEF KeptStep
<1> HIDE DEF step, none, T
<1>3. \E g : Eq(g)
  <2>1. PICK g : /\ g = [s \in SUBSET DOMAIN list |-> g[s]]
                 /\ g[{}] = none
                 /\ FoldsUp(g, T, step, list)
                 /\ AllIn(g, T, list)
                 /\ \A s \in SUBSET DOMAIN list : s # {} => list[Max(s)] \in V
    BY <1>1, FoldExists
  <2>2. Eq(g)
    BY <1>2, <2>1 DEF FoldsUp, AllIn
  <2> QED
    BY <2>2
<1>4. ASSUME NEW g, Eq(g) PROVE g[DOMAIN list] = FoldOf(step, none, list)
  <2>1. g[{}] = none
    BY <1>4
  <2>2. \A s \in SUBSET DOMAIN list : s # {} => list[Max(s)] \in V
    BY <1>1, FoldExists
  <2>3. FoldsUp(g, T, step, list)
    BY <1>2, <1>4, <2>2 DEF FoldsUp
  <2> QED
    BY <1>1, <2>1, <2>3, FoldUnique
<1>5. Kept(list, S) = (CHOOSE g : Eq(g))[DOMAIN list]
  BY Zenon DEF Kept, FoldLeft, MapThenFoldSet, none
<1> HIDE DEF Eq
<1> QED
  BY <1>1, <1>3, <1>4, <1>5 DEF step, none, T

\* Nothing is kept of an empty list.
LEMMA KeptEmpty == \A S : Kept(<<>>, S) = <<>>
<1> TAKE S
<1> DEFINE none == <<>>
<1>1. none \in Seq({})
  OBVIOUS
<1>2. Kept(none, S) = FoldOf(KeptStep({}, S), none, none)
  BY <1>1, KeptIsFold
<1>3. FoldOf(KeptStep({}, S), none, none) = none
  BY FoldOfEmpty
<1> QED
  BY <1>2, <1>3

\* One more element is kept or passed over.
LEMMA KeptAppend ==
    ASSUME NEW V, NEW S, NEW list \in Seq(V), NEW v \in V
    PROVE  Kept(Append(list, v), S) = IF v \in S THEN Append(Kept(list, S), v) ELSE Kept(list, S)
<1> DEFINE none == <<>>
           more == Append(list, v)
           step == KeptStep(V, S)
<1>1. none \in Seq(V) /\ more \in Seq(V)
  OBVIOUS
<1>2. step \in Steps(Seq(V), V)
  BY <1>1, KeptIsFold
<1>4. Kept(list, S) = FoldOf(step, none, list)
  BY <1>1, KeptIsFold
<1>5. Kept(more, S) = FoldOf(step, none, more)
  BY <1>1, KeptIsFold
<1> HIDE DEF none, step
<1>7. FoldOf(step, none, list) \in Seq(V) /\ FoldOf(step, none, more) = step[<<FoldOf(step, none, list), v>>]
  BY <1>1, <1>2, FoldOfAppend
<1>8. \A x \in Seq(V) : step[<<x, v>>] = IF v \in S THEN Append(x, v) ELSE x
  BY DEF step, KeptStep
<1> QED
  BY <1>4, <1>5, <1>7, <1>8

\* The members of a list with an element more.
LEMMA AppendedSet ==
    ASSUME NEW V, NEW list \in Seq(V), NEW v
    PROVE  ToSet(Append(list, v)) = ToSet(list) \cup {v}
<1>1. /\ Len(Append(list, v)) = Len(list) + 1 /\ Len(list) \in Nat
      /\ \A i \in 1 .. Len(list) + 1 :
             Append(list, v)[i] = IF i <= Len(list) THEN list[i] ELSE v
      /\ Append(list, v) \in Seq(V \cup {v})
  OBVIOUS
<1> DEFINE more == Append(list, v)
           n == Len(list)
<1>2. DOMAIN list = 1 .. n /\ DOMAIN more = 1 .. n + 1
  BY <1>1
<1> HIDE DEF more, n
<1>3. \A x \in ToSet(more) : x \in ToSet(list) \cup {v}
  BY <1>1, <1>2 DEF ToSet, more, n
<1>4. \A x \in ToSet(list) : x \in ToSet(more)
  BY <1>1, <1>2 DEF ToSet, more, n
<1>5. v \in ToSet(more)
  BY <1>1, <1>2 DEF ToSet, more, n
<1> QED
  BY <1>3, <1>4, <1>5 DEF more

\* What is kept of a list is a list of its members in S; a list of members of S is kept whole.
LEMMA KeptFacts ==
    ASSUME NEW V, NEW S, NEW list \in Seq(V)
    PROVE  /\ Kept(list, S) \in Seq(V)
           /\ ToSet(Kept(list, S)) = ToSet(list) \cap S
           /\ ToSet(list) \subseteq S => Kept(list, S) = list
<1> DEFINE W == {l \in Seq(V) : /\ Kept(l, S) \in Seq(V)
                                /\ ToSet(Kept(l, S)) = ToSet(l) \cap S
                                /\ ToSet(l) \subseteq S => Kept(l, S) = l}
<1>1. <<>> \in W
  <2> DEFINE none == <<>>
  <2>1. ToSet(none) = {} /\ none \in Seq(V)
    BY DEF ToSet
  <2>2. Kept(none, S) = none
    BY KeptEmpty
  <2> HIDE DEF none
  <2>3. none \in W
    BY <2>1, <2>2
  <2> QED
    BY <2>3 DEF none
<1>2. ASSUME NEW front \in Seq(V), NEW v \in V, front \in W PROVE Append(front, v) \in W
  <2> DEFINE more == Append(front, v)
  <2>1. more \in Seq(V) /\ ToSet(more) = ToSet(front) \cup {v}
    BY AppendedSet
  <2>2. Kept(more, S) = IF v \in S THEN Append(Kept(front, S), v) ELSE Kept(front, S)
    BY KeptAppend
  <2>3. Kept(front, S) \in Seq(V) /\ ToSet(Kept(front, S)) = ToSet(front) \cap S
        /\ (ToSet(front) \subseteq S => Kept(front, S) = front)
    BY <1>2
  <2>4. CASE v \in S
    <3>1. ToSet(Append(Kept(front, S), v)) = ToSet(Kept(front, S)) \cup {v}
      BY <2>3, AppendedSet
    <3>2. ToSet(more) \subseteq S => Kept(more, S) = more
      BY <2>1, <2>2, <2>3, <2>4
    <3>3. Kept(more, S) \in Seq(V)
      BY <2>2, <2>3, <2>4
    <3> HIDE DEF more, W
    <3>4. ToSet(Kept(more, S)) = ToSet(more) \cap S
      BY <2>1, <2>2, <2>3, <2>4, <3>1
    <3>5. more \in W
      BY <2>1, <3>2, <3>3, <3>4 DEF W
    <3> QED
      BY <3>5 DEF more
  <2>5. CASE v \notin S
    <3> HIDE DEF more, W
    <3>1. /\ Kept(more, S) \in Seq(V) /\ ToSet(Kept(more, S)) = ToSet(more) \cap S
          /\ ~(ToSet(more) \subseteq S)
      BY <2>1, <2>2, <2>3, <2>5
    <3>2. more \in W
      BY <2>1, <3>1 DEF W
    <3> QED
      BY <3>2 DEF more
  <2> QED
    BY <2>4, <2>5
<1> HIDE DEF W
<1>3. list \in W
  BY <1>1, <1>2, ListInduction
<1> QED
  BY <1>3 DEF W

-----------------------------------------------------------------------------
(* Lists of lists *)

\* Putting a list behind those before it.
ConcatStep(V) == [p \in Seq(V) \X Seq(V) |-> p[1] \o p[2]]

\* Putting a list behind another, as a step of a fold.
LEMMA ConcatSteps ==
    ASSUME NEW V
    PROVE  /\ ConcatStep(V) \in Steps(Seq(V), Seq(V))
           /\ \A x, y \in Seq(V) : ConcatStep(V)[<<x, y>>] = x \o y
<1>1. \A p \in Seq(V) \X Seq(V) : p[1] \in Seq(V) /\ p[2] \in Seq(V)
  OBVIOUS
<1>2. \A p \in Seq(V) \X Seq(V) : p[1] \o p[2] \in Seq(V)
  BY <1>1
<1>3. \A x, y \in Seq(V) : <<x, y>> \in Seq(V) \X Seq(V) /\ <<x, y>>[1] = x /\ <<x, y>>[2] = y
  OBVIOUS
<1> QED
  BY <1>2, <1>3 DEF ConcatStep, Steps

\* The function by which FlattenSeq is defined.
Flattening(seqs) ==
    CHOOSE g : g = [i \in 1 .. Len(seqs) |-> IF i = 1 THEN seqs[i] ELSE g[i - 1] \o seqs[i]]

\* Flattening a list of lists is a fold over it.
LEMMA FlattenIsFold ==
    ASSUME NEW V, NEW seqs \in Seq(Seq(V))
    PROVE  FlattenSeq(seqs) = FoldOf(ConcatStep(V), <<>>, seqs)
<1> DEFINE n == Len(seqs)
           step == ConcatStep(V)
           none == <<>>
           F == [k \in 0 .. n |-> FoldOf(step, none, SubSeq(seqs, 1, k))]
           Eq(g) == g = [i \in 1 .. n |-> IF i = 1 THEN seqs[i] ELSE g[i - 1] \o seqs[i]]
<1>1. n \in Nat /\ SubSeq(seqs, 1, 0) = none /\ SubSeq(seqs, 1, n) = seqs
  BY FrontEnds
<1>2. none \in Seq(V) /\ step \in Steps(Seq(V), Seq(V)) /\ \A x, y \in Seq(V) : step[<<x, y>>] = x \o y
  <2>1. none \in Seq(V)
    OBVIOUS
  <2> HIDE DEF none
  <2> QED
    BY <2>1, ConcatSteps
<1>3. F[0] = none /\ F[n] = FoldOf(step, none, seqs)
  <2>1. 0 \in 0 .. n /\ n \in 0 .. n
    BY <1>1
  <2>2. F[0] = FoldOf(step, none, SubSeq(seqs, 1, 0)) /\ F[n] = FoldOf(step, none, SubSeq(seqs, 1, n))
    BY <2>1
  <2> HIDE DEF F, n, step, none
  <2> QED
    BY <1>1, <2>2, FoldOfEmpty DEF none
<1>4. \A k \in 0 .. n - 1 : F[k] \in Seq(V) /\ F[k + 1] = F[k] \o seqs[k + 1] /\ seqs[k + 1] \in Seq(V)
  <2> TAKE k \in 0 .. n - 1
  <2>0. k \in 0 .. n /\ k + 1 \in 0 .. n
    BY <1>1
  <2>5. F[k] = FoldOf(step, none, SubSeq(seqs, 1, k)) /\ F[k + 1] = FoldOf(step, none, SubSeq(seqs, 1, k + 1))
    BY <2>0
  <2> HIDE DEF step, none, F
  <2>1. /\ SubSeq(seqs, 1, k) \in Seq(Seq(V)) /\ seqs[k + 1] \in Seq(V)
        /\ SubSeq(seqs, 1, k + 1) = Append(SubSeq(seqs, 1, k), seqs[k + 1])
    BY FrontAppended
  <2> DEFINE front == SubSeq(seqs, 1, k)
             l == seqs[k + 1]
  <2> HIDE DEF front, l
  <2>2. front \in Seq(Seq(V)) /\ l \in Seq(V)
    BY <2>1 DEF front, l
  <2>3. FoldOf(step, none, front) \in Seq(V)
        /\ FoldOf(step, none, Append(front, l)) = step[<<FoldOf(step, none, front), l>>]
    BY <1>2, <2>2, FoldOfAppend
  <2> QED
    BY <1>2, <2>1, <2>2, <2>3, <2>5 DEF front, l
<1> HIDE DEF F, step, n
<1>5. \E g : Eq(g)
  <2> DEFINE g == [i \in 1 .. n |-> F[i]]
  <2>1. ASSUME NEW i \in 1 .. n PROVE F[i] = IF i = 1 THEN seqs[i] ELSE g[i - 1] \o seqs[i]
    <3>1. i - 1 \in 0 .. n - 1 /\ (i - 1) + 1 = i
      BY <1>1
    <3>2. F[i] = F[i - 1] \o seqs[i] /\ seqs[i] \in Seq(V)
      BY <1>4, <3>1
    <3>3. CASE i = 1
      <4>1. F[i - 1] = none
        BY <1>3, <3>3
      <4>2. none \o seqs[i] = seqs[i]
        BY <3>2
      <4> QED
        BY <3>2, <3>3, <4>1, <4>2
    <3>4. CASE i # 1
      <4>1. g[i - 1] = F[i - 1]
        BY <1>1, <3>4
      <4> HIDE DEF g
      <4> QED
        BY <3>2, <3>4, <4>1
    <3> QED
      BY <3>3, <3>4
  <2>2. g = [i \in 1 .. n |-> IF i = 1 THEN seqs[i] ELSE g[i - 1] \o seqs[i]]
    BY <2>1
  <2> QED
    BY <2>2
<1>6. ASSUME NEW g, Eq(g), NEW m \in 1 .. n PROVE g[m] = F[m]
  <2> DEFINE T == {k \in 0 .. n : k > 0 => g[k] = F[k]}
  <2>1. 0 \in T
    BY <1>1
  <2>2. ASSUME NEW k \in 0 .. n - 1, k \in T PROVE k + 1 \in T
    <3>1. F[k + 1] = F[k] \o seqs[k + 1] /\ seqs[k + 1] \in Seq(V)
      BY <1>4
    <3>2. CASE k = 0
      <4>1. k + 1 = 1 /\ 1 \in 1 .. n /\ 1 \in 0 .. n
        BY <1>1, <3>2
      <4>2. g[1] = seqs[1]
        BY <1>6, <4>1
      <4>3. F[1] = none \o seqs[1] /\ seqs[1] \in Seq(V)
        BY <1>3, <3>1, <3>2, <4>1
      <4>4. none \o seqs[1] = seqs[1]
        BY <4>3
      <4> QED
        BY <4>1, <4>2, <4>3, <4>4
    <3>3. CASE k # 0
      <4>1. k + 1 \in 1 .. n /\ k + 1 # 1 /\ (k + 1) - 1 = k /\ k + 1 \in 0 .. n
        BY <1>1, <3>3
      <4>2. g[k + 1] = g[k] \o seqs[k + 1]
        BY <1>6, <4>1
      <4>3. g[k] = F[k]
        BY <1>1, <2>2, <3>3
      <4> QED
        BY <3>1, <4>1, <4>2, <4>3
    <3> QED
      BY <3>2, <3>3
  <2> HIDE DEF T
  <2>3. \A k \in 0 .. n : k \in T
    BY <1>1, <2>1, <2>2, InductionTo
  <2> QED
    BY <1>1, <2>3 DEF T
<1>7. FlattenSeq(seqs) = IF n = 0 THEN seqs ELSE Flattening(seqs)[n]
  BY Zenon DEF FlattenSeq, Flattening, n
<1>8. CASE n = 0
  <2>1. seqs = none
    BY <1>8 DEF n
  <2> QED
    BY <1>3, <1>7, <1>8, <2>1 DEF step
<1>9. CASE n # 0
  <2>1. Flattening(seqs) = CHOOSE g : Eq(g)
    BY DEF Flattening, n
  <2>2. Eq(Flattening(seqs))
    <3> HIDE DEF Eq
    <3> QED
      BY <1>5, <2>1
  <2>3. Flattening(seqs)[n] = F[n]
    <3>1. n \in 1 .. n
      BY <1>1, <1>9
    <3> HIDE DEF Eq
    <3> QED
      BY <1>6, <2>2, <3>1
  <2> QED
    BY <1>3, <1>7, <1>9, <2>3 DEF step
<1> QED
  BY <1>8, <1>9

\* No list, flattened.
LEMMA FlattenEmpty == FlattenSeq(<<>>) = <<>>
  BY DEF FlattenSeq

\* One list more is put behind the others.
LEMMA FlattenAppend ==
    ASSUME NEW V, NEW seqs \in Seq(Seq(V)), NEW l \in Seq(V)
    PROVE  /\ FlattenSeq(seqs) \in Seq(V)
           /\ FlattenSeq(Append(seqs, l)) = FlattenSeq(seqs) \o l
<1> DEFINE step == ConcatStep(V)
           none == <<>>
           more == Append(seqs, l)
           U == Seq(V)
<1>1. /\ step \in Steps(U, U) /\ none \in U /\ \A x, y \in U : step[<<x, y>>] = x \o y
      /\ more \in Seq(U) /\ l \in U
  <2>1. none \in U /\ more \in Seq(U) /\ l \in U
    OBVIOUS
  <2> HIDE DEF none, more
  <2> QED
    BY <2>1, ConcatSteps
<1>2. FlattenSeq(seqs) = FoldOf(step, none, seqs)
  BY FlattenIsFold
<1>3. FlattenSeq(more) = FoldOf(step, none, more)
  BY <1>1, FlattenIsFold
<1> HIDE DEF step, none, U
<1>4. seqs \in Seq(U)
  BY DEF U
<1>5. FoldOf(step, none, seqs) \in U /\ FoldOf(step, none, Append(seqs, l)) = step[<<FoldOf(step, none, seqs), l>>]
  BY <1>1, <1>4, FoldOfAppend
<1> QED
  BY <1>1, <1>2, <1>3, <1>5 DEF U

-----------------------------------------------------------------------------
(* Sums of what the members of a list weigh *)

\* Adding the weight of one more element.
WeighStep(V, w) == [p \in Nat \X V |-> p[1] + w[p[2]]]

\* The weights that elements may have, and what the elements of a list weigh together.
Weights(V) == [V -> Nat]

Weigh(V, w, list) == FoldOf(WeighStep(V, w), 0, list)

\* Adding a weight, as a step of a fold.
LEMMA WeighSteps ==
    ASSUME NEW V, NEW w \in Weights(V)
    PROVE  /\ WeighStep(V, w) \in Steps(Nat, V)
           /\ \A n \in Nat, v \in V : WeighStep(V, w)[<<n, v>>] = n + w[v] /\ w[v] \in Nat
<1>1. \A p \in Nat \X V : p[1] \in Nat /\ p[2] \in V /\ w[p[2]] \in Nat
  BY DEF Weights
<1>2. \A p \in Nat \X V : p[1] + w[p[2]] \in Nat
  BY <1>1
<1>3. \A n \in Nat, v \in V : <<n, v>> \in Nat \X V /\ <<n, v>>[1] = n /\ <<n, v>>[2] = v
  OBVIOUS
<1> QED
  BY <1>1, <1>2, <1>3 DEF WeighStep, Steps, Weights

\* An empty list weighs nothing.
LEMMA WeighEmpty == \A V, w : Weigh(V, w, <<>>) = 0
<1> TAKE V, w
<1> DEFINE step == WeighStep(V, w)
<1>1. FoldOf(step, 0, <<>>) = 0
  <2> HIDE DEF step
  <2> QED
    BY FoldOfEmpty
<1> QED
  BY <1>1 DEF Weigh

\* One more element adds its weight.
LEMMA WeighAppend ==
    ASSUME NEW V, NEW w \in Weights(V), NEW list \in Seq(V), NEW v \in V
    PROVE  /\ Weigh(V, w, list) \in Nat /\ w[v] \in Nat
           /\ Weigh(V, w, Append(list, v)) = Weigh(V, w, list) + w[v]
<1> DEFINE step == WeighStep(V, w)
<1>1. step \in Steps(Nat, V) /\ \A n \in Nat, x \in V : step[<<n, x>>] = n + w[x] /\ w[x] \in Nat
  BY WeighSteps
<1> HIDE DEF step
<1>2. /\ FoldOf(step, 0, list) \in Nat
      /\ FoldOf(step, 0, Append(list, v)) = step[<<FoldOf(step, 0, list), v>>]
  <2>1. 0 \in Nat /\ step \in Steps(Nat, V)
    BY <1>1
  <2> QED
    BY ONLY <2>1, FoldOfAppend
<1> QED
  BY <1>1, <1>2 DEF Weigh, step

\* A list weighs a natural number.
LEMMA WeighNat ==
    ASSUME NEW V, NEW w \in Weights(V), NEW list \in Seq(V)
    PROVE  Weigh(V, w, list) \in Nat
<1> DEFINE W == {l \in Seq(V) : Weigh(V, w, l) \in Nat}
<1>1. <<>> \in W
  BY WeighEmpty
<1>2. ASSUME NEW front \in Seq(V), NEW v \in V, front \in W PROVE Append(front, v) \in W
  <2>1. Append(front, v) \in Seq(V)
    OBVIOUS
  <2>2. Weigh(V, w, front) \in Nat /\ w[v] \in Nat
        /\ Weigh(V, w, Append(front, v)) = Weigh(V, w, front) + w[v]
    BY WeighAppend
  <2>3. Weigh(V, w, Append(front, v)) \in Nat
    BY <2>2
  <2> QED
    BY <2>1, <2>3
<1> HIDE DEF W
<1>3. list \in W
  BY <1>1, <1>2, ListInduction
<1> QED
  BY <1>3 DEF W

\* A fold that starts from another number adds as much.
LEMMA WeighFrom ==
    ASSUME NEW V, NEW w \in Weights(V), NEW list \in Seq(V), NEW base \in Nat
    PROVE  FoldOf(WeighStep(V, w), base, list) = base + Weigh(V, w, list)
<1> DEFINE step == WeighStep(V, w)
           W == {l \in Seq(V) : FoldOf(step, base, l) = base + Weigh(V, w, l)}
<1>1. <<>> \in W
  <2>1. FoldOf(step, base, <<>>) = base /\ Weigh(V, w, <<>>) = 0 /\ <<>> \in Seq(V)
    <3> HIDE DEF step
    <3> QED
      BY FoldOfEmpty, WeighEmpty
  <2> QED
    BY <2>1
<1>2. ASSUME NEW front \in Seq(V), NEW v \in V, front \in W PROVE Append(front, v) \in W
  <2>1. Append(front, v) \in Seq(V)
    OBVIOUS
  <2>2. Weigh(V, w, front) \in Nat /\ w[v] \in Nat
        /\ Weigh(V, w, Append(front, v)) = Weigh(V, w, front) + w[v]
    BY WeighAppend
  <2>3. step \in Steps(Nat, V) /\ \A n \in Nat, x \in V : step[<<n, x>>] = n + w[x] /\ w[x] \in Nat
    BY WeighSteps
  <2>4. FoldOf(step, base, front) = base + Weigh(V, w, front)
    BY <1>2
  <2> HIDE DEF step
  <2>5. /\ FoldOf(step, base, front) \in Nat
        /\ FoldOf(step, base, Append(front, v)) = step[<<FoldOf(step, base, front), v>>]
    <3> DEFINE T == Nat
    <3>1. base \in T /\ step \in Steps(T, V)
      BY <2>3
    <3> HIDE DEF T, W
    <3>2. /\ FoldOf(step, base, front) \in T
          /\ FoldOf(step, base, Append(front, v)) = step[<<FoldOf(step, base, front), v>>]
      BY <3>1, FoldOfAppend
    <3> QED
      BY <3>2 DEF T
  <2>6. FoldOf(step, base, Append(front, v)) = base + Weigh(V, w, Append(front, v))
    BY <2>2, <2>3, <2>4, <2>5
  <2> QED
    BY <2>1, <2>6 DEF step
<1> HIDE DEF W
<1>3. list \in W
  BY <1>1, <1>2, ListInduction
<1> QED
  BY <1>3 DEF W

\* Two lists weigh what each of them does.
LEMMA WeighConcat ==
    ASSUME NEW V, NEW w \in Weights(V), NEW list \in Seq(V), NEW more \in Seq(V)
    PROVE  Weigh(V, w, list \o more) = Weigh(V, w, list) + Weigh(V, w, more)
<1> DEFINE step == WeighStep(V, w)
           n == Weigh(V, w, list)
<1>1. step \in Steps(Nat, V) /\ n \in Nat
  BY WeighSteps, WeighNat
<1>2. Weigh(V, w, list) = FoldOf(step, 0, list) /\ Weigh(V, w, list \o more) = FoldOf(step, 0, list \o more)
  BY DEF Weigh
<1>3. FoldOf(step, n, more) = n + Weigh(V, w, more)
  <2> HIDE DEF n
  <2> QED
    BY <1>1, WeighFrom
<1> HIDE DEF step
<1>4. FoldOf(step, 0, list \o more) = FoldOf(step, FoldOf(step, 0, list), more)
  <2>1. 0 \in Nat
    OBVIOUS
  <2> QED
    BY <1>1, <2>1, FoldOfConcat
<1> QED
  BY <1>2, <1>3, <1>4

\* The members of one of two disjoint sets.
LEMMA WeighKept ==
    ASSUME NEW V, NEW w \in Weights(V), NEW list \in Seq(V), NEW A, NEW B, A \cap B = {}
    PROVE  Weigh(V, w, Kept(list, A \cup B)) = Weigh(V, w, Kept(list, A)) + Weigh(V, w, Kept(list, B))
<1> DEFINE Sum(S, l) == Weigh(V, w, Kept(l, S))
           C == A \cup B
           W == {l \in Seq(V) : Sum(C, l) = Sum(A, l) + Sum(B, l)}
<1>1. <<>> \in W
  <2>1. \A S : Sum(S, <<>>) = 0
    BY KeptEmpty, WeighEmpty
  <2> HIDE DEF Sum, C
  <2> QED
    BY <2>1
<1>2. ASSUME NEW front \in Seq(V), NEW v \in V, front \in W PROVE Append(front, v) \in W
  <2>1. Append(front, v) \in Seq(V)
    OBVIOUS
  <2>2. ASSUME NEW S PROVE /\ Sum(S, front) \in Nat /\ w[v] \in Nat
                           /\ Sum(S, Append(front, v)) = Sum(S, front) + IF v \in S THEN w[v] ELSE 0
    <3>1. Kept(front, S) \in Seq(V)
      BY KeptFacts
    <3>2. Kept(Append(front, v), S) = IF v \in S THEN Append(Kept(front, S), v) ELSE Kept(front, S)
      BY KeptAppend
    <3>3. /\ Weigh(V, w, Kept(front, S)) \in Nat /\ w[v] \in Nat
          /\ Weigh(V, w, Append(Kept(front, S), v)) = Weigh(V, w, Kept(front, S)) + w[v]
      BY <3>1, WeighAppend
    <3> QED
      BY <3>2, <3>3
  <2>3. Sum(C, front) = Sum(A, front) + Sum(B, front)
    BY <1>2
  <2>4. v \in C <=> v \in A \/ v \in B
    OBVIOUS
  <2>5. ~(v \in A /\ v \in B)
    OBVIOUS
  <2> HIDE DEF Sum, C
  <2>6. Sum(C, Append(front, v)) = Sum(A, Append(front, v)) + Sum(B, Append(front, v))
    <3>1. /\ Sum(A, front) \in Nat /\ Sum(B, front) \in Nat /\ Sum(C, front) \in Nat /\ w[v] \in Nat
          /\ Sum(A, Append(front, v)) = Sum(A, front) + IF v \in A THEN w[v] ELSE 0
          /\ Sum(B, Append(front, v)) = Sum(B, front) + IF v \in B THEN w[v] ELSE 0
          /\ Sum(C, Append(front, v)) = Sum(C, front) + IF v \in C THEN w[v] ELSE 0
      BY <2>2
    <3> QED
      BY <2>3, <2>4, <2>5, <3>1
  <2> QED
    BY <2>1, <2>6
<1>3. list \in W
  <2> HIDE DEF W
  <2> QED
    BY <1>1, <1>2, ListInduction
<1> QED
  BY <1>3

\* The length of what is kept counts its members.
Counting(V, S) == [v \in V |-> IF v \in S THEN 1 ELSE 0]

\* What is kept of a list is as long as the list has members of S.
LEMMA KeptLength ==
    ASSUME NEW V, NEW list \in Seq(V), NEW S
    PROVE  Len(Kept(list, S)) = Weigh(V, Counting(V, S), list)
<1> DEFINE w == Counting(V, S)
           W == {l \in Seq(V) : Len(Kept(l, S)) = Weigh(V, w, l)}
<1>1. w \in Weights(V) /\ \A v \in V : w[v] = IF v \in S THEN 1 ELSE 0
  BY DEF Weights, Counting
<1> HIDE DEF w
<1>2. <<>> \in W
  <2>1. Kept(<<>>, S) = <<>> /\ Weigh(V, w, <<>>) = 0
    BY KeptEmpty, WeighEmpty
  <2> QED
    BY <2>1
<1>3. ASSUME NEW front \in Seq(V), NEW v \in V, front \in W PROVE Append(front, v) \in W
  <2>1. Append(front, v) \in Seq(V)
    OBVIOUS
  <2>2. Kept(front, S) \in Seq(V)
    BY KeptFacts
  <2>3. Kept(Append(front, v), S) = IF v \in S THEN Append(Kept(front, S), v) ELSE Kept(front, S)
    BY KeptAppend
  <2>4. Len(Append(Kept(front, S), v)) = Len(Kept(front, S)) + 1 /\ Len(Kept(front, S)) \in Nat
    BY <2>2
  <2>5. /\ Weigh(V, w, front) \in Nat
        /\ Weigh(V, w, Append(front, v)) = Weigh(V, w, front) + w[v]
    BY <1>1, WeighAppend
  <2>6. Len(Kept(front, S)) = Weigh(V, w, front)
    BY <1>3
  <2>7. Len(Kept(Append(front, v), S)) = Weigh(V, w, Append(front, v))
    BY <1>1, <2>3, <2>4, <2>5, <2>6
  <2> QED
    BY <2>1, <2>7
<1> HIDE DEF W
<1>4. list \in W
  BY <1>2, <1>3, ListInduction
<1> QED
  BY <1>4 DEF W, w

-----------------------------------------------------------------------------
(* The lists of the members of a list, one after the other *)

\* The value of f at each element, and those values, lists themselves, put together.
Mapped(f, list) == [i \in DOMAIN list |-> f[list[i]]]

FlatMap(f, list) == FlattenSeq(Mapped(f, list))

\* The members of two lists, one behind the other.
LEMMA ConcatSet ==
    ASSUME NEW V, NEW list \in Seq(V), NEW more \in Seq(V)
    PROVE  list \o more \in Seq(V) /\ ToSet(list \o more) = ToSet(list) \cup ToSet(more)
<1> DEFINE both == list \o more
           m == Len(list)
           n == Len(more)
<1>1. /\ m \in Nat /\ n \in Nat /\ both \in Seq(V)
      /\ DOMAIN list = 1 .. m /\ DOMAIN more = 1 .. n /\ DOMAIN both = 1 .. m + n
      /\ \A i \in 1 .. m + n : both[i] = IF i <= m THEN list[i] ELSE more[i - m]
  OBVIOUS
<1> HIDE DEF both, m, n
<1>2. ASSUME NEW x \in ToSet(both) PROVE x \in ToSet(list) \cup ToSet(more)
  <2>1. PICK i \in 1 .. m + n : both[i] = x
    BY <1>1 DEF ToSet
  <2>2. CASE i <= m
    <3>1. i \in 1 .. m /\ x = list[i]
      BY <1>1, <2>1, <2>2
    <3> QED
      BY <1>1, <3>1 DEF ToSet
  <2>3. CASE ~(i <= m)
    <3>1. i - m \in 1 .. n /\ x = more[i - m]
      BY <1>1, <2>1, <2>3
    <3> QED
      BY <1>1, <3>1 DEF ToSet
  <2> QED
    BY <2>2, <2>3
<1>3. ASSUME NEW x \in ToSet(list) PROVE x \in ToSet(both)
  <2>1. PICK i \in 1 .. m : list[i] = x
    BY <1>1 DEF ToSet
  <2>2. i \in 1 .. m + n /\ both[i] = x
    BY <1>1, <2>1
  <2> QED
    BY <1>1, <2>2 DEF ToSet
<1>4. ASSUME NEW x \in ToSet(more) PROVE x \in ToSet(both)
  <2>1. PICK i \in 1 .. n : more[i] = x
    BY <1>1 DEF ToSet
  <2>2. i + m \in 1 .. m + n /\ ~(i + m <= m) /\ (i + m) - m = i
    BY <1>1
  <2>3. both[i + m] = x
    BY <1>1, <2>1, <2>2
  <2> QED
    BY <1>1, <2>2, <2>3 DEF ToSet
<1> QED
  BY <1>1, <1>2, <1>3, <1>4 DEF both

\* The functions of a set into another.
Into(V, T) == [V -> T]

\* One more element is mapped behind the others.
LEMMA MappedAppend ==
    ASSUME NEW V, NEW T, NEW f \in Into(V, T), NEW list \in Seq(V), NEW v \in V
    PROVE  /\ Mapped(f, list) \in Seq(T) /\ f[v] \in T
           /\ Mapped(f, Append(list, v)) = Append(Mapped(f, list), f[v])
<1> DEFINE n == Len(list)
           more == Append(list, v)
           a == [i \in 1 .. n |-> f[list[i]]]
           b == [i \in 1 .. n + 1 |-> f[more[i]]]
           c == Append(a, f[v])
<1>1. /\ n \in Nat /\ DOMAIN list = 1 .. n /\ DOMAIN more = 1 .. n + 1
      /\ \A i \in 1 .. n : list[i] \in V /\ more[i] = list[i]
      /\ more[n + 1] = v /\ f[v] \in T
  BY DEF Into
<1> HIDE DEF n, more
<1>2. a \in Seq(T) /\ Len(a) = n /\ \A i \in 1 .. n : a[i] = f[list[i]]
  BY <1>1 DEF Into
<1>3. b \in Seq(T) /\ Len(b) = n + 1 /\ \A i \in 1 .. n + 1 : b[i] = f[more[i]]
  BY <1>1 DEF Into
<1> HIDE DEF a, b
<1>4. c \in Seq(T) /\ Len(c) = n + 1 /\ (\A i \in 1 .. n : c[i] = a[i]) /\ c[n + 1] = f[v]
  BY <1>1, <1>2
<1> HIDE DEF c
<1>5. \A i \in 1 .. n + 1 : b[i] = c[i]
  <2> TAKE i \in 1 .. n + 1
  <2>1. CASE i \in 1 .. n
    BY <1>1, <1>2, <1>3, <1>4, <2>1
  <2>2. CASE i = n + 1
    BY <1>1, <1>3, <1>4, <2>2
  <2> QED
    BY <1>1, <2>1, <2>2
<1>6. b = c
  BY <1>3, <1>4, <1>5, SeqEqual
<1>7. Mapped(f, list) = a /\ Mapped(f, more) = b
  BY <1>1 DEF Mapped, a, b
<1> QED
  BY <1>1, <1>2, <1>6, <1>7 DEF c, more

\* Nothing is behind the members of an empty list.
LEMMA FlatMapEmpty == \A f : FlatMap(f, <<>>) = <<>>
<1> TAKE f
<1>1. Mapped(f, <<>>) = <<>>
  BY DEF Mapped
<1> QED
  BY <1>1, FlattenEmpty DEF FlatMap

\* The list of one more member is put behind those of the others.
LEMMA FlatMapAppend ==
    ASSUME NEW V, NEW T, NEW f \in Into(V, Seq(T)), NEW list \in Seq(V), NEW v \in V
    PROVE  /\ FlatMap(f, list) \in Seq(T) /\ f[v] \in Seq(T)
           /\ FlatMap(f, Append(list, v)) = FlatMap(f, list) \o f[v]
<1> DEFINE U == Seq(T)
           a == Mapped(f, list)
           more == Append(list, v)
           b == Mapped(f, more)
<1>1. f \in Into(V, U)
  OBVIOUS
<1> HIDE DEF U
<1>2. a \in Seq(U) /\ f[v] \in U /\ b = Append(a, f[v])
  BY <1>1, MappedAppend
<1> HIDE DEF a, b, more
<1>3. FlattenSeq(a) \in Seq(T) /\ FlattenSeq(Append(a, f[v])) = FlattenSeq(a) \o f[v]
  BY <1>2, FlattenAppend DEF U
<1>4. FlatMap(f, list) = FlattenSeq(a) /\ FlatMap(f, more) = FlattenSeq(b)
  BY DEF FlatMap, a, b
<1> QED
  BY <1>2, <1>3, <1>4 DEF U, more

\* The members of the lists are those of each.
LEMMA FlatMapFacts ==
    ASSUME NEW V, NEW T, NEW f \in Into(V, Seq(T)), NEW list \in Seq(V)
    PROVE  /\ FlatMap(f, list) \in Seq(T)
           /\ ToSet(FlatMap(f, list)) = UNION {ToSet(f[v]) : v \in ToSet(list)}
<1> DEFINE Good(l) == /\ FlatMap(f, l) \in Seq(T)
                      /\ ToSet(FlatMap(f, l)) = UNION {ToSet(f[v]) : v \in ToSet(l)}
           W == {l \in Seq(V) : Good(l)}
<1>1. <<>> \in W
  <2> DEFINE none == <<>>
  <2>1. ToSet(none) = {} /\ none \in Seq(V) /\ none \in Seq(T)
    BY DEF ToSet
  <2>2. FlatMap(f, none) = none
    BY FlatMapEmpty
  <2> HIDE DEF none
  <2>3. Good(none)
    BY <2>1, <2>2
  <2> HIDE DEF Good
  <2> QED
    BY <2>1, <2>3 DEF none
<1>2. ASSUME NEW front \in Seq(V), NEW x \in V, front \in W PROVE Append(front, x) \in W
  <2> DEFINE more == Append(front, x)
  <2>1. more \in Seq(V) /\ ToSet(more) = ToSet(front) \cup {x}
    BY AppendedSet
  <2>2. FlatMap(f, front) \in Seq(T) /\ f[x] \in Seq(T) /\ FlatMap(f, more) = FlatMap(f, front) \o f[x]
    BY FlatMapAppend
  <2>3. ToSet(FlatMap(f, front)) = UNION {ToSet(f[v]) : v \in ToSet(front)}
    BY <1>2
  <2> HIDE DEF more, W
  <2>4. FlatMap(f, more) \in Seq(T) /\ ToSet(FlatMap(f, more)) = ToSet(FlatMap(f, front)) \cup ToSet(f[x])
    BY <2>2, ConcatSet
  <2>5. Good(more)
    BY <2>1, <2>3, <2>4
  <2> HIDE DEF Good
  <2> QED
    BY <2>1, <2>5 DEF W, more
<1> HIDE DEF Good
<1>3. list \in W
  <2> HIDE DEF W
  <2> QED
    BY <1>1, <1>2, ListInduction
<1>4. Good(list)
  BY <1>3
<1> QED
  BY <1>4 DEF Good

-----------------------------------------------------------------------------
(* A list sorted into classes *)

\* The classes of the first k numbers, one after the other.
ByClass(list, class, k) == FlattenSeq([i \in 1 .. k |-> Kept(list, class[i])])

\* The classes are put one behind the other.
LEMMA ByClassSteps ==
    ASSUME NEW V, NEW list \in Seq(V), NEW class
    PROVE  /\ ByClass(list, class, 0) = <<>>
           /\ \A k \in Nat : /\ ByClass(list, class, k) \in Seq(V)
                             /\ ByClass(list, class, k + 1) = ByClass(list, class, k) \o Kept(list, class[k + 1])
<1> DEFINE At(k) == [i \in 1 .. k |-> Kept(list, class[i])]
           U == Seq(V)
<1>1. ByClass(list, class, 0) = <<>>
  <2>1. [i \in 1 .. 0 |-> Kept(list, class[i])] = <<>>
    OBVIOUS
  <2> QED
    BY <2>1, FlattenEmpty DEF ByClass
<1>2. \A S : Kept(list, S) \in U
  BY KeptFacts
<1>3. ASSUME NEW k \in Nat
      PROVE  /\ ByClass(list, class, k) \in Seq(V)
             /\ ByClass(list, class, k + 1) = ByClass(list, class, k) \o Kept(list, class[k + 1])
  <2> DEFINE l == Kept(list, class[k + 1])
             a == At(k)
             b == At(k + 1)
             c == Append(a, l)
  <2>1. l \in U
    BY <1>2
  <2> HIDE DEF U
  <2>2. a \in Seq(U) /\ Len(a) = k /\ \A i \in 1 .. k : a[i] = Kept(list, class[i])
    BY <1>2
  <2>3. b \in Seq(U) /\ Len(b) = k + 1 /\ \A i \in 1 .. k + 1 : b[i] = Kept(list, class[i])
    BY <1>2
  <2> HIDE DEF a, b, l
  <2>4. c \in Seq(U) /\ Len(c) = k + 1 /\ (\A i \in 1 .. k : c[i] = a[i]) /\ c[k + 1] = l
    BY <2>1, <2>2
  <2> HIDE DEF c
  <2>5. \A i \in 1 .. k + 1 : b[i] = c[i]
    <3> TAKE i \in 1 .. k + 1
    <3>1. CASE i \in 1 .. k
      BY <2>2, <2>3, <2>4, <3>1
    <3>2. CASE i = k + 1
      BY <2>3, <2>4, <3>2 DEF l
    <3> QED
      BY <3>1, <3>2
  <2>6. b = c
    BY <2>3, <2>4, <2>5, SeqEqual
  <2>7. FlattenSeq(a) \in Seq(V) /\ FlattenSeq(Append(a, l)) = FlattenSeq(a) \o l
    BY <2>1, <2>2, FlattenAppend DEF U
  <2>8. ByClass(list, class, k) = FlattenSeq(a) /\ ByClass(list, class, k + 1) = FlattenSeq(b)
    BY DEF ByClass, a, b
  <2> QED
    BY <2>6, <2>7, <2>8 DEF c, l
<1> QED
  BY <1>1, <1>3

\* The members of the first classes.
United(class, k) == UNION {class[i] : i \in 1 .. k}

\* No element is in two classes.
NoOverlap(class, n) == \A i, j \in 1 .. n : i # j => class[i] \cap class[j] = {}

\* Sorted into disjoint classes, a list keeps its members and their weight.
LEMMA ByClassFacts ==
    ASSUME NEW V, NEW list \in Seq(V), NEW class, NEW n \in Nat, NoOverlap(class, n)
    PROVE  /\ ByClass(list, class, n) \in Seq(V)
           /\ ToSet(ByClass(list, class, n)) = ToSet(list) \cap United(class, n)
           /\ \A w \in Weights(V) :
                  Weigh(V, w, ByClass(list, class, n)) = Weigh(V, w, Kept(list, United(class, n)))
<1> DEFINE Sort(k) == ByClass(list, class, k)
           Upto(k) == United(class, k)
           Good(k) == /\ Sort(k) \in Seq(V)
                      /\ ToSet(Sort(k)) = ToSet(list) \cap Upto(k)
                      /\ \A w \in Weights(V) : Weigh(V, w, Sort(k)) = Weigh(V, w, Kept(list, Upto(k)))
           K == {k \in 0 .. n : Good(k)}
<1>0. /\ Sort(0) = <<>>
      /\ \A k \in Nat : Sort(k) \in Seq(V) /\ Sort(k + 1) = Sort(k) \o Kept(list, class[k + 1])
  BY ONLY ByClassSteps, list \in Seq(V)
<1>1. Good(0)
  <2> DEFINE none == <<>>
  <2>1. Upto(0) = {} /\ ToSet(none) = {} /\ none \in Seq(V)
    BY DEF ToSet, United
  <2>2. Sort(0) = none
    BY <1>0
  <2>3. Kept(list, {}) = none
    <3>1. Kept(list, {}) \in Seq(V) /\ ToSet(Kept(list, {})) = {}
      <4>1. Kept(list, {}) \in Seq(V) /\ ToSet(Kept(list, {})) = ToSet(list) \cap {}
        BY KeptFacts
      <4> QED
        BY <4>1
    <3>2. \A l \in Seq(V) : l # none => l[1] \in ToSet(l)
      BY DEF ToSet
    <3> QED
      BY <3>1, <3>2
  <2> HIDE DEF none, Sort, Upto
  <2> QED
    BY <2>1, <2>2, <2>3
<1>2. ASSUME NEW k \in 0 .. n - 1, Good(k) PROVE Good(k + 1)
  <2> DEFINE l == Kept(list, class[k + 1])
  <2>0. k \in Nat /\ k + 1 \in 1 .. n /\ \A i \in 1 .. k : i \in 1 .. n /\ i # k + 1
    OBVIOUS
  <2>1. Sort(k) \in Seq(V) /\ Sort(k + 1) = Sort(k) \o l
    BY <1>0, <2>0
  <2>2. l \in Seq(V) /\ ToSet(l) = ToSet(list) \cap class[k + 1]
    BY KeptFacts
  <2>3. Upto(k + 1) = Upto(k) \cup class[k + 1]
    <3>1. 1 .. k + 1 = 1 .. k \cup {k + 1}
      BY <2>0
    <3> QED
      BY <3>1 DEF United
  <2>4. Upto(k) \cap class[k + 1] = {}
    BY <2>0 DEF United, NoOverlap
  <2>5. ASSUME NEW w \in Weights(V)
        PROVE  Weigh(V, w, Kept(list, Upto(k) \cup class[k + 1])) = Weigh(V, w, Kept(list, Upto(k))) + Weigh(V, w, l)
    <3> HIDE DEF Upto
    <3> QED
      BY <2>4, WeighKept
  <2> HIDE DEF Sort, Upto, l
  <2>6. /\ Sort(k) \o l \in Seq(V)
        /\ ToSet(Sort(k) \o l) = ToSet(Sort(k)) \cup ToSet(l)
    BY <2>1, <2>2, ConcatSet
  <2>7. ASSUME NEW w \in Weights(V)
        PROVE  Weigh(V, w, Sort(k) \o l) = Weigh(V, w, Sort(k)) + Weigh(V, w, l)
    BY <2>1, <2>2, WeighConcat
  <2>8. /\ ToSet(Sort(k)) = ToSet(list) \cap Upto(k)
        /\ \A w \in Weights(V) : Weigh(V, w, Sort(k)) = Weigh(V, w, Kept(list, Upto(k)))
    BY <1>2
  <2>9. Sort(k + 1) \in Seq(V) /\ ToSet(Sort(k + 1)) = ToSet(list) \cap Upto(k + 1)
    BY <2>1, <2>2, <2>3, <2>6, <2>8
  <2>10. \A w \in Weights(V) : Weigh(V, w, Sort(k + 1)) = Weigh(V, w, Kept(list, Upto(k + 1)))
    BY <2>1, <2>3, <2>5, <2>7, <2>8
  <2> QED
    BY <2>9, <2>10
<1> HIDE DEF Good
<1>3. 0 \in K
  BY <1>1
<1>4. ASSUME NEW k \in 0 .. n - 1, k \in K PROVE k + 1 \in K
  <2>1. Good(k + 1) /\ k + 1 \in 0 .. n
    BY <1>2, <1>4
  <2> QED
    BY <2>1
<1>5. n \in K
  <2> HIDE DEF K
  <2>1. \A k \in 0 .. n : k \in K
    BY <1>3, <1>4, InductionTo
  <2> QED
    BY <2>1
<1>6. Good(n)
  BY <1>5
<1> QED
  BY <1>6 DEF Good

-----------------------------------------------------------------------------
(* Sums over a finite set, whose elements CHOOSE takes in some order *)

\* The sums as CHOOSE finds them, and the element that each takes first.
Sums(f, S) ==
    CHOOSE g : g = [s \in SUBSET S |->
                       IF s = {} THEN 0
                       ELSE f[CHOOSE x \in s : TRUE] + g[s \ {CHOOSE x \in s : TRUE}]]

FirstOf(s) == CHOOSE x \in s : TRUE

SumOver(f, S) == Sums(f, S)[S]

\* Sums are of natural numbers, over a finite set.
Valued(f, S) == IsFiniteSet(S) /\ \A u \in S : f[u] \in Nat

\* They exist, each from that of a smaller set.
LEMMA SumsSteps ==
    ASSUME NEW f, NEW S, IsFiniteSet(S)
    PROVE  \A s \in SUBSET S :
               Sums(f, S)[s] = IF s = {} THEN 0
                               ELSE f[FirstOf(s)] + Sums(f, S)[s \ {FirstOf(s)}]
<1> DEFINE Pick(s) == CHOOSE x \in s : TRUE
           W(s) == f[Pick(s)]
           Small(n) == {s \in SUBSET S : Cardinality(s) <= n}
           Upto(g, n) == g = [s \in Small(n) |-> IF s = {} THEN 0 ELSE W(s) + g[s \ {Pick(s)}]]
           T == {n \in Nat : \E g : Upto(g, n)}
<1>1. ASSUME NEW s \in SUBSET S
      PROVE  /\ IsFiniteSet(s) /\ Cardinality(s) \in Nat
             /\ Cardinality(s) = 0 <=> s = {}
             /\ s # {} => Pick(s) \in s /\ Cardinality(s \ {Pick(s)}) = Cardinality(s) - 1
  <2>1. IsFiniteSet(s)
    BY FS_Subset
  <2>2. \A x \in s : Cardinality(s \ {x}) = Cardinality(s) - 1
    BY <2>1, FS_RemoveElement
  <2> QED
    BY <2>1, <2>2, FS_CardinalityType, FS_EmptySet
<1>2. 0 \in T
  <2>1. Small(0) = {{}}
    <3>1. {} \in SUBSET S /\ Cardinality({}) = 0
      BY FS_EmptySet
    <3> QED
      BY <1>1, <3>1
  <2>2. Upto([s \in {{}} |-> 0], 0)
    BY <2>1
  <2> HIDE DEF Upto
  <2> QED
    BY <2>2
<1>3. ASSUME NEW n \in Nat, n \in T PROVE n + 1 \in T
  <2>1. PICK g : Upto(g, n)
    BY <1>3
  <2> DEFINE h == [s \in Small(n + 1) |->
                      IF Cardinality(s) <= n THEN g[s] ELSE W(s) + g[s \ {Pick(s)}]]
  <2> HIDE DEF Pick, W
  <2>2. ASSUME NEW s \in Small(n + 1), s # {}
        PROVE  s \ {Pick(s)} \in Small(n) /\ s \ {Pick(s)} \in Small(n + 1)
    BY <1>1, <2>2
  <2>3. ASSUME NEW s \in Small(n + 1)
        PROVE  h[s] = IF s = {} THEN 0 ELSE W(s) + h[s \ {Pick(s)}]
    <3>1. CASE s = {}
      <4>1. s \in Small(n) /\ Cardinality(s) <= n
        BY <3>1, FS_EmptySet
      <4> QED
        BY <2>1, <3>1, <4>1
    <3>2. CASE s # {}
      <4>1. h[s \ {Pick(s)}] = g[s \ {Pick(s)}]
        BY <2>2, <3>2
      <4>2. CASE s \in Small(n)
        BY <2>1, <3>2, <4>1, <4>2
      <4>3. CASE s \notin Small(n)
        BY <3>2, <4>1, <4>3
      <4> QED
        BY <4>2, <4>3
    <3> QED
      BY <3>1, <3>2
  <2>4. Upto(h, n + 1)
    <3>1. h = [s \in Small(n + 1) |-> h[s]]
      OBVIOUS
    <3> HIDE DEF h, Small
    <3> QED
      BY <2>3, <3>1
  <2> HIDE DEF Upto, h
  <2> QED
    BY <2>4
<1>4. Cardinality(S) \in T
  <2> HIDE DEF T
  <2> QED
    BY <1>1, <1>2, <1>3, Induction
<1>5. Small(Cardinality(S)) = SUBSET S
  BY <1>1, FS_Subset
<1>6. \E g : g = [s \in SUBSET S |-> IF s = {} THEN 0 ELSE W(s) + g[s \ {Pick(s)}]]
  BY <1>4, <1>5, ZenonT(60)
<1>7. Sums(f, S) = [s \in SUBSET S |-> IF s = {} THEN 0 ELSE W(s) + Sums(f, S)[s \ {Pick(s)}]]
  BY <1>6, Zenon DEF Sums
<1> HIDE DEF Pick, W
<1>8. \A s \in SUBSET S : Sums(f, S)[s] = IF s = {} THEN 0 ELSE W(s) + Sums(f, S)[s \ {Pick(s)}]
  BY <1>7, Zenon
<1> QED
  BY <1>8, Zenon DEF Pick, W, FirstOf

\* Which entry is counted first makes no difference.
LEMMA SumsAnyOrder ==
    ASSUME NEW f, NEW S, Valued(f, S)
    PROVE  /\ Sums(f, S)[{}] = 0
           /\ \A s \in SUBSET S :
                  /\ Sums(f, S)[s] \in Nat
                  /\ \A u \in s : Sums(f, S)[s] = f[u] + Sums(f, S)[s \ {u}]
<1>0. IsFiniteSet(S) /\ \A u \in S : f[u] \in Nat
  BY DEF Valued
<1> DEFINE Pick(s) == FirstOf(s)
           W(u) == f[u]
           G == Sums(f, S)
           Good(s) == G[s] \in Nat /\ \A u \in s : G[s] = W(u) + G[s \ {u}]
           T == {n \in Nat : \A s \in SUBSET S : Cardinality(s) <= n => Good(s)}
<1>1. ASSUME NEW s \in SUBSET S
      PROVE  /\ IsFiniteSet(s) /\ Cardinality(s) \in Nat
             /\ Cardinality(s) = 0 <=> s = {}
             /\ s # {} => Pick(s) \in s
             /\ \A u \in s : Cardinality(s \ {u}) = Cardinality(s) - 1
  <2>1. IsFiniteSet(s)
    BY <1>0, FS_Subset
  <2>2. \A x \in s : Cardinality(s \ {x}) = Cardinality(s) - 1
    BY <2>1, FS_RemoveElement
  <2> QED
    BY <2>1, <2>2, FS_CardinalityType, FS_EmptySet DEF FirstOf
<1>2. G[{}] = 0 /\ \A s \in SUBSET S : s # {} => G[s] = W(Pick(s)) + G[s \ {Pick(s)}]
  <2>1. \A s \in SUBSET S : G[s] = IF s = {} THEN 0 ELSE W(Pick(s)) + G[s \ {Pick(s)}]
    BY <1>0, SumsSteps, Zenon
  <2> HIDE DEF G, W, Pick
  <2> QED
    BY <2>1
<1>3. \A u \in S : W(u) \in Nat
  BY <1>0
<1> HIDE DEF G, W, Pick
<1>4. 0 \in T
  <2>1. \A s \in SUBSET S : Cardinality(s) <= 0 => s = {}
    BY <1>1
  <2>2. Good({})
    BY <1>2
  <2> HIDE DEF Good
  <2> QED
    BY <2>1, <2>2
<1>5. ASSUME NEW n \in Nat, n \in T PROVE n + 1 \in T
  <2> SUFFICES ASSUME NEW s \in SUBSET S, Cardinality(s) = n + 1 PROVE Good(s)
    <3> HIDE DEF Good
    <3>1. \A t \in SUBSET S : Cardinality(t) <= n + 1 => Cardinality(t) <= n \/ Cardinality(t) = n + 1
      BY <1>1
    <3>2. \A t \in SUBSET S : Cardinality(t) <= n + 1 => Good(t)
      BY <1>5, <3>1
    <3> QED
      BY <3>2
  <2> DEFINE y == Pick(s)
  <2>1. y \in s /\ W(y) \in Nat
    BY <1>1, <1>3
  <2>2. ASSUME NEW u \in s PROVE s \ {u} \in SUBSET S /\ Good(s \ {u})
    BY <1>1, <1>5, <2>2
  <2>3. G[s] = W(y) + G[s \ {y}]
    BY <1>2, <2>1
  <2>4. ASSUME NEW u \in s PROVE G[s] = W(u) + G[s \ {u}]
    <3>1. CASE u = y
      BY <2>3, <3>1
    <3>2. CASE u # y
      <4>1. u \in s \ {y} /\ y \in s \ {u} /\ W(u) \in Nat
        BY <1>3, <2>1, <3>2
      <4>2. G[s \ {y}] = W(u) + G[(s \ {u}) \ {y}]
        <5>1. G[s \ {y}] = W(u) + G[(s \ {y}) \ {u}]
          BY <2>1, <2>2, <4>1
        <5>2. (s \ {y}) \ {u} = (s \ {u}) \ {y}
          OBVIOUS
        <5> HIDE DEF y
        <5> QED
          BY <5>1, <5>2
      <4>3. G[s \ {u}] = W(y) + G[(s \ {u}) \ {y}]
        BY <2>2, <4>1
      <4>4. G[(s \ {u}) \ {y}] \in Nat
        <5> DEFINE r == (s \ {u}) \ {y}
        <5>1. s \ {u} \in SUBSET S /\ r \in SUBSET S
          OBVIOUS
        <5>2. Cardinality(s \ {u}) = n
          BY <1>1
        <5>3. Cardinality(r) = n - 1
          BY <1>1, <4>1, <5>1, <5>2
        <5> HIDE DEF r
        <5>4. Good(r)
          <6> HIDE DEF Good
          <6> QED
            BY <1>5, <5>1, <5>3
        <5> QED
          BY <5>4 DEF r
      <4> HIDE DEF y
      <4> QED
        BY <2>1, <2>3, <4>1, <4>2, <4>3, <4>4
    <3> QED
      BY <3>1, <3>2
  <2>5. G[s] \in Nat
    <3>1. G[s \ {y}] \in Nat
      BY <2>1, <2>2
    <3> HIDE DEF y
    <3> QED
      BY <2>1, <2>3, <3>1
  <2> QED
    BY <2>4, <2>5
<1>6. ASSUME NEW s \in SUBSET S PROVE Good(s)
  <2>1. \A n \in Nat : n \in T
    <3> HIDE DEF T
    <3> QED
      BY <1>4, <1>5, Induction
  <2> QED
    BY <1>1, <2>1
<1> QED
  BY <1>2, <1>6 DEF G, W

\* Sums over the same elements are the same, whatever set they are part of.
SameValues(f, g, D) == \A u \in D : f[u] = g[u]

LEMMA SumsAlike ==
    ASSUME NEW f, NEW g, NEW S, NEW D, D \subseteq S, Valued(f, S), SameValues(f, g, D)
    PROVE  SumOver(g, D) = Sums(f, S)[D]
<1> DEFINE G == Sums(f, S)
           H == Sums(g, D)
           T == {n \in Nat : \A s \in SUBSET D : Cardinality(s) <= n => G[s] = H[s]}
<1>0. \A u \in D : f[u] = g[u]
  BY DEF SameValues
<1>1. IsFiniteSet(D) /\ Valued(g, D)
  BY <1>0, FS_Subset DEF Valued
<1>2. /\ G[{}] = 0
      /\ \A s \in SUBSET D : \A u \in s : G[s] = f[u] + G[s \ {u}]
  <2> HIDE DEF G
  <2>1. /\ G[{}] = 0
        /\ \A s \in SUBSET S : G[s] \in Nat /\ \A u \in s : G[s] = f[u] + G[s \ {u}]
    <3> HIDE DEF H, T
    <3>1. Valued(f, S)
      OBVIOUS
    <3>2. /\ Sums(f, S)[{}] = 0
          /\ \A s \in SUBSET S :
                 /\ Sums(f, S)[s] \in Nat
                 /\ \A u \in s : Sums(f, S)[s] = f[u] + Sums(f, S)[s \ {u}]
      BY ONLY <3>1, SumsAnyOrder
    <3> QED
      BY <3>2 DEF G
  <2>2. \A s \in SUBSET D : s \in SUBSET S
    OBVIOUS
  <2> QED
    BY <2>1, <2>2
<1>3. /\ H[{}] = 0
      /\ \A s \in SUBSET D : \A u \in s : H[s] = f[u] + H[s \ {u}]
  <2>1. /\ H[{}] = 0
        /\ \A s \in SUBSET D : H[s] \in Nat /\ \A u \in s : H[s] = g[u] + H[s \ {u}]
    BY <1>1, SumsAnyOrder
  <2> HIDE DEF H
  <2> QED
    BY <1>0, <2>1
<1> HIDE DEF G, H
<1>4. ASSUME NEW s \in SUBSET D
      PROVE  /\ IsFiniteSet(s) /\ Cardinality(s) \in Nat
             /\ Cardinality(s) = 0 <=> s = {}
             /\ \A u \in s : Cardinality(s \ {u}) = Cardinality(s) - 1
  <2>1. IsFiniteSet(s)
    BY <1>1, FS_Subset
  <2>2. \A x \in s : Cardinality(s \ {x}) = Cardinality(s) - 1
    BY <2>1, FS_RemoveElement
  <2> QED
    BY <2>1, <2>2, FS_CardinalityType, FS_EmptySet
<1>5. 0 \in T
  <2>1. \A s \in SUBSET D : Cardinality(s) <= 0 => s = {}
    BY <1>4
  <2> QED
    BY <1>2, <1>3, <2>1
<1>6. ASSUME NEW n \in Nat, n \in T PROVE n + 1 \in T
  <2> SUFFICES ASSUME NEW s \in SUBSET D, Cardinality(s) <= n + 1 PROVE G[s] = H[s]
    OBVIOUS
  <2> SUFFICES ASSUME s # {} PROVE G[s] = H[s]
    BY <1>2, <1>3
  <2>1. PICK u \in s : TRUE
    OBVIOUS
  <2>2. s \ {u} \in SUBSET D /\ Cardinality(s \ {u}) <= n
    BY <1>4, <2>1
  <2>3. G[s \ {u}] = H[s \ {u}]
    BY <1>6, <2>2
  <2> QED
    BY <1>2, <1>3, <2>1, <2>3
<1>7. G[D] = H[D]
  <2>1. Cardinality(D) \in T
    <3> HIDE DEF T
    <3> QED
      BY <1>4, <1>5, <1>6, Induction
  <2>2. D \in SUBSET D /\ Cardinality(D) <= Cardinality(D)
    BY <1>4
  <2> QED
    BY <2>1, <2>2
<1> QED
  BY <1>7 DEF G, H, SumOver

\* A sum of natural numbers is one.
LEMMA SumNat ==
    ASSUME NEW f, NEW S, Valued(f, S)
    PROVE  SumOver(f, S) \in Nat
  BY SumsAnyOrder DEF SumOver

LEMMA SumEmpty == \A f : SumOver(f, {}) = 0
<1>1. \A f : Valued(f, {})
  BY FS_EmptySet DEF Valued
<1> QED
  BY <1>1, SumsAnyOrder DEF SumOver

\* One element taken out, and whatever happens to its value.
LEMMA SumWithout ==
    ASSUME NEW f, NEW S, Valued(f, S), NEW u \in S, NEW g, SameValues(f, g, S \ {u})
    PROVE  /\ SumOver(f, S) = f[u] + SumOver(g, S \ {u})
           /\ SumOver(g, S \ {u}) \in Nat /\ f[u] \in Nat
<1> DEFINE D == S \ {u}
<1>1. Sums(f, S)[S] = f[u] + Sums(f, S)[D] /\ Sums(f, S)[D] \in Nat
  <2>1. S \in SUBSET S /\ D \in SUBSET S
    OBVIOUS
  <2>2. \A s \in SUBSET S : /\ Sums(f, S)[s] \in Nat
                            /\ \A v \in s : Sums(f, S)[s] = f[v] + Sums(f, S)[s \ {v}]
    BY SumsAnyOrder
  <2> QED
    BY <2>1, <2>2
<1>2. D \subseteq S /\ SameValues(f, g, D)
  OBVIOUS
<1> HIDE DEF D
<1>3. SumOver(g, D) = Sums(f, S)[D]
  BY <1>2, SumsAlike
<1>4. f[u] \in Nat
  BY DEF Valued
<1> QED
  BY <1>1, <1>3, <1>4 DEF SumOver, D

\* Sums over the same elements are the same.
LEMMA SumSame ==
    ASSUME NEW f, NEW S, Valued(f, S), NEW g, SameValues(f, g, S)
    PROVE  SumOver(g, S) = SumOver(f, S)
  BY SumsAlike DEF SumOver

\* A value changed.
LEMMA SumChanged ==
    ASSUME NEW f, NEW S, Valued(f, S), NEW u \in S,
           NEW g, SameValues(f, g, S \ {u}), g[u] \in Nat
    PROVE  /\ SumOver(g, S) = SumOver(f, S) - f[u] + g[u]
           /\ Valued(g, S) /\ SumOver(g, S) \in Nat
<1>1. SameValues(f, f, S \ {u}) /\ SameValues(g, f, S \ {u})
  BY DEF SameValues
<1>2. Valued(g, S)
  BY DEF Valued, SameValues
<1> DEFINE rest == SumOver(f, S \ {u})
<1>3. SumOver(f, S) = f[u] + rest /\ rest \in Nat /\ f[u] \in Nat
  BY <1>1, SumWithout
<1>4. SumOver(g, S) = g[u] + rest
  BY <1>1, <1>2, SumWithout
<1> HIDE DEF rest
<1> QED
  BY <1>2, <1>3, <1>4

\* What holds of the empty set and of a set with one element more holds of a
\* finite set.
LEMMA SetInduction ==
    ASSUME NEW S, IsFiniteSet(S), NEW W, {} \in W,
           \A D \in SUBSET S, x \in S : D \in W /\ x \notin D => D \cup {x} \in W
    PROVE  S \in W
<1> DEFINE T == {n \in Nat : \A D \in SUBSET S : Cardinality(D) = n => D \in W}
<1>1. ASSUME NEW D \in SUBSET S
      PROVE  /\ IsFiniteSet(D) /\ Cardinality(D) \in Nat
             /\ Cardinality(D) = 0 <=> D = {}
             /\ \A x \in D : Cardinality(D \ {x}) = Cardinality(D) - 1
  <2>1. IsFiniteSet(D)
    BY FS_Subset
  <2>2. \A x \in D : Cardinality(D \ {x}) = Cardinality(D) - 1
    BY <2>1, FS_RemoveElement
  <2> QED
    BY <2>1, <2>2, FS_CardinalityType, FS_EmptySet
<1>2. 0 \in T
  BY <1>1
<1>3. ASSUME NEW n \in Nat, n \in T PROVE n + 1 \in T
  <2> SUFFICES ASSUME NEW D \in SUBSET S, Cardinality(D) = n + 1 PROVE D \in W
    OBVIOUS
  <2>1. PICK x \in D : TRUE
    BY <1>1
  <2>2. Cardinality(D \ {x}) = n /\ D \ {x} \in SUBSET S
    BY <1>1, <2>1
  <2>3. D \ {x} \in W
    BY <1>3, <2>2
  <2>4. (D \ {x}) \cup {x} = D
    BY <2>1
  <2>5. (D \ {x}) \cup {x} \in W
    BY <2>2, <2>3
  <2> QED
    BY <2>4, <2>5
<1> HIDE DEF T
<1>4. Cardinality(S) \in T
  BY <1>1, <1>2, <1>3, Induction
<1> QED
  BY <1>4 DEF T

\* One element more.
LEMMA SumWith ==
    ASSUME NEW f, NEW S, Valued(f, S), NEW x \in S, NEW D \in SUBSET S, x \notin D
    PROVE  /\ SumOver(f, D \cup {x}) = f[x] + SumOver(f, D)
           /\ SumOver(f, D) \in Nat /\ f[x] \in Nat
<1> DEFINE more == D \cup {x}
<1>1. Valued(f, more) /\ x \in more /\ more \ {x} = D /\ SameValues(f, f, D)
  BY FS_Subset DEF Valued, SameValues
<1> HIDE DEF more
<1>2. /\ SumOver(f, more) = f[x] + SumOver(f, more \ {x})
      /\ SumOver(f, more \ {x}) \in Nat /\ f[x] \in Nat
  BY <1>1, SumWithout
<1> QED
  BY <1>1, <1>2 DEF more

\* The sum of the sums.
LEMMA SumPlus ==
    ASSUME NEW S, NEW f, NEW g, NEW h, Valued(f, S), Valued(g, S), Valued(h, S),
           \A u \in S : h[u] = f[u] + g[u]
    PROVE  SumOver(h, S) = SumOver(f, S) + SumOver(g, S)
<1> DEFINE Good(D) == SumOver(h, D) = SumOver(f, D) + SumOver(g, D)
           W == {D \in SUBSET S : Good(D)}
<1>1. {} \in W
  BY SumEmpty
<1>2. ASSUME NEW D \in SUBSET S, NEW x \in S, D \in W, x \notin D PROVE D \cup {x} \in W
  <2>1. /\ SumOver(f, D \cup {x}) = f[x] + SumOver(f, D) /\ SumOver(f, D) \in Nat /\ f[x] \in Nat
        /\ SumOver(g, D \cup {x}) = g[x] + SumOver(g, D) /\ SumOver(g, D) \in Nat /\ g[x] \in Nat
        /\ SumOver(h, D \cup {x}) = h[x] + SumOver(h, D)
    BY <1>2, SumWith
  <2>2. h[x] = f[x] + g[x] /\ SumOver(h, D) = SumOver(f, D) + SumOver(g, D)
    BY <1>2
  <2>3. Good(D \cup {x})
    BY ONLY <2>1, <2>2
  <2> HIDE DEF Good
  <2> QED
    BY <2>3
<1> HIDE DEF W
<1>3. S \in W
  BY <1>1, <1>2, SetInduction DEF Valued
<1> QED
  BY <1>3 DEF W

\* Nothing but zeros.
LEMMA SumZero ==
    ASSUME NEW S, NEW f, Valued(f, S), \A u \in S : f[u] = 0
    PROVE  SumOver(f, S) = 0
<1>1. \A u \in S : f[u] = f[u] + f[u]
  OBVIOUS
<1>2. SumOver(f, S) = SumOver(f, S) + SumOver(f, S)
  BY <1>1, SumPlus
<1>3. SumOver(f, S) \in Nat
  BY SumNat
<1>4. \A n \in Nat : n = n + n => n = 0
  OBVIOUS
<1> QED
  BY Zenon, <1>2, <1>3, <1>4

\* Sets of which no two share an element.
Apart(A, S) == \A s, t \in S : s # t => A[s] \cap A[t] = {}

\* What disjoint sets hold together.
LEMMA UnionTotal ==
    ASSUME NEW S, IsFiniteSet(S), NEW A, \A s \in S : IsFiniteSet(A[s]), Apart(A, S),
           NEW c, \A s \in S : c[s] = Cardinality(A[s])
    PROVE  /\ IsFiniteSet(UNION {A[s] : s \in S})
           /\ SumOver(c, S) = Cardinality(UNION {A[s] : s \in S})
<1> DEFINE All(D) == UNION {A[s] : s \in D}
           Good(D) == IsFiniteSet(All(D)) /\ SumOver(c, D) = Cardinality(All(D))
           W == {D \in SUBSET S : Good(D)}
<1>0. Valued(c, S)
  BY FS_CardinalityType DEF Valued
<1>1. {} \in W
  <2>1. All({}) = {}
    OBVIOUS
  <2> HIDE DEF All
  <2> QED
    BY <2>1, SumEmpty, FS_EmptySet
<1>2. ASSUME NEW D \in SUBSET S, NEW x \in S, D \in W, x \notin D PROVE D \cup {x} \in W
  <2>1. SumOver(c, D \cup {x}) = c[x] + SumOver(c, D) /\ SumOver(c, D) \in Nat /\ c[x] \in Nat
    <3> HIDE DEF All, Good, W
    <3>1. x \notin D
      BY <1>2
    <3> QED
      BY ONLY <1>0, <3>1, SumWith, x \in S, D \in SUBSET S
  <2>2. All(D \cup {x}) = All(D) \cup A[x]
    OBVIOUS
  <2>3. All(D) \cap A[x] = {}
    BY <1>2 DEF Apart
  <2>4. Good(D) /\ IsFiniteSet(A[x]) /\ c[x] = Cardinality(A[x])
    BY <1>2
  <2> HIDE DEF All
  <2>5. /\ IsFiniteSet(All(D) \cup A[x])
        /\ Cardinality(All(D) \cup A[x]) =
              Cardinality(All(D)) + Cardinality(A[x]) - Cardinality(All(D) \cap A[x])
    BY <2>4, FS_Union
  <2>6. Cardinality(All(D) \cap A[x]) = 0
    BY <2>3, FS_EmptySet
  <2>7. /\ Cardinality(All(D)) \in Nat /\ Cardinality(A[x]) \in Nat
        /\ SumOver(c, D) = Cardinality(All(D)) /\ c[x] = Cardinality(A[x])
    BY <2>4, FS_CardinalityType
  <2>8. SumOver(c, D \cup {x}) = Cardinality(All(D) \cup A[x])
    <3> DEFINE a == Cardinality(All(D))
               b == Cardinality(A[x])
               m == Cardinality(All(D) \cap A[x])
    <3>1. /\ SumOver(c, D \cup {x}) = b + a /\ Cardinality(All(D) \cup A[x]) = a + b - m
          /\ a \in Nat /\ b \in Nat /\ m = 0
      BY <2>1, <2>5, <2>6, <2>7
    <3> QED
      BY ONLY <3>1
  <2>9. Good(D \cup {x})
    BY <2>2, <2>5, <2>8
  <2> HIDE DEF Good
  <2> QED
    BY <2>9
<1> HIDE DEF W
<1>3. S \in W
  BY <1>1, <1>2, SetInduction
<1> QED
  BY <1>3 DEF W

\* A list without repetitions is as long as its members are many.
LEMMA InjectiveLength ==
    ASSUME NEW V, NEW list \in Seq(V), IsInjective(list)
    PROVE  IsFiniteSet(ToSet(list)) /\ Cardinality(ToSet(list)) = Len(list)
<1> DEFINE Good(l) == IsInjective(l) => IsFiniteSet(ToSet(l)) /\ Cardinality(ToSet(l)) = Len(l)
           W == {l \in Seq(V) : Good(l)}
<1>1. <<>> \in W
  <2>1. <<>> \in Seq(V) /\ ToSet(<<>>) = {} /\ Len(<<>>) = 0
    BY DEF ToSet
  <2> QED
    BY <2>1, FS_EmptySet
<1>2. ASSUME NEW front \in Seq(V), NEW v \in V, front \in W PROVE Append(front, v) \in W
  <2> DEFINE more == Append(front, v)
             n == Len(front)
  <2>1. /\ more \in Seq(V) /\ Len(more) = n + 1 /\ n \in Nat
        /\ DOMAIN more = 1 .. n + 1 /\ DOMAIN front = 1 .. n
        /\ (\A i \in 1 .. n : more[i] = front[i]) /\ more[n + 1] = v
    OBVIOUS
  <2>2. ToSet(more) = ToSet(front) \cup {v}
    BY AppendedSet
  <2> HIDE DEF more, n
  <2>3. ASSUME IsInjective(more) PROVE IsFiniteSet(ToSet(more)) /\ Cardinality(ToSet(more)) = Len(more)
    <3>1. \A i, j \in 1 .. n + 1 : more[i] = more[j] => i = j
      BY <2>1, <2>3 DEF IsInjective
    <3>2. IsInjective(front)
      BY <2>1, <3>1 DEF IsInjective
    <3>3. v \notin ToSet(front)
      BY <2>1, <3>1 DEF ToSet
    <3>4. IsFiniteSet(ToSet(front)) /\ Cardinality(ToSet(front)) = n
      BY <1>2, <3>2 DEF n
    <3> DEFINE T == ToSet(front)
    <3> HIDE DEF T
    <3>5. IsFiniteSet(T) /\ v \notin T /\ Cardinality(T) = n
      BY <3>3, <3>4 DEF T
    <3>6. IsFiniteSet(T \cup {v}) /\ Cardinality(T \cup {v}) = n + 1
      BY <3>5, FS_AddElement
    <3> QED
      BY <2>1, <2>2, <3>6 DEF T
  <2> QED
    BY <2>1, <2>3 DEF more
<1> HIDE DEF W
<1>3. list \in W
  BY <1>1, <1>2, ListInduction
<1> QED
  BY <1>3 DEF W

==============================================================================
