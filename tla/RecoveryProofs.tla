---------------------------- MODULE RecoveryProofs ----------------------------
(***************************************************************************)
(* What a recovery gives back, for every set of users and names and every   *)
(* bound on the operations.                                                 *)
(***************************************************************************)
EXTENDS Recovery, AdjacencyListProofs, FiniteSetTheorems

-----------------------------------------------------------------------------
(* The graph, an operation at a time *)

AllNames == (UNION {Names[u] : u \in Users}) \cup {CutName, RunOnName}

\* What an entry at the end of the log may be taken for.
Taken ==
    [kind : {"AddUser"}, user : Users, name : AllNames]
        \cup [kind : {"AddFollow", "RemoveFollow"}, source : Users, target : Users]
        \cup {Nothing}

GraphType == UNION {[names : [known -> AllNames], following : [Ids -> Seq(Users)]] :
                    known \in SUBSET Users}

\* No user is followed twice by another, and edges join known users.
Proper(g) ==
    /\ g \in GraphType
    /\ \A u \in Ids : IsInjective(g.following[u])
    /\ \A u \in Ids : g.following[u] # <<>> => u \in DOMAIN g.names
    /\ \A u \in Ids : ToSet(g.following[u]) \subseteq DOMAIN g.names

LEMMA OperationsTaken == Operations \subseteq Taken
<1> SUFFICES ASSUME NEW o \in Operations PROVE o \in Taken
  OBVIOUS
<1>1. CASE \E u \in Users : o \in [kind : {"AddUser"}, user : {u}, name : Names[u]]
  <2>1. PICK u \in Users : o \in [kind : {"AddUser"}, user : {u}, name : Names[u]]
    BY <1>1
  <2>2. Names[u] \subseteq AllNames
    BY DEF AllNames
  <2>3. o \in [kind : {"AddUser"}, user : Users, name : AllNames]
    BY <2>1, <2>2
  <2> QED
    BY <2>3 DEF Taken
<1>2. CASE o \in [kind : {"AddFollow", "RemoveFollow"}, source : Users, target : Users]
  BY <1>2 DEF Taken
<1> QED
  <2> DEFINE Adding(u) == [kind : {"AddUser"}, user : {u}, name : Names[u]]
             Changing == [kind : {"AddFollow", "RemoveFollow"}, source : Users, target : Users]
  <2>1. Operations = (UNION {Adding(u) : u \in Users}) \cup Changing
    BY DEF Operations
  <2>2. (\E u \in Users : o \in Adding(u)) \/ o \in Changing => o \in Taken
    BY <1>1, <1>2
  <2> HIDE DEF Adding, Changing
  <2>3. o \in UNION {Adding(u) : u \in Users} => \E u \in Users : o \in Adding(u)
    OBVIOUS
  <2>4. o \in Operations
    OBVIOUS
  <2>5. o \in (UNION {Adding(u) : u \in Users}) \/ o \in Changing
    BY <2>1, <2>4
  <2> QED
    BY <2>2, <2>3, <2>5

LEMMA GraphFields ==
    ASSUME NEW g \in GraphType
    PROVE  /\ g = [names |-> g.names, following |-> g.following]
           /\ DOMAIN g.names \subseteq Users /\ g.names \in [DOMAIN g.names -> AllNames]
           /\ g.following \in [Ids -> Seq(Users)]
  BY DEF GraphType

LEMMA GraphMade ==
    ASSUME NEW known \in SUBSET Users, NEW names \in [known -> AllNames],
           NEW following \in [Ids -> Seq(Users)]
    PROVE  [names |-> names, following |-> following] \in GraphType
<1>1. [names |-> names, following |-> following]
          \in [names : [known -> AllNames], following : [Ids -> Seq(Users)]]
  OBVIOUS
<1> QED
  BY <1>1 DEF GraphType

LEMMA GraphsEqual ==
    ASSUME NEW g \in GraphType, NEW h \in GraphType,
           DOMAIN g.names = DOMAIN h.names, \A u \in DOMAIN g.names : g.names[u] = h.names[u],
           \A u \in Ids : g.following[u] = h.following[u]
    PROVE  g = h
  BY GraphFields

LEMMA EmptyProper == Proper(Empty)
<1>1. Empty \in [names : [{} -> AllNames], following : [Ids -> Seq(Users)]]
  BY DEF Empty
<1>2. DOMAIN Empty.names = {} /\ \A u \in Ids : Empty.following[u] = <<>>
  BY DEF Empty
<1>3. Empty \in GraphType
  BY <1>1 DEF GraphType
<1> QED
  BY <1>2, <1>3 DEF Proper, IsInjective, ToSet

\* The three operations, field by field.
LEMMA AddingUser ==
    ASSUME NEW g \in GraphType, NEW o \in Taken, o.kind = "AddUser"
    PROVE  /\ Apply(g, o) \in GraphType
           /\ Apply(g, o).following = g.following
           /\ DOMAIN Apply(g, o).names = DOMAIN g.names \cup {o.user}
           /\ \A u \in DOMAIN g.names : Apply(g, o).names[u] = g.names[u]
           /\ o.user \notin DOMAIN g.names => Apply(g, o).names[o.user] = o.name
<1>1. o.user \in Users /\ o.name \in AllNames
  BY DEF Taken, Nothing
<1>2. CASE o.user \in DOMAIN g.names
  <2>1. Apply(g, o) = g
    BY <1>2 DEF Apply
  <2> QED
    BY <1>2, <2>1
<1>3. CASE o.user \notin DOMAIN g.names
  <2> DEFINE more == [u \in DOMAIN g.names \cup {o.user} |->
                         IF u = o.user THEN o.name ELSE g.names[u]]
  <2>1. Apply(g, o) = [names |-> more, following |-> g.following]
    BY <1>3, GraphFields DEF Apply
  <2>2. more \in [DOMAIN g.names \cup {o.user} -> AllNames]
    BY <1>1, GraphFields
  <2>3. DOMAIN g.names \cup {o.user} \in SUBSET Users
    BY <1>1, GraphFields
  <2>4. g.following \in [Ids -> Seq(Users)]
    BY GraphFields
  <2> HIDE DEF more
  <2>5. Apply(g, o) \in GraphType
    BY <2>1, <2>2, <2>3, <2>4, GraphMade
  <2> QED
    BY <1>3, <2>1, <2>5 DEF more
<1> QED
  BY <1>2, <1>3

Both(g, o) == {o.source, o.target} \subseteq DOMAIN g.names

LEMMA ChangingEdge ==
    ASSUME NEW g \in GraphType, NEW o \in Taken, o.kind \in {"AddFollow", "RemoveFollow"}
    PROVE  /\ o.source \in Users /\ o.target \in Users
           /\ Apply(g, o) \in GraphType
           /\ Apply(g, o).names = g.names
           /\ ~Both(g, o) => Apply(g, o) = g
           /\ \A u \in Ids : u # o.source => Apply(g, o).following[u] = g.following[u]
           /\ Both(g, o) /\ o.kind = "AddFollow" =>
                 Apply(g, o).following[o.source] = WithTarget(g.following[o.source], o.target)
           /\ Both(g, o) /\ o.kind = "RemoveFollow" =>
                 Apply(g, o).following[o.source] = Without(g.following[o.source], o.target)
<1>1. o.source \in Users /\ o.target \in Users
  BY DEF Taken, Nothing
<1>2. CASE ~Both(g, o)
  <2>1. Apply(g, o) = g
    BY <1>2 DEF Apply, Both
  <2> QED
    BY <1>1, <1>2, <2>1
<1>3. CASE Both(g, o)
  <2> DEFINE new == IF o.kind = "AddFollow" THEN WithTarget(g.following[o.source], o.target)
                    ELSE Without(g.following[o.source], o.target)
             following == [g.following EXCEPT ![o.source] = new]
  <2>1. g = [names |-> g.names, following |-> g.following]
        /\ g.following \in [Ids -> Seq(Users)] /\ o.source \in Ids
    BY <1>1, GraphFields DEF Ids
  <2>2. Apply(g, o) = [names |-> g.names, following |-> following]
    BY <1>3, <2>1 DEF Apply, Both
  <2>3. new \in Seq(Users)
    <3>1. g.following[o.source] \in Seq(Users)
      BY <2>1
    <3> QED
      BY <1>1, <3>1, WithTargetList, WithoutList
  <2> HIDE DEF new
  <2>4. following \in [Ids -> Seq(Users)]
    BY <2>1, <2>3
  <2>5. following[o.source] = new /\ \A u \in Ids : u # o.source => following[u] = g.following[u]
    BY <2>1
  <2> HIDE DEF following
  <2>6. Apply(g, o) \in GraphType
    BY <2>2, <2>4, GraphFields, GraphMade
  <2> QED
    BY <1>1, <1>3, <2>2, <2>5, <2>6 DEF new
<1> QED
  BY <1>2, <1>3

LEMMA DoingNothing == \A g : Apply(g, Nothing) = g
  BY DEF Apply, Nothing

LEMMA TakenKinds ==
    ASSUME NEW o \in Taken
    PROVE  o.kind = "AddUser" \/ o.kind \in {"AddFollow", "RemoveFollow"} \/ o = Nothing
  BY DEF Taken, Nothing

LEMMA ApplyProper ==
    ASSUME NEW g, Proper(g), NEW o \in Taken
    PROVE  Proper(Apply(g, o))
<1>1. g \in GraphType /\ \A u \in Ids : g.following[u] \in Seq(Users)
  BY GraphFields DEF Proper
<1>2. CASE o.kind = "AddUser"
  BY <1>1, <1>2, AddingUser DEF Proper
<1>3. CASE o.kind \in {"AddFollow", "RemoveFollow"} /\ Both(g, o)
  <2> DEFINE h == Apply(g, o)
             s == o.source
  <2>1. /\ o.source \in Users /\ o.target \in Users /\ h \in GraphType /\ h.names = g.names
        /\ \A u \in Ids : u # s => h.following[u] = g.following[u]
        /\ o.kind = "AddFollow" => h.following[s] = WithTarget(g.following[s], o.target)
        /\ o.kind = "RemoveFollow" => h.following[s] = Without(g.following[s], o.target)
    BY <1>1, <1>3, ChangingEdge
  <2>2. s \in Ids /\ s \in DOMAIN g.names /\ o.target \in DOMAIN g.names
    BY <1>3, <2>1 DEF Ids, Both
  <2>3. g.following[s] \in Seq(Users) /\ IsInjective(g.following[s])
        /\ ToSet(g.following[s]) \subseteq DOMAIN g.names
    BY <1>1, <2>2 DEF Proper
  <2> HIDE DEF h, s
  <2>4. IsInjective(h.following[s]) /\ ToSet(h.following[s]) \subseteq DOMAIN g.names
    <3>1. CASE o.kind = "AddFollow"
      BY <2>1, <2>2, <2>3, <3>1, WithTargetList, WithTargetInjective
    <3>2. CASE o.kind = "RemoveFollow"
      BY <2>1, <2>2, <2>3, <3>2, WithoutList, WithoutInjective
    <3> QED
      BY <1>3, <3>1, <3>2
  <2>5. \A u \in Ids : /\ IsInjective(h.following[u])
                       /\ h.following[u] # <<>> => u \in DOMAIN h.names
                       /\ ToSet(h.following[u]) \subseteq DOMAIN h.names
    BY <2>1, <2>2, <2>4 DEF Proper
  <2> QED
    BY <2>1, <2>5 DEF Proper, h
<1>4. CASE o.kind \in {"AddFollow", "RemoveFollow"} /\ ~Both(g, o)
  BY <1>1, <1>4, ChangingEdge
<1>5. CASE o = Nothing
  BY <1>5, DoingNothing
<1> QED
  BY <1>2, <1>3, <1>4, <1>5, TakenKinds

\* An operation done twice in a row is done once.
LEMMA ApplyTwice ==
    ASSUME NEW g, Proper(g), NEW o \in Taken
    PROVE  Apply(Apply(g, o), o) = Apply(g, o)
<1> DEFINE h == Apply(g, o)
<1>1. g \in GraphType /\ h \in GraphType /\ \A u \in Ids : g.following[u] \in Seq(Users)
  BY ApplyProper, GraphFields DEF Proper
<1>2. CASE o.kind = "AddUser"
  <2>1. h.following = g.following /\ o.user \in DOMAIN h.names
    BY <1>1, <1>2, AddingUser
  <2> HIDE DEF h
  <2>2. /\ Apply(h, o) \in GraphType /\ Apply(h, o).following = h.following
        /\ DOMAIN Apply(h, o).names = DOMAIN h.names \cup {o.user}
        /\ \A u \in DOMAIN h.names : Apply(h, o).names[u] = h.names[u]
    BY <1>1, <1>2, AddingUser
  <2>3. Apply(h, o) = h
    BY <1>1, <2>1, <2>2, GraphsEqual
  <2> QED
    BY <2>3 DEF h
<1>3. CASE o.kind \in {"AddFollow", "RemoveFollow"} /\ Both(g, o)
  <2> DEFINE s == o.source
             t == o.target
  <2>1. /\ s \in Users /\ t \in Users /\ h.names = g.names
        /\ o.kind = "AddFollow" => h.following[s] = WithTarget(g.following[s], t)
        /\ o.kind = "RemoveFollow" => h.following[s] = Without(g.following[s], t)
    BY <1>1, <1>3, ChangingEdge
  <2>2. s \in Ids /\ g.following[s] \in Seq(Users) /\ IsInjective(g.following[s])
    BY <1>1, <2>1 DEF Ids, Proper
  <2>3. o.kind = "AddFollow" => WithTarget(h.following[s], t) = h.following[s]
    BY <2>1, <2>2, WithTargetList DEF WithTarget
  <2>4. o.kind = "RemoveFollow" => Without(h.following[s], t) = h.following[s]
    <3>1. o.kind = "RemoveFollow" => t \notin ToSet(h.following[s])
      BY <2>1, <2>2, WithoutOther
    <3> QED
      BY <3>1, WithoutAbsent
  <2>5. Both(h, o)
    BY <1>3, <2>1 DEF Both
  <2> HIDE DEF h, s, t
  <2>6. /\ Apply(h, o) \in GraphType /\ Apply(h, o).names = h.names
        /\ \A u \in Ids : u # s => Apply(h, o).following[u] = h.following[u]
        /\ Apply(h, o).following[s] = h.following[s]
    BY <1>1, <1>3, <2>3, <2>4, <2>5, ChangingEdge DEF s, t
  <2>7. Apply(h, o) = h
    BY <1>1, <2>6, GraphsEqual
  <2> QED
    BY <2>7 DEF h
<1>4. CASE o.kind \in {"AddFollow", "RemoveFollow"} /\ ~Both(g, o)
  BY <1>1, <1>4, ChangingEdge
<1>5. CASE o = Nothing
  BY <1>5, DoingNothing
<1> QED
  BY <1>2, <1>3, <1>4, <1>5, TakenKinds

\* Fewer users and edges.
Within(g, h) ==
    /\ DOMAIN g.names \subseteq DOMAIN h.names
    /\ \A u \in Ids : ToSet(g.following[u]) \subseteq ToSet(h.following[u])

LEMMA WithinItself == \A g : Within(g, g)
  BY DEF Within

\* An operation on a graph with less leaves one with less: an edge that cannot be
\* removed, because its ends are not known, is not there.
LEMMA ApplyWithin ==
    ASSUME NEW g, Proper(g), NEW h, Proper(h), Within(g, h), NEW o \in Taken
    PROVE  Within(Apply(g, o), Apply(h, o))
<1> DEFINE s == o.source
           t == o.target
<1>1. /\ g \in GraphType /\ h \in GraphType
      /\ \A u \in Ids : /\ g.following[u] \in Seq(Users) /\ IsInjective(g.following[u])
                        /\ h.following[u] \in Seq(Users) /\ IsInjective(h.following[u])
  BY GraphFields DEF Proper
<1>2. CASE o.kind = "AddUser"
  BY <1>1, <1>2, AddingUser DEF Within
<1>3. CASE o.kind \in {"AddFollow", "RemoveFollow"}
  <2>1. s \in Ids /\ t \in Users
    BY <1>1, <1>3, ChangingEdge DEF Ids
  <2>2. /\ g.following[s] \in Seq(Users) /\ IsInjective(g.following[s])
        /\ h.following[s] \in Seq(Users) /\ IsInjective(h.following[s])
        /\ ToSet(g.following[s]) \subseteq ToSet(h.following[s])
    BY <1>1, <2>1 DEF Within
  <2>3. ToSet(WithTarget(h.following[s], t)) = ToSet(h.following[s]) \cup {t}
        /\ ToSet(WithTarget(g.following[s], t)) = ToSet(g.following[s]) \cup {t}
    BY <2>1, <2>2, WithTargetList
  <2>4. ToSet(Without(h.following[s], t)) = ToSet(h.following[s]) \ {t}
        /\ ToSet(Without(g.following[s], t)) = ToSet(g.following[s]) \ {t}
    BY <2>2, WithoutOther
  <2>5. Both(g, o) => Both(h, o)
    BY DEF Both, Within
  <2>6. ~Both(g, o) => t \notin ToSet(g.following[s])
    <3>1. ToSet(g.following[s]) \subseteq DOMAIN g.names
          /\ (g.following[s] # <<>> => s \in DOMAIN g.names)
      BY <2>1 DEF Proper
    <3>2. ToSet(<<>>) = {}
      BY DEF ToSet
    <3> QED
      BY <3>1, <3>2 DEF Both
  <2>7. /\ Apply(g, o).names = g.names /\ Apply(h, o).names = h.names
        /\ \A u \in Ids : u # s => /\ Apply(g, o).following[u] = g.following[u]
                                   /\ Apply(h, o).following[u] = h.following[u]
    BY <1>1, <1>3, ChangingEdge
  <2>8. ToSet(Apply(g, o).following[s]) \subseteq ToSet(Apply(h, o).following[s])
    <3>1. CASE o.kind = "AddFollow"
      <4>1. /\ Both(g, o) => Apply(g, o).following[s] = WithTarget(g.following[s], t)
            /\ Both(h, o) => Apply(h, o).following[s] = WithTarget(h.following[s], t)
            /\ ~Both(g, o) => Apply(g, o) = g
            /\ ~Both(h, o) => Apply(h, o) = h
        BY <1>1, <3>1, ChangingEdge
      <4> QED
        BY <2>2, <2>3, <2>5, <4>1
    <3>2. CASE o.kind = "RemoveFollow"
      <4>1. /\ Both(g, o) => Apply(g, o).following[s] = Without(g.following[s], t)
            /\ Both(h, o) => Apply(h, o).following[s] = Without(h.following[s], t)
            /\ ~Both(g, o) => Apply(g, o) = g
            /\ ~Both(h, o) => Apply(h, o) = h
        BY <1>1, <3>2, ChangingEdge
      <4> QED
        BY <2>2, <2>4, <2>5, <2>6, <4>1
    <3> QED
      BY <1>3, <3>1, <3>2
  <2> QED
    BY <2>7, <2>8 DEF Within
<1>4. CASE o = Nothing
  BY <1>4, DoingNothing
<1> QED
  BY <1>2, <1>3, <1>4, TakenKinds

-----------------------------------------------------------------------------
(* Operations in a row *)

\* The graph after each of them.
Run(g, operations) ==
    CHOOSE after : after = [i \in 0 .. Len(operations) |->
                               IF i = 0 THEN g ELSE Apply(after[i - 1], operations[i])]

LEMMA ApplyAllIsRun ==
    ASSUME NEW g, NEW operations
    PROVE  ApplyAll(g, operations) = Run(g, operations)[Len(operations)]
  BY DEF ApplyAll, Run

LEMMA RunSteps ==
    ASSUME NEW g, NEW operations, Len(operations) \in Nat
    PROVE  /\ Run(g, operations)[0] = g
           /\ \A i \in 1 .. Len(operations) :
                 Run(g, operations)[i] = Apply(Run(g, operations)[i - 1], operations[i])
<1> DEFINE Upto(f, k) ==
               f = [i \in 0 .. k |-> IF i = 0 THEN g ELSE Apply(f[i - 1], operations[i])]
           T == {k \in Nat : \E f : Upto(f, k)}
<1>1. 0 \in T
  <2>1. Upto([i \in 0 .. 0 |-> g], 0)
    OBVIOUS
  <2> HIDE DEF Upto
  <2> QED
    BY <2>1
<1>2. ASSUME NEW k \in Nat, k \in T PROVE k + 1 \in T
  <2>1. PICK f : Upto(f, k)
    BY <1>2
  <2> DEFINE h == [i \in 0 .. k + 1 |-> IF i <= k THEN f[i] ELSE Apply(f[k], operations[k + 1])]
  <2>2. \A i \in 0 .. k + 1 : h[i] = IF i = 0 THEN g ELSE Apply(h[i - 1], operations[i])
    <3> TAKE i \in 0 .. k + 1
    <3>1. CASE i = 0
      BY <2>1, <3>1
    <3>2. CASE i \in 1 .. k
      <4>1. h[i] = f[i] /\ h[i - 1] = f[i - 1]
        BY <3>2
      <4> QED
        BY <2>1, <3>2, <4>1
    <3>3. CASE i = k + 1
      <4>1. h[i] = Apply(f[k], operations[k + 1]) /\ h[i - 1] = f[k]
        BY <3>3
      <4> QED
        BY <3>3, <4>1
    <3> QED
      BY <3>1, <3>2, <3>3
  <2>3. Upto(h, k + 1)
    <3>1. h = [i \in 0 .. k + 1 |-> h[i]]
      OBVIOUS
    <3> HIDE DEF h
    <3> QED
      BY <2>2, <3>1
  <2> HIDE DEF Upto, h
  <2> QED
    BY <2>3
<1> HIDE DEF T
<1>3. Len(operations) \in T
  BY <1>1, <1>2, Induction
<1>4. Upto(Run(g, operations), Len(operations))
  BY <1>3 DEF T, Run
<1> QED
  BY <1>4

LEMMA RunProper ==
    ASSUME NEW g, Proper(g), NEW operations \in Seq(Taken)
    PROVE  \A i \in 0 .. Len(operations) : Proper(Run(g, operations)[i])
<1> DEFINE R == Run(g, operations)
           T == {i \in 0 .. Len(operations) : Proper(R[i])}
<1>1. /\ Len(operations) \in Nat
      /\ \A i \in 1 .. Len(operations) : operations[i] \in Taken
  OBVIOUS
<1>2. R[0] = g /\ \A i \in 1 .. Len(operations) : R[i] = Apply(R[i - 1], operations[i])
  BY <1>1, RunSteps
<1> HIDE DEF R
<1>3. 0 \in T
  BY <1>1, <1>2
<1>4. ASSUME NEW i \in 0 .. Len(operations) - 1, i \in T PROVE i + 1 \in T
  <2>1. i + 1 \in 1 .. Len(operations) /\ (i + 1) - 1 = i
    BY <1>1
  <2>2. R[i + 1] = Apply(R[i], operations[i + 1]) /\ operations[i + 1] \in Taken
    BY <1>1, <1>2, <2>1
  <2>3. Proper(R[i + 1])
    BY <1>4, <2>2, ApplyProper
  <2> QED
    BY <2>1, <2>3
<1>5. \A i \in 0 .. Len(operations) : i \in T
  <2> HIDE DEF T
  <2> QED
    BY <1>1, <1>3, <1>4, InductionTo
<1> QED
  BY <1>5 DEF R

LEMMA ApplyAllProper ==
    ASSUME NEW g, Proper(g), NEW operations \in Seq(Taken)
    PROVE  Proper(ApplyAll(g, operations))
<1>1. Len(operations) \in 0 .. Len(operations)
  OBVIOUS
<1> QED
  BY <1>1, ApplyAllIsRun, RunProper

\* Lists that begin alike make the same graphs at first.
LEMMA RunsAgree ==
    ASSUME NEW g, NEW a \in Seq(Taken), NEW b \in Seq(Taken),
           NEW k \in Nat, k <= Len(a), k <= Len(b), \A i \in 1 .. k : a[i] = b[i]
    PROVE  \A i \in 0 .. k : Run(g, a)[i] = Run(g, b)[i]
<1> DEFINE A == Run(g, a)
           B == Run(g, b)
           T == {i \in 0 .. k : A[i] = B[i]}
<1>1. Len(a) \in Nat /\ Len(b) \in Nat
  OBVIOUS
<1>2. /\ A[0] = g /\ \A i \in 1 .. Len(a) : A[i] = Apply(A[i - 1], a[i])
      /\ B[0] = g /\ \A i \in 1 .. Len(b) : B[i] = Apply(B[i - 1], b[i])
  BY <1>1, RunSteps
<1> HIDE DEF A, B
<1>3. 0 \in T
  BY <1>2
<1>4. ASSUME NEW i \in 0 .. k - 1, i \in T PROVE i + 1 \in T
  <2>1. i + 1 \in 1 .. k /\ i + 1 \in 1 .. Len(a) /\ i + 1 \in 1 .. Len(b) /\ (i + 1) - 1 = i
    BY <1>1
  <2> QED
    BY <1>2, <1>4, <2>1
<1>5. \A i \in 0 .. k : i \in T
  <2> HIDE DEF T
  <2> QED
    BY <1>3, <1>4, InductionTo
<1> QED
  BY <1>5 DEF A, B

LEMMA ApplyAllConcat ==
    ASSUME NEW g, NEW a \in Seq(Taken), NEW b \in Seq(Taken)
    PROVE  ApplyAll(g, a \o b) = ApplyAll(ApplyAll(g, a), b)
<1> DEFINE c == a \o b
           n == Len(a)
           m == Len(b)
           A == Run(g, a)
           B == Run(A[n], b)
           C == Run(g, c)
           T == {i \in 0 .. m : C[n + i] = B[i]}
<1>1. /\ n \in Nat /\ m \in Nat
      /\ c \in Seq(Taken) /\ Len(c) = n + m
      /\ \A i \in 1 .. n : c[i] = a[i]
      /\ \A i \in 1 .. m : c[n + i] = b[i]
  OBVIOUS
<1> HIDE DEF c
<1>2. \A i \in 0 .. n : C[i] = A[i]
  <2>1. n \in Nat /\ n <= Len(c) /\ n <= Len(a) /\ c \in Seq(Taken)
    BY <1>1
  <2>2. \A i \in 1 .. n : a[i] = c[i]
    BY <1>1
  <2>3. \A i \in 0 .. n : Run(g, a)[i] = Run(g, c)[i]
    <3> HIDE DEF n
    <3> QED
      BY <2>1, <2>2, RunsAgree
  <2> QED
    BY <2>3
<1>3. /\ \A i \in 1 .. n + m : C[i] = Apply(C[i - 1], c[i])
      /\ B[0] = A[n] /\ \A i \in 1 .. m : B[i] = Apply(B[i - 1], b[i])
  <2>1. \A i \in 1 .. n + m : C[i] = Apply(C[i - 1], c[i])
    <3>1. Len(c) = n + m /\ Len(c) \in Nat
      BY <1>1
    <3>2. \A i \in 1 .. Len(c) : C[i] = Apply(C[i - 1], c[i])
      BY <3>1, RunSteps
    <3> QED
      BY <3>1, <3>2
  <2> HIDE DEF A
  <2>2. B[0] = A[n] /\ \A i \in 1 .. m : B[i] = Apply(B[i - 1], b[i])
    BY <1>1, RunSteps
  <2> QED
    BY <2>1, <2>2
<1> HIDE DEF A, B, C, n, m
<1>4. 0 \in T
  BY <1>1, <1>2, <1>3
<1>5. ASSUME NEW i \in 0 .. m - 1, i \in T PROVE i + 1 \in T
  <2>1. i + 1 \in 1 .. m /\ (i + 1) - 1 = i /\ n + (i + 1) \in 1 .. n + m /\ n + (i + 1) - 1 = n + i
    BY <1>1
  <2>2. C[n + (i + 1)] = Apply(C[n + i], c[n + (i + 1)])
    <3> DEFINE j == n + (i + 1)
    <3>1. j \in 1 .. n + m /\ j - 1 = n + i
      BY <1>1
    <3> HIDE DEF j
    <3>2. C[j] = Apply(C[n + i], c[j])
      BY <1>3, <3>1
    <3> QED
      BY <3>2 DEF j
  <2> QED
    BY <1>1, <1>3, <1>5, <2>1, <2>2
<1>6. \A i \in 0 .. m : i \in T
  <2> HIDE DEF T
  <2> QED
    BY <1>1, <1>4, <1>5, InductionTo
<1>7. C[n + m] = B[m]
  BY <1>1, <1>6
<1> QED
  BY <1>1, <1>7, ApplyAllIsRun DEF A, B, C, c, n, m

LEMMA ApplyAllAppend ==
    ASSUME NEW g, NEW a \in Seq(Taken), NEW o \in Taken
    PROVE  ApplyAll(g, Append(a, o)) = Apply(ApplyAll(g, a), o)
<1> DEFINE b == Append(a, o)
           n == Len(a)
<1>1. /\ n \in Nat /\ b \in Seq(Taken) /\ Len(b) = n + 1
      /\ \A i \in 1 .. n : b[i] = a[i]
      /\ b[n + 1] = o
  OBVIOUS
<1> HIDE DEF b
<1>2. \A i \in 0 .. n : Run(g, b)[i] = Run(g, a)[i]
  <2>1. /\ a \in Seq(Taken) /\ b \in Seq(Taken) /\ n \in Nat /\ n <= Len(a) /\ n <= Len(b)
        /\ \A i \in 1 .. n : b[i] = a[i]
    BY <1>1
  <2> HIDE DEF n
  <2> QED
    BY <2>1, RunsAgree
<1>3. n + 1 \in 1 .. n + 1 /\ (n + 1) - 1 = n
  BY <1>1
<1>4. Run(g, b)[n + 1] = Apply(Run(g, b)[n], b[n + 1])
  BY <1>1, <1>3, RunSteps
<1>5. Run(g, b)[n] = Run(g, a)[n]
  BY <1>1, <1>2
<1>6. ApplyAll(g, b) = Run(g, b)[n + 1] /\ ApplyAll(g, a) = Run(g, a)[n]
  BY <1>1, ApplyAllIsRun
<1> QED
  BY <1>1, <1>4, <1>5, <1>6 DEF b

LEMMA ApplyAllEmpty == \A g : ApplyAll(g, <<>>) = g
  BY ApplyAllIsRun, RunSteps

LEMMA ApplyAllNothing ==
    ASSUME NEW g, NEW a \in Seq({Nothing})
    PROVE  ApplyAll(g, a) = g
<1> DEFINE n == Len(a)
           A == Run(g, a)
           T == {i \in 0 .. n : A[i] = g}
<1>1. n \in Nat /\ \A i \in 1 .. n : a[i] = Nothing
  OBVIOUS
<1>2. A[0] = g /\ \A i \in 1 .. n : A[i] = Apply(A[i - 1], a[i])
  BY <1>1, RunSteps
<1> HIDE DEF A, n
<1>3. 0 \in T
  BY <1>1, <1>2
<1>4. ASSUME NEW i \in 0 .. n - 1, i \in T PROVE i + 1 \in T
  <2>1. i + 1 \in 1 .. n /\ (i + 1) - 1 = i
    BY <1>1
  <2> QED
    BY <1>1, <1>2, <1>4, <2>1, DoingNothing
<1>5. \A i \in 0 .. n : i \in T
  <2> HIDE DEF T
  <2> QED
    BY <1>1, <1>3, <1>4, InductionTo
<1> QED
  BY <1>1, <1>5, ApplyAllIsRun DEF A, n

-----------------------------------------------------------------------------
(* Replaying the log over a graph made earlier *)

\* What is left of the operations from number `from' on.
From(operations, from) ==
    [i \in 1 .. Len(operations) |-> IF i >= from THEN operations[i] ELSE Nothing]

LEMMA FromTaken ==
    ASSUME NEW operations \in Seq(Taken), NEW from
    PROVE  From(operations, from) \in Seq(Taken) /\ Len(From(operations, from)) = Len(operations)
<1>1. /\ Len(operations) \in Nat /\ Nothing \in Taken
      /\ \A i \in 1 .. Len(operations) : operations[i] \in Taken
  BY DEF Taken
<1>2. \A i \in 1 .. Len(operations) : (IF i >= from THEN operations[i] ELSE Nothing) \in Taken
  BY <1>1
<1>3. From(operations, from) \in [1 .. Len(operations) -> Taken]
  BY <1>2 DEF From
<1> QED
  BY <1>1, <1>3

\* Whether or not the operation with the graph's own number is repeated, the log
\* takes the graph of its first k entries to that of all; and a graph with less
\* to one with less.
LEMMA ReplayFrom ==
    ASSUME NEW operations \in Seq(Taken), NEW k \in 0 .. Len(operations),
           NEW from \in {k, k + 1}, NEW g, Proper(g), Within(g, Run(Empty, operations)[k])
    PROVE  /\ Within(ApplyAll(g, From(operations, from)), ApplyAll(Empty, operations))
           /\ Proper(ApplyAll(g, From(operations, from)))
           /\ g = Run(Empty, operations)[k] =>
                 ApplyAll(g, From(operations, from)) = ApplyAll(Empty, operations)
<1> DEFINE n == Len(operations)
           R == Run(Empty, operations)
           part == From(operations, from)
           S == Run(g, part)
           At(i) == IF i <= k THEN k ELSE i
           Good(i) == /\ Proper(S[i]) /\ Within(S[i], R[At(i)])
                      /\ g = R[k] => S[i] = R[At(i)]
           T == {i \in 0 .. n : Good(i)}
<1>1. n \in Nat /\ k \in 0 .. n /\ \A i \in 1 .. n : operations[i] \in Taken
  OBVIOUS
<1>2. /\ R[0] = Empty /\ \A i \in 1 .. n : R[i] = Apply(R[i - 1], operations[i])
      /\ \A i \in 0 .. n : Proper(R[i])
  BY <1>1, RunSteps, RunProper, EmptyProper
<1>3. part \in Seq(Taken) /\ Len(part) = n
  BY FromTaken
<1>4. \A i \in 1 .. n : part[i] = IF i >= from THEN operations[i] ELSE Nothing
  BY DEF From
<1>5. S[0] = g /\ \A i \in 1 .. n : S[i] = Apply(S[i - 1], part[i])
  BY <1>1, <1>3, RunSteps
<1>6. ApplyAll(g, part) = S[n] /\ ApplyAll(Empty, operations) = R[n]
  BY <1>3, ApplyAllIsRun
<1>7. Within(g, R[k]) /\ At(0) = k
  BY <1>1
<1> HIDE DEF S, R, part, n
<1>8. 0 \in T
  BY <1>1, <1>5, <1>7
<1>9. ASSUME NEW i \in 0 .. n - 1, i \in T PROVE i + 1 \in T
  <2>1. i + 1 \in 1 .. n /\ (i + 1) - 1 = i /\ i \in 0 .. n /\ i + 1 \in 0 .. n
    BY <1>1
  <2>2. S[i + 1] = Apply(S[i], part[i + 1])
    BY <1>5, <2>1
  <2>3. Good(i)
    BY <1>9
  <2>4. CASE i + 1 < from
    <3>1. At(i) = k /\ At(i + 1) = k /\ part[i + 1] = Nothing
      BY <1>1, <1>4, <2>1, <2>4
    <3>2. S[i + 1] = S[i]
      BY <2>2, <3>1, DoingNothing
    <3> QED
      BY <2>1, <2>3, <3>1, <3>2
  <2>5. CASE i + 1 >= from
    <3>1. part[i + 1] = operations[i + 1] /\ operations[i + 1] \in Taken
      BY <1>1, <1>4, <2>1, <2>5
    <3>2. Apply(R[At(i)], operations[i + 1]) = R[At(i + 1)] /\ Proper(R[At(i)])
      <4>1. CASE i + 1 = k
        <5>1. At(i) = k /\ At(i + 1) = k /\ Proper(R[i])
          BY <1>1, <1>2, <2>1, <4>1
        <5>2. R[k] = Apply(R[i], operations[i + 1])
          BY <1>2, <2>1, <4>1
        <5>3. Apply(R[k], operations[i + 1]) = R[k]
          BY <3>1, <5>1, <5>2, ApplyTwice
        <5> QED
          BY <1>1, <1>2, <5>1, <5>3
      <4>2. CASE i + 1 > k
        <5>1. At(i) = i /\ At(i + 1) = i + 1
          BY <1>1, <2>1, <4>2
        <5> QED
          BY <1>2, <2>1, <5>1
      <4>3. i + 1 = k \/ i + 1 > k
        BY <1>1, <2>5
      <4> QED
        BY <4>1, <4>2, <4>3
    <3>3. Proper(S[i + 1])
      BY <2>2, <2>3, <3>1, ApplyProper
    <3>4. Within(S[i + 1], R[At(i + 1)])
      BY <2>2, <2>3, <3>1, <3>2, ApplyWithin
    <3>5. g = R[k] => S[i + 1] = R[At(i + 1)]
      BY <2>2, <2>3, <3>1, <3>2
    <3> QED
      BY <2>1, <3>3, <3>4, <3>5
  <2> QED
    BY <1>1, <2>1, <2>4, <2>5
<1>10. \A i \in 0 .. n : i \in T
  <2> HIDE DEF T
  <2> QED
    BY <1>1, <1>8, <1>9, InductionTo
<1>11. Good(n) /\ At(n) = n
  BY <1>1, <1>10
<1> QED
  BY <1>6, <1>11 DEF R, part

-----------------------------------------------------------------------------
(* The snapshot file *)

Headings == [kind : {"header", "shard_count", "placement", "USERS", "EDGES"}]

Stamps(timestamp) == [kind : {"timestamp"}, value : {timestamp}]

UserLines(g) == [kind : {"user"}, id : DOMAIN g.names, name : AllNames]

EdgeLinesOf(g) ==
    {l \in [kind : {"edge"}, source : Users, target : Users] : l.target \in ToSet(g.following[l.source])}

\* What a snapshot says, every line of it true of g.
TrueLines(g, timestamp) == Headings \cup Stamps(timestamp) \cup UserLines(g) \cup EdgeLinesOf(g)

LEMMA LineKinds ==
    ASSUME NEW g \in GraphType, NEW timestamp, NEW l \in TrueLines(g, timestamp)
    PROVE  /\ l.kind # "bad"
           /\ l.kind = "timestamp" => l.value = timestamp
           /\ l.kind = "user" => l.id \in Users /\ l.id \in DOMAIN g.names /\ l.name \in AllNames
           /\ l.kind = "edge" => /\ l.source \in Users /\ l.target \in Users
                                 /\ l.target \in ToSet(g.following[l.source])
<1>1. DOMAIN g.names \subseteq Users
  BY GraphFields
<1>2. CASE l \in Headings
  BY <1>2 DEF Headings
<1>3. CASE l \in Stamps(timestamp)
  BY <1>3 DEF Stamps
<1>4. CASE l \in UserLines(g)
  BY <1>1, <1>4 DEF UserLines
<1>5. CASE l \in EdgeLinesOf(g)
  BY <1>5 DEF EdgeLinesOf
<1> QED
  BY <1>2, <1>3, <1>4, <1>5 DEF TrueLines

LEMMA TrueOfMore ==
    ASSUME NEW g \in GraphType, NEW h \in GraphType, Within(g, h), NEW timestamp
    PROVE  TrueLines(g, timestamp) \subseteq TrueLines(h, timestamp)
<1>1. UserLines(g) \subseteq UserLines(h)
  BY DEF UserLines, Within
<1>2. EdgeLinesOf(g) \subseteq EdgeLinesOf(h)
  BY DEF EdgeLinesOf, Within, Ids
<1> QED
  BY <1>1, <1>2 DEF TrueLines

LEMMA UsersOfTaken ==
    ASSUME NEW g \in GraphType, NEW timestamp, NEW lines \in Seq(TrueLines(g, timestamp) \cup {Bad})
    PROVE  UsersOf(lines) \in Seq(Taken) /\ Len(UsersOf(lines)) = Len(lines)
<1>1. /\ DOMAIN lines = 1 .. Len(lines) /\ Len(lines) \in Nat
      /\ \A i \in DOMAIN lines : lines[i] \in TrueLines(g, timestamp) \cup {Bad}
  OBVIOUS
<1>2. ASSUME NEW i \in DOMAIN lines PROVE UsersOf(lines)[i] \in Taken
  <2>1. CASE lines[i].kind = "user"
    <3>1. lines[i].id \in Users /\ lines[i].name \in AllNames
      BY <1>1, <2>1, LineKinds DEF Bad
    <3>2. UsersOf(lines)[i] = [kind |-> "AddUser", user |-> lines[i].id, name |-> lines[i].name]
      BY <2>1 DEF UsersOf
    <3> QED
      BY <3>1, <3>2 DEF Taken
  <2>2. CASE lines[i].kind # "user"
    BY <2>2 DEF UsersOf, Taken
  <2> QED
    BY <2>1, <2>2
<1>3. UsersOf(lines) \in [1 .. Len(lines) -> Taken]
  BY <1>1, <1>2 DEF UsersOf
<1> QED
  BY <1>1, <1>3

LEMMA EdgesOfTaken ==
    ASSUME NEW g \in GraphType, NEW timestamp, NEW lines \in Seq(TrueLines(g, timestamp) \cup {Bad})
    PROVE  EdgesOf(lines) \in Seq(Taken) /\ Len(EdgesOf(lines)) = Len(lines)
<1>1. /\ DOMAIN lines = 1 .. Len(lines) /\ Len(lines) \in Nat
      /\ \A i \in DOMAIN lines : lines[i] \in TrueLines(g, timestamp) \cup {Bad}
  OBVIOUS
<1>2. ASSUME NEW i \in DOMAIN lines PROVE EdgesOf(lines)[i] \in Taken
  <2>1. CASE lines[i].kind = "edge"
    <3>1. lines[i].source \in Users /\ lines[i].target \in Users
      BY <1>1, <2>1, LineKinds DEF Bad
    <3>2. EdgesOf(lines)[i] = [kind |-> "AddFollow", source |-> lines[i].source, target |-> lines[i].target]
      BY <2>1 DEF EdgesOf
    <3> QED
      BY <3>1, <3>2 DEF Taken
  <2>2. CASE lines[i].kind # "edge"
    BY <2>2 DEF EdgesOf, Taken
  <2> QED
    BY <2>1, <2>2
<1>3. EdgesOf(lines) \in [1 .. Len(lines) -> Taken]
  BY <1>1, <1>2 DEF EdgesOf
<1> QED
  BY <1>1, <1>3

\* What restoring adds is there already.
Done(h) == {o \in Taken : Apply(h, o) = h}

LEMMA ApplyDone ==
    ASSUME NEW h, Proper(h), NEW operations \in Seq(Taken),
           \A i \in DOMAIN operations : operations[i] \in Done(h),
           NEW g, Proper(g), Within(g, h)
    PROVE  Within(ApplyAll(g, operations), h) /\ Proper(ApplyAll(g, operations))
<1> DEFINE n == Len(operations)
           R == Run(g, operations)
           T == {i \in 0 .. n : Within(R[i], h)}
<1>1. n \in Nat /\ \A i \in 1 .. n : operations[i] \in Taken /\ Apply(h, operations[i]) = h
  BY DEF Done
<1>2. /\ R[0] = g /\ \A i \in 1 .. n : R[i] = Apply(R[i - 1], operations[i])
      /\ \A i \in 0 .. n : Proper(R[i])
  BY <1>1, RunSteps, RunProper
<1> HIDE DEF R, n
<1>3. 0 \in T
  BY <1>1, <1>2
<1>4. ASSUME NEW i \in 0 .. n - 1, i \in T PROVE i + 1 \in T
  <2>1. i + 1 \in 1 .. n /\ (i + 1) - 1 = i /\ i \in 0 .. n /\ i + 1 \in 0 .. n
    BY <1>1
  <2>2. R[i + 1] = Apply(R[i], operations[i + 1])
    BY <1>2, <2>1
  <2>3. Within(Apply(R[i], operations[i + 1]), Apply(h, operations[i + 1]))
    BY <1>1, <1>2, <1>4, <2>1, ApplyWithin
  <2> QED
    BY <1>1, <2>1, <2>2, <2>3
<1>5. \A i \in 0 .. n : i \in T
  <2> HIDE DEF T
  <2> QED
    BY <1>1, <1>3, <1>4, InductionTo
<1>6. Within(R[n], h) /\ Proper(R[n])
  BY <1>1, <1>2, <1>5
<1> QED
  BY <1>6, ApplyAllIsRun DEF R, n

LEMMA LinesDone ==
    ASSUME NEW h, Proper(h), NEW timestamp, NEW lines \in Seq(TrueLines(h, timestamp) \cup {Bad})
    PROVE  /\ \A i \in DOMAIN UsersOf(lines) : UsersOf(lines)[i] \in Done(h)
           /\ \A i \in DOMAIN EdgesOf(lines) : EdgesOf(lines)[i] \in Done(h)
<1>1. /\ DOMAIN lines = 1 .. Len(lines) /\ Len(lines) \in Nat
      /\ \A i \in DOMAIN lines : lines[i] \in TrueLines(h, timestamp) \cup {Bad}
  OBVIOUS
<1>2. h \in GraphType
  BY DEF Proper
<1>3. Nothing \in Done(h)
  BY DoingNothing DEF Done, Taken
<1>4. ASSUME NEW i \in DOMAIN lines PROVE UsersOf(lines)[i] \in Done(h)
  <2>1. CASE lines[i].kind = "user"
    <3>1. lines[i].id \in DOMAIN h.names
      BY <1>1, <1>2, <2>1, LineKinds DEF Bad
    <3>2. UsersOf(lines)[i] = [kind |-> "AddUser", user |-> lines[i].id, name |-> lines[i].name]
      BY <2>1 DEF UsersOf
    <3>3. Apply(h, UsersOf(lines)[i]) = h
      BY <3>1, <3>2 DEF Apply
    <3>4. UsersOf(lines)[i] \in Taken
      <4>1. UsersOf(lines) \in Seq(Taken) /\ Len(UsersOf(lines)) = Len(lines)
        BY <1>2, UsersOfTaken
      <4> QED
        BY <1>1, <4>1
    <3> QED
      BY <3>3, <3>4 DEF Done
  <2>2. CASE lines[i].kind # "user"
    BY <1>3, <2>2 DEF UsersOf
  <2> QED
    BY <2>1, <2>2
<1>5. ASSUME NEW i \in DOMAIN lines PROVE EdgesOf(lines)[i] \in Done(h)
  <2>1. CASE lines[i].kind = "edge"
    <3> DEFINE s == lines[i].source
               t == lines[i].target
               o == EdgesOf(lines)[i]
    <3>1. s \in Users /\ t \in ToSet(h.following[s])
      BY <1>1, <1>2, <2>1, LineKinds DEF Bad
    <3>2. o = [kind |-> "AddFollow", source |-> s, target |-> t]
      BY <2>1 DEF EdgesOf
    <3>3. o \in Taken
      <4>1. EdgesOf(lines) \in Seq(Taken) /\ Len(EdgesOf(lines)) = Len(lines)
        BY <1>2, EdgesOfTaken
      <4> QED
        BY <1>1, <4>1
    <3> HIDE DEF s, t, o
    <3>4. o.kind = "AddFollow" /\ o.source = s /\ o.target = t
      BY <3>2
    <3>5. WithTarget(h.following[s], t) = h.following[s]
      BY <3>1 DEF WithTarget
    <3>6. /\ Apply(h, o) \in GraphType /\ Apply(h, o).names = h.names
          /\ ~Both(h, o) => Apply(h, o) = h
          /\ \A u \in Ids : u # s => Apply(h, o).following[u] = h.following[u]
          /\ Both(h, o) => Apply(h, o).following[s] = h.following[s]
      BY <1>2, <3>3, <3>4, <3>5, ChangingEdge
    <3>7. Apply(h, o) = h
      BY <1>2, <3>6, GraphsEqual
    <3> QED
      BY <3>3, <3>7 DEF Done, o
  <2>2. CASE lines[i].kind # "edge"
    BY <1>3, <2>2 DEF EdgesOf
  <2> QED
    BY <2>1, <2>2
<1> QED
  BY <1>4, <1>5 DEF UsersOf, EdgesOf

\* However a snapshot of h was cut, restoring it brings nothing that h has not.
LEMMA RestoreWithin ==
    ASSUME NEW h, Proper(h), NEW timestamp, NEW s,
           s.lines \in Seq(TrueLines(h, timestamp) \cup {Bad})
    PROVE  Within(Restore(s), h) /\ Proper(Restore(s))
<1> DEFINE added == UsersOf(s.lines)
           followed == EdgesOf(s.lines)
           known == ApplyAll(Empty, added)
<1>1. h \in GraphType
  BY DEF Proper
<1>2. added \in Seq(Taken) /\ followed \in Seq(Taken)
  BY <1>1, UsersOfTaken, EdgesOfTaken
<1>3. /\ \A i \in DOMAIN added : added[i] \in Done(h)
      /\ \A i \in DOMAIN followed : followed[i] \in Done(h)
  BY LinesDone
<1>4. Within(Empty, h)
  <2>1. ToSet(<<>>) = {}
    BY DEF ToSet
  <2> QED
    BY <2>1 DEF Within, Empty
<1> HIDE DEF added, followed
<1>5. Within(known, h) /\ Proper(known)
  BY <1>2, <1>3, <1>4, EmptyProper, ApplyDone
<1> HIDE DEF known
<1>6. Within(ApplyAll(known, followed), h) /\ Proper(ApplyAll(known, followed))
  BY <1>2, <1>3, <1>5, ApplyDone
<1> QED
  BY <1>6 DEF Restore, known, added, followed

-----------------------------------------------------------------------------
(* A whole snapshot *)

\* The order in which a hash map lists the users has each of them once.
LEMMA OrderFacts ==
    ASSUME NEW known \in SUBSET Users, NEW order \in SetToSeqs(known)
    PROVE  /\ order \in Seq(known)
           /\ \A i, j \in 1 .. Len(order) : order[i] = order[j] => i = j
           /\ known = {order[i] : i \in 1 .. Len(order)}
<1> DEFINE n == Cardinality(known)
<1>1. IsFiniteSet(known) /\ n \in Nat
  <2>1. Users \subseteq 1 .. 9
    BY RecoveryAssumption
  <2>2. IsFiniteSet(1 .. 9)
    <3>1. 1 \in Int /\ 9 \in Int
      OBVIOUS
    <3> QED
      BY <3>1, FS_Interval
  <2> QED
    BY <2>1, <2>2, FS_Subset, FS_CardinalityType
<1>2. IsFiniteSet(1 .. n) /\ Cardinality(1 .. n) = n
  BY <1>1, FS_Interval
<1>3. order \in [1 .. n -> known] /\ \A i, j \in 1 .. n : i # j => order[i] # order[j]
  BY DEF SetToSeqs
<1> HIDE DEF n
<1>4. order \in Injection(1 .. n, known)
  BY <1>3 DEF Injection, IsInjective
<1>5. order \in Surjection(1 .. n, known)
  BY <1>1, <1>2, <1>4, FS_Injection DEF n
<1>6. order \in Seq(known) /\ Len(order) = n
  BY <1>1, <1>3
<1>7. known = {order[i] : i \in 1 .. n}
  BY <1>3, <1>5 DEF Surjection
<1> QED
  BY <1>3, <1>6, <1>7

\* The edge section up to the i-th user.
Flattened(parts) ==
    CHOOSE flatten : flatten = [i \in 1 .. Len(parts) |->
                                   IF i = 1 THEN parts[i] ELSE flatten[i - 1] \o parts[i]]

LEMMA FlattenSeqIsFlattened ==
    ASSUME NEW parts, Len(parts) # 0
    PROVE  FlattenSeq(parts) = Flattened(parts)[Len(parts)]
  BY Zenon DEF FlattenSeq, Flattened

LEMMA FlattenedSteps ==
    ASSUME NEW parts, Len(parts) \in Nat \ {0}
    PROVE  /\ Flattened(parts)[1] = parts[1]
           /\ \A i \in 2 .. Len(parts) : Flattened(parts)[i] = Flattened(parts)[i - 1] \o parts[i]
<1> DEFINE Upto(f, k) ==
               f = [i \in 1 .. k |-> IF i = 1 THEN parts[i] ELSE f[i - 1] \o parts[i]]
           T == {k \in Nat : \E f : Upto(f, k)}
<1>1. 0 \in T
  <2>1. Upto([i \in 1 .. 0 |-> i], 0)
    OBVIOUS
  <2> HIDE DEF Upto
  <2> QED
    BY <2>1
<1>2. ASSUME NEW k \in Nat, k \in T PROVE k + 1 \in T
  <2>1. PICK f : Upto(f, k)
    BY <1>2
  <2> DEFINE last == IF k = 0 THEN parts[1] ELSE f[k] \o parts[k + 1]
             h == [i \in 1 .. k + 1 |-> IF i <= k THEN f[i] ELSE last]
  <2>2. \A i \in 1 .. k + 1 : h[i] = IF i = 1 THEN parts[i] ELSE h[i - 1] \o parts[i]
    <3> TAKE i \in 1 .. k + 1
    <3>1. CASE i \in 1 .. k
      <4>1. h[i] = f[i] /\ (i # 1 => h[i - 1] = f[i - 1])
        BY <3>1
      <4> HIDE DEF h
      <4> QED
        BY <2>1, <3>1, <4>1
    <3>2. CASE i = k + 1
      <4>1. h[i] = last /\ (i # 1 => h[i - 1] = f[k])
        BY <3>2
      <4> HIDE DEF h
      <4> QED
        BY <3>2, <4>1
    <3> QED
      BY <3>1, <3>2
  <2>3. Upto(h, k + 1)
    <3>1. h = [i \in 1 .. k + 1 |-> h[i]]
      OBVIOUS
    <3> HIDE DEF h
    <3> QED
      BY <2>2, <3>1
  <2> HIDE DEF Upto, h
  <2> QED
    BY <2>3
<1> HIDE DEF T
<1>3. Len(parts) \in T
  BY <1>1, <1>2, Induction
<1>4. Upto(Flattened(parts), Len(parts))
  BY <1>3 DEF T, Flattened
<1> DEFINE F == Flattened(parts)
           n == Len(parts)
<1>5. \A i \in 1 .. n : F[i] = IF i = 1 THEN parts[i] ELSE F[i - 1] \o parts[i]
  BY <1>4
<1>6. n \in Nat \ {0}
  OBVIOUS
<1> HIDE DEF F, n
<1>7. F[1] = parts[1]
  BY <1>5, <1>6
<1>8. ASSUME NEW i \in 2 .. n PROVE F[i] = F[i - 1] \o parts[i]
  <2>1. i \in 1 .. n /\ i # 1
    BY <1>6
  <2> QED
    BY <1>5, <2>1
<1> QED
  BY <1>7, <1>8 DEF F, n

LEMMA EdgeLinesTrue ==
    ASSUME NEW g \in GraphType, NEW u \in Users
    PROVE  EdgeLines(g, u) \in Seq(EdgeLinesOf(g))
<1> DEFINE list == g.following[u]
<1>1. list \in Seq(Users)
  BY GraphFields DEF Ids
<1> HIDE DEF list
<1>2. ASSUME NEW i \in 1 .. Len(list)
      PROVE  [kind |-> "edge", source |-> u, target |-> list[i]] \in EdgeLinesOf(g)
  <2>1. list[i] \in Users /\ list[i] \in ToSet(list)
    BY <1>1 DEF ToSet
  <2> QED
    BY <2>1 DEF EdgeLinesOf, list
<1>3. EdgeLines(g, u) = [i \in 1 .. Len(list) |-> [kind |-> "edge", source |-> u, target |-> list[i]]]
  BY <1>1 DEF EdgeLines, list
<1>4. Len(list) \in Nat
  BY <1>1
<1> QED
  BY <1>2, <1>3, <1>4

LEMMA EdgeLinesTaken ==
    ASSUME NEW g \in GraphType, NEW lines \in Seq(EdgeLinesOf(g))
    PROVE  EdgesOf(lines) \in Seq(Taken)
<1>1. EdgeLinesOf(g) \subseteq TrueLines(g, 0) \cup {Bad}
  BY DEF TrueLines
<1> DEFINE E == EdgeLinesOf(g)
           L == TrueLines(g, 0) \cup {Bad}
<1> HIDE DEF E, L
<1>2. lines \in Seq(L)
  BY <1>1 DEF E, L
<1> QED
  BY <1>2, EdgesOfTaken DEF L

EdgeSection(g, order) == FlattenSeq([i \in DOMAIN order |-> EdgeLines(g, order[i])])

\* Its lines are edges of g.
LEMMA EdgeSectionLines ==
    ASSUME NEW g, Proper(g), NEW order \in SetToSeqs(DOMAIN g.names)
    PROVE  EdgeSection(g, order) \in Seq(EdgeLinesOf(g))
<1> DEFINE n == Len(order)
           parts == [i \in DOMAIN order |-> EdgeLines(g, order[i])]
           F == Flattened(parts)
           E == EdgeLinesOf(g)
           T == {i \in 1 .. n : F[i] \in Seq(E)}
<1>1. g \in GraphType /\ DOMAIN g.names \in SUBSET Users
  BY GraphFields DEF Proper
<1>2. /\ n \in Nat /\ DOMAIN order = 1 .. n /\ \A i \in 1 .. n : order[i] \in Users
      /\ Len(parts) = n /\ \A i \in 1 .. n : parts[i] = EdgeLines(g, order[i])
  <2>1. order \in Seq(DOMAIN g.names)
    BY <1>1, OrderFacts
  <2> QED
    BY <1>1, <2>1
<1>3. \A u \in Users : EdgeLines(g, u) \in Seq(E)
  BY <1>1, EdgeLinesTrue
<1>4. CASE n = 0
  <2>1. EdgeSection(g, order) = parts /\ parts = <<>>
    BY <1>2, <1>4 DEF EdgeSection, FlattenSeq
  <2> QED
    BY <2>1
<1>5. CASE n # 0
  <2>1. F[1] = parts[1] /\ \A i \in 2 .. n : F[i] = F[i - 1] \o parts[i]
    <3> HIDE DEF parts
    <3> QED
      BY <1>2, <1>5, FlattenedSteps
  <2>2. EdgeSection(g, order) = F[n]
    BY <1>2, <1>5, FlattenSeqIsFlattened DEF EdgeSection
  <2> HIDE DEF F, parts, E, n
  <2> DEFINE U == {i \in 0 .. n - 1 : F[i + 1] \in Seq(E)}
  <2>3. 0 \in U
    BY <1>2, <1>3, <1>5, <2>1
  <2>4. ASSUME NEW i \in 0 .. (n - 1) - 1, i \in U PROVE i + 1 \in U
    <3>1. i + 2 \in 2 .. n /\ i + 2 \in 1 .. n /\ (i + 2) - 1 = i + 1 /\ (i + 1) + 1 = i + 2
          /\ i + 1 \in 0 .. n - 1
      BY <1>2, <2>4
    <3>2. F[i + 2] = F[i + 1] \o parts[i + 2] /\ parts[i + 2] \in Seq(E)
      BY <1>2, <1>3, <2>1, <3>1
    <3>3. F[i + 1] \in Seq(E)
      BY <2>4
    <3>4. F[i + 1] \o parts[i + 2] \in Seq(E)
      BY <3>2, <3>3
    <3>5. F[(i + 1) + 1] \in Seq(E)
      BY <3>1, <3>2, <3>4
    <3> QED
      BY <3>1, <3>5
  <2>5. n - 1 \in Nat /\ n - 1 \in 0 .. n - 1 /\ (n - 1) + 1 = n
    BY <1>2, <1>5
  <2>6. \A i \in 0 .. n - 1 : i \in U
    <3> HIDE DEF U
    <3> QED
      BY <2>3, <2>4, <2>5, InductionTo
  <2>7. F[n] \in Seq(E)
    BY <2>5, <2>6
  <2> QED
    BY <2>2, <2>7 DEF E
<1> QED
  BY <1>4, <1>5

LEMMA AppendIs ==
    ASSUME NEW S, NEW x \in Seq(S), NEW v \in S
    PROVE  Append(x, v) = [i \in 1 .. Len(x) + 1 |-> IF i = Len(x) + 1 THEN v ELSE x[i]]
<1> DEFINE At(i) == IF i = Len(x) + 1 THEN v ELSE x[i]
           z == [i \in 1 .. Len(x) + 1 |-> At(i)]
<1>1. Len(x) \in Nat
  OBVIOUS
<1>2. \A i \in 1 .. Len(x) + 1 : At(i) \in S
  BY <1>1
<1>3. z \in Seq(S) /\ Len(z) = Len(x) + 1
  <2> HIDE DEF At
  <2> QED
    BY <1>1, <1>2
<1>4. /\ Append(x, v) \in Seq(S) /\ Len(Append(x, v)) = Len(x) + 1
      /\ \A i \in 1 .. Len(x) + 1 : Append(x, v)[i] = At(i)
  BY <1>1
<1>5. \A i \in 1 .. Len(x) + 1 : z[i] = At(i)
  OBVIOUS
<1> HIDE DEF z, At
<1>6. Append(x, v) = z
  BY <1>3, <1>4, <1>5, SeqEqual
<1> QED
  BY <1>6 DEF z, At

LEMMA ConcatIs ==
    ASSUME NEW S, NEW x \in Seq(S), NEW y \in Seq(S)
    PROVE  x \o y = [i \in 1 .. Len(x) + Len(y) |-> IF i <= Len(x) THEN x[i] ELSE y[i - Len(x)]]
<1> DEFINE At(i) == IF i <= Len(x) THEN x[i] ELSE y[i - Len(x)]
           z == [i \in 1 .. Len(x) + Len(y) |-> At(i)]
<1>1. Len(x) \in Nat /\ Len(y) \in Nat
  OBVIOUS
<1>2. \A i \in 1 .. Len(x) + Len(y) : At(i) \in S
  BY <1>1
<1>3. z \in Seq(S) /\ Len(z) = Len(x) + Len(y)
  <2> HIDE DEF At
  <2> QED
    BY <1>1, <1>2
<1>4. x \o y \in Seq(S) /\ Len(x \o y) = Len(x) + Len(y)
  OBVIOUS
<1>5. \A i \in 1 .. Len(x) + Len(y) : (x \o y)[i] = At(i)
  OBVIOUS
<1>6. \A i \in 1 .. Len(x) + Len(y) : z[i] = At(i)
  OBVIOUS
<1> HIDE DEF z, At
<1>7. x \o y = z
  BY <1>3, <1>4, <1>5, <1>6, SeqEqual
<1> QED
  BY <1>7 DEF z, At

LEMMA ConcatUsers ==
    ASSUME NEW S, NEW a \in Seq(S), NEW b \in Seq(S),
           UsersOf(a) \in Seq(Taken), UsersOf(b) \in Seq(Taken)
    PROVE  UsersOf(a \o b) = UsersOf(a) \o UsersOf(b)
<1> DEFINE n == Len(a)
           m == Len(b)
           c == a \o b
<1>1. /\ n \in Nat /\ m \in Nat /\ DOMAIN a = 1 .. n /\ DOMAIN b = 1 .. m
      /\ DOMAIN c = 1 .. n + m
      /\ \A i \in 1 .. n + m : c[i] = IF i <= n THEN a[i] ELSE b[i - n]
      /\ \A i \in 1 .. n + m : i <= n => i \in 1 .. n
      /\ \A i \in 1 .. n + m : ~(i <= n) => i - n \in 1 .. m
  OBVIOUS
<1>2. Len(UsersOf(a)) = n /\ Len(UsersOf(b)) = m
  BY <1>1 DEF UsersOf
<1>3. UsersOf(a) \o UsersOf(b) =
          [i \in 1 .. n + m |-> IF i <= n THEN UsersOf(a)[i] ELSE UsersOf(b)[i - n]]
  <2>1. UsersOf(a) \o UsersOf(b) =
            [i \in 1 .. Len(UsersOf(a)) + Len(UsersOf(b)) |->
                IF i <= Len(UsersOf(a)) THEN UsersOf(a)[i] ELSE UsersOf(b)[i - Len(UsersOf(a))]]
    BY ConcatIs
  <2> QED
    BY <1>2, <2>1
<1> HIDE DEF c, n, m
<1>4. ASSUME NEW i \in 1 .. n + m
      PROVE  UsersOf(c)[i] = IF i <= n THEN UsersOf(a)[i] ELSE UsersOf(b)[i - n]
  <2>1. CASE i <= n
    <3>1. i \in DOMAIN a /\ i \in DOMAIN c /\ c[i] = a[i]
      BY <1>1, <2>1
    <3> QED
      BY <2>1, <3>1 DEF UsersOf
  <2>2. CASE ~(i <= n)
    <3>1. i - n \in DOMAIN b /\ i \in DOMAIN c /\ c[i] = b[i - n]
      BY <1>1, <2>2
    <3> QED
      BY <2>2, <3>1 DEF UsersOf
  <2> QED
    BY <2>1, <2>2
<1>5. UsersOf(c) = [i \in 1 .. n + m |-> UsersOf(c)[i]]
  BY <1>1 DEF UsersOf
<1> QED
  BY <1>3, <1>4, <1>5 DEF c

LEMMA ConcatEdges ==
    ASSUME NEW S, NEW a \in Seq(S), NEW b \in Seq(S),
           EdgesOf(a) \in Seq(Taken), EdgesOf(b) \in Seq(Taken)
    PROVE  EdgesOf(a \o b) = EdgesOf(a) \o EdgesOf(b)
<1> DEFINE n == Len(a)
           m == Len(b)
           c == a \o b
<1>1. /\ n \in Nat /\ m \in Nat /\ DOMAIN a = 1 .. n /\ DOMAIN b = 1 .. m
      /\ DOMAIN c = 1 .. n + m
      /\ \A i \in 1 .. n + m : c[i] = IF i <= n THEN a[i] ELSE b[i - n]
      /\ \A i \in 1 .. n + m : i <= n => i \in 1 .. n
      /\ \A i \in 1 .. n + m : ~(i <= n) => i - n \in 1 .. m
  OBVIOUS
<1>2. Len(EdgesOf(a)) = n /\ Len(EdgesOf(b)) = m
  BY <1>1 DEF EdgesOf
<1>3. EdgesOf(a) \o EdgesOf(b) =
          [i \in 1 .. n + m |-> IF i <= n THEN EdgesOf(a)[i] ELSE EdgesOf(b)[i - n]]
  <2>1. EdgesOf(a) \o EdgesOf(b) =
            [i \in 1 .. Len(EdgesOf(a)) + Len(EdgesOf(b)) |->
                IF i <= Len(EdgesOf(a)) THEN EdgesOf(a)[i] ELSE EdgesOf(b)[i - Len(EdgesOf(a))]]
    BY ConcatIs
  <2> QED
    BY <1>2, <2>1
<1> HIDE DEF c, n, m
<1>4. ASSUME NEW i \in 1 .. n + m
      PROVE  EdgesOf(c)[i] = IF i <= n THEN EdgesOf(a)[i] ELSE EdgesOf(b)[i - n]
  <2>1. CASE i <= n
    <3>1. i \in DOMAIN a /\ i \in DOMAIN c /\ c[i] = a[i]
      BY <1>1, <2>1
    <3> QED
      BY <2>1, <3>1 DEF EdgesOf
  <2>2. CASE ~(i <= n)
    <3>1. i - n \in DOMAIN b /\ i \in DOMAIN c /\ c[i] = b[i - n]
      BY <1>1, <2>2
    <3> QED
      BY <2>2, <3>1 DEF EdgesOf
  <2> QED
    BY <2>1, <2>2
<1>5. EdgesOf(c) = [i \in 1 .. n + m |-> EdgesOf(c)[i]]
  BY <1>1 DEF EdgesOf
<1> QED
  BY <1>3, <1>4, <1>5 DEF c

\* Lines of another kind add no users and no edges.
LEMMA NoUserLines ==
    ASSUME NEW S, NEW lines \in Seq(S), \A i \in DOMAIN lines : lines[i].kind # "user", NEW g
    PROVE  ApplyAll(g, UsersOf(lines)) = g
<1>1. DOMAIN lines = 1 .. Len(lines) /\ Len(lines) \in Nat
  OBVIOUS
<1>2. UsersOf(lines) \in [1 .. Len(lines) -> {Nothing}]
  BY <1>1 DEF UsersOf
<1>3. UsersOf(lines) \in Seq({Nothing})
  BY <1>1, <1>2
<1> QED
  BY <1>3, ApplyAllNothing

LEMMA NoEdgeLines ==
    ASSUME NEW S, NEW lines \in Seq(S), \A i \in DOMAIN lines : lines[i].kind # "edge", NEW g
    PROVE  ApplyAll(g, EdgesOf(lines)) = g
<1>1. DOMAIN lines = 1 .. Len(lines) /\ Len(lines) \in Nat
  OBVIOUS
<1>2. EdgesOf(lines) \in [1 .. Len(lines) -> {Nothing}]
  BY <1>1 DEF EdgesOf
<1>3. EdgesOf(lines) \in Seq({Nothing})
  BY <1>1, <1>2
<1> QED
  BY <1>3, ApplyAllNothing

\* The edges of one user, added to a graph where it has none.
LEMMA EdgesOfUser ==
    ASSUME NEW g, Proper(g), NEW h \in GraphType, DOMAIN h.names = DOMAIN g.names,
           NEW u \in DOMAIN g.names, h.following[u] = <<>>
    PROVE  LET k == ApplyAll(h, EdgesOf(EdgeLines(g, u)))
           IN /\ k \in GraphType /\ k.names = h.names
              /\ k.following[u] = g.following[u]
              /\ \A v \in Ids : v # u => k.following[v] = h.following[v]
<1> DEFINE list == g.following[u]
           n == Len(list)
           operations == EdgesOf(EdgeLines(g, u))
           R == Run(h, operations)
           M == Merged(<<>>, list)
           Good(i) == /\ R[i] \in GraphType /\ R[i].names = h.names
                      /\ R[i].following[u] = M[i]
                      /\ \A v \in Ids : v # u => R[i].following[v] = h.following[v]
           T == {i \in 0 .. n : Good(i)}
<1>1. /\ u \in Users /\ u \in Ids /\ list \in Seq(Users) /\ IsInjective(list)
      /\ ToSet(list) \subseteq DOMAIN g.names /\ n \in Nat /\ DOMAIN list = 1 .. n
  <2>1. u \in Users /\ u \in Ids /\ list \in Seq(Users)
    BY GraphFields DEF Proper, Ids
  <2>2. IsInjective(list) /\ ToSet(list) \subseteq DOMAIN g.names
    BY <2>1 DEF Proper
  <2> QED
    BY <2>1, <2>2
<1>2. Len(operations) = n /\ DOMAIN operations = 1 .. n
      /\ \A i \in 1 .. n : operations[i] = [kind |-> "AddFollow", source |-> u, target |-> list[i]]
  <2>1. operations = [i \in 1 .. n |-> [kind |-> "AddFollow", source |-> u, target |-> list[i]]]
    BY <1>1 DEF EdgesOf, EdgeLines
  <2> HIDE DEF operations
  <2> QED
    BY <1>1, <2>1
<1>3. R[0] = h /\ \A i \in 1 .. n : R[i] = Apply(R[i - 1], operations[i])
  <2> HIDE DEF operations
  <2> QED
    BY <1>1, <1>2, RunSteps
<1>4. M[0] = <<>> /\ \A i \in 0 .. n - 1 : M[i + 1] = WithTarget(M[i], list[i + 1])
  <2> HIDE DEF list
  <2> QED
    BY <1>1, MergedSteps
<1>5. M[n] = list
  <2> HIDE DEF list
  <2> QED
    BY <1>1, MergeCopies, MergeIsMerged
<1> HIDE DEF R, M, list, operations, n
<1>6. 0 \in T
  BY <1>1, <1>3, <1>4
<1>7. ASSUME NEW i \in 0 .. n - 1, i \in T PROVE i + 1 \in T
  <2>1. i + 1 \in 1 .. n /\ (i + 1) - 1 = i /\ i + 1 \in 0 .. n
    BY <1>1
  <2> DEFINE o == operations[i + 1]
  <2>2. /\ o.kind = "AddFollow" /\ o.source = u /\ o.target = list[i + 1]
    BY <1>2, <2>1
  <2>3. list[i + 1] \in Users /\ list[i + 1] \in DOMAIN g.names
    BY <1>1, <2>1 DEF ToSet
  <2>4. o \in Taken
    <3>1. o = [kind |-> "AddFollow", source |-> u, target |-> list[i + 1]]
      BY <1>2, <2>1
    <3> QED
      BY <1>1, <2>3, <3>1 DEF Taken
  <2> HIDE DEF o
  <2>5. Good(i)
    BY <1>7
  <2>6. Both(R[i], o)
    BY <2>2, <2>3, <2>5 DEF Both
  <2>7. R[i + 1] = Apply(R[i], o)
    BY <1>3, <2>1 DEF o
  <2>8. /\ R[i + 1] \in GraphType /\ R[i + 1].names = h.names
        /\ R[i + 1].following[u] = WithTarget(M[i], list[i + 1])
        /\ \A v \in Ids : v # u => R[i + 1].following[v] = h.following[v]
    <3>1. R[i] \in GraphType
      BY <2>5
    <3>2. /\ Apply(R[i], o) \in GraphType /\ Apply(R[i], o).names = R[i].names
          /\ \A v \in Ids : v # u => Apply(R[i], o).following[v] = R[i].following[v]
          /\ Apply(R[i], o).following[u] = WithTarget(R[i].following[u], list[i + 1])
      BY <2>2, <2>4, <2>6, <3>1, ChangingEdge
    <3> QED
      BY <2>5, <2>7, <3>2
  <2> QED
    BY <1>4, <2>1, <2>8
<1>8. \A i \in 0 .. n : i \in T
  <2> HIDE DEF T
  <2> QED
    BY <1>1, <1>6, <1>7, InductionTo
<1>9. Good(n)
  BY <1>1, <1>8
<1>10. ApplyAll(h, operations) = R[n]
  BY <1>2, ApplyAllIsRun DEF R
<1> QED
  BY <1>5, <1>9, <1>10 DEF operations, list

\* The users of g, without edges.
Bare(g) == [names |-> g.names, following |-> [u \in Ids |-> <<>>]]

LEMMA BareFields ==
    ASSUME NEW g \in GraphType
    PROVE  /\ Bare(g) \in GraphType /\ Bare(g).names = g.names
           /\ \A u \in Ids : Bare(g).following[u] = <<>>
<1>1. [u \in Ids |-> <<>>] \in [Ids -> Seq(Users)]
  OBVIOUS
<1>2. g.names \in [DOMAIN g.names -> AllNames] /\ DOMAIN g.names \in SUBSET Users
  BY GraphFields
<1> QED
  BY <1>1, <1>2, GraphMade DEF Bare

UserSection(g, order) == [i \in DOMAIN order |-> UserLine(g, order[i])]

LEMMA UserSectionFacts ==
    ASSUME NEW g, Proper(g), NEW order \in SetToSeqs(DOMAIN g.names)
    PROVE  /\ UserSection(g, order) \in Seq(UserLines(g))
           /\ ApplyAll(Empty, UsersOf(UserSection(g, order))) = Bare(g)
<1> DEFINE n == Len(order)
           us == UserSection(g, order)
           operations == UsersOf(us)
           R == Run(Empty, operations)
           First(i) == {order[j] : j \in 1 .. i}
           Good(i) == /\ R[i] \in GraphType
                      /\ R[i].following = Empty.following
                      /\ DOMAIN R[i].names = First(i)
                      /\ \A u \in First(i) : R[i].names[u] = g.names[u]
           T == {i \in 0 .. n : Good(i)}
<1>1. /\ g \in GraphType /\ DOMAIN g.names \in SUBSET Users
      /\ g.names \in [DOMAIN g.names -> AllNames]
  BY GraphFields DEF Proper
<1>2. /\ n \in Nat /\ DOMAIN order = 1 .. n
      /\ \A i \in 1 .. n : order[i] \in DOMAIN g.names
      /\ \A i, j \in 1 .. n : order[i] = order[j] => i = j
      /\ DOMAIN g.names = First(n)
  <2>1. /\ order \in Seq(DOMAIN g.names)
        /\ \A i, j \in 1 .. Len(order) : order[i] = order[j] => i = j
        /\ DOMAIN g.names = {order[i] : i \in 1 .. Len(order)}
    BY <1>1, OrderFacts
  <2> QED
    BY <2>1
<1> HIDE DEF n
<1>3. \A i \in 1 .. n : us[i] = [kind |-> "user", id |-> order[i], name |-> g.names[order[i]]]
  BY <1>2 DEF UserSection, UserLine
<1>4. us \in Seq(UserLines(g)) /\ DOMAIN us = 1 .. n /\ Len(us) = n
  <2>1. \A i \in 1 .. n : us[i] \in UserLines(g)
    <3> TAKE i \in 1 .. n
    <3>1. order[i] \in DOMAIN g.names /\ g.names[order[i]] \in AllNames
      BY <1>1, <1>2
    <3>2. us[i] = [kind |-> "user", id |-> order[i], name |-> g.names[order[i]]]
      BY <1>3
    <3>3. \A u \in DOMAIN g.names, x \in AllNames :
              [kind |-> "user", id |-> u, name |-> x] \in UserLines(g)
      BY DEF UserLines
    <3> HIDE DEF us
    <3> QED
      BY <3>1, <3>2, <3>3
  <2>2. us = [i \in 1 .. n |-> us[i]]
    BY <1>2 DEF UserSection
  <2> HIDE DEF us
  <2> QED
    BY <1>2, <2>1, <2>2
<1> HIDE DEF us
<1>5. /\ Len(operations) = n
      /\ \A i \in 1 .. n : operations[i] = [kind |-> "AddUser", user |-> order[i], name |-> g.names[order[i]]]
  <2>1. operations = [i \in 1 .. n |-> [kind |-> "AddUser", user |-> order[i], name |-> g.names[order[i]]]]
    BY <1>3, <1>4 DEF UsersOf
  <2> HIDE DEF operations
  <2> QED
    BY <1>2, <2>1
<1>6. R[0] = Empty /\ \A i \in 1 .. n : R[i] = Apply(R[i - 1], operations[i])
  <2> HIDE DEF operations
  <2> QED
    BY <1>2, <1>5, RunSteps
<1> HIDE DEF R, operations
<1>7. 0 \in T
  <2>1. First(0) = {} /\ DOMAIN Empty.names = {} /\ Empty \in GraphType
    BY EmptyProper DEF Empty, Proper
  <2> QED
    BY <1>2, <1>6, <2>1
<1>8. ASSUME NEW i \in 0 .. n - 1, i \in T PROVE i + 1 \in T
  <2>1. i + 1 \in 1 .. n /\ (i + 1) - 1 = i /\ i + 1 \in 0 .. n
    BY <1>2
  <2> DEFINE o == operations[i + 1]
             u == order[i + 1]
  <2>2. u \in DOMAIN g.names /\ u \in Users /\ g.names[u] \in AllNames
    BY <1>1, <1>2, <2>1
  <2>3. o = [kind |-> "AddUser", user |-> u, name |-> g.names[u]]
    BY <1>5, <2>1
  <2>4. o \in Taken /\ o.kind = "AddUser" /\ o.user = u /\ o.name = g.names[u]
    BY <2>2, <2>3 DEF Taken
  <2>5. First(i + 1) = First(i) \cup {u} /\ u \notin First(i)
    BY <1>2, <2>1
  <2> HIDE DEF o, u
  <2>6. Good(i)
    BY <1>8
  <2>7. R[i + 1] = Apply(R[i], o)
    BY <1>6, <2>1 DEF o
  <2> HIDE DEF First
  <2>8. /\ R[i + 1] \in GraphType
        /\ R[i + 1].following = R[i].following
        /\ DOMAIN R[i + 1].names = DOMAIN R[i].names \cup {u}
        /\ \A v \in DOMAIN R[i].names : R[i + 1].names[v] = R[i].names[v]
        /\ R[i + 1].names[u] = g.names[u]
    BY <2>4, <2>5, <2>6, <2>7, AddingUser
  <2>9. Good(i + 1)
    BY <2>5, <2>6, <2>8
  <2> QED
    BY <2>1, <2>9
<1>9. \A i \in 0 .. n : i \in T
  <2> HIDE DEF T
  <2> QED
    BY <1>2, <1>7, <1>8, InductionTo
<1>10. Good(n)
  BY <1>2, <1>9
<1> HIDE DEF First
<1>11. R[n] = Bare(g)
  <2>1. /\ Bare(g) \in GraphType /\ Bare(g).names = g.names
        /\ \A u \in Ids : Bare(g).following[u] = <<>>
    BY <1>1, BareFields
  <2>2. \A u \in Ids : R[n].following[u] = <<>>
    BY <1>10 DEF Empty
  <2> QED
    BY <1>2, <1>10, <2>1, <2>2, GraphsEqual
<1>12. ApplyAll(Empty, operations) = R[n]
  BY <1>5, ApplyAllIsRun DEF R
<1> QED
  BY <1>4, <1>11, <1>12 DEF operations, us

LEMMA EdgeSectionMakes ==
    ASSUME NEW g, Proper(g), NEW order \in SetToSeqs(DOMAIN g.names)
    PROVE  ApplyAll(Bare(g), EdgesOf(EdgeSection(g, order))) = g
<1> DEFINE n == Len(order)
           parts == [i \in DOMAIN order |-> EdgeLines(g, order[i])]
           F == Flattened(parts)
           E == EdgeLinesOf(g)
           Upto(i) == ApplyAll(Bare(g), EdgesOf(F[i]))
           First(i) == {order[j] : j \in 1 .. i}
           Good(i) == /\ F[i] \in Seq(E)
                      /\ Upto(i) \in GraphType /\ Upto(i).names = g.names
                      /\ \A u \in First(i) : Upto(i).following[u] = g.following[u]
                      /\ \A u \in Ids \ First(i) : Upto(i).following[u] = <<>>
           T == {i \in 0 .. n - 1 : Good(i + 1)}
<1>1. /\ g \in GraphType /\ DOMAIN g.names \in SUBSET Users
      /\ Bare(g) \in GraphType /\ Bare(g).names = g.names
      /\ \A u \in Ids : Bare(g).following[u] = <<>>
  BY GraphFields, BareFields DEF Proper
<1>2. /\ order \in Seq(DOMAIN g.names)
      /\ n \in Nat /\ DOMAIN order = 1 .. n
      /\ \A i \in 1 .. n : order[i] \in DOMAIN g.names
      /\ \A i, j \in 1 .. n : order[i] = order[j] => i = j
      /\ DOMAIN g.names = First(n)
  <2>1. /\ order \in Seq(DOMAIN g.names)
        /\ \A i, j \in 1 .. Len(order) : order[i] = order[j] => i = j
        /\ DOMAIN g.names = {order[i] : i \in 1 .. Len(order)}
    BY <1>1, OrderFacts
  <2> QED
    BY <2>1
<1>3. Len(parts) = n /\ \A i \in 1 .. n : parts[i] = EdgeLines(g, order[i])
  BY <1>2
<1>4. \A u \in DOMAIN g.names : /\ EdgeLines(g, u) \in Seq(E)
                                /\ EdgesOf(EdgeLines(g, u)) \in Seq(Taken)
  <2> SUFFICES ASSUME NEW u \in DOMAIN g.names
               PROVE  EdgeLines(g, u) \in Seq(E) /\ EdgesOf(EdgeLines(g, u)) \in Seq(Taken)
    OBVIOUS
  <2>1. EdgeLines(g, u) \in Seq(E)
    BY <1>1, EdgeLinesTrue
  <2> QED
    BY <1>1, <2>1, EdgeLinesTaken
<1>5. ASSUME NEW u \in Ids, u \notin DOMAIN g.names PROVE g.following[u] = <<>>
  BY <1>5 DEF Proper
<1>6. ASSUME NEW h \in GraphType, h.names = g.names, NEW S,
             \A u \in S : h.following[u] = g.following[u],
             \A u \in Ids \ S : h.following[u] = <<>>, S = DOMAIN g.names
      PROVE  h = g
  <2>1. \A u \in Ids : h.following[u] = g.following[u]
    BY <1>5, <1>6
  <2> QED
    BY <1>1, <1>6, <2>1, GraphsEqual
<1>7. CASE n = 0
  <2>1. EdgeSection(g, order) = parts /\ parts = <<>>
    BY <1>2, <1>3, <1>7 DEF EdgeSection, FlattenSeq
  <2>2. EdgesOf(<<>>) = <<>>
    BY DEF EdgesOf
  <2>3. ApplyAll(Bare(g), EdgesOf(EdgeSection(g, order))) = Bare(g)
    BY <2>1, <2>2, ApplyAllEmpty
  <2>4. DOMAIN g.names = {}
    BY <1>2, <1>7
  <2> QED
    BY <1>1, <1>6, <2>3, <2>4
<1>8. CASE n # 0
  <2>1. F[1] = parts[1] /\ \A i \in 2 .. n : F[i] = F[i - 1] \o parts[i]
    <3> HIDE DEF parts
    <3> QED
      BY <1>2, <1>3, <1>8, FlattenedSteps
  <2>2. EdgeSection(g, order) = F[n]
    BY <1>2, <1>3, <1>8, FlattenSeqIsFlattened DEF EdgeSection
  <2> HIDE DEF F, parts, E, n
  <2>3. 0 \in T
    <3> DEFINE u == order[1]
    <3>1. 1 \in 1 .. n /\ u \in DOMAIN g.names /\ u \in Ids /\ 0 + 1 = 1 /\ 0 \in 0 .. n - 1
      BY <1>1, <1>2, <1>8 DEF Ids
    <3>2. F[1] = EdgeLines(g, u) /\ First(1) = {u}
      BY <1>3, <2>1, <3>1
    <3> HIDE DEF u
    <3>3. /\ Upto(1) \in GraphType /\ Upto(1).names = Bare(g).names
          /\ Upto(1).following[u] = g.following[u]
          /\ \A v \in Ids : v # u => Upto(1).following[v] = Bare(g).following[v]
      BY <1>1, <3>1, <3>2, EdgesOfUser
    <3> HIDE DEF Upto, First
    <3>4. Good(1)
      BY <1>1, <1>4, <3>1, <3>2, <3>3
    <3> QED
      BY <3>1, <3>4
  <2>4. ASSUME NEW i \in 0 .. (n - 1) - 1, i \in T PROVE i + 1 \in T
    <3> DEFINE j == i + 1
               u == order[j + 1]
    <3>1. /\ j + 1 \in 2 .. n /\ j + 1 \in 1 .. n /\ (j + 1) - 1 = j /\ j \in 0 .. n - 1
          /\ j \in 1 .. n
      BY <1>2, <2>4
    <3>2. Good(j)
      BY <2>4
    <3> HIDE DEF j
    <3>3. F[j + 1] = F[j] \o EdgeLines(g, u)
      BY <1>3, <2>1, <3>1
    <3>4. u \in DOMAIN g.names /\ u \in Ids
      BY <1>1, <1>2, <3>1 DEF Ids
    <3>5. First(j + 1) = First(j) \cup {u} /\ u \notin First(j)
      BY <1>2, <3>1
    <3> HIDE DEF u
    <3>6. /\ EdgeLines(g, u) \in Seq(E) /\ EdgesOf(EdgeLines(g, u)) \in Seq(Taken)
          /\ F[j] \in Seq(E) /\ EdgesOf(F[j]) \in Seq(Taken)
      BY <1>1, <1>4, <3>2, <3>4, EdgeLinesTaken DEF E
    <3>7. F[j + 1] \in Seq(E)
      BY <3>3, <3>6
    <3>8. EdgesOf(F[j + 1]) = EdgesOf(F[j]) \o EdgesOf(EdgeLines(g, u))
      <4>1. EdgesOf(F[j] \o EdgeLines(g, u)) = EdgesOf(F[j]) \o EdgesOf(EdgeLines(g, u))
        BY <3>6, ConcatEdges
      <4> QED
        BY <3>3, <4>1
    <3>9. Upto(j + 1) = ApplyAll(Upto(j), EdgesOf(EdgeLines(g, u)))
      BY <3>6, <3>8, ApplyAllConcat
    <3> HIDE DEF Upto, First
    <3>10. Upto(j).following[u] = <<>>
      BY <3>2, <3>4, <3>5
    <3>11. /\ Upto(j + 1) \in GraphType /\ Upto(j + 1).names = Upto(j).names
           /\ Upto(j + 1).following[u] = g.following[u]
           /\ \A v \in Ids : v # u => Upto(j + 1).following[v] = Upto(j).following[v]
      BY <1>1, <3>2, <3>4, <3>9, <3>10, EdgesOfUser
    <3>12. First(j) \subseteq Ids
      BY <1>1, <1>2, <3>1 DEF First, Ids
    <3>13. Good(j + 1)
      BY <3>2, <3>5, <3>7, <3>11, <3>12
    <3> QED
      BY <3>1, <3>13 DEF j
  <2>5. n - 1 \in Nat /\ n - 1 \in 0 .. n - 1 /\ (n - 1) + 1 = n
    BY <1>2, <1>8
  <2>6. \A i \in 0 .. n - 1 : i \in T
    <3> HIDE DEF T
    <3> QED
      BY <2>3, <2>4, <2>5, InductionTo
  <2>7. Good(n)
    <3>1. n - 1 \in T
      BY <2>5, <2>6
    <3>2. Good((n - 1) + 1)
      BY <3>1
    <3> HIDE DEF Good
    <3> QED
      BY <2>5, <3>2
  <2> HIDE DEF Upto, First
  <2>8. Upto(n) = g
    BY <1>2, <1>6, <2>7
  <2> QED
    BY <2>2, <2>8 DEF Upto
<1> QED
  BY <1>2, <1>7, <1>8

Opening(timestamp) ==
    <<[kind |-> "header"], [kind |-> "timestamp", value |-> timestamp],
      [kind |-> "shard_count"], [kind |-> "placement"], [kind |-> "USERS"]>>

Middle == <<[kind |-> "EDGES"]>>

LEMMA SnapshotParts ==
    ASSUME NEW g, NEW timestamp, NEW order
    PROVE  SnapshotLines(g, timestamp, order) =
               Opening(timestamp) \o UserSection(g, order) \o Middle \o EdgeSection(g, order)
  BY DEF SnapshotLines, Opening, UserSection, Middle, EdgeSection

LEMMA OpeningFacts ==
    ASSUME NEW g \in GraphType, NEW timestamp
    PROVE  /\ Opening(timestamp) \in Seq(TrueLines(g, timestamp)) /\ Len(Opening(timestamp)) = 5
           /\ Middle \in Seq(TrueLines(g, timestamp)) /\ Len(Middle) = 1
           /\ Opening(timestamp)[1].kind = "header"
           /\ Opening(timestamp)[2].kind = "timestamp"
           /\ Opening(timestamp)[3].kind = "shard_count"
           /\ \A i \in DOMAIN Opening(timestamp) : Opening(timestamp)[i].kind \notin {"user", "edge"}
           /\ \A i \in DOMAIN Middle : Middle[i].kind \notin {"user", "edge"}
<1> DEFINE L == TrueLines(g, timestamp)
<1>1. \A k \in {"header", "shard_count", "placement", "USERS", "EDGES"} : [kind |-> k] \in L
  BY DEF TrueLines, Headings
<1>2. [kind |-> "timestamp", value |-> timestamp] \in L
  BY DEF TrueLines, Stamps
<1> HIDE DEF L
<1>3. Opening(timestamp) \in Seq(L) /\ Middle \in Seq(L)
  BY <1>1, <1>2 DEF Opening, Middle
<1>4. Len(Opening(timestamp)) = 5 /\ DOMAIN Opening(timestamp) = 1 .. 5
      /\ Len(Middle) = 1 /\ DOMAIN Middle = 1 .. 1
  BY DEF Opening, Middle
<1>5. /\ Opening(timestamp)[1] = [kind |-> "header"]
      /\ Opening(timestamp)[2] = [kind |-> "timestamp", value |-> timestamp]
      /\ Opening(timestamp)[3] = [kind |-> "shard_count"]
      /\ Opening(timestamp)[4] = [kind |-> "placement"]
      /\ Opening(timestamp)[5] = [kind |-> "USERS"]
      /\ Middle[1] = [kind |-> "EDGES"]
  BY DEF Opening, Middle
<1>6. \A i \in 1 .. 5 : Opening(timestamp)[i].kind \notin {"user", "edge"}
  <2> SUFFICES ASSUME NEW i \in 1 .. 5 PROVE Opening(timestamp)[i].kind \notin {"user", "edge"}
    OBVIOUS
  <2>1. i = 1 \/ i = 2 \/ i = 3 \/ i = 4 \/ i = 5
    OBVIOUS
  <2> QED
    BY <1>5, <2>1
<1>7. \A i \in 1 .. 1 : Middle[i].kind \notin {"user", "edge"}
  BY <1>5
<1> QED
  BY <1>3, <1>4, <1>5, <1>6, <1>7 DEF L

LEMMA ConcatKeeps ==
    ASSUME NEW S, NEW x \in Seq(S), NEW y \in Seq(S)
    PROVE  x \o y \in Seq(S) /\ Len(x \o y) >= Len(x) /\ \A i \in 1 .. Len(x) : (x \o y)[i] = x[i]
<1>1. /\ x \o y \in Seq(S) /\ Len(x \o y) = Len(x) + Len(y)
      /\ \A i \in 1 .. Len(x) + Len(y) :
             (x \o y)[i] = IF i <= Len(x) THEN x[i] ELSE y[i - Len(x)]
  BY ConcatProperties
<1>2. Len(x) \in Nat /\ Len(y) \in Nat
  OBVIOUS
<1>3. \A i \in 1 .. Len(x) : i \in 1 .. Len(x) + Len(y) /\ i <= Len(x)
  BY <1>2
<1> QED
  BY <1>1, <1>2, <1>3

LEMMA SnapshotFacts ==
    ASSUME NEW g, Proper(g), NEW timestamp, NEW order \in SetToSeqs(DOMAIN g.names)
    PROVE  LET lines == SnapshotLines(g, timestamp, order)
           IN /\ lines \in Seq(TrueLines(g, timestamp)) /\ Len(lines) >= 5
              /\ lines[1].kind = "header" /\ lines[2].kind = "timestamp"
              /\ lines[3].kind = "shard_count"
<1> DEFINE L == TrueLines(g, timestamp)
           a == Opening(timestamp)
           b == UserSection(g, order)
           d == EdgeSection(g, order)
           lines == a \o b \o Middle \o d
<1>1. g \in GraphType
  BY DEF Proper
<1>2. UserLines(g) \subseteq L /\ EdgeLinesOf(g) \subseteq L
  BY DEF TrueLines
<1>3. b \in Seq(UserLines(g)) /\ d \in Seq(EdgeLinesOf(g))
  BY UserSectionFacts, EdgeSectionLines
<1>4. a \in Seq(L) /\ Len(a) = 5 /\ Middle \in Seq(L)
      /\ a[1].kind = "header" /\ a[2].kind = "timestamp" /\ a[3].kind = "shard_count"
  BY <1>1, OpeningFacts
<1> HIDE DEF L, a, b, d
<1>5. b \in Seq(L) /\ d \in Seq(L)
  BY <1>2, <1>3
<1> DEFINE e == a \o b
           f == e \o Middle
<1>6. e \in Seq(L) /\ Len(e) >= 5 /\ \A i \in 1 .. 5 : e[i] = a[i]
  <2>1. a \o b \in Seq(L) /\ Len(a \o b) >= Len(a) /\ \A i \in 1 .. Len(a) : (a \o b)[i] = a[i]
    BY <1>4, <1>5, ConcatKeeps
  <2> QED
    BY <1>4, <2>1
<1>7. Len(e) \in Nat /\ \A i \in 1 .. 5 : i \in 1 .. Len(e)
  BY <1>6
<1> HIDE DEF e
<1>8. f \in Seq(L) /\ Len(f) >= 5 /\ \A i \in 1 .. 5 : f[i] = a[i]
  <2>1. /\ e \o Middle \in Seq(L) /\ Len(e \o Middle) >= Len(e)
        /\ \A i \in 1 .. Len(e) : (e \o Middle)[i] = e[i]
    BY <1>4, <1>6, ConcatKeeps
  <2>2. f \in Seq(L) /\ Len(f) >= Len(e) /\ \A i \in 1 .. Len(e) : f[i] = e[i]
    BY <2>1
  <2> HIDE DEF f
  <2>3. Len(f) \in Nat
    BY <2>2
  <2> QED
    BY <1>6, <1>7, <2>2, <2>3
<1>9. Len(f) \in Nat /\ \A i \in 1 .. 5 : i \in 1 .. Len(f)
  BY <1>8
<1> HIDE DEF f
<1>10. lines \in Seq(L) /\ Len(lines) >= 5 /\ lines[1] = a[1] /\ lines[2] = a[2] /\ lines[3] = a[3]
  <2>1. lines = f \o d
    BY DEF e, f
  <2>2. f \o d \in Seq(L) /\ Len(f \o d) >= Len(f) /\ \A i \in 1 .. Len(f) : (f \o d)[i] = f[i]
    BY <1>5, <1>8, ConcatKeeps
  <2> HIDE DEF lines
  <2>3. lines \in Seq(L) /\ Len(lines) >= Len(f) /\ \A i \in 1 .. Len(f) : lines[i] = f[i]
    BY <2>1, <2>2
  <2>4. Len(lines) \in Nat
    BY <2>3
  <2> QED
    BY <1>8, <1>9, <2>3, <2>4
<1>11. SnapshotLines(g, timestamp, order) = lines
  BY SnapshotParts DEF a, b, d
<1> HIDE DEF lines
<1> QED
  BY <1>4, <1>10, <1>11 DEF L

\* A graph saved and restored is the same graph.
LEMMA RestoreSnapshot ==
    ASSUME NEW g, Proper(g), NEW timestamp, NEW order \in SetToSeqs(DOMAIN g.names), NEW s,
           s.lines = SnapshotLines(g, timestamp, order)
    PROVE  Restore(s) = g
<1> DEFINE L == TrueLines(g, timestamp) \cup {Bad}
           a == Opening(timestamp)
           b == UserSection(g, order)
           c == Middle
           d == EdgeSection(g, order)
           U(lines) == UsersOf(lines)
           V(lines) == EdgesOf(lines)
<1>1. g \in GraphType
  BY DEF Proper
<1>2. UserLines(g) \subseteq L /\ EdgeLinesOf(g) \subseteq L /\ TrueLines(g, timestamp) \subseteq L
  BY DEF TrueLines
<1>3. b \in Seq(UserLines(g)) /\ d \in Seq(EdgeLinesOf(g)) /\ ApplyAll(Empty, U(b)) = Bare(g)
  BY UserSectionFacts, EdgeSectionLines
<1>4. /\ a \in Seq(TrueLines(g, timestamp)) /\ c \in Seq(TrueLines(g, timestamp))
      /\ \A i \in DOMAIN a : a[i].kind \notin {"user", "edge"}
      /\ \A i \in DOMAIN c : c[i].kind \notin {"user", "edge"}
  BY <1>1, OpeningFacts
<1>5. ApplyAll(Bare(g), V(d)) = g
  BY EdgeSectionMakes
<1>6. SnapshotLines(g, timestamp, order) = ((a \o b) \o c) \o d
  BY SnapshotParts
<1>7. \A lines \in Seq(L) : U(lines) \in Seq(Taken) /\ V(lines) \in Seq(Taken)
  BY <1>1, UsersOfTaken, EdgesOfTaken
<1>8. /\ \A i \in DOMAIN b : b[i].kind # "edge"
      /\ \A i \in DOMAIN d : d[i].kind # "user"
  <2>1. \A l \in UserLines(g) : l.kind # "edge"
    BY DEF UserLines
  <2>2. \A l \in EdgeLinesOf(g) : l.kind # "user"
    BY DEF EdgeLinesOf
  <2> HIDE DEF b, d
  <2> QED
    BY <1>3, <2>1, <2>2
<1> HIDE DEF L, a, b, c, d
<1>9. a \in Seq(L) /\ b \in Seq(L) /\ c \in Seq(L) /\ d \in Seq(L)
  BY <1>2, <1>3, <1>4
<1>10. a \o b \in Seq(L) /\ (a \o b) \o c \in Seq(L)
  BY <1>9
<1>11. /\ U(a \o b) = U(a) \o U(b) /\ V(a \o b) = V(a) \o V(b)
  BY <1>7, <1>9, ConcatUsers, ConcatEdges
<1>12. /\ U((a \o b) \o c) = U(a \o b) \o U(c) /\ V((a \o b) \o c) = V(a \o b) \o V(c)
  BY <1>7, <1>9, <1>10, ConcatUsers, ConcatEdges
<1>13. /\ U(((a \o b) \o c) \o d) = U((a \o b) \o c) \o U(d)
       /\ V(((a \o b) \o c) \o d) = V((a \o b) \o c) \o V(d)
  BY <1>7, <1>9, <1>10, ConcatUsers, ConcatEdges
<1>14. \A h : /\ ApplyAll(h, U(a)) = h /\ ApplyAll(h, U(c)) = h /\ ApplyAll(h, U(d)) = h
              /\ ApplyAll(h, V(a)) = h /\ ApplyAll(h, V(b)) = h /\ ApplyAll(h, V(c)) = h
  BY <1>4, <1>8, <1>9, NoUserLines, NoEdgeLines
<1> DEFINE x == a \o b
           y == (a \o b) \o c
<1>15. ApplyAll(Empty, U(y \o d)) = Bare(g)
  <2>1. U(a) \in Seq(Taken) /\ U(b) \in Seq(Taken) /\ U(c) \in Seq(Taken) /\ U(d) \in Seq(Taken)
        /\ U(x) \in Seq(Taken) /\ U(y) \in Seq(Taken)
    BY <1>7, <1>9, <1>10
  <2>2. ApplyAll(Empty, U(x)) = ApplyAll(ApplyAll(Empty, U(a)), U(b))
    BY <1>11, <2>1, ApplyAllConcat
  <2>3. ApplyAll(Empty, U(y)) = ApplyAll(ApplyAll(Empty, U(x)), U(c))
    BY <1>12, <2>1, ApplyAllConcat
  <2>4. ApplyAll(Empty, U(y \o d)) = ApplyAll(ApplyAll(Empty, U(y)), U(d))
    BY <1>13, <2>1, ApplyAllConcat
  <2> HIDE DEF U, x, y
  <2> QED
    BY <1>3, <1>14, <2>2, <2>3, <2>4
<1>16. ApplyAll(Bare(g), V(y \o d)) = g
  <2>1. V(a) \in Seq(Taken) /\ V(b) \in Seq(Taken) /\ V(c) \in Seq(Taken) /\ V(d) \in Seq(Taken)
        /\ V(x) \in Seq(Taken) /\ V(y) \in Seq(Taken)
    BY <1>7, <1>9, <1>10
  <2>2. ApplyAll(Bare(g), V(x)) = ApplyAll(ApplyAll(Bare(g), V(a)), V(b))
    BY <1>11, <2>1, ApplyAllConcat
  <2>3. ApplyAll(Bare(g), V(y)) = ApplyAll(ApplyAll(Bare(g), V(x)), V(c))
    BY <1>12, <2>1, ApplyAllConcat
  <2>4. ApplyAll(Bare(g), V(y \o d)) = ApplyAll(ApplyAll(Bare(g), V(y)), V(d))
    BY <1>13, <2>1, ApplyAllConcat
  <2> HIDE DEF V, x, y
  <2> QED
    BY <1>5, <1>14, <2>2, <2>3, <2>4
<1>17. s.lines = y \o d
  BY <1>6
<1> QED
  BY <1>15, <1>16, <1>17 DEF Restore

\* A file cut off after the shard count has the timestamp.
Stamped(lines) == Has(lines, "shard_count") => Has(lines, "timestamp")

LEMMA LoadFacts ==
    ASSUME NEW g \in GraphType, NEW timestamp, NEW lines \in Seq(TrueLines(g, timestamp) \cup {Bad}),
           Stamped(lines), Load(lines).ok
    PROVE  Load(lines).timestamp = timestamp /\ Load(lines).lines = lines
<1> DEFINE p == CHOOSE i \in DOMAIN lines : lines[i].kind = "timestamp"
<1>1. Has(lines, "shard_count")
      /\ Load(lines) = [ok |-> TRUE, timestamp |-> lines[p].value, lines |-> lines]
  BY DEF Load, Failure
<1>2. \E i \in DOMAIN lines : lines[i].kind = "timestamp"
  BY <1>1 DEF Stamped, Has
<1>3. p \in DOMAIN lines /\ lines[p].kind = "timestamp"
  BY <1>2
<1> HIDE DEF p
<1>4. lines[p] \in TrueLines(g, timestamp) \cup {Bad}
  BY <1>3
<1>5. lines[p].value = timestamp
  BY <1>3, <1>4, LineKinds DEF Bad
<1> QED
  BY <1>1, <1>5

-----------------------------------------------------------------------------
(* What the reader makes of the log *)

Read(lines) == [i \in DOMAIN lines |-> IF lines[i].kind = "entry" THEN lines[i].operation ELSE Nothing]

\* What the entry of an operation o may be read as when its end is missing.
Altered(o, p) ==
    \/ p = Nothing
    \/ o.kind = "AddUser" /\ \E x \in {CutName, RunOnName} : p = [o EXCEPT !.name = x]

ReadAs(l, n, o) ==
    l.kind = "entry" => /\ l.sequence = n
                        /\ l.operation \in Taken
                        /\ l.operation = o \/ Altered(o, l.operation)

LEMMA AloneFacts ==
    ASSUME NEW n \in Nat, NEW o \in Operations, NEW at \in Cuts(o)
    PROVE  ReadAs(Alone(Cut(n, o, at)), n, o)
<1> DEFINE c == Cut(n, o, at)
           l == Alone(c)
<1> SUFFICES ReadAs(l, n, o)
  OBVIOUS
<1>1. c.sequence = n /\ c.operation = o /\ c.at = at
  BY DEF Cut
<1>2. o \in Taken
  BY OperationsTaken
<1>3. ASSUME NEW x \in {CutName, RunOnName}, o.kind = "AddUser"
      PROVE  [o EXCEPT !.name = x] \in Taken
  <2>1. o.user \in Users /\ o = [kind |-> "AddUser", user |-> o.user, name |-> o.name]
    BY <1>2, <1>3 DEF Taken, Nothing
  <2>2. [o EXCEPT !.name = x] = [kind |-> "AddUser", user |-> o.user, name |-> x]
    BY <2>1
  <2>3. x \in AllNames
    BY DEF AllNames
  <2> QED
    BY <2>1, <2>2, <2>3 DEF Taken
<1>4. at \in {"id", "separator", "name", "piped name"} => o.kind = "AddUser"
  BY DEF Cuts
<1>5. at \in {"sequence", "operation", "source", "id", "target", "separator", "name", "piped name",
              "newline"}
  BY DEF Cuts
<1> HIDE DEF c
<1>6. CASE at \in {"sequence", "operation", "source"}
  BY <1>1, <1>6 DEF Alone, Skipped, ReadAs
<1>7. CASE at \in {"id", "target"}
  BY <1>1, <1>7 DEF Alone, Bad, ReadAs
<1>8. CASE at \in {"separator", "name"}
  <2>1. l = EntryLine(n, [o EXCEPT !.name = CutName])
    BY <1>1, <1>8 DEF Alone
  <2> DEFINE p == [o EXCEPT !.name = CutName]
  <2>2. p \in Taken /\ Altered(o, p)
    BY <1>3, <1>4, <1>8 DEF Altered
  <2> HIDE DEF p
  <2>3. l.sequence = n /\ l.operation = p
    BY <2>1 DEF EntryLine, p
  <2> HIDE DEF l
  <2> QED
    BY <2>2, <2>3 DEF ReadAs
<1>9. CASE at = "piped name"
  <2>1. l = EntryLine(n, [o EXCEPT !.name = RunOnName])
    BY <1>1, <1>9 DEF Alone
  <2> DEFINE p == [o EXCEPT !.name = RunOnName]
  <2>2. p \in Taken /\ Altered(o, p)
    BY <1>3, <1>4, <1>9 DEF Altered
  <2> HIDE DEF p
  <2>3. l.sequence = n /\ l.operation = p
    BY <2>1 DEF EntryLine, p
  <2> HIDE DEF l
  <2> QED
    BY <2>2, <2>3 DEF ReadAs
<1>10. CASE at = "newline"
  <2>1. l = EntryLine(n, o)
    BY <1>1, <1>10 DEF Alone
  <2> QED
    BY <1>2, <2>1 DEF EntryLine, ReadAs
<1> QED
  BY <1>5, <1>6, <1>7, <1>8, <1>9, <1>10 DEF c

\* Only the end of the log is cut.
OnlyEndCut == \A i \in DOMAIN history : ~history[i].returned => i = Len(history)

Entries(h, n) == [i \in 1 .. n |-> EntryLine(i, h[i].operation)]

WholeLog ==
    /\ AppendsWhole
    /\ torn = NoLine
    /\ log = Entries(history, Len(history))

CutLog ==
    /\ Len(history) >= 1 /\ ~history[Len(history)].returned
    /\ log = Entries(history, Len(history) - 1)
    /\ \E at \in Cuts(history[Len(history)].operation) :
          torn = Cut(Len(history), history[Len(history)].operation, at)

\* The log has the operations of the history, numbered.
LogInv ==
    /\ history \in Seq([operation : Operations, returned : BOOLEAN])
    /\ OnlyEndCut => WholeLog \/ CutLog

LEMMA HistoryFacts ==
    ASSUME LogInv
    PROVE  /\ Len(history) \in Nat /\ DOMAIN history = 1 .. Len(history)
           /\ \A i \in 1 .. Len(history) : /\ history[i].operation \in Operations
                                           /\ history[i].returned \in BOOLEAN
<1> DEFINE S == [operation : Operations, returned : BOOLEAN]
<1>1. \A x \in S : x.operation \in Operations /\ x.returned \in BOOLEAN
  OBVIOUS
<1>2. history \in Seq(S)
  BY DEF LogInv
<1> HIDE DEF S
<1> QED
  BY <1>1, <1>2

LEMMA WholeLogFacts ==
    ASSUME LogInv, WholeLog
    PROVE  /\ Read(LogLines) \in Seq(Taken) /\ Len(Read(LogLines)) = Len(history)
           /\ \A i \in 1 .. Len(history) : Read(LogLines)[i] = history[i].operation
           /\ \A from : OperationsFrom(LogLines, from) = From(Read(LogLines), from)
           /\ LogReadable
<1> DEFINE n == Len(history)
<1>1. n \in Nat /\ \A i \in 1 .. n : history[i].operation \in Operations
  BY HistoryFacts
<1>2. LogLines = Entries(history, n) /\ DOMAIN LogLines = 1 .. n
  BY DEF WholeLog, LogLines, Entries
<1>3. \A i \in 1 .. n : /\ LogLines[i].kind = "entry" /\ LogLines[i].sequence = i
                        /\ LogLines[i].operation = history[i].operation
  BY <1>2 DEF Entries, EntryLine
<1> HIDE DEF n
<1>4. \A i \in 1 .. n : Read(LogLines)[i] = history[i].operation
  BY <1>2, <1>3 DEF Read
<1>5. Read(LogLines) = [i \in 1 .. n |-> Read(LogLines)[i]]
  BY <1>2 DEF Read
<1>6. \A i \in 1 .. n : Read(LogLines)[i] \in Taken
  BY <1>1, <1>4, OperationsTaken
<1>7. Read(LogLines) \in Seq(Taken) /\ Len(Read(LogLines)) = n
  BY <1>1, <1>5, <1>6
<1>8. ASSUME NEW from PROVE OperationsFrom(LogLines, from) = From(Read(LogLines), from)
  <2>1. \A i \in 1 .. n :
            (IF LogLines[i].kind = "entry" /\ LogLines[i].sequence >= from
             THEN LogLines[i].operation ELSE Nothing)
                = (IF i >= from THEN Read(LogLines)[i] ELSE Nothing)
    BY <1>3, <1>4
  <2> QED
    BY <1>2, <1>7, <2>1 DEF OperationsFrom, From
<1>9. LogReadable
  BY <1>2, <1>3 DEF LogReadable, Has
<1> QED
  BY <1>4, <1>7, <1>8, <1>9 DEF n

LEMMA CutLogFacts ==
    ASSUME LogInv, CutLog
    PROVE  /\ Read(LogLines) \in Seq(Taken) /\ Len(Read(LogLines)) = Len(history)
           /\ \A i \in 1 .. Len(history) - 1 : Read(LogLines)[i] = history[i].operation
           /\ LET last == history[Len(history)].operation
                  read == Read(LogLines)[Len(history)]
              IN last \in Operations /\ (read = last \/ Altered(last, read))
           /\ \A from : OperationsFrom(LogLines, from) = From(Read(LogLines), from)
<1> DEFINE n == Len(history)
           o == history[n].operation
<1>1. n \in Nat \ {0} /\ (\A i \in 1 .. n : history[i].operation \in Operations) /\ n \in 1 .. n
  BY HistoryFacts DEF CutLog
<1>2. PICK at \in Cuts(o) : torn = Cut(n, o, at)
  BY DEF CutLog
<1> DEFINE l == Alone(Cut(n, o, at))
<1>3. torn # NoLine
  BY <1>2 DEF Cut, NoLine
<1>4. LogLines = Append(Entries(history, n - 1), l)
  BY <1>2, <1>3 DEF CutLog, LogLines
<1>5. ReadAs(l, n, o)
  BY <1>1, AloneFacts
<1> HIDE DEF l
<1>6. /\ DOMAIN LogLines = 1 .. n /\ LogLines[n] = l
      /\ \A i \in 1 .. n - 1 : LogLines[i] = EntryLine(i, history[i].operation)
  <2> DEFINE e == Entries(history, n - 1)
  <2>1. e = [i \in 1 .. n - 1 |-> EntryLine(i, history[i].operation)] /\ n - 1 \in Nat
    BY <1>1 DEF Entries
  <2>2. Len(e) = n - 1 /\ \A i \in 1 .. n - 1 : e[i] = EntryLine(i, history[i].operation)
    BY <2>1
  <2>3. \E S : e \in Seq(S) /\ l \in S
    <3> DEFINE S == {e[i] : i \in 1 .. n - 1} \cup {l}
    <3>1. e \in [1 .. n - 1 -> S] /\ l \in S
      BY <2>1
    <3> HIDE DEF S, e
    <3>2. e \in Seq(S)
      BY <2>1, <3>1
    <3> QED
      BY <3>1, <3>2
  <2> HIDE DEF e, n
  <2>4. /\ DOMAIN Append(e, l) = 1 .. n /\ Append(e, l)[n] = l
        /\ \A i \in 1 .. n - 1 : Append(e, l)[i] = e[i]
    <3>1. PICK S : e \in Seq(S) /\ l \in S
      BY <2>3
    <3>2. n - 1 \in Nat /\ (n - 1) + 1 = n
      BY <1>1
    <3> QED
      BY <2>2, <3>1, <3>2, AppendProperties
  <2> QED
    BY <1>1, <1>4, <2>2, <2>4 DEF e
<1> HIDE DEF n
<1>7. \A i \in 1 .. n : i # n => /\ LogLines[i].kind = "entry" /\ LogLines[i].sequence = i
                                 /\ LogLines[i].operation = history[i].operation
  <2>1. \A i \in 1 .. n : i # n => i \in 1 .. n - 1
    BY <1>1
  <2>2. \A i, x : /\ EntryLine(i, x).kind = "entry" /\ EntryLine(i, x).sequence = i
                   /\ EntryLine(i, x).operation = x
    BY DEF EntryLine
  <2> QED
    BY <1>6, <2>1, <2>2
<1>8. \A i \in 1 .. n : Read(LogLines)[i] = IF LogLines[i].kind = "entry" THEN LogLines[i].operation ELSE Nothing
  BY <1>6 DEF Read
<1>9. Read(LogLines) = [i \in 1 .. n |-> Read(LogLines)[i]]
  BY <1>6 DEF Read
<1>10. \A i \in 1 .. n : Read(LogLines)[i] \in Taken
  <2>1. Nothing \in Taken
    BY DEF Taken
  <2> QED
    BY <1>1, <1>5, <1>6, <1>7, <1>8, <2>1, OperationsTaken DEF ReadAs
<1>11. Read(LogLines) \in Seq(Taken) /\ Len(Read(LogLines)) = n
  BY <1>1, <1>9, <1>10
<1>12. \A i \in 1 .. n : LogLines[i].kind = "entry" => LogLines[i].sequence = i
  BY <1>1, <1>5, <1>6, <1>7 DEF ReadAs
<1>13. ASSUME NEW from PROVE OperationsFrom(LogLines, from) = From(Read(LogLines), from)
  <2>1. \A i \in 1 .. n :
            (IF LogLines[i].kind = "entry" /\ LogLines[i].sequence >= from
             THEN LogLines[i].operation ELSE Nothing)
                = (IF i >= from THEN Read(LogLines)[i] ELSE Nothing)
    BY <1>8, <1>12
  <2> QED
    BY <1>6, <1>11, <2>1 DEF OperationsFrom, From
<1>14. Read(LogLines)[n] = o \/ Altered(o, Read(LogLines)[n])
  BY <1>1, <1>5, <1>6, <1>8 DEF Altered, ReadAs
<1>15. \A i \in 1 .. n - 1 : Read(LogLines)[i] = history[i].operation
  BY <1>1, <1>7, <1>8
<1> QED
  BY <1>1, <1>11, <1>13, <1>14, <1>15 DEF n

\* Every entry but the cut one is read as it was written, under its own number.
Reading ==
    /\ Len(history) \in Nat /\ DOMAIN history = 1 .. Len(history)
    /\ Read(LogLines) \in Seq(Taken) /\ Len(Read(LogLines)) = Len(history)
    /\ \A i \in 1 .. Len(history) :
          /\ history[i].operation \in Operations
          /\ history[i].returned => Read(LogLines)[i] = history[i].operation
          /\ \/ Read(LogLines)[i] = history[i].operation
             \/ Altered(history[i].operation, Read(LogLines)[i])
    /\ \A from : OperationsFrom(LogLines, from) = From(Read(LogLines), from)
    /\ AppendsWhole => LogReadable

LEMMA LogIsRead == LogInv /\ OnlyEndCut => Reading
<1> SUFFICES ASSUME LogInv, OnlyEndCut PROVE Reading
  OBVIOUS
<1>1. CASE WholeLog
  BY <1>1, HistoryFacts, WholeLogFacts DEF Reading
<1>2. CASE CutLog
  <2> DEFINE n == Len(history)
  <2>1. n \in Nat \ {0} /\ ~history[n].returned /\ DOMAIN history = 1 .. n
    BY <1>2, HistoryFacts DEF CutLog
  <2>2. ~AppendsWhole
    BY <2>1 DEF AppendsWhole
  <2>3. n \in Nat => \A i \in 1 .. n : i # n => i \in 1 .. n - 1
    <3> HIDE DEF n
    <3> QED
      OBVIOUS
  <2>4. /\ Read(LogLines) \in Seq(Taken) /\ Len(Read(LogLines)) = n
        /\ \A i \in 1 .. n - 1 : Read(LogLines)[i] = history[i].operation
        /\ \/ Read(LogLines)[n] = history[n].operation
           \/ Altered(history[n].operation, Read(LogLines)[n])
        /\ \A from : OperationsFrom(LogLines, from) = From(Read(LogLines), from)
    BY <1>2, CutLogFacts
  <2>5. \A i \in 1 .. n : history[i].operation \in Operations
    BY HistoryFacts
  <2> QED
    BY <2>1, <2>2, <2>3, <2>4, <2>5 DEF Reading
<1> QED
  BY <1>1, <1>2 DEF LogInv

\* The graph that the first k entries make.
Graphs == Run(Empty, Read(LogLines))

LEMMA GraphsFacts ==
    ASSUME Reading
    PROVE  /\ \A k \in 0 .. Len(history) : Proper(Graphs[k])
           /\ \A k \in 1 .. Len(history) : Graphs[k] = Apply(Graphs[k - 1], Read(LogLines)[k])
           /\ ApplyAll(Empty, Read(LogLines)) = Graphs[Len(history)]
           /\ Graphs[0] = Empty
  BY EmptyProper, RunProper, RunSteps, ApplyAllIsRun DEF Graphs, Reading

LEMMA GraphsGrow ==
    ASSUME Reading, Reading', Len(history)' = Len(history) + 1,
           \A i \in 1 .. Len(history) : Read(LogLines)'[i] = Read(LogLines)[i]
    PROVE  \A k \in 0 .. Len(history) : Graphs'[k] = Graphs[k]
<1> DEFINE n == Len(history)
           a == Read(LogLines)
           b == Read(LogLines)'
<1>1. /\ n \in Nat /\ n <= Len(a) /\ n <= Len(b)
      /\ a \in Seq(Taken) /\ b \in Seq(Taken) /\ \A i \in 1 .. n : a[i] = b[i]
  BY DEF Reading
<1> HIDE DEF n, a, b
<1>2. \A k \in 0 .. n : Run(Empty, a)[k] = Run(Empty, b)[k]
  BY <1>1, RunsAgree
<1> QED
  BY <1>2 DEF Graphs, n, a, b

LEMMA InitLog == Init => LogInv
  BY DEF Init, LogInv, WholeLog, AppendsWhole, Entries

\* What an appended record leaves as it was.
LEMMA HistoryGrows ==
    ASSUME NEW S, NEW h \in Seq(S), NEW x \in S
    PROVE  LET longer == Append(h, x)
           IN /\ longer \in Seq(S) /\ Len(longer) = Len(h) + 1
              /\ Len(h) \in Nat /\ DOMAIN h = 1 .. Len(h)
              /\ DOMAIN longer = 1 .. Len(h) + 1
              /\ \A i \in 1 .. Len(h) : longer[i] = h[i]
              /\ longer[Len(h) + 1] = x
              /\ Entries(longer, Len(h)) = Entries(h, Len(h))
              /\ Entries(longer, Len(h) + 1)
                     = Append(Entries(h, Len(h)), EntryLine(Len(h) + 1, x.operation))
<1> DEFINE g == Append(h, x)
           n == Len(h)
           e == Entries(h, n)
           l == EntryLine(n + 1, x.operation)
           T == {e[i] : i \in 1 .. n} \cup {l}
<1>1. g \in Seq(S) /\ Len(g) = n + 1 /\ n \in Nat /\ DOMAIN h = 1 .. n
  OBVIOUS
<1>2. DOMAIN g = 1 .. n + 1
  BY <1>1
<1>3. (\A i \in 1 .. n : g[i] = h[i]) /\ g[n + 1] = x
  OBVIOUS
<1>4. e = [i \in 1 .. n |-> EntryLine(i, h[i].operation)]
  BY DEF Entries
<1> HIDE DEF l
<1>5. e \in [1 .. n -> T] /\ l \in T
  BY <1>4
<1>6. \A i \in 1 .. n : e[i] = EntryLine(i, h[i].operation)
  BY <1>4
<1> HIDE DEF T, e, n, g
<1>7. e \in Seq(T) /\ Len(e) = n
  BY <1>1, <1>5
<1>8. Append(e, l) = [i \in 1 .. n + 1 |-> IF i = n + 1 THEN l ELSE e[i]]
  BY <1>1, <1>5, <1>7, AppendIs
<1>9. \A i \in 1 .. n + 1 : (IF i = n + 1 THEN l ELSE e[i]) = EntryLine(i, g[i].operation)
  BY <1>1, <1>3, <1>6 DEF l
<1>10. Entries(g, n + 1) = Append(e, l)
  BY <1>8, <1>9 DEF Entries
<1>11. Entries(g, n) = e
  BY <1>3, <1>4 DEF Entries
<1> QED
  BY <1>1, <1>2, <1>3, <1>10, <1>11 DEF g, n, e, l

Records == [operation : Operations, returned : BOOLEAN]

LEMMA LoggingIsWhole ==
    ASSUME LogInv, NEW o \in Operations, LogOperation(o)
    PROVE  /\ LogInv'
           /\ OnlyEndCut' => OnlyEndCut /\ WholeLog /\ WholeLog'
<1> DEFINE n == Len(history)
           x == [operation |-> o, returned |-> TRUE]
<1>1. x \in Records /\ history \in Seq(Records) /\ history' = Append(history, x)
  BY DEF LogInv, LogOperation, Records
<1>2. /\ Append(history, x) \in Seq(Records) /\ Len(Append(history, x)) = n + 1
      /\ n \in Nat /\ DOMAIN history = 1 .. n /\ DOMAIN Append(history, x) = 1 .. n + 1
      /\ \A i \in 1 .. n : Append(history, x)[i] = history[i]
      /\ Append(history, x)[n + 1] = x
      /\ Entries(Append(history, x), n + 1) = Append(Entries(history, n), EntryLine(n + 1, x.operation))
  <2> HIDE DEF x
  <2> QED
    BY <1>1, HistoryGrows
<1>3. ASSUME OnlyEndCut' PROVE OnlyEndCut /\ WholeLog /\ WholeLog'
  <2>1. \A i \in 1 .. n : history[i].returned
    <3> SUFFICES ASSUME NEW i \in 1 .. n PROVE history[i].returned
      OBVIOUS
    <3>1. i \in 1 .. n + 1 /\ i # n + 1
      BY <1>2
    <3> QED
      BY <1>1, <1>2, <1>3, <3>1 DEF OnlyEndCut
  <2>2. OnlyEndCut /\ AppendsWhole
    BY <1>2, <2>1 DEF OnlyEndCut, AppendsWhole
  <2>3. WholeLog
    <3>1. n >= 1 => n \in 1 .. n
      BY <1>2
    <3> QED
      BY <2>1, <2>2, <3>1 DEF LogInv, CutLog
  <2>4. AppendsWhole'
    <3>1. \A i \in 1 .. n + 1 : i # n + 1 => i \in 1 .. n
      BY <1>2
    <3>2. x.returned
      OBVIOUS
    <3> QED
      BY <1>1, <1>2, <2>1, <3>1, <3>2 DEF AppendsWhole
  <2>5. log' = Append(Entries(history, n), EntryLine(n + 1, o)) /\ torn' = NoLine
    BY <2>3 DEF LogOperation, WholeLog, LastSequence
  <2> QED
    BY <1>1, <1>2, <2>2, <2>3, <2>4, <2>5 DEF WholeLog
<1> QED
  BY <1>1, <1>2, <1>3 DEF LogInv, Records

LEMMA CrashingIsCut ==
    ASSUME LogInv, NEW o \in Operations, CrashInAppend(o)
    PROVE  /\ LogInv'
           /\ OnlyEndCut' => OnlyEndCut /\ WholeLog /\ CutLog' /\ ~AppendsWhole'
<1> DEFINE n == Len(history)
           x == [operation |-> o, returned |-> FALSE]
<1>1. x \in Records /\ history \in Seq(Records) /\ history' = Append(history, x)
  BY DEF LogInv, CrashInAppend, Records
<1>2. /\ Append(history, x) \in Seq(Records) /\ Len(Append(history, x)) = n + 1
      /\ n \in Nat /\ DOMAIN history = 1 .. n /\ DOMAIN Append(history, x) = 1 .. n + 1
      /\ \A i \in 1 .. n : Append(history, x)[i] = history[i]
      /\ Append(history, x)[n + 1] = x
      /\ Entries(Append(history, x), n) = Entries(history, n)
  <2> HIDE DEF x
  <2> QED
    BY <1>1, HistoryGrows
<1>3. ASSUME OnlyEndCut' PROVE OnlyEndCut /\ WholeLog /\ CutLog' /\ ~AppendsWhole'
  <2>1. \A i \in 1 .. n : history[i].returned
    <3> SUFFICES ASSUME NEW i \in 1 .. n PROVE history[i].returned
      OBVIOUS
    <3>1. i \in 1 .. n + 1 /\ i # n + 1
      BY <1>2
    <3> QED
      BY <1>1, <1>2, <1>3, <3>1 DEF OnlyEndCut
  <2>2. OnlyEndCut
    BY <1>2, <2>1 DEF OnlyEndCut
  <2>3. WholeLog
    <3>1. n >= 1 => n \in 1 .. n
      BY <1>2
    <3> QED
      BY <2>1, <2>2, <3>1 DEF LogInv, CutLog
  <2>4. n + 1 \in 1 .. n + 1 /\ n + 1 >= 1 /\ (n + 1) - 1 = n
    BY <1>2
  <2>5. ~AppendsWhole'
    BY <1>1, <1>2, <2>4 DEF AppendsWhole
  <2>6. log' = Entries(history, n) /\ \E at \in Cuts(o) : torn' = Cut(n + 1, o, at)
    BY <2>3 DEF CrashInAppend, WholeLog, LastSequence
  <2>7. log' = Entries(history', n)
    BY <1>1, <1>2, <2>6
  <2>8. Len(history') = n + 1 /\ history'[n + 1].operation = o /\ ~history'[n + 1].returned
    BY <1>1, <1>2
  <2> HIDE DEF n
  <2>9. CutLog'
    BY <2>4, <2>6, <2>7, <2>8 DEF CutLog
  <2> QED
    BY <2>2, <2>3, <2>5, <2>9
<1> QED
  BY <1>1, <1>2, <1>3 DEF LogInv, Records

Others ==
    ApplyOperation \/ SaveBegin \/ SaveEnd \/ CrashInSave \/ Crash \/ Recover \/ RecoverFails

LEMMA LogUntouched == Others \/ UNCHANGED vars => UNCHANGED <<log, torn, history>>
  BY DEF Others, ApplyOperation, SaveBegin, SaveEnd, CrashInSave, Crash, Recover, RecoverFails, vars

LEMMA NextLog == LogInv /\ [Next]_vars => LogInv'
<1> SUFFICES ASSUME LogInv, [Next]_vars PROVE LogInv'
  OBVIOUS
<1>1. ASSUME NEW o \in Operations, LogOperation(o) PROVE LogInv'
  BY <1>1, LoggingIsWhole
<1>2. ASSUME NEW o \in Operations, CrashInAppend(o) PROVE LogInv'
  BY <1>2, CrashingIsCut
<1>3. CASE Others \/ UNCHANGED vars
  BY <1>3, LogUntouched DEF LogInv, OnlyEndCut, WholeLog, CutLog, AppendsWhole, Entries
<1> QED
  BY <1>1, <1>2, <1>3 DEF Next, Others

-----------------------------------------------------------------------------
(* What the graph and the files keep of the history *)

\* A graph with nothing that is not in h, and the very same one when every write
\* of the snapshot was whole.
NearTo(g, h, whole) == Proper(g) /\ Within(g, h) /\ (whole => g = h)

\* Lines about to be saved, for the graph h that the first k entries make.
Written(h, k, lines, whole) ==
    \E timestamp \in {k, k + 1} :
       /\ lines \in Seq(TrueLines(h, timestamp))
       /\ Len(lines) >= 2 /\ lines[1].kind = "header" /\ lines[2].kind = "timestamp"
       /\ whole => \E order \in SetToSeqs(DOMAIN h.names) : lines = SnapshotLines(h, timestamp, order)

\* What is found of them in the file.
Found(h, k, lines, whole) ==
    \E timestamp \in {k, k + 1} :
       /\ lines \in Seq(TrueLines(h, timestamp) \cup {Bad}) /\ Stamped(lines)
       /\ whole => \E order \in SetToSeqs(DOMAIN h.names) : lines = SnapshotLines(h, timestamp, order)

LEMMA SavingWrites ==
    ASSUME NEW g, NEW h, NEW whole \in BOOLEAN, Proper(h), NearTo(g, h, whole), NEW k \in Nat,
           NEW timestamp \in {k, k + 1}, NEW order \in SetToSeqs(DOMAIN g.names)
    PROVE  Written(h, k, SnapshotLines(g, timestamp, order), whole)
<1> DEFINE lines == SnapshotLines(g, timestamp, order)
<1>1. Proper(g) /\ Within(g, h) /\ g \in GraphType /\ h \in GraphType
  BY DEF NearTo, Proper
<1>2. /\ lines \in Seq(TrueLines(g, timestamp)) /\ Len(lines) >= 5
      /\ lines[1].kind = "header" /\ lines[2].kind = "timestamp"
  BY <1>1, SnapshotFacts
<1>3. TrueLines(g, timestamp) \subseteq TrueLines(h, timestamp)
  BY <1>1, TrueOfMore
<1>4. whole => \E o \in SetToSeqs(DOMAIN h.names) : lines = SnapshotLines(h, timestamp, o)
  BY DEF NearTo
<1> HIDE DEF lines
<1>5. lines \in Seq(TrueLines(h, timestamp)) /\ Len(lines) >= 2
  <2> DEFINE S == TrueLines(g, timestamp)
             T == TrueLines(h, timestamp)
  <2>1. lines \in Seq(S) /\ S \subseteq T
    BY <1>2, <1>3
  <2>2. Len(lines) \in Nat
    BY <2>1
  <2> HIDE DEF S, T
  <2>3. lines \in [1 .. Len(lines) -> T]
    BY <2>1, <2>2
  <2>4. lines \in Seq(T)
    BY <2>2, <2>3
  <2> QED
    BY <1>2, <2>2, <2>4 DEF T
<1> QED
  BY <1>2, <1>4, <1>5 DEF Written, lines

LEMMA WrittenIsFound ==
    ASSUME NEW h, NEW k \in Nat, NEW whole \in BOOLEAN, NEW lines, Written(h, k, lines, whole)
    PROVE  Found(h, k, lines, whole)
<1>1. PICK timestamp \in {k, k + 1} :
          /\ lines \in Seq(TrueLines(h, timestamp))
          /\ Len(lines) >= 2 /\ lines[1].kind = "header" /\ lines[2].kind = "timestamp"
          /\ whole => \E order \in SetToSeqs(DOMAIN h.names) : lines = SnapshotLines(h, timestamp, order)
  BY DEF Written
<1> DEFINE S == TrueLines(h, timestamp)
<1>2. lines \in Seq(S)
  BY <1>1
<1> HIDE DEF S
<1>3. lines \in Seq(S \cup {Bad}) /\ 2 \in DOMAIN lines
  BY <1>1, <1>2
<1>4. Stamped(lines)
  BY <1>1, <1>3 DEF Stamped, Has
<1> QED
  BY <1>1, <1>3, <1>4 DEF Found, S

LEMMA CutIsFound ==
    ASSUME NEW h, NEW k \in Nat, NEW whole \in BOOLEAN, NEW lines, Written(h, k, lines, whole),
           NEW n \in 0 .. Len(lines)
    PROVE  /\ Found(h, k, SubSeq(lines, 1, n), FALSE)
           /\ Found(h, k, Append(SubSeq(lines, 1, n), Bad), FALSE)
<1>1. PICK timestamp \in {k, k + 1} :
          /\ lines \in Seq(TrueLines(h, timestamp))
          /\ Len(lines) >= 2 /\ lines[1].kind = "header" /\ lines[2].kind = "timestamp"
  BY DEF Written
<1> DEFINE S == TrueLines(h, timestamp)
           T == S \cup {Bad}
           p == SubSeq(lines, 1, n)
           q == Append(p, Bad)
<1>2. lines \in Seq(S)
  BY <1>1
<1> HIDE DEF S
<1>3. p \in Seq(S) /\ Len(p) = n /\ \A i \in 1 .. n : p[i] = lines[i]
  BY <1>2
<1>4. p \in Seq(T) /\ Bad \in T
  BY <1>3
<1> HIDE DEF p, T
<1>5. /\ q \in Seq(T) /\ Len(q) = n + 1 /\ \A i \in 1 .. n : q[i] = p[i]
      /\ q[n + 1] = Bad
  BY <1>3, <1>4, AppendProperties
<1> HIDE DEF q
<1>6. n \in Nat /\ DOMAIN p = 1 .. n /\ DOMAIN q = 1 .. n + 1
  BY <1>2, <1>3, <1>4, <1>5
<1>7. CASE n >= 2
  <2>1. 2 \in DOMAIN p /\ 2 \in DOMAIN q /\ p[2].kind = "timestamp" /\ q[2].kind = "timestamp"
    BY <1>1, <1>3, <1>5, <1>6, <1>7
  <2>2. Stamped(p) /\ Stamped(q)
    BY <2>1 DEF Stamped, Has
  <2> QED
    BY <1>4, <1>5, <2>2 DEF Found, S, T, p, q
<1>8. CASE n < 2
  <2>1. \A i \in 1 .. n : p[i].kind = "header"
    BY <1>1, <1>3, <1>6, <1>8
  <2>2. ~Has(p, "shard_count")
    BY <1>6, <2>1 DEF Has
  <2>3. \A i \in 1 .. n + 1 : q[i].kind # "shard_count"
    <3>1. \A i \in 1 .. n + 1 : i = n + 1 \/ i \in 1 .. n
      BY <1>6
    <3>2. Bad.kind # "shard_count"
      BY DEF Bad
    <3> QED
      BY <1>5, <2>1, <3>1, <3>2
  <2>4. Stamped(p) /\ Stamped(q)
    BY <1>6, <2>2, <2>3 DEF Stamped, Has
  <2> QED
    BY <1>4, <1>5, <2>4 DEF Found, S, T, p, q
<1>9. n >= 2 \/ n < 2
  BY <1>6
<1> QED
  BY <1>7, <1>8, <1>9, Zenon

LEMMA RestoredNear ==
    ASSUME NEW operations \in Seq(Taken), NEW k \in 0 .. Len(operations), NEW whole \in BOOLEAN,
           NEW lines, Found(Run(Empty, operations)[k], k, lines, whole), Load(lines).ok
    PROVE  NearTo(ApplyAll(Restore(Load(lines)), From(operations, Load(lines).timestamp)),
                  ApplyAll(Empty, operations), whole)
<1> DEFINE h == Run(Empty, operations)[k]
           g == Restore(Load(lines))
<1>1. Proper(h) /\ h \in GraphType
  BY EmptyProper, RunProper DEF Proper
<1>2. PICK timestamp \in {k, k + 1} :
          /\ lines \in Seq(TrueLines(h, timestamp) \cup {Bad}) /\ Stamped(lines)
          /\ whole => \E order \in SetToSeqs(DOMAIN h.names) : lines = SnapshotLines(h, timestamp, order)
  BY DEF Found
<1> HIDE DEF h
<1>3. Load(lines).timestamp = timestamp /\ Load(lines).lines = lines
  BY <1>1, <1>2, LoadFacts
<1>4. Within(g, h) /\ Proper(g)
  BY <1>1, <1>2, <1>3, RestoreWithin
<1>5. whole => g = h
  BY <1>1, <1>2, <1>3, RestoreSnapshot
<1> HIDE DEF g
<1>6. /\ Within(ApplyAll(g, From(operations, timestamp)), ApplyAll(Empty, operations))
      /\ Proper(ApplyAll(g, From(operations, timestamp)))
      /\ g = h => ApplyAll(g, From(operations, timestamp)) = ApplyAll(Empty, operations)
  BY <1>4, ReplayFrom DEF h
<1> QED
  BY <1>3, <1>5, <1>6 DEF NearTo, g

LEMMA ReplayedNear ==
    ASSUME NEW operations \in Seq(Taken)
    PROVE  NearTo(ApplyAll(Empty, From(operations, 0)), ApplyAll(Empty, operations), TRUE)
<1>1. Len(operations) \in Nat
  OBVIOUS
<1>2. 0 \in 0 .. Len(operations) /\ 0 \in {0, 0 + 1}
  BY <1>1
<1>3. Run(Empty, operations)[0] = Empty
  BY <1>1, RunSteps
<1>4. Within(Empty, Run(Empty, operations)[0])
  BY <1>3, WithinItself
<1> QED
  BY <1>2, <1>3, <1>4, EmptyProper, ReplayFrom DEF NearTo

LEMMA NearIsLess ==
    ASSUME NEW g, NEW h, NearTo(g, h, TRUE), NEW whole \in BOOLEAN
    PROVE  NearTo(g, h, whole)
  BY DEF NearTo

LEMMA ApplyNear ==
    ASSUME NEW g, NEW h, Proper(h), NEW whole \in BOOLEAN, NearTo(g, h, whole), NEW o \in Taken
    PROVE  NearTo(Apply(g, o), Apply(h, o), whole)
  BY ApplyProper, ApplyWithin DEF NearTo

\* The graph in memory is the one the history makes, but for what was lost when
\* the file was cut; the graph in the file is the one that some beginning of the
\* history makes, numbered for where to replay from.
Surviving ==
    /\ op.kind = "idle" => NearTo(graph, Graphs[Len(history)], ~cutSave)
    /\ op.kind = "logged" => /\ Len(history) >= 1
                             /\ NearTo(graph, Graphs[Len(history) - 1], ~cutSave)
                             /\ op.operation = Read(LogLines)[Len(history)]
    /\ op.kind = "saving" => /\ NearTo(graph, Graphs[Len(history)], ~cutSave)
                             /\ Written(Graphs[Len(history)], Len(history), op.lines, ~cutSave)
    /\ op.kind # "saving" => \/ snapshot = NoFile
                             \/ \E k \in 0 .. Len(history) : Found(Graphs[k], k, snapshot, ~cutSave)
    /\ op.kind = "failed" /\ AppendsWhole /\ ~cutSave => HasPipedUser(snapshot)

LEMMA SameLog ==
    ASSUME UNCHANGED <<log, torn, history>>
    PROVE  /\ Graphs' = Graphs /\ Read(LogLines)' = Read(LogLines) /\ Len(history)' = Len(history)
           /\ OnlyEndCut' <=> OnlyEndCut
           /\ AppendsWhole' <=> AppendsWhole
  BY DEF Graphs, Read, LogLines, OnlyEndCut, AppendsWhole

LEMMA InitSurviving == Init => Surviving
<1> SUFFICES ASSUME Init PROVE Surviving
  OBVIOUS
<1>1. Reading
  <2>1. LogInv /\ OnlyEndCut
    BY InitLog DEF Init, OnlyEndCut
  <2> QED
    BY <2>1, LogIsRead
<1>2. Len(history) = 0 /\ graph = Empty /\ snapshot = NoFile /\ op.kind = "idle"
  BY DEF Init, Idle
<1>3. Graphs[0] = Empty
  BY <1>1, GraphsFacts
<1>4. NearTo(Empty, Empty, ~cutSave)
  BY EmptyProper, WithinItself DEF NearTo
<1> QED
  BY <1>2, <1>3, <1>4 DEF Surviving

LEMMA ApplySurviving ==
    ASSUME Reading, Surviving, ApplyOperation
    PROVE  Surviving'
<1> DEFINE n == Len(history)
           o == Read(LogLines)[n]
<1>1. /\ op.kind = "logged" /\ graph' = Apply(graph, op.operation) /\ op' = Idle
      /\ snapshot' = snapshot /\ cutSave' = cutSave /\ UNCHANGED <<log, torn, history>>
  BY DEF ApplyOperation
<1>2. n >= 1 /\ NearTo(graph, Graphs[n - 1], ~cutSave) /\ op.operation = o
  BY <1>1 DEF Surviving
<1>3. n \in 1 .. n /\ n - 1 \in 0 .. n /\ o \in Taken
  BY <1>2 DEF Reading
<1>4. Proper(Graphs[n - 1]) /\ Graphs[n] = Apply(Graphs[n - 1], o)
  BY <1>3, GraphsFacts
<1>5. (~cutSave) \in BOOLEAN
  OBVIOUS
<1> HIDE DEF o
<1>6. NearTo(Apply(graph, o), Graphs[n], ~cutSave)
  BY <1>2, <1>3, <1>4, <1>5, ApplyNear
<1>7. \/ snapshot = NoFile
      \/ \E k \in 0 .. n : Found(Graphs[k], k, snapshot, ~cutSave)
  BY <1>1 DEF Surviving
<1>8. op'.kind = "idle"
  BY <1>1 DEF Idle
<1> QED
  BY <1>1, <1>2, <1>6, <1>7, <1>8, SameLog DEF Surviving

LEMMA SaveBeginSurviving ==
    ASSUME Reading, Surviving, SaveBegin
    PROVE  Surviving'
<1> DEFINE n == Len(history)
<1>1. PICK timestamp \in {n, n + 1}, order \in SetToSeqs(DOMAIN graph.names) :
          op' = [kind |-> "saving", lines |-> SnapshotLines(graph, timestamp, order)]
  BY DEF SaveBegin, LastSequence
<1>2. op.kind = "idle" /\ UNCHANGED <<graph, cutSave, log, torn, history>>
  BY DEF SaveBegin, Idle
<1>3. NearTo(graph, Graphs[n], ~cutSave)
  BY <1>2 DEF Surviving
<1>4. n \in Nat /\ n \in 0 .. n
  BY DEF Reading
<1>5. Proper(Graphs[n])
  BY <1>4, GraphsFacts
<1>6. (~cutSave) \in BOOLEAN
  OBVIOUS
<1> HIDE DEF n
<1>7. Written(Graphs[n], n, SnapshotLines(graph, timestamp, order), ~cutSave)
  BY <1>3, <1>4, <1>5, <1>6, SavingWrites
<1>8. op'.kind = "saving" /\ op'.lines = SnapshotLines(graph, timestamp, order)
  BY <1>1
<1> QED
  BY <1>2, <1>3, <1>7, <1>8, SameLog DEF Surviving, n

LEMMA SaveEndSurviving ==
    ASSUME Reading, Surviving, SaveEnd \/ CrashInSave
    PROVE  Surviving'
<1> DEFINE n == Len(history)
<1>1. op.kind = "saving" /\ UNCHANGED <<graph, log, torn, history>>
  BY DEF SaveEnd, CrashInSave
<1>2. NearTo(graph, Graphs[n], ~cutSave) /\ Written(Graphs[n], n, op.lines, ~cutSave)
  BY <1>1 DEF Surviving
<1>3. n \in Nat /\ n \in 0 .. n
  BY DEF Reading
<1>4. (~cutSave) \in BOOLEAN
  OBVIOUS
<1>5. CASE SaveEnd
  <2>1. Found(Graphs[n], n, op.lines, ~cutSave)
    BY <1>2, <1>3, <1>4, WrittenIsFound
  <2>2. op'.kind = "idle" /\ snapshot' = op.lines /\ cutSave' = cutSave
    BY <1>5 DEF SaveEnd, Idle
  <2> QED
    BY <1>1, <1>2, <1>3, <2>1, <2>2, SameLog DEF Surviving
<1>6. CASE CrashInSave
  <2>1. PICK m \in 0 .. Len(op.lines) : \/ snapshot' = SubSeq(op.lines, 1, m)
                                        \/ snapshot' = Append(SubSeq(op.lines, 1, m), Bad)
    BY <1>6 DEF CrashInSave
  <2>2. Found(Graphs[n], n, snapshot', FALSE)
    BY <1>2, <1>3, <1>4, <2>1, CutIsFound
  <2>3. op'.kind = "down" /\ cutSave'
    BY <1>6 DEF CrashInSave
  <2>4. Found(Graphs[n], n, snapshot', ~cutSave')
    BY <2>2, <2>3
  <2> QED
    BY <1>1, <1>3, <2>3, <2>4, SameLog DEF Surviving
<1> QED
  BY <1>5, <1>6

LEMMA RecoverSurviving ==
    ASSUME Reading, Surviving, Recover
    PROVE  Surviving'
<1> DEFINE n == Len(history)
           operations == Read(LogLines)
<1>1. op.kind = "down" /\ op' = Idle /\ UNCHANGED <<snapshot, log, torn, history, cutSave>>
  BY DEF Recover
<1>2. /\ n \in Nat /\ operations \in Seq(Taken) /\ Len(operations) = n
      /\ \A from : OperationsFrom(LogLines, from) = From(operations, from)
  BY DEF Reading
<1>3. ApplyAll(Empty, operations) = Graphs[n]
  BY GraphsFacts
<1>4. \A g, from : Replayed(g, from) = ApplyAll(g, From(operations, from))
  BY <1>2 DEF Replayed
<1>5. (~cutSave) \in BOOLEAN
  OBVIOUS
<1>6. NearTo(graph', Graphs[n], ~cutSave)
  <2>1. CASE snapshot = NoFile /\ graph' = Replayed(Empty, 0)
    <3>1. graph' = ApplyAll(Empty, From(operations, 0))
      BY <1>4, <2>1
    <3> HIDE DEF operations
    <3>2. NearTo(graph', Graphs[n], TRUE)
      BY <1>2, <1>3, <3>1, ReplayedNear
    <3> QED
      BY <1>5, <3>2, NearIsLess
  <2>2. CASE /\ snapshot # NoFile /\ Load(snapshot).ok
             /\ graph' = Replayed(Restore(Load(snapshot)), Load(snapshot).timestamp)
    <3>1. PICK k \in 0 .. n : Found(Graphs[k], k, snapshot, ~cutSave)
      BY <1>1, <2>2 DEF Surviving
    <3>2. Found(Run(Empty, operations)[k], k, snapshot, ~cutSave)
      BY <3>1 DEF Graphs
    <3>3. graph' = ApplyAll(Restore(Load(snapshot)), From(operations, Load(snapshot).timestamp))
      BY <1>4, <2>2
    <3> HIDE DEF operations
    <3> QED
      BY <1>2, <1>3, <1>5, <2>2, <3>2, <3>3, RestoredNear
  <2> QED
    BY <2>1, <2>2 DEF Recover
<1>7. op'.kind = "idle"
  BY <1>1 DEF Idle
<1>8. \/ snapshot = NoFile
      \/ \E k \in 0 .. n : Found(Graphs[k], k, snapshot, ~cutSave)
  BY <1>1 DEF Surviving
<1> QED
  BY <1>1, <1>6, <1>7, <1>8, SameLog DEF Surviving

LEMMA WholeFails ==
    ASSUME NEW h, Proper(h), NEW k, NEW lines, Found(h, k, lines, TRUE), ~Load(lines).ok
    PROVE  HasPipedUser(lines)
<1>1. PICK timestamp \in {k, k + 1}, order \in SetToSeqs(DOMAIN h.names) :
          lines = SnapshotLines(h, timestamp, order)
  BY DEF Found
<1>2. lines \in Seq(TrueLines(h, timestamp)) /\ Len(lines) >= 5 /\ lines[3].kind = "shard_count"
  BY <1>1, SnapshotFacts
<1>3. h \in GraphType
  BY DEF Proper
<1> DEFINE S == TrueLines(h, timestamp)
<1>4. \A l \in S : l.kind # "bad"
  BY <1>3, LineKinds
<1> HIDE DEF S
<1>5. 3 \in DOMAIN lines /\ \A i \in DOMAIN lines : lines[i] \in S
  <2>1. lines \in Seq(S)
    BY <1>2 DEF S
  <2> QED
    BY <1>2, <2>1
<1>6. Has(lines, "shard_count") /\ ~Has(lines, "bad")
  BY <1>2, <1>4, <1>5 DEF Has
<1> QED
  BY <1>6 DEF Load

LEMMA StopSurviving ==
    ASSUME Reading, Surviving, Crash \/ RecoverFails
    PROVE  Surviving'
<1> DEFINE n == Len(history)
<1>1. op.kind # "saving" /\ UNCHANGED <<graph, snapshot, log, torn, history, cutSave>>
  BY DEF Crash, RecoverFails
<1>2. \/ snapshot = NoFile
      \/ \E k \in 0 .. n : Found(Graphs[k], k, snapshot, ~cutSave)
  BY <1>1 DEF Surviving
<1>3. CASE Crash
  <2>1. op'.kind = "down"
    BY <1>3 DEF Crash
  <2> QED
    BY <1>1, <1>2, <2>1, SameLog DEF Surviving
<1>4. CASE RecoverFails
  <2>1. op'.kind = "failed"
    BY <1>4 DEF RecoverFails
  <2>2. AppendsWhole /\ ~cutSave => HasPipedUser(snapshot)
    <3> SUFFICES ASSUME AppendsWhole, ~cutSave PROVE HasPipedUser(snapshot)
      OBVIOUS
    <3>1. LogReadable
      BY DEF Reading
    <3>2. snapshot # NoFile /\ ~Load(snapshot).ok
      BY <1>4, <3>1 DEF RecoverFails
    <3>3. PICK k \in 0 .. n : Found(Graphs[k], k, snapshot, TRUE)
      BY <1>2, <3>2
    <3>4. Proper(Graphs[k])
      BY GraphsFacts
    <3> QED
      BY <3>2, <3>3, <3>4, WholeFails
  <2> QED
    BY <1>1, <1>2, <2>1, <2>2, SameLog DEF Surviving
<1> QED
  BY <1>3, <1>4

LEMMA HistoryAppended ==
    ASSUME LogInv, LogInv', OnlyEndCut, OnlyEndCut', AppendsWhole,
           NEW x \in Records, history' = Append(history, x)
    PROVE  /\ Reading /\ Reading' /\ Len(history) \in Nat /\ Len(history)' = Len(history) + 1
           /\ history'[Len(history) + 1] = x
           /\ \A k \in 0 .. Len(history) : Graphs'[k] = Graphs[k]
<1> DEFINE n == Len(history)
<1>1. Reading
  BY LogIsRead
<1>2. Reading'
  BY LogIsRead, PTL
<1>3. history \in Seq(Records)
  BY DEF LogInv, Records
<1>4. /\ n \in Nat /\ Len(history') = n + 1 /\ history'[n + 1] = x
      /\ \A i \in 1 .. n : history'[i] = history[i]
  BY <1>3, HistoryGrows
<1>5. \A i \in 1 .. n : Read(LogLines)'[i] = Read(LogLines)[i]
  <2> SUFFICES ASSUME NEW i \in 1 .. n PROVE Read(LogLines)'[i] = Read(LogLines)[i]
    OBVIOUS
  <2>1. i \in DOMAIN history /\ i \in 1 .. n + 1
    BY <1>1, <1>4 DEF Reading
  <2>2. history[i].returned /\ history'[i].returned
    BY <1>4, <2>1 DEF AppendsWhole
  <2> HIDE DEF n
  <2>3. Read(LogLines)[i] = history[i].operation
    BY <1>1, <2>2 DEF Reading, n
  <2>4. Read(LogLines)'[i] = history'[i].operation
    BY <1>2, <1>4, <2>1, <2>2 DEF Reading
  <2> QED
    BY <1>4, <2>3, <2>4
<1>6. \A k \in 0 .. n : Graphs'[k] = Graphs[k]
  BY <1>1, <1>2, <1>4, <1>5, GraphsGrow
<1> QED
  BY <1>1, <1>2, <1>4, <1>6

LEMMA LogSurviving ==
    ASSUME LogInv, OnlyEndCut => Surviving, NEW o \in Operations, LogOperation(o), OnlyEndCut'
    PROVE  Surviving'
<1> DEFINE n == Len(history)
           x == [operation |-> o, returned |-> TRUE]
<1>1. LogInv' /\ OnlyEndCut /\ AppendsWhole
  BY LoggingIsWhole DEF WholeLog
<1>2. x \in Records /\ history' = Append(history, x)
  BY DEF Records, LogOperation
<1>3. x.returned /\ x.operation = o
  OBVIOUS
<1> HIDE DEF x
<1>4. /\ Reading' /\ n \in Nat /\ Len(history)' = n + 1 /\ history'[n + 1] = x
      /\ \A k \in 0 .. n : Graphs'[k] = Graphs[k]
  BY <1>1, <1>2, HistoryAppended
<1>5. /\ op.kind = "idle" /\ UNCHANGED <<graph, snapshot, cutSave>>
      /\ op'.kind = "logged" /\ op'.operation = o
  BY DEF LogOperation, Idle
<1>6. /\ NearTo(graph, Graphs[n], ~cutSave)
      /\ \/ snapshot = NoFile
         \/ \E k \in 0 .. n : Found(Graphs[k], k, snapshot, ~cutSave)
  BY <1>1, <1>5 DEF Surviving
<1>7. Read(LogLines)'[n + 1] = o
  <2>1. n + 1 \in 1 .. n + 1
    BY <1>4
  <2> QED
    BY <1>3, <1>4, <2>1 DEF Reading
<1> HIDE DEF n
<1>8. n \in 0 .. n /\ (n + 1) - 1 = n /\ n + 1 >= 1 /\ \A k \in 0 .. n : k \in 0 .. n + 1
  BY <1>4
<1>9. NearTo(graph', Graphs'[n], ~cutSave')
  BY <1>4, <1>5, <1>6, <1>8
<1>10. \/ snapshot' = NoFile
       \/ \E k \in 0 .. n + 1 : Found(Graphs'[k], k, snapshot', ~cutSave')
  BY <1>4, <1>5, <1>6, <1>8
<1> QED
  BY <1>4, <1>5, <1>7, <1>8, <1>9, <1>10 DEF Surviving

LEMMA CrashInAppendSurviving ==
    ASSUME LogInv, OnlyEndCut => Surviving, NEW o \in Operations, CrashInAppend(o), OnlyEndCut'
    PROVE  Surviving'
<1> DEFINE n == Len(history)
           x == [operation |-> o, returned |-> FALSE]
<1>1. LogInv' /\ OnlyEndCut /\ AppendsWhole
  BY CrashingIsCut DEF WholeLog
<1>2. x \in Records /\ history' = Append(history, x)
  BY DEF Records, CrashInAppend
<1> HIDE DEF x
<1>3. /\ n \in Nat /\ Len(history)' = n + 1
      /\ \A k \in 0 .. n : Graphs'[k] = Graphs[k]
  BY <1>1, <1>2, HistoryAppended
<1>4. op.kind = "idle" /\ UNCHANGED <<graph, snapshot, cutSave>> /\ op'.kind = "down"
  BY DEF CrashInAppend, Idle
<1>5. \/ snapshot = NoFile
      \/ \E k \in 0 .. n : Found(Graphs[k], k, snapshot, ~cutSave)
  BY <1>1, <1>4 DEF Surviving
<1> HIDE DEF n
<1>6. \A k \in 0 .. n : k \in 0 .. n + 1
  BY <1>3
<1>7. \/ snapshot' = NoFile
      \/ \E k \in 0 .. n + 1 : Found(Graphs'[k], k, snapshot', ~cutSave')
  BY <1>3, <1>4, <1>5, <1>6
<1> QED
  BY <1>3, <1>4, <1>7 DEF Surviving

RecoveryInv == LogInv /\ (OnlyEndCut => Surviving)

LEMMA NextRecovery == RecoveryInv /\ [Next]_vars => RecoveryInv'
<1> SUFFICES ASSUME RecoveryInv, [Next]_vars, OnlyEndCut' PROVE Surviving'
  BY NextLog DEF RecoveryInv
<1>1. LogInv /\ (OnlyEndCut => Surviving)
  BY DEF RecoveryInv
<1>2. ASSUME NEW o \in Operations, LogOperation(o) PROVE Surviving'
  BY <1>1, <1>2, LogSurviving
<1>3. ASSUME NEW o \in Operations, CrashInAppend(o) PROVE Surviving'
  BY <1>1, <1>3, CrashInAppendSurviving
<1>4. CASE Others \/ UNCHANGED vars
  <2>1. OnlyEndCut /\ Surviving /\ Reading
    BY <1>1, <1>4, LogUntouched, SameLog, LogIsRead
  <2>2. CASE ApplyOperation
    BY <2>1, <2>2, ApplySurviving
  <2>3. CASE SaveBegin
    BY <2>1, <2>3, SaveBeginSurviving
  <2>4. CASE SaveEnd \/ CrashInSave
    BY <2>1, <2>4, SaveEndSurviving
  <2>5. CASE Recover
    BY <2>1, <2>5, RecoverSurviving
  <2>6. CASE Crash \/ RecoverFails
    BY <2>1, <2>6, StopSurviving
  <2>7. CASE UNCHANGED vars
    <3>1. UNCHANGED <<graph, snapshot, log, torn, op, history, cutSave>>
      BY <2>7 DEF vars
    <3> QED
      BY <2>1, <3>1, SameLog DEF Surviving
  <2> QED
    BY <1>4, <2>2, <2>3, <2>4, <2>5, <2>6, <2>7 DEF Others
<1> QED
  BY <1>2, <1>3, <1>4 DEF Next, Others

LEMMA AlwaysRecovery == Spec => []RecoveryInv
<1>1. Init => RecoveryInv
  BY InitLog, InitSurviving DEF RecoveryInv
<1> QED
  BY <1>1, NextRecovery, PTL DEF Spec

-----------------------------------------------------------------------------
(* What the properties ask *)

Chosen(K) == [i \in DOMAIN history |-> IF i \in K THEN history[i].operation ELSE Nothing]

LEMMA MadeIsChosen == \A K : Made(K) = ApplyAll(Empty, Chosen(K))
  BY DEF Made, Chosen

LEMMA OperationIsSomething == \A o \in Operations : o # Nothing
  BY DEF Operations, Nothing

\* The operations read are the ones of K, and Chosen(K) is what was read.
LEMMA ChosenIsRead ==
    ASSUME Reading, NEW K,
           \A i \in 1 .. Len(history) :
              Read(LogLines)[i] = IF i \in K THEN history[i].operation ELSE Nothing
    PROVE  Chosen(K) = Read(LogLines)
<1> DEFINE n == Len(history)
           r == Read(LogLines)
<1>1. n \in Nat /\ DOMAIN history = 1 .. n /\ r \in Seq(Taken) /\ Len(r) = n
  BY DEF Reading
<1> HIDE DEF r
<1>2. r = [i \in 1 .. n |-> r[i]]
  BY <1>1
<1>3. \A i \in 1 .. n : r[i] = IF i \in K THEN history[i].operation ELSE Nothing
  BY DEF r
<1> QED
  BY <1>1, <1>2, <1>3 DEF Chosen, r

\* The graph G agrees with the one the operations of K make.
Agrees(K, g, made) ==
    /\ Returned \subseteq K
    /\ g.following = made.following
    /\ DOMAIN g.names = DOMAIN made.names
    /\ \A u \in DOMAIN g.names : g.names[u] \in {made.names[u], CutName, RunOnName}

LEMMA AgreesIsComplete ==
    ASSUME NEW K \in SUBSET DOMAIN history, Agrees(K, graph, Made(K))
    PROVE  Complete
  BY DEF Agrees, Complete

LEMMA SameAgrees ==
    ASSUME NEW K, Returned \subseteq K, NEW g
    PROVE  Agrees(K, g, g)
  BY DEF Agrees

LEMMA AlteredAgrees ==
    ASSUME NEW g \in GraphType, NEW o \in Taken, NEW p \in Taken, o.kind = "AddUser",
           NEW x \in {CutName, RunOnName}, p = [o EXCEPT !.name = x],
           NEW K, Returned \subseteq K
    PROVE  Agrees(K, Apply(g, p), Apply(g, o))
<1>1. o.user \in Users /\ o = [kind |-> "AddUser", user |-> o.user, name |-> o.name]
  BY DEF Taken, Nothing
<1>2. p = [kind |-> "AddUser", user |-> o.user, name |-> x]
  BY <1>1
<1>3. p.kind = "AddUser" /\ p.user = o.user /\ p.name = x
  BY <1>2
<1> DEFINE a == Apply(g, p)
           b == Apply(g, o)
<1>4. /\ a.following = g.following /\ DOMAIN a.names = DOMAIN g.names \cup {o.user}
      /\ \A u \in DOMAIN g.names : a.names[u] = g.names[u]
      /\ o.user \notin DOMAIN g.names => a.names[o.user] = x
  <2>1. /\ Apply(g, p).following = g.following
        /\ DOMAIN Apply(g, p).names = DOMAIN g.names \cup {p.user}
        /\ \A u \in DOMAIN g.names : Apply(g, p).names[u] = g.names[u]
        /\ p.user \notin DOMAIN g.names => Apply(g, p).names[p.user] = p.name
    BY <1>3, AddingUser
  <2> QED
    BY <1>3, <2>1, Zenon
<1>5. /\ b.following = g.following /\ DOMAIN b.names = DOMAIN g.names \cup {o.user}
      /\ \A u \in DOMAIN g.names : b.names[u] = g.names[u]
  BY AddingUser
<1> HIDE DEF a, b
<1> QED
  BY <1>4, <1>5 DEF Agrees, a, b

LEMMA ExactIsComplete ==
    ASSUME Reading, OnlyEndCut, graph = Graphs[Len(history)]
    PROVE  Complete
<1> DEFINE n == Len(history)
           r == Read(LogLines)
           all == DOMAIN history
<1>1. /\ n \in Nat /\ all = 1 .. n /\ r \in Seq(Taken) /\ Len(r) = n
      /\ \A i \in 1 .. n : /\ history[i].operation \in Operations
                           /\ history[i].returned => r[i] = history[i].operation
                           /\ r[i] = history[i].operation \/ Altered(history[i].operation, r[i])
  BY DEF Reading
<1>2. graph = ApplyAll(Empty, r)
  BY GraphsFacts
<1>3. \A i \in 1 .. n : i # n => r[i] = history[i].operation
  BY <1>1 DEF OnlyEndCut
<1>4. Returned \subseteq all /\ all \in SUBSET all
  BY DEF Returned
<1> HIDE DEF n, r
<1>5. CASE \A i \in 1 .. n : r[i] = history[i].operation
  <2>1. Chosen(all) = r
    BY <1>1, <1>5, ChosenIsRead DEF n, r
  <2>2. Made(all) = graph
    BY <1>2, <2>1, MadeIsChosen
  <2> QED
    BY <1>4, <2>2, SameAgrees, AgreesIsComplete
<1>6. CASE n \in 1 .. n /\ r[n] = Nothing
  <2> DEFINE K == 1 .. n - 1
  <2>1. \A i \in 1 .. n : IF i = n THEN i \notin K ELSE i \in K
    BY <1>1
  <2>2. \A i \in 1 .. n : r[i] = IF i \in K THEN history[i].operation ELSE Nothing
    BY <1>3, <1>6, <2>1
  <2>3. K \in SUBSET all
    BY <1>1
  <2>4. ~history[n].returned
    BY <1>1, <1>6, OperationIsSomething
  <2>5. Returned \subseteq K
    BY <1>1, <2>1, <2>4 DEF Returned
  <2> HIDE DEF K
  <2>6. Chosen(K) = r
    BY <2>2, ChosenIsRead DEF n, r
  <2>7. Made(K) = graph
    BY <1>2, <2>6, MadeIsChosen
  <2> QED
    BY <2>3, <2>5, <2>7, SameAgrees, AgreesIsComplete
<1>7. CASE /\ n \in 1 .. n /\ r[n] # history[n].operation /\ r[n] # Nothing
  <2> DEFINE o == history[n].operation
             c == Chosen(all)
  <2>1. o \in Operations /\ Altered(o, r[n]) /\ r[n] \in Taken /\ o \in Taken
    BY <1>1, <1>7, OperationsTaken
  <2>2. o.kind = "AddUser" /\ \E x \in {CutName, RunOnName} : r[n] = [o EXCEPT !.name = x]
    BY <1>7, <2>1 DEF Altered
  <2>3. c = [i \in 1 .. n |-> history[i].operation]
    BY <1>1 DEF Chosen
  <2>4. \A i \in 1 .. n : history[i].operation \in Taken
    BY <1>1, OperationsTaken
  <2>5. c \in Seq(Taken) /\ Len(c) = n /\ \A i \in 1 .. n : c[i] = history[i].operation
    BY <1>1, <2>3, <2>4
  <2> DEFINE k == n - 1
  <2>6. k \in Nat /\ k <= n /\ k \in 0 .. n /\ \A i \in 1 .. k : i \in 1 .. n /\ i # n
    BY <1>1, <1>7
  <2>7. \A i \in 1 .. k : c[i] = r[i]
    BY <1>3, <2>5, <2>6
  <2> HIDE DEF c, o
  <2> DEFINE g == Run(Empty, r)[k]
  <2>8. Run(Empty, c)[k] = g
    <3>1. k \in 0 .. k
      BY <2>6
    <3> HIDE DEF k
    <3> QED
      BY <1>1, <2>5, <2>6, <2>7, <3>1, RunsAgree
  <2>9. graph = Apply(g, r[n]) /\ Made(all) = Apply(g, c[n])
    <3>1. graph = Run(Empty, r)[n] /\ Made(all) = Run(Empty, c)[n]
      BY <1>1, <1>2, <2>5, ApplyAllIsRun, MadeIsChosen DEF c
    <3>2. Run(Empty, r)[n] = Apply(Run(Empty, r)[k], r[n])
      BY <1>1, <1>7, RunSteps
    <3>3. Run(Empty, c)[n] = Apply(Run(Empty, c)[k], c[n])
      BY <1>1, <1>7, <2>5, RunSteps
    <3> QED
      BY <2>8, <3>1, <3>2, <3>3
  <2>10. g \in GraphType
    BY <1>1, <2>6, EmptyProper, RunProper DEF Proper
  <2>11. c[n] = o
    BY <1>7, <2>5 DEF o
  <2> HIDE DEF g, k
  <2>12. Agrees(all, graph, Made(all))
    BY <1>4, <2>1, <2>2, <2>9, <2>10, <2>11, AlteredAgrees
  <2> QED
    BY <1>4, <2>12, AgreesIsComplete
<1>8. (\A i \in 1 .. n : i # n => r[i] = history[i].operation)
          => \/ \A i \in 1 .. n : r[i] = history[i].operation
             \/ n \in 1 .. n /\ r[n] # history[n].operation
  OBVIOUS
<1> QED
  BY <1>3, <1>5, <1>6, <1>7, <1>8

LEMMA IdleIsKept ==
    ASSUME RecoveryInv, OnlyEndCut, op = Idle
    PROVE  Reading /\ NearTo(graph, Graphs[Len(history)], ~cutSave)
<1>1. op.kind = "idle"
  BY DEF Idle
<1> QED
  BY <1>1, LogIsRead DEF RecoveryInv, Surviving

LEMMA KeptIsComplete == RecoveryInv /\ OnlyEndCut /\ ~cutSave => Complete
<1> SUFFICES ASSUME RecoveryInv, OnlyEndCut, ~cutSave PROVE Complete
  OBVIOUS
<1>1. CASE op = Idle
  <2>1. Reading /\ graph = Graphs[Len(history)]
    BY <1>1, IdleIsKept DEF NearTo
  <2> QED
    BY <2>1, ExactIsComplete
<1>2. CASE op # Idle
  BY <1>2 DEF Complete
<1> QED
  BY <1>1, <1>2

LEMMA WholeIsOnlyEndCut == AppendsWhole => OnlyEndCut
  BY DEF AppendsWhole, OnlyEndCut

LEMMA InvNothingLost == RecoveryInv => NothingLost
<1> SUFFICES ASSUME RecoveryInv, AppendsWhole, ~cutSave
             PROVE  Complete /\ (op.kind = "failed" => HasPipedUser(snapshot))
  BY DEF NothingLost
<1> QED
  BY WholeIsOnlyEndCut, KeptIsComplete DEF RecoveryInv, Surviving

LEMMA InvCutEndHarmless == RecoveryInv => CutEndHarmless
  BY KeptIsComplete DEF CutEndHarmless, OnlyEndCut

LEMMA InvOnlyLoses == RecoveryInv => OnlyLoses
<1> SUFFICES ASSUME RecoveryInv, AppendsWhole, op = Idle
             PROVE  LET made == Made(Returned)
                    IN /\ DOMAIN graph.names \subseteq DOMAIN made.names
                       /\ \A u \in Users : ToSet(graph.following[u]) \subseteq ToSet(made.following[u])
  BY DEF OnlyLoses
<1>1. Reading /\ Within(graph, Graphs[Len(history)])
  BY WholeIsOnlyEndCut, IdleIsKept DEF NearTo
<1>2. Chosen(Returned) = Read(LogLines)
  BY <1>1, ChosenIsRead DEF Reading, AppendsWhole, Returned
<1>3. Made(Returned) = Graphs[Len(history)]
  BY <1>1, <1>2, MadeIsChosen, GraphsFacts
<1>4. Users \subseteq Ids
  BY DEF Ids
<1> QED
  BY <1>1, <1>3, <1>4 DEF Within

-----------------------------------------------------------------------------
(* The theorems *)

\* As long as no write is cut, the graph between two calls is the one that all the
\* operations whose append_operation returned make, in their order and with their
\* names, however often the process stopped between two calls, between logging an
\* operation and applying it, or after saving; and recover_from_snapshot_and_log
\* fails for nothing but a | in the name of a saved user.
THEOREM NothingIsLost == Spec => []NothingLost
  BY AlwaysRecovery, InvNothingLost, PTL

\* An append_operation cut off by a crash at the end of the log costs no other
\* operation: if the log can still be read, recover_from_snapshot_and_log brings
\* back all the operations that returned, and the cut one is there, missing, or
\* there with another name.
THEOREM CutEndIsHarmless == Spec => []CutEndHarmless
  BY AlwaysRecovery, InvCutEndHarmless, PTL

\* A snapshot cut off by a crash in save_snapshot, at any line, never makes
\* recover_from_snapshot_and_log return a user or an edge that the operations of
\* the log do not make: what later operations removed stays removed.
THEOREM CutSnapshotOnlyLoses == Spec => []OnlyLoses
  BY AlwaysRecovery, InvOnlyLoses, PTL
=============================================================================
