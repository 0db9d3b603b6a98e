----------------------------- MODULE SnapshotProofs ----------------------------
(***************************************************************************)
(* Proofs about SnapshotRestore: the text of a placement is read back, what *)
(* a snapshot restores is the graph it was taken of, and verify_recovery    *)
(* decides whether two graphs answer alike.  For any placement, numbers of  *)
(* users and shards, and lists of any length.                              *)
(***************************************************************************)
EXTENDS SnapshotRestore, ShardedGraphProofs

-----------------------------------------------------------------------------
(* Texts and their fields *)

Tokens ==
    {Text!Word(t) : t \in {"Hash", "Community:", "BalancedCommunity:", ":", ","}}
        \cup {Text!Numeral(k) : k \in Nat}

Splits == {x \in Seq(Seq(Tokens)) : x # <<>>}

FieldStep(separator) ==
    [p \in Splits \X Tokens |->
        IF p[2] = Text!Word(separator) THEN Append(p[1], <<>>)
        ELSE Append(Text!Front(p[1]), Append(Text!Last(p[1]), p[2]))]

\* The last of several lists grows; the others stay.
LEMMA LastGrows ==
    ASSUME NEW V, NEW x \in Seq(Seq(V)), x # <<>>, NEW v \in V
    PROVE  /\ Text!Front(x) \in Seq(Seq(V)) /\ Text!Last(x) \in Seq(V)
           /\ Append(Text!Front(x), Append(Text!Last(x), v)) \in Seq(Seq(V))
           /\ Append(Text!Front(x), Append(Text!Last(x), v)) # <<>>
<1>1. Len(x) \in Nat /\ Len(x) # 0 /\ Len(x) \in 1 .. Len(x)
  BY EmptySeq
<1>2. Text!Front(x) \in Seq(Seq(V)) /\ Text!Last(x) \in Seq(V)
  BY <1>1 DEF Text!Front, Text!Last
<1>3. Append(Text!Last(x), v) \in Seq(V)
  BY <1>2
<1>4. Append(Text!Front(x), Append(Text!Last(x), v)) \in Seq(Seq(V))
      /\ Append(Text!Front(x), Append(Text!Last(x), v)) # <<>>
  <2> DEFINE U == Seq(V)
             front == Text!Front(x)
             last == Append(Text!Last(x), v)
  <2>1. front \in Seq(U) /\ last \in U
    BY <1>2, <1>3
  <2> HIDE DEF U, front, last
  <2>2. Append(front, last) \in Seq(U) /\ Len(Append(front, last)) = Len(front) + 1 /\ Len(front) \in Nat
    BY <2>1
  <2>3. Append(front, last) # <<>>
    <3>1. Len(Append(front, last)) # 0
      BY ONLY <2>2
    <3> QED
      BY <3>1, EmptySeq
  <2> QED
    BY <2>2, <2>3 DEF U, front, last
<1> QED
  BY <1>2, <1>4

LEMMA FieldSteps ==
    ASSUME NEW separator
    PROVE  /\ FieldStep(separator) \in Steps(Splits, Tokens) /\ << <<>> >> \in Splits
           /\ \A x \in Splits, t \in Tokens :
                  FieldStep(separator)[<<x, t>>] =
                      IF t = Text!Word(separator) THEN Append(x, <<>>)
                      ELSE Append(Text!Front(x), Append(Text!Last(x), t))
<1> DEFINE none == <<>>
<1>1. none \in Seq(Tokens) /\ << none >> \in Splits
  BY DEF Splits
<1>2. \A x \in Splits : Append(x, none) \in Splits
  <2> TAKE x \in Splits
  <2>1. x \in Seq(Seq(Tokens)) /\ none \in Seq(Tokens)
    BY <1>1 DEF Splits
  <2> HIDE DEF none
  <2>2. Append(x, none) \in Seq(Seq(Tokens)) /\ Append(x, none) # <<>>
    BY <2>1
  <2> QED
    BY <2>2 DEF Splits
<1>3. \A x \in Splits, t \in Tokens : Append(Text!Front(x), Append(Text!Last(x), t)) \in Splits
  BY LastGrows DEF Splits
<1> HIDE DEF none
<1>4. \A p \in Splits \X Tokens :
          (IF p[2] = Text!Word(separator) THEN Append(p[1], none)
           ELSE Append(Text!Front(p[1]), Append(Text!Last(p[1]), p[2]))) \in Splits
  <2> TAKE p \in Splits \X Tokens
  <2>1. p[1] \in Splits /\ p[2] \in Tokens
    OBVIOUS
  <2> QED
    BY <1>2, <1>3, <2>1
<1>5. FieldStep(separator) = [p \in Splits \X Tokens |->
          IF p[2] = Text!Word(separator) THEN Append(p[1], none)
          ELSE Append(Text!Front(p[1]), Append(Text!Last(p[1]), p[2]))]
  BY DEF FieldStep, none
<1>6. FieldStep(separator) \in Steps(Splits, Tokens)
  BY <1>4, <1>5 DEF Steps
<1>7. ASSUME NEW x \in Splits, NEW t \in Tokens
      PROVE  FieldStep(separator)[<<x, t>>] =
                 IF t = Text!Word(separator) THEN Append(x, none)
                 ELSE Append(Text!Front(x), Append(Text!Last(x), t))
  <2>1. <<x, t>> \in Splits \X Tokens /\ <<x, t>>[1] = x /\ <<x, t>>[2] = t
    OBVIOUS
  <2> QED
    BY <1>5, <2>1
<1> QED
  BY <1>1, <1>6, <1>7 DEF none

LEMMA FieldsIsFold ==
    ASSUME NEW separator, NEW text \in Seq(Tokens)
    PROVE  Text!Fields(text, separator) = FoldOf(FieldStep(separator), << <<>> >>, text)
<1> DEFINE step == FieldStep(separator)
           none == << <<>> >>
           T == Splits
           V == Tokens
           Eq(g) == g = [s \in SUBSET DOMAIN text |->
                            IF s = {} THEN none
                            ELSE IF text[Max(s)] = Text!Word(separator)
                                 THEN Append(g[s \ {Max(s)}], <<>>)
                                 ELSE Append(Text!Front(g[s \ {Max(s)}]),
                                             Append(Text!Last(g[s \ {Max(s)}]), text[Max(s)]))]
<1>1. step \in Steps(T, V) /\ none \in T
  BY FieldSteps
<1>2. \A x \in T, t \in V : step[<<x, t>>] =
          IF t = Text!Word(separator) THEN Append(x, <<>>)
          ELSE Append(Text!Front(x), Append(Text!Last(x), t))
  BY FieldSteps
<1> HIDE DEF step, none
<1>3. \E g : Eq(g)
  <2>1. PICK g : /\ g = [s \in SUBSET DOMAIN text |-> g[s]]
                 /\ g[{}] = none
                 /\ FoldsUp(g, T, step, text)
                 /\ AllIn(g, T, text)
                 /\ \A s \in SUBSET DOMAIN text : s # {} => text[Max(s)] \in V
    BY <1>1, FoldExists
  <2>2. Eq(g)
    BY <1>2, <2>1 DEF FoldsUp, AllIn
  <2> QED
    BY <2>2
<1>4. ASSUME NEW g, Eq(g) PROVE g[DOMAIN text] = FoldOf(step, none, text)
  <2>1. g[{}] = none
    BY <1>4
  <2>2. \A s \in SUBSET DOMAIN text : s # {} => text[Max(s)] \in V
    BY <1>1, FoldExists
  <2>3. FoldsUp(g, T, step, text)
    <3>1. ASSUME NEW s \in SUBSET DOMAIN text, s # {}, g[s \ {Max(s)}] \in T
          PROVE  g[s] = step[<<g[s \ {Max(s)}], text[Max(s)]>>]
      <4>1. g[s] = IF text[Max(s)] = Text!Word(separator)
                   THEN Append(g[s \ {Max(s)}], <<>>)
                   ELSE Append(Text!Front(g[s \ {Max(s)}]),
                               Append(Text!Last(g[s \ {Max(s)}]), text[Max(s)]))
        BY ONLY <1>4, <3>1
      <4>2. text[Max(s)] \in V
        BY <2>2, <3>1
      <4> HIDE DEF Eq
      <4> QED
        BY <1>2, <3>1, <4>1, <4>2
    <3> HIDE DEF Eq
    <3> QED
      BY <3>1 DEF FoldsUp
  <2> QED
    BY <1>1, <2>1, <2>3, FoldUnique
<1>5. Text!Fields(text, separator) = (CHOOSE g : Eq(g))[DOMAIN text]
  BY Zenon DEF Text!Fields, Text!FoldLeft, Text!MapThenFoldSet, Text!Max, Max, none
<1> HIDE DEF Eq
<1> QED
  BY <1>1, <1>3, <1>4, <1>5 DEF step, none

\* A token more: a separator begins a field, another token goes on with the last.
LEMMA FieldsAppend ==
    ASSUME NEW separator, NEW text \in Seq(Tokens), NEW t \in Tokens
    PROVE  /\ Text!Fields(text, separator) \in Splits
           /\ Text!Fields(Append(text, t), separator) =
                  IF t = Text!Word(separator) THEN Append(Text!Fields(text, separator), <<>>)
                  ELSE Append(Text!Front(Text!Fields(text, separator)),
                              Append(Text!Last(Text!Fields(text, separator)), t))
<1> DEFINE step == FieldStep(separator)
           none == << <<>> >>
           more == Append(text, t)
<1>1. step \in Steps(Splits, Tokens) /\ none \in Splits /\ more \in Seq(Tokens)
  BY FieldSteps
<1>2. \A x \in Splits : step[<<x, t>>] =
          IF t = Text!Word(separator) THEN Append(x, <<>>)
          ELSE Append(Text!Front(x), Append(Text!Last(x), t))
  BY FieldSteps
<1>3. Text!Fields(text, separator) = FoldOf(step, none, text)
      /\ Text!Fields(more, separator) = FoldOf(step, none, more)
  BY <1>1, FieldsIsFold
<1> HIDE DEF step, none
<1>4. FoldOf(step, none, text) \in Splits /\ FoldOf(step, none, more) = step[<<FoldOf(step, none, text), t>>]
  BY <1>1, FoldOfAppend
<1> QED
  BY <1>2, <1>3, <1>4

LEMMA FieldsEmpty == \A separator : Text!Fields(<<>>, separator) = << <<>> >>
<1> TAKE separator
<1> DEFINE none == << <<>> >>
           step == FieldStep(separator)
<1>1. Text!Fields(<<>>, separator) = FoldOf(step, none, <<>>)
  <2>1. <<>> \in Seq(Tokens)
    OBVIOUS
  <2> QED
    BY <2>1, FieldsIsFold
<1> HIDE DEF none, step
<1> QED
  BY <1>1, FoldOfEmpty DEF none

\* A text without the separator is one field.
LEMMA OneField ==
    ASSUME NEW separator, NEW text \in Seq(Tokens), Text!Word(separator) \notin ToSet(text)
    PROVE  Text!Fields(text, separator) = << text >>
<1> DEFINE W == {l \in Seq(Tokens) : Text!Word(separator) \notin ToSet(l) =>
                                         Text!Fields(l, separator) = << l >>}
<1>1. <<>> \in W
  <2>1. <<>> \in Seq(Tokens)
    OBVIOUS
  <2> QED
    BY <2>1, FieldsEmpty
<1>2. ASSUME NEW front \in Seq(Tokens), NEW t \in Tokens, front \in W PROVE Append(front, t) \in W
  <2> DEFINE more == Append(front, t)
  <2>1. more \in Seq(Tokens) /\ ToSet(more) = ToSet(front) \cup {t}
    BY AppendedSet
  <2>2. ASSUME Text!Word(separator) \notin ToSet(more) PROVE Text!Fields(more, separator) = << more >>
    <3>1. Text!Fields(front, separator) = << front >> /\ t # Text!Word(separator)
      BY <1>2, <2>1, <2>2
    <3>2. Text!Fields(more, separator) = Append(Text!Front(<< front >>), Append(Text!Last(<< front >>), t))
      BY <3>1, FieldsAppend
    <3>3. Text!Front(<< front >>) = <<>> /\ Text!Last(<< front >>) = front
      <4>1. Len(<< front >>) = 1 /\ << front >> \in Seq(Seq(Tokens)) /\ << front >>[1] = front
        OBVIOUS
      <4>2. SubSeq(<< front >>, 1, 0) = <<>>
        BY <4>1, FrontEnds
      <4> QED
        BY <4>1, <4>2 DEF Text!Front, Text!Last
    <3>4. Append(<<>>, more) = << more >>
      OBVIOUS
    <3> QED
      BY <3>2, <3>3, <3>4
  <2> HIDE DEF more
  <2> QED
    BY <2>1, <2>2 DEF more
<1> HIDE DEF W
<1>3. text \in W
  BY <1>1, <1>2, ListInduction
<1> QED
  BY <1>3 DEF W

LEMMA FrontFacts ==
    ASSUME NEW V, NEW x \in Seq(V), x # <<>>
    PROVE  /\ Text!Front(x) \in Seq(V) /\ Len(Text!Front(x)) = Len(x) - 1
           /\ \A i \in 1 .. Len(x) - 1 : Text!Front(x)[i] = x[i]
<1>1. Len(x) \in Nat \ {0}
  BY EmptySeq
<1>2. Text!Front(x) = SubSeq(x, 1, Len(x) - 1)
  BY DEF Text!Front
<1> DEFINE n == Len(x) - 1
<1>3. n \in Int /\ n \in Nat /\ \A i \in 1 .. n : x[i] \in V
  BY <1>1
<1> HIDE DEF n
<1>4. /\ SubSeq(x, 1, n) \in Seq(V) /\ Len(SubSeq(x, 1, n)) = IF 1 <= n THEN n - 1 + 1 ELSE 0
      /\ \A i \in 1 .. n - 1 + 1 : SubSeq(x, 1, n)[i] = x[1 + i - 1]
  BY <1>3, SubSeqProperties
<1>5. /\ SubSeq(x, 1, n) \in Seq(V) /\ Len(SubSeq(x, 1, n)) = n
      /\ \A i \in 1 .. n : SubSeq(x, 1, n)[i] = x[i]
  BY <1>3, <1>4
<1> QED
  BY <1>2, <1>5 DEF n

AppendsBehind(x, y, v) == Append(x \o y, v) = x \o Append(y, v)

LEMMA AppendBehind ==
    ASSUME NEW V, NEW x \in Seq(V), NEW y \in Seq(V), NEW v \in V
    PROVE  AppendsBehind(x, y, v)
<1>1. <<v>> \in Seq(V) /\ x \o y \in Seq(V)
  OBVIOUS
<1>2. Append(x \o y, v) = (x \o y) \o <<v>> /\ Append(y, v) = y \o <<v>>
  BY <1>1, AppendIsConcat
<1>3. (x \o y) \o <<v>> = x \o (y \o <<v>>)
  BY <1>1, ConcatAssociative
<1> QED
  BY <1>2, <1>3 DEF AppendsBehind

\* Only the last of the lists grows, whatever lists come before.
GrowsBehind(x, y, v) ==
    Append(Text!Front(x \o y), Append(Text!Last(x \o y), v)) =
        x \o Append(Text!Front(y), Append(Text!Last(y), v))

LEMMA FrontBehind ==
    ASSUME NEW V, NEW x \in Seq(Seq(V)), NEW y \in Seq(Seq(V)), y # <<>>, NEW v \in V
    PROVE  GrowsBehind(x, y, v)
<1> DEFINE U == Seq(V)
           m == Len(x)
           n == Len(y)
           both == x \o y
           l == Append(Text!Last(y), v)
           fy == Text!Front(y)
           fb == Text!Front(both)
           a == Append(fb, l)
           b == Append(fy, l)
           c == x \o b
<1>1. /\ x \in Seq(U) /\ y \in Seq(U) /\ m \in Nat /\ n \in Nat \ {0}
      /\ both \in Seq(U) /\ Len(both) = m + n
      /\ \A i \in 1 .. m + n : both[i] = IF i <= m THEN x[i] ELSE y[i - m]
  BY EmptySeq
<1>2. Text!Last(both) = Text!Last(y)
  BY <1>1 DEF Text!Last, n, both
<1>3. l \in U
  <2>1. y[n] \in Seq(V)
    BY <1>1
  <2> QED
    BY <2>1 DEF Text!Last
<1> HIDE DEF U, m, n, both, l
<1>4. fy \in Seq(U) /\ Len(fy) = n - 1 /\ \A i \in 1 .. n - 1 : fy[i] = y[i]
  BY <1>1, FrontFacts DEF n, fy
<1>5. fb \in Seq(U) /\ Len(fb) = m + n - 1 /\ \A i \in 1 .. m + n - 1 : fb[i] = both[i]
  <2>1. both # <<>>
    BY <1>1, EmptySeq
  <2>2. /\ Text!Front(both) \in Seq(U) /\ Len(Text!Front(both)) = Len(both) - 1
        /\ \A i \in 1 .. Len(both) - 1 : Text!Front(both)[i] = both[i]
    BY <1>1, <2>1, FrontFacts
  <2> QED
    BY <1>1, <2>2 DEF fb
<1> HIDE DEF fy, fb
<1>6. a \in Seq(U) /\ Len(a) = m + n /\ (\A i \in 1 .. m + n - 1 : a[i] = fb[i]) /\ a[m + n] = l
  BY <1>1, <1>3, <1>5
<1>7. b \in Seq(U) /\ Len(b) = n /\ (\A i \in 1 .. n - 1 : b[i] = fy[i]) /\ b[n] = l
  BY <1>1, <1>3, <1>4
<1> HIDE DEF a, b
<1>8. c \in Seq(U) /\ Len(c) = m + n /\ \A i \in 1 .. m + n : c[i] = IF i <= m THEN x[i] ELSE b[i - m]
  BY <1>1, <1>7 DEF m
<1> HIDE DEF c
<1>9. \A i \in 1 .. m + n : a[i] = c[i]
  <2> TAKE i \in 1 .. m + n
  <2>1. CASE i <= m
    <3>1. i \in 1 .. m + n - 1
      BY <1>1, <2>1
    <3> QED
      BY <1>1, <1>5, <1>6, <1>8, <2>1, <3>1
  <2>2. CASE ~(i <= m) /\ i # m + n
    <3>1. i \in 1 .. m + n - 1 /\ i - m \in 1 .. n - 1
      BY <1>1, <2>2
    <3>2. a[i] = y[i - m]
      BY <1>1, <1>5, <1>6, <2>2, <3>1
    <3>3. c[i] = y[i - m]
      BY <1>4, <1>7, <1>8, <2>2, <3>1
    <3> QED
      BY <3>2, <3>3
  <2>3. CASE ~(i <= m) /\ i = m + n
    <3>1. i - m = n /\ c[i] = b[i - m]
      BY <1>1, <1>8, <2>3
    <3> QED
      BY <1>6, <1>7, <2>3, <3>1
  <2> QED
    BY <2>1, <2>2, <2>3
<1>10. a = c
  BY <1>1, <1>6, <1>8, <1>9, SeqEqual
<1> QED
  BY <1>2, <1>10 DEF both, fb, fy, a, b, c, l, GrowsBehind

LEMMA SplitsBehind ==
    \A V : \A x \in Seq(Seq(V)), y \in Seq(Seq(V)), t \in V :
        y # <<>> => AppendsBehind(x, y, <<>>) /\ GrowsBehind(x, y, t)
<1> SUFFICES ASSUME NEW V, NEW x \in Seq(Seq(V)), NEW y \in Seq(Seq(V)), NEW t \in V, y # <<>>
             PROVE  AppendsBehind(x, y, <<>>) /\ GrowsBehind(x, y, t)
  OBVIOUS
<1> DEFINE none == <<>>
           U == Seq(V)
<1>1. x \in Seq(U) /\ y \in Seq(U) /\ none \in U
  OBVIOUS
<1> HIDE DEF none, U
<1>2. AppendsBehind(x, y, none)
  BY <1>1, AppendBehind
<1>3. GrowsBehind(x, y, t)
  BY FrontBehind
<1> QED
  BY <1>2, <1>3 DEF none

\* The fields of two texts with a separator between are those of the first and
\* those of the second.
LEMMA FieldsBetween ==
    ASSUME NEW separator, Text!Word(separator) \in Tokens, NEW text \in Seq(Tokens), NEW more \in Seq(Tokens)
    PROVE  Text!Fields(Append(text, Text!Word(separator)) \o more, separator) =
               Text!Fields(text, separator) \o Text!Fields(more, separator)
<1> DEFINE word == Text!Word(separator)
           start == Append(text, word)
           F(l) == Text!Fields(l, separator)
           Good(l) == F(start \o l) = F(text) \o F(l)
           W == {l \in Seq(Tokens) : Good(l)}
<1>1. start \in Seq(Tokens) /\ F(start) = Append(F(text), <<>>) /\ F(text) \in Splits
  BY FieldsAppend
<1>2. \A l \in Seq(Tokens) : F(l) \in Splits
  BY FieldsAppend
<1>3. \A l \in Seq(Tokens), t \in Tokens : F(Append(l, t)) =
          IF t = word THEN Append(F(l), <<>>)
          ELSE Append(Text!Front(F(l)), Append(Text!Last(F(l)), t))
  BY FieldsAppend
<1>4. F(<<>>) = << <<>> >>
  BY FieldsEmpty
<1> HIDE DEF F, word, start
<1>5. <<>> \in W
  <2>1. <<>> \in Seq(Tokens) /\ start \o <<>> = start
    BY <1>1
  <2>2. F(text) \o << <<>> >> = Append(F(text), <<>>)
    <3> DEFINE none == <<>>
               fields == F(text)
    <3>1. fields \in Seq(Seq(Tokens)) /\ none \in Seq(Tokens)
      BY <1>1 DEF Splits
    <3> HIDE DEF none, fields
    <3>2. fields \o << none >> = Append(fields, none)
      BY <3>1, AppendIsConcat
    <3> QED
      BY <3>2 DEF none, fields
  <2> QED
    BY <1>1, <1>4, <2>1, <2>2
<1>6. ASSUME NEW front \in Seq(Tokens), NEW t \in Tokens, front \in W PROVE Append(front, t) \in W
  <2> DEFINE longer == Append(front, t)
             x == F(text)
             y == F(front)
  <2>1. longer \in Seq(Tokens) /\ start \o front \in Seq(Tokens)
        /\ start \o longer = Append(start \o front, t)
    BY <1>1
  <2>2. F(start \o front) = x \o y
    BY <1>6
  <2>3. x \in Seq(Seq(Tokens)) /\ y \in Seq(Seq(Tokens)) /\ y # <<>>
    BY <1>1, <1>2 DEF Splits
  <2> HIDE DEF x, y, longer
  <2>4. F(start \o longer) = IF t = word THEN Append(x \o y, <<>>)
                             ELSE Append(Text!Front(x \o y), Append(Text!Last(x \o y), t))
    BY <1>3, <2>1, <2>2
  <2>5. F(longer) = IF t = word THEN Append(y, <<>>)
                    ELSE Append(Text!Front(y), Append(Text!Last(y), t))
    BY <1>3 DEF longer, y
  <2>6. /\ Append(x \o y, <<>>) = x \o Append(y, <<>>)
        /\ Append(Text!Front(x \o y), Append(Text!Last(x \o y), t)) =
               x \o Append(Text!Front(y), Append(Text!Last(y), t))
    <3>1. AppendsBehind(x, y, <<>>) /\ GrowsBehind(x, y, t)
      BY <2>3, SplitsBehind
    <3> QED
      BY <3>1 DEF AppendsBehind, GrowsBehind
  <2>8. Good(longer)
    BY <2>4, <2>5, <2>6 DEF x
  <2> HIDE DEF Good
  <2> QED
    BY <2>1, <2>8 DEF longer
<1>7. more \in W
  <2> HIDE DEF W
  <2> QED
    BY <1>5, <1>6, ListInduction
<1> QED
  BY <1>7 DEF start, word, F

-----------------------------------------------------------------------------
(* Joined texts *)

\* What Joined puts one behind the other, and the fields it makes.
Joints(l) ==
    [i \in DOMAIN l |->
        IF i = 1 THEN <<Text!Numeral(l[i])>> ELSE <<Text!Word(","), Text!Numeral(l[i])>>]

Singles(l) == [i \in DOMAIN l |-> <<Text!Numeral(l[i])>>]

LEMMA TokenFacts ==
    /\ \A k \in Nat : /\ Text!Numeral(k) \in Tokens
                      /\ Text!Numeral(k).text = "" /\ Text!Numeral(k).number = k
                      /\ Text!Numeral(k) # Text!Word(",") /\ Text!Numeral(k) # Text!Word(":")
    /\ Text!Word(",") \in Tokens /\ Text!Word(":") \in Tokens /\ Text!Word(",") # Text!Word(":")
<1>1. "," # "" /\ ":" # "" /\ "," # ":"
  BY Zenon
<1>2. \A t : Text!Word(t).text = t
  BY DEF Text!Word
<1>3. ASSUME NEW k \in Nat PROVE Text!Numeral(k).text = "" /\ Text!Numeral(k).number = k
  BY DEF Text!Numeral
<1>4. Text!Word(",") \in Tokens /\ Text!Word(":") \in Tokens /\ \A k \in Nat : Text!Numeral(k) \in Tokens
  BY DEF Tokens
<1> QED
  BY <1>1, <1>2, <1>3, <1>4

\* Texts of one or two tokens.
LEMMA ShortLists ==
    ASSUME NEW V, NEW x \in V, NEW y \in V
    PROVE  <<x>> \in Seq(V) /\ <<x, y>> \in Seq(V) /\ <<x, y>> = <<x>> \o <<y>>
<1>1. <<x>> \in Seq(V) /\ <<x, y>> \in Seq(V) /\ <<y>> \in Seq(V)
  OBVIOUS
<1>2. /\ <<x>> \o <<y>> \in Seq(V) /\ Len(<<x>> \o <<y>>) = 2
      /\ (<<x>> \o <<y>>)[1] = x /\ (<<x>> \o <<y>>)[2] = y
  BY <1>1
<1>3. \A i \in 1 .. 2 : i = 1 \/ i = 2
  OBVIOUS
<1>4. Len(<<x, y>>) = 2 /\ <<x, y>>[1] = x /\ <<x, y>>[2] = y
  OBVIOUS
<1> DEFINE a == <<x, y>>
           b == <<x>> \o <<y>>
<1>5. a \in Seq(V) /\ b \in Seq(V) /\ Len(a) = 2 /\ Len(b) = 2 /\ a[1] = b[1] /\ a[2] = b[2]
  BY <1>1, <1>2, <1>4
<1> HIDE DEF a, b
<1>6. \A i \in 1 .. Len(a) : a[i] = b[i]
  BY <1>3, <1>5
<1>7. a = b
  BY <1>5, <1>6, SeqEqual
<1> QED
  BY <1>1, <1>7 DEF a, b

LEMMA JointsAppend ==
    ASSUME NEW l \in Seq(Nat), NEW k \in Nat
    PROVE  /\ Joints(l) \in Seq(Seq(Tokens)) /\ Singles(l) \in Seq(Seq(Tokens))
           /\ Joints(Append(l, k)) =
                  Append(Joints(l), IF l = <<>> THEN <<Text!Numeral(k)>>
                                    ELSE <<Text!Word(","), Text!Numeral(k)>>)
           /\ Singles(Append(l, k)) = Append(Singles(l), <<Text!Numeral(k)>>)
<1> DEFINE U == Seq(Tokens)
           N(i) == <<Text!Numeral(i)>>
           M(i) == <<Text!Word(","), Text!Numeral(i)>>
           more == Append(l, k)
           n == Len(l)
           last == IF l = <<>> THEN N(k) ELSE M(k)
           J == Joints(l)
           S == Singles(l)
<1>1. \A i \in Nat : N(i) \in U /\ M(i) \in U
  <2> TAKE i \in Nat
  <2>1. Text!Word(",") \in Tokens /\ Text!Numeral(i) \in Tokens
    BY TokenFacts
  <2> QED
    BY <2>1, ShortLists
<1>2. /\ more \in Seq(Nat) /\ n \in Nat /\ Len(more) = n + 1 /\ (n = 0 <=> l = <<>>)
      /\ DOMAIN l = 1 .. n /\ DOMAIN more = 1 .. n + 1
      /\ (\A i \in 1 .. n : l[i] \in Nat /\ more[i] = l[i]) /\ more[n + 1] = k
  BY EmptySeq
<1>3. J = [i \in 1 .. n |-> IF i = 1 THEN N(l[i]) ELSE M(l[i])] /\ S = [i \in 1 .. n |-> N(l[i])]
  BY <1>2 DEF Joints, Singles
<1>4. Joints(more) = [i \in 1 .. n + 1 |-> IF i = 1 THEN N(more[i]) ELSE M(more[i])]
      /\ Singles(more) = [i \in 1 .. n + 1 |-> N(more[i])]
  BY <1>2 DEF Joints, Singles
<1> HIDE DEF N, M, U, n, more, J, S
<1>5. last \in U
  BY <1>1
<1>6. J \in Seq(U) /\ S \in Seq(U) /\ Len(J) = n /\ Len(S) = n
  BY <1>1, <1>2, <1>3
<1>7. Joints(more) \in Seq(U) /\ Singles(more) \in Seq(U) /\ Len(Joints(more)) = n + 1 /\ Len(Singles(more)) = n + 1
  BY <1>1, <1>2, <1>4
<1>8. Joints(more)[n + 1] = last /\ Singles(more)[n + 1] = N(k)
  BY <1>2, <1>4
<1>9. \A i \in 1 .. n : Joints(more)[i] = J[i] /\ Singles(more)[i] = S[i]
  BY <1>2, <1>3, <1>4
<1> HIDE DEF last
<1>10. Joints(more) = Append(J, last)
  <2>1. /\ Append(J, last) \in Seq(U) /\ Len(Append(J, last)) = n + 1 /\ Append(J, last)[n + 1] = last
        /\ \A i \in 1 .. n : Append(J, last)[i] = J[i]
    BY <1>2, <1>5, <1>6, AppendProperties
  <2>2. \A i \in 1 .. n + 1 : i \in 1 .. n \/ i = n + 1
    BY <1>2
  <2>3. \A i \in 1 .. n + 1 : Joints(more)[i] = Append(J, last)[i]
    BY <1>8, <1>9, <2>1, <2>2
  <2> QED
    BY <1>2, <1>7, <2>1, <2>3, SeqEqual
<1>11. Singles(more) = Append(S, N(k))
  <2>1. /\ Append(S, N(k)) \in Seq(U) /\ Len(Append(S, N(k))) = n + 1 /\ Append(S, N(k))[n + 1] = N(k)
        /\ \A i \in 1 .. n : Append(S, N(k))[i] = S[i]
    BY <1>1, <1>2, <1>6, AppendProperties
  <2>2. \A i \in 1 .. n + 1 : Singles(more)[i] = Append(S, N(k))[i]
    BY <1>2, <1>8, <1>9, <2>1
  <2> QED
    BY <1>2, <1>7, <2>1, <2>2, SeqEqual
<1> QED
  BY <1>6, <1>10, <1>11 DEF U, J, S, N, M, last, more

LEMMA JoinedAppend ==
    ASSUME NEW l \in Seq(Nat), NEW k \in Nat
    PROVE  /\ Text!Joined(<<>>) = <<>> /\ Text!Joined(l) \in Seq(Tokens)
           /\ l = <<>> => Text!Joined(Append(l, k)) = <<Text!Numeral(k)>>
           /\ l # <<>> => Text!Joined(Append(l, k)) =
                             Append(Text!Joined(l), Text!Word(",")) \o <<Text!Numeral(k)>>
<1> DEFINE N == <<Text!Numeral(k)>>
           W == <<Text!Word(",")>>
           M == <<Text!Word(","), Text!Numeral(k)>>
           more == Append(l, k)
           last == IF l = <<>> THEN N ELSE M
           J == Joints(l)
           T == Text!Joined(l)
           U == Seq(Tokens)
<1>1. \A x : Text!Joined(x) = FlattenSeq(Joints(x))
  BY Zenon DEF Text!Joined, Text!FlattenSeq, FlattenSeq, Joints
<1>2. Text!Word(",") \in Tokens /\ Text!Numeral(k) \in Tokens
  BY TokenFacts
<1>3. N \in U /\ W \in U /\ M \in U /\ M = W \o N
  BY <1>2, ShortLists
<1>4. J \in Seq(U) /\ Joints(more) = Append(J, last)
  BY JointsAppend
<1>5. Joints(<<>>) = <<>>
  BY DEF Joints
<1>6. Text!Joined(<<>>) = <<>>
  BY <1>1, <1>5, FlattenEmpty
<1> HIDE DEF N, W, M, more, J, U, T
<1>7. last \in U
  BY <1>3
<1> HIDE DEF last
<1>8. FlattenSeq(J) \in U /\ FlattenSeq(Append(J, last)) = FlattenSeq(J) \o last
  BY <1>4, <1>7, FlattenAppend DEF U
<1>9. T \in U /\ Text!Joined(more) = T \o last
  BY <1>1, <1>4, <1>8 DEF T, J
<1>10. ASSUME l = <<>> PROVE Text!Joined(more) = N
  <2>1. T = <<>> /\ last = N
    BY <1>6, <1>10 DEF T, last
  <2> QED
    BY <1>3, <1>9, <2>1, ConcatEmptySeq DEF U
<1>11. ASSUME l # <<>> PROVE Text!Joined(more) = Append(T, Text!Word(",")) \o N
  <2>1. last = W \o N
    BY <1>3, <1>11 DEF last
  <2>2. T \o (W \o N) = (T \o W) \o N
    BY <1>3, <1>9, ConcatAssociative DEF U
  <2>3. T \o W = Append(T, Text!Word(","))
    BY <1>2, <1>9, AppendIsConcat DEF U, W
  <2> QED
    BY <1>9, <2>1, <2>2, <2>3
<1> QED
  BY <1>6, <1>9, <1>10, <1>11 DEF T, U, N, more

\* A list of numbers that is written as text is read back as it was.
LEMMA JoinedFields ==
    ASSUME NEW numbers \in Seq(Nat)
    PROVE  /\ Text!Joined(numbers) \in Seq(Tokens) /\ Text!Word(":") \notin ToSet(Text!Joined(numbers))
           /\ numbers # <<>> => Text!Fields(Text!Joined(numbers), ",") = Singles(numbers)
<1> DEFINE J(l) == Text!Joined(l)
           comma == Text!Word(",")
           colon == Text!Word(":")
           Good(l) == /\ J(l) \in Seq(Tokens) /\ colon \notin ToSet(J(l))
                      /\ l # <<>> => Text!Fields(J(l), ",") = Singles(l)
           W == {l \in Seq(Nat) : Good(l)}
<1>0. comma \in Tokens /\ colon \in Tokens /\ comma # colon
  BY TokenFacts
<1>1. <<>> \in W
  <2>1. 0 \in Nat /\ <<>> \in Seq(Nat)
    OBVIOUS
  <2>2. J(<<>>) = <<>> /\ J(<<>>) \in Seq(Tokens)
    BY <2>1, JoinedAppend
  <2>3. ToSet(<<>>) = {}
    BY DEF ToSet
  <2> QED
    BY <2>1, <2>2, <2>3
<1>2. ASSUME NEW front \in Seq(Nat), NEW k \in Nat, front \in W PROVE Append(front, k) \in W
  <2> DEFINE more == Append(front, k)
             number == Text!Numeral(k)
             N == <<number>>
             S == Singles(front)
  <2>1. more \in Seq(Nat)
    OBVIOUS
  <2>2. /\ J(front) \in Seq(Tokens)
        /\ front = <<>> => J(more) = N
        /\ front # <<>> => J(more) = Append(J(front), comma) \o N
    BY JoinedAppend
  <2>3. S \in Seq(Seq(Tokens)) /\ Singles(more) = Append(S, N)
    BY JointsAppend
  <2>4. number \in Tokens /\ number # comma /\ number # colon /\ N \in Seq(Tokens)
    <3>1. number \in Tokens /\ number # comma /\ number # colon
      BY TokenFacts
    <3> HIDE DEF number
    <3> QED
      BY <3>1, ShortLists
  <2> HIDE DEF number
  <2>5. ToSet(N) = {number}
    BY DEF ToSet
  <2>6. Text!Fields(N, ",") = << N >>
    BY <2>4, <2>5, OneField
  <2>7. Good(front)
    BY <1>2
  <2> HIDE DEF more, N, S, J, comma, colon
  <2>8. CASE front = <<>>
    <3>1. J(more) \in Seq(Tokens) /\ colon \notin ToSet(J(more)) /\ Text!Fields(J(more), ",") = << N >>
      BY <2>2, <2>4, <2>5, <2>6, <2>8
    <3>2. Append(S, N) = << N >>
      <4>1. S = <<>>
        BY <2>8 DEF S, Singles
      <4> QED
        BY <4>1
    <3> QED
      BY <2>1, <2>3, <3>1, <3>2 DEF more
  <2>9. CASE front # <<>>
    <3> DEFINE T == J(front)
               start == Append(T, comma)
    <3> HIDE DEF start
    <3>1. T \in Seq(Tokens) /\ Text!Fields(T, ",") = S /\ colon \notin ToSet(T)
      BY <2>2, <2>7, <2>9 DEF S
    <3>2. J(more) = start \o N
      BY <2>2, <2>9 DEF start
    <3> HIDE DEF T
    <3>3. start \in Seq(Tokens) /\ ToSet(start) = ToSet(T) \cup {comma}
      <4>1. ToSet(Append(T, comma)) = ToSet(T) \cup {comma}
        BY <3>1, AppendedSet
      <4>2. T \in Seq(Tokens)
        BY <3>1
      <4>3. Append(T, comma) \in Seq(Tokens)
        BY <1>0, <4>2
      <4> QED
        BY <4>1, <4>3 DEF start
    <3>4. Text!Fields(start \o N, ",") = S \o << N >>
      <4>1. Text!Fields(Append(T, comma) \o N, ",") = Text!Fields(T, ",") \o Text!Fields(N, ",")
        BY ONLY <1>0, <2>4, <3>1, FieldsBetween DEF comma
      <4> QED
        BY <2>6, <3>1, <4>1 DEF start
    <3>5. start \o N \in Seq(Tokens) /\ ToSet(start \o N) = ToSet(start) \cup ToSet(N)
      BY <2>4, <3>3, ConcatSet
    <3>6. S \o << N >> = Append(S, N)
      BY <2>3, <2>4, AppendIsConcat
    <3>7. colon \notin ToSet(J(more)) /\ J(more) \in Seq(Tokens) /\ Text!Fields(J(more), ",") = Singles(more)
      BY <1>0, <2>3, <2>4, <2>5, <3>1, <3>2, <3>3, <3>4, <3>5, <3>6
    <3> QED
      BY <2>1, <3>7 DEF more
  <2> QED
    BY <2>8, <2>9
<1> HIDE DEF W
<1>3. numbers \in W
  BY <1>1, <1>2, ListInduction
<1> QED
  BY <1>3 DEF W

-----------------------------------------------------------------------------
(* Reading a placement *)

Associates(x, y, z) == (x \o y) \o z = x \o (y \o z)

LEMMA Association ==
    ASSUME NEW V, NEW x \in Seq(V), NEW y \in Seq(V), NEW z \in Seq(V)
    PROVE  Associates(x, y, z)
  BY ConcatAssociative DEF Associates

LEMMA ReadsNumeral ==
    ASSUME NEW k \in Nat
    PROVE  Text!IsNumber(<<Text!Numeral(k)>>) /\ <<Text!Numeral(k)>>[1].number = k
<1> DEFINE number == Text!Numeral(k)
<1>1. number.text = "" /\ number.number = k
  BY TokenFacts
<1> HIDE DEF number
<1>2. Len(<<number>>) = 1 /\ <<number>>[1] = number
  OBVIOUS
<1>3. Text!IsNumber(<<number>>)
  BY Zenon, <1>1, <1>2 DEF Text!IsNumber
<1>4. number.number = k
  BY Zenon, <1>1
<1> QED
  BY <1>2, <1>3, <1>4 DEF number

\* A list that was joined is taken for numbers, and for those it was made of.
LEMMA JoinedNumbers ==
    ASSUME NEW l \in Seq(Nat), l # <<>>
    PROVE  Text!AreNumbers(Text!Joined(l)) /\ Text!Numbers(Text!Joined(l)) = l
<1> DEFINE S == Singles(l)
           text == Text!Joined(l)
           fields == Text!Fields(text, ",")
<1>1. fields = S
  BY JoinedFields
<1>2. /\ Text!AreNumbers(text) <=> \A field \in ToSet(fields) : Text!IsNumber(field)
      /\ Text!Numbers(text) = [i \in DOMAIN fields |-> fields[i][1].number]
  BY Zenon DEF Text!AreNumbers, Text!Numbers, Text!ToSet, ToSet
<1> HIDE DEF fields, text
<1>3. DOMAIN S = DOMAIN l /\ \A i \in DOMAIN l : S[i] = <<Text!Numeral(l[i])>> /\ l[i] \in Nat
  BY DEF Singles
<1> HIDE DEF S
<1>4. \A i \in DOMAIN l : Text!IsNumber(S[i]) /\ S[i][1].number = l[i]
  BY <1>3, ReadsNumeral
<1>5. \A field \in ToSet(S) : Text!IsNumber(field)
  BY <1>3, <1>4 DEF ToSet
<1>6. [i \in DOMAIN S |-> S[i][1].number] = [i \in DOMAIN l |-> l[i]]
  BY <1>3, <1>4
<1>7. l = [i \in DOMAIN l |-> l[i]]
  OBVIOUS
<1> QED
  BY <1>1, <1>2, <1>5, <1>6, <1>7 DEF text

ReadAs(info, rest, parts) ==
    CASE info = <<Text!Word("Hash")>> -> Text!Hash
      [] Head(info) = Text!Word("Community:") /\ Text!IsNumber(rest) -> Text!Community(rest[1].number)
      [] /\ Head(info) = Text!Word("BalancedCommunity:")
         /\ Len(parts) = 2 /\ Text!AreNumbers(parts[1]) /\ Text!AreNumbers(parts[2]) ->
            Text!BalancedCommunity(Text!Numbers(parts[1]), Text!Numbers(parts[2]))
      [] OTHER -> Text!Unreadable

LEMMA ParseIs == \A info : Text!Parse(info) = ReadAs(info, Tail(info), Text!Fields(Tail(info), ":"))
  BY Zenon DEF Text!Parse, ReadAs

LEMMA HeadsDiffer ==
    /\ Text!Word("Hash") # Text!Word("Community:")
    /\ Text!Word("Hash") # Text!Word("BalancedCommunity:")
    /\ Text!Word("Community:") # Text!Word("BalancedCommunity:")
<1>1. \A t : Text!Word(t).text = t
  BY DEF Text!Word
<1> QED
  BY <1>1

\* A text that names a community size.
LEMMA CommunityInfo ==
    ASSUME NEW size \in Nat
    PROVE  Text!Parse(Text!Info(Text!Community(size))) = Text!Community(size)
<1> DEFINE head == Text!Word("Community:")
           hash == Text!Word("Hash")
           other == Text!Word("BalancedCommunity:")
           number == Text!Numeral(size)
           info == <<head, number>>
           parts == Text!Fields(Tail(info), ":")
<1>1. Text!Info(Text!Community(size)) = info
  BY DEF Text!Info, Text!Community
<1>2. Text!Parse(info) = ReadAs(info, Tail(info), parts)
  BY ParseIs
<1>3. Text!IsNumber(<<number>>) /\ <<number>>[1].number = size
  BY ReadsNumeral
<1>4. hash # head /\ other # head
  BY HeadsDiffer
<1> HIDE DEF parts, number
<1>5. Head(info) = head /\ Tail(info) = <<number>>
  OBVIOUS
<1>6. info # <<hash>>
  BY <1>4
<1> HIDE DEF info, hash, head, other
<1>7. ReadAs(info, <<number>>, parts) = Text!Community(<<number>>[1].number)
  BY <1>3, <1>4, <1>5, <1>6 DEF ReadAs, head, hash, other
<1> QED
  BY <1>1, <1>2, <1>3, <1>5, <1>7

\* A text that lists the communities and their shards.
LEMMA BalancedInfo ==
    ASSUME NEW sizes \in Seq(Nat), NEW shards \in Seq(Nat), sizes # <<>>, shards # <<>>
    PROVE  Text!Parse(Text!Info(Text!BalancedCommunity(sizes, shards))) = Text!BalancedCommunity(sizes, shards)
<1> DEFINE head == Text!Word("BalancedCommunity:")
           hash == Text!Word("Hash")
           other == Text!Word("Community:")
           colon == Text!Word(":")
           a == Text!Joined(sizes)
           b == Text!Joined(shards)
           rest == Append(a, colon) \o b
           info == <<head>> \o rest
           parts == Text!Fields(rest, ":")
<1>1. /\ a \in Seq(Tokens) /\ colon \notin ToSet(a) /\ b \in Seq(Tokens) /\ colon \notin ToSet(b)
      /\ Text!AreNumbers(a) /\ Text!Numbers(a) = sizes /\ Text!AreNumbers(b) /\ Text!Numbers(b) = shards
  BY JoinedFields, JoinedNumbers
<1>2. colon \in Tokens /\ head \in Tokens
  BY TokenFacts DEF Tokens
<1>3. hash # head /\ other # head
  BY HeadsDiffer
<1>4. Text!Info(Text!BalancedCommunity(sizes, shards)) = <<head>> \o a \o <<colon>> \o b
  BY Zenon DEF Text!Info, Text!BalancedCommunity
<1>5. parts = << a >> \o << b >>
  <2>1. Text!Fields(a, ":") = << a >> /\ Text!Fields(b, ":") = << b >>
    BY <1>1, OneField
  <2>2. Text!Fields(Append(a, colon) \o b, ":") = Text!Fields(a, ":") \o Text!Fields(b, ":")
    BY <1>1, <1>2, FieldsBetween
  <2> QED
    BY <2>1, <2>2
<1>6. Text!Parse(info) = ReadAs(info, Tail(info), Text!Fields(Tail(info), ":"))
  BY ParseIs
<1> HIDE DEF colon, a, b, head, hash, other
<1>7. rest \in Seq(Tokens) /\ info = <<head>> \o a \o <<colon>> \o b
  <2> DEFINE h == <<head>>
             c == <<colon>>
             ac == a \o c
  <2>1. h \in Seq(Tokens) /\ c \in Seq(Tokens) /\ a \in Seq(Tokens) /\ b \in Seq(Tokens)
    BY <1>1, <1>2, ShortLists
  <2>2. Append(a, colon) = ac
    BY <1>1, <1>2, AppendIsConcat
  <2> HIDE DEF h, c
  <2>3. ac \in Seq(Tokens)
    BY <2>1
  <2>4. Associates(h, a, c)
    BY <2>1, Association
  <2> HIDE DEF ac
  <2>5. Associates(h, ac, b)
    BY <2>1, <2>3, Association
  <2>6. rest = ac \o b /\ rest \in Seq(Tokens)
    BY <2>1, <2>2, <2>3
  <2>7. h \o rest = ((h \o a) \o c) \o b
    BY <2>4, <2>5, <2>6 DEF Associates, ac
  <2> QED
    BY <2>6, <2>7 DEF h, c
<1>8. info = Text!Info(Text!BalancedCommunity(sizes, shards))
  BY <1>4, <1>7
<1> HIDE DEF rest, parts
<1>9. Head(info) = head /\ Tail(info) = rest
  BY <1>2, <1>7
<1>10. info # <<hash>>
  <2>1. Head(<<hash>>) = hash
    OBVIOUS
  <2> QED
    BY <1>3, <1>9, <2>1
<1>11. Text!Parse(info) = ReadAs(info, rest, parts)
  BY <1>6, <1>9 DEF parts
<1> HIDE DEF info
<1>12. Len(parts) = 2 /\ parts[1] = a /\ parts[2] = b
  BY <1>5
<1>13. /\ Text!AreNumbers(a) /\ Text!Numbers(a) = sizes /\ Text!AreNumbers(b) /\ Text!Numbers(b) = shards
  BY <1>1
<1>14. ReadAs(info, rest, parts) = Text!BalancedCommunity(sizes, shards)
  BY <1>3, <1>9, <1>10, <1>12, <1>13 DEF ReadAs, head, hash, other
<1> QED
  BY <1>8, <1>11, <1>14

\* The text a snapshot keeps of a placement names it: read back, any placement
\* a graph accepts is the same again, whatever its sizes and shards.
THEOREM InfoIsRead ==
    ASSUME NEW p \in Text!Placements, NEW n, Text!Valid(p, n)
    PROVE  Text!Parse(Text!Info(p)) = p /\ p # Text!Unreadable
<1>1. CASE p = Text!Hash
  <2> DEFINE info == <<Text!Word("Hash")>>
  <2>1. Text!Info(p) = info
    BY <1>1 DEF Text!Info, Text!Hash
  <2>2. Text!Parse(info) = ReadAs(info, Tail(info), Text!Fields(Tail(info), ":"))
    BY ParseIs
  <2>3. \A rest, parts : ReadAs(info, rest, parts) = Text!Hash
    <3>1. Head(info) = Text!Word("Hash")
      OBVIOUS
    <3> QED
      BY <3>1, HeadsDiffer DEF ReadAs
  <2>4. Text!Hash # Text!Unreadable
    BY DEF Text!Hash, Text!Unreadable
  <2> QED
    BY <1>1, <2>1, <2>2, <2>3, <2>4
<1>2. CASE p \in [kind : {"Community"}, size : Nat]
  <2>1. p = Text!Community(p.size) /\ p.size \in Nat
    BY <1>2 DEF Text!Community
  <2>2. p # Text!Unreadable
    BY <1>2 DEF Text!Unreadable
  <2> QED
    BY <2>1, <2>2, CommunityInfo
<1>3. CASE p \in [kind : {"BalancedCommunity"}, sizes : Seq(Nat), shards : Seq(Nat)]
  <2>1. p = Text!BalancedCommunity(p.sizes, p.shards) /\ p.sizes \in Seq(Nat) /\ p.shards \in Seq(Nat)
    BY <1>3 DEF Text!BalancedCommunity
  <2>2. p # Text!Unreadable
    BY <1>3 DEF Text!Unreadable
  <2>3. p.sizes # <<>> /\ Len(p.sizes) = Len(p.shards)
    BY <1>3 DEF Text!Valid
  <2>4. p.shards # <<>>
    BY <2>1, <2>3, EmptySeq
  <2> QED
    BY <2>1, <2>2, <2>3, <2>4, BalancedInfo
<1> QED
  BY <1>1, <1>2, <1>3 DEF Text!Placements

-----------------------------------------------------------------------------
(* What a snapshot restores *)

\* Merging a list whose members are all there changes nothing.
LEMMA MergeAgain ==
    ASSUME NEW S, NEW old \in Seq(S), NEW new \in Seq(S), ToSet(new) \subseteq ToSet(old)
    PROVE  Merge(old, new) = old
<1> DEFINE M == Merged(old, new)
           n == Len(new)
           T == {k \in Nat : M[k] = old}
<1>1. n \in Nat /\ \A k \in 0 .. n - 1 : new[k + 1] \in ToSet(old)
  BY DEF ToSet
<1>2. M[0] = old /\ \A k \in 0 .. n - 1 : M[k + 1] = WithTarget(M[k], new[k + 1])
  BY <1>1, MergedSteps
<1>3. Merge(old, new) = M[n]
  BY MergeIsMerged
<1> HIDE DEF M, n
<1>4. 0 \in T
  BY <1>2
<1>5. ASSUME NEW k \in 0 .. n - 1, k \in T PROVE k + 1 \in T
  <2>1. M[k + 1] = WithTarget(old, new[k + 1]) /\ new[k + 1] \in ToSet(old)
    BY <1>1, <1>2, <1>5
  <2>2. M[k + 1] = old
    BY <2>1 DEF WithTarget
  <2> QED
    BY <1>1, <2>2
<1> HIDE DEF T
<1>6. n \in T
  <2>1. \A k \in 0 .. n : k \in T
    BY <1>1, <1>4, <1>5, InductionTo
  <2> QED
    BY <1>1, <2>1
<1> QED
  BY <1>3, <1>6 DEF T

ShardTotal == Cardinality(Shards)

\* What create_snapshot writes.
Shot ==
    [shard_count |-> ShardTotal,
     placement_info |-> Text!Info(ThePlacement),
     users |-> users,
     lists |-> [s \in Shards |-> [u \in users[s] |-> follows[s][u]]]]

LEMMA ShotFields ==
    /\ Shot.shard_count = ShardTotal /\ Shot.placement_info = Text!Info(ThePlacement)
    /\ Shot.users = users
    /\ \A s \in Shards : \A u \in users[s] : Shot.lists[s][u] = follows[s][u]
  BY DEF Shot

LEMMA ShardFacts ==
    /\ ShardTotal \in Nat /\ ShardTotal > 0
    /\ Shards = 0 .. ShardTotal - 1 /\ \A i \in 1 .. ShardTotal : i - 1 \in Shards
    /\ \A s \in Shards : s + 1 \in 1 .. ShardTotal /\ (s + 1) - 1 = s
    /\ \A u \in Users : Text!ShardFor(ThePlacement, ShardTotal, u) = Home[u]
<1>1. ShardTotal \in Nat
  BY SnapshotAssumption, FS_CardinalityType DEF ShardTotal
<1>2. ShardTotal > 0
  BY SnapshotAssumption DEF Text!Valid, ShardTotal
<1>3. Shards = 0 .. ShardTotal - 1
  BY SnapshotAssumption DEF ShardTotal
<1>4. \A u \in Users : Text!ShardFor(ThePlacement, ShardTotal, u) = Home[u]
  BY SnapshotAssumption DEF ShardTotal
<1> QED
  BY <1>1, <1>2, <1>3, <1>4

\* Reading one more shard.
ShardStep(u) ==
    [p \in Seq(Users) \X (1 .. ShardTotal) |->
        IF u \in users[p[2] - 1] THEN Merge(p[1], follows[p[2] - 1][u]) ELSE p[1]]

ShardList == [i \in 1 .. ShardTotal |-> i]

LEMMA ShardSteps ==
    ASSUME IInv, NEW u \in Users
    PROVE  /\ ShardStep(u) \in Steps(Seq(Users), 1 .. ShardTotal) /\ <<>> \in Seq(Users)
           /\ \A x \in Seq(Users), i \in 1 .. ShardTotal :
                  ShardStep(u)[<<x, i>>] =
                      IF u \in users[i - 1] THEN Merge(x, follows[i - 1][u]) ELSE x
           /\ ShardList \in Seq(1 .. ShardTotal) /\ ToSet(ShardList) = 1 .. ShardTotal
<1> DEFINE T == Seq(Users)
           V == 1 .. ShardTotal
<1>1. \A i \in V : i - 1 \in Shards /\ follows[i - 1][u] \in T
  BY ShardFacts DEF IInv, TypeOK
<1>2. \A p \in T \X V : p[1] \in T /\ p[2] \in V
  OBVIOUS
<1>3. \A x \in T, y \in T : Merge(x, y) \in T
  BY MergeFacts
<1> HIDE DEF V
<1>4. \A p \in T \X V : (IF u \in users[p[2] - 1] THEN Merge(p[1], follows[p[2] - 1][u]) ELSE p[1]) \in T
  BY <1>1, <1>2, <1>3
<1>5. ShardStep(u) = [p \in T \X V |-> IF u \in users[p[2] - 1] THEN Merge(p[1], follows[p[2] - 1][u]) ELSE p[1]]
  BY DEF ShardStep, V
<1>6. ShardStep(u) \in Steps(T, V)
  <2> HIDE DEF T
  <2> QED
    BY <1>4, <1>5 DEF Steps
<1>7. ASSUME NEW x \in T, NEW i \in V
      PROVE  ShardStep(u)[<<x, i>>] = IF u \in users[i - 1] THEN Merge(x, follows[i - 1][u]) ELSE x
  <2>1. <<x, i>> \in T \X V /\ <<x, i>>[1] = x /\ <<x, i>>[2] = i
    OBVIOUS
  <2> QED
    BY <1>5, <2>1
<1>8. ShardList \in Seq(V) /\ ToSet(ShardList) = V
  BY ShardFacts DEF ShardList, V, ToSet
<1>9. <<>> \in T
  OBVIOUS
<1> QED
  BY <1>6, <1>7, <1>8, <1>9 DEF V

LEMMA RestoredIsFold ==
    ASSUME IInv, NEW u \in Users
    PROVE  RestoredList(Shot, u) = FoldOf(ShardStep(u), <<>>, ShardList)
<1> DEFINE step == ShardStep(u)
           none == <<>>
           T == Seq(Users)
           V == 1 .. ShardTotal
           list == ShardList
           Eq(g) == g = [s \in SUBSET DOMAIN list |->
                            IF s = {} THEN none
                            ELSE IF u \in Shot.users[list[Max(s)] - 1]
                                 THEN Merge(g[s \ {Max(s)}], Shot.lists[list[Max(s)] - 1][u])
                                 ELSE g[s \ {Max(s)}]]
<1>1. step \in Steps(T, V) /\ none \in T /\ list \in Seq(V)
  BY ShardSteps
<1>2. \A x \in T, i \in V : step[<<x, i>>] = IF u \in Shot.users[i - 1] THEN Merge(x, Shot.lists[i - 1][u]) ELSE x
  <2>1. \A x \in T, i \in V : step[<<x, i>>] = IF u \in users[i - 1] THEN Merge(x, follows[i - 1][u]) ELSE x
    BY ShardSteps
  <2>2. \A i \in V : i - 1 \in Shards
    BY ShardFacts
  <2> HIDE DEF step, T, V
  <2> QED
    BY <2>1, <2>2, ShotFields
<1>0. RestoredList(Shot, u) = (CHOOSE g : Eq(g))[DOMAIN list]
  <2>1. Shot.shard_count = ShardTotal
    BY ShotFields
  <2>2. list = [i \in 1 .. Shot.shard_count |-> i]
    BY <2>1 DEF ShardList
  <2> HIDE DEF list
  <2> QED
    BY Zenon, <2>2 DEF RestoredList, FoldLeft, MapThenFoldSet, none
<1> HIDE DEF step, none, T, V, list
<1>3. \E g : Eq(g)
  <2>1. PICK g : /\ g = [s \in SUBSET DOMAIN list |-> g[s]]
                 /\ g[{}] = none
                 /\ FoldsUp(g, T, step, list)
                 /\ AllIn(g, T, list)
                 /\ \A s \in SUBSET DOMAIN list : s # {} => list[Max(s)] \in V
    BY <1>1, FoldExists
  <2>2. Eq(g)
    BY <1>2, <2>1 DEF FoldsUp, AllIn
  <2> QED
    BY <2>2
<1>4. ASSUME NEW g, Eq(g) PROVE g[DOMAIN list] = FoldOf(step, none, list)
  <2>1. g[{}] = none
    BY <1>4
  <2>2. \A s \in SUBSET DOMAIN list : s # {} => list[Max(s)] \in V
    BY <1>1, FoldExists
  <2>3. FoldsUp(g, T, step, list)
    BY <1>2, <1>4, <2>2 DEF FoldsUp
  <2> QED
    BY <1>1, <2>1, <2>3, FoldUnique
<1> HIDE DEF Eq
<1> QED
  BY <1>0, <1>1, <1>3, <1>4 DEF step, none, list

\* Whatever shards a known user is read from, it is the home list that is
\* rebuilt: each copy is that list, and the first is copied, the others repeat it.
LEMMA ListRestored ==
    ASSUME IInv, NEW u \in KnownUsers
    PROVE  RestoredList(Shot, u) = Following(u)
<1> DEFINE step == ShardStep(u)
           none == <<>>
           T == Seq(Users)
           V == 1 .. ShardTotal
           L == Following(u)
           F(l) == FoldOf(step, none, l)
           Good(l) == F(l) = IF \E i \in ToSet(l) : u \in users[i - 1] THEN L ELSE none
           W == {l \in Seq(V) : Good(l)}
<1>1. u \in Users /\ u \in Placed /\ Home[u] \in Shards /\ u \in users[Home[u]] /\ L \in T /\ IsInjective(L)
  BY HomeFacts DEF KnownUsers, Known, IInv, NoRepeats
<1>2. \A s \in Shards : u \in users[s] => follows[s][u] = L
  <2> SUFFICES ASSUME NEW s \in Shards, u \in users[s] PROVE follows[s][u] = L
    OBVIOUS
  <2>1. CASE s = Home[u]
    BY <1>1, <2>1, HomeFacts DEF IInv
  <2>2. CASE u \in replicated
    BY <2>2 DEF IInv, ReplicasMirrorHome
  <2>3. CASE s # Home[u] /\ u \notin replicated
    BY <1>1, <2>3 DEF IInv, NoLeftovers, ReplicaShards
  <2> QED
    BY <2>1, <2>2, <2>3
<1>3. Merge(none, L) = L /\ Merge(L, L) = L
  BY <1>1, MergeCopies, MergeAgain
<1>4. /\ step \in Steps(T, V) /\ none \in T /\ ShardList \in Seq(V) /\ ToSet(ShardList) = V
      /\ \A x \in T, i \in V : step[<<x, i>>] = IF u \in users[i - 1] THEN Merge(x, follows[i - 1][u]) ELSE x
  BY <1>1, ShardSteps
<1>5. /\ \A i \in V : i - 1 \in Shards
      /\ Home[u] + 1 \in V /\ (Home[u] + 1) - 1 = Home[u]
  BY <1>1, ShardFacts
<1>6. RestoredList(Shot, u) = F(ShardList)
  BY <1>1, RestoredIsFold
<1> HIDE DEF step, none, T, V, L
<1>7. <<>> \in W
  <2>1. <<>> \in Seq(V) /\ ToSet(<<>>) = {}
    BY DEF ToSet
  <2>2. F(<<>>) = none
    BY FoldOfEmpty
  <2> QED
    BY <2>1, <2>2
<1>8. ASSUME NEW front \in Seq(V), NEW i \in V, front \in W PROVE Append(front, i) \in W
  <2> DEFINE more == Append(front, i)
  <2>1. more \in Seq(V) /\ ToSet(more) = ToSet(front) \cup {i}
    BY AppendedSet
  <2>2. F(front) \in T /\ F(more) = step[<<F(front), i>>]
    BY <1>4, FoldOfAppend
  <2>3. F(more) = IF u \in users[i - 1] THEN Merge(F(front), follows[i - 1][u]) ELSE F(front)
    BY <1>4, <2>2
  <2>4. F(front) = IF \E k \in ToSet(front) : u \in users[k - 1] THEN L ELSE none
    BY <1>8
  <2> HIDE DEF more, F
  <2>5. CASE u \in users[i - 1]
    <3>1. follows[i - 1][u] = L
      BY <1>2, <1>5, <2>5
    <3>2. F(more) = L
      BY <1>3, <2>3, <2>4, <2>5, <3>1
    <3>3. \E k \in ToSet(more) : u \in users[k - 1]
      BY <2>1, <2>5
    <3> QED
      BY <2>1, <3>2, <3>3 DEF more
  <2>6. CASE u \notin users[i - 1]
    <3>1. (\E k \in ToSet(more) : u \in users[k - 1]) <=> (\E k \in ToSet(front) : u \in users[k - 1])
      BY <2>1, <2>6
    <3> QED
      BY <2>1, <2>3, <2>4, <2>6, <3>1 DEF more
  <2> QED
    BY <2>5, <2>6
<1>9. ShardList \in W
  <2> HIDE DEF W
  <2> QED
    BY <1>4, <1>7, <1>8, ListInduction
<1>10. \E i \in ToSet(ShardList) : u \in users[i - 1]
  BY <1>1, <1>4, <1>5
<1> QED
  BY <1>6, <1>9, <1>10 DEF L

\* The restored graph, were the snapshot of now restored.
LEMMA ShotRestores ==
    ASSUME IInv
    PROVE  /\ RestoredUsers(Shot, ThePlacement) = KnownUsers
           /\ [u \in Users |-> IF u \in KnownUsers THEN Kept(RestoredList(Shot, u), KnownUsers) ELSE <<>>]
                  = Lists
<1>1. RestoredUsers(Shot, ThePlacement) = KnownUsers
  <2>1. DOMAIN users = Shards /\ \A s \in Shards : users[s] \subseteq Users
    BY DEF IInv, TypeOK
  <2>2. RestoredUsers(Shot, ThePlacement) = {u \in UNION {users[s] : s \in Shards} : Home[u] # NoShard}
    BY <2>1, ShotFields, ShardFacts DEF RestoredUsers
  <2>3. ASSUME NEW u, NEW s \in Shards, u \in users[s], Home[u] # NoShard PROVE u \in KnownUsers
    <3>1. u \in Users /\ u \in Placed /\ Home[u] \in Shards
      BY <2>1, <2>3, HomeFacts DEF IInv, Placed
    <3>2. u \in users[Home[u]]
      BY <2>3, <3>1 DEF IInv, NoLeftovers, ReplicaShards, ReplicasMirrorHome
    <3> QED
      BY <3>1, <3>2 DEF KnownUsers, Known
  <2>4. ASSUME NEW u \in KnownUsers PROVE Home[u] \in Shards /\ u \in users[Home[u]] /\ Home[u] # NoShard
    BY HomeFacts DEF KnownUsers, Known, IInv, Placed
  <2> QED
    BY <2>2, <2>3, <2>4
<1>2. ASSUME NEW u \in KnownUsers PROVE Kept(RestoredList(Shot, u), KnownUsers) = Following(u)
  <2>1. RestoredList(Shot, u) = Following(u)
    BY ListRestored
  <2>2. u \in Placed /\ Following(u) \in Seq(Users)
    BY HomeFacts DEF KnownUsers, Known, IInv
  <2>3. ToSet(Following(u)) \subseteq KnownUsers
    <3>1. \A v \in ToSet(Following(u)) : v \in Users
      BY <2>2 DEF ToSet
    <3> QED
      BY <2>2, <3>1 DEF IInv, EdgesKnown, KnownUsers
  <2> QED
    BY <2>1, <2>2, <2>3, KeptFacts
<1>3. ASSUME NEW u \in Users, u \notin KnownUsers PROVE Following(u) = <<>>
  <2>1. CASE u \notin Placed
    BY <2>1 DEF Following
  <2>2. CASE u \in Placed
    <3>1. ToSet(Following(u)) = {} /\ Following(u) \in Seq(Users)
      BY <1>3, <2>2, HomeFacts DEF IInv, EdgesKnown, KnownUsers
    <3> QED
      BY <3>1 DEF ToSet
  <2> QED
    BY <2>1, <2>2
<1> QED
  BY <1>1, <1>2, <1>3 DEF Lists

-----------------------------------------------------------------------------
(* Restoring *)

\* What of a graph in the form Restore gives it the lookups see.
Rebuilt(s, p) ==
    [known |-> RestoredUsers(s, p),
     lists |-> [u \in Users |->
                   IF u \in RestoredUsers(s, p)
                   THEN Kept(RestoredList(s, u), RestoredUsers(s, p)) ELSE <<>>]]

\* What holds of the users and lists of a graph without replicas: users are
\* placed, only they have lists, and no list names a user twice.
PlainGraph(known, lists) ==
    /\ known \subseteq Placed /\ lists \in [Users -> Seq(Users)]
    /\ \A u \in Users : IsInjective(lists[u]) /\ (u \notin known => lists[u] = <<>>)

RestoredGraphs ==
    [kind : {"graph"}, shard_count : {ShardTotal}, placement : {ThePlacement},
     known : SUBSET Placed, replayed : Nat, lists : [Users -> Seq(Users)]]

\* A snapshot, once taken, is kept until it is restored, whatever becomes of the
\* graph: what it would restore is what the graph was.
SnapshotFaithful ==
    snapshot # None =>
        /\ recovered = None
        /\ snapshot.shard_count = ShardTotal
        /\ snapshot.placement_info = Text!Info(ThePlacement)
        /\ Rebuilt(snapshot, ThePlacement) = reference
        /\ PlainGraph(reference.known, reference.lists)

\* The restored graph, until operations are replayed on it.
RestoredFaithful ==
    recovered # None =>
        /\ recovered \in RestoredGraphs /\ PlainGraph(recovered.known, recovered.lists)
        /\ recovered.replayed = 0 =>
              recovered.known = reference.known /\ recovered.lists = reference.lists

RestoreInv == IInv /\ SnapshotFaithful /\ RestoredFaithful

LEMMA RestoreInvInit == SnapshotInit => RestoreInv
  BY InitIInv DEF SnapshotInit, RestoreInv, SnapshotFaithful, RestoredFaithful

\* A graph that is not a graph restored is None.
LEMMA NotNone == \A r \in RestoredGraphs : r # None /\ r.kind = "graph"
  BY DEF RestoredGraphs, None

\* Nothing of the persistence's own changes.
LEMMA SamePersistence ==
    ASSUME RestoreInv, UNCHANGED recoveryVars
    PROVE  SnapshotFaithful' /\ RestoredFaithful'
<1>1. snapshot' = snapshot /\ reference' = reference /\ recovered' = recovered
  BY DEF recoveryVars
<1>2. SnapshotFaithful'
  BY <1>1 DEF RestoreInv, SnapshotFaithful
<1>3. RestoredFaithful'
  BY <1>1 DEF RestoreInv, RestoredFaithful
<1> QED
  BY <1>2, <1>3

LEMMA StoringKeeps ==
    ASSUME RestoreInv, StoringCall, UNCHANGED recoveryVars
    PROVE  RestoreInv'
<1>1. AwareNext
  BY DEF StoringCall, AwareNext, CommonNext
<1>2. IInv'
  BY <1>1, StepIInv DEF RestoreInv
<1> QED
  BY <1>2, SamePersistence DEF RestoreInv

LEMMA UnchangedKeeps == IInv /\ UNCHANGED vars => IInv'
  BY StepIInv

LEMMA LooksPlain == IInv => PlainGraph(KnownUsers, Lists)
<1> SUFFICES ASSUME IInv PROVE PlainGraph(KnownUsers, Lists)
  OBVIOUS
<1>1. KnownUsers \subseteq Placed
  BY HomeFacts DEF KnownUsers, IInv
<1>2. ASSUME NEW u \in Users
      PROVE  /\ Following(u) \in Seq(Users) /\ IsInjective(Following(u))
             /\ u \notin KnownUsers => Following(u) = <<>>
  <2>1. CASE u \notin Placed
    BY <2>1 DEF Following, IsInjective
  <2>2. CASE u \in Placed
    <3>1. Following(u) \in Seq(Users) /\ IsInjective(Following(u))
      BY <2>2, HomeFacts DEF IInv, NoRepeats
    <3>2. u \notin KnownUsers => ToSet(Following(u)) = {}
      BY <2>2 DEF IInv, EdgesKnown, KnownUsers
    <3>3. ASSUME ToSet(Following(u)) = {} PROVE Following(u) = <<>>
      <4> DEFINE l == Following(u)
      <4>1. l \in Seq(Users) /\ ToSet(l) = {}
        BY <3>1, <3>3
      <4> HIDE DEF l
      <4>2. Len(l) = 0
        <5>1. Len(l) \in Nat /\ \A i \in 1 .. Len(l) : l[i] \in ToSet(l)
          BY <4>1 DEF ToSet
        <5>2. Len(l) # 0 => 1 \in 1 .. Len(l)
          BY <5>1
        <5> QED
          BY <4>1, <5>1, <5>2
      <4>3. l = <<>>
        BY <4>1, <4>2, EmptySeq
      <4> QED
        BY <4>3 DEF l
    <3> QED
      BY <3>1, <3>2, <3>3
  <2> QED
    BY <2>1, <2>2
<1> QED
  BY <1>1, <1>2 DEF PlainGraph, Lists

LEMMA CreateKeeps ==
    ASSUME RestoreInv, CreateSnapshot
    PROVE  RestoreInv'
<1> DEFINE seen == [known |-> KnownUsers, lists |-> Lists]
<1>1. IInv /\ IInv'
  BY UnchangedKeeps DEF RestoreInv, CreateSnapshot
<1>2. snapshot' = Shot /\ reference' = seen /\ recovered' = None
  BY DEF CreateSnapshot, Shot, ShardTotal
<1>3. Rebuilt(Shot, ThePlacement) = seen
  BY <1>1, ShotRestores DEF Rebuilt
<1>4. PlainGraph(seen.known, seen.lists)
  BY <1>1, LooksPlain
<1>5. Shot.shard_count = ShardTotal /\ Shot.placement_info = Text!Info(ThePlacement)
  BY ShotFields
<1> HIDE DEF seen
<1>6. SnapshotFaithful'
  BY <1>2, <1>3, <1>4, <1>5 DEF SnapshotFaithful
<1>7. RestoredFaithful'
  BY <1>2 DEF RestoredFaithful
<1> QED
  BY <1>1, <1>6, <1>7 DEF RestoreInv

LEMMA ThePlacementIsRead ==
    /\ Text!Parse(Text!Info(ThePlacement)) = ThePlacement /\ ThePlacement # Text!Unreadable
    /\ Text!Valid(ThePlacement, ShardTotal)
  BY SnapshotAssumption, InfoIsRead DEF ShardTotal

LEMMA RestoreKeeps ==
    ASSUME RestoreInv, Restore
    PROVE  RestoreInv'
<1>1. IInv /\ IInv'
  BY UnchangedKeeps DEF RestoreInv, Restore
<1>2. /\ snapshot # None /\ snapshot.shard_count = ShardTotal
      /\ snapshot.placement_info = Text!Info(ThePlacement)
      /\ Rebuilt(snapshot, ThePlacement) = reference
  BY DEF RestoreInv, SnapshotFaithful, Restore
<1>3. Text!Parse(snapshot.placement_info) = ThePlacement
      /\ ~(ThePlacement = Text!Unreadable \/ ~Text!Valid(ThePlacement, snapshot.shard_count))
  BY <1>2, ThePlacementIsRead
<1> DEFINE known == RestoredUsers(snapshot, ThePlacement)
           lists == [u \in Users |-> IF u \in known THEN Kept(RestoredList(snapshot, u), known) ELSE <<>>]
<1>4. recovered' = [kind |-> "graph", shard_count |-> snapshot.shard_count, placement |-> ThePlacement,
                    known |-> known, replayed |-> 0, lists |-> lists]
  BY Zenon, <1>3 DEF Restore
<1>5. reference.known = known /\ reference.lists = lists
  BY <1>2 DEF Rebuilt
<1>6. snapshot' = None /\ reference' = reference
  BY DEF Restore
<1> HIDE DEF known, lists
<1>7. PlainGraph(known, lists)
  BY <1>2, <1>5 DEF RestoreInv, SnapshotFaithful
<1> HIDE DEF known, lists
<1>8. /\ recovered' \in RestoredGraphs /\ recovered'.known = known /\ recovered'.lists = lists
  BY <1>2, <1>4, <1>7 DEF RestoredGraphs, PlainGraph
<1>9. RestoredFaithful'
  BY <1>5, <1>6, <1>7, <1>8 DEF RestoredFaithful
<1>10. SnapshotFaithful'
  BY <1>6 DEF SnapshotFaithful
<1> QED
  BY <1>1, <1>9, <1>10 DEF RestoreInv

Updated(r, known, n, lists) == [r EXCEPT !.known = known, !.replayed = n, !.lists = lists]

\* g is a restored graph with these users and lists.
IsGraph(g, known, n, lists) ==
    g \in RestoredGraphs /\ g.known = known /\ g.replayed = n /\ g.lists = lists

\* A restored graph with one operation more.
LEMMA ReplayedGraph ==
    ASSUME NEW r \in RestoredGraphs
    PROVE  /\ r.replayed \in Nat
           /\ \A known \in SUBSET Placed :
                  IsGraph([r EXCEPT !.known = known, !.replayed = @ + 1], known, r.replayed + 1, r.lists)
           /\ \A u \in Users, list \in Seq(Users) :
                  IsGraph([r EXCEPT !.lists[u] = list, !.replayed = @ + 1],
                          r.known, r.replayed + 1, [r.lists EXCEPT ![u] = list])
<1> DEFINE K == SUBSET Placed
           L == [Users -> Seq(Users)]
           S == {ShardTotal}
           P == {ThePlacement}
           G == {"graph"}
<1>1. RestoredGraphs = [kind : G, shard_count : S, placement : P, known : K, replayed : Nat, lists : L]
  BY DEF RestoredGraphs
<1>2. \A u \in Users, list \in Seq(Users) : [r.lists EXCEPT ![u] = list] \in L
  BY DEF RestoredGraphs
<1> HIDE DEF K, L, S, P, G
<1>3. r.replayed \in Nat /\ r.replayed + 1 \in Nat /\ r.known \in K /\ r.lists \in L
  BY <1>1
<1>4. ASSUME NEW k \in K, NEW n \in Nat, NEW l \in L
      PROVE  IsGraph(Updated(r, k, n, l), k, n, l)
  BY <1>1 DEF Updated, IsGraph
<1>5. ASSUME NEW k \in K
      PROVE  [r EXCEPT !.known = k, !.replayed = @ + 1] = Updated(r, k, r.replayed + 1, r.lists)
  BY <1>1 DEF Updated
<1>6. ASSUME NEW u \in Users, NEW list \in Seq(Users)
      PROVE  [r EXCEPT !.lists[u] = list, !.replayed = @ + 1] =
                 Updated(r, r.known, r.replayed + 1, [r.lists EXCEPT ![u] = list])
  BY <1>1 DEF Updated
<1>7. ASSUME NEW k \in K
      PROVE  IsGraph([r EXCEPT !.known = k, !.replayed = @ + 1], k, r.replayed + 1, r.lists)
  <2>1. IsGraph(Updated(r, k, r.replayed + 1, r.lists), k, r.replayed + 1, r.lists)
    BY <1>3, <1>4
  <2> QED
    BY Zenon, <1>5, <2>1
<1>8. ASSUME NEW u \in Users, NEW list \in Seq(Users)
      PROVE  IsGraph([r EXCEPT !.lists[u] = list, !.replayed = @ + 1],
                     r.known, r.replayed + 1, [r.lists EXCEPT ![u] = list])
  <2> DEFINE l == [r.lists EXCEPT ![u] = list]
  <2>1. l \in L
    BY <1>2
  <2>2. [r EXCEPT !.lists[u] = list, !.replayed = @ + 1] = Updated(r, r.known, r.replayed + 1, l)
    BY <1>6
  <2> HIDE DEF l
  <2>3. IsGraph(Updated(r, r.known, r.replayed + 1, l), r.known, r.replayed + 1, l)
    BY <1>3, <1>4, <2>1
  <2> QED
    BY Zenon, <2>2, <2>3 DEF l
<1> QED
  BY <1>3, <1>7, <1>8 DEF K

LEMMA ReplayKeeps ==
    ASSUME RestoreInv, Replay
    PROVE  RestoreInv'
<1> DEFINE r == recovered
<1>1. IInv /\ IInv'
  BY UnchangedKeeps DEF RestoreInv, Replay
<1>2. r # None /\ snapshot = None /\ snapshot' = None
  <2>1. r.kind = "graph" /\ snapshot' = snapshot
    BY DEF Replay, HasRecovered
  <2>2. r # None
    BY <2>1 DEF None
  <2>3. snapshot = None
    BY <2>2 DEF RestoreInv, SnapshotFaithful
  <2> QED
    BY <2>1, <2>2, <2>3
<1>3. r \in RestoredGraphs /\ PlainGraph(r.known, r.lists)
  BY <1>2 DEF RestoreInv, RestoredFaithful
<1>4. SnapshotFaithful'
  BY <1>2 DEF SnapshotFaithful
<1>5. ASSUME NEW u \in Users, Text!ShardFor(r.placement, r.shard_count, u) # NoShard,
             r' = [r EXCEPT !.known = @ \cup {u}, !.replayed = @ + 1]
      PROVE  r' \in RestoredGraphs /\ r'.replayed # 0 /\ PlainGraph(r'.known, r'.lists)
  <2>1. u \in Placed
    BY <1>3, <1>5, ShardFacts DEF RestoredGraphs, Placed
  <2>2. r' \in RestoredGraphs /\ r'.replayed = r.replayed + 1 /\ r'.known = r.known \cup {u} /\ r'.lists = r.lists
    <3>1. r.known \cup {u} \in SUBSET Placed
      BY <1>3, <2>1 DEF PlainGraph
    <3> QED
      BY <1>3, <1>5, <3>1, ReplayedGraph DEF IsGraph
  <2>3. r.replayed \in Nat
    BY <1>3 DEF RestoredGraphs
  <2>4. PlainGraph(r.known \cup {u}, r.lists)
    BY <1>3, <2>1 DEF PlainGraph
  <2> QED
    BY <2>2, <2>3, <2>4
<1>6. ASSUME NEW u \in r.known, NEW list \in Seq(Users), IsInjective(list),
             r' = [r EXCEPT !.lists[u] = list, !.replayed = @ + 1]
      PROVE  r' \in RestoredGraphs /\ r'.replayed # 0 /\ PlainGraph(r'.known, r'.lists)
  <2>1. u \in Users
    BY <1>3 DEF RestoredGraphs, Placed
  <2>2. /\ r' \in RestoredGraphs /\ r'.replayed = r.replayed + 1 /\ r'.known = r.known
        /\ r'.lists = [r.lists EXCEPT ![u] = list]
    <3>1. IsGraph([r EXCEPT !.lists[u] = list, !.replayed = @ + 1],
                  r.known, r.replayed + 1, [r.lists EXCEPT ![u] = list])
      BY <1>3, <2>1, ReplayedGraph
    <3> QED
      BY Zenon, <1>6, <3>1 DEF IsGraph
  <2>3. r.replayed \in Nat
    BY <1>3 DEF RestoredGraphs
  <2>4. PlainGraph(r.known, [r.lists EXCEPT ![u] = list])
    BY <1>3, <1>6, <2>1 DEF PlainGraph
  <2> QED
    BY <2>2, <2>3, <2>4
<1>7. ASSUME NEW u \in r.known, NEW v \in r.known
      PROVE  /\ WithTarget(r.lists[u], v) \in Seq(Users) /\ IsInjective(WithTarget(r.lists[u], v))
             /\ Without(r.lists[u], v) \in Seq(Users) /\ IsInjective(Without(r.lists[u], v))
  <2>1. u \in Users /\ v \in Users
    BY <1>3 DEF RestoredGraphs, Placed
  <2>2. r.lists[u] \in Seq(Users) /\ IsInjective(r.lists[u])
    BY <1>3, <2>1 DEF PlainGraph
  <2> QED
    BY <2>1, <2>2, WithTargetList, WithTargetInjective, WithoutList, WithoutInjective
<1>8. r' \in RestoredGraphs /\ r'.replayed # 0 /\ PlainGraph(r'.known, r'.lists)
  <2>1. CASE \E u \in Users :
                 /\ Text!ShardFor(r.placement, r.shard_count, u) # NoShard
                 /\ r' = [r EXCEPT !.known = @ \cup {u}, !.replayed = @ + 1]
    BY <1>5, <2>1
  <2>2. CASE \E u, v \in r.known :
                 \/ r' = [r EXCEPT !.lists[u] = WithTarget(@, v), !.replayed = @ + 1]
                 \/ r' = [r EXCEPT !.lists[u] = Without(@, v), !.replayed = @ + 1]
    <3>1. PICK u \in r.known, v \in r.known :
                 \/ r' = [r EXCEPT !.lists[u] = WithTarget(r.lists[u], v), !.replayed = @ + 1]
                 \/ r' = [r EXCEPT !.lists[u] = Without(r.lists[u], v), !.replayed = @ + 1]
      BY <2>2
    <3> QED
      BY <1>6, <1>7, <3>1
  <2> QED
    BY <2>1, <2>2 DEF Replay
<1>9. RestoredFaithful'
  BY <1>8 DEF RestoredFaithful
<1> QED
  BY <1>1, <1>4, <1>9 DEF RestoreInv

LEMMA RestoreInvStep ==
    RestoreInv /\ [RecoveryCall \/ (StoringCall /\ UNCHANGED recoveryVars)]_systemVars => RestoreInv'
<1> SUFFICES ASSUME RestoreInv, [RecoveryCall \/ (StoringCall /\ UNCHANGED recoveryVars)]_systemVars
             PROVE  RestoreInv'
  OBVIOUS
<1>1. CASE UNCHANGED systemVars
  <2>1. IInv' /\ UNCHANGED recoveryVars
    BY <1>1, UnchangedKeeps DEF systemVars, vars, recoveryVars, RestoreInv
  <2> QED
    BY <2>1, SamePersistence DEF RestoreInv
<1> QED
  BY <1>1, StoringKeeps, CreateKeeps, RestoreKeeps, ReplayKeeps DEF RecoveryCall

LEMMA FaithfulIsExact == RestoreInv => RestoreExact
<1> SUFFICES ASSUME RestoreInv PROVE RestoreExact
  OBVIOUS
<1>1. recovered.kind # "failed"
  BY NotNone DEF RestoreInv, RestoredFaithful, None
<1>2. ASSUME Restored
      PROVE  /\ recovered.known = reference.known /\ recovered.lists = reference.lists
             /\ recovered.shard_count = Cardinality(Shards)
             /\ \A u \in Users : Text!ShardFor(recovered.placement, recovered.shard_count, u) = Home[u]
  <2>1. recovered # None /\ recovered.replayed = 0
    BY <1>2 DEF Restored, HasRecovered, None
  <2>2. /\ recovered \in RestoredGraphs
        /\ recovered.known = reference.known /\ recovered.lists = reference.lists
    BY <2>1 DEF RestoreInv, RestoredFaithful
  <2>3. recovered.shard_count = ShardTotal /\ recovered.placement = ThePlacement
    BY <2>2 DEF RestoredGraphs
  <2> QED
    BY <2>2, <2>3, ShardFacts DEF ShardTotal
<1> QED
  BY <1>1, <1>2 DEF RestoreExact

\* A snapshot of a graph with any placement, replicas and users, taken at any
\* moment, is restored to what the graph answered then.
THEOREM RestoreIsExact == RecoverySpec => []RestoreExact
  BY RestoreInvInit, RestoreInvStep, FaithfulIsExact, PTL DEF RecoverySpec

-----------------------------------------------------------------------------
(* Verifying *)

\* Users outside the placement are stored nowhere.
OnlyPlaced ==
    \A s \in Shards :
        users[s] \subseteq Placed /\ \A u \in Users \ Placed : follows[s][u] = <<>>

LEMMA OnlyPlacedInit == Init => OnlyPlaced
  BY DEF Init, OnlyPlaced

LEMMA OnlyPlacedStep == IInv /\ OnlyPlaced /\ StoringCall => OnlyPlaced'
<1> SUFFICES ASSUME IInv, OnlyPlaced, StoringCall,
                    NEW s \in Shards
             PROVE  users'[s] \subseteq Placed /\ \A w \in Users \ Placed : follows'[s][w] = <<>>
  BY DEF OnlyPlaced, Placed
<1>1. /\ users \in [Shards -> SUBSET Users] /\ follows \in [Shards -> [Users -> Seq(Users)]]
      /\ users[s] \subseteq Placed /\ \A w \in Users \ Placed : follows[s][w] = <<>>
      /\ \A u : Known(u) => u \in Placed
      /\ replicated \subseteq Placed
  BY HomeFacts DEF IInv, TypeOK, OnlyPlaced
<1> DEFINE Moved(u) == \A w \in Users \ {u} : follows'[s][w] = follows[s][w]
<1>2. ASSUME NEW u \in Placed, Moved(u) PROVE \A w \in Users \ Placed : follows'[s][w] = <<>>
  BY <1>1, <1>2
<1>3. ASSUME NEW u \in Users, NewUser(u)
      PROVE  u \in Placed /\ users'[s] \subseteq users[s] \cup {u} /\ Moved(u)
  BY <1>1, <1>3 DEF NewUser
<1>4. ASSUME NEW u \in Users, ReplicateUser(u)
      PROVE  u \in Placed /\ users'[s] \subseteq users[s] \cup {u} /\ Moved(u)
  BY <1>1, <1>4 DEF ReplicateUser, Replicate
<1>5. ASSUME NEW u \in Users, UnreplicateUser(u)
      PROVE  u \in Placed /\ users'[s] \subseteq users[s] \cup {u} /\ Moved(u)
  BY <1>1, <1>5 DEF UnreplicateUser
<1>6. ASSUME NEW u \in Users, NEW v \in Users, AddFollowReplicated(u, v)
      PROVE  u \in Placed /\ users'[s] \subseteq users[s] \cup {u} /\ Moved(u)
  BY <1>1, <1>6 DEF AddFollowReplicated, Follow
<1>7. ASSUME NEW u \in Users, NEW v \in Users, RemoveFollowReplicated(u, v)
      PROVE  u \in Placed /\ users'[s] \subseteq users[s] \cup {u} /\ Moved(u)
  BY <1>1, <1>7 DEF RemoveFollowReplicated, Unfollow
<1>8. PICK u : u \in Placed /\ users'[s] \subseteq users[s] \cup {u} /\ Moved(u)
  BY Zenon, <1>3, <1>4, <1>5, <1>6, <1>7 DEF StoringCall
<1> QED
  BY <1>1, <1>2, <1>8

LEMMA TotalIsSum == \A f : Total(f) = SumOver(f, DOMAIN f)
  BY Zenon DEF Total, MapThenSumSet, MapThenFoldSet, SumOver, Sums

\* What recovering a graph without replicas compares.
LEMMA StoredAreKnown ==
    ASSUME IInv, OnlyPlaced, replicated = {}
    PROVE  /\ Apart(users, Shards)
           /\ UNION {users[s] : s \in Shards} = KnownUsers
           /\ \A u \in Placed : \A s \in Shards \ {Home[u]} : follows[s][u] = <<>>
<1>1. \A u \in Placed : \A s \in Shards \ {Home[u]} : u \notin users[s] /\ follows[s][u] = <<>>
  BY DEF IInv, NoLeftovers, ReplicaShards
<1>2. \A s \in Shards : users[s] \subseteq Placed
  BY DEF OnlyPlaced
<1>3. \A u \in Placed : u \in Users /\ Home[u] \in Shards
  BY HomeFacts DEF IInv
<1>4. Apart(users, Shards)
  BY <1>1, <1>2 DEF Apart
<1>5. UNION {users[s] : s \in Shards} = KnownUsers
  <2>1. ASSUME NEW s \in Shards, NEW u \in users[s] PROVE u \in KnownUsers
    <3>1. u \in Placed /\ s = Home[u]
      BY <1>1, <1>2
    <3> QED
      BY <1>3, <3>1 DEF KnownUsers, Known
  <2>2. ASSUME NEW u \in KnownUsers PROVE Home[u] \in Shards /\ u \in users[Home[u]]
    BY <1>3 DEF KnownUsers, Known
  <2> QED
    BY <2>1, <2>2
<1> QED
  BY <1>1, <1>4, <1>5

LEMMA UsersAreCounted ==
    ASSUME IInv, OnlyPlaced, replicated = {}
    PROVE  IsFiniteSet(KnownUsers) /\ UserCount = Cardinality(KnownUsers)
<1> DEFINE c == [s \in Shards |-> Cardinality(users[s])]
<1>1. /\ Apart(users, Shards) /\ UNION {users[s] : s \in Shards} = KnownUsers
      /\ IsFiniteSet(Shards) /\ IsFiniteSet(Users)
  BY StoredAreKnown, SnapshotAssumption
<1>2. \A s \in Shards : IsFiniteSet(users[s])
  BY <1>1, FS_Subset DEF IInv, TypeOK
<1>3. \A s \in Shards : c[s] = Cardinality(users[s])
  OBVIOUS
<1>4. UserCount = SumOver(c, Shards)
  BY TotalIsSum DEF UserCount
<1> HIDE DEF c
<1> DEFINE A == users
<1>5. /\ IsFiniteSet(UNION {A[s] : s \in Shards})
      /\ SumOver(c, Shards) = Cardinality(UNION {A[s] : s \in Shards})
  <2>1. (\A s \in Shards : IsFiniteSet(A[s])) /\ Apart(A, Shards) /\ \A s \in Shards : c[s] = Cardinality(A[s])
    BY <1>1, <1>2, <1>3
  <2> HIDE DEF A
  <2> QED
    BY <1>1, <2>1, UnionTotal
<1> QED
  BY <1>1, <1>4, <1>5

\* The lists of shard s, and those of users at home in one of the shards D,
\* by their lengths.
ShardLengths(s) == [u \in Users |-> Len(follows[s][u])]

HomeLengths(D) == [u \in Users |-> IF Home[u] \in D THEN Len(Following(u)) ELSE 0]

LEMMA EdgesAreCounted ==
    ASSUME IInv, OnlyPlaced, replicated = {}
    PROVE  EdgeCount = Total([u \in Users |-> Len(Following(u))])
<1>1. /\ \A u \in Placed : \A s \in Shards \ {Home[u]} : follows[s][u] = <<>>
      /\ \A s \in Shards : \A u \in Users \ Placed : follows[s][u] = <<>>
      /\ \A u \in Placed : Following(u) = follows[Home[u]][u]
      /\ \A u \in Users \ Placed : Following(u) = <<>> /\ Home[u] \notin Shards
      /\ \A u \in Users : Following(u) \in Seq(Users)
      /\ \A s \in Shards : \A u \in Users : follows[s][u] \in Seq(Users)
      /\ IsFiniteSet(Shards) /\ IsFiniteSet(Users)
  <2>1. \A u \in Users \ Placed : Following(u) = <<>> /\ Home[u] \notin Shards
    BY ShardedAssumption DEF Placed, Following
  <2>2. \A u \in Placed : Following(u) = follows[Home[u]][u] /\ Following(u) \in Seq(Users)
    BY HomeFacts DEF IInv
  <2>3. \A s \in Shards : \A u \in Users : follows[s][u] \in Seq(Users)
    BY DEF IInv, TypeOK
  <2>4. \A s \in Shards : \A u \in Users \ Placed : follows[s][u] = <<>>
    BY DEF OnlyPlaced
  <2>5. ASSUME NEW u \in Users PROVE Following(u) \in Seq(Users)
    <3>1. CASE u \notin Placed
      <4>1. Following(u) = <<>> /\ <<>> \in Seq(Users)
        BY <2>1, <3>1
      <4> QED
        BY Zenon, <4>1
    <3> QED
      BY <2>2, <3>1
  <2> QED
    BY <2>1, <2>2, <2>3, <2>4, <2>5, StoredAreKnown, SnapshotAssumption
<1>2. \A D : Valued(HomeLengths(D), Users)
  BY <1>1 DEF Valued, HomeLengths
<1>3. \A s \in Shards : Valued(ShardLengths(s), Users)
  BY <1>1 DEF Valued, ShardLengths
<1> DEFINE e == [s \in Shards |-> Total(ShardLengths(s))]
           Good(D) == SumOver(e, D) = SumOver(HomeLengths(D), Users)
           W == {D \in SUBSET Shards : Good(D)}
<1>4. \A s \in Shards : e[s] = SumOver(ShardLengths(s), Users) /\ e[s] \in Nat
  <2>1. ASSUME NEW s \in Shards PROVE Total(ShardLengths(s)) = SumOver(ShardLengths(s), Users)
    BY TotalIsSum DEF ShardLengths
  <2>2. ASSUME NEW s \in Shards PROVE SumOver(ShardLengths(s), Users) \in Nat
    BY <1>3, SumNat
  <2> QED
    BY <2>1, <2>2
<1>5. EdgeCount = SumOver(e, Shards)
  BY TotalIsSum DEF EdgeCount, ShardLengths
<1>6. Valued(e, Shards)
  BY <1>1, <1>4 DEF Valued
<1> HIDE DEF e
<1>7. {} \in W
  <2>1. \A u \in Users : HomeLengths({})[u] = 0
    BY DEF HomeLengths
  <2>2. SumOver(HomeLengths({}), Users) = 0
    BY <1>2, <2>1, SumZero
  <2> QED
    BY <2>2, SumEmpty
<1>8. ASSUME NEW D \in SUBSET Shards, NEW s \in Shards, D \in W, s \notin D PROVE D \cup {s} \in W
  <2>1. \A u \in Users : HomeLengths(D \cup {s})[u] = ShardLengths(s)[u] + HomeLengths(D)[u]
    <3> SUFFICES ASSUME NEW u \in Users
                 PROVE  HomeLengths(D \cup {s})[u] = ShardLengths(s)[u] + HomeLengths(D)[u]
      OBVIOUS
    <3>1. /\ HomeLengths(D \cup {s})[u] = IF Home[u] \in D \/ Home[u] = s THEN Len(Following(u)) ELSE 0
          /\ HomeLengths(D)[u] = IF Home[u] \in D THEN Len(Following(u)) ELSE 0
          /\ ShardLengths(s)[u] = Len(follows[s][u]) /\ Len(Following(u)) \in Nat
      BY <1>1 DEF HomeLengths, ShardLengths
    <3>2. CASE Home[u] = s
      <4>1. u \in Placed /\ Following(u) = follows[s][u]
        BY <1>1, <3>2
      <4> QED
        BY <1>8, <3>1, <3>2, <4>1
    <3>3. CASE Home[u] # s
      <4>1. follows[s][u] = <<>>
        BY <1>1, <3>3
      <4>2. Len(follows[s][u]) = 0
        BY <4>1
      <4> QED
        BY <3>1, <3>3, <4>2
    <3> QED
      BY <3>2, <3>3
  <2>2. SumOver(HomeLengths(D \cup {s}), Users) = SumOver(ShardLengths(s), Users) + SumOver(HomeLengths(D), Users)
    BY <1>2, <1>3, <2>1, SumPlus
  <2>3. SumOver(e, D \cup {s}) = e[s] + SumOver(e, D)
    <3> HIDE DEF W, Good
    <3>1. s \notin D
      BY <1>8
    <3> QED
      BY ONLY <1>6, <3>1, SumWith, s \in Shards, D \in SUBSET Shards
  <2>4. SumOver(e, D) = SumOver(HomeLengths(D), Users)
    BY <1>8
  <2>5. e[s] = SumOver(ShardLengths(s), Users)
    BY <1>4
  <2>6. Good(D \cup {s})
    BY <2>2, <2>3, <2>4, <2>5
  <2> HIDE DEF Good
  <2> QED
    BY <2>6
<1> HIDE DEF W
<1>9. Shards \in W
  BY <1>1, <1>7, <1>8, SetInduction
<1>10. SumOver(e, Shards) = SumOver(HomeLengths(Shards), Users)
  BY <1>9 DEF W
<1> DEFINE l == [u \in Users |-> Len(Following(u))]
<1>11. SameValues(HomeLengths(Shards), l, Users)
  <2>1. ASSUME NEW u \in Users PROVE HomeLengths(Shards)[u] = Len(Following(u))
    <3>1. CASE Home[u] \in Shards
      BY <3>1 DEF HomeLengths
    <3>2. CASE Home[u] \notin Shards
      <4>1. u \notin Placed
        BY <3>2, HomeFacts DEF IInv
      <4>2. Following(u) = <<>>
        BY <1>1, <4>1
      <4>3. Len(Following(u)) = 0
        BY <4>2
      <4> QED
        BY <3>2, <4>3 DEF HomeLengths
    <3> QED
      BY <3>1, <3>2
  <2> QED
    BY <2>1 DEF SameValues
<1>12. Total(l) = SumOver(l, Users)
  BY TotalIsSum
<1> HIDE DEF l
<1>13. SumOver(HomeLengths(Shards), Users) = SumOver(l, Users)
  BY <1>1, <1>2, <1>11, SumSame DEF Valued
<1> QED
  BY <1>5, <1>10, <1>12, <1>13 DEF l

LEMMA RecoveredFacts ==
    ASSUME RestoreInv, HasRecovered
    PROVE  /\ recovered.shard_count = Cardinality(Shards)
           /\ recovered.known \subseteq Placed /\ recovered.lists \in [Users -> Seq(Users)]
           /\ \A u \in Users : /\ IsInjective(recovered.lists[u])
                               /\ u \notin recovered.known => recovered.lists[u] = <<>>
<1>1. recovered # None
  BY DEF HasRecovered, None
<1>2. recovered \in RestoredGraphs /\ PlainGraph(recovered.known, recovered.lists)
  BY <1>1 DEF RestoreInv, RestoredFaithful
<1> QED
  BY <1>2 DEF RestoredGraphs, PlainGraph, ShardTotal

\* What verify_recovery accepts answers alike.
LEMMA VerifiedIsSame ==
    ASSUME RestoreInv, OnlyPlaced, HasRecovered, replicated = {}, VerifyRecovery
    PROVE  SameGraph
<1>1. IInv /\ IsFiniteSet(KnownUsers) /\ UserCount = Cardinality(KnownUsers)
      /\ UNION {users[s] : s \in Shards} = KnownUsers /\ IsFiniteSet(Users)
  BY UsersAreCounted, StoredAreKnown, SnapshotAssumption DEF RestoreInv
<1>2. /\ UserCount = Cardinality(recovered.known)
      /\ \A u \in KnownUsers : (Known(u) <=> u \in recovered.known)
                               /\ ToSet(Following(u)) = ToSet(recovered.lists[u])
  BY <1>1 DEF VerifyRecovery
<1>3. KnownUsers \subseteq recovered.known
  BY <1>2 DEF KnownUsers
<1>4. IsFiniteSet(recovered.known)
  BY <1>1, RecoveredFacts, FS_Subset DEF Placed
<1>5. recovered.known = KnownUsers
  <2> DEFINE k == KnownUsers
             r == recovered.known
  <2>1. k \subseteq r /\ IsFiniteSet(r) /\ Cardinality(k) = Cardinality(r)
    BY <1>1, <1>2, <1>3, <1>4
  <2> HIDE DEF k, r
  <2>2. r = k
    BY <2>1, FS_Subset
  <2> QED
    BY <2>2 DEF k, r
<1>6. ASSUME NEW u \in Users PROVE ToSet(recovered.lists[u]) = ToSet(Following(u))
  <2>1. CASE u \in KnownUsers
    BY <1>2, <2>1
  <2>2. CASE u \notin KnownUsers
    <3>1. recovered.lists[u] = <<>>
      BY <1>5, <2>2, RecoveredFacts
    <3>2. Following(u) = <<>>
      BY <1>1, <2>2, LooksPlain DEF PlainGraph, Lists
    <3> QED
      BY <3>1, <3>2
  <2> QED
    BY <2>1, <2>2
<1> QED
  BY <1>5, <1>6 DEF SameGraph

\* What answers alike is accepted.
LEMMA SameIsVerified ==
    ASSUME RestoreInv, OnlyPlaced, HasRecovered, replicated = {}, SameGraph
    PROVE  VerifyRecovery
<1>1. /\ IInv /\ UserCount = Cardinality(KnownUsers)
      /\ UNION {users[s] : s \in Shards} = KnownUsers
      /\ EdgeCount = Total([u \in Users |-> Len(Following(u))])
      /\ KnownUsers \subseteq Users
  BY UsersAreCounted, StoredAreKnown, EdgesAreCounted DEF RestoreInv, KnownUsers
<1>2. recovered.known = KnownUsers /\ \A u \in Users : ToSet(recovered.lists[u]) = ToSet(Following(u))
  BY DEF SameGraph
<1>3. ASSUME NEW u \in Users PROVE Len(Following(u)) = Len(recovered.lists[u])
  <2> DEFINE k == Following(u)
             r == recovered.lists[u]
  <2>1. k \in Seq(Users) /\ IsInjective(k) /\ r \in Seq(Users) /\ IsInjective(r) /\ ToSet(r) = ToSet(k)
    BY <1>1, <1>2, RecoveredFacts, LooksPlain DEF PlainGraph, Lists
  <2> HIDE DEF k, r
  <2>2. Cardinality(ToSet(k)) = Len(k) /\ Cardinality(ToSet(r)) = Len(r)
    BY <2>1, InjectiveLength
  <2>3. Len(k) = Len(r)
    BY <2>1, <2>2
  <2> QED
    BY <2>3 DEF k, r
<1>4. [u \in Users |-> Len(Following(u))] = [u \in Users |-> Len(recovered.lists[u])]
  BY <1>3
<1>5. EdgeCount = Total([u \in Users |-> Len(recovered.lists[u])])
  BY <1>1, <1>4
<1>6. \A u \in KnownUsers : Known(u)
  BY DEF KnownUsers
<1> QED
  BY <1>1, <1>2, <1>5, <1>6, RecoveredFacts DEF VerifyRecovery

VerifyInv == RestoreInv /\ OnlyPlaced

LEMMA VerifyInvStep ==
    VerifyInv /\ [RecoveryCall \/ (StoringCall /\ UNCHANGED recoveryVars)]_systemVars => VerifyInv'
<1> SUFFICES ASSUME VerifyInv, [RecoveryCall \/ (StoringCall /\ UNCHANGED recoveryVars)]_systemVars
             PROVE  VerifyInv'
  OBVIOUS
<1>1. RestoreInv'
  BY RestoreInvStep DEF VerifyInv
<1>2. StoringCall => OnlyPlaced'
  BY OnlyPlacedStep DEF VerifyInv, RestoreInv
<1>3. UNCHANGED vars => OnlyPlaced'
  BY DEF vars, OnlyPlaced, VerifyInv, Placed
<1>4. RecoveryCall \/ UNCHANGED systemVars => UNCHANGED vars
  BY DEF RecoveryCall, CreateSnapshot, Restore, Replay, systemVars, vars
<1>5. OnlyPlaced'
  BY <1>2, <1>3, <1>4
<1> QED
  BY <1>1, <1>5 DEF VerifyInv

LEMMA VerifyInvInit == SnapshotInit => VerifyInv
  BY RestoreInvInit, OnlyPlacedInit DEF SnapshotInit, VerifyInv

LEMMA VerifiesSame == VerifyInv => VerifyDecides
  BY VerifiedIsSame, SameIsVerified DEF VerifyInv, VerifyDecides

\* For a graph without replicas, verify_recovery accepts a recovered graph, also
\* one that operations were replayed on, exactly when it answers every lookup as
\* the graph does: counts of users and edges and the comparison of the users
\* stored decide as much as comparing the two graphs would.
THEOREM VerifyDecidesExactly == RecoverySpec => []VerifyDecides
  BY VerifyInvInit, VerifyInvStep, VerifiesSame, PTL DEF RecoverySpec
==============================================================================
