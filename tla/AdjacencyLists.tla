--------------------------- MODULE AdjacencyLists ----------------------------
(***************************************************************************)
(* What the methods of Graph (src/lib.rs) do to an adjacency list: a list  *)
(* of followed users, in the order the edges were added, without            *)
(* duplicates.                                                             *)
(***************************************************************************)
EXTENDS Naturals, SequencesExt

\* add_follow_unchecked: a target already listed is not pushed again.
WithTarget(list, v) == IF v \in ToSet(list) THEN list ELSE Append(list, v)

\* remove_follow_unchecked: the others keep their order.
Without(list, v) ==
    LET p == CHOOSE i \in DOMAIN list : list[i] = v
    IN IF v \in ToSet(list)
       THEN [i \in 1 .. Len(list) - 1 |-> list[IF i < p THEN i ELSE i + 1]]
       ELSE list

\* add_follow_unchecked for each target of `new', in order.
Merge(old, new) ==
    LET merged[i \in 0 .. Len(new)] ==
            IF i = 0 THEN old ELSE WithTarget(merged[i - 1], new[i])
    IN merged[Len(new)]

\* Mutant of Minus: the user is removed first, so that nothing else can be.
MinusAfterUser(list, targets) == list

\* remove_follow_unchecked for each of the targets, in order.
Minus(list, targets) ==
    LET left[i \in 0 .. Len(targets)] ==
            IF i = 0 THEN list ELSE Without(left[i - 1], targets[i])
    IN left[Len(targets)]

\* The members of S in a list, in its order; the others are passed over.
Kept(list, S) == FoldLeft(LAMBDA kept, v : IF v \in S THEN Append(kept, v) ELSE kept, <<>>, list)

\* get_two_hop_ids over the lists of f: u is never in its own answer.
TwoHop(f, u) == (UNION {ToSet(f[v]) : v \in ToSet(f[u])}) \ {u}
=============================================================================
