--------------------------- MODULE MCIdLruSimulator ---------------------------
(* Instances of IdLruSimulator, and of the cache under it, for TLC. *)
EXTENDS IdLruSimulator

\* An empty list, one of two users, and one of six, too large for the cache.
MCLists == {<<>>, <<1, 2>>, <<1, 2, 3, 4, 5, 6>>}

\* Users are only compared for equality.
UserSymmetry == Permutations(CacheUsers)
=============================================================================
