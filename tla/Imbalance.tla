------------------------------ MODULE Imbalance -------------------------------
(***************************************************************************)
(* The arithmetic of src/rebalance.rs on the number of users per shard.  The *)
(* code compares f64 values (percentages of the average load); the same     *)
(* comparisons are made here on integers, without rounding.  Rounding could *)
(* only tip a comparison of equal values, which it does for none of the     *)
(* thresholds and counts of the runs (at 50 percent it would).              *)
(***************************************************************************)
EXTENDS Integers, FiniteSets, FiniteSetsExt

TotalOf(counts) == MapThenSumSet(LAMBDA s : counts[s], DOMAIN counts)

MostLoaded(counts) == Max({counts[s] : s \in DOMAIN counts})

\* compute_imbalance(counts) <= percent: by how much the fullest shard exceeds
\* the average; zero when there are no users.
ImbalanceAtMost(counts, percent) ==
    LET total == TotalOf(counts)
    IN IF total = 0 THEN 0 <= percent
       ELSE 100 * (MostLoaded(counts) * Cardinality(DOMAIN counts) - total) <= percent * total

\* counts[s] > average * 1.1
Overloaded(counts, s) == 10 * counts[s] * Cardinality(DOMAIN counts) > 11 * TotalOf(counts)

\* (average * 1.05) as usize
Ceiling(counts) == (105 * TotalOf(counts)) \div (100 * Cardinality(DOMAIN counts))

\* The first of the shards with the fewest users.
FindLeastLoaded(counts) ==
    CHOOSE s \in DOMAIN counts :
        \A t \in DOMAIN counts : counts[s] < counts[t] \/ (counts[s] = counts[t] /\ s <= t)
=============================================================================
