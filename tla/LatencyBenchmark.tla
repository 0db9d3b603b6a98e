--------------------------- MODULE LatencyBenchmark ----------------------------
(***************************************************************************)
(* benchmark_two_hop_latencies and summarize_latencies                     *)
(* (src/distributed_latency.rs): each source is queried directly and        *)
(* batched, repetition after repetition, and the order of the two changes   *)
(* from one pair to the next.  Samples are kept as the number of calls that *)
(* took each time: sorting forgets the rest.                                *)
(***************************************************************************)
EXTENDS Integers, SequencesExt

CONSTANTS Durations,      \* what a call may take
          MaxSources,     \* bounds of the model: sources
          MaxRepetitions  \* and repetitions

VARIABLES sources, repetitions,  \* arguments of the call
          pair,                  \* pairs of queries done: repetition * sources + source_index
          started,               \* the first strategy of the pair under way, or None
          samples,               \* samples[strategy][d]: its calls that took d
          firsts,                \* firsts[strategy][i]: pairs of source i it began; no code reads it
          phase

vars == <<sources, repetitions, pair, started, samples, firsts, phase>>

Strategies == {"direct", "batched"}

None == "none"

Init ==
    /\ sources \in 0 .. MaxSources
    /\ repetitions \in 0 .. MaxRepetitions
    /\ pair = 0
    /\ started = None
    /\ samples = [s \in Strategies |-> [d \in Durations |-> 0]]
    /\ firsts = [s \in Strategies |-> [i \in 0 .. sources - 1 |-> 0]]
    /\ phase = "called"

Refuse ==
    /\ phase = "called"
    /\ sources = 0 \/ repetitions = 0
    /\ phase' = "refused"
    /\ UNCHANGED <<sources, repetitions, pair, started, samples, firsts>>

Begin ==
    /\ phase = "called"
    /\ sources > 0 /\ repetitions > 0
    /\ phase' = "measuring"
    /\ UNCHANGED <<sources, repetitions, pair, started, samples, firsts>>

Repetition == pair \div sources

SourceIndex == pair % sources

\* Mutant of First: the order only depends on the source.
FirstBySource == IF SourceIndex % 2 = 0 THEN "direct" ELSE "batched"

First == IF (Repetition + SourceIndex) % 2 = 0 THEN "direct" ELSE "batched"

Took(strategy, d) == [samples EXCEPT ![strategy][d] = @ + 1]

MeasureFirst(d) ==
    /\ phase = "measuring" /\ started = None /\ pair < sources * repetitions
    /\ samples' = Took(First, d)
    /\ firsts' = [firsts EXCEPT ![First][SourceIndex] = @ + 1]
    /\ started' = First
    /\ UNCHANGED <<sources, repetitions, pair, phase>>

MeasureSecond(d) ==
    /\ phase = "measuring" /\ started # None
    /\ \E strategy \in Strategies \ {started} : samples' = Took(strategy, d)
    /\ started' = None
    /\ pair' = pair + 1
    /\ UNCHANGED <<sources, repetitions, firsts, phase>>

\* A query fails, and the benchmark returns its error.
QueryFails ==
    /\ phase = "measuring" /\ pair < sources * repetitions
    /\ phase' = "failed"
    /\ UNCHANGED <<sources, repetitions, pair, started, samples, firsts>>

Summarize ==
    /\ phase = "measuring" /\ pair = sources * repetitions
    /\ phase' = "summarized"
    /\ UNCHANGED <<sources, repetitions, pair, started, samples, firsts>>

Next ==
    \/ Refuse \/ Begin
    \/ \E d \in Durations : MeasureFirst(d) \/ MeasureSecond(d)
    \/ QueryFails \/ Summarize

Spec == Init /\ [][Next]_vars

-----------------------------------------------------------------------------
(* summarize_latencies *)

Count(bag) == FoldFunction(LAMBDA n, sum : n + sum, 0, bag)

AtMost(bag, d) == FoldFunctionOnSet(LAMBDA n, sum : n + sum, 0, bag, {e \in Durations : e <= d})

\* The sample at position k, from 1, of the sorted samples.
SampleAt(bag, k) == CHOOSE d \in Durations : bag[d] > 0 /\ k <= AtMost(bag, d) /\ AtMost(bag, d) - bag[d] < k

\* Mutant of NearestRank: the rank is rounded down.
NearestRankDown(bag, percentile) ==
    LET rank == (percentile * Count(bag)) \div 100
    IN SampleAt(bag, IF rank = 0 THEN 1 ELSE rank)

\* nearest_rank
NearestRank(bag, percentile) ==
    LET rank == (percentile * Count(bag) + 99) \div 100
    IN SampleAt(bag, IF rank = 0 THEN 1 ELSE rank)

-----------------------------------------------------------------------------
(* Properties *)

\* "Alternate execution order to reduce systematic bias": over the whole
\* benchmark, and for each source, either strategy began as often as the other,
\* give or take one pair.
OrderUnbiased ==
    /\ Count(firsts["direct"]) - Count(firsts["batched"]) \in -1 .. 1
    /\ \A i \in 0 .. sources - 1 : firsts["direct"][i] - firsts["batched"][i] \in -1 .. 1

\* Each query of each strategy has left one sample, and no summary is made of
\* part of them.
SamplesComplete ==
    phase = "summarized" =>
        \A s \in Strategies : Count(samples[s]) = sources * repetitions

\* A percentile is the least time that at least that share of the samples does
\* not exceed.
PercentilesCorrect ==
    phase = "summarized" =>
        \A s \in Strategies, percentile \in {50, 95, 99} :
            LET enough == {d \in Durations : 100 * AtMost(samples[s], d) >= percentile * Count(samples[s])}
            IN /\ NearestRank(samples[s], percentile) \in enough
               /\ \A d \in enough : NearestRank(samples[s], percentile) <= d
=============================================================================
