------------------------------- MODULE Metrics ------------------------------
(***************************************************************************)
(* The percentiles of MetricsCollector (crates/hyperbox-server/src/        *)
(* metrics.rs): the latencies are sorted and one is picked by its rank.    *)
(***************************************************************************)
EXTENDS Naturals, FiniteSets, Sequences, SequencesExt

Sorted(values) == SortSeq(values, LAMBDA a, b : a < b)

\* div_ceil(100), and one less unless it is zero.
Rank(count, p) ==
    LET ceiling == (count * p + 99) \div 100 IN IF ceiling = 0 THEN 0 ELSE ceiling - 1

Percentile(values, p) == IF values = <<>> THEN 0 ELSE values[Rank(Len(values), p) + 1]

Snapshot(latencies) ==
    [p50 |-> Percentile(Sorted(latencies), 50), p95 |-> Percentile(Sorted(latencies), 95)]

-----------------------------------------------------------------------------
\* The nearest-rank definition: the least of the values that at least p percent of them
\* are not above.
IsPercentile(v, values, p) ==
    LET atMost(w) == Cardinality({i \in DOMAIN values : values[i] <= w})
    IN  /\ \E i \in DOMAIN values : values[i] = v
        /\ atMost(v) * 100 >= p * Len(values)
        /\ \A i \in DOMAIN values : values[i] < v => atMost(values[i]) * 100 < p * Len(values)

\* A percentile of the latencies is one of them, for every percentage and from one value
\* on, and fifty and ninety-five percent are what the snapshot reports.
PercentilesAreRanked(n, most) ==
    \A values \in UNION {[1 .. k -> 1 .. most] : k \in 1 .. n} :
        /\ \A p \in {0, 1, 33, 34, 50, 95, 99, 100} :
              IsPercentile(Percentile(Sorted(values), p), values, p)
        /\ IsPercentile(Snapshot(values).p50, values, 50)
        /\ IsPercentile(Snapshot(values).p95, values, 95)
=============================================================================
