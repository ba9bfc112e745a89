------------------------------ MODULE Metrics ------------------------------
(***************************************************************************)
(* The latency histogram of internal/observability/metrics.go: how it is   *)
(* filled, and how its bounds are rendered.  Times are in milliseconds.    *)
(***************************************************************************)
EXTENDS Naturals, Sequences

\* Five milliseconds to ten seconds.
DurationBuckets == <<5, 10, 25, 50, 100, 250, 500, 1000, 2500, 5000, 10000>>

EmptyHistogram == [count |-> 0, sum |-> 0, buckets |-> [i \in DOMAIN DurationBuckets |-> 0]]

\* Mutant: only the smallest bucket that fits is incremented.
Observed_NotCumulative(histogram, d) ==
    [count   |-> histogram.count + 1,
     sum     |-> histogram.sum + d,
     buckets |-> [i \in DOMAIN DurationBuckets |->
        histogram.buckets[i] +
            IF d <= DurationBuckets[i] /\ (i = 1 \/ d > DurationBuckets[i - 1]) THEN 1 ELSE 0]]

\* ObserveRequestDuration: every bucket whose bound is not exceeded counts.
Observed(histogram, d) ==
    [count   |-> histogram.count + 1,
     sum     |-> histogram.sum + d,
     buckets |-> [i \in DOMAIN DurationBuckets |->
        histogram.buckets[i] + IF d <= DurationBuckets[i] THEN 1 ELSE 0]]

\* Trailing zeros go, be they behind a decimal point or not.
Trimmed[n \in Nat] == IF n > 0 /\ n % 10 = 0 THEN Trimmed[n \div 10] ELSE n

\* formatLe, as the number of milliseconds its text denotes: a bound with a
\* fraction keeps its value, a whole number of seconds is read anew.
FormatLe(bound) == IF bound % 1000 = 0 THEN 1000 * Trimmed[bound \div 1000] ELSE bound

\* The values of `le` in what WritePrometheus prints for a histogram.
RenderedBounds == {FormatLe(DurationBuckets[i]) : i \in DOMAIN DurationBuckets}
=============================================================================
