------------------------------ MODULE Histogram -----------------------------
(***************************************************************************)
(* The latency histogram of the benchmark tool.  A value has ValueBits     *)
(* bits (64 in the code); below 2^LinearBits (2^8) it is counted exactly,  *)
(* and every octave above has half that many buckets.  A quantile is a     *)
(* fraction <<num, den>>; the rounding of floating point is left out.      *)
(***************************************************************************)
EXTENDS Integers, Sequences, FiniteSets, SequencesExt

CONSTANTS LinearBits, ValueBits

linearLimit == 2^LinearBits
subBuckets == 2^(LinearBits - 1)
bucketCount == linearLimit + (ValueBits - LinearBits) * subBuckets
MaxSample == 2^ValueBits - 1
Buckets == 0..(bucketCount - 1)

\* bits.Len64(v) - 1
Msb(v) == CHOOSE m \in 0..ValueBits : 2^m <= v /\ v < 2^(m + 1)

indexOfUnmasked(v) ==
  IF v < linearLimit THEN v
  ELSE linearLimit + (Msb(v) - LinearBits) * subBuckets + (v % subBuckets)

indexOf(v) ==
  IF v < linearLimit THEN v
  ELSE LET shift == Msb(v) - (LinearBits - 1)
       IN  linearLimit + (Msb(v) - LinearBits) * subBuckets + ((v \div 2^shift) % subBuckets)

valueOf(i) ==
  LET rel == i - linearLimit
      shift == (rel \div subBuckets) + 1
  IN  IF i < linearLimit THEN i ELSE (subBuckets + (rel % subBuckets)) * 2^shift

NewHistogram == [counts |-> [i \in Buckets |-> 0], total |-> 0, sum |-> 0, min |-> MaxSample, max |-> 0]

Least(a, b) == IF a < b THEN a ELSE b
Most(a, b) == IF a > b THEN a ELSE b

Observe(h, ns) == [counts |-> [h.counts EXCEPT ![indexOf(ns)] = @ + 1], total |-> h.total + 1,
                   sum |-> h.sum + ns, min |-> Least(ns, h.min), max |-> Most(ns, h.max)]
RecordDuration(h, d) == Observe(h, IF d < 0 THEN 0 ELSE d)

MergeKeepsMin(h, other) ==
  [counts |-> [i \in Buckets |-> h.counts[i] + other.counts[i]],
   total |-> h.total + other.total, sum |-> h.sum + other.sum,
   min |-> h.min, max |-> IF other.total > 0 THEN Most(other.max, h.max) ELSE h.max]

Merge(h, other) ==
  [counts |-> [i \in Buckets |-> h.counts[i] + other.counts[i]],
   total |-> h.total + other.total, sum |-> h.sum + other.sum,
   min |-> IF other.total > 0 THEN Least(other.min, h.min) ELSE h.min,
   max |-> IF other.total > 0 THEN Most(other.max, h.max) ELSE h.max]

Ceil(q, n) == (q[1] * n + q[2] - 1) \div q[2]

\* The pass over the buckets of Quantile: the first that brings the count to
\* `want'.
ReachesPast(seen, want) == seen > want
ReachesWant(seen, want) == seen >= want

Quantile(h, q) ==
  LET seen[i \in Buckets] == h.counts[i] + (IF i = 0 THEN 0 ELSE seen[i - 1])
      at == {i \in Buckets : h.counts[i] > 0 /\ ReachesWant(seen[i], Ceil(q, h.total))}
  IN  CASE h.total = 0 -> 0
        [] h.total > 0 /\ q[1] <= 0 -> h.min
        [] h.total > 0 /\ q[1] >= q[2] -> h.max
        [] OTHER -> IF at = {} THEN h.max ELSE valueOf(CHOOSE i \in at : \A j \in at : i <= j)

\* All of them in one pass: `sorted' is ascending, and a bucket answers every
\* target it reaches that no earlier bucket answered.
Quantiles(h, sorted) ==
  LET target(j) == Most(Ceil(sorted[j], h.total), 1)
      bucket(d, i) ==
        LET seen == d.seen + h.counts[i]
            reached == {j \in 1..Len(sorted) : target(j) <= seen}
        IN  IF h.counts[i] = 0 THEN d
            ELSE [seen |-> seen,
                  out |-> d.out \o [k \in 1..(Cardinality(reached) - Len(d.out)) |-> valueOf(i)]]
      d == FoldLeft(bucket, [seen |-> 0, out |-> <<>>], [i \in 1..bucketCount |-> i - 1])
  IN  IF h.total = 0 THEN [j \in 1..Len(sorted) |-> 0]
      ELSE d.out \o [j \in 1..(Len(sorted) - Len(d.out)) |-> h.max]
=============================================================================
