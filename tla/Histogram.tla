------------------------------ MODULE Histogram -----------------------------
(***************************************************************************)
(* fibre_stats's histogram of durations (stats/src/histogram.rs), with     *)
(* words of WordBits bits for the code's 64.  Two histograms are filled    *)
(* and merged either way; beside each the values that went into it are     *)
(* kept, which is what its answers are judged by.  A histogram's sorted    *)
(* list of buckets is a function from the indexes it holds to counts.      *)
(***************************************************************************)
EXTENDS Integers, FiniteSets, FiniteSetsExt, Sequences, SequencesExt

CONSTANTS WordBits,
          FirstValues, MoreValues,  \* what the first and the later recordings may be
          MaxValues                 \* how many recordings the two take

VARIABLES hist, seen
vars == <<hist, seen>>

SubBucketBits == 3
SubBuckets == 2 ^ SubBucketBits
MaxWord == 2 ^ WordBits - 1
Saturate(n) == Min({n, MaxWord})

(* 63 - leading_zeros *)
Octave(ns) == CHOOSE o \in 0 .. WordBits - 1 : 2 ^ o <= ns /\ ns < 2 ^ (o + 1)

MutBucketIndex(ns) ==
  IF ns < SubBuckets THEN ns
  ELSE Octave(ns) * SubBuckets + ((ns \div 2 ^ (Octave(ns) - 2)) % SubBuckets)
bucket_index(ns) ==
  IF ns < SubBuckets THEN ns
  ELSE Octave(ns) * SubBuckets + ((ns \div 2 ^ (Octave(ns) - SubBucketBits)) % SubBuckets)

(* the inclusive bounds of a bucket *)
bucket_bounds(index) ==
  LET octave == index \div SubBuckets
      shift  == octave - SubBucketBits
      lower  == (SubBuckets + (index % SubBuckets)) * 2 ^ shift
  IN  IF index < SubBuckets THEN <<index, index>>
      ELSE IF octave < SubBucketBits THEN <<0, 0>>
      ELSE <<lower, lower + 2 ^ shift - 1>>

New == [count |-> 0, sum |-> 0, min |-> 0, max |-> 0, buckets |-> [i \in {} |-> 0]]

At(buckets, i) == IF i \in DOMAIN buckets THEN buckets[i] ELSE 0

add_ns(h, ns) ==
  LET index == bucket_index(ns)
  IN  [count |-> h.count + 1, sum |-> Saturate(h.sum + ns),
       min |-> IF h.count = 0 THEN ns ELSE Min({h.min, ns}),
       max |-> IF h.count = 0 THEN ns ELSE Max({h.max, ns}),
       buckets |-> [i \in DOMAIN h.buckets \cup {index} |->
                      IF i = index THEN At(h.buckets, i) + 1 ELSE h.buckets[i]]]

merge(h, other) ==
  IF other.count = 0 THEN h
  ELSE IF h.count = 0 THEN other
  ELSE [count |-> h.count + other.count, sum |-> Saturate(h.sum + other.sum),
        min |-> Min({h.min, other.min}), max |-> Max({h.max, other.max}),
        buckets |-> [i \in DOMAIN h.buckets \cup DOMAIN other.buckets |-> At(h.buckets, i) + At(other.buckets, i)]]

(* the rank quantile num/den asks for: at least one, rounded up *)
Rank(count, num, den) == Max({(num * count + den - 1) \div den, 1})
SeenUpTo(h, index) == FoldSet(LAMBDA i, s : s + h.buckets[i], 0, {i \in DOMAIN h.buckets : i <= index})

(* the midpoint of the first bucket that reaches the rank, clamped *)
quantile(h, num, den) ==
  LET rank  == Rank(h.count, num, den)
      index == Min({i \in DOMAIN h.buckets : SeenUpTo(h, i) >= rank})
      b     == bucket_bounds(index)
      mid   == b[1] + (b[2] - b[1]) \div 2
  IN  IF rank >= h.count THEN h.max ELSE Max({h.min, Min({h.max, mid})})

-----------------------------------------------------------------------------
Sides == {1, 2}
Init == hist = [s \in Sides |-> New] /\ seen = [s \in Sides |-> <<>>]

Add(s) ==
  /\ Len(seen[1]) + Len(seen[2]) < MaxValues
  /\ \E ns \in (IF hist = [r \in Sides |-> New] THEN FirstValues ELSE MoreValues) :
       hist' = [hist EXCEPT ![s] = add_ns(@, ns)] /\ seen' = [seen EXCEPT ![s] = SortSeq(Append(@, ns), <)]

(* one side takes in the other, which starts anew *)
Merge(s) ==
  LET r == 3 - s
  IN  /\ hist' = [hist EXCEPT ![s] = merge(@, hist[r]), ![r] = New]
      /\ seen' = [seen EXCEPT ![s] = SortSeq(@ \o seen[r], <), ![r] = <<>>]

Next == \E s \in Sides : Add(s) \/ Merge(s)
Spec == Init /\ [][Next]_vars

-----------------------------------------------------------------------------
Quantiles == {<<0, 1>>, <<1, 2>>, <<9, 10>>, <<1, 1>>}
Apart(a, b) == IF a > b THEN a - b ELSE b - a

(* Whatever was recorded on whichever side and merged in whichever order,  *)
(* a histogram holds every value in the bucket whose bounds contain it,    *)
(* knows the exact count, sum (up to saturation) and extremes, and a       *)
(* quantile it reads back is within 6.25% of the recorded value it is for. *)
HistogramFaithful ==
  \A s \in Sides :
    LET h == hist[s]
        v == seen[s]
        n == Len(v)
    IN  /\ h.count = n
        /\ h.sum = Saturate(FoldSeq(LAMBDA x, sum : sum + x, 0, v))
        /\ (n > 0 => h.min = v[1] /\ h.max = v[n])
        /\ \A i \in DOMAIN h.buckets :
             h.buckets[i] = Cardinality({k \in 1 .. n : bucket_bounds(i)[1] <= v[k] /\ v[k] <= bucket_bounds(i)[2]})
        /\ SeenUpTo(h, WordBits * SubBuckets) = n
        /\ (n > 0 => \A q \in Quantiles :
              LET truth == v[Rank(n, q[1], q[2])]
              IN  16 * Apart(quantile(h, q[1], q[2]), truth) <= truth)
=============================================================================
