----------------------------- MODULE Histogram -----------------------------
(***************************************************************************)
(* The fixed-bucket histogram over a sliding window of histogram.go, as    *)
(* operators from a record of the struct's fields, and its life: any       *)
(* sequence of samples.  Medians are doubled to stay integers.             *)
(***************************************************************************)
EXTENDS Integers, Sequences, SequencesExt, FiniteSetsExt

CONSTANTS
  Buckets,    \* the bucket table, a sequence of [low, high], high -1 is open
  WindowSize, \* windowSize
  Samples     \* the values added

newHistogram ==
  [counts  |-> [i \in DOMAIN Buckets |-> 0],
   total   |-> 0,
   samples |-> [i \in 0 .. WindowSize - 1 |-> 1],
   pos     |-> 0,
   filled  |-> FALSE]

InBucket(i, value) ==
  value >= Buckets[i].low /\ (Buckets[i].high = -1 \/ value <= Buckets[i].high)

\* Variant: a bucket's upper end belongs to the next.
bucketIndexOpen(value) ==
  Min({i \in DOMAIN Buckets :
         InBucket(i, value) /\ (Buckets[i].high = -1 \/ value < Buckets[i].high)}
      \cup {Len(Buckets)})

\* The first bucket that holds the value, or the last bucket.
bucketIndex(value) ==
  Min({i \in DOMAIN Buckets : InBucket(i, value)} \cup {Len(Buckets)})

\* The sample about to be overwritten no longer counts.
Evict(h) ==
  IF ~h.filled THEN h
  ELSE [h EXCEPT !.counts[h.samples[h.pos]] = @ - 1, !.total = @ - 1]

\* Variant: the window never evicts.
addForever(h, value) ==
  LET idx == bucketIndex(value) IN
  [h EXCEPT !.samples[h.pos] = idx,
            !.counts[idx] = @ + 1,
            !.total = @ + 1,
            !.pos = (@ + 1) % WindowSize,
            !.filled = @ \/ h.pos + 1 >= WindowSize]

add(h, value) ==
  LET idx == bucketIndex(value) IN
  [Evict(h) EXCEPT !.samples[h.pos] = idx,
                   !.counts[idx] = @ + 1,
                   !.total = @ + 1,
                   !.pos = (@ + 1) % WindowSize,
                   !.filled = @ \/ h.pos + 1 >= WindowSize]

\* Twice the value that stands for a bucket.
Midpoint(i) ==
  IF Buckets[i].high = -1 THEN 2 * Buckets[i].low
  ELSE Buckets[i].low + Buckets[i].high

\* Twice median(): the first bucket whose cumulative count passes the middle.
median(h) ==
  LET cum[i \in 0 .. Len(Buckets)] == IF i = 0 THEN 0 ELSE cum[i - 1] + h.counts[i]
      passed == {i \in DOMAIN Buckets : cum[i] > h.total \div 2}
  IN IF h.total = 0 \/ passed = {} THEN 0 ELSE Midpoint(Min(passed))

----------------------------------------------------------------------------
VARIABLES
  hist,  \* the histogram
  window \* history: the last WindowSize values added, oldest first

histVars == <<hist, window>>

HistInit == hist = newHistogram /\ window = <<>>

Add(value) ==
  /\ hist' = add(hist, value)
  /\ window' = LET w == Append(window, value) IN
               IF Len(w) > WindowSize THEN Tail(w) ELSE w

HistNext == \E value \in Samples : Add(value)

HistSpec == HistInit /\ [][HistNext]_histVars

\* The counts are those of the last WindowSize samples and of nothing older,
\* wherever the ring's write position is.
CountsExact ==
  /\ hist.total = Len(window)
  /\ \A i \in DOMAIN Buckets :
       hist.counts[i] = Len(SelectSeq(window, LAMBDA v : bucketIndex(v) = i))

\* The median is the midpoint of a bucket that contains the middle element of
\* the window in sorted order, the upper one of an even number.
MedianExact ==
  LET sorted == SortSeq(window, <)
      middle == sorted[Len(window) \div 2 + 1]
  IN IF window = <<>> THEN median(hist) = 0
     ELSE \E i \in DOMAIN Buckets :
            InBucket(i, middle) /\ median(hist) = Midpoint(i)
=============================================================================
