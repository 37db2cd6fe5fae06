------------------------------ MODULE Adaptive ------------------------------
(***************************************************************************)
(* AdaptiveTuner: a ring of observed calls; now and then the recent ones'   *)
(* 99th percentile and error rate move the timeout and the retries.         *)
(***************************************************************************)
EXTENDS Integers, Sequences, SequencesExt, FiniteSets, FiniteSetsExt, Functions

CONSTANTS
  MaxSamples, MinSamples,             \* the ring's size and the least to judge from (2048, 10)
  WindowMs, RecomputeIntervalMs, RecomputeEvery,   \* (30000, 250, 64)
  Target, MinRetries, MaxRetries, MinTimeout, MaxTimeout,
  Durations,                          \* durations that calls take
  MaxTime, MaxObservations            \* bounds

VARIABLES
  now, ring, start, size,
  retries, timeout,                   \* currentRetries, currentTimeoutMs
  sinceRecompute, lastRecomputeAt,
  observed                            \* history: every observation, in order

vars == <<now, ring, start, size, retries, timeout, sinceRecompute, lastRecomputeAt, observed>>

NoSample == [ts |-> 0, duration |-> 0, ok |-> TRUE]
Init ==
  /\ now = 1 /\ ring = [i \in 0..MaxSamples - 1 |-> NoSample] /\ start = 0 /\ size = 0
  /\ retries = Max({MinRetries, 2})
  /\ timeout = Max({MinTimeout, Min({MaxTimeout, Target * 4})})
  /\ sinceRecompute = 0 /\ lastRecomputeAt = 0 /\ observed = <<>>

-----------------------------------------------------------------------------
(* selectKth: quickselect with two pointers                                  *)

Swapped(a, i, j) == [a EXCEPT ![i] = a[j], ![j] = a[i]]

\* One partition of a[lo..hi] around a pivot: the array and where the pointers stop.
Partition(arr, pivot, lo, hi) ==
  LET part[a \in Seq(Durations), i \in Int, j \in Int] ==
        LET i2 == Min({x \in i..Len(a) : a[x] >= pivot} \cup {Len(a) + 1})
            j2 == Max({x \in 1..j : a[x] <= pivot} \cup {0})
        IN  IF i > j THEN [a |-> a, i |-> i, j |-> j]
            ELSE IF i2 <= j2 THEN part[Swapped(a, i2, j2), i2 + 1, j2 - 1]
            ELSE [a |-> a, i |-> i2, j |-> j2]
  IN  part[arr, lo, hi]

\* mutant: only the pivot's left part is searched again
SelectKthLeft(arr, k) ==
  LET p == Partition(arr, arr[(1 + Len(arr)) \div 2], 1, Len(arr)) IN p.a[k]
\* The k-th smallest, k from 1.
SelectKth(arr, k) ==
  LET select[a \in Seq(Durations), lo \in Int, hi \in Int] ==
        IF lo >= hi THEN a[k]
        ELSE LET p == Partition(a, a[(lo + hi) \div 2], lo, hi)
             IN  IF k <= p.j THEN select[p.a, lo, p.j]
                 ELSE IF k >= p.i THEN select[p.a, p.i, hi]
                 ELSE p.a[k]
  IN  select[arr, 1, Len(arr)]

Percentile(durations, p) ==
  IF durations = <<>> THEN Target
  ELSE SelectKth(durations, Min({Len(durations), (p * Len(durations)) \div 100 + 1}))

-----------------------------------------------------------------------------
(* observe() and recompute()                                                 *)

\* The samples within the window, oldest first.
Window(r, s, n) ==
  SelectSeq([i \in 1..n |-> r[(s + i - 1) % MaxSamples]], LAMBDA x : x.ts >= now - WindowMs)

Lowered(t) == Max({MinTimeout, (t * 4) \div 5})
RaisedFreely(t) == (t * 3) \div 2                     \* mutant: no upper bound
Raised(t) == Min({MaxTimeout, (t * 3) \div 2})

Recompute(window) ==
  LET p99 == Percentile([i \in DOMAIN window |-> window[i].duration], 99)
      errors == Cardinality({i \in DOMAIN window : ~window[i].ok})
      n == Len(window)
  IN  /\ lastRecomputeAt' = now /\ sinceRecompute' = 0
      /\ timeout' = IF 2 * p99 > 3 * Target /\ timeout < MaxTimeout THEN Raised(timeout)
                    ELSE IF 2 * p99 < Target /\ timeout > MinTimeout THEN Lowered(timeout) ELSE timeout
      /\ retries' = IF 10 * errors > n /\ retries > MinRetries THEN retries - 1
                    ELSE IF 100 * errors < n /\ p99 <= Target /\ retries < MaxRetries THEN retries + 1
                    ELSE retries

OverwritesNewest == start                                  \* mutant: a full ring keeps its start
StartAfter == IF size < MaxSamples THEN start ELSE (start + 1) % MaxSamples

Observe(d, ok) ==
  /\ Len(observed) < MaxObservations
  /\ observed' = Append(observed, [ts |-> now, duration |-> d, ok |-> ok])
  /\ ring' = [ring EXCEPT ![(start + size) % MaxSamples] = [ts |-> now, duration |-> d, ok |-> ok]]
  /\ size' = Min({size + 1, MaxSamples}) /\ start' = StartAfter
  /\ LET window == Window(ring', start', size')
         due == lastRecomputeAt = 0 \/ sinceRecompute + 1 >= RecomputeEvery
                \/ now - lastRecomputeAt >= RecomputeIntervalMs
     IN  IF size' >= MinSamples /\ due /\ Len(window) >= MinSamples
         THEN Recompute(window)
         ELSE sinceRecompute' = sinceRecompute + 1 /\ UNCHANGED <<lastRecomputeAt, timeout, retries>>
  /\ UNCHANGED now

Tick == now < MaxTime /\ now' = now + 1
        /\ UNCHANGED <<ring, start, size, retries, timeout, sinceRecompute, lastRecomputeAt, observed>>

Next == Tick \/ \E d \in Durations, ok \in BOOLEAN : Observe(d, ok)
Spec == Init /\ [][Next]_vars

-----------------------------------------------------------------------------
\* snapshot(), what devtools shows: the percentile read off the sorted durations.
SnapshotPercentile(durations, p) ==
  IF durations = <<>> THEN Target
  ELSE SortSeq(durations, <)[Min({Len(durations), (p * Len(durations)) \div 100 + 1})]

\* Whatever is observed, the timeout and the retries stay within their ranges; the ring, read
\* round its end, holds exactly the last observations still in the window; and the quickselect
\* that recompute() decides by finds the percentile that snapshot() shows.
TunerSound ==
  LET last == SubSeq(observed, Max({1, Len(observed) - MaxSamples + 1}), Len(observed))
      recent == SelectSeq(last, LAMBDA x : x.ts >= now - WindowMs)
      durations == [i \in DOMAIN recent |-> recent[i].duration]
  IN  /\ timeout \in MinTimeout..MaxTimeout /\ retries \in MinRetries..MaxRetries
      /\ Window(ring, start, size) = recent
      /\ \A p \in {50, 95, 99} : Percentile(durations, p) = SnapshotPercentile(durations, p)
=============================================================================
