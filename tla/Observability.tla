--------------------------- MODULE Observability ----------------------------
(* What operators see of a service: its health, its events, its metrics.     *)
EXTENDS Integers, Sequences, SequencesExt, FiniteSets, FiniteSetsExt, Functions

(***************************************************************************)
(* HealthRegistry: reports run the checks of their kind, each through a     *)
(* cache and a single flight; a check that times out leaves its function    *)
(* running behind.                                                          *)
(***************************************************************************)

CONSTANTS
  Checks, KindOf,     \* registered checks, and the kind of each: "liveness", "readiness" or "both"
  Reports, AskedKind,     \* callers of report(), and the kind each asks for, or "all"
  CacheMs,
  MaxTime, MaxProbes  \* bounds: the clock, probes of a check

NoResult == [n |-> 0, status |-> "none", at |-> 0]

VARIABLES
  now,
  cache,      \* each check: the last result, [n (of its probe), status, at]
  inFlight,   \* each check: the probe in flight, or 0
  started,    \* each check: probes started
  zombies,    \* <<check, probe>> whose function still runs after the timeout
  report      \* each caller: [at, got]: what it has of each check, "none" while it waits, and overall

healthVars == <<now, cache, inFlight, started, zombies, report>>

HealthInit ==
  /\ now = 0 /\ cache = [k \in Checks |-> NoResult] /\ inFlight = [k \in Checks |-> 0]
  /\ started = [k \in Checks |-> 0] /\ zombies = {}
  /\ report = [r \in Reports |-> [at |-> "new", got |-> [k \in {} |-> "none"], overall |-> "none"]]

Selected(r) == {k \in Checks : AskedKind[r] = "all" \/ KindOf[k] \in {"both", AskedKind[r]}}

-----------------------------------------------------------------------------
(* runCached                                                                 *)

Fresh(k) == CacheMs > 0 /\ cache[k] # NoResult /\ now - cache[k].at < CacheMs
Known(k) == Fresh(k) \/ (inFlight[k] # 0 /\ cache[k] # NoResult)
Alone(k) == ~Fresh(k)                          \* mutant: no probe is shared
Probes(k) == ~Fresh(k) /\ inFlight[k] = 0

\* What a report makes of what it got.
Overall(got) ==
  LET down == {k \in DOMAIN got : got[k] = "down"}
  IN  IF down = {} THEN "ok" ELSE IF down = DOMAIN got THEN "down" ELSE "degraded"
SettledReport(rep) ==
  IF \A k \in DOMAIN rep.got : rep.got[k] # "none"
  THEN [rep EXCEPT !.at = "done", !.overall = Overall(rep.got)] ELSE rep

Report(r) ==
  /\ report[r].at = "new"
  /\ LET probed == {k \in Selected(r) : Probes(k)}
     IN  /\ \A k \in probed : started[k] < MaxProbes
         /\ started' = [k \in Checks |-> IF k \in probed THEN started[k] + 1 ELSE started[k]]
         /\ inFlight' = [k \in Checks |-> IF k \in probed THEN started[k] + 1 ELSE inFlight[k]]
         /\ report' = [report EXCEPT ![r] = SettledReport(
              [at |-> "waits", overall |-> "none",
               got |-> [k \in Selected(r) |-> IF k \notin probed /\ Known(k) THEN cache[k].status ELSE "none"]])]
  /\ UNCHANGED <<now, cache, zombies>>

\* The probe in flight ends: the cache has its result, and so has everyone who joined it.
Ends(k, status) ==
  /\ inFlight[k] # 0
  /\ cache' = [cache EXCEPT ![k] = [n |-> inFlight[k], status |-> status, at |-> now]]
  /\ inFlight' = [inFlight EXCEPT ![k] = 0]
  /\ report' = [r \in Reports |->
       IF report[r].at = "waits" /\ k \in DOMAIN report[r].got /\ report[r].got[k] = "none"
       THEN SettledReport([report[r] EXCEPT !.got[k] = status]) ELSE report[r]]
  /\ UNCHANGED <<now, started>>

-----------------------------------------------------------------------------
(* runOne: the function against its timeout                                  *)

CheckReturns(k) == \E status \in {"ok", "down"} : Ends(k, status) /\ UNCHANGED zombies
TimesOut(k) == Ends(k, "down") /\ zombies' = zombies \cup {<<k, inFlight[k]>>}

\* A function that returns after its timeout: its promise is settled already.
LateCaches(k) ==      \* mutant: the late result is cached
  \E z \in zombies :
    /\ z[1] = k /\ zombies' = zombies \ {z}
    /\ cache' = [cache EXCEPT ![k] = [n |-> z[2], status |-> "ok", at |-> now]]
    /\ UNCHANGED <<now, inFlight, started, report>>
LateReturn(k) ==
  \E z \in zombies :
    /\ z[1] = k /\ zombies' = zombies \ {z}
    /\ UNCHANGED <<now, cache, inFlight, started, report>>

HealthTick == now < MaxTime /\ now' = now + 1 /\ UNCHANGED <<cache, inFlight, started, zombies, report>>

\* A report that is done may be asked for again.
Again(r) ==
  /\ report[r].at = "done" /\ report' = [report EXCEPT ![r].at = "new"]
  /\ UNCHANGED <<now, cache, inFlight, started, zombies>>

HealthNext ==
  \/ HealthTick \/ \E r \in Reports : Report(r) \/ Again(r)
  \/ \E k \in Checks : CheckReturns(k) \/ TimesOut(k) \/ LateReturn(k)
HealthFairness == \A k \in Checks : WF_healthVars(TimesOut(k))
HealthSpec == HealthInit /\ [][HealthNext]_healthVars /\ HealthFairness

-----------------------------------------------------------------------------
\* Whatever returns late, the cached result is the one of the last probe that ended, and a probe
\* in flight is newer: single flight, per check.
CacheIsLatest ==
  \A k \in Checks : cache[k].n = started[k] - (IF inFlight[k] = 0 THEN 0 ELSE 1)

\* Every report ends, for every probe it joins does; a report that found a probe in flight and a
\* cached result waits for nothing.
ReportsEnd == \A r \in Reports : report[r].at = "waits" ~> report[r].at = "done"

-----------------------------------------------------------------------------
(***************************************************************************)
(* DevToolsBus: events go into a ring and to the listeners, at once or in   *)
(* batches flushed by an immediate; full buffers drop by strategy.  Events  *)
(* of other instances come in through ingestRemote, echoes of own ones too. *)
(***************************************************************************)

CONSTANTS
  Listeners, LocalOnly,     \* callbacks, and those registered with onLocal
  Capacity, MaxPending,
  Strategies,               \* of "drop-oldest", "drop-newest", "back-pressure"
  MaxEvents                 \* bound: events

VARIABLES
  conf,                         \* [strategy, batched]
  buffer, writeIdx, count,      \* the ring
  pending, flushScheduled,      \* pendingEmissions
  immediate,                    \* the immediate that will flush
  on,                           \* registered listeners
  next,                         \* number of the next event
  origin,                       \* history: where each event came from
  stored,                       \* history: events stored in the ring
  seen                          \* history: what each listener was called with

busVars == <<conf, buffer, writeIdx, count, pending, flushScheduled, immediate, on, next, origin, stored, seen>>

BusInit ==
  /\ conf \in [strategy : Strategies, batched : BOOLEAN]
  /\ buffer = [i \in 0..Capacity - 1 |-> 0] /\ writeIdx = 0 /\ count = 0
  /\ pending = <<>> /\ flushScheduled = FALSE /\ immediate = FALSE
  /\ on = {} /\ next = 1 /\ origin = <<>> /\ stored = <<>> /\ seen = [l \in Listeners |-> <<>>]

-----------------------------------------------------------------------------
(* The ring                                                                  *)

StoreInRing(e) ==
  IF count >= Capacity /\ conf.strategy # "drop-oldest"
  THEN UNCHANGED <<buffer, writeIdx, count, stored>>
  ELSE /\ buffer' = [buffer EXCEPT ![writeIdx] = e]
       /\ writeIdx' = (writeIdx + 1) % Capacity
       /\ count' = Min({count + 1, Capacity})
       /\ stored' = Append(stored, e)

\* recent(limit): the last n events, oldest first.
RecentFromStart(limit) ==     \* mutant: the ring is read from its first slot
  LET n == Min({limit, count}) IN [i \in 1..n |-> buffer[(count - n + i - 1) % Capacity]]
Recent(limit) ==
  LET n == Min({limit, count}) IN [i \in 1..n |-> buffer[(writeIdx - n + Capacity + i - 1) % Capacity]]

-----------------------------------------------------------------------------
(* Listeners                                                                 *)

\* emitToListeners of each event in turn; onLocal drops what came from elsewhere.
Hears(l, e) == l \in LocalOnly => origin'[e] = "local"
Emitted(events) ==
  [l \in Listeners |-> IF l \in on THEN seen[l] \o SelectSeq(events, LAMBDA e : Hears(l, e)) ELSE seen[l]]

Full == Len(pending) >= MaxPending

\* enqueuePending and scheduleFlush
EnqueuePending(e) ==
  IF Full /\ conf.strategy # "drop-oldest"
  THEN UNCHANGED <<pending, flushScheduled, immediate>>
  ELSE /\ pending' = Append(IF Full THEN Tail(pending) ELSE pending, e)
       /\ flushScheduled' = TRUE /\ immediate' = (immediate \/ ~flushScheduled)

Arrives(e) ==
  /\ StoreInRing(e)
  /\ IF on = {} THEN UNCHANGED <<pending, flushScheduled, immediate, seen>>
     ELSE IF conf.batched THEN EnqueuePending(e) /\ UNCHANGED seen
     ELSE seen' = Emitted(<<e>>) /\ UNCHANGED <<pending, flushScheduled, immediate>>

Publish ==
  /\ next <= MaxEvents /\ next' = next + 1 /\ origin' = Append(origin, "local")
  /\ Arrives(next) /\ UNCHANGED <<conf, on>>

\* The event of another instance, or the echo of an own one, which is dropped.
IngestRemote ==
  /\ next <= MaxEvents /\ next' = next + 1
  /\ \/ origin' = Append(origin, "remote") /\ Arrives(next)
     \/ /\ origin' = Append(origin, "echo")
        /\ UNCHANGED <<buffer, writeIdx, count, stored, pending, flushScheduled, immediate, seen>>
  /\ UNCHANGED <<conf, on>>

FlushPending == seen' = Emitted(pending) /\ pending' = <<>> /\ flushScheduled' = FALSE

Immediate ==
  /\ immediate /\ immediate' = FALSE /\ UNCHANGED origin /\ FlushPending
  /\ UNCHANGED <<conf, buffer, writeIdx, count, on, next, stored>>
DrainKeepsFlag ==      \* mutant: drain() cancels the flush but still counts it as scheduled
  /\ pending # <<>> /\ immediate' = FALSE /\ UNCHANGED origin
  /\ seen' = Emitted(pending) /\ pending' = <<>> /\ UNCHANGED flushScheduled
  /\ UNCHANGED <<conf, buffer, writeIdx, count, on, next, stored>>
Drain ==
  /\ pending # <<>> /\ immediate' = FALSE /\ UNCHANGED origin /\ FlushPending
  /\ UNCHANGED <<conf, buffer, writeIdx, count, on, next, stored>>

On(l) ==
  /\ l \notin on /\ on' = on \cup {l}
  /\ UNCHANGED <<conf, buffer, writeIdx, count, pending, flushScheduled, immediate, next, origin, stored, seen>>
Off(l) ==
  /\ l \in on /\ on' = on \ {l}
  /\ UNCHANGED <<conf, buffer, writeIdx, count, pending, flushScheduled, immediate, next, origin, stored, seen>>

BusNext == Publish \/ IngestRemote \/ Immediate \/ Drain \/ \E l \in Listeners : On(l) \/ Off(l)
BusFairness == WF_busVars(Immediate)
BusSpec == BusInit /\ [][BusNext]_busVars /\ BusFairness

-----------------------------------------------------------------------------
\* However often the ring has wrapped, recent() returns the last events that were stored, oldest
\* first; a listener hears each event at most once and in order, an onLocal one only own events,
\* and nobody hears an echo.
BusExact ==
  /\ \A limit \in 0..Capacity + 1 :
       Recent(limit) = SubSeq(stored, Len(stored) - Min({limit, count}) + 1, Len(stored))
  /\ \A l \in Listeners :
       /\ \A i \in 1..Len(seen[l]) - 1 : seen[l][i] < seen[l][i + 1]
       /\ \A i \in DOMAIN seen[l] : origin[seen[l][i]] \in (IF l \in LocalOnly THEN {"local"} ELSE {"local", "remote"})

\* What waits is flushed, whatever drain() did before.
FlushHappens == pending # <<>> ~> pending = <<>>

-----------------------------------------------------------------------------
(***************************************************************************)
(* InMemoryMetrics: the series of one metric, at most MaxSeries and one that *)
(* takes the rest, keyed by the rendered text of their labels.              *)
(***************************************************************************)

CONSTANTS
  Labels,      \* label sets: sequences of names, sorted, with their values, sequences of characters
  MaxSeries,
  Amounts,     \* what is added, observed or set
  BucketArgs,  \* the buckets an observation may name; <<>>: none
  Configs,     \* MetricsOptions.buckets of this metric; <<>>: none
  Default,     \* DEFAULT_BUCKETS
  MaxCalls     \* bound

VARIABLES
  kind,      \* "counter", "gauge", "histogram", or "off": metrics are disabled
  config,
  buckets,   \* fixed by the first observation; <<>> before
  value,     \* counter or gauge, or the sum of a histogram: series |-> number
  total, counts,
  calls      \* history: what was asked for

metricsVars == <<kind, config, buckets, value, total, counts, calls>>

Nothing == [k \in {} |-> 0]

MetricsInit ==
  /\ kind \in {"counter", "gauge", "histogram", "off"} /\ config \in Configs
  /\ buckets = <<>> /\ value = Nothing /\ total = Nothing /\ counts = Nothing /\ calls = <<>>

-----------------------------------------------------------------------------
(* The rendered text of labels                                               *)

\* Prometheus escapes; any other control character is dropped.
UnescapedBackslash(c) ==     \* mutant: a backslash is left as it is
  CASE c = "quote" -> <<"\\", "quote">> [] c = "newline" -> <<"\\", "n">> [] c = "control" -> <<>> [] OTHER -> <<c>>
Escape(c) ==
  CASE c \in {"\\", "quote"} -> <<"\\", c>>
    [] c = "newline" -> <<"\\", "n">>
    [] c = "control" -> <<>>
    [] OTHER -> <<c>>

EscapeLabelValue(v) == FlattenSeq([i \in DOMAIN v |-> Escape(v[i])])

LabelsKey(l) ==
  FlattenSeq([i \in DOMAIN l |-> (IF i > 1 THEN <<",">> ELSE <<>>)
                                 \o <<l[i].name, "=", "quote">> \o EscapeLabelValue(l[i].text) \o <<"quote">>])

OverflowKey == LabelsKey(<<[name |-> "label", text |-> <<"other">>]>>)

-----------------------------------------------------------------------------
\* The size is that of the map before the call.
OneTooMany(map, key) == IF key \in DOMAIN map \/ Cardinality(DOMAIN map) <= MaxSeries + 1 THEN key ELSE OverflowKey   \* mutant
ResolveKey(map, key) == IF key \in DOMAIN map \/ Cardinality(DOMAIN map) < MaxSeries THEN key ELSE OverflowKey

Get(map, key, none) == IF key \in DOMAIN map THEN map[key] ELSE none
Put(map, key, v) == [k \in DOMAIN map \cup {key} |-> IF k = key THEN v ELSE map[k]]

Asked(l, v) == Len(calls) < MaxCalls /\ calls' = Append(calls, [labels |-> l, amount |-> v])

IncCounter(l, v) ==
  LET key == ResolveKey(value, LabelsKey(l))
  IN  /\ kind = "counter" /\ Asked(l, v)
      /\ value' = Put(value, key, Get(value, key, 0) + v)
      /\ UNCHANGED <<kind, config, buckets, total, counts>>

SetGauge(l, v) ==
  LET key == ResolveKey(value, LabelsKey(l))
  IN  /\ kind = "gauge" /\ Asked(l, v)
      /\ value' = Put(value, key, v)
      /\ UNCHANGED <<kind, config, buckets, total, counts>>

NormalizeBuckets(b) == SetToSortSeq(Range(b), <)

\* The binary search of the first bucket that is not below v, from 0.
AboveSearch(b, v) ==     \* mutant: a boundary belongs to the bucket above it
  LET at[lo \in 0..Len(b), hi \in 0..Len(b)] ==
        IF lo >= hi THEN lo
        ELSE LET mid == (lo + hi) \div 2
             IN  IF b[mid + 1] <= v THEN at[mid + 1, hi] ELSE at[lo, mid]
  IN  at[0, Len(b)]
FirstBucket(b, v) ==
  LET at[lo \in 0..Len(b), hi \in 0..Len(b)] ==
        IF lo >= hi THEN lo
        ELSE LET mid == (lo + hi) \div 2
             IN  IF b[mid + 1] < v THEN at[mid + 1, hi] ELSE at[lo, mid]
  IN  at[0, Len(b)]

\* The overflow series has no buckets; later buckets are ignored, with a warning.
ObserveHistogram(l, v, b) ==
  LET chosen == CASE calls # <<>> -> buckets
                  [] calls = <<>> /\ config # <<>> -> NormalizeBuckets(config)
                  [] OTHER -> IF b # <<>> THEN NormalizeBuckets(b) ELSE Default
      key == ResolveKey(total, LabelsKey(l))
      before == Get(counts, key, [i \in DOMAIN chosen |-> 0])
      first == FirstBucket(chosen, v)
  IN  /\ kind = "histogram" /\ Asked(l, v)
      /\ buckets' = chosen
      /\ counts' = IF key = OverflowKey THEN counts
                   ELSE Put(counts, key, [i \in DOMAIN chosen |-> before[i] + (IF i > first THEN 1 ELSE 0)])
      /\ value' = Put(value, key, Get(value, key, 0) + v)
      /\ total' = Put(total, key, Get(total, key, 0) + 1)
      /\ UNCHANGED <<kind, config>>

Ignored(l, v) == kind = "off" /\ Asked(l, v) /\ UNCHANGED <<kind, config, buckets, value, total, counts>>

MetricsNext ==
  \E l \in Labels, v \in Amounts :
    IncCounter(l, v) \/ SetGauge(l, v) \/ Ignored(l, v) \/ \E b \in BucketArgs : ObserveHistogram(l, v, b)

MetricsSpec == MetricsInit /\ [][MetricsNext]_metricsVars

-----------------------------------------------------------------------------
(* What is scraped                                                           *)

\* expose(): one line per series of a counter or gauge; of a histogram, its buckets, the bucket
\* "+Inf", its sum and its count.
Line(suffix, key, le, v) ==   \* le: the number of the bucket
  [suffix |-> suffix, series |-> key, le |-> le, amount |-> v]
Expose ==
  IF kind # "histogram" THEN {Line("", k, 0, value[k]) : k \in DOMAIN value}
  ELSE {Line("_sum", k, 0, value[k]) : k \in DOMAIN total}
       \cup {Line("_count", k, 0, total[k]) : k \in DOMAIN total}
       \cup {Line("_bucket", k, Len(buckets) + 1, total[k]) : k \in DOMAIN total \ {OverflowKey}}
       \cup {Line("_bucket", k, i, counts[k][i]) :
               k \in DOMAIN total \ {OverflowKey}, i \in DOMAIN buckets}

\* Reference: the calls of a series, by its labels less what escaping drops.
Kept(l) == [i \in DOMAIN l |-> [name |-> l[i].name, text |-> SelectSeq(l[i].text, LAMBDA c : c # "control")]]
CallsOf(l) == {i \in DOMAIN calls : Kept(calls[i].labels) = Kept(l)}
Series == {Kept(calls[i].labels) : i \in DOMAIN calls}
SumOf(S) == MapThenSumSet(LAMBDA i : calls[i].amount, S)

\* The series that came first have a line of their own.
OwnSeries ==
  {s \in Series : /\ LabelsKey(s) # OverflowKey
                  /\ Cardinality({Kept(calls[i].labels) : i \in 1..(Min(CallsOf(s)) - 1)}) < MaxSeries}

\* What is scraped is what was asked for: two label sets share a series only if they differ by
\* characters that are dropped; each of the first MaxSeries series has its own exact sum, count
\* and cumulative buckets, and one more series holds the rest, so nothing goes uncounted and the
\* number of series stays bounded whatever labels a caller uses.
SeriesExact ==
  LET rest == DOMAIN calls \ UNION {CallsOf(s) : s \in OwnSeries}
      shown(suffix, S, key, n) == S # {} => Line(suffix, key, 0, n) \in Expose
  IN  /\ \A l, m \in Labels : LabelsKey(l) = LabelsKey(m) <=> Kept(l) = Kept(m)
      /\ Cardinality({x.series : x \in Expose}) <= MaxSeries + 1
      /\ kind = "off" => Expose = {}
      /\ kind = "counter" =>
           /\ \A s \in OwnSeries : shown("", CallsOf(s), LabelsKey(s), SumOf(CallsOf(s)))
           /\ shown("", rest, OverflowKey, SumOf(rest))
      /\ kind = "gauge" =>
           /\ \A s \in OwnSeries : shown("", CallsOf(s), LabelsKey(s), calls[Max(CallsOf(s))].amount)
           /\ rest # {} => shown("", rest, OverflowKey, calls[Max(rest)].amount)
      /\ kind = "histogram" =>
           /\ \A s \in OwnSeries :
                LET mine == CallsOf(s)
                    upto(b) == Cardinality({i \in mine : calls[i].amount <= b})
                IN  /\ shown("_sum", mine, LabelsKey(s), SumOf(mine))
                    /\ shown("_count", mine, LabelsKey(s), Cardinality(mine))
                    /\ \A i \in DOMAIN buckets :
                         Line("_bucket", LabelsKey(s), i, upto(buckets[i])) \in Expose
           /\ shown("_sum", rest, OverflowKey, SumOf(rest))
           /\ shown("_count", rest, OverflowKey, Cardinality(rest))

=============================================================================
