----------------------------- MODULE ClientCall -----------------------------
(***************************************************************************)
(* A client's logical calls: the idempotency cache, the client's circuit    *)
(* breaker, the retry loop, and inside it the resilience wrapper of a       *)
(* method: backpressure limiter, its own breaker, adaptive retries under a  *)
(* timeout, hedged copies, and the budget of physical calls they all share. *)
(* A physical call may be answered at any time, also after the attempt that *)
(* made it has timed out.  The client can be closed while calls are running. *)
(***************************************************************************)
EXTENDS Integers, Sequences, FiniteSets

CONSTANTS
  Calls,         \* logical calls
  KeyOf,         \* the service:method each call goes to
  IdemKey,       \* the call's idempotency key, or NoKey
  NoKey,
  Options,       \* the configurations a client may be built with
  MaxAttempts,   \* retry.maxAttempts
  Tries,         \* what AdaptiveTuner.getRetries may answer
  MaxPhysical,   \* InvocationBudget.maxCalls
  MaxInflight, High, Low,   \* the limiter's cap and watermarks
  Hooks,         \* number of shutdown hooks
  MaxTime        \* bound on the clock

ASSUME ClientAssumption ==
  /\ {MaxAttempts, MaxPhysical, MaxInflight, High} \subseteq Nat \ {0}
  /\ {Low, Hooks, MaxTime} \subseteq Nat /\ Low < High /\ High <= MaxInflight
  /\ Tries \subseteq Nat \ {0} /\ Tries # {}
  /\ \A o \in Options : o.maxKeys \in Nat \ {0}

-----------------------------------------------------------------------------
(***************************************************************************)
(* The circuit breaker registries as functions of the registry's map.  The  *)
(* map is a sequence of circuits, in insertion order.  The count breaker    *)
(* opens on consecutive failures, the sliding one on the error rate of a    *)
(* window of time buckets; everything else is the base class they share.    *)
(***************************************************************************)

CONSTANTS
  FailureThreshold,          \* count mode: failures that open the circuit
  HalfOpenSuccessThreshold,  \* probe successes that close it
  ResetTimeout,              \* resetTimeoutMs, in ticks
  WindowMs, BucketMs,        \* sliding mode: the window and its buckets, in ticks
  MinSampleSize,             \* sliding mode: outcomes needed before the rate counts
  RatePercent                \* errorRateThreshold, in percent

NewCircuit(key) ==
  [key |-> key, state |-> "closed", openedAt |-> 0, inFlight |-> FALSE, probeAt |-> 0,
   failures |-> 0, successes |-> 0, buckets |-> <<>>]

Has(circuits, key) == \E i \in DOMAIN circuits : circuits[i].key = key
At(circuits, key) == CHOOSE i \in DOMAIN circuits : circuits[i].key = key

\* evictIfFull: the first closed circuit goes, otherwise the oldest one.
EvictIfFull(circuits, maxKeys) ==
  LET closed == {i \in DOMAIN circuits : circuits[i].state = "closed"}
      goes   == IF closed = {} THEN {1} ELSE closed    \* the least of these
      after(j) == \E i \in goes : i <= j
  IN  IF Len(circuits) < maxKeys THEN circuits
      ELSE [j \in 1..(Len(circuits) - 1) |-> circuits[IF after(j) THEN j + 1 ELSE j]]

GetOrCreate(circuits, key, maxKeys) ==
  IF Has(circuits, key) THEN circuits
  ELSE Append(EvictIfFull(circuits, maxKeys), NewCircuit(key))

-----------------------------------------------------------------------------
(* The two ways of counting failures                                         *)

InWindow(bucket, now) == bucket.startedAt >= now - WindowMs

\* currentBucket and the count of one outcome in it; expired buckets go only
\* when a bucket is added.
InCurrentBucket(buckets, ok, now) ==
  LET fresh == [startedAt |-> now, success |-> 0, failure |-> 0]
      open  == buckets # <<>> /\ now - buckets[Len(buckets)].startedAt < BucketMs
      all   == IF open THEN buckets
               ELSE SelectSeq(Append(buckets, fresh), LAMBDA b : InWindow(b, now))
      n     == Len(all)
  IN  IF ok THEN [all EXCEPT ![n].success = @ + 1] ELSE [all EXCEPT ![n].failure = @ + 1]

Aggregate(d, now) ==
  LET live == SelectSeq(d.buckets, LAMBDA b : InWindow(b, now))
      sum[n \in 0..Len(live)] ==
        IF n = 0 THEN [success |-> 0, failure |-> 0]
        ELSE [success |-> sum[n - 1].success + live[n].success, failure |-> sum[n - 1].failure + live[n].failure]
  IN  sum[Len(live)]

RecordOutcome(mode, d, ok, now) ==
  CASE mode = "sliding"                           -> [d EXCEPT !.buckets = InCurrentBucket(@, ok, now)]
    [] mode = "count" /\ ~ok                      -> [d EXCEPT !.failures = @ + 1]
    [] mode = "count" /\ ok /\ d.state = "closed" -> [d EXCEPT !.failures = 0]
    [] OTHER                                      -> d

ShouldOpen(mode, d, now) ==
  LET agg == Aggregate(d, now)
      total == agg.success + agg.failure
  IN  IF mode = "sliding" THEN total >= MinSampleSize /\ 100 * agg.failure >= RatePercent * total
                          ELSE d.failures >= FailureThreshold

ResetOnClose(d) == [d EXCEPT !.failures = 0, !.successes = 0, !.buckets = <<>>]

-----------------------------------------------------------------------------
(* The state machine                                                         *)

Opened(d, now) == [d EXCEPT !.state = "open", !.openedAt = now]

\* before(): the circuit after an admitted call, or the refusal.
BeforeCircuit(d, now) ==
  LET cooled == d.state = "open" /\ now - d.openedAt >= ResetTimeout
      half   == IF cooled THEN [d EXCEPT !.state = "half-open", !.successes = 0, !.inFlight = FALSE] ELSE d
      probed == half.inFlight /\ now - half.probeAt < ResetTimeout
  IN  IF half.state = "open" \/ (half.state = "half-open" /\ probed)
      THEN [admitted |-> FALSE, circuit |-> half]
      ELSE [admitted |-> TRUE,
            circuit  |-> IF half.state = "half-open"
                         THEN [half EXCEPT !.inFlight = TRUE, !.probeAt = now] ELSE half]

Before(circuits, key, maxKeys, now) ==
  LET all == GetOrCreate(circuits, key, maxKeys)
      b   == BeforeCircuit(all[At(all, key)], now)
  IN  [admitted |-> b.admitted, circuits |-> [all EXCEPT ![At(all, key)] = b.circuit]]

OnSuccess(mode, circuits, key, maxKeys, now) ==
  LET all == GetOrCreate(circuits, key, maxKeys)
      d   == RecordOutcome(mode, all[At(all, key)], TRUE, now)
      p   == [d EXCEPT !.inFlight = FALSE, !.successes = @ + 1]
      new == CASE d.state # "half-open" -> d
               [] d.state = "half-open" /\ p.successes >= HalfOpenSuccessThreshold
                                        -> ResetOnClose([p EXCEPT !.state = "closed"])
               [] OTHER                 -> p
  IN  [all EXCEPT ![At(all, key)] = new]

\* onFailure; a VALIDATION_FAILED or UNAUTHORIZED error says nothing about the service.
ClientFault(err) == err = "invalid"

\* mutant: a probe that ends in a client error leaves the flag set
ForgetProbe(circuits, key) == circuits
ReleaseProbe(circuits, key) ==
  [i \in DOMAIN circuits |->
     IF circuits[i].key = key /\ circuits[i].state = "half-open"
     THEN [circuits[i] EXCEPT !.inFlight = FALSE] ELSE circuits[i]]

OnFailure(mode, circuits, key, maxKeys, now, err) ==
  LET all == GetOrCreate(circuits, key, maxKeys)
      d   == RecordOutcome(mode, all[At(all, key)], FALSE, now)
      new == CASE d.state = "half-open" -> Opened([d EXCEPT !.inFlight = FALSE], now)
               [] d.state = "closed" /\ ShouldOpen(mode, d, now) -> Opened(d, now)
               [] OTHER -> d
  IN  IF ClientFault(err) THEN ReleaseProbe(circuits, key)
      ELSE [all EXCEPT ![At(all, key)] = new]

-----------------------------------------------------------------------------
VARIABLES
  opts,      \* the configuration in force
  now,       \* the clock
  breakers,  \* the registries: the client's and the method's
  limiter,   \* inflight and paused
  call,      \* each logical call
  att,       \* att[c][g]: the g-th hedged attempt of call c
  cache,     \* idempotency keys with a stored result
  tracked,   \* GracefulShutdown.inflight
  drain,     \* shutdown() and a bare drain(): where each one is
  resolver,  \* the drain whose resolve() trackInflight would call
  hooksLeft, \* hooks shutdown() has still to run
  atClose    \* history: the calls in flight when shutdown() was called

vars == <<opts, now, breakers, limiter, call, att, cache, tracked, drain, resolver, hooksLeft, atClose>>
closing == <<resolver, hooksLeft, atClose>>

Codes == {"timeout", "limited", "unavailable", "open", "exhausted", "invalid"}
Replies == {"ok", "unavailable", "invalid"}
Settled == {"ok", "failed"}
Gens == 1..(MaxAttempts * CHOOSE n \in Tries : \A m \in Tries : m <= n)
Never == -1
Idle == [pc |-> "idle", attempt |-> 0, try |-> 0, tries |-> 1, used |-> 0, gen |-> 0, probe |-> Never]
Unused == [fired |-> 0, live |-> 0, rejected |-> 0, won |-> FALSE]
Drains == {"shutdown", "drain"}
NoDrain == "none"

Init ==
  /\ opts \in Options
  /\ now = 0
  /\ breakers = [r \in {"client", "method"} |-> <<>>]
  /\ limiter = [inflight |-> 0, paused |-> FALSE]
  /\ call = [c \in Calls |-> Idle]
  /\ att = [c \in Calls |-> [g \in Gens |-> Unused]]
  /\ cache = {}
  /\ tracked = {}
  /\ drain = [d \in Drains |-> "idle"]
  /\ resolver = NoDrain
  /\ hooksLeft = Hooks
  /\ atClose = {}

-----------------------------------------------------------------------------
(* Retry decisions and the limiter                                           *)

ShouldRetry(err) == err \in {"timeout", "limited", "unavailable"}

Begin(l) ==
  LET n == l.inflight + 1
  IN  [inflight |-> n, paused |-> l.paused \/ n >= High]
EndNoResume(l) == [l EXCEPT !.inflight = IF @ > 0 THEN @ - 1 ELSE 0]   \* mutant: never resumes
End(l) ==
  LET n == IF l.inflight > 0 THEN l.inflight - 1 ELSE 0
  IN  [inflight |-> n, paused |-> l.paused /\ n > Low]

EndIfLimited == IF opts.backpressure THEN End(limiter) ELSE limiter

-----------------------------------------------------------------------------
(* Settling a logical call                                                   *)

\* trackInflight's finally: the last tracked call resolves an active drain.
AnyEnds(c) ==    \* mutant: any finished call resolves the drain
  /\ tracked' = tracked \ {c}
  /\ drain' = IF resolver # NoDrain THEN [drain EXCEPT ![resolver] = "resolved"] ELSE drain
Untrack(c) ==
  /\ tracked' = tracked \ {c}
  /\ drain' = IF tracked' = {} /\ resolver # NoDrain /\ drain[resolver] = "waiting"
              THEN [drain EXCEPT ![resolver] = "resolved"] ELSE drain

ClientOutcome(c, err) ==
  IF ~opts.breaker THEN breakers.client
  ELSE IF err = "none" THEN OnSuccess("count", breakers.client, KeyOf[c], opts.maxKeys, now)
  ELSE OnFailure("count", breakers.client, KeyOf[c], opts.maxKeys, now, err)

MethodOutcome(c, err) ==
  IF opts.circuit = "none" THEN breakers.method
  ELSE IF err = "none" THEN OnSuccess(opts.circuit, breakers.method, KeyOf[c], opts.maxKeys, now)
  ELSE OnFailure(opts.circuit, breakers.method, KeyOf[c], opts.maxKeys, now, err)

\* withRetry after an attempt failed: back off, or give up and record one failure.
AttemptFailed(c, err, b, used) ==
  IF call[c].attempt < MaxAttempts /\ ShouldRetry(err)
  THEN /\ call' = [call EXCEPT ![c].pc = "rest", ![c].used = used]
       /\ breakers' = [breakers EXCEPT !.method = b]
       /\ UNCHANGED <<tracked, drain, cache>>
  ELSE /\ call' = [call EXCEPT ![c].pc = "failed", ![c].used = used]
       /\ breakers' = [client |-> ClientOutcome(c, err), method |-> b]
       /\ Untrack(c)
       /\ UNCHANGED cache

\* runAdaptive after a try failed: another try, or finish(false) and end() the limiter.
TryFailed(c, err, used) ==
  IF call[c].try < call[c].tries /\ ShouldRetry(err)
  THEN /\ call' = [call EXCEPT ![c].pc = "tryrest", ![c].used = used]
       /\ UNCHANGED <<breakers, limiter, tracked, drain, cache>>
  ELSE /\ AttemptFailed(c, err, MethodOutcome(c, err), used)
       /\ limiter' = EndIfLimited

Succeeded(c) ==
  /\ call' = [call EXCEPT ![c].pc = "ok"]
  /\ breakers' = [client |-> ClientOutcome(c, "none"), method |-> MethodOutcome(c, "none")]
  /\ limiter' = EndIfLimited
  /\ cache' = cache \cup ({IdemKey[c]} \ {NoKey})
  /\ Untrack(c)

-----------------------------------------------------------------------------
(* Physical calls and hedging                                                *)

\* budget.run and the bookkeeping of hedge() for the next copy of attempt g.
\* mutant: the budget is not consulted
FireFreely(c, g, used) ==
  [used |-> used + 1, a |-> [att[c][g] EXCEPT !.fired = @ + 1, !.live = @ + 1]]
Fire(c, g, used) ==
  IF used < MaxPhysical
  THEN [used |-> used + 1, a |-> [att[c][g] EXCEPT !.fired = @ + 1, !.live = @ + 1]]
  ELSE [used |-> used,     a |-> [att[c][g] EXCEPT !.fired = @ + 1, !.rejected = @ + 1]]

TooManyRejected(a) == ~a.won /\ a.rejected > opts.copies    \* mutant: off by one
AllRejected(a) == ~a.won /\ a.rejected >= opts.copies

\* attemptOnce: the first copy goes out at once.
StartTry(c, k) ==
  LET g == k.gen + 1
      f == Fire(c, g, k.used)
  IN  /\ att' = [att EXCEPT ![c][g] = f.a]
      /\ IF AllRejected(f.a)
         THEN TryFailed(c, "exhausted", f.used)
         ELSE /\ call' = [call EXCEPT ![c] = [k EXCEPT !.pc = "busy", !.gen = g, !.used = f.used]]
              /\ UNCHANGED <<breakers, limiter, tracked, drain, cache>>

\* The attempt the call is waiting for.
Awaited(c, g) == call[c].pc = "busy" /\ call[c].gen = g

\* The timer of the next hedged copy.
FireCopy(c, g) ==
  /\ att[c][g].fired \in 1..(opts.copies - 1)
  /\ ~att[c][g].won
  /\ LET f == Fire(c, g, call[c].used)
     IN  /\ att' = [att EXCEPT ![c][g] = f.a]
         /\ IF AllRejected(f.a) /\ Awaited(c, g)
            THEN TryFailed(c, "exhausted", f.used)
            ELSE /\ call' = [call EXCEPT ![c].used = f.used]
                 /\ UNCHANGED <<breakers, limiter, tracked, drain, cache>>
  /\ UNCHANGED <<opts, now, closing>>

\* A physical call of attempt g is answered; unwrap() turns an error envelope into a throw.
Reply(c, g, r) ==
  LET old == att[c][g]
      a == IF r = "ok" THEN [old EXCEPT !.live = @ - 1, !.won = TRUE]
           ELSE [old EXCEPT !.live = @ - 1, !.rejected = @ + 1]
  IN  /\ old.live > 0
      /\ att' = [att EXCEPT ![c][g] = a]
      /\ CASE Awaited(c, g) /\ ~old.won /\ a.won       -> Succeeded(c)
           [] Awaited(c, g) /\ AllRejected(a)          -> TryFailed(c, r, call[c].used)
           [] OTHER -> UNCHANGED <<call, breakers, limiter, tracked, drain, cache>>
      /\ UNCHANGED <<opts, now, closing>>

-----------------------------------------------------------------------------
(* The logical call                                                          *)

Probing(circuits, key) == circuits[At(circuits, key)].state = "half-open"

\* runClientPipeline up to the first attempt; a refused call never reaches the retry loop.
StartCall(c) ==
  LET b == Before(breakers.client, KeyOf[c], opts.maxKeys, now)
  IN  IF opts.breaker /\ ~b.admitted
      THEN /\ call' = [call EXCEPT ![c].pc = "failed"]
           /\ breakers' = [breakers EXCEPT !.client = b.circuits]
           /\ UNCHANGED tracked
      ELSE /\ call' = [call EXCEPT ![c].pc = "gate", ![c].attempt = 1,
                                   ![c].probe = IF opts.breaker /\ Probing(b.circuits, KeyOf[c]) THEN now ELSE Never]
           /\ breakers' = IF opts.breaker THEN [breakers EXCEPT !.client = b.circuits] ELSE breakers
           /\ tracked' = tracked \cup {c}

Query(c) ==
  /\ call[c].pc = "idle" /\ c \in opts.calls
  /\ IF IdemKey[c] \in cache
     THEN call' = [call EXCEPT ![c].pc = "ok"] /\ UNCHANGED <<breakers, tracked>>
     ELSE StartCall(c)
  /\ UNCHANGED <<opts, now, limiter, att, cache, drain, closing>>

\* emit() is tracked and retried alike; it neither reads nor fills the cache.
Emit(c) ==
  /\ call[c].pc = "idle" /\ c \in opts.calls /\ IdemKey[c] = NoKey
  /\ StartCall(c)
  /\ UNCHANGED <<opts, now, limiter, att, cache, drain, closing>>

\* applyResilience: the limiter, then the method's breaker, then the adaptive guidance.
Enter(c) ==
  LET b == Before(breakers.method, KeyOf[c], opts.maxKeys, now)
      refused == opts.backpressure /\ limiter.inflight >= MaxInflight
      circuits == IF opts.circuit = "none" THEN breakers.method ELSE b.circuits
      admitted == IF opts.backpressure THEN Begin(limiter) ELSE limiter
  IN  /\ call[c].pc = "gate"
      /\ \/ /\ refused
            /\ AttemptFailed(c, "limited", breakers.method, call[c].used)
            /\ UNCHANGED limiter
         \/ /\ ~refused /\ opts.circuit # "none" /\ ~b.admitted
            /\ AttemptFailed(c, "open", circuits, call[c].used)
            /\ limiter' = IF opts.backpressure THEN End(admitted) ELSE limiter
         \/ /\ ~refused /\ (opts.circuit = "none" \/ b.admitted)
            /\ \E n \in (IF opts.adaptive THEN Tries ELSE {1}) :
                 call' = [call EXCEPT ![c].pc = "try", ![c].try = 1, ![c].tries = n]
            /\ breakers' = [breakers EXCEPT !.method = circuits]
            /\ limiter' = admitted
            /\ UNCHANGED <<tracked, drain, cache>>
      /\ UNCHANGED <<opts, now, att, closing>>

Try(c) ==
  /\ call[c].pc = "try"
  /\ StartTry(c, call[c])
  /\ UNCHANGED <<opts, now, closing>>

\* callWithTimeout gives up; what the attempt has started keeps running.
TryTimeout(c) ==
  /\ call[c].pc = "busy" /\ opts.adaptive
  /\ TryFailed(c, "timeout", call[c].used)
  /\ UNCHANGED <<opts, now, att, closing>>

TryAgain(c) ==
  /\ call[c].pc = "tryrest"
  /\ call' = [call EXCEPT ![c].pc = "try", ![c].try = @ + 1]
  /\ UNCHANGED <<opts, now, breakers, limiter, att, cache, tracked, drain, closing>>

RetryCall(c) ==
  /\ call[c].pc = "rest"
  /\ call' = [call EXCEPT ![c].pc = "gate", ![c].attempt = @ + 1]
  /\ UNCHANGED <<opts, now, breakers, limiter, att, cache, tracked, drain, closing>>

-----------------------------------------------------------------------------
(* Closing the client                                                        *)

\* drain(): wait for the tracked calls, at most timeoutMs.
StartDrain(d) ==
  /\ opts.closes
  /\ drain[d] = "idle"
  /\ IF tracked = {}
     THEN drain' = [drain EXCEPT ![d] = "done"] /\ UNCHANGED resolver
     ELSE drain' = [drain EXCEPT ![d] = "waiting"] /\ resolver' = d
  /\ atClose' = IF d = "shutdown" THEN tracked ELSE atClose
  /\ UNCHANGED <<opts, now, breakers, limiter, call, att, cache, tracked, hooksLeft>>

\* mutant: only the drain that holds the resolver is timed
HolderTimeout(d) ==
  /\ drain[d] = "waiting" /\ resolver = d
  /\ drain' = [drain EXCEPT ![d] = "timedOut"]
  /\ UNCHANGED <<opts, now, breakers, limiter, call, att, cache, tracked, closing>>
DrainTimeout(d) ==
  /\ drain[d] = "waiting"
  /\ drain' = [drain EXCEPT ![d] = "timedOut"]
  /\ UNCHANGED <<opts, now, breakers, limiter, call, att, cache, tracked, closing>>

\* The finally after the wait: whoever ends first clears the one resolver.
DrainEnds(d) ==
  /\ drain[d] \in {"resolved", "timedOut"}
  /\ drain' = [drain EXCEPT ![d] = IF drain[d] = "timedOut" THEN "gaveUp" ELSE "done"]
  /\ resolver' = NoDrain
  /\ UNCHANGED <<opts, now, breakers, limiter, call, att, cache, tracked, hooksLeft, atClose>>

\* shutdown() runs the hooks in reverse; a failing hook is logged.
RunHook ==
  /\ drain["shutdown"] \in {"done", "gaveUp"}
  /\ hooksLeft > 0
  /\ hooksLeft' = hooksLeft - 1
  /\ UNCHANGED <<opts, now, breakers, limiter, call, att, cache, tracked, drain, resolver, atClose>>

Tick ==
  /\ now < MaxTime
  /\ opts.breaker \/ opts.circuit # "none"
  /\ now' = now + 1
  /\ UNCHANGED <<opts, breakers, limiter, call, att, cache, tracked, drain, closing>>

Next ==
  \/ \E c \in Calls : Query(c) \/ Emit(c) \/ Enter(c) \/ Try(c) \/ TryTimeout(c) \/ TryAgain(c) \/ RetryCall(c)
  \/ \E c \in Calls, g \in Gens : FireCopy(c, g) \/ \E r \in Replies : Reply(c, g, r)
  \/ \E d \in Drains : StartDrain(d) \/ DrainTimeout(d) \/ DrainEnds(d)
  \/ RunHook
  \/ Tick

Spec == Init /\ [][Next]_vars

\* Timers fire, promises continue, and every transport bounds a query by a timeout,
\* so a call that can take a step takes one.
Step(c) ==
  \/ Enter(c) \/ Try(c) \/ TryAgain(c) \/ RetryCall(c)
  \/ \E g \in Gens : FireCopy(c, g) \/ \E r \in Replies : Reply(c, g, r)
Closing == RunHook \/ \E d \in Drains : DrainTimeout(d) \/ DrainEnds(d)

FairSpec == Spec /\ (\A c \in Calls : WF_vars(Step(c))) /\ WF_vars(Closing)

-----------------------------------------------------------------------------
(* Properties                                                                *)

TypeOK ==
  /\ opts \in Options /\ now \in 0..MaxTime
  /\ limiter \in [inflight : 0..MaxInflight, paused : BOOLEAN]
  /\ \A c \in Calls : /\ call[c].pc \in {"idle", "gate", "try", "busy", "tryrest", "rest"} \cup Settled
                        /\ call[c].attempt \in 0..MaxAttempts /\ call[c].used \in 0..MaxPhysical
  /\ \A c \in Calls, g \in Gens : att[c][g].live + att[c][g].rejected <= att[c][g].fired
  /\ tracked \subseteq Calls
  /\ resolver \in Drains \cup {NoDrain}

Inside(c) == call[c].pc \in {"try", "busy", "tryrest"}
InPipeline(c) == Inside(c) \/ call[c].pc \in {"gate", "rest"}

\* The backpressure limiter of a method counts exactly the calls inside
\* applyResilience, through every retry, timeout and refusal, and it is paused
\* between crossing the high watermark and falling to the low one
\* (backpressure.ts begin/end, resilience-runtime.ts applyResilience's finally).
LimiterExact ==
  opts.backpressure =>
    /\ limiter.inflight = Cardinality({c \in Calls : Inside(c)})
    /\ limiter.paused => limiter.inflight > Low
    /\ ~limiter.paused => limiter.inflight < High

\* The counters are right: the limiter's, and the copies of a call that hedging and
\* retries send stay within its budget (resilience-runtime.ts InvocationBudget).
CountersExact == TypeOK /\ LimiterExact

\* A half-open circuit that refuses traffic because a probe is in flight really has
\* a call in flight: no settled call, late answer or client error leaves the flag
\* behind (circuit-breaker.ts before/onSuccess/onFailure).
ProbeAccounted ==
  \A r \in DOMAIN breakers : \A i \in DOMAIN breakers[r] :
    LET d == breakers[r][i]
    IN  d.state = "half-open" /\ d.inFlight =>
          \E c \in Calls : KeyOf[c] = d.key /\ (IF r = "client" THEN InPipeline(c) ELSE Inside(c))

\* The shutdown hooks run only after every call that was in flight when shutdown()
\* was called has settled, or after the drain gave up on its timeout, also when
\* drain() is called at the same time (graceful-shutdown.ts trackInflight/shutdown).
HooksAfterDrain ==
  hooksLeft < Hooks => drain["shutdown"] = "gaveUp" \/ atClose \cap tracked = {}

\* Half-open means one probe: two probes are in flight only when the younger took
\* over from one older than the reset timeout (docs/circuit-breaker.md).
SingleProbe ==
  \A c, d \in Calls :
    /\ c # d /\ KeyOf[c] = KeyOf[d]
    /\ InPipeline(c) /\ InPipeline(d) /\ call[c].probe # Never /\ call[d].probe # Never
    /\ call[c].probe <= call[d].probe
    => call[d].probe - call[c].probe >= ResetTimeout

\* Every call the client started returns or throws, whatever is refused, hedged,
\* timed out or retried underneath (client-runtime.ts runClientPipeline): again and
\* again, and each call is made once, no call is under way.
EveryCallSettles == []<>(\A c \in Calls : ~InPipeline(c))

\* close() comes to an end even when a second drain takes over the only resolver
\* (graceful-shutdown.ts drain).
CloseCompletes == []<>(drain["shutdown"] = "idle" \/ hooksLeft = 0)

\* Both: nothing the client began is left hanging.
ClientComesToRest == EveryCallSettles /\ CloseCompletes

=============================================================================
