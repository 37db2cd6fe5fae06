------------------------------ MODULE Dispatch ------------------------------
(***************************************************************************)
(* A service handling requests: runDispatchPipeline (replay guard, caller   *)
(* identity, rate limit, tenant switch, access rules, built-in methods,     *)
(* idempotency, hooks, commit, dead letters) around one of two strategies,  *)
(* RouterRuntime.dispatchSignal or NestControllerBase.dispatchRegistered.   *)
(* Every step between two awaits is one action.  The idempotency runtime is *)
(* taken at the level of module OnceOnly: one owner per key at a time.      *)
(***************************************************************************)
EXTENDS Integers, Sequences, FiniteSets

CONSTANTS
  Requests, Req,     \* the messages delivered, and what each one carries
  Options,           \* the configurations a service may run with
  Signals,           \* the registered methods, in order
  None,              \* no method, uuid, key, version, tenant, token or value
  Window,            \* replayWindowMs
  CacheTtl,          \* ttlMs of a @Cacheable method
  CapacityOf,        \* capacity and refill of the scope a rate-limited key falls in
  RefillOf,
  MaxEntries,        \* the RateLimiter's bound on buckets
  IdleEvict          \* and the idle time after which one may go

\* The window is a duration, a request carries a timestamp or none, and a service is
\* sent some of the requests.
ASSUME DispatchAssumption ==
  /\ Window \in Nat
  /\ \A r \in Requests : Req[r].ts = None \/ Req[r].ts \in Int
  /\ \A o \in Options : o.requests \subseteq Requests /\ o.maxTime \in Nat

\* An envelope is encoded once, under a fresh uuidv7 (client-runtime.ts encode), and
\* redelivered as it is: deliveries with one uuid carry one timestamp and one payload,
\* and no key a caller supplies is the uuid of an envelope.
ASSUME OneEnvelope ==
  \A r, q \in Requests :
    /\ Req[r].uuid # None /\ Req[r].uuid = Req[q].uuid => Req[r].ts = Req[q].ts /\ Req[r].payload = Req[q].payload
    /\ Req[r].key # None => Req[r].key # Req[q].uuid

-----------------------------------------------------------------------------
(***************************************************************************)
(* The token-bucket RateLimiter: buckets in least-recently-used order, at   *)
(* most MaxEntries of them, and one overflow bucket per limit that keys     *)
(* share when none of their own can be had.                                 *)
(***************************************************************************)

NewBucket(key, now) == [key |-> key, tokens |-> CapacityOf[key], lastRefill |-> now, lastTouched |-> now]
NewLimiter == [buckets |-> <<>>, overflow |-> <<>>]

Limit(key) == <<CapacityOf[key], RefillOf[key]>>
Sharing(key) == {k \in DOMAIN CapacityOf : Limit(k) = Limit(key)}

\* Where the bucket of one of the keys is, 0 if there is none; the maps have at most one.
Index(buckets, keys) ==
  LET at == {i \in DOMAIN buckets : buckets[i].key \in keys}
  IN  IF at = {} THEN 0 ELSE CHOOSE i \in at : TRUE
Without(buckets, i) == SubSeq(buckets, 1, i - 1) \o SubSeq(buckets, i + 1, Len(buckets))
Idle(b, now) == now - b.lastTouched > IdleEvict

\* getBucket: the limiter and where the key's bucket now is ("buckets": at the end).
GetBucket(lim, key, now) ==
  LET i == Index(lim.buckets, {key})
      full == Len(lim.buckets) >= MaxEntries
      kept == IF full THEN Tail(lim.buckets) ELSE lim.buckets
      o == Index(lim.overflow, Sharing(key))
  IN  CASE i > 0 ->
             [lim |-> [lim EXCEPT !.buckets =
                         Append(Without(lim.buckets, i), [lim.buckets[i] EXCEPT !.lastTouched = now])],
              in |-> "buckets"]
        [] i = 0 /\ full /\ ~Idle(lim.buckets[1], now) ->
             [lim |-> [lim EXCEPT !.overflow =
                         IF o = 0 THEN Append(@, NewBucket(key, now))
                         ELSE Append(Without(@, o), [@[o] EXCEPT !.lastTouched = now])],
              in |-> "overflow"]
        [] OTHER -> [lim |-> [lim EXCEPT !.buckets = Append(kept, NewBucket(key, now))], in |-> "buckets"]

\* check: refill for the time since the last refill, then take a token or refuse.
TokensAt(b, now) ==
  LET n == b.tokens + (now - b.lastRefill) * RefillOf[b.key]
  IN  IF n < CapacityOf[b.key] THEN n ELSE CapacityOf[b.key]
RefillTwice(b, now) == [b EXCEPT !.tokens = TokensAt(b, now)]     \* mutant: the time of the refill is not recorded
Refilled(b, now) == [b EXCEPT !.tokens = TokensAt(b, now), !.lastRefill = now]

Check(lim, key, now) ==
  LET g == GetBucket(lim, key, now)
      n == Len(g.lim[g.in])
      b == Refilled(g.lim[g.in][n], now)
      ok == b.tokens >= 1
      left == IF ok THEN [b EXCEPT !.tokens = @ - 1] ELSE b
  IN  [ok |-> ok, shared |-> g.in = "overflow", lim |-> [g.lim EXCEPT ![g.in][n] = left]]

\* evictIdle, on its timer: deletes the idle buckets and keeps the others in their order.
Fresh(buckets, now) == {i \in DOMAIN buckets : ~Idle(buckets[i], now)}
FreshUpTo(buckets, now, i) == {j \in Fresh(buckets, now) : j <= i}
KeptOf(buckets, now) ==
  [n \in 1..Cardinality(Fresh(buckets, now)) |->
     buckets[CHOOSE i \in Fresh(buckets, now) : Cardinality(FreshUpTo(buckets, now, i)) = n]]
EvictIdle(lim, now) == [buckets |-> KeptOf(lim.buckets, now), overflow |-> KeptOf(lim.overflow, now)]

-----------------------------------------------------------------------------
(***************************************************************************)
(* isAccessAllowed: the rules of an access-control configuration, compiled  *)
(* into four indexes and evaluated for one topic, method and caller.  A     *)
(* rule is [topic, method, allow, deny]; "*" stands for any.                *)
(***************************************************************************)

CONSTANT NoCaller    \* the caller is unknown

\* compile: the rules with a topic and a method, with one of them, with neither.
ByTopicMethod(rules, topic, method) ==
  SelectSeq(rules, LAMBDA r : r.topic = topic /\ r.method = method)
ByTopic(rules, topic) == SelectSeq(rules, LAMBDA r : r.topic = topic /\ r.method = "*")
ByMethod(rules, method) == SelectSeq(rules, LAMBDA r : r.topic = "*" /\ r.method = method)
GlobalDefault(rules) == SelectSeq(rules, LAMBDA r : r.topic = "*" /\ r.method = "*")

Candidates(rules, topic, method) ==
  ByTopicMethod(rules, topic, method) \o ByTopic(rules, topic)
    \o ByMethod(rules, method) \o GlobalDefault(rules)

ListHasValue(list, caller) == "*" \in list \/ (caller # NoCaller /\ caller \in list)

\* A matching deny in any candidate wins; otherwise one candidate must admit the caller.
IsAccessAllowed(rules, allowAll, topic, method, builtin, caller) ==
  LET c == Candidates(rules, topic, method)
  IN  IF c = <<>> THEN allowAll \/ builtin
      ELSE /\ \A i \in DOMAIN c : ~ListHasValue(c[i].deny, caller)
           /\ \E i \in DOMAIN c : c[i].allow = {} \/ ListHasValue(c[i].allow, caller)

-----------------------------------------------------------------------------
VARIABLES
  opts,      \* the configuration in force
  now,
  pc,        \* where each request is
  caller,    \* its callerService
  resp,      \* its response: an error code or a result
  claim,     \* idempotency key -> the request that began on it
  stored,    \* idempotency key -> the committed result and who committed it
  memo,      \* cache key of a @Cacheable method -> [value, until]
  seen,      \* ReplayGuard: uuid -> expiry
  entered,   \* history: request -> when the ReplayGuard let it pass
  limiter,   \* the service-wide RateLimiter
  disabled,  \* tenants switched off
  dead,      \* requests in the dead letter queue
  runs,      \* history: requests whose handler was started
  taken      \* history: [r, key, at, shared] of every token taken

vars == <<opts, now, pc, caller, resp, claim, stored, memo, seen, entered, limiter, disabled, dead, runs,
          taken>>
world == <<opts, now, disabled>>
guards == <<seen, entered, limiter, taken>>
stores == <<claim, stored, memo>>

\* A result says whose handler produced it and how often the after hook shaped it.
Value(r) == [code |-> "ok", of |-> r, hooks |-> 0]
Failure(code) == [code |-> code, of |-> None, hooks |-> 0]
Put(f, k, v) == [j \in DOMAIN f \cup {k} |-> IF j = k THEN v ELSE f[j]]
Entry(f, k) == IF k \in DOMAIN f THEN f[k] ELSE None

Init ==
  /\ opts \in Options
  /\ now = 0
  /\ pc = [r \in Requests |-> "new"]
  /\ caller = [r \in Requests |-> NoCaller]
  /\ resp = [r \in Requests |-> None]
  /\ claim = <<>> /\ stored = <<>> /\ memo = <<>> /\ seen = <<>> /\ entered = <<>>
  /\ limiter = NewLimiter
  /\ disabled = {}
  /\ dead = {} /\ runs = {} /\ taken = {}

-----------------------------------------------------------------------------
(* What a request asks for                                                   *)

VersionOf(s) == IF s.version = None THEN "v1" ELSE s.version

\* The candidate with the requested version, or the default one, or the first.
SignalHandler(name, version) ==
  LET named == SelectSeq(Signals, LAMBDA s : s.name = name)
      wanted == IF version = None THEN "v1" ELSE version
      match == SelectSeq(named, LAMBDA s : VersionOf(s) = wanted)
  IN  CASE named = <<>> -> [code |-> "METHOD_NOT_FOUND"]
        [] match # <<>> -> match[1]
        [] named # <<>> /\ match = <<>> /\ version = None -> named[1]
        [] OTHER -> [code |-> "UNSUPPORTED_VERSION"]

\* methodRegistry holds one handler per name.
RegisteredHandler(name, version) ==
  LET named == SelectSeq(Signals, LAMBDA s : s.name = name)
      h == named[Len(named)]
  IN  IF named = <<>> THEN [code |-> "METHOD_NOT_FOUND"]
      ELSE IF h.version # None /\ version # None /\ h.version # version THEN [code |-> "UNSUPPORTED_VERSION"]
      ELSE h

\* The supplied key, or else the envelope's uuid; a request with neither has no key.
KeyBase(r) == IF Req[r].key # None THEN Req[r].key ELSE Req[r].uuid
Keyed(r) == opts.idem /\ KeyBase(r) # None

IdemUnscoped(r) == KeyBase(r)   \* mutant: callers share keys
\* serverIdempotencyKey: scoped by caller, tenant and method.
ServerIdempotencyKey(r) == <<caller[r], Req[r].tenant, Req[r].name, Req[r].version, KeyBase(r)>>

\* Payload fingerprints exist, and are compared, only under supplied keys.
Conflicts(q, r) == Req[r].key # None /\ Req[q].key # None /\ Req[q].payload # Req[r].payload

\* buildDefaultCacheKey: method, requested version, tenant, caller and parameters.
CacheKey(r) == <<Req[r].name, Req[r].version, Req[r].tenant, caller[r], Req[r].payload>>

-----------------------------------------------------------------------------
(* Ends of the pipeline                                                      *)

Goto(r, where) == pc' = [pc EXCEPT ![r] = where]

ReleaseNothing(r) == claim     \* mutant: the claim is kept when nothing was committed
\* The finally block: an idempotency claim that was not committed is released.
Released(r) == [k \in {j \in DOMAIN claim : claim[j] # r} |-> claim[k]]

Respond(r, x) ==
  /\ Goto(r, "done")
  /\ resp' = [resp EXCEPT ![r] = x]
  /\ claim' = Released(r)

\* The catch block: the request is dead-lettered, then answered with the error.
Throw(r) ==
  /\ Goto(r, "throwing")
  /\ UNCHANGED <<resp, claim>>

DeadLetter(r) ==
  /\ pc[r] = "throwing"
  /\ dead' = dead \cup {r}
  /\ Respond(r, Failure("FAILED"))
  /\ UNCHANGED <<world, guards, caller, stored, memo, runs>>

-----------------------------------------------------------------------------
(* Guards                                                                    *)

ForgetsEarly(u) == u \in DOMAIN seen /\ now < seen[u]      \* mutant: off by one at the end of the window
StillSeen(u) == u \in DOMAIN seen /\ now <= seen[u]

ReplayDetected(r) ==
  \/ Req[r].uuid = None \/ Req[r].ts = None
  \/ now - Req[r].ts > Window \/ Req[r].ts - now > Window
  \/ StillSeen(Req[r].uuid)

\* From the message to the first await.
Receive(r) ==
  /\ pc[r] = "new"
  /\ CASE Req[r].name = None ->
            Respond(r, Failure("BAD_REQUEST")) /\ UNCHANGED <<seen, entered, dead>>
       [] Req[r].name # None /\ opts.replay /\ ReplayDetected(r) ->
            /\ dead' = dead \cup {r}
            /\ Respond(r, Failure("REPLAY_DETECTED"))
            /\ UNCHANGED <<seen, entered>>
       [] OTHER ->
            /\ Goto(r, "caller")
            /\ IF opts.replay
               THEN seen' = Put(seen, Req[r].uuid, now + Window) /\ entered' = Put(entered, r, now)
               ELSE UNCHANGED <<seen, entered>>
            /\ UNCHANGED <<resp, claim, dead>>
  /\ UNCHANGED <<world, caller, stored, memo, limiter, taken, runs>>

\* extractCallerService: from the verified token, or from meta.service.
Identity(r) ==
  IF ~opts.verifier THEN Req[r].service
  ELSE IF Req[r].token = "good" THEN Req[r].service ELSE NoCaller
Rejected(r) == opts.verifier /\ Req[r].token = "mismatch"

LimiterKey(r, c) ==
  IF c # NoCaller THEN c ELSE IF Req[r].tenant # None THEN Req[r].tenant ELSE Req[r].name

\* Every key a rate-limited service counts by has a limit, in whole tokens; there is room
\* for a bucket.
ASSUME LimiterAssumption ==
  /\ CapacityOf \in [DOMAIN CapacityOf -> Nat] /\ RefillOf \in [DOMAIN CapacityOf -> Nat]
  /\ MaxEntries \in Nat \ {0} /\ IdleEvict \in Nat
  /\ \A o \in Options : o.rate =>
       \A r \in o.requests : \A c \in {Req[r].service, NoCaller} : LimiterKey(r, c) \in DOMAIN CapacityOf

\* From the caller's identity to the idempotency runtime, without an await except
\* for a built-in method.
Admit(r) ==
  LET c == Identity(r)
      k == LimiterKey(r, c)
      lim == Check(limiter, k, now)
      limited == opts.rate /\ ~lim.ok
      builtin == Req[r].name = "nevo.health"
  IN  /\ pc[r] = "caller"
      /\ caller' = [caller EXCEPT ![r] = c]
      /\ IF opts.rate /\ ~Rejected(r)
         THEN /\ limiter' = lim.lim
              /\ taken' = IF lim.ok THEN taken \cup {[r |-> r, key |-> k, at |-> now, shared |-> lim.shared]} ELSE taken
         ELSE UNCHANGED <<limiter, taken>>
      /\ CASE Rejected(r) -> Throw(r)
           [] ~Rejected(r) /\ limited -> Respond(r, Failure("RATE_LIMITED"))
           [] ~Rejected(r) /\ ~limited /\ Req[r].tenant \in disabled -> Throw(r)
           [] ~Rejected(r) /\ ~limited /\ Req[r].tenant \notin disabled
                /\ ~IsAccessAllowed(opts.rules, opts.rules = <<>>, "topic", Req[r].name, builtin, c) ->
                  Respond(r, Failure("UNAUTHORIZED"))
           [] OTHER -> Goto(r, IF builtin THEN "builtin" ELSE "begin") /\ UNCHANGED <<resp, claim>>
      /\ UNCHANGED <<world, stored, memo, seen, entered, dead, runs>>

\* handleBuiltin: the contract and health methods are answered in place.
HandleBuiltin(r) ==
  /\ pc[r] = "builtin"
  /\ IF opts.health THEN Respond(r, Value(r)) ELSE Goto(r, "begin") /\ UNCHANGED <<resp, claim>>
  /\ UNCHANGED <<world, guards, caller, stored, memo, dead, runs>>

-----------------------------------------------------------------------------
(* Idempotency                                                               *)

\* begin(): replay a committed result, wait for the owner of the key, or own it.
BeginIdempotent(r) ==
  LET k == ServerIdempotencyKey(r)
      v == Entry(stored, k)
  IN  /\ pc[r] = "begin"
      /\ CASE ~Keyed(r) -> Goto(r, "before") /\ UNCHANGED <<resp, claim>>
           [] Keyed(r) /\ v # None ->
                Respond(r, IF Conflicts(v.by, r) THEN Failure("IDEMPOTENCY_KEY_CONFLICT") ELSE v.value)
           [] OTHER -> /\ k \notin DOMAIN claim
                       /\ claim' = Put(claim, k, r)
                       /\ Goto(r, "before")
                       /\ UNCHANGED resp
      /\ UNCHANGED <<world, guards, caller, stored, memo, dead, runs>>

-----------------------------------------------------------------------------
(* The strategies                                                            *)

\* The method has a limiter of its own, and it refuses.
MethodLimited(r) ==
  LET s == SignalHandler(Req[r].name, Req[r].version)
  IN  opts.router /\ s.code = "ok" /\ s.limited /\ Respond(r, Failure("RATE_LIMITED"))

\* dispatchSignal up to the handler's first await.
DispatchSignal(r) ==
  LET s == SignalHandler(Req[r].name, Req[r].version)
      hit == Entry(memo, CacheKey(r))
      fresh == s.cacheable /\ hit # None /\ now <= hit.until
  IN  CASE s.code # "ok" -> Respond(r, Failure(s.code)) /\ UNCHANGED runs
        [] s.code = "ok" /\ fresh ->
             /\ resp' = [resp EXCEPT ![r] = hit.value]
             /\ Goto(r, "cached")
             /\ UNCHANGED <<claim, runs>>
        [] s.code = "ok" /\ ~fresh /\ Req[r].payload = "invalid" -> Respond(r, Failure("VALIDATION_FAILED")) /\ UNCHANGED runs
        [] OTHER -> /\ Goto(r, "run")
                    /\ runs' = runs \cup {r}
                    /\ UNCHANGED <<resp, claim>>

\* dispatchRegistered and executeHandler: a failed validation throws.
DispatchRegistered(r) ==
  LET s == RegisteredHandler(Req[r].name, Req[r].version)
  IN  CASE s.code # "ok" -> Respond(r, Failure(s.code)) /\ UNCHANGED runs
        [] s.code = "ok" /\ Req[r].payload = "invalid" -> Throw(r) /\ UNCHANGED runs
        [] OTHER -> /\ Goto(r, "run")
                    /\ runs' = runs \cup {r}
                    /\ UNCHANGED <<resp, claim>>

\* The before hook ends, then the strategy starts.
Before(r) ==
  /\ pc[r] = "before"
  /\ \/ IF opts.router THEN DispatchSignal(r) ELSE DispatchRegistered(r)
     \/ MethodLimited(r) /\ UNCHANGED runs
     \/ opts.hooks /\ Throw(r) /\ UNCHANGED runs
  /\ UNCHANGED <<world, guards, caller, stored, memo, dead>>

\* The handler ends: a result, an error, or load shed by its own @Backpressure.
Invoke(r) ==
  /\ pc[r] = "run"
  /\ \/ resp' = [resp EXCEPT ![r] = Value(r)] /\ Goto(r, "after") /\ UNCHANGED claim
     \/ Throw(r)
     \/ opts.router /\ Respond(r, Failure("RATE_LIMITED"))
  /\ UNCHANGED <<world, guards, caller, stored, memo, dead, runs>>

\* commit() stores the result and frees the claim before its first await.
CommitResult(r, x) ==
  LET k == ServerIdempotencyKey(r)
      own == Entry(claim, k) = r
  IN  /\ stored' = IF own THEN Put(stored, k, [value |-> x, by |-> r]) ELSE stored
      /\ claim' = Released(r)
      /\ Goto(r, "committed")

Hooked(x) == IF opts.hooks THEN [x EXCEPT !.hooks = @ + 1] ELSE x

\* The after hook ends, then the result is committed.
After(r) ==
  /\ pc[r] = "after"
  /\ \/ /\ resp' = [resp EXCEPT ![r] = Hooked(@)]
        /\ CommitResult(r, resp'[r])
     \/ opts.hooks /\ Throw(r) /\ UNCHANGED stored
  /\ UNCHANGED <<world, guards, caller, memo, dead, runs>>

\* skipAfterHook: a cached result is committed as it is.
Cached(r) ==
  /\ pc[r] = "cached"
  /\ CommitResult(r, resp[r])
  /\ UNCHANGED <<world, guards, caller, resp, memo, dead, runs>>

\* onCommitted: the method cache is filled by requests that ran the handler.
Committed(r) ==
  LET s == SignalHandler(Req[r].name, Req[r].version)
  IN  /\ pc[r] = "committed"
      /\ memo' = IF opts.router /\ resp[r].of = r /\ s.cacheable
                 THEN Put(memo, CacheKey(r), [value |-> resp[r], until |-> now + CacheTtl]) ELSE memo
      /\ Goto(r, "done")
      /\ UNCHANGED <<world, guards, caller, resp, claim, stored, dead, runs>>

-----------------------------------------------------------------------------
(* The rest of the process                                                   *)

\* The DevTools kill-switch: setEnabled(service, tenant, FALSE or TRUE).
SetEnabled(t) ==
  /\ opts.switch
  /\ disabled' = IF t \in disabled THEN disabled \ {t} ELSE disabled \cup {t}
  /\ UNCHANGED <<opts, now, pc, caller, resp, stores, guards, dead, runs>>

\* A committed result is evicted from the idempotency caches.
Forget(k) ==
  /\ stored' = [j \in DOMAIN stored \ {k} |-> stored[j]]
  /\ UNCHANGED <<world, guards, pc, caller, resp, claim, memo, dead, runs>>

EvictTimer ==
  /\ opts.rate
  /\ limiter' = EvictIdle(limiter, now)
  /\ limiter' # limiter
  /\ UNCHANGED <<world, pc, caller, resp, stores, seen, entered, taken, dead, runs>>

Tick ==
  /\ now < opts.maxTime
  /\ now' = now + 1
  /\ UNCHANGED <<opts, disabled, pc, caller, resp, stores, guards, dead, runs>>

Proceeds(r) ==
  \/ Receive(r) \/ Admit(r) \/ HandleBuiltin(r) \/ BeginIdempotent(r)
  \/ Before(r) \/ Invoke(r) \/ After(r) \/ Cached(r) \/ Committed(r) \/ DeadLetter(r)

Next ==
  \/ \E r \in opts.requests : Proceeds(r)
  \/ \E t \in {Req[r].tenant : r \in opts.requests} : SetEnabled(t)
  \/ \E k \in DOMAIN stored : Forget(k)
  \/ EvictTimer
  \/ Tick

Spec == Init /\ [][Next]_vars

-----------------------------------------------------------------------------
(* Properties                                                                *)

\* A request that is answered with a result computed for another request has that
\* request's method, version, tenant and caller, and its payload whenever the method
\* cache or a supplied key is what they share; and whichever way a result reaches a
\* caller - fresh, replayed or cached - the after hook has shaped it exactly once
\* (dispatch-pipeline.ts skipAfterHook and commit, router-runtime.ts cacheKey).
AnswersAreOurs ==
  \A r \in Requests : pc[r] = "done" /\ resp[r].code = "ok" /\ Req[r].name # "nevo.health" =>
    LET q == resp[r].of
    IN  /\ <<Req[q].name, Req[q].tenant, caller[q]>> = <<Req[r].name, Req[r].tenant, caller[r]>>
        /\ Req[q].version = Req[r].version
        /\ Req[q].payload = Req[r].payload \/ Req[q].uuid = Req[r].uuid
        /\ resp[r].hooks = IF opts.hooks THEN 1 ELSE 0

\* With the replay guard on, the handler is started at most once for one message, however
\* often and however late it is delivered, unless the message was stamped ahead of the
\* receiver's clock; such a message is refused for a whole window after it passed, and its
\* stamp may then still be good (replay-protection.ts check; the LRU has room for a window).
ReplaysRefused ==
  opts.replay => \A r, q \in runs : Req[r].uuid = Req[q].uuid /\ entered[r] <= entered[q] =>
    r = q \/ (Req[r].ts > entered[r] /\ entered[q] - entered[r] > Window)

\* A key that always has a bucket of its own gets at most its capacity plus what was
\* refilled meanwhile, through every eviction of idle buckets (rate-limit.ts).
RateBound ==
  \A a, b \in taken : a.key = b.key /\ a.at <= b.at =>
    LET mine == {t \in taken : t.key = a.key /\ t.at \in a.at..b.at}
    IN  (\A t \in mine : ~t.shared) =>
          Cardinality(mine) <= CapacityOf[a.key] + (b.at - a.at) * RefillOf[a.key]

\* A key is owned only by a request that is still being handled, so that duplicates
\* never wait for a result nobody is going to produce: every early return, hook
\* failure and handler failure releases the claim (dispatch-pipeline.ts finally).
NoOrphanClaim ==
  \A k \in DOMAIN claim : pc[claim[k]] \in {"before", "run", "after", "cached", "throwing"}

\* Two requests with one idempotency key are never handled at the same time, however
\* their hooks, handlers and cached answers interleave (dispatch-pipeline.ts begin).
HandledOneAtATime ==
  \A r, q \in Requests :
    /\ Keyed(r) /\ Keyed(q) /\ ServerIdempotencyKey(r) = ServerIdempotencyKey(q)
    /\ {pc[r], pc[q]} \subseteq {"before", "run", "after", "cached"}
    => r = q

=============================================================================
