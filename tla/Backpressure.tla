---------------------------- MODULE Backpressure ----------------------------
(***************************************************************************)
(* Handlers behind a BackpressureLimiter: a subscription handler with a      *)
(* limiter of its own, or methods whose limiters live in a bounded map by    *)
(* key.  A delivery finds its limiter and begins in one turn.               *)
(***************************************************************************)
EXTENDS Integers, Sequences, SequencesExt, FiniteSets, FiniteSetsExt

CONSTANTS
  Messages, KeyOf,   \* the widened key of each message
  Forms,             \* keyed; the overflow strategy; max and, -1 when left to the code, high and low
  MaxKeys,           \* MAX_RUNTIME_KEYS
  MaxLate            \* bound: messages delivered in spite of a pause: on their way, or the pause was lost

VARIABLES
  form,
  bound,     \* has the subscription been assigned, so that it can be paused
  held,      \* the subscription is paused
  order,     \* keys of the map of limiters, least recently used first
  current,   \* the limiter of a key, by number
  limiter,   \* limiters created so far
  at,        \* each message: "new", "running", or how it ended
  by,        \* its limiter
  late       \* messages delivered after their limiter had asked for a pause

vars == <<form, bound, held, order, current, limiter, at, by, late>>

\* The constructor's defaults.
High == IF form.high >= 0 THEN form.high ELSE (form.max * 9) \div 10
Low == IF form.low >= 0 THEN form.low ELSE form.max \div 2

Init ==
  /\ form \in Forms /\ bound = FALSE /\ held = FALSE
  /\ order = <<>> /\ current = [k \in {} |-> 0] /\ limiter = <<>>
  /\ at = [m \in Messages |-> "new"] /\ by = [m \in Messages |-> 0] /\ late = {}

-----------------------------------------------------------------------------
\* lruEvict: the least recently used limiter that nothing runs under; with none, the map grows.
EvictOldest(keys) == IF Len(keys) < MaxKeys THEN keys ELSE Tail(keys)   \* mutant: the limiter may be in use
Evict(keys) ==
  LET idle == {i \in DOMAIN keys : limiter[current[keys[i]]].inflight = 0}
  IN  IF Len(keys) < MaxKeys \/ idle = {} THEN keys ELSE RemoveAt(keys, Min(idle))

\* lruGet, or a new limiter: the order of the map after it, and the limiter's number.
Found(k) ==
  IF k \in Range(order)
  THEN [order |-> Append(SelectSeq(order, LAMBDA x : x # k), k), id |-> current[k], limiters |-> limiter]
  ELSE [order |-> Append(Evict(order), k), id |-> Len(limiter) + 1,
        limiters |-> Append(limiter, [inflight |-> 0, paused |-> FALSE])]

\* onPause and onResume reach the subscription once it is assigned.
Told(pause) == held' = IF bound THEN pause ELSE held

Refused == CASE form.overflow = "drop" -> {"dropped"}
             [] form.overflow = "nack" -> {"nacked", "nack failed"}
             [] OTHER -> {"rejected"}

Deliver(m) ==
  LET f == Found(IF form.keyed THEN KeyOf[m] ELSE "handler")
      l == f.limiters[f.id]
      inflight == l.inflight + 1
      pauses == inflight >= High /\ ~l.paused
  IN  /\ at[m] = "new" /\ (l.paused => Cardinality(late) < MaxLate)
      /\ late' = IF l.paused THEN late \cup {m} ELSE late
      /\ order' = f.order
      /\ current' = [k \in Range(f.order) |-> IF k \in DOMAIN current /\ k # Last(f.order) THEN current[k] ELSE f.id]
      /\ IF l.inflight >= form.max
         THEN /\ \E end \in Refused : at' = [at EXCEPT ![m] = end]
              /\ limiter' = f.limiters /\ UNCHANGED <<held, by>>
         ELSE /\ at' = [at EXCEPT ![m] = "running"] /\ by' = [by EXCEPT ![m] = f.id]
              /\ limiter' = [f.limiters EXCEPT ![f.id] = [inflight |-> inflight, paused |-> l.paused \/ pauses]]
              /\ IF pauses THEN Told(TRUE) ELSE UNCHANGED held
      /\ UNCHANGED <<form, bound>>

\* The handler returns or throws: finally.
EndsAbove(m) ==     \* mutant: resumed below the low watermark only
  LET l == limiter[by[m]]
      inflight == Max({0, l.inflight - 1})
      resumes == inflight < Low /\ l.paused
  IN  /\ at[m] = "running" /\ at' = [at EXCEPT ![m] = "ended"]
      /\ limiter' = [limiter EXCEPT ![by[m]] = [inflight |-> inflight, paused |-> l.paused /\ ~resumes]]
      /\ IF resumes THEN Told(FALSE) ELSE UNCHANGED held
      /\ UNCHANGED <<form, bound, order, current, by, late>>
Ends(m) ==
  LET l == limiter[by[m]]
      inflight == Max({0, l.inflight - 1})
      resumes == inflight <= Low /\ l.paused
  IN  /\ at[m] = "running" /\ at' = [at EXCEPT ![m] = "ended"]
      /\ limiter' = [limiter EXCEPT ![by[m]] = [inflight |-> inflight, paused |-> l.paused /\ ~resumes]]
      /\ IF resumes THEN Told(FALSE) ELSE UNCHANGED held
      /\ UNCHANGED <<form, bound, order, current, by, late>>

\* subscribe() returns: from now on the limiter's callbacks find the subscription.
Assigned == ~bound /\ bound' = TRUE /\ UNCHANGED <<form, held, order, current, limiter, at, by, late>>

Next == Assigned \/ \E m \in Messages : Deliver(m) \/ Ends(m)

Spec == Init /\ [][Next]_vars

-----------------------------------------------------------------------------
Running(S) == {m \in S : at[m] = "running"}

\* The cap holds for every key although limiters are evicted and created again; a subscription is
\* never left paused with nothing running, which nobody would end; and a message is refused
\* only if it came in spite of the pause its limiter had asked for.
LoadBounded ==
  LET key(m) == IF form.keyed THEN KeyOf[m] ELSE "handler"
  IN  /\ \A m \in Messages : Cardinality(Running({n \in Messages : key(n) = key(m)})) <= form.max
      /\ ~form.keyed =>
           /\ held => Running(Messages) # {}
           /\ High <= form.max /\ form.max > 0 =>
                \A m \in Messages : at[m] \in {"dropped", "nacked", "nack failed", "rejected"} => m \in late

=============================================================================
