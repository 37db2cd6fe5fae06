---------------------------- MODULE ClientProofs ----------------------------
(***************************************************************************)
(* What a client keeps true through retries, hedging, timeouts, refusals    *)
(* and a concurrent close(), for any calls, keys, options and bounds.  The  *)
(* inductive invariant Inv has six parts:                                   *)
(*   Typed     the calls, with a retry still to come while one backs off;   *)
(*   Copies    the hedged copies of every attempt add up;                   *)
(*   Tracking  the tracked calls are the calls in the pipeline;             *)
(*   Ending    a drain of shutdown() that was resolved saw its calls off,   *)
(*             and hooks run after it;                                      *)
(*   Circuits  a registry holds one circuit per key, and a probe in flight  *)
(*             is a call in flight for that key;                            *)
(*   Limited   the limiter counts the calls inside applyResilience.         *)
(***************************************************************************)
EXTENDS ClientCall, FiniteSetTheorems, TLAPS

USE Zenon

Pcs == {"idle", "gate", "try", "busy", "tryrest", "rest"} \cup Settled
CallRecord == [pc : Pcs, attempt : 0..MaxAttempts, try : Nat, tries : Nat, used : 0..MaxPhysical,
               gen : Nat, probe : Int]
Attempt == {a \in [fired : Nat, live : Nat, rejected : Nat, won : BOOLEAN] : a.live + a.rejected <= a.fired}
DrainStates == {"idle", "waiting", "resolved", "timedOut", "done", "gaveUp"}

Insiders == {c \in Calls : Inside(c)}

Typed ==
  /\ opts \in Options /\ now \in 0..MaxTime
  /\ call \in [Calls -> CallRecord]
  /\ \A c \in Calls : call[c].pc = "rest" => call[c].attempt < MaxAttempts

Copies == att \in [Calls -> [Gens -> Attempt]]

Pipeline == {c \in Calls : InPipeline(c)}
Tracking == tracked = Pipeline

Ending ==
  /\ drain \in [Drains -> DrainStates] /\ resolver \in Drains \cup {NoDrain} /\ hooksLeft \in 0..Hooks
  /\ atClose \subseteq Calls /\ \A c \in atClose : call[c].pc # "idle"
  /\ drain["shutdown"] \in {"resolved", "done"} => atClose \cap tracked = {}
  /\ hooksLeft < Hooks => drain["shutdown"] \in {"done", "gaveUp"}

\* A circuit has its fields; a registry is a sequence of circuits with different keys.
IsCircuit(d) ==
  d = [key |-> d.key, state |-> d.state, openedAt |-> d.openedAt, inFlight |-> d.inFlight, probeAt |-> d.probeAt,
       failures |-> d.failures, successes |-> d.successes, buckets |-> d.buckets]
IsRegistry(B) ==
  /\ Len(B) \in Nat /\ DOMAIN B = 1..Len(B)
  /\ \A i \in DOMAIN B : IsCircuit(B[i])
  /\ \A i, j \in DOMAIN B : B[i].key = B[j].key => i = j

\* The keys for which a probe is in flight.
InProbe(d) == d.state = "half-open" /\ d.inFlight
Probes(B) == {B[i].key : i \in {j \in DOMAIN B : InProbe(B[j])}}

Circuits ==
  /\ breakers = [client |-> breakers.client, method |-> breakers.method]
  /\ IsRegistry(breakers.client) /\ IsRegistry(breakers.method)
  /\ ~opts.breaker => breakers.client = <<>>
  /\ opts.circuit = "none" => breakers.method = <<>>
  /\ Probes(breakers.client) \subseteq {KeyOf[c] : c \in Pipeline}
  /\ Probes(breakers.method) \subseteq {KeyOf[c] : c \in Insiders}

Limited ==
  /\ limiter \in [inflight : Nat, paused : BOOLEAN] /\ IsFiniteSet(Insiders)
  /\ opts.backpressure =>
       /\ limiter.inflight = Cardinality(Insiders) /\ limiter.inflight <= MaxInflight
       /\ limiter.paused => limiter.inflight > Low
       /\ ~limiter.paused => limiter.inflight < High
  /\ ~opts.backpressure => limiter.inflight = 0

Inv == Typed /\ Copies /\ Tracking /\ Ending /\ Circuits /\ Limited

-----------------------------------------------------------------------------
(* Registries of circuits                                                    *)

\* A circuit updated in place.
LEMMA UpdateCircuit ==
  ASSUME NEW B, IsRegistry(B), NEW i \in DOMAIN B, NEW d, IsCircuit(d), d.key = B[i].key
  PROVE  /\ IsRegistry([B EXCEPT ![i] = d])
         /\ ~InProbe(d) => Probes([B EXCEPT ![i] = d]) \subseteq Probes(B) \ {d.key}
         /\ InProbe(B[i]) => Probes([B EXCEPT ![i] = d]) \subseteq Probes(B)
         /\ Probes([B EXCEPT ![i] = d]) \subseteq Probes(B) \cup {d.key}
<1>. DEFINE C == [B EXCEPT ![i] = d]
<1>1. /\ DOMAIN C = DOMAIN B /\ C[i] = d /\ \A j \in DOMAIN B : j # i => C[j] = B[j]
      /\ Len(C) = Len(B)
  BY SMTT(30) DEF IsRegistry
<1>. HIDE DEF C
<1>2. \A j, k \in DOMAIN B : B[j].key = B[k].key => j = k
  BY DEF IsRegistry
<1>3. IsRegistry(C)
  <2>1. Len(C) \in Nat /\ DOMAIN C = 1..Len(C)
    BY <1>1 DEF IsRegistry
  <2>2. \A j \in DOMAIN C : IsCircuit(C[j])
    BY <1>1 DEF IsRegistry
  <2>3. \A j \in DOMAIN C : C[j].key = B[j].key
    BY <1>1
  <2>. QED
    BY <1>1, <1>2, <2>1, <2>2, <2>3 DEF IsRegistry
<1>4. ASSUME NEW k \in Probes(C), k # d.key
      PROVE  k \in Probes(B)
  BY <1>1, <1>4 DEF Probes
<1>5. ASSUME ~InProbe(d)
      PROVE  d.key \notin Probes(C)
  BY <1>1, <1>2, <1>5 DEF Probes
<1>6. ASSUME InProbe(B[i])
      PROVE  d.key \in Probes(B)
  BY <1>6 DEF Probes
<1>. QED
  BY <1>3, <1>4, <1>5, <1>6 DEF C

\* Creating a circuit, and evicting another to make room, starts no probe.
LEMMA Created ==
  ASSUME NEW B, IsRegistry(B), NEW key, NEW maxKeys \in Nat \ {0}
  PROVE  /\ IsRegistry(GetOrCreate(B, key, maxKeys))
         /\ At(GetOrCreate(B, key, maxKeys), key) \in DOMAIN GetOrCreate(B, key, maxKeys)
         /\ GetOrCreate(B, key, maxKeys)[At(GetOrCreate(B, key, maxKeys), key)].key = key
         /\ Probes(GetOrCreate(B, key, maxKeys)) \subseteq Probes(B)
<1>. DEFINE G == GetOrCreate(B, key, maxKeys)
<1>1. CASE Has(B, key)
  <2>1. G = B
    BY <1>1 DEF GetOrCreate
  <2>2. At(B, key) \in DOMAIN B /\ B[At(B, key)].key = key
    BY <1>1 DEF Has, At
  <2>. QED
    BY <2>1, <2>2
<1>2. CASE ~Has(B, key)
  <2>. DEFINE E == EvictIfFull(B, maxKeys)
  <2>1. /\ Len(E) \in Nat /\ DOMAIN E = 1..Len(E)
        /\ \E f \in [DOMAIN E -> DOMAIN B] : /\ \A j \in DOMAIN E : E[j] = B[f[j]]
                                           /\ \A j, k \in DOMAIN E : f[j] = f[k] => j = k
    <3>1. CASE Len(B) < maxKeys
      <4>1. E = B
        BY <3>1 DEF EvictIfFull
      <4>. DEFINE f == [j \in DOMAIN B |-> j]
      <4>2. f \in [DOMAIN E -> DOMAIN B] /\ \A j \in DOMAIN E : E[j] = B[f[j]] /\ f[j] = j
        BY <4>1
      <4>. QED
        BY <4>1, <4>2 DEF IsRegistry
    <3>2. CASE ~(Len(B) < maxKeys)
      <4>. DEFINE closed == {i \in DOMAIN B : B[i].state = "closed"}
                  goes == IF closed = {} THEN {1} ELSE closed
                  f == [j \in 1..(Len(B) - 1) |-> IF \E i \in goes : i <= j THEN j + 1 ELSE j]
      <4>1. E = [j \in 1..(Len(B) - 1) |-> B[IF \E i \in goes : i <= j THEN j + 1 ELSE j]]
        BY <3>2 DEF EvictIfFull
      <4>2. Len(B) \in Nat \ {0} /\ DOMAIN B = 1..Len(B)
        BY <3>2, SMTT(30) DEF IsRegistry
      <4>3. goes \subseteq Int
        BY <4>2, SMTT(30)
      <4>. HIDE DEF goes
      <4>4. DOMAIN E = 1..(Len(B) - 1) /\ Len(E) = Len(B) - 1 /\ Len(E) \in Nat
        BY <4>1, <4>2, SMTT(30)
      <4>5. f \in [1..(Len(B) - 1) -> DOMAIN B] /\ \A j, k \in 1..(Len(B) - 1) : f[j] = f[k] => j = k
        BY <4>2, <4>3, SMTT(30)
      <4>6. \A j \in DOMAIN E : E[j] = B[f[j]]
        BY <4>1, <4>4
      <4>. QED
        BY <4>4, <4>5, <4>6
    <3>. QED
      BY <3>1, <3>2
  <2>2. PICK f \in [DOMAIN E -> DOMAIN B] : /\ \A j \in DOMAIN E : E[j] = B[f[j]]
                                           /\ \A j, k \in DOMAIN E : f[j] = f[k] => j = k
    BY <2>1
  <2>3. G = Append(E, NewCircuit(key))
    BY <1>2 DEF GetOrCreate
  <2>. DEFINE n == Len(E) + 1
  <2>4. /\ DOMAIN G = 1..n /\ Len(G) = n /\ n \in Nat /\ G[n] = NewCircuit(key)
        /\ \A j \in DOMAIN E : G[j] = E[j]
    BY <2>1, <2>3, SMTT(30)
  <2>. HIDE DEF G, E
  <2>5. \A j \in DOMAIN G : j = n \/ (j \in DOMAIN E /\ f[j] \in DOMAIN B /\ G[j] = B[f[j]])
    BY <2>1, <2>2, <2>4, SMTT(30)
  <2>6. NewCircuit(key).key = key /\ IsCircuit(NewCircuit(key)) /\ ~InProbe(NewCircuit(key))
    BY DEF NewCircuit, IsCircuit, InProbe
  <2>7. IsRegistry(G)
    <3>1. \A j \in DOMAIN G : IsCircuit(G[j])
      BY <2>4, <2>5, <2>6, ZenonT(60) DEF IsRegistry
    <3>2. \A j \in DOMAIN G : j # n => G[j].key # key
      BY <1>2, <2>5 DEF Has
    <3>3. \A j, k \in DOMAIN G : G[j].key = G[k].key => j = k
      BY <2>2, <2>4, <2>5, <2>6, <3>2, SMTT(30) DEF IsRegistry
    <3>. QED
      BY <2>4, <3>1, <3>3 DEF IsRegistry
  <2>8. \E j \in DOMAIN G : G[j].key = key
    BY <2>1, <2>4, <2>6, SMTT(30)
  <2>9. At(G, key) \in DOMAIN G /\ G[At(G, key)].key = key
    BY <2>8 DEF At
  <2>10. Probes(G) \subseteq Probes(B)
    BY <2>4, <2>5, <2>6, SMTT(30) DEF Probes
  <2>. QED
    BY <2>7, <2>9, <2>10 DEF G
<1>. QED
  BY <1>1, <1>2

\* Setting one field of a circuit leaves a circuit with the other fields as they were.
LEMMA Edited ==
  ASSUME NEW d, IsCircuit(d), NEW z
  PROVE  /\ LET e == [d EXCEPT !.failures = z]
            IN  IsCircuit(e) /\ e.key = d.key /\ e.state = d.state
         /\ LET e == [d EXCEPT !.successes = z]
            IN  IsCircuit(e) /\ e.key = d.key /\ e.state = d.state
         /\ LET e == [d EXCEPT !.buckets = z]
            IN  IsCircuit(e) /\ e.key = d.key /\ e.state = d.state
BY SMTT(30) DEF IsCircuit

LEMMA StateSet ==
  ASSUME NEW d, IsCircuit(d), NEW z
  PROVE  IsCircuit([d EXCEPT !.state = z]) /\ [d EXCEPT !.state = z].key = d.key /\ [d EXCEPT !.state = z].state = z
BY SMTT(30) DEF IsCircuit

LEMMA NotInFlight ==
  ASSUME NEW d, IsCircuit(d)
  PROVE  IsCircuit([d EXCEPT !.inFlight = FALSE]) /\ [d EXCEPT !.inFlight = FALSE].key = d.key
<1>. DEFINE no == FALSE
<1>. SUFFICES IsCircuit([d EXCEPT !.inFlight = no]) /\ [d EXCEPT !.inFlight = no].key = d.key
  OBVIOUS
<1>. HIDE DEF no
<1>. QED
  BY SMTT(30) DEF IsCircuit

\* Counting a success leaves a circuit with the same key.
LEMMA SuccessRecorded ==
  ASSUME NEW mode, NEW d, IsCircuit(d), NEW t
  PROVE  IsCircuit(RecordOutcome(mode, d, TRUE, t)) /\ RecordOutcome(mode, d, TRUE, t).key = d.key
BY DEF RecordOutcome, IsCircuit

\* So does counting a failure.
LEMMA FailureRecorded ==
  ASSUME NEW mode, NEW d, IsCircuit(d), NEW t
  PROVE  IsCircuit(RecordOutcome(mode, d, FALSE, t)) /\ RecordOutcome(mode, d, FALSE, t).key = d.key
BY DEF RecordOutcome, IsCircuit

\* before(): only an admitted call starts a probe, for its own key.
LEMMA Admission ==
  ASSUME NEW B, IsRegistry(B), NEW key, NEW maxKeys \in Nat \ {0}, NEW t
  PROVE  LET b == Before(B, key, maxKeys, t)
         IN  /\ IsRegistry(b.circuits)
             /\ b.admitted  => Probes(b.circuits) \subseteq Probes(B) \cup {key}
             /\ ~b.admitted => Probes(b.circuits) \subseteq Probes(B)
<1>. DEFINE G == GetOrCreate(B, key, maxKeys)
            i == At(G, key)
            r == BeforeCircuit(G[i], t)
            d == r.circuit
<1>1. IsRegistry(G) /\ i \in DOMAIN G /\ G[i].key = key /\ Probes(G) \subseteq Probes(B)
  BY Created
<1>2. Before(B, key, maxKeys, t) = [admitted |-> r.admitted, circuits |-> [G EXCEPT ![i] = d]]
  BY DEF Before
<1>3. IsCircuit(G[i])
  BY <1>1 DEF IsRegistry
<1>. HIDE DEF G, i
<1>4. IsCircuit(d) /\ d.key = G[i].key /\ (r.admitted \/ ~InProbe(d) \/ InProbe(G[i]))
  BY <1>3 DEF BeforeCircuit, IsCircuit, InProbe
<1>. HIDE DEF r
<1>5. /\ IsRegistry([G EXCEPT ![i] = d])
      /\ ~InProbe(d) \/ InProbe(G[i]) => Probes([G EXCEPT ![i] = d]) \subseteq Probes(G)
      /\ Probes([G EXCEPT ![i] = d]) \subseteq Probes(G) \cup {key}
  BY <1>1, <1>4, UpdateCircuit
<1>6. ~r.admitted => ~InProbe(d) \/ InProbe(G[i])
  BY <1>4
<1>. DEFINE C == [G EXCEPT ![i] = d]
<1>7. Before(B, key, maxKeys, t).circuits = C /\ Before(B, key, maxKeys, t).admitted = r.admitted
  BY <1>2, SMTT(30)
<1>. HIDE DEF C
<1>8. IsRegistry(C) /\ Probes(C) \subseteq Probes(B) \cup {key} /\ (~r.admitted => Probes(C) \subseteq Probes(B))
  BY <1>1, <1>5, <1>6 DEF C
<1>. QED
  BY <1>7, <1>8

\* onSuccess ends the probe of its key.
LEMMA SuccessEndsProbe ==
  ASSUME NEW mode, NEW B, IsRegistry(B), NEW key, NEW maxKeys \in Nat \ {0}, NEW t
  PROVE  /\ IsRegistry(OnSuccess(mode, B, key, maxKeys, t))
         /\ Probes(OnSuccess(mode, B, key, maxKeys, t)) \subseteq Probes(B) \ {key}
<1>. DEFINE G == GetOrCreate(B, key, maxKeys)
            i == At(G, key)
            d == RecordOutcome(mode, G[i], TRUE, t)
            p == [d EXCEPT !.inFlight = FALSE, !.successes = @ + 1]
            n == CASE d.state # "half-open" -> d
                   [] d.state = "half-open" /\ p.successes >= HalfOpenSuccessThreshold
                                            -> ResetOnClose([p EXCEPT !.state = "closed"])
                   [] OTHER                 -> p
<1>1. IsRegistry(G) /\ i \in DOMAIN G /\ G[i].key = key /\ Probes(G) \subseteq Probes(B)
  BY Created
<1>2. OnSuccess(mode, B, key, maxKeys, t) = [G EXCEPT ![i] = n]
  BY DEF OnSuccess
<1>3. IsCircuit(G[i])
  BY <1>1 DEF IsRegistry
<1>. HIDE DEF G, i
<1>4. IsCircuit(d) /\ d.key = key
  <2>1. IsCircuit(d) /\ d.key = G[i].key
    BY <1>3, SuccessRecorded, ZenonT(60)
  <2>. QED
    BY <1>1, <2>1
<1>. HIDE DEF d
<1>5. IsCircuit(n) /\ n.key = key /\ ~InProbe(n)
  <2>1. CASE d.state # "half-open"
    BY <1>4, <2>1 DEF InProbe
  <2>2. CASE d.state = "half-open"
    <3>. DEFINE d1 == [d EXCEPT !.inFlight = FALSE]
                q  == [d1 EXCEPT !.successes = d.successes + 1]
                y1 == [q EXCEPT !.state = "closed"]
                y2 == [y1 EXCEPT !.failures = 0]
                y3 == [y2 EXCEPT !.successes = 0]
                y  == [y3 EXCEPT !.buckets = <<>>]
    <3>1. p = q /\ ResetOnClose([p EXCEPT !.state = "closed"]) = y
      BY DEF ResetOnClose
    <3>2. IsCircuit(d1) /\ d1.key = key
      <4>1. IsCircuit(d1) /\ d1.key = d.key
        BY <1>4, NotInFlight
      <4>. QED
        BY <1>4, <4>1
    <3>3. ~q.inFlight
      BY <1>4 DEF IsCircuit
    <3>. HIDE DEF d1
    <3>4. IsCircuit(q) /\ q.key = key
      BY <3>2, Edited
    <3>. HIDE DEF q
    <3>5. IsCircuit(y1) /\ y1.key = key /\ y1.state = "closed"
      BY <3>4, StateSet
    <3>. HIDE DEF y1
    <3>6. IsCircuit(y2) /\ y2.key = key /\ y2.state = "closed"
      BY <3>5, Edited
    <3>. HIDE DEF y2
    <3>7. IsCircuit(y3) /\ y3.key = key /\ y3.state = "closed"
      BY <3>6, Edited
    <3>. HIDE DEF y3
    <3>8. IsCircuit(y) /\ y.key = key /\ y.state = "closed"
      BY <3>7, Edited
    <3>9. n = y \/ n = q
      BY <2>2, <3>1
    <3>. HIDE DEF p, n, y
    <3>. QED
      BY <3>3, <3>4, <3>8, <3>9 DEF InProbe
  <2>. QED
    BY <2>1, <2>2
<1>. HIDE DEF n
<1>6. IsRegistry([G EXCEPT ![i] = n]) /\ Probes([G EXCEPT ![i] = n]) \subseteq Probes(G) \ {key}
  BY <1>1, <1>5, UpdateCircuit
<1>. QED
  BY <1>1, <1>2, <1>6

\* onFailure ends the probe of its key too, also for an error of the client's own.
LEMMA FailureEndsProbe ==
  ASSUME NEW mode, NEW B, IsRegistry(B), NEW key, NEW maxKeys \in Nat \ {0}, NEW t, NEW err
  PROVE  /\ IsRegistry(OnFailure(mode, B, key, maxKeys, t, err))
         /\ Probes(OnFailure(mode, B, key, maxKeys, t, err)) \subseteq Probes(B) \ {key}
<1>1. CASE ClientFault(err)
  <2>. DEFINE C == ReleaseProbe(B, key)
  <2>1. OnFailure(mode, B, key, maxKeys, t, err) = C
    BY <1>1 DEF OnFailure
  <2>2. DOMAIN B = 1..Len(B) /\ Len(B) \in Nat /\ \A j \in DOMAIN B : IsCircuit(B[j])
    BY DEF IsRegistry
  <2>3. /\ DOMAIN C = DOMAIN B
        /\ \A j \in DOMAIN B : C[j] = IF B[j].key = key /\ B[j].state = "half-open"
                                    THEN [B[j] EXCEPT !.inFlight = FALSE] ELSE B[j]
    BY DEF ReleaseProbe
  <2>4. Len(C) = Len(B)
    BY <2>2, SMTT(30) DEF ReleaseProbe
  <2>. HIDE DEF C
  <2>5. \A j \in DOMAIN B : /\ IsCircuit(C[j]) /\ C[j].key = B[j].key
                           /\ (InProbe(C[j]) => InProbe(B[j]) /\ B[j].key # key)
    BY <2>2, <2>3 DEF IsCircuit, InProbe
  <2>6. \A j, k \in DOMAIN B : B[j].key = B[k].key => j = k
    BY DEF IsRegistry
  <2>7. IsRegistry(C)
    <3>1. Len(C) \in Nat /\ DOMAIN C = 1..Len(C)
      BY <2>2, <2>3, <2>4
    <3>2. \A j \in DOMAIN C : IsCircuit(C[j]) /\ C[j].key = B[j].key
      BY <2>3, <2>5
    <3>. QED
      BY <2>3, <2>6, <3>1, <3>2 DEF IsRegistry
  <2>8. ASSUME NEW k \in Probes(C)
        PROVE  k \in Probes(B) /\ k # key
    <3>1. PICK j \in DOMAIN C : InProbe(C[j]) /\ k = C[j].key
      BY DEF Probes
    <3>. QED
      BY <2>3, <2>5, <3>1 DEF Probes
  <2>. QED
    BY <2>1, <2>7, <2>8
<1>2. CASE ~ClientFault(err)
  <2>. DEFINE G == GetOrCreate(B, key, maxKeys)
              i == At(G, key)
              d == RecordOutcome(mode, G[i], FALSE, t)
              s == ShouldOpen(mode, d, t)
              n == CASE d.state = "half-open" -> Opened([d EXCEPT !.inFlight = FALSE], t)
                     [] d.state = "closed" /\ s -> Opened(d, t)
                     [] OTHER -> d
  <2>1. IsRegistry(G) /\ i \in DOMAIN G /\ G[i].key = key /\ Probes(G) \subseteq Probes(B)
    BY Created
  <2>2. OnFailure(mode, B, key, maxKeys, t, err) = [G EXCEPT ![i] = n]
    BY <1>2 DEF OnFailure
  <2>3. IsCircuit(G[i])
    BY <2>1 DEF IsRegistry
  <2>. HIDE DEF G, i
  <2>4. IsCircuit(d) /\ d.key = key
    <3>1. IsCircuit(d) /\ d.key = G[i].key
      BY <2>3, FailureRecorded, ZenonT(60)
    <3>. QED
      BY <2>1, <3>1
  <2>. HIDE DEF d, s
  <2>5. IsCircuit(n) /\ n.key = key /\ ~InProbe(n)
    BY <2>4 DEF Opened, IsCircuit, InProbe
  <2>. HIDE DEF n
  <2>6. IsRegistry([G EXCEPT ![i] = n]) /\ Probes([G EXCEPT ![i] = n]) \subseteq Probes(G) \ {key}
    BY <2>1, <2>5, UpdateCircuit
  <2>. QED
    BY <2>1, <2>2, <2>6
<1>. QED
  BY <1>1, <1>2

-----------------------------------------------------------------------------
(* Steps of one call                                                         *)

\* Only call c moves.
Moves(c) == call' \in [Calls -> CallRecord] /\ \A d \in Calls : d # c => call'[d] = call[d]

\* The other calls stay in the pipeline, or inside applyResilience, where they were.
LEMMA OthersStay ==
  ASSUME NEW c \in Calls, Moves(c)
  PROVE  /\ \A d \in Calls : d # c => (d \in Insiders' <=> d \in Insiders) /\ (d \in Pipeline' <=> d \in Pipeline)
         /\ (c \in Insiders' <=> Inside(c)') /\ (c \in Insiders <=> Inside(c))
         /\ (c \in Pipeline' <=> InPipeline(c)') /\ (c \in Pipeline <=> InPipeline(c))
         /\ Insiders \subseteq Calls /\ Insiders' \subseteq Calls /\ Pipeline \subseteq Calls /\ Pipeline' \subseteq Calls
BY DEF Moves, Insiders, Pipeline, Inside, InPipeline

\* Probes stay accounted for: the call that moves is still there, or its key is no
\* longer probed, or the call was not there before and no probe was added.
LEMMA Covered ==
  ASSUME NEW c, NEW S, NEW T, NEW P, NEW Q,
         P \subseteq {KeyOf[d] : d \in S}, S \ {c} \subseteq T, Q \subseteq P \cup {KeyOf[c]},
         c \in T \/ KeyOf[c] \notin Q \/ (c \notin S /\ Q \subseteq P)
  PROVE  Q \subseteq {KeyOf[d] : d \in T}
<1>. SUFFICES ASSUME NEW k \in Q
              PROVE  \E d \in T : k = KeyOf[d]
  OBVIOUS
<1>1. CASE k = KeyOf[c] /\ c \in T
  BY <1>1
<1>2. CASE k \in P /\ (k # KeyOf[c] \/ c \notin S)
  <2>1. PICK d \in S : k = KeyOf[d]
    BY <1>2
  <2>. QED
    BY <1>2, <2>1
<1>. QED
  BY <1>1, <1>2

\* The clients' and the methods' circuits after call c moved.
LEMMA CircuitsKept ==
  ASSUME Circuits, NEW c \in Calls, Moves(c), opts' = opts, NEW A, NEW M, breakers' = [client |-> A, method |-> M],
         IsRegistry(A), IsRegistry(M), ~opts.breaker => A = <<>>, opts.circuit = "none" => M = <<>>,
         Probes(A) \subseteq Probes(breakers.client) \cup {KeyOf[c]},
         InPipeline(c)' \/ KeyOf[c] \notin Probes(A) \/ (~InPipeline(c) /\ Probes(A) \subseteq Probes(breakers.client)),
         Probes(M) \subseteq Probes(breakers.method) \cup {KeyOf[c]},
         Inside(c)' \/ KeyOf[c] \notin Probes(M) \/ (~Inside(c) /\ Probes(M) \subseteq Probes(breakers.method))
  PROVE  Circuits'
<1>1. breakers'.client = A /\ breakers'.method = M
  OBVIOUS
<1>2. Pipeline \ {c} \subseteq Pipeline' /\ Insiders \ {c} \subseteq Insiders'
  BY OthersStay
<1>3. Probes(A) \subseteq {KeyOf[d] : d \in Pipeline'}
  <2>1. Probes(breakers.client) \subseteq {KeyOf[d] : d \in Pipeline}
    BY DEF Circuits
  <2>2. c \in Pipeline' \/ KeyOf[c] \notin Probes(A) \/ (c \notin Pipeline /\ Probes(A) \subseteq Probes(breakers.client))
    BY OthersStay
  <2>. QED
    BY <1>2, <2>1, <2>2, Covered, SMTT(30)
<1>4. Probes(M) \subseteq {KeyOf[d] : d \in Insiders'}
  <2>1. Probes(breakers.method) \subseteq {KeyOf[d] : d \in Insiders}
    BY DEF Circuits
  <2>2. c \in Insiders' \/ KeyOf[c] \notin Probes(M) \/ (c \notin Insiders /\ Probes(M) \subseteq Probes(breakers.method))
    BY OthersStay, ZenonT(60)
  <2>. QED
    BY <1>2, <2>1, <2>2, Covered, SMTT(30)
<1>5. (Probes(breakers.client))' = Probes(A) /\ (Probes(breakers.method))' = Probes(M)
  BY <1>1, SMTT(30) DEF Probes, InProbe
<1>6. IsRegistry(breakers.client)' /\ IsRegistry(breakers.method)'
  BY <1>1, ZenonT(60) DEF IsRegistry, IsCircuit
<1>. QED
  BY <1>1, <1>3, <1>4, <1>5, <1>6 DEF Circuits

\* The breakers after an attempt, or a call, has ended.
LEMMA Outcomes ==
  ASSUME Typed, Circuits, NEW c \in Calls, NEW err
  PROVE  /\ IsRegistry(ClientOutcome(c, err)) /\ (~opts.breaker => ClientOutcome(c, err) = <<>>)
         /\ Probes(ClientOutcome(c, err)) \subseteq Probes(breakers.client) \ {KeyOf[c]}
         /\ IsRegistry(MethodOutcome(c, err)) /\ (opts.circuit = "none" => MethodOutcome(c, err) = <<>>)
         /\ Probes(MethodOutcome(c, err)) \subseteq Probes(breakers.method) \ {KeyOf[c]}
<1>1. opts.maxKeys \in Nat \ {0}
  BY ClientAssumption DEF Typed
<1>2. IsRegistry(breakers.client) /\ IsRegistry(breakers.method)
  BY DEF Circuits
<1>3. Probes(<<>>) = {}
  BY SMTT(30) DEF Probes
<1>4. /\ IsRegistry(ClientOutcome(c, err))
      /\ Probes(ClientOutcome(c, err)) \subseteq Probes(breakers.client) \ {KeyOf[c]}
      /\ ~opts.breaker => ClientOutcome(c, err) = <<>>
  <2>1. CASE ~opts.breaker
    BY <1>2, <1>3, <2>1 DEF ClientOutcome, Circuits
  <2>2. CASE opts.breaker /\ err = "none"
    <3>1. ClientOutcome(c, err) = OnSuccess("count", breakers.client, KeyOf[c], opts.maxKeys, now)
      BY <2>2 DEF ClientOutcome
    <3>2. IsRegistry(OnSuccess("count", breakers.client, KeyOf[c], opts.maxKeys, now)) /\ Probes(OnSuccess("count", breakers.client, KeyOf[c], opts.maxKeys, now)) \subseteq Probes(breakers.client) \ {KeyOf[c]}
      BY <1>1, <1>2, SuccessEndsProbe
    <3>. QED
      BY <2>2, <3>1, <3>2
  <2>3. CASE opts.breaker /\ err # "none"
    <3>1. ClientOutcome(c, err) = OnFailure("count", breakers.client, KeyOf[c], opts.maxKeys, now, err)
      BY <2>3 DEF ClientOutcome
    <3>2. IsRegistry(OnFailure("count", breakers.client, KeyOf[c], opts.maxKeys, now, err)) /\ Probes(OnFailure("count", breakers.client, KeyOf[c], opts.maxKeys, now, err)) \subseteq Probes(breakers.client) \ {KeyOf[c]}
      BY <1>1, <1>2, FailureEndsProbe
    <3>. QED
      BY <2>3, <3>1, <3>2
  <2>. QED
    BY <2>1, <2>2, <2>3
<1>5. /\ IsRegistry(MethodOutcome(c, err))
      /\ Probes(MethodOutcome(c, err)) \subseteq Probes(breakers.method) \ {KeyOf[c]}
      /\ opts.circuit = "none" => MethodOutcome(c, err) = <<>>
  <2>1. CASE opts.circuit = "none"
    BY <1>2, <1>3, <2>1 DEF MethodOutcome, Circuits
  <2>2. CASE opts.circuit # "none" /\ err = "none"
    <3>1. MethodOutcome(c, err) = OnSuccess(opts.circuit, breakers.method, KeyOf[c], opts.maxKeys, now)
      BY <2>2 DEF MethodOutcome
    <3>2. IsRegistry(OnSuccess(opts.circuit, breakers.method, KeyOf[c], opts.maxKeys, now)) /\ Probes(OnSuccess(opts.circuit, breakers.method, KeyOf[c], opts.maxKeys, now)) \subseteq Probes(breakers.method) \ {KeyOf[c]}
      BY <1>1, <1>2, SuccessEndsProbe
    <3>. QED
      BY <2>2, <3>1, <3>2
  <2>3. CASE opts.circuit # "none" /\ err # "none"
    <3>1. MethodOutcome(c, err) = OnFailure(opts.circuit, breakers.method, KeyOf[c], opts.maxKeys, now, err)
      BY <2>3 DEF MethodOutcome
    <3>2. IsRegistry(OnFailure(opts.circuit, breakers.method, KeyOf[c], opts.maxKeys, now, err)) /\ Probes(OnFailure(opts.circuit, breakers.method, KeyOf[c], opts.maxKeys, now, err)) \subseteq Probes(breakers.method) \ {KeyOf[c]}
      BY <1>1, <1>2, FailureEndsProbe
    <3>. QED
      BY <2>3, <3>1, <3>2
  <2>. QED
    BY <2>1, <2>2, <2>3
<1>. QED
  BY <1>4, <1>5

-----------------------------------------------------------------------------
(* The limiter                                                               *)

LEMMA LimiterSame ==
  ASSUME Limited, NEW c \in Calls, Moves(c), Inside(c)' <=> Inside(c), opts' = opts, limiter' = limiter
  PROVE  Limited'
<1>1. Insiders' = Insiders
  BY OthersStay, SMTT(30)
<1>. QED
  BY <1>1 DEF Limited

LEMMA LimiterBegins ==
  ASSUME Limited, NEW c \in Calls, Moves(c), ~Inside(c), Inside(c)', opts' = opts,
         ~(opts.backpressure /\ limiter.inflight >= MaxInflight),
         limiter' = IF opts.backpressure THEN Begin(limiter) ELSE limiter
  PROVE  Limited'
<1>1. Insiders' = Insiders \cup {c} /\ c \notin Insiders /\ IsFiniteSet(Insiders)
  BY OthersStay DEF Limited
<1>2. IsFiniteSet(Insiders') /\ Cardinality(Insiders') = Cardinality(Insiders) + 1
  BY <1>1, FS_AddElement
<1>3. CASE opts.backpressure
  <2>1. limiter.inflight \in Nat /\ limiter.inflight = Cardinality(Insiders) /\ limiter.inflight < MaxInflight
    BY <1>3, ClientAssumption, SMTT(30) DEF Limited
  <2>2. limiter.paused \in BOOLEAN /\ (limiter.paused => limiter.inflight > Low)
    BY <1>3 DEF Limited
  <2>. DEFINE n == limiter.inflight + 1
              p == limiter.paused \/ n >= High
  <2>3. limiter' = [inflight |-> n, paused |-> p]
    BY <1>3 DEF Begin
  <2>4. (p => n > Low) /\ (~p => n < High) /\ n <= MaxInflight
    BY <2>1, <2>2, ClientAssumption, SMTT(30)
  <2>5. n \in Nat /\ p \in BOOLEAN
    BY <2>1, SMTT(30)
  <2>. HIDE DEF n, p
  <2>6. limiter'.inflight = n /\ limiter'.paused = p /\ limiter' \in [inflight : Nat, paused : BOOLEAN]
    BY <2>3, <2>5, SMTT(30)
  <2>7. n = Cardinality(Insiders')
    BY <1>2, <2>1 DEF n
  <2>. QED
    BY <1>2, <1>3, <2>6, <2>4, <2>7 DEF Limited
<1>4. CASE ~opts.backpressure
  BY <1>2, <1>4 DEF Limited
<1>. QED
  BY <1>3, <1>4

LEMMA LimiterEnds ==
  ASSUME Limited, NEW c \in Calls, Moves(c), Inside(c), ~Inside(c)', opts' = opts, limiter' = EndIfLimited
  PROVE  Limited'
<1>1. Insiders' = Insiders \ {c} /\ c \in Insiders /\ IsFiniteSet(Insiders)
  BY OthersStay DEF Limited
<1>2. IsFiniteSet(Insiders') /\ Cardinality(Insiders') = Cardinality(Insiders) - 1 /\ Cardinality(Insiders') \in Nat
  BY <1>1, FS_RemoveElement, FS_CardinalityType
<1>3. CASE opts.backpressure
  <2>1. limiter.inflight \in Nat /\ limiter.inflight = Cardinality(Insiders) /\ limiter.inflight <= MaxInflight
    BY <1>3 DEF Limited
  <2>2. limiter.paused \in BOOLEAN /\ (~limiter.paused => limiter.inflight < High)
    BY <1>3 DEF Limited
  <2>. DEFINE n == Cardinality(Insiders')
              p == limiter.paused /\ n > Low
  <2>3. limiter.inflight > 0 /\ limiter.inflight - 1 = n /\ n \in Nat
    BY <1>2, <2>1, SMTT(30)
  <2>. HIDE DEF n
  <2>4. limiter' = [inflight |-> n, paused |-> p]
    BY <1>3, <2>3 DEF EndIfLimited, End
  <2>5. limiter'.inflight = n /\ limiter'.paused = p /\ limiter' \in [inflight : Nat, paused : BOOLEAN]
    BY <2>2, <2>3, <2>4, SMTT(30)
  <2>6. (p => n > Low) /\ (~p => n < High) /\ n <= MaxInflight
    BY <2>1, <2>2, <2>3, ClientAssumption, SMTT(30)
  <2>. HIDE DEF p
  <2>. QED
    BY <1>2, <1>3, <2>5, <2>6 DEF Limited, n
<1>4. CASE ~opts.backpressure
  BY <1>2, <1>4 DEF Limited, EndIfLimited
<1>. QED
  BY <1>3, <1>4

\* A call refused by the method's breaker has passed through the limiter.
LEMMA LimiterBounces ==
  ASSUME Limited, NEW c \in Calls, Moves(c), ~Inside(c), ~Inside(c)', opts' = opts,
         limiter' = IF opts.backpressure THEN End(Begin(limiter)) ELSE limiter
  PROVE  Limited'
<1>1. Insiders' = Insiders
  BY OthersStay, SMTT(30)
<1>2. CASE opts.backpressure
  <2>. DEFINE n == limiter.inflight
              p == (limiter.paused \/ n + 1 >= High) /\ n > Low
  <2>1. n \in Nat /\ limiter.paused \in BOOLEAN /\ (~limiter.paused => n < High)
    BY <1>2 DEF Limited
  <2>2. n + 1 > 0 /\ (n + 1) - 1 = n
    BY <2>1, SMTT(30)
  <2>3. limiter' = End(Begin(limiter))
    BY <1>2
  <2>. DEFINE q == limiter.paused \/ n + 1 >= High
  <2>4. Begin(limiter).inflight = n + 1 /\ Begin(limiter).paused = q
    BY DEF Begin
  <2>5. (p => n > Low) /\ (~p => n < High) /\ p \in BOOLEAN
    BY <2>1, ClientAssumption, SMTT(30)
  <2>6. limiter' = [inflight |-> n, paused |-> q /\ n > Low]
    <3>. HIDE DEF n, q
    <3>. QED
      BY <2>2, <2>3, <2>4 DEF End
  <2>7. limiter'.inflight = n /\ limiter'.paused = p /\ limiter' \in [inflight : Nat, paused : BOOLEAN]
    <3>1. limiter' = [inflight |-> n, paused |-> p]
      BY <2>6
    <3>. HIDE DEF p
    <3>. QED
      BY <2>1, <2>5, <3>1, SMTT(30)
  <2>8. n = Cardinality(Insiders) /\ n <= MaxInflight
    BY <1>2 DEF Limited
  <2>. HIDE DEF n, p
  <2>. QED
    BY <1>1, <1>2, <2>5, <2>8, <2>7 DEF Limited
<1>3. CASE ~opts.backpressure
  BY <1>1, <1>3 DEF Limited
<1>. QED
  BY <1>2, <1>3

-----------------------------------------------------------------------------
(* How an attempt, a try and a call end                                      *)

\* The drain after a call has been untracked.
LEMMA Untracked ==
  ASSUME Tracking, Ending, NEW c \in Calls, Moves(c), ~InPipeline(c)', call'[c].pc # "idle", Untrack(c), UNCHANGED closing
  PROVE  Tracking' /\ Ending'
<1>1. Pipeline' = Pipeline \ {c}
  BY OthersStay
<1>2. Tracking'
  BY <1>1 DEF Tracking, Untrack
<1>3. \A d \in atClose : call'[d].pc # "idle"
  BY DEF Moves, Ending
<1>4. tracked' \subseteq tracked
  BY DEF Untrack
<1>5. CASE tracked' = {} /\ resolver # NoDrain /\ drain[resolver] = "waiting"
  <2>1. drain' = [drain EXCEPT ![resolver] = "resolved"]
    BY <1>5 DEF Untrack
  <2>2. resolver \in Drains
    BY <1>5 DEF Ending
  <2>3. drain' \in [Drains -> DrainStates]
    BY <2>1, <2>2 DEF Ending, DrainStates
  <2>4. hooksLeft < Hooks => drain'["shutdown"] \in {"done", "gaveUp"}
    BY <1>5, <2>1, <2>2 DEF Ending, Drains
  <2>. QED
    BY <1>2, <1>3, <1>5, <2>3, <2>4 DEF Ending, closing
<1>6. CASE ~(tracked' = {} /\ resolver # NoDrain /\ drain[resolver] = "waiting")
  <2>1. drain' = drain
    BY <1>6 DEF Untrack
  <2>. QED
    BY <1>2, <1>3, <1>4, <2>1 DEF Ending, closing
<1>. QED
  BY <1>5, <1>6

\* The drain after a call has moved inside the pipeline, or has settled untracked.
LEMMA StillTracked ==
  ASSUME Tracking, Ending, NEW c \in Calls, Moves(c), InPipeline(c)' <=> InPipeline(c),
         call[c].pc # "idle" => call'[c].pc # "idle", UNCHANGED <<tracked, drain, closing>>
  PROVE  Tracking' /\ Ending'
<1>1. Pipeline' = Pipeline
  BY OthersStay, SMTT(30)
<1>2. \A d \in atClose : call'[d].pc # "idle"
  BY DEF Moves, Ending
<1>. QED
  BY <1>1, <1>2 DEF Tracking, Ending, closing

\* What does not name the limiter or the attempts, before and after a step of call c.
Core == Typed /\ Tracking /\ Ending /\ Circuits

\* withRetry after a failed attempt: the call backs off and stays in the pipeline, or
\* it ends, is untracked and reports one failure.
LEMMA AttemptFails ==
  ASSUME Core, NEW c \in Calls, InPipeline(c), NEW err, NEW M, NEW used \in 0..MaxPhysical,
         AttemptFailed(c, err, M, used), UNCHANGED <<opts, now, closing>>,
         IsRegistry(M), opts.circuit = "none" => M = <<>>,
         Probes(M) \subseteq Probes(breakers.method),
         KeyOf[c] \notin Probes(M) \/ ~Inside(c)
  PROVE  Core' /\ Moves(c) /\ ~Inside(c)'
<1>. USE DEF Core
<1>1. /\ opts \in Options /\ now \in 0..MaxTime /\ call \in [Calls -> CallRecord] /\ opts' = opts /\ now' = now
      /\ \A d \in Calls : call[d].pc = "rest" => call[d].attempt < MaxAttempts
  BY DEF Typed
<1>2. /\ breakers = [client |-> breakers.client, method |-> breakers.method] /\ IsRegistry(breakers.client)
      /\ ~opts.breaker => breakers.client = <<>>
  BY DEF Circuits
<1>3. CASE call[c].attempt < MaxAttempts /\ ShouldRetry(err)
  <2>1. call' = [call EXCEPT ![c].pc = "rest", ![c].used = used] /\ UNCHANGED <<tracked, drain, cache>>
    BY <1>3 DEF AttemptFailed
  <2>2. Moves(c) /\ call'[c].pc = "rest" /\ call'[c].attempt = call[c].attempt
    BY <1>1, <2>1, ZenonT(60) DEF Moves, CallRecord, Pcs
  <2>3. InPipeline(c)' /\ ~Inside(c)'
    BY <2>2 DEF InPipeline, Inside
  <2>4. Typed'
    BY <1>1, <1>3, <2>2 DEF Typed, Moves
  <2>5. Tracking' /\ Ending'
    BY <2>1, <2>2, <2>3, StillTracked
  <2>6. breakers' = [client |-> breakers.client, method |-> M]
    BY <1>2, <1>3 DEF AttemptFailed
  <2>7. Circuits'
    BY <1>1, <1>2, <2>2, <2>3, <2>6, CircuitsKept
  <2>. QED
    BY <2>2, <2>3, <2>4, <2>5, <2>7
<1>4. CASE ~(call[c].attempt < MaxAttempts /\ ShouldRetry(err))
  <2>1. call' = [call EXCEPT ![c].pc = "failed", ![c].used = used] /\ Untrack(c)
    BY <1>4 DEF AttemptFailed
  <2>2. Moves(c) /\ call'[c].pc = "failed" /\ call'[c].attempt = call[c].attempt
    BY <1>1, <2>1, ZenonT(60) DEF Moves, CallRecord, Pcs, Settled
  <2>3. ~InPipeline(c)' /\ ~Inside(c)'
    BY <2>2 DEF InPipeline, Inside
  <2>4. Typed'
    BY <1>1, <2>2 DEF Typed, Moves
  <2>5. Tracking' /\ Ending'
    BY <2>1, <2>2, <2>3, Untracked
  <2>. DEFINE A == ClientOutcome(c, err)
  <2>6. breakers' = [client |-> A, method |-> M]
    BY <1>4 DEF AttemptFailed
  <2>7. IsRegistry(A) /\ (~opts.breaker => A = <<>>) /\ Probes(A) \subseteq Probes(breakers.client) \ {KeyOf[c]}
    BY Outcomes
  <2>. HIDE DEF A
  <2>8. Circuits'
    BY <1>1, <1>2, <2>2, <2>3, <2>6, <2>7, CircuitsKept
  <2>. QED
    BY <2>2, <2>3, <2>4, <2>5, <2>8
<1>. QED
  BY <1>3, <1>4

\* runAdaptive after a failed try: the call stays inside, or its attempt fails and it
\* leaves the limiter and the method's breaker.
LEMMA TryFails ==
  ASSUME Core, Limited, NEW c \in Calls, Inside(c), NEW err, NEW used \in 0..MaxPhysical,
         TryFailed(c, err, used), UNCHANGED <<opts, now, closing>>
  PROVE  Core' /\ Limited'
<1>1. CASE call[c].try < call[c].tries /\ ShouldRetry(err)
  <2>1. /\ call' = [call EXCEPT ![c].pc = "tryrest", ![c].used = used]
        /\ UNCHANGED <<breakers, limiter, tracked, drain, cache>>
    BY <1>1 DEF TryFailed
  <2>2. /\ opts \in Options /\ now \in 0..MaxTime /\ call \in [Calls -> CallRecord] /\ opts' = opts /\ now' = now
        /\ \A d \in Calls : call[d].pc = "rest" => call[d].attempt < MaxAttempts
    BY DEF Core, Typed
  <2>3. Moves(c) /\ call'[c].pc = "tryrest"
    BY <2>1, <2>2, ZenonT(60) DEF Moves, CallRecord, Pcs
  <2>4. Inside(c)' /\ InPipeline(c)' /\ InPipeline(c)
    BY <2>3 DEF InPipeline, Inside
  <2>5. Typed'
    BY <2>2, <2>3 DEF Typed, Moves
  <2>6. Tracking' /\ Ending'
    BY <2>1, <2>3, <2>4, StillTracked DEF Core
  <2>7. Circuits'
    BY <2>1, <2>2, <2>3, <2>4, CircuitsKept DEF Core, Circuits
  <2>8. Limited'
    BY <2>1, <2>2, <2>3, <2>4, LimiterSame
  <2>. QED
    BY <2>5, <2>6, <2>7, <2>8 DEF Core
<1>2. CASE ~(call[c].try < call[c].tries /\ ShouldRetry(err))
  <2>. DEFINE M == MethodOutcome(c, err)
  <2>1. AttemptFailed(c, err, M, used) /\ limiter' = EndIfLimited
    BY <1>2 DEF TryFailed
  <2>2. /\ IsRegistry(M) /\ (opts.circuit = "none" => M = <<>>)
        /\ Probes(M) \subseteq Probes(breakers.method) \ {KeyOf[c]}
    BY Outcomes DEF Core
  <2>. HIDE DEF M
  <2>3. InPipeline(c)
    BY DEF InPipeline
  <2>4. Core' /\ Moves(c) /\ ~Inside(c)'
    BY <2>1, <2>2, <2>3, AttemptFails
  <2>5. Limited'
    BY <2>1, <2>4, LimiterEnds
  <2>. QED
    BY <2>4, <2>5
<1>. QED
  BY <1>1, <1>2

\* A call whose attempt was answered has left everything it was counted in.
LEMMA CallSucceeds ==
  ASSUME Core, Limited, NEW c \in Calls, Inside(c), Succeeded(c), UNCHANGED <<opts, now, closing>>
  PROVE  Core' /\ Limited'
<1>1. /\ opts \in Options /\ now \in 0..MaxTime /\ call \in [Calls -> CallRecord] /\ opts' = opts /\ now' = now
      /\ \A d \in Calls : call[d].pc = "rest" => call[d].attempt < MaxAttempts
  BY DEF Core, Typed
<1>2. call' = [call EXCEPT ![c].pc = "ok"] /\ Untrack(c) /\ limiter' = EndIfLimited
  BY DEF Succeeded
<1>3. Moves(c) /\ call'[c].pc = "ok"
  BY <1>1, <1>2, ZenonT(60) DEF Moves, CallRecord, Pcs, Settled
<1>4. ~InPipeline(c)' /\ ~Inside(c)'
  BY <1>3 DEF InPipeline, Inside
<1>5. Typed'
  BY <1>1, <1>3 DEF Typed, Moves
<1>6. Tracking' /\ Ending'
  BY <1>2, <1>3, <1>4, Untracked DEF Core
<1>7. Limited'
  BY <1>1, <1>2, <1>3, <1>4, LimiterEnds
<1>. DEFINE A == ClientOutcome(c, "none")
            M == MethodOutcome(c, "none")
<1>8. breakers' = [client |-> A, method |-> M]
  BY DEF Succeeded
<1>9. /\ IsRegistry(A) /\ (~opts.breaker => A = <<>>) /\ Probes(A) \subseteq Probes(breakers.client) \ {KeyOf[c]}
      /\ IsRegistry(M) /\ (opts.circuit = "none" => M = <<>>)
      /\ Probes(M) \subseteq Probes(breakers.method) \ {KeyOf[c]}
  BY Outcomes DEF Core
<1>. HIDE DEF A, M
<1>10. Circuits'
  BY <1>1, <1>3, <1>4, <1>8, <1>9, CircuitsKept DEF Core
<1>. QED
  BY <1>5, <1>6, <1>7, <1>10 DEF Core

\* The client's breaker lets the call into the pipeline, or it fails at once.
LEMMA CallStarts ==
  ASSUME Core, Limited, NEW c \in Calls, call[c].pc = "idle", StartCall(c), UNCHANGED <<opts, now, limiter, drain, closing>>
  PROVE  Core' /\ Limited'
<1>1. /\ opts \in Options /\ now \in 0..MaxTime /\ call \in [Calls -> CallRecord] /\ opts' = opts /\ now' = now
      /\ \A d \in Calls : call[d].pc = "rest" => call[d].attempt < MaxAttempts
  BY DEF Core, Typed
<1>2. ~InPipeline(c) /\ ~Inside(c)
  BY DEF InPipeline, Inside
<1>3. /\ breakers = [client |-> breakers.client, method |-> breakers.method]
      /\ IsRegistry(breakers.client) /\ IsRegistry(breakers.method)
      /\ (~opts.breaker => breakers.client = <<>>) /\ (opts.circuit = "none" => breakers.method = <<>>)
  BY DEF Core, Circuits
<1>. DEFINE b == Before(breakers.client, KeyOf[c], opts.maxKeys, now)
            A == b.circuits
<1>4. /\ IsRegistry(A)
      /\ Probes(A) \subseteq Probes(breakers.client) \cup {KeyOf[c]}
      /\ ~b.admitted => Probes(A) \subseteq Probes(breakers.client)
  <2>1. opts.maxKeys \in Nat \ {0}
    BY <1>1, ClientAssumption
  <2>2. /\ IsRegistry(A)
        /\ b.admitted => Probes(A) \subseteq Probes(breakers.client) \cup {KeyOf[c]}
        /\ ~b.admitted => Probes(A) \subseteq Probes(breakers.client)
    BY <1>3, <2>1, Admission
  <2>. HIDE DEF b
  <2>. QED
    BY <2>2
<1>5. CASE opts.breaker /\ ~b.admitted
  <2>1. /\ call' = [call EXCEPT ![c].pc = "failed"] /\ tracked' = tracked
        /\ breakers' = [breakers EXCEPT !.client = A]
    BY <1>5 DEF StartCall
  <2>. HIDE DEF b
  <2>2. Moves(c) /\ call'[c].pc = "failed"
    BY <1>1, <2>1, ZenonT(60) DEF Moves, CallRecord, Pcs, Settled
  <2>3. ~InPipeline(c)' /\ ~Inside(c)'
    BY <2>2 DEF InPipeline, Inside
  <2>4. Typed'
    BY <1>1, <2>2 DEF Typed, Moves
  <2>5. Tracking' /\ Ending'
    BY <1>2, <2>1, <2>2, <2>3, StillTracked DEF Core
  <2>6. breakers' = [client |-> A, method |-> breakers.method]
    BY <1>3, <2>1
  <2>7. Circuits'
    BY <1>1, <1>2, <1>3, <1>4, <1>5, <2>2, <2>6, CircuitsKept DEF Core
  <2>8. Limited'
    BY <1>1, <1>2, <2>2, <2>3, LimiterSame
  <2>. QED
    BY <2>4, <2>5, <2>7, <2>8 DEF Core
<1>6. CASE ~(opts.breaker /\ ~b.admitted)
  <2>. DEFINE C == IF opts.breaker THEN A ELSE breakers.client
              p == IF opts.breaker /\ Probing(A, KeyOf[c]) THEN now ELSE Never
  <2>1. /\ call' = [call EXCEPT ![c].pc = "gate", ![c].attempt = 1, ![c].probe = p] /\ tracked' = tracked \cup {c}
        /\ breakers' = IF opts.breaker THEN [breakers EXCEPT !.client = A] ELSE breakers
    BY <1>6 DEF StartCall
  <2>. HIDE DEF b
  <2>2. p \in Int /\ 1 \in 0..MaxAttempts
    BY <1>1, ClientAssumption, SMTT(30) DEF Never
  <2>. HIDE DEF p
  <2>3. Moves(c) /\ call'[c].pc = "gate"
    BY <1>1, <2>1, <2>2, ZenonT(60) DEF Moves, CallRecord, Pcs
  <2>4. InPipeline(c)' /\ ~Inside(c)'
    BY <2>3 DEF InPipeline, Inside
  <2>5. Typed'
    BY <1>1, <2>3 DEF Typed, Moves
  <2>6. Tracking'
    <3>1. Pipeline' = Pipeline \cup {c}
      BY <2>3, <2>4, OthersStay
    <3>. QED
      BY <2>1, <3>1 DEF Core, Tracking
  <2>7. Ending'
    <3>1. c \notin atClose /\ \A d \in atClose : call'[d].pc # "idle"
      BY <2>3 DEF Core, Ending, Moves
    <3>. QED
      BY <2>1, <3>1 DEF Core, Ending, closing
  <2>8. breakers' = [client |-> C, method |-> breakers.method]
    BY <1>3, <2>1
  <2>9. /\ IsRegistry(C) /\ (~opts.breaker => C = <<>>)
        /\ Probes(C) \subseteq Probes(breakers.client) \cup {KeyOf[c]}
    BY <1>3, <1>4
  <2>. HIDE DEF C
  <2>10. Circuits'
    BY <1>1, <1>2, <1>3, <2>3, <2>4, <2>8, <2>9, CircuitsKept DEF Core
  <2>11. Limited'
    BY <1>1, <1>2, <2>3, <2>4, LimiterSame
  <2>. QED
    BY <2>5, <2>6, <2>7, <2>10, <2>11 DEF Core
<1>. QED
  BY <1>5, <1>6

-----------------------------------------------------------------------------
(* The steps of a call keep the invariant                                    *)

LEMMA QueryStep ==
  ASSUME Inv, NEW c \in Calls, Query(c) \/ Emit(c)
  PROVE  Inv'
<1>1. Core /\ Limited /\ Copies
  BY DEF Inv, Core
<1>2. /\ call[c].pc = "idle" /\ UNCHANGED <<opts, now, limiter, att, cache, drain, closing>>
      /\ StartCall(c) \/ (call' = [call EXCEPT ![c].pc = "ok"] /\ UNCHANGED <<breakers, tracked>>)
  BY DEF Query, Emit
<1>3. Copies'
  BY <1>1, <1>2 DEF Copies
<1>4. CASE StartCall(c)
  BY <1>1, <1>2, <1>3, <1>4, CallStarts DEF Inv, Core
<1>5. CASE call' = [call EXCEPT ![c].pc = "ok"] /\ UNCHANGED <<breakers, tracked>>
  <2>1. /\ opts \in Options /\ now \in 0..MaxTime /\ call \in [Calls -> CallRecord] /\ opts' = opts /\ now' = now
        /\ \A d \in Calls : call[d].pc = "rest" => call[d].attempt < MaxAttempts
    BY <1>1, <1>2 DEF Core, Typed
  <2>2. Moves(c) /\ call'[c].pc = "ok"
    BY <1>5, <2>1, ZenonT(60) DEF Moves, CallRecord, Pcs, Settled
  <2>3. ~InPipeline(c)' /\ ~Inside(c)' /\ ~InPipeline(c) /\ ~Inside(c)
    BY <1>2, <2>2 DEF InPipeline, Inside
  <2>4. Typed'
    BY <2>1, <2>2 DEF Typed, Moves
  <2>5. Tracking' /\ Ending'
    BY <1>1, <1>2, <1>5, <2>2, <2>3, StillTracked DEF Core
  <2>6. Circuits'
    BY <1>1, <1>5, <2>1, <2>2, <2>3, CircuitsKept DEF Core, Circuits
  <2>7. Limited'
    BY <1>1, <1>2, <2>1, <2>2, <2>3, LimiterSame
  <2>. QED
    BY <1>3, <2>4, <2>5, <2>6, <2>7 DEF Inv
<1>. QED
  BY <1>2, <1>4, <1>5

\* A step that only moves the call from one place in the pipeline to another.
LEMMA CallShifts ==
  ASSUME Inv, NEW c \in Calls, Moves(c), call'[c].pc = "rest" => call'[c].attempt = call[c].attempt /\ call[c].pc = "rest",
         Inside(c)' <=> Inside(c), InPipeline(c)' <=> InPipeline(c), call[c].pc # "idle" => call'[c].pc # "idle",
         UNCHANGED <<opts, now, breakers, limiter, tracked, drain, closing>>, Copies'
  PROVE  Inv'
<1>1. /\ opts \in Options /\ now \in 0..MaxTime /\ call \in [Calls -> CallRecord] /\ opts' = opts /\ now' = now
      /\ \A d \in Calls : call[d].pc = "rest" => call[d].attempt < MaxAttempts
  BY DEF Inv, Typed
<1>2. Typed'
  BY <1>1 DEF Typed, Moves
<1>3. Tracking' /\ Ending'
  BY StillTracked DEF Inv
<1>4. Circuits'
  BY <1>1, CircuitsKept DEF Inv, Circuits
<1>5. Limited'
  BY <1>1, LimiterSame DEF Inv
<1>. QED
  BY <1>2, <1>3, <1>4, <1>5 DEF Inv

LEMMA EnterStep ==
  ASSUME Inv, NEW c \in Calls, Enter(c)
  PROVE  Inv'
<1>1. Core /\ Limited /\ Copies
  BY DEF Inv, Core
<1>2. call[c].pc = "gate" /\ UNCHANGED <<opts, now, att, closing>>
  BY DEF Enter
<1>3. /\ opts \in Options /\ now \in 0..MaxTime /\ call \in [Calls -> CallRecord] /\ opts' = opts /\ now' = now
      /\ \A d \in Calls : call[d].pc = "rest" => call[d].attempt < MaxAttempts
  BY <1>1, <1>2 DEF Core, Typed
<1>4. Copies' /\ InPipeline(c) /\ ~Inside(c) /\ call[c].used \in 0..MaxPhysical
  BY <1>1, <1>2, <1>3 DEF Copies, InPipeline, Inside, CallRecord
<1>5. /\ breakers = [client |-> breakers.client, method |-> breakers.method]
      /\ IsRegistry(breakers.client) /\ IsRegistry(breakers.method)
      /\ (~opts.breaker => breakers.client = <<>>) /\ (opts.circuit = "none" => breakers.method = <<>>)
  BY <1>1 DEF Core, Circuits
<1>. DEFINE b == Before(breakers.method, KeyOf[c], opts.maxKeys, now)
            refused == opts.backpressure /\ limiter.inflight >= MaxInflight
            M == IF opts.circuit = "none" THEN breakers.method ELSE b.circuits
            admitted == IF opts.backpressure THEN Begin(limiter) ELSE limiter
<1>6. /\ IsRegistry(M) /\ (opts.circuit = "none" => M = <<>>)
      /\ Probes(M) \subseteq Probes(breakers.method) \cup {KeyOf[c]}
      /\ opts.circuit # "none" /\ ~b.admitted => Probes(M) \subseteq Probes(breakers.method)
  <2>1. opts.maxKeys \in Nat \ {0}
    BY <1>3, ClientAssumption
  <2>2. /\ IsRegistry(b.circuits)
        /\ b.admitted => Probes(b.circuits) \subseteq Probes(breakers.method) \cup {KeyOf[c]}
        /\ ~b.admitted => Probes(b.circuits) \subseteq Probes(breakers.method)
    BY <1>5, <2>1, Admission
  <2>. HIDE DEF b
  <2>. QED
    BY <1>5, <2>2
<1>7. CASE refused /\ AttemptFailed(c, "limited", breakers.method, call[c].used) /\ UNCHANGED limiter
  <2>1. Core' /\ Moves(c) /\ ~Inside(c)'
    BY <1>1, <1>2, <1>4, <1>5, <1>7, AttemptFails
  <2>2. Limited'
    BY <1>1, <1>3, <1>4, <1>7, <2>1, LimiterSame
  <2>. QED
    BY <1>4, <2>1, <2>2 DEF Inv, Core
<1>8. CASE /\ ~refused /\ opts.circuit # "none" /\ ~b.admitted
           /\ AttemptFailed(c, "open", M, call[c].used)
           /\ limiter' = IF opts.backpressure THEN End(admitted) ELSE limiter
  <2>. HIDE DEF b, refused
  <2>1. Probes(M) \subseteq Probes(breakers.method)
    BY <1>6, <1>8
  <2>2. limiter' = IF opts.backpressure THEN End(Begin(limiter)) ELSE limiter
    BY <1>8
  <2>. HIDE DEF M
  <2>3. Core' /\ Moves(c) /\ ~Inside(c)'
    BY <1>1, <1>2, <1>4, <1>6, <1>8, <2>1, AttemptFails
  <2>4. Limited'
    BY <1>1, <1>3, <1>4, <2>2, <2>3, LimiterBounces
  <2>. QED
    BY <1>4, <2>3, <2>4 DEF Inv, Core
<1>9. CASE /\ ~refused
           /\ \E n \in (IF opts.adaptive THEN Tries ELSE {1}) :
                call' = [call EXCEPT ![c].pc = "try", ![c].try = 1, ![c].tries = n]
           /\ breakers' = [breakers EXCEPT !.method = M]
           /\ limiter' = admitted
           /\ UNCHANGED <<tracked, drain, cache>>
  <2>1. PICK n \in Nat : call' = [call EXCEPT ![c].pc = "try", ![c].try = 1, ![c].tries = n]
    <3>1. (IF opts.adaptive THEN Tries ELSE {1}) \subseteq Nat
      BY ClientAssumption, SMTT(30)
    <3>. QED
      BY <1>9, <3>1
  <2>2. Moves(c) /\ call'[c].pc = "try"
    <3>1. call'[c].pc = "try" /\ \A d \in Calls : d # c => call'[d] = call[d]
      BY <1>3, <2>1, SMTT(30)
    <3>2. call' \in [Calls -> CallRecord]
      BY <1>3, <2>1, ZenonT(60) DEF CallRecord, Pcs
    <3>. QED
      BY <3>1, <3>2 DEF Moves
  <2>3. Inside(c)' /\ InPipeline(c)'
    BY <2>2 DEF InPipeline, Inside
  <2>4. Typed'
    BY <1>3, <2>2 DEF Typed, Moves
  <2>5. Tracking' /\ Ending'
    BY <1>1, <1>2, <1>4, <1>9, <2>2, <2>3, StillTracked DEF Core
  <2>. HIDE DEF M
  <2>6. breakers' = [client |-> breakers.client, method |-> M]
    BY <1>5, <1>9
  <2>7. Circuits'
    BY <1>1, <1>3, <1>5, <1>6, <2>2, <2>3, <2>6, CircuitsKept DEF Core
  <2>8. Limited'
    BY <1>1, <1>3, <1>4, <1>9, <2>2, <2>3, LimiterBegins
  <2>. QED
    BY <1>4, <2>4, <2>5, <2>7, <2>8 DEF Inv
<1>10. \/ refused /\ AttemptFailed(c, "limited", breakers.method, call[c].used) /\ UNCHANGED limiter
       \/ /\ ~refused /\ opts.circuit # "none" /\ ~b.admitted
          /\ AttemptFailed(c, "open", M, call[c].used)
          /\ limiter' = IF opts.backpressure THEN End(admitted) ELSE limiter
       \/ /\ ~refused
          /\ \E n \in (IF opts.adaptive THEN Tries ELSE {1}) :
               call' = [call EXCEPT ![c].pc = "try", ![c].try = 1, ![c].tries = n]
          /\ breakers' = [breakers EXCEPT !.method = M]
          /\ limiter' = admitted
          /\ UNCHANGED <<tracked, drain, cache>>
  BY DEF Enter
<1>. QED
  BY <1>7, <1>8, <1>9, <1>10

\* A copy is sent, or refused by the budget; either way the copies add up.
LEMMA FireCounts ==
  ASSUME Copies, NEW c \in Calls, NEW g, NEW used \in 0..MaxPhysical, att' = [att EXCEPT ![c][g] = Fire(c, g, used).a]
  PROVE  Fire(c, g, used).used \in 0..MaxPhysical /\ Copies'
<1>1. Fire(c, g, used).used \in 0..MaxPhysical
  BY ClientAssumption, SMTT(30) DEF Fire
<1>2. ASSUME g \in Gens
      PROVE  Fire(c, g, used).a \in Attempt
  <2>1. att[c][g] \in Attempt
    BY <1>2 DEF Copies
  <2>. DEFINE o == att[c][g]
              live == [fired |-> o.fired + 1, live |-> o.live + 1, rejected |-> o.rejected, won |-> o.won]
              gone == [fired |-> o.fired + 1, live |-> o.live, rejected |-> o.rejected + 1, won |-> o.won]
  <2>2. live \in Attempt /\ gone \in Attempt
    BY <2>1, SMTT(30) DEF Attempt
  <2>3. o = [fired |-> o.fired, live |-> o.live, rejected |-> o.rejected, won |-> o.won]
    BY <2>1 DEF Attempt
  <2>4. /\ [o EXCEPT !.fired = @ + 1, !.live = @ + 1] = live
        /\ [o EXCEPT !.fired = @ + 1, !.rejected = @ + 1] = gone
    <3>. HIDE DEF o
    <3>. DEFINE n == o.fired + 1
                p == [fired |-> n, live |-> o.live, rejected |-> o.rejected, won |-> o.won]
    <3>. HIDE DEF n
    <3>1. [o EXCEPT !.fired = n] = p
      BY <2>3, SMTT(30)
    <3>2. /\ [p EXCEPT !.live = @ + 1] = [p EXCEPT !.live = o.live + 1]
          /\ [p EXCEPT !.rejected = @ + 1] = [p EXCEPT !.rejected = o.rejected + 1]
      OBVIOUS
    <3>. HIDE DEF p
    <3>3. /\ [o EXCEPT !.fired = @ + 1, !.live = @ + 1] = [p EXCEPT !.live = o.live + 1]
          /\ [o EXCEPT !.fired = @ + 1, !.rejected = @ + 1] = [p EXCEPT !.rejected = o.rejected + 1]
      BY <3>1, <3>2 DEF n
    <3>. QED
      BY <3>3, SMTT(30) DEF p, n
  <2>. HIDE DEF live, gone
  <2>. QED
    BY <2>2, <2>4 DEF Fire
<1>3. Copies'
  <2>. DEFINE a == Fire(c, g, used).a
  <2>1. att \in [Calls -> [Gens -> Attempt]] /\ att' = [att EXCEPT ![c][g] = a]
    BY DEF Copies
  <2>2. g \in Gens => a \in Attempt
    BY <1>2
  <2>. HIDE DEF a
  <2>3. [att[c] EXCEPT ![g] = a] \in [Gens -> Attempt]
    <3>1. att[c] \in [Gens -> Attempt]
      BY <2>1
    <3>2. CASE g \in Gens
      BY <2>2, <3>1, <3>2
    <3>3. CASE g \notin Gens
      BY <3>1, <3>3
    <3>. QED
      BY <3>2, <3>3
  <2>. QED
    BY <2>1, <2>3 DEF Copies
<1>. QED
  BY <1>1, <1>3

LEMMA TryStep ==
  ASSUME Inv, NEW c \in Calls, Try(c)
  PROVE  Inv'
<1>1. Core /\ Limited /\ Copies
  BY DEF Inv, Core
<1>2. call[c].pc = "try" /\ StartTry(c, call[c]) /\ UNCHANGED <<opts, now, closing>>
  BY DEF Try
<1>3. /\ opts \in Options /\ now \in 0..MaxTime /\ call \in [Calls -> CallRecord] /\ opts' = opts /\ now' = now
      /\ \A d \in Calls : call[d].pc = "rest" => call[d].attempt < MaxAttempts
  BY <1>1, <1>2 DEF Core, Typed
<1>4. call[c].used \in 0..MaxPhysical /\ call[c].gen \in Nat /\ Inside(c) /\ InPipeline(c)
  BY <1>2, <1>3 DEF CallRecord, Inside, InPipeline
<1>. DEFINE g == call[c].gen + 1
            f == Fire(c, g, call[c].used)
            u == f.used
<1>5. att' = [att EXCEPT ![c][g] = f.a]
  BY <1>2 DEF StartTry
<1>6. u \in 0..MaxPhysical /\ Copies'
  BY <1>1, <1>4, <1>5, FireCounts
<1>7. \/ TryFailed(c, "exhausted", u)
      \/ /\ call' = [call EXCEPT ![c] = [call[c] EXCEPT !.pc = "busy", !.gen = g, !.used = u]]
         /\ UNCHANGED <<breakers, limiter, tracked, drain, cache>>
  BY <1>2 DEF StartTry
<1>. HIDE DEF u
<1>8. CASE TryFailed(c, "exhausted", u)
  BY <1>1, <1>2, <1>4, <1>6, <1>8, TryFails DEF Inv, Core
<1>9. CASE /\ call' = [call EXCEPT ![c] = [call[c] EXCEPT !.pc = "busy", !.gen = g, !.used = u]]
           /\ UNCHANGED <<breakers, limiter, tracked, drain, cache>>
  <2>1. g \in Nat
    BY <1>4, SMTT(30)
  <2>. HIDE DEF g
  <2>2. Moves(c) /\ call'[c].pc = "busy"
    BY <1>3, <1>6, <1>9, <2>1, ZenonT(60) DEF Moves, CallRecord, Pcs
  <2>3. Inside(c)' /\ InPipeline(c)'
    BY <2>2 DEF Inside, InPipeline
  <2>. QED
    BY <1>2, <1>4, <1>6, <1>9, <2>2, <2>3, CallShifts
<1>. QED
  BY <1>7, <1>8, <1>9

LEMMA TimeoutStep ==
  ASSUME Inv, NEW c \in Calls, TryTimeout(c)
  PROVE  Inv'
<1>1. Core /\ Limited /\ Copies
  BY DEF Inv, Core
<1>2. call[c].pc = "busy" /\ TryFailed(c, "timeout", call[c].used) /\ UNCHANGED <<opts, now, att, closing>>
  BY DEF TryTimeout
<1>3. call[c].used \in 0..MaxPhysical /\ Inside(c) /\ Copies'
  BY <1>1, <1>2 DEF Core, Typed, CallRecord, Inside, Copies
<1>. QED
  BY <1>1, <1>2, <1>3, TryFails DEF Inv, Core

LEMMA AgainStep ==
  ASSUME Inv, NEW c \in Calls, TryAgain(c) \/ RetryCall(c)
  PROVE  Inv'
<1>1. call \in [Calls -> CallRecord] /\ (call[c].pc = "rest" => call[c].attempt < MaxAttempts) /\ Copies
  BY DEF Inv, Typed
<1>2. UNCHANGED <<opts, now, breakers, limiter, att, cache, tracked, drain, closing>>
  BY DEF TryAgain, RetryCall
<1>3. Copies'
  BY <1>1, <1>2 DEF Copies
<1>4. CASE TryAgain(c)
  <2>1. call[c].pc = "tryrest" /\ call' = [call EXCEPT ![c].pc = "try", ![c].try = call[c].try + 1]
    BY <1>1, <1>4 DEF TryAgain
  <2>2. Moves(c) /\ call'[c].pc = "try"
    BY <1>1, <2>1, SMTT(30) DEF Moves, CallRecord, Pcs
  <2>3. Inside(c)' /\ InPipeline(c)' /\ Inside(c) /\ InPipeline(c)
    BY <2>1, <2>2 DEF Inside, InPipeline
  <2>. QED
    BY <1>2, <1>3, <2>2, <2>3, CallShifts
<1>5. CASE RetryCall(c)
  <2>1. call[c].pc = "rest" /\ call' = [call EXCEPT ![c].pc = "gate", ![c].attempt = call[c].attempt + 1]
    BY <1>1, <1>5 DEF RetryCall
  <2>2. call[c].attempt + 1 \in 0..MaxAttempts
    BY <1>1, <2>1, ClientAssumption, SMTT(30) DEF CallRecord
  <2>3. Moves(c) /\ call'[c].pc = "gate"
    BY <1>1, <2>1, <2>2, ZenonT(60) DEF Moves, CallRecord, Pcs
  <2>4. ~Inside(c)' /\ InPipeline(c)' /\ ~Inside(c) /\ InPipeline(c)
    BY <2>1, <2>3 DEF Inside, InPipeline
  <2>. QED
    BY <1>2, <1>3, <2>3, <2>4, CallShifts
<1>. QED
  BY <1>4, <1>5

LEMMA FireCopyStep ==
  ASSUME Inv, NEW c \in Calls, NEW g \in Gens, FireCopy(c, g)
  PROVE  Inv'
<1>1. Core /\ Limited /\ Copies
  BY DEF Inv, Core
<1>2. call \in [Calls -> CallRecord] /\ call[c].used \in 0..MaxPhysical /\ UNCHANGED <<opts, now, closing>>
  BY DEF Inv, Typed, CallRecord, FireCopy
<1>. DEFINE f == Fire(c, g, call[c].used)
            u == f.used
<1>3. att' = [att EXCEPT ![c][g] = f.a]
  BY DEF FireCopy
<1>4. u \in 0..MaxPhysical /\ Copies'
  BY <1>1, <1>2, <1>3, FireCounts
<1>5. \/ Awaited(c, g) /\ TryFailed(c, "exhausted", u)
      \/ call' = [call EXCEPT ![c].used = u] /\ UNCHANGED <<breakers, limiter, tracked, drain, cache>>
  BY DEF FireCopy
<1>. HIDE DEF u
<1>6. CASE Awaited(c, g) /\ TryFailed(c, "exhausted", u)
  <2>1. Inside(c)
    BY <1>6 DEF Awaited, Inside
  <2>. QED
    BY <1>1, <1>2, <1>4, <1>6, <2>1, TryFails DEF Inv, Core
<1>7. CASE call' = [call EXCEPT ![c].used = u] /\ UNCHANGED <<breakers, limiter, tracked, drain, cache>>
  <2>1. Moves(c) /\ call'[c].pc = call[c].pc /\ call'[c].attempt = call[c].attempt
    BY <1>2, <1>4, <1>7 DEF Moves, CallRecord
  <2>2. (Inside(c)' <=> Inside(c)) /\ (InPipeline(c)' <=> InPipeline(c))
    BY <2>1 DEF Inside, InPipeline
  <2>. QED
    BY <1>2, <1>4, <1>7, <2>1, <2>2, CallShifts
<1>. QED
  BY <1>5, <1>6, <1>7

LEMMA ReplyStep ==
  ASSUME Inv, NEW c \in Calls, NEW g \in Gens, NEW r \in Replies, Reply(c, g, r)
  PROVE  Inv'
<1>1. Core /\ Limited /\ Copies
  BY DEF Inv, Core
<1>2. call \in [Calls -> CallRecord] /\ call[c].used \in 0..MaxPhysical /\ UNCHANGED <<opts, now, closing>>
  BY DEF Inv, Typed, CallRecord, Reply
<1>. DEFINE o == att[c][g]
            a == IF r = "ok" THEN [o EXCEPT !.live = @ - 1, !.won = TRUE]
                 ELSE [o EXCEPT !.live = @ - 1, !.rejected = @ + 1]
<1>3. o.live > 0 /\ att' = [att EXCEPT ![c][g] = a]
  BY DEF Reply
<1>4. a \in Attempt
  <2>1. o \in Attempt
    BY <1>1 DEF Copies
  <2>2. /\ o = [fired |-> o.fired, live |-> o.live, rejected |-> o.rejected, won |-> o.won]
        /\ {o.fired, o.live, o.rejected} \subseteq Nat /\ o.live + o.rejected <= o.fired /\ o.won \in BOOLEAN
    BY <2>1 DEF Attempt
  <2>. DEFINE won  == [fired |-> o.fired, live |-> o.live - 1, rejected |-> o.rejected, won |-> TRUE]
              lost == [fired |-> o.fired, live |-> o.live - 1, rejected |-> o.rejected + 1, won |-> o.won]
  <2>3. won \in Attempt /\ lost \in Attempt
    BY <1>3, <2>2, SMTT(30) DEF Attempt
  <2>4. /\ [o EXCEPT !.live = @ - 1, !.won = TRUE] = won
        /\ [o EXCEPT !.live = @ - 1, !.rejected = @ + 1] = lost
    <3>. DEFINE n == o.live - 1
                p == [fired |-> o.fired, live |-> n, rejected |-> o.rejected, won |-> o.won]
    <3>. HIDE DEF o, n
    <3>1. [o EXCEPT !.live = n] = p
      BY <2>2, SMTT(30)
    <3>2. [p EXCEPT !.rejected = @ + 1] = [p EXCEPT !.rejected = o.rejected + 1]
      OBVIOUS
    <3>. HIDE DEF p
    <3>3. /\ [o EXCEPT !.live = @ - 1, !.won = TRUE] = [p EXCEPT !.won = TRUE]
          /\ [o EXCEPT !.live = @ - 1, !.rejected = @ + 1] = [p EXCEPT !.rejected = o.rejected + 1]
      BY <3>1, <3>2 DEF n
    <3>4. [p EXCEPT !.won = TRUE] = [fired |-> o.fired, live |-> n, rejected |-> o.rejected, won |-> TRUE]
      <4>. DEFINE yes == TRUE
      <4>. HIDE DEF yes
      <4>1. [p EXCEPT !.won = yes] = [fired |-> o.fired, live |-> n, rejected |-> o.rejected, won |-> yes]
        BY SMTT(30) DEF p
      <4>. QED
        BY <4>1 DEF yes
    <3>5. [p EXCEPT !.rejected = o.rejected + 1]
            = [fired |-> o.fired, live |-> n, rejected |-> o.rejected + 1, won |-> o.won]
      BY SMTT(30) DEF p
    <3>. QED
      BY <3>3, <3>4, <3>5 DEF n
  <2>. HIDE DEF won, lost
  <2>. QED
    BY <2>3, <2>4
<1>5. Copies'
  <2>. HIDE DEF a
  <2>. QED
    BY <1>1, <1>3, <1>4 DEF Copies
<1>6. \/ Awaited(c, g) /\ Succeeded(c)
      \/ Awaited(c, g) /\ TryFailed(c, r, call[c].used)
      \/ UNCHANGED <<call, breakers, limiter, tracked, drain, cache>>
  BY DEF Reply
<1>7. ASSUME Awaited(c, g)
      PROVE  Inside(c)
  BY <1>7 DEF Awaited, Inside
<1>8. CASE Awaited(c, g) /\ Succeeded(c)
  BY <1>1, <1>2, <1>5, <1>7, <1>8, CallSucceeds DEF Inv, Core
<1>9. CASE Awaited(c, g) /\ TryFailed(c, r, call[c].used)
  BY <1>1, <1>2, <1>5, <1>7, <1>9, TryFails DEF Inv, Core
<1>10. CASE UNCHANGED <<call, breakers, limiter, tracked, drain, cache>>
  <2>1. Moves(c) /\ call'[c] = call[c]
    BY <1>2, <1>10 DEF Moves
  <2>2. (Inside(c)' <=> Inside(c)) /\ (InPipeline(c)' <=> InPipeline(c))
    BY <2>1 DEF Inside, InPipeline
  <2>. QED
    BY <1>2, <1>5, <1>10, <2>1, <2>2, CallShifts
<1>. QED
  BY <1>6, <1>8, <1>9, <1>10

-----------------------------------------------------------------------------
(* Closing, the clock, and the theorems                                      *)

\* No call moves: what is to be shown is about the drains only.
LEMMA CallsStand ==
  ASSUME Inv, UNCHANGED <<opts, breakers, limiter, call, att, tracked>>, now' \in 0..MaxTime, Ending'
  PROVE  Inv'
<1>1. Insiders' = Insiders /\ Pipeline' = Pipeline
  BY DEF Insiders, Pipeline, Inside, InPipeline
<1>2. Typed' /\ Copies' /\ Tracking'
  BY <1>1 DEF Inv, Typed, Copies, Tracking
<1>3. Circuits'
  <2>1. breakers' = breakers /\ opts' = opts
    OBVIOUS
  <2>2. /\ IsRegistry(breakers.client)' <=> IsRegistry(breakers.client)
        /\ IsRegistry(breakers.method)' <=> IsRegistry(breakers.method)
    BY <2>1 DEF IsRegistry, IsCircuit
  <2>3. (Probes(breakers.client))' = Probes(breakers.client) /\ (Probes(breakers.method))' = Probes(breakers.method)
    BY <2>1 DEF Probes, InProbe
  <2>. QED
    BY <1>1, <2>1, <2>2, <2>3 DEF Inv, Circuits
<1>4. Limited'
  BY <1>1 DEF Inv, Limited
<1>. QED
  BY <1>2, <1>3, <1>4 DEF Inv

LEMMA ClosingStep ==
  ASSUME Inv, RunHook \/ \E d \in Drains : StartDrain(d) \/ DrainTimeout(d) \/ DrainEnds(d)
  PROVE  Inv'
<1>. USE DEF Drains
<1>1. Ending /\ now \in 0..MaxTime
  BY DEF Inv, Typed
<1>2. CASE RunHook
  <2>1. Ending'
    BY <1>1, <1>2, ClientAssumption, SMTT(30) DEF Ending, RunHook
  <2>. QED
    BY <1>1, <1>2, <2>1, CallsStand DEF RunHook
<1>3. ASSUME NEW d \in Drains, StartDrain(d)
      PROVE  Inv'
  <2>1. drain[d] = "idle" /\ UNCHANGED <<opts, now, breakers, limiter, call, att, cache, tracked, hooksLeft>>
    BY <1>3 DEF StartDrain
  <2>2. tracked \subseteq Calls /\ \A c \in tracked : call[c].pc # "idle"
    BY DEF Inv, Tracking, Pipeline, InPipeline, Inside
  <2>3. /\ drain' = [drain EXCEPT ![d] = IF tracked = {} THEN "done" ELSE "waiting"]
        /\ resolver' \in Drains \cup {NoDrain}
        /\ atClose' = IF d = "shutdown" THEN tracked ELSE atClose
    BY <1>1, <1>3 DEF StartDrain, Ending
  <2>4. drain' \in [Drains -> DrainStates] /\ atClose' \subseteq Calls /\ \A c \in atClose' : call'[c].pc # "idle"
    BY <1>1, <2>1, <2>2, <2>3 DEF Ending, DrainStates
  <2>5. Ending'
    <3>1. CASE d = "shutdown"
      BY <1>1, <2>1, <2>3, <2>4, <3>1 DEF Ending
    <3>2. CASE d # "shutdown"
      BY <1>1, <2>1, <2>3, <2>4, <3>2 DEF Ending
    <3>. QED
      BY <3>1, <3>2
  <2>. QED
    BY <1>1, <2>1, <2>5, CallsStand
<1>4. ASSUME NEW d \in Drains, DrainTimeout(d)
      PROVE  Inv'
  <2>1. Ending'
    BY <1>1, <1>4 DEF Ending, DrainTimeout, DrainStates, closing
  <2>. QED
    BY <1>1, <1>4, <2>1, CallsStand DEF DrainTimeout
<1>5. ASSUME NEW d \in Drains, DrainEnds(d)
      PROVE  Inv'
  <2>1. Ending'
    BY <1>1, <1>5 DEF Ending, DrainEnds, DrainStates
  <2>. QED
    BY <1>1, <1>5, <2>1, CallsStand DEF DrainEnds
<1>. QED
  BY <1>2, <1>3, <1>4, <1>5

LEMMA TickStep ==
  ASSUME Inv, Tick
  PROVE  Inv'
<1>1. Ending' /\ now' \in 0..MaxTime
  BY ClientAssumption, SMTT(30) DEF Inv, Typed, Ending, Tick, closing
<1>. QED
  BY <1>1, CallsStand DEF Tick

LEMMA InvAtFirst ==
  ASSUME Init
  PROVE  Inv
<1>. USE DEF Init
<1>1. \A c \in Calls : call[c] = Idle
  OBVIOUS
<1>2. Insiders = {} /\ Pipeline = {}
  BY <1>1 DEF Insiders, Pipeline, Inside, InPipeline, Idle
<1>3. Idle \in CallRecord /\ Unused \in Attempt
  <2>1. Idle \in CallRecord
    BY ClientAssumption, SMTT(30) DEF Idle, CallRecord, Pcs, Never
  <2>2. Unused \in Attempt
    BY SMTT(30) DEF Unused, Attempt
  <2>. QED
    BY <2>1, <2>2
<1>4. Typed
  BY <1>1, <1>3, ClientAssumption, SMTT(30) DEF Typed, Idle
<1>5. Copies /\ Tracking
  BY <1>2, <1>3 DEF Copies, Tracking
<1>6. Ending
  BY ClientAssumption, SMTT(30) DEF Ending, Drains, DrainStates
<1>7. Circuits
  <2>1. breakers.client = <<>> /\ breakers.method = <<>> /\ breakers = [client |-> <<>>, method |-> <<>>]
    OBVIOUS
  <2>2. IsRegistry(<<>>) /\ Probes(<<>>) = {}
    BY SMTT(30) DEF IsRegistry, Probes
  <2>. QED
    BY <2>1, <2>2 DEF Circuits
<1>8. Limited
  BY <1>2, ClientAssumption, FS_EmptySet, SMTT(30) DEF Limited
<1>. QED
  BY <1>4, <1>5, <1>6, <1>7, <1>8 DEF Inv

LEMMA InvStep ==
  ASSUME Inv, [Next]_vars
  PROVE  Inv'
<1>1. ASSUME NEW c \in Calls,
             Query(c) \/ Emit(c) \/ Enter(c) \/ Try(c) \/ TryTimeout(c) \/ TryAgain(c) \/ RetryCall(c)
      PROVE  Inv'
  BY <1>1, QueryStep, EnterStep, TryStep, TimeoutStep, AgainStep
<1>2. ASSUME NEW c \in Calls, NEW g \in Gens, FireCopy(c, g) \/ \E r \in Replies : Reply(c, g, r)
      PROVE  Inv'
  BY <1>2, FireCopyStep, ReplyStep
<1>3. CASE RunHook \/ \E d \in Drains : StartDrain(d) \/ DrainTimeout(d) \/ DrainEnds(d)
  BY <1>3, ClosingStep
<1>4. CASE Tick
  BY <1>4, TickStep
<1>5. CASE UNCHANGED vars
  <2>1. Ending' /\ now' \in 0..MaxTime
    BY <1>5 DEF Inv, Typed, Ending, vars
  <2>. QED
    BY <1>5, <2>1, CallsStand DEF vars
<1>. QED
  BY <1>1, <1>2, <1>3, <1>4, <1>5 DEF Next

LEMMA InvCounts ==
  ASSUME Inv
  PROVE  CountersExact
<1>. SUFFICES TypeOK /\ LimiterExact
  BY DEF CountersExact
<1>1. \A c \in Calls : call[c] \in CallRecord
  BY DEF Inv, Typed
<1>2. \A c \in Calls, g \in Gens : att[c][g] \in Attempt
  BY DEF Inv, Copies
<1>3. limiter \in [inflight : 0..MaxInflight, paused : BOOLEAN]
  <2>1. limiter \in [inflight : Nat, paused : BOOLEAN]
    BY DEF Inv, Limited
  <2>2. limiter.inflight <= MaxInflight
    BY ClientAssumption, SMTT(30) DEF Inv, Limited
  <2>. QED
    BY <2>1, <2>2, ClientAssumption, SMTT(30)
<1>4. tracked \subseteq Calls /\ resolver \in Drains \cup {NoDrain} /\ opts \in Options /\ now \in 0..MaxTime
  BY DEF Inv, Tracking, Pipeline, Ending, Typed
<1>5. TypeOK
  BY <1>1, <1>2, <1>3, <1>4 DEF TypeOK, CallRecord, Pcs, Attempt
<1>6. LimiterExact
  BY DEF Inv, Limited, LimiterExact, Insiders
<1>. QED
  BY <1>5, <1>6

LEMMA InvAccounts ==
  ASSUME Inv
  PROVE  ProbeAccounted
<1>. SUFFICES ASSUME NEW r \in DOMAIN breakers, NEW i \in DOMAIN breakers[r],
                     breakers[r][i].state = "half-open" /\ breakers[r][i].inFlight
              PROVE  \E c \in Calls : /\ KeyOf[c] = breakers[r][i].key
                                     /\ IF r = "client" THEN InPipeline(c) ELSE Inside(c)
  BY DEF ProbeAccounted
<1>1. r \in {"client", "method"} /\ breakers["client"] = breakers.client /\ breakers["method"] = breakers.method
  BY DEF Inv, Circuits
<1>2. breakers[r][i].key \in Probes(breakers[r])
  BY DEF Probes, InProbe
<1>3. CASE r = "client"
  BY <1>1, <1>2, <1>3 DEF Inv, Circuits, Pipeline
<1>4. CASE r = "method"
  BY <1>1, <1>2, <1>4 DEF Inv, Circuits, Insiders
<1>. QED
  BY <1>1, <1>3, <1>4

\* Through retries, hedging, late answers, evicted circuits and a concurrent close(), what
\* the client counts (begin/end, trackInflight, InvocationBudget, the probe flags) agrees with
\* where its calls are (client-runtime.ts, resilience-runtime.ts, circuit-breaker.ts).
THEOREM ClientInvariant == Spec => []Inv
<1>1. Init => Inv
  BY InvAtFirst
<1>2. Inv /\ [Next]_vars => Inv'
  BY InvStep
<1>. QED
  BY <1>1, <1>2, PTL DEF Spec

\* The counters are right for any number of calls, tries and copies: the limiter counts
\* the calls inside applyResilience and is paused between its watermarks, a call stays
\* within its budget of physical calls and its attempts (backpressure.ts begin/end,
\* resilience-runtime.ts InvocationBudget and applyResilience).
THEOREM CountersAlwaysExact == Spec => []CountersExact
<1>1. Inv => CountersExact
  BY InvCounts
<1>. QED
  BY <1>1, ClientInvariant, PTL

\* A half-open circuit refuses calls only while a call for its key is really in flight,
\* whatever answers late, is refused, evicted or fails for a reason of its own
\* (circuit-breaker.ts before/onSuccess/onFailure).
THEOREM ProbesAlwaysAccounted == Spec => []ProbeAccounted
<1>1. Inv => ProbeAccounted
  BY InvAccounts
<1>. QED
  BY <1>1, ClientInvariant, PTL

\* No shutdown hook runs while a call that was in flight at shutdown() is still tracked,
\* unless the drain gave up, however drain() interferes (graceful-shutdown.ts
\* trackInflight/shutdown).
THEOREM HooksWait == Spec => []HooksAfterDrain
<1>1. Inv => HooksAfterDrain
  BY DEF Inv, Ending, HooksAfterDrain
<1>. QED
  BY <1>1, ClientInvariant, PTL

=============================================================================
