--------------------------- MODULE DispatchProofs ---------------------------
(***************************************************************************)
(* What the dispatch pipeline promises, for any requests, services and      *)
(* options.  The inductive invariant Inv has four parts:                    *)
(*   Typed    where requests are, and that a built-in answer is in sight    *)
(*            only of the health method;                                    *)
(*   Claims   an idempotency claim belongs to a request in hand, under its  *)
(*            own key, and a keyed request in hand holds its claim;         *)
(*   Guarded  with the replay guard on, it remembers an envelope for a      *)
(*            window after each delivery it let pass, and let a second one  *)
(*            pass only later, if the stamp was ahead of the clock before;  *)
(*   Answers  every result on its way - in a response, in the idempotency   *)
(*            store, in the method cache - was computed for a request that  *)
(*            asks for the same, and was shaped by the after hook once.     *)
(***************************************************************************)
EXTENDS Dispatch, TLAPS

USE Zenon

Handling == {"before", "run", "after", "cached"}
InHand == Handling \cup {"throwing"}
Places == {"new", "caller", "builtin", "begin", "committed", "done"} \cup InHand

\* The caller has been identified: caller[r] is final.
Known(r) == pc[r] \notin {"new", "caller"}

\* The replay guard let r pass.
Passed(r) == pc[r] \notin {"new", "done"} \/ r \in runs

\* x is a result for r: of r or of a request that asks for the same.
ResultFor(x, r) ==
  /\ x.code = "ok"
  /\ x.of \in Requests /\ Known(x.of)
  /\ CacheKey(x.of) = CacheKey(r)
  /\ x.hooks = IF opts.hooks THEN 1 ELSE 0

Typed ==
  /\ opts \in Options
  /\ now \in Nat
  /\ pc \in [Requests -> Places]
  /\ DOMAIN caller = Requests
  /\ DOMAIN resp = Requests
  /\ runs \subseteq Requests /\ \A r \in runs : pc[r] # "new"
  /\ \A r \in Requests : pc[r] = "builtin" => Req[r].name = "nevo.health"

Claims ==
  /\ \A k \in DOMAIN claim : /\ claim[k] \in Requests /\ pc[claim[k]] \in InHand
                             /\ k = ServerIdempotencyKey(claim[k])
  /\ \A r \in Requests : Keyed(r) /\ pc[r] \in Handling =>
       ServerIdempotencyKey(r) \in DOMAIN claim /\ claim[ServerIdempotencyKey(r)] = r

\* q is r, or passed when the guard had forgotten r, whose stamp was ahead of the clock.
Again(r, q) == r = q \/ (Req[r].ts > entered[r] /\ entered[q] - entered[r] > Window)

Guarded ==
  opts.replay =>
    /\ \A r \in Requests : Passed(r) =>
         /\ Req[r].uuid # None /\ Req[r].ts # None
         /\ r \in DOMAIN entered /\ entered[r] \in Int /\ entered[r] <= now
         /\ Req[r].uuid \in DOMAIN seen /\ seen[Req[r].uuid] \in Int
         /\ seen[Req[r].uuid] >= entered[r] + Window
    /\ \A r, q \in Requests :
         Passed(r) /\ Passed(q) /\ Req[r].uuid = Req[q].uuid /\ entered[r] <= entered[q] => Again(r, q)

Answers ==
  /\ \A r \in Requests : pc[r] = "after" => resp[r] = Value(r)
  /\ \A r \in Requests : pc[r] \in {"cached", "committed"} => ResultFor(resp[r], r)
  /\ \A r \in Requests : pc[r] = "done" /\ resp[r].code = "ok" /\ Req[r].name # "nevo.health" => ResultFor(resp[r], r)
  /\ \A k \in DOMAIN stored : /\ stored[k].by \in Requests /\ Known(stored[k].by)
                              /\ k = ServerIdempotencyKey(stored[k].by)
                              /\ ResultFor(stored[k].value, stored[k].by)
  /\ \A c \in DOMAIN memo : /\ memo[c].value.of \in Requests /\ CacheKey(memo[c].value.of) = c
                            /\ ResultFor(memo[c].value, memo[c].value.of)

Inv == Typed /\ Claims /\ Guarded /\ Answers

\* What every step of request r has in common: r moves from its place to place w, and
\* no caller that was identified changes.
Moves(r, w) ==
  /\ r \in Requests /\ opts' = opts
  /\ pc[r] # "done" /\ w \in Places \ {"new"} /\ (w = "caller" => pc[r] = "new")
  /\ pc' = [pc EXCEPT ![r] = w]
  /\ DOMAIN caller' = Requests
  /\ \A q \in Requests : (q # r \/ Known(q)) => caller'[q] = caller[q]

-----------------------------------------------------------------------------
(* What a move leaves alone                                                  *)

LEMMA KnownStays ==
  ASSUME Typed, NEW r, NEW w, Moves(r, w)
  PROVE  /\ \A q \in Requests : Known(q) => Known(q)'
         /\ \A q \in Requests : q # r => pc'[q] = pc[q]
         /\ pc'[r] = w /\ pc' \in [Requests -> Places]
         /\ \A q \in Requests : (q # r \/ Known(q)) =>
              ServerIdempotencyKey(q)' = ServerIdempotencyKey(q) /\ CacheKey(q)' = CacheKey(q)
         /\ \A q \in Requests : Keyed(q)' <=> Keyed(q)
<1>1. pc \in [Requests -> Places] /\ r \in Requests /\ w \in Places /\ pc' = [pc EXCEPT ![r] = w]
  BY DEF Typed, Moves
<1>2. pc'[r] = w /\ pc' \in [Requests -> Places] /\ \A q \in Requests : q # r => pc'[q] = pc[q]
  BY <1>1
<1>3. \A q \in Requests : Known(q) => Known(q)'
  <2>1. w # "new" /\ (w = "caller" => pc[r] = "new")
    BY DEF Moves
  <2>. QED
    BY <1>2, <2>1 DEF Known
<1>4. \A q \in Requests : (q # r \/ Known(q)) =>
        ServerIdempotencyKey(q)' = ServerIdempotencyKey(q) /\ CacheKey(q)' = CacheKey(q)
  BY DEF Moves, ServerIdempotencyKey, CacheKey, KeyBase
<1>5. \A q \in Requests : Keyed(q)' <=> Keyed(q)
  BY DEF Moves, Keyed, KeyBase
<1>. QED
  BY <1>2, <1>3, <1>4, <1>5

\* A result stays a result for r: of and r stay known, so their callers stay.
LEMMA ResultStays ==
  ASSUME Typed, NEW r, NEW w, Moves(r, w), NEW q \in Requests, Known(q), NEW x, ResultFor(x, q)
  PROVE  ResultFor(x, q)'
<1>1. x.of \in Requests /\ Known(x.of) /\ Known(x.of)' /\ CacheKey(x.of)' = CacheKey(x.of) /\ CacheKey(q)' = CacheKey(q)
  BY KnownStays DEF ResultFor
<1>2. opts' = opts
  BY DEF Moves
<1>. QED
  BY <1>1, <1>2 DEF ResultFor

-----------------------------------------------------------------------------
(* Claims                                                                    *)

\* A request that lets go of its claim (finally, commit) is no longer handled.
LEMMA ReleaseClaims ==
  ASSUME Typed, Claims, NEW r, NEW w, Moves(r, w), claim' = Released(r), w \notin Handling
  PROVE  Claims'
<1>. DEFINE kept == {k \in DOMAIN claim : claim[k] # r}
<1>1. DOMAIN claim' = kept /\ \A k \in kept : claim'[k] = claim[k]
  BY DEF Released
<1>2. ASSUME NEW k \in DOMAIN claim'
      PROVE  claim'[k] \in Requests /\ pc'[claim'[k]] \in InHand /\ k = ServerIdempotencyKey(claim[k])'
  <2>1. k \in DOMAIN claim /\ claim'[k] = claim[k] /\ claim[k] # r
    BY <1>1, <1>2
  <2>2. claim[k] \in Requests /\ pc[claim[k]] \in InHand /\ k = ServerIdempotencyKey(claim[k])
    BY <2>1 DEF Claims
  <2>. QED
    BY <2>1, <2>2, KnownStays, SMTT(30)
<1>3. ASSUME NEW q \in Requests, Keyed(q)', pc'[q] \in Handling
      PROVE  ServerIdempotencyKey(q)' \in DOMAIN claim' /\ claim'[ServerIdempotencyKey(q)'] = q
  <2>1. q # r /\ pc[q] \in Handling /\ Keyed(q) /\ ServerIdempotencyKey(q)' = ServerIdempotencyKey(q)
    BY <1>3, KnownStays
  <2>2. ServerIdempotencyKey(q) \in DOMAIN claim /\ claim[ServerIdempotencyKey(q)] = q
    BY <2>1 DEF Claims
  <2>. QED
    BY <1>1, <2>1, <2>2
<1>. QED
  BY <1>2, <1>3 DEF Claims

\* A request that keeps its claim stays in hand; it is handled only if it was, or
\* needs no claim.
LEMMA KeepClaims ==
  ASSUME Typed, Claims, NEW r, NEW w, Moves(r, w), claim' = claim,
         pc[r] \in InHand => w \in InHand,
         w \in Handling => pc[r] \in Handling \/ ~Keyed(r)
  PROVE  Claims'
<1>1. ASSUME NEW k \in DOMAIN claim
      PROVE  claim[k] \in Requests /\ pc'[claim[k]] \in InHand /\ k = ServerIdempotencyKey(claim[k])'
  <2>1. claim[k] \in Requests /\ pc[claim[k]] \in InHand /\ k = ServerIdempotencyKey(claim[k])
    BY <1>1 DEF Claims
  <2>2. Known(claim[k])
    BY <2>1 DEF Known, InHand, Handling
  <2>. QED
    BY <2>1, <2>2, KnownStays, SMTT(30)
<1>2. ASSUME NEW q \in Requests, Keyed(q)', pc'[q] \in Handling
      PROVE  ServerIdempotencyKey(q)' \in DOMAIN claim /\ claim[ServerIdempotencyKey(q)'] = q
  <2>1. pc[q] \in Handling /\ Keyed(q)
    BY <1>2, KnownStays
  <2>2. Known(q)
    BY <2>1 DEF Known, Handling
  <2>. QED
    BY <2>1, <2>2, KnownStays DEF Claims
<1>. QED
  BY <1>1, <1>2 DEF Claims

\* A request that claims its free key.
LEMMA TakeClaim ==
  ASSUME Typed, Claims, NEW r, Moves(r, "before"), Known(r), pc[r] = "begin",
         ServerIdempotencyKey(r) \notin DOMAIN claim,
         claim' = Put(claim, ServerIdempotencyKey(r), r)
  PROVE  Claims'
<1>. DEFINE k0 == ServerIdempotencyKey(r)
<1>. HIDE DEF k0
<1>1. /\ DOMAIN claim' = DOMAIN claim \cup {k0} /\ claim'[k0] = r
      /\ \A k \in DOMAIN claim : claim'[k] = claim[k]
  BY DEF Put, k0
<1>2. r \in Requests /\ k0' = k0 /\ k0' = ServerIdempotencyKey(r)'
  BY KnownStays DEF Moves, k0
<1>3. ASSUME NEW k \in DOMAIN claim'
      PROVE  claim'[k] \in Requests /\ pc'[claim'[k]] \in InHand /\ k = ServerIdempotencyKey(claim[k])'
  <2>1. CASE k = k0
    BY <1>1, <1>2, <2>1, KnownStays DEF InHand, Handling
  <2>2. CASE k # k0
    <3>1. k \in DOMAIN claim /\ claim'[k] = claim[k]
      BY <1>1, <1>3, <2>2
    <3>2. claim[k] \in Requests /\ pc[claim[k]] \in InHand /\ k = ServerIdempotencyKey(claim[k])
      BY <3>1 DEF Claims
    <3>3. claim[k] # r
      BY <3>2 DEF InHand, Handling
    <3>. QED
      BY <3>1, <3>2, <3>3, KnownStays, SMTT(30)
  <2>. QED
    BY <2>1, <2>2
<1>4. ASSUME NEW q \in Requests, Keyed(q)', pc'[q] \in Handling
      PROVE  ServerIdempotencyKey(q)' \in DOMAIN claim' /\ claim'[ServerIdempotencyKey(q)'] = q
  <2>1. CASE q = r
    BY <1>1, <1>2, <2>1
  <2>2. CASE q # r
    <3>1. pc[q] \in Handling /\ Keyed(q) /\ ServerIdempotencyKey(q)' = ServerIdempotencyKey(q)
      BY <1>4, <2>2, KnownStays, SMTT(30)
    <3>. QED
      BY <1>1, <3>1 DEF Claims
  <2>. QED
    BY <2>1, <2>2
<1>. QED
  BY <1>3, <1>4 DEF Claims

-----------------------------------------------------------------------------
(* The replay guard                                                          *)

\* A request that is past the guard moves on, or the guard refuses one.
LEMMA KeepGuarded ==
  ASSUME Typed, Guarded, NEW r, NEW w, Moves(r, w), UNCHANGED <<now, seen, entered>>, runs' \subseteq runs \cup {r},
         pc[r] = "new" => w = "done" /\ runs' = runs
  PROVE  Guarded'
<1>1. ASSUME NEW q \in Requests, Passed(q)'
      PROVE  Passed(q)
  <2>1. CASE q # r
    BY <1>1, <2>1, KnownStays DEF Passed
  <2>2. CASE q = r /\ pc[r] = "new"
    BY <1>1, <2>2, KnownStays DEF Passed
  <2>3. CASE q = r /\ pc[r] # "new"
    BY <2>3 DEF Passed, Moves
  <2>. QED
    BY <2>1, <2>2, <2>3
<1>2. opts' = opts
  BY DEF Moves
<1>. QED
  BY <1>1, <1>2 DEF Guarded, Again

\* The guard lets r pass and remembers its uuid.  A delivery of the same envelope that
\* passed before is forgotten, so that it passed more than a window ago; and r's stamp,
\* the same as its own, is younger than that: it was ahead of the clock.
LEMMA LetPass ==
  ASSUME Typed, Guarded, NEW r, Moves(r, "caller"), pc[r] = "new", runs' = runs, r \notin runs, now' = now,
         opts.replay => /\ ~ReplayDetected(r) /\ seen' = Put(seen, Req[r].uuid, now + Window)
                        /\ entered' = Put(entered, r, now)
  PROVE  Guarded'
<1>. SUFFICES ASSUME opts.replay
              PROVE  Guarded'
  BY DEF Guarded, Moves
<1>. DEFINE u == Req[r].uuid
<1>1. /\ r \in Requests /\ u # None /\ Req[r].ts # None /\ now - Req[r].ts <= Window
      /\ ~(u \in DOMAIN seen /\ now <= seen[u])
  BY DispatchAssumption, SMTT(30) DEF ReplayDetected, StillSeen, Moves, Typed
<1>2. Req[r].ts \in Int /\ Window \in Nat /\ now \in Nat
  BY <1>1, DispatchAssumption DEF Typed
<1>3. /\ DOMAIN seen' = DOMAIN seen \cup {u} /\ seen'[u] = now + Window
      /\ \A v \in DOMAIN seen : v # u => seen'[v] = seen[v]
      /\ DOMAIN entered' = DOMAIN entered \cup {r} /\ entered'[r] = now
      /\ \A q \in DOMAIN entered : q # r => entered'[q] = entered[q]
  BY DEF Put
<1>4. \A q \in Requests : Passed(q) =>
        /\ Req[q].uuid # None /\ Req[q].ts # None
        /\ q \in DOMAIN entered /\ entered[q] \in Int /\ entered[q] <= now
        /\ Req[q].uuid \in DOMAIN seen /\ seen[Req[q].uuid] \in Int
        /\ seen[Req[q].uuid] >= entered[q] + Window
  BY DEF Guarded
<1>5. ASSUME NEW q \in Requests, Passed(q), Req[q].uuid = u
      PROVE  entered[q] < now /\ now - entered[q] > Window /\ Req[q].ts > entered[q]
  <2>1. Req[q].ts = Req[r].ts
    BY <1>1, <1>5, OneEnvelope
  <2>2. u \in DOMAIN seen /\ seen[u] \in Int /\ seen[u] >= entered[q] + Window /\ entered[q] \in Int
    BY <1>4, <1>5
  <2>3. now > seen[u]
    BY <1>1, <1>2, <2>2, SMTT(30)
  <2>. QED
    BY <1>1, <1>2, <2>1, <2>2, <2>3, SMTT(30)
<1>6. ASSUME NEW q \in Requests, q # r, Passed(q)'
      PROVE  Passed(q) /\ entered'[q] = entered[q]
  <2>1. Passed(q)
    BY <1>6, KnownStays, SMTT(30) DEF Passed
  <2>. QED
    BY <1>3, <1>4, <1>6, <2>1
<1>7. ASSUME NEW q \in Requests, Passed(q)'
      PROVE  /\ Req[q].uuid # None /\ Req[q].ts # None
             /\ q \in DOMAIN entered' /\ entered'[q] \in Int /\ entered'[q] <= now'
             /\ Req[q].uuid \in DOMAIN seen' /\ seen'[Req[q].uuid] \in Int
             /\ seen'[Req[q].uuid] >= entered'[q] + Window
  <2>1. CASE q = r
    BY <1>1, <1>2, <1>3, <2>1, SMTT(30)
  <2>2. CASE q # r /\ Req[q].uuid = u
    <3>1. Passed(q) /\ entered'[q] = entered[q]
      BY <1>6, <1>7, <2>2
    <3>2. /\ q \in DOMAIN entered /\ entered[q] \in Int /\ entered[q] <= now
          /\ Req[q].uuid # None /\ Req[q].ts # None
      BY <1>4, <3>1
    <3>. QED
      BY <1>2, <1>3, <2>2, <3>1, <3>2, SMTT(30)
  <2>3. CASE q # r /\ Req[q].uuid # u
    <3>1. Passed(q) /\ entered'[q] = entered[q]
      BY <1>6, <1>7, <2>3
    <3>. QED
      BY <1>3, <1>4, <2>3, <3>1
  <2>. QED
    BY <2>1, <2>2, <2>3
<1>8. ASSUME NEW p \in Requests, NEW q \in Requests, Passed(p)', Passed(q)', Req[p].uuid = Req[q].uuid,
             entered'[p] <= entered'[q]
      PROVE  Again(p, q)'
  <2>1. CASE p = q
    BY <2>1 DEF Again
  <2>2. CASE p # r /\ q # r
    <3>1. /\ Passed(p) /\ Passed(q) /\ entered'[p] = entered[p] /\ entered'[q] = entered[q]
      BY <1>6, <1>8, <2>2
    <3>2. Again(p, q)
      BY <1>8, <3>1 DEF Guarded
    <3>. QED
      BY <3>1, <3>2 DEF Again
  <2>3. CASE p # r /\ q = r
    <3>1. Passed(p) /\ entered'[p] = entered[p] /\ Req[p].uuid = u
      BY <1>6, <1>8, <2>3
    <3>2. now - entered[p] > Window /\ Req[p].ts > entered[p]
      BY <1>5, <3>1
    <3>. QED
      BY <1>3, <2>3, <3>1, <3>2 DEF Again
  <2>4. CASE p = r /\ q # r
    <3>1. Passed(q) /\ entered'[q] = entered[q] /\ Req[q].uuid = u
      BY <1>6, <1>8, <2>4
    <3>2. entered[q] < now /\ entered[q] \in Int
      BY <1>4, <1>5, <3>1
    <3>3. now <= entered[q]
      BY <1>3, <1>8, <2>4, <3>1
    <3>. QED
      BY <1>2, <3>2, <3>3, SMTT(30)
  <2>. QED
    BY <2>1, <2>2, <2>3, <2>4
<1>. QED
  BY <1>7, <1>8 DEF Guarded

-----------------------------------------------------------------------------
(* Answers                                                                   *)

\* A step of r keeps the answers when what it writes - r's response, an entry of the
\* idempotency store, an entry of the method cache - is a result for r.
LEMMA KeepAnswers ==
  ASSUME Typed, Answers, NEW r, NEW w, Moves(r, w),
         \A q \in Requests : q # r => resp'[q] = resp[q],
         w = "after" => resp'[r] = Value(r),
         w \in {"cached", "committed"} => ResultFor(resp[r], r)',
         w = "done" /\ resp'[r].code = "ok" /\ Req[r].name # "nevo.health" => ResultFor(resp[r], r)',
         \A k \in DOMAIN stored' :
           \/ k \in DOMAIN stored /\ stored'[k] = stored[k]
           \/ /\ stored'[k].by = r /\ Known(r) /\ k = ServerIdempotencyKey(r)
              /\ stored'[k].value = resp'[r] /\ ResultFor(resp[r], r)',
         \A c \in DOMAIN memo' :
           \/ c \in DOMAIN memo /\ memo'[c] = memo[c]
           \/ /\ Known(r) /\ c = CacheKey(r) /\ memo'[c].value = resp'[r] /\ resp'[r].of = r
              /\ ResultFor(resp[r], r)'
  PROVE  Answers'
<1>1. r \in Requests /\ opts' = opts
  BY DEF Moves
<1>2. \A q \in Requests : pc'[q] = "after" => resp'[q] = Value(q)
  BY KnownStays, SMTT(30) DEF Answers
<1>3. ASSUME NEW q \in Requests, pc'[q] \in {"cached", "committed"}
      PROVE  ResultFor(resp[q], q)'
  <2>1. CASE q = r
    BY <1>3, <2>1, KnownStays
  <2>2. CASE q # r
    <3>1. pc[q] \in {"cached", "committed"} /\ resp'[q] = resp[q]
      BY <1>3, <2>2, KnownStays
    <3>2. ResultFor(resp[q], q) /\ Known(q)
      BY <3>1 DEF Answers, Known
    <3>. QED
      BY <3>1, <3>2, ResultStays
  <2>. QED
    BY <2>1, <2>2
<1>4. ASSUME NEW q \in Requests, pc'[q] = "done", resp'[q].code = "ok", Req[q].name # "nevo.health"
      PROVE  ResultFor(resp[q], q)'
  <2>1. CASE q = r
    BY <1>4, <2>1, KnownStays
  <2>2. CASE q # r
    <3>1. pc[q] = "done" /\ resp'[q] = resp[q]
      BY <1>4, <2>2, KnownStays
    <3>2. ResultFor(resp[q], q) /\ Known(q)
      BY <1>4, <3>1 DEF Answers, Known
    <3>. QED
      BY <3>1, <3>2, ResultStays
  <2>. QED
    BY <2>1, <2>2
<1>5. ASSUME NEW k \in DOMAIN stored'
      PROVE  /\ stored'[k].by \in Requests /\ Known(stored[k].by)'
             /\ k = ServerIdempotencyKey(stored[k].by)'
             /\ ResultFor(stored[k].value, stored[k].by)'
  <2>1. CASE k \in DOMAIN stored /\ stored'[k] = stored[k]
    <3>1. /\ stored[k].by \in Requests /\ Known(stored[k].by)
          /\ k = ServerIdempotencyKey(stored[k].by)
          /\ ResultFor(stored[k].value, stored[k].by)
      BY <2>1 DEF Answers
    <3>2. ResultFor(stored[k].value, stored[k].by)'
      BY <2>1, <3>1, ResultStays
    <3>. QED
      BY <2>1, <3>1, <3>2, KnownStays
  <2>2. CASE /\ stored'[k].by = r /\ Known(r) /\ k = ServerIdempotencyKey(r)
             /\ stored'[k].value = resp'[r] /\ ResultFor(resp[r], r)'
    BY <1>1, <2>2, KnownStays
  <2>. QED
    BY <1>5, <2>1, <2>2
<1>6. ASSUME NEW c \in DOMAIN memo'
      PROVE  /\ memo'[c].value.of \in Requests /\ CacheKey(memo[c].value.of)' = c
             /\ ResultFor(memo[c].value, memo[c].value.of)'
  <2>1. CASE c \in DOMAIN memo /\ memo'[c] = memo[c]
    <3>1. /\ memo[c].value.of \in Requests /\ CacheKey(memo[c].value.of) = c
          /\ ResultFor(memo[c].value, memo[c].value.of)
      BY <2>1 DEF Answers
    <3>2. Known(memo[c].value.of)
      BY <3>1 DEF ResultFor
    <3>3. ResultFor(memo[c].value, memo[c].value.of)'
      BY <2>1, <3>1, <3>2, ResultStays
    <3>. QED
      BY <2>1, <3>1, <3>2, <3>3, KnownStays, ZenonT(60)
  <2>2. CASE /\ Known(r) /\ c = CacheKey(r) /\ memo'[c].value = resp'[r] /\ resp'[r].of = r
             /\ ResultFor(resp[r], r)'
    BY <1>1, <2>2, KnownStays
  <2>. QED
    BY <1>6, <2>1, <2>2
<1>. QED
  BY <1>2, <1>3, <1>4, <1>5, <1>6 DEF Answers

-----------------------------------------------------------------------------
(* Steps of a request                                                        *)

\* What a step of r leaves alone unless it says otherwise.
Frame(r) ==
  /\ r \in Requests
  /\ UNCHANGED <<opts, now, memo>>
  /\ DOMAIN caller' = Requests
  /\ \A q \in Requests : (q # r \/ Known(q)) => caller'[q] = caller[q]

LEMMA MoveTyped ==
  ASSUME Typed, NEW r, NEW w, Moves(r, w), now' = now, DOMAIN resp' = Requests,
         runs' \subseteq runs \cup {r}, w = "builtin" => Req[r].name = "nevo.health"
  PROVE  Typed'
<1>1. r \in Requests /\ opts' = opts /\ w # "new" /\ DOMAIN caller' = Requests
  BY DEF Moves
<1>2. \A q \in Requests : pc'[q] = "builtin" => Req[q].name = "nevo.health"
  BY KnownStays DEF Typed
<1>3. runs' \subseteq Requests /\ \A q \in runs' : pc'[q] # "new"
  BY <1>1, KnownStays DEF Typed
<1>. QED
  BY <1>1, <1>2, <1>3, KnownStays DEF Typed

\* r is answered and its claim, if any, released.
LEMMA Answered ==
  ASSUME Inv, NEW r, Frame(r), stored' = stored, pc[r] # "done", UNCHANGED <<seen, entered>>, runs' = runs, Goto(r, "done"),
         claim' = Released(r), DOMAIN resp' = Requests, \A q \in Requests : q # r => resp'[q] = resp[q],
         resp'[r].code = "ok" /\ Req[r].name # "nevo.health" => ResultFor(resp[r], r)'
  PROVE  Inv'
<1>1. Moves(r, "done")
  BY DEF Moves, Frame, Goto, Places
<1>2. Typed'
  BY <1>1, MoveTyped DEF Inv, Frame
<1>3. Claims'
  BY <1>1, ReleaseClaims DEF Inv, Handling
<1>4. Guarded'
  BY <1>1, KeepGuarded DEF Inv, Frame
<1>5. Answers'
  BY <1>1, KeepAnswers DEF Inv, Frame
<1>. QED
  BY <1>2, <1>3, <1>4, <1>5 DEF Inv

\* r goes on to its next await without an answer.
LEMMA GoesOn ==
  ASSUME Inv, NEW r, NEW w \in {"builtin", "begin", "before", "run", "throwing"},
         Frame(r), Goto(r, w), UNCHANGED <<resp, claim, stored, seen, entered>>, runs' \subseteq runs \cup {r},
         pc[r] \notin {"new", "done"}, pc[r] \in InHand => w \in InHand,
         w \in Handling => pc[r] \in Handling \/ ~Keyed(r),
         w = "builtin" => Req[r].name = "nevo.health"
  PROVE  Inv'
<1>1. Moves(r, w)
  BY DEF Moves, Frame, Goto, Places, InHand, Handling
<1>2. Typed'
  <2>1. DOMAIN resp' = Requests /\ now' = now
    BY DEF Inv, Typed, Frame
  <2>. QED
    BY <1>1, <2>1, MoveTyped DEF Inv
<1>3. Claims'
  BY <1>1, KeepClaims DEF Inv
<1>4. Guarded'
  BY <1>1, KeepGuarded DEF Inv, Frame
<1>5. Answers'
  BY <1>1, KeepAnswers DEF Inv, Frame
<1>. QED
  BY <1>2, <1>3, <1>4, <1>5 DEF Inv

\* A refusal is not a result.
LEMMA Refused ==
  ASSUME Inv, NEW r, Frame(r), stored' = stored, pc[r] # "done", UNCHANGED <<seen, entered>>, runs' = runs,
         NEW code, code # "ok", Respond(r, Failure(code))
  PROVE  Inv'
<1>1. DOMAIN resp' = Requests /\ resp'[r] = Failure(code) /\ \A q \in Requests : q # r => resp'[q] = resp[q]
  BY DEF Respond, Inv, Typed, Frame
<1>2. resp'[r].code # "ok"
  BY <1>1, SMTT(30) DEF Failure
<1>3. Goto(r, "done") /\ claim' = Released(r)
  BY DEF Respond
<1>. QED
  BY <1>1, <1>2, <1>3, Answered

\* The catch block.
LEMMA Thrown ==
  ASSUME Inv, NEW r, Frame(r), UNCHANGED <<stored, seen, entered, runs>>, pc[r] \notin {"new", "done"}, Throw(r)
  PROVE  Inv'
  BY GoesOn DEF Throw, InHand, Handling

\* An action that leaves the caller alone.
LEMMA SameCaller ==
  ASSUME Inv, NEW r \in Requests, UNCHANGED <<opts, now, memo, caller>>
  PROVE  Frame(r)
  BY DEF Inv, Typed, Frame

LEMMA ReceiveInv ==
  ASSUME Inv, NEW r \in Requests, Receive(r)
  PROVE  Inv'
<1>1. Frame(r) /\ pc[r] = "new" /\ stored' = stored /\ runs' = runs
  BY SameCaller DEF Receive, world
<1>2. CASE Req[r].name = None
  <2>1. Respond(r, Failure("BAD_REQUEST")) /\ UNCHANGED <<seen, entered>>
    BY <1>2 DEF Receive
  <2>. QED
    BY <1>1, <2>1, Refused
<1>3. CASE Req[r].name # None /\ opts.replay /\ ReplayDetected(r)
  <2>1. Respond(r, Failure("REPLAY_DETECTED")) /\ UNCHANGED <<seen, entered>>
    BY <1>3 DEF Receive
  <2>. QED
    BY <1>1, <2>1, Refused
<1>4. CASE Req[r].name # None /\ ~(opts.replay /\ ReplayDetected(r))
  <2>1. /\ Goto(r, "caller") /\ UNCHANGED <<resp, claim>>
        /\ IF opts.replay
           THEN seen' = Put(seen, Req[r].uuid, now + Window) /\ entered' = Put(entered, r, now)
           ELSE UNCHANGED <<seen, entered>>
    BY <1>4 DEF Receive
  <2>2. Moves(r, "caller")
    BY <1>1, <2>1 DEF Moves, Frame, Goto, Places
  <2>3. r \notin runs /\ DOMAIN resp' = Requests
    BY <1>1, <2>1 DEF Inv, Typed
  <2>4. Typed'
    BY <1>1, <2>2, <2>3, MoveTyped DEF Inv, Frame
  <2>5. Claims'
    BY <1>1, <2>1, <2>2, KeepClaims DEF Inv, InHand, Handling
  <2>6. now' = now
    BY <1>1 DEF Frame
  <2>7. Guarded'
    BY <1>1, <1>4, <2>1, <2>2, <2>3, <2>6, LetPass DEF Inv
  <2>8. Answers'
    BY <1>1, <2>1, <2>2, KeepAnswers DEF Inv, Frame
  <2>. QED
    BY <2>4, <2>5, <2>7, <2>8 DEF Inv
<1>. QED
  BY <1>2, <1>3, <1>4

LEMMA AdmitInv ==
  ASSUME Inv, NEW r \in Requests, Admit(r)
  PROVE  Inv'
<1>. DEFINE c == Identity(r)
            limited == opts.rate /\ ~Check(limiter, LimiterKey(r, c), now).ok
            builtin == Req[r].name = "nevo.health"
            allowed == IsAccessAllowed(opts.rules, opts.rules = <<>>, "topic", Req[r].name, builtin, c)
<1>. HIDE DEF c
<1>1. pc[r] = "caller" /\ caller' = [caller EXCEPT ![r] = c] /\ UNCHANGED <<opts, now, memo, stored, seen, entered, runs>>
  BY DEF Admit, world, c
<1>2. Frame(r)
  <2>1. ~Known(r) /\ DOMAIN caller = Requests
    BY <1>1 DEF Known, Inv, Typed
  <2>. QED
    BY <1>1, <2>1 DEF Frame
<1>3. \/ Throw(r)
      \/ Respond(r, Failure("RATE_LIMITED"))
      \/ Respond(r, Failure("UNAUTHORIZED"))
      \/ Goto(r, IF builtin THEN "builtin" ELSE "begin") /\ UNCHANGED <<resp, claim>>
  <2>1. CASE Rejected(r)
    BY <2>1 DEF Admit
  <2>2. CASE ~Rejected(r) /\ limited
    BY <2>2 DEF Admit, c
  <2>3. CASE ~Rejected(r) /\ ~limited /\ Req[r].tenant \in disabled
    BY <2>3 DEF Admit, c
  <2>4. CASE ~Rejected(r) /\ ~limited /\ Req[r].tenant \notin disabled /\ ~allowed
    BY <2>4 DEF Admit, c
  <2>5. CASE ~Rejected(r) /\ ~limited /\ Req[r].tenant \notin disabled /\ allowed
    BY <2>5 DEF Admit, c
  <2>. QED
    BY <2>1, <2>2, <2>3, <2>4, <2>5
<1>4. CASE Throw(r)
  BY <1>1, <1>2, <1>4, Thrown
<1>5. CASE Respond(r, Failure("RATE_LIMITED"))
  BY <1>1, <1>2, <1>5, Refused
<1>6. CASE Respond(r, Failure("UNAUTHORIZED"))
  BY <1>1, <1>2, <1>6, Refused
<1>7. CASE Goto(r, IF builtin THEN "builtin" ELSE "begin") /\ UNCHANGED <<resp, claim>>
  <2>1. CASE builtin
    BY <1>1, <1>2, <1>7, <2>1, GoesOn DEF InHand, Handling
  <2>2. CASE ~builtin
    BY <1>1, <1>2, <1>7, <2>2, GoesOn DEF InHand, Handling
  <2>. QED
    BY <2>1, <2>2
<1>. QED
  BY <1>3, <1>4, <1>5, <1>6, <1>7

LEMMA HandleBuiltinInv ==
  ASSUME Inv, NEW r \in Requests, HandleBuiltin(r)
  PROVE  Inv'
<1>1. /\ Frame(r) /\ pc[r] = "builtin" /\ UNCHANGED <<stored, seen, entered, runs>>
      /\ Req[r].name = "nevo.health"
  BY SameCaller DEF HandleBuiltin, world, guards, Inv, Typed
<1>2. CASE opts.health
  <2>1. Goto(r, "done") /\ claim' = Released(r) /\ resp' = [resp EXCEPT ![r] = Value(r)]
    BY <1>2 DEF HandleBuiltin, Respond
  <2>2. DOMAIN resp' = Requests /\ \A q \in Requests : q # r => resp'[q] = resp[q]
    BY <2>1 DEF Inv, Typed
  <2>. QED
    BY <1>1, <2>1, <2>2, Answered
<1>3. CASE ~opts.health
  <2>1. Goto(r, "begin") /\ UNCHANGED <<resp, claim>>
    BY <1>3 DEF HandleBuiltin
  <2>. QED
    BY <1>1, <2>1, GoesOn DEF InHand, Handling
<1>. QED
  BY <1>2, <1>3

\* Requests with one key, and no conflict between them, ask for the same: a key is
\* supplied by both, and their payloads are compared, or it is the uuid of one envelope.
LEMMA SameKeySameQuestion ==
  ASSUME NEW q \in Requests, NEW r \in Requests, KeyBase(r) # None,
         ServerIdempotencyKey(q) = ServerIdempotencyKey(r), ~Conflicts(q, r)
  PROVE  CacheKey(q) = CacheKey(r)
<1>1. /\ caller[q] = caller[r] /\ Req[q].tenant = Req[r].tenant /\ Req[q].name = Req[r].name
      /\ Req[q].version = Req[r].version /\ KeyBase(q) = KeyBase(r)
  BY DEF ServerIdempotencyKey
<1>2. Req[q].payload = Req[r].payload
  BY <1>1, OneEnvelope DEF KeyBase, Conflicts
<1>. QED
  BY <1>1, <1>2 DEF CacheKey

LEMMA BeginInv ==
  ASSUME Inv, NEW r \in Requests, BeginIdempotent(r)
  PROVE  Inv'
<1>. DEFINE k == ServerIdempotencyKey(r)
            v == Entry(stored, k)
<1>1. Frame(r) /\ pc[r] = "begin" /\ Known(r) /\ UNCHANGED <<stored, seen, entered, runs>>
  BY SameCaller DEF BeginIdempotent, world, guards, Known
<1>2. CASE ~Keyed(r)
  <2>1. Goto(r, "before") /\ UNCHANGED <<resp, claim>>
    BY <1>2 DEF BeginIdempotent
  <2>. QED
    BY <1>1, <1>2, <2>1, GoesOn DEF InHand, Handling
<1>3. CASE Keyed(r) /\ v # None
  <2>1. Respond(r, IF Conflicts(v.by, r) THEN Failure("IDEMPOTENCY_KEY_CONFLICT") ELSE v.value)
    BY <1>3 DEF BeginIdempotent
  <2>2. CASE Conflicts(v.by, r)
    BY <1>1, <2>1, <2>2, Refused
  <2>3. CASE ~Conflicts(v.by, r)
    <3>1. k \in DOMAIN stored /\ v = stored[k]
      BY <1>3 DEF Entry
    <3>2. v.by \in Requests /\ k = ServerIdempotencyKey(v.by) /\ ResultFor(v.value, v.by)
      BY <3>1 DEF Inv, Answers
    <3>3. CacheKey(v.by) = CacheKey(r)
      BY <1>3, <2>3, <3>2, SameKeySameQuestion DEF Keyed
    <3>4. ResultFor(v.value, r)
      BY <3>2, <3>3 DEF ResultFor
    <3>5. Moves(r, "done")
      BY <1>1, <2>1 DEF Moves, Frame, Respond, Goto, Places
    <3>6. /\ DOMAIN resp' = Requests /\ resp'[r] = v.value /\ \A q \in Requests : q # r => resp'[q] = resp[q]
          /\ Goto(r, "done") /\ claim' = Released(r)
      BY <2>1, <2>3 DEF Respond, Inv, Typed
    <3>7. ResultFor(resp[r], r)'
      BY <1>1, <3>4, <3>5, <3>6, ResultStays DEF Inv
    <3>. QED
      BY <1>1, <3>6, <3>7, Answered
  <2>. QED
    BY <2>2, <2>3
<1>4. CASE Keyed(r) /\ v = None
  <2>1. k \notin DOMAIN claim /\ claim' = Put(claim, k, r) /\ Goto(r, "before") /\ resp' = resp
    BY <1>4 DEF BeginIdempotent
  <2>2. Moves(r, "before")
    BY <1>1, <2>1 DEF Moves, Frame, Goto, Places, InHand, Handling
  <2>3. Typed'
    <3>1. DOMAIN resp' = Requests /\ now' = now
      BY <1>1, <2>1 DEF Inv, Typed, Frame
    <3>. QED
      BY <1>1, <2>2, <3>1, MoveTyped DEF Inv
  <2>4. Claims'
    BY <1>1, <2>1, <2>2, TakeClaim DEF Inv
  <2>5. Guarded'
    BY <1>1, <2>2, KeepGuarded DEF Inv, Frame
  <2>6. Answers'
    BY <1>1, <2>1, <2>2, KeepAnswers DEF Inv, Frame
  <2>. QED
    BY <2>3, <2>4, <2>5, <2>6 DEF Inv
<1>. QED
  BY <1>2, <1>3, <1>4

\* The handler is started, by either strategy.
LEMMA StartedInv ==
  ASSUME Inv, NEW r \in Requests, Frame(r), UNCHANGED <<stored, seen, entered>>, pc[r] = "before",
         Goto(r, "run"), runs' = runs \cup {r}, UNCHANGED <<resp, claim>>
  PROVE  Inv'
  BY GoesOn DEF InHand, Handling

\* A hit in the method cache.
LEMMA CacheHitInv ==
  ASSUME Inv, NEW r \in Requests, Frame(r), UNCHANGED <<stored, seen, entered, runs, claim>>, pc[r] = "before",
         Entry(memo, CacheKey(r)) # None, resp' = [resp EXCEPT ![r] = Entry(memo, CacheKey(r)).value],
         Goto(r, "cached")
  PROVE  Inv'
<1>. DEFINE c == CacheKey(r)
<1>1. c \in DOMAIN memo /\ resp' = [resp EXCEPT ![r] = memo[c].value]
  BY DEF Entry
<1>2. Moves(r, "cached") /\ Known(r)
  BY DEF Moves, Frame, Goto, Places, InHand, Handling, Known
<1>3. DOMAIN resp' = Requests /\ resp'[r] = memo[c].value /\ \A q \in Requests : q # r => resp'[q] = resp[q]
  BY <1>1 DEF Inv, Typed
<1>4. CacheKey(memo[c].value.of) = c /\ ResultFor(memo[c].value, memo[c].value.of)
  BY <1>1 DEF Inv, Answers
<1>5. ResultFor(memo[c].value, r)
  BY <1>4 DEF ResultFor
<1>6. ResultFor(resp[r], r)'
  BY <1>2, <1>3, <1>5, ResultStays DEF Inv
<1>7. Typed'
  BY <1>2, <1>3, MoveTyped DEF Inv, Frame
<1>8. Claims'
  BY <1>2, KeepClaims DEF Inv, InHand, Handling
<1>9. Guarded'
  BY <1>2, KeepGuarded DEF Inv, Frame
<1>10. Answers'
  BY <1>2, <1>3, <1>6, KeepAnswers DEF Inv, Frame
<1>. QED
  BY <1>7, <1>8, <1>9, <1>10 DEF Inv

LEMMA BeforeInv ==
  ASSUME Inv, NEW r \in Requests, Before(r)
  PROVE  Inv'
<1>1. Frame(r) /\ pc[r] = "before" /\ UNCHANGED <<stored, seen, entered>>
  BY SameCaller DEF Before, world, guards
<1>2. CASE MethodLimited(r) /\ runs' = runs
  <2>1. Respond(r, Failure("RATE_LIMITED"))
    BY <1>2 DEF MethodLimited
  <2>. QED
    BY <1>1, <1>2, <2>1, Refused
<1>3. CASE Throw(r) /\ runs' = runs
  BY <1>1, <1>3, Thrown
<1>4. CASE opts.router /\ DispatchSignal(r)
  <2>. DEFINE h == SignalHandler(Req[r].name, Req[r].version)
              hit == Entry(memo, CacheKey(r))
              fresh == h.cacheable /\ hit # None /\ now <= hit.until
  <2>. HIDE DEF h
  <2>1. CASE h.code # "ok"
    <3>1. Respond(r, Failure(h.code)) /\ runs' = runs
      BY <1>4, <2>1 DEF DispatchSignal, h
    <3>. QED
      BY <1>1, <2>1, <3>1, Refused
  <2>2. CASE h.code = "ok" /\ fresh
    <3>1. resp' = [resp EXCEPT ![r] = hit.value] /\ Goto(r, "cached") /\ UNCHANGED <<claim, runs>>
      BY <1>4, <2>2 DEF DispatchSignal, h
    <3>2. hit # None
      BY <2>2
    <3>. QED
      BY <1>1, <3>1, <3>2, CacheHitInv
  <2>3. CASE h.code = "ok" /\ ~fresh /\ Req[r].payload = "invalid"
    <3>1. Respond(r, Failure("VALIDATION_FAILED")) /\ runs' = runs
      BY <1>4, <2>3 DEF DispatchSignal, h
    <3>. QED
      BY <1>1, <3>1, Refused
  <2>4. CASE h.code = "ok" /\ ~fresh /\ Req[r].payload # "invalid"
    <3>1. Goto(r, "run") /\ runs' = runs \cup {r} /\ UNCHANGED <<resp, claim>>
      BY <1>4, <2>4 DEF DispatchSignal, h
    <3>. QED
      BY <1>1, <3>1, StartedInv
  <2>. QED
    BY <2>1, <2>2, <2>3, <2>4
<1>5. CASE ~opts.router /\ DispatchRegistered(r)
  <2>. DEFINE h == RegisteredHandler(Req[r].name, Req[r].version)
  <2>. HIDE DEF h
  <2>1. CASE h.code # "ok"
    <3>1. Respond(r, Failure(h.code)) /\ runs' = runs
      BY <1>5, <2>1 DEF DispatchRegistered, h
    <3>. QED
      BY <1>1, <2>1, <3>1, Refused
  <2>2. CASE h.code = "ok" /\ Req[r].payload = "invalid"
    <3>1. Throw(r) /\ runs' = runs
      BY <1>5, <2>2 DEF DispatchRegistered, h
    <3>. QED
      BY <1>1, <3>1, Thrown
  <2>3. CASE h.code = "ok" /\ Req[r].payload # "invalid"
    <3>1. Goto(r, "run") /\ runs' = runs \cup {r} /\ UNCHANGED <<resp, claim>>
      BY <1>5, <2>3 DEF DispatchRegistered, h
    <3>. QED
      BY <1>1, <3>1, StartedInv
  <2>. QED
    BY <2>1, <2>2, <2>3
<1>. QED
  BY <1>2, <1>3, <1>4, <1>5 DEF Before

LEMMA InvokeInv ==
  ASSUME Inv, NEW r \in Requests, Invoke(r)
  PROVE  Inv'
<1>1. Frame(r) /\ pc[r] = "run" /\ UNCHANGED <<stored, seen, entered, runs>>
  BY SameCaller DEF Invoke, world, guards
<1>2. CASE resp' = [resp EXCEPT ![r] = Value(r)] /\ Goto(r, "after") /\ UNCHANGED claim
  <2>1. Moves(r, "after")
    BY <1>1, <1>2 DEF Moves, Frame, Goto, Places, InHand, Handling
  <2>2. DOMAIN resp' = Requests /\ resp'[r] = Value(r) /\ \A q \in Requests : q # r => resp'[q] = resp[q]
    BY <1>2 DEF Inv, Typed
  <2>3. Typed'
    BY <1>1, <2>1, <2>2, MoveTyped DEF Inv, Frame
  <2>4. Claims'
    BY <1>1, <1>2, <2>1, KeepClaims DEF Inv, InHand, Handling
  <2>5. Guarded'
    BY <1>1, <2>1, KeepGuarded DEF Inv, Frame
  <2>6. Answers'
    BY <1>1, <2>1, <2>2, KeepAnswers DEF Inv, Frame
  <2>. QED
    BY <2>3, <2>4, <2>5, <2>6 DEF Inv
<1>3. CASE Throw(r)
  BY <1>1, <1>3, Thrown
<1>4. CASE Respond(r, Failure("RATE_LIMITED"))
  BY <1>1, <1>4, Refused
<1>. QED
  BY <1>2, <1>3, <1>4 DEF Invoke

\* commit(): the response, a result for r, goes to the store and the claim is released.
LEMMA CommitInv ==
  ASSUME Inv, NEW r \in Requests, Frame(r), UNCHANGED <<seen, entered, runs>>, pc[r] \in {"after", "cached"},
         DOMAIN resp' = Requests, \A q \in Requests : q # r => resp'[q] = resp[q],
         CommitResult(r, resp'[r]), ResultFor(resp[r], r)'
  PROVE  Inv'
<1>. DEFINE k0 == ServerIdempotencyKey(r)
<1>1. /\ Goto(r, "committed") /\ claim' = Released(r)
      /\ stored' = stored \/ stored' = Put(stored, k0, [value |-> resp'[r], by |-> r])
  BY DEF CommitResult
<1>2. Moves(r, "committed") /\ Known(r)
  BY <1>1 DEF Moves, Frame, Goto, Places, Known
<1>3. \A k \in DOMAIN stored' :
        \/ k \in DOMAIN stored /\ stored'[k] = stored[k]
        \/ stored'[k].by = r /\ k = k0 /\ stored'[k].value = resp'[r]
  <2>. HIDE DEF k0
  <2>. QED
    BY <1>1, SMTT(30) DEF Put
<1>4. Typed'
  BY <1>2, MoveTyped DEF Inv, Frame
<1>5. Claims'
  BY <1>1, <1>2, ReleaseClaims DEF Inv, Handling
<1>6. Guarded'
  BY <1>2, KeepGuarded DEF Inv, Frame
<1>7. Answers'
  BY <1>2, <1>3, KeepAnswers DEF Inv, Frame
<1>. QED
  BY <1>4, <1>5, <1>6, <1>7 DEF Inv

LEMMA AfterInv ==
  ASSUME Inv, NEW r \in Requests, After(r)
  PROVE  Inv'
<1>1. Frame(r) /\ pc[r] = "after" /\ UNCHANGED <<seen, entered, runs>>
  BY SameCaller DEF After, world, guards
<1>2. CASE resp' = [resp EXCEPT ![r] = Hooked(@)] /\ CommitResult(r, resp'[r])
  <2>1. resp[r] = Value(r) /\ DOMAIN resp = Requests
    BY <1>1 DEF Inv, Typed, Answers
  <2>2. /\ DOMAIN resp' = Requests /\ resp'[r] = Hooked(Value(r))
        /\ \A q \in Requests : q # r => resp'[q] = resp[q]
    BY <1>2, <2>1
  <2>3. /\ resp'[r].code = "ok" /\ resp'[r].of = r
        /\ resp'[r].hooks = IF opts.hooks THEN 1 ELSE 0
    BY <2>2, SMTT(30) DEF Hooked, Value
  <2>4. Moves(r, "committed") /\ Known(r)
    BY <1>1, <1>2 DEF CommitResult, Moves, Frame, Goto, Places, Known
  <2>5. ResultFor(resp[r], r)'
    BY <1>1, <2>3, <2>4, KnownStays DEF ResultFor, Inv, Frame
  <2>. QED
    BY <1>1, <1>2, <2>2, <2>5, CommitInv
<1>3. CASE Throw(r) /\ stored' = stored
  BY <1>1, <1>3, Thrown
<1>. QED
  BY <1>2, <1>3 DEF After

LEMMA CachedInv ==
  ASSUME Inv, NEW r \in Requests, Cached(r)
  PROVE  Inv'
<1>1. Frame(r) /\ pc[r] = "cached" /\ UNCHANGED <<resp, seen, entered, runs>> /\ CommitResult(r, resp'[r])
  BY SameCaller DEF Cached, world, guards
<1>2. Moves(r, "committed") /\ Known(r)
  BY <1>1 DEF CommitResult, Moves, Frame, Goto, Places, Known
<1>3. ResultFor(resp[r], r) /\ DOMAIN resp' = Requests
  BY <1>1 DEF Inv, Answers, Typed
<1>4. ResultFor(resp[r], r)'
  BY <1>1, <1>2, <1>3, ResultStays DEF Inv
<1>. QED
  BY <1>1, <1>3, <1>4, CommitInv

\* onCommitted: the response of a request that ran its handler goes to the method cache.
LEMMA CommittedInv ==
  ASSUME Inv, NEW r \in Requests, Committed(r)
  PROVE  Inv'
<1>. DEFINE c0 == CacheKey(r)
            entry == [value |-> resp[r], until |-> now + CacheTtl]
<1>1. /\ pc[r] = "committed" /\ Goto(r, "done") /\ UNCHANGED <<opts, now, caller, resp, claim, stored, seen, entered, runs>>
      /\ memo' = memo \/ (memo' = Put(memo, c0, entry) /\ resp[r].of = r)
  BY DEF Committed, world, guards
<1>2. Moves(r, "done") /\ Known(r)
  BY <1>1 DEF Moves, Goto, Places, Known, Inv, Typed
<1>3. ResultFor(resp[r], r) /\ DOMAIN resp' = Requests
  BY <1>1 DEF Inv, Answers, Typed
<1>4. ResultFor(resp[r], r)'
  BY <1>1, <1>2, <1>3, ResultStays DEF Inv
<1>5. \A c \in DOMAIN memo' :
        \/ c \in DOMAIN memo /\ memo'[c] = memo[c]
        \/ c = c0 /\ memo'[c].value = resp'[r] /\ resp'[r].of = r
  <2>1. CASE memo' = memo
    BY <2>1
  <2>2. CASE memo' = Put(memo, c0, entry) /\ resp[r].of = r
    <3>. DEFINE x == resp[r]
    <3>1. entry.value = resp'[r] /\ resp'[r].of = r
      BY <1>1, <2>2
    <3>. HIDE DEF c0, entry
    <3>. QED
      BY <2>2, <3>1 DEF Put
  <2>. QED
    BY <1>1, <2>1, <2>2
<1>6. Typed'
  BY <1>1, <1>2, <1>3, MoveTyped DEF Inv
<1>7. Claims'
  BY <1>1, <1>2, KeepClaims DEF Inv, InHand, Handling
<1>8. Guarded'
  BY <1>1, <1>2, KeepGuarded DEF Inv, Frame
<1>9. Answers'
  BY <1>1, <1>2, <1>4, <1>5, KeepAnswers DEF Inv
<1>. QED
  BY <1>6, <1>7, <1>8, <1>9 DEF Inv

LEMMA DeadLetterInv ==
  ASSUME Inv, NEW r \in Requests, DeadLetter(r)
  PROVE  Inv'
<1>1. /\ Frame(r) /\ pc[r] = "throwing" /\ UNCHANGED <<stored, seen, entered, runs>>
      /\ Respond(r, Failure("FAILED"))
  BY SameCaller DEF DeadLetter, world, guards
<1>. QED
  BY <1>1, Refused

-----------------------------------------------------------------------------
(* The rest of the process, and the invariant                                *)

\* Switches, timers and evictions of stored results touch no request.
LEMMA AsideInv ==
  ASSUME Inv, UNCHANGED <<opts, pc, caller, resp, claim, memo, seen, entered, runs>>, now' = now \/ (now' \in Nat /\ now' > now),
         \A k \in DOMAIN stored' : k \in DOMAIN stored /\ stored'[k] = stored[k]
  PROVE  Inv'
<1>1. Typed'
  BY DEF Inv, Typed
<1>2. /\ \A r : ServerIdempotencyKey(r)' = ServerIdempotencyKey(r) /\ CacheKey(r)' = CacheKey(r)
      /\ \A r : (Keyed(r)' <=> Keyed(r)) /\ (Known(r)' <=> Known(r)) /\ (Passed(r)' <=> Passed(r))
  BY DEF ServerIdempotencyKey, KeyBase, CacheKey, Keyed, Known, Passed
<1>3. \A x, r : ResultFor(x, r)' <=> ResultFor(x, r)
  BY <1>2 DEF ResultFor
<1>4. Claims'
  BY <1>2 DEF Inv, Claims
<1>5. Guarded'
  <2>1. \A r \in Requests : entered[r] \in Int /\ entered[r] <= now => entered[r] <= now'
    BY SMTT(30) DEF Inv, Typed
  <2>. QED
    BY <1>2, <2>1 DEF Inv, Guarded, Again
<1>6. Answers'
  BY <1>2, <1>3 DEF Inv, Answers
<1>. QED
  BY <1>1, <1>4, <1>5, <1>6 DEF Inv

LEMMA NextInv ==
  ASSUME Inv, [Next]_vars
  PROVE  Inv'
<1>1. CASE UNCHANGED vars
  BY <1>1, AsideInv DEF vars, Inv, Typed
<1>2. ASSUME NEW r \in opts.requests, Proceeds(r)
      PROVE  Inv'
  <2>1. r \in Requests
    BY <1>2, DispatchAssumption DEF Inv, Typed
  <2>. QED
    BY Zenon, <1>2, <2>1, ReceiveInv, AdmitInv, HandleBuiltinInv, BeginInv, BeforeInv, InvokeInv, AfterInv,
       CachedInv, CommittedInv, DeadLetterInv DEF Proceeds
<1>3. ASSUME NEW t, SetEnabled(t)
      PROVE  Inv'
  BY <1>3, AsideInv DEF SetEnabled, stores, guards, Inv, Typed
<1>4. ASSUME NEW k \in DOMAIN stored, Forget(k)
      PROVE  Inv'
  BY <1>4, AsideInv DEF Forget, world, guards, Inv, Typed
<1>5. CASE EvictTimer
  BY <1>5, AsideInv DEF EvictTimer, world, stores, Inv, Typed
<1>6. CASE Tick
  <2>1. now' = now + 1 /\ UNCHANGED <<opts, pc, caller, resp, claim, memo, seen, entered, runs, stored>>
    BY <1>6 DEF Tick, stores, guards
  <2>2. now' \in Nat /\ now' > now
    BY <2>1, SMTT(30) DEF Inv, Typed
  <2>. QED
    BY <2>1, <2>2, AsideInv
<1>. QED
  BY <1>1, <1>2, <1>3, <1>4, <1>5, <1>6 DEF Next

\* Claims, remembered envelopes and results belong to the requests they were made for, at
\* every point of runDispatchPipeline and for every interleaving of requests.
THEOREM DispatchInvariant == Spec => []Inv
<1>1. Init => Inv
  <2>. SUFFICES ASSUME Init
                PROVE  Inv
    OBVIOUS
  <2>1. Typed
    BY DEF Init, Typed, Places
  <2>2. \A r \in Requests : pc[r] = "new" /\ ~Passed(r)
    BY DEF Init, Passed
  <2>3. DOMAIN claim = {} /\ DOMAIN stored = {} /\ DOMAIN memo = {}
    BY SMTT(30) DEF Init
  <2>4. Claims
    BY <2>2, <2>3 DEF Claims, Handling
  <2>5. Guarded
    BY <2>2 DEF Guarded
  <2>6. Answers
    BY <2>2, <2>3 DEF Answers
  <2>. QED
    BY <2>1, <2>4, <2>5, <2>6 DEF Inv
<1>2. Inv /\ [Next]_vars => Inv'
  BY NextInv
<1>. QED
  BY <1>1, <1>2, PTL DEF Spec

\* A claim on an idempotency key is always held by a request in hand (the finally block
\* of runDispatchPipeline): no duplicate waits for a result nobody will produce.
THEOREM ClaimsAreReleased == Spec => []NoOrphanClaim
<1>1. Inv => NoOrphanClaim
  BY DEF Inv, Claims, NoOrphanClaim, InHand, Handling
<1>. QED
  BY <1>1, DispatchInvariant, PTL

\* Requests with one idempotency key are handled one at a time (dispatch-pipeline.ts begin
\* and the claims of the idempotency runtime).
THEOREM DuplicatesWait == Spec => []HandledOneAtATime
<1>1. Inv => HandledOneAtATime
  BY DEF Inv, Claims, HandledOneAtATime, Handling
<1>. QED
  BY <1>1, DispatchInvariant, PTL

\* With the replay guard on, an envelope starts the handler again only when its stamp was
\* ahead of the receiver's clock, and then not within a window, for every window and every
\* schedule of deliveries (replay-protection.ts check).
THEOREM EnvelopesRunOnce == Spec => []ReplaysRefused
<1>1. Inv => ReplaysRefused
  BY DEF Inv, Typed, Guarded, ReplaysRefused, Passed, Again
<1>. QED
  BY <1>1, DispatchInvariant, PTL

\* A result is only ever given to a request that asks for the same, and the after hook
\* shaped it exactly once (dispatch-pipeline.ts, router-runtime.ts, idempotency.ts).
THEOREM AnswersBelong == Spec => []AnswersAreOurs
<1>1. Inv => AnswersAreOurs
  <2>. SUFFICES ASSUME Inv, NEW r \in Requests, pc[r] = "done", resp[r].code = "ok", Req[r].name # "nevo.health"
                PROVE  LET q == resp[r].of
                       IN  /\ <<Req[q].name, Req[q].tenant, caller[q]>> = <<Req[r].name, Req[r].tenant, caller[r]>>
                           /\ Req[q].version = Req[r].version
                           /\ Req[q].payload = Req[r].payload \/ Req[q].uuid = Req[r].uuid
                           /\ resp[r].hooks = IF opts.hooks THEN 1 ELSE 0
    BY DEF AnswersAreOurs
  <2>1. ResultFor(resp[r], r)
    BY DEF Inv, Answers
  <2>. QED
    BY <2>1 DEF ResultFor, CacheKey
<1>. QED
  BY <1>1, DispatchInvariant, PTL

=============================================================================
