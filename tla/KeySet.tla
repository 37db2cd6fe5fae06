------------------------------- MODULE KeySet -------------------------------
(***************************************************************************)
(* createJwksVerifier: concurrent verifications share a cached key set that *)
(* is fetched when it is old and once more, rarely, when a token names a    *)
(* key it does not hold.  The issuer rotates its keys meanwhile.            *)
(***************************************************************************)
EXTENDS Integers, Sequences, FiniteSets

CONSTANTS
  Calls, Token,    \* verifications, and the token of each: [alg, kid, key, exp, claims]
  Jwk,             \* keys by id: [kty, alg, use]; alg and use may be "any"
  Published,       \* the issuer's key sets, in the order in which it publishes them
  Allowed,         \* the allowed algorithms
  CacheTtl, RefetchMinInterval, ClockSkew,
  MaxTime,         \* bound: the clock
  MaxFaults        \* bound: failed fetches

NoKid == "none"

VARIABLES
  now, version,      \* the issuer publishes Published[version]
  cached,            \* <<>> or <<[at, keys]>>
  lastRefetch,       \* lastRotationRefetchAt
  refetches,         \* history: when a rotation refetch began
  call,              \* each verification: [at, keys, why]
  faults

vars == <<now, version, cached, lastRefetch, refetches, call, faults>>

Init ==
  /\ now = RefetchMinInterval /\ version = 1 /\ cached = <<>> /\ lastRefetch = 0 /\ refetches = <<>>
  /\ call = [c \in Calls |-> [at |-> "new", keys |-> {}, why |-> "load"]] /\ faults = 0

Goto(c, at) == call' = [call EXCEPT ![c].at = at]

-----------------------------------------------------------------------------
(* What makes a token valid                                                  *)

\* algToSpec, ktyMatchesFamily: none and HS* have no family.
Family(alg) == CASE alg \in {"RS256", "PS256"} -> "RSA" [] alg = "ES256" -> "EC" [] OTHER -> "none"
KtyMatchesFamily(kty, alg) == kty = Family(alg)

IsAlgAllowed(alg) == alg \notin {"none", "HS256"} /\ alg \in Allowed

\* A kid must match; without one the set must be a singleton.
FindKey(keys, kid) ==
  IF kid # NoKid THEN {k \in keys : k = kid} ELSE IF Cardinality(keys) = 1 THEN keys ELSE {}

\* The key is bound to the algorithm, the signature is the key's, and the claims hold now.
AnyAlg(t, k) ==        \* mutant: the algorithm pinned by the key is not compared
  /\ KtyMatchesFamily(Jwk[k].kty, t.alg) /\ Jwk[k].use \in {"any", "sig"}
  /\ t.key = k /\ t.exp + ClockSkew >= now /\ t.claims
Valid(t, k) ==
  /\ KtyMatchesFamily(Jwk[k].kty, t.alg)
  /\ Jwk[k].alg \in {"any", t.alg} /\ Jwk[k].use \in {"any", "sig"}
  /\ t.key = k
  /\ t.exp + ClockSkew >= now
  /\ t.claims

-----------------------------------------------------------------------------
(* verify()                                                                  *)

\* The rest of verify() once the keys are at hand.
Conclude(c, keys) ==
  LET t == Token[c] found == FindKey(keys, t.kid)
  IN  Goto(c, IF \E k \in found : Valid(t, k) THEN "accepted" ELSE "rejected")

\* maybeRefetchForRotation: the time is noted before the request.
RefetchNotesLate(c, keys) ==    \* mutant: the time is noted when the request succeeds
  IF now - lastRefetch < RefetchMinInterval
  THEN Conclude(c, keys) /\ UNCHANGED <<lastRefetch, refetches>>
  ELSE /\ refetches' = Append(refetches, now) /\ UNCHANGED lastRefetch
       /\ call' = [call EXCEPT ![c].at = "asks", ![c].why = "rotation"]
MaybeRefetchForRotation(c, keys) ==
  IF now - lastRefetch < RefetchMinInterval
  THEN Conclude(c, keys) /\ UNCHANGED <<lastRefetch, refetches>>
  ELSE /\ lastRefetch' = now /\ refetches' = Append(refetches, now)
       /\ call' = [call EXCEPT ![c].at = "asks", ![c].why = "rotation"]

Loaded(c, keys) ==
  IF Token[c].kid # NoKid /\ FindKey(keys, Token[c].kid) = {}
  THEN MaybeRefetchForRotation(c, keys)
  ELSE Conclude(c, keys) /\ UNCHANGED <<lastRefetch, refetches>>

\* The algorithm is checked before anything is fetched; loadJwks serves a cache within its TTL.
Verify(c) ==
  /\ call[c].at = "new"
  /\ IF ~IsAlgAllowed(Token[c].alg) \/ Family(Token[c].alg) = "none"
     THEN Goto(c, "rejected") /\ UNCHANGED <<lastRefetch, refetches>>
     ELSE IF cached # <<>> /\ now - cached[1].at < CacheTtl
          THEN Loaded(c, cached[1].keys)
          ELSE Goto(c, "asks") /\ UNCHANGED <<lastRefetch, refetches>>
  /\ UNCHANGED <<now, version, cached, faults>>

\* The issuer answers with what it publishes at that moment; the answer arrives later.
Respond(c) ==
  /\ call[c].at = "asks"
  /\ call' = [call EXCEPT ![c].at = "answered", ![c].keys = Published[version]]
  /\ UNCHANGED <<now, version, cached, lastRefetch, refetches, faults>>

FetchJwks(c) ==
  /\ call[c].at = "answered"
  /\ cached' = <<[at |-> now, keys |-> call[c].keys]>>
  /\ IF call[c].why = "load"
     THEN Loaded(c, call[c].keys)
     ELSE Conclude(c, call[c].keys) /\ UNCHANGED <<lastRefetch, refetches>>
  /\ UNCHANGED <<now, version, faults>>

\* The fetch fails or times out: an old key set is better than none.
FetchFails(c) ==
  /\ call[c].at = "asks" /\ faults < MaxFaults /\ faults' = faults + 1
  /\ IF cached # <<>>
     THEN IF call[c].why = "load" THEN Loaded(c, cached[1].keys)
          ELSE Conclude(c, cached[1].keys) /\ UNCHANGED <<lastRefetch, refetches>>
     ELSE Goto(c, "failed") /\ UNCHANGED <<lastRefetch, refetches>>
  /\ UNCHANGED <<now, version, cached>>

Rotate == version < Len(Published) /\ version' = version + 1
          /\ UNCHANGED <<now, cached, lastRefetch, refetches, call, faults>>
Tick == now < MaxTime /\ now' = now + 1
        /\ UNCHANGED <<version, cached, lastRefetch, refetches, call, faults>>

Progress(c) == Verify(c) \/ Respond(c) \/ FetchJwks(c)
Next == Rotate \/ Tick \/ \E c \in Calls : Progress(c) \/ FetchFails(c)
Fairness == \A c \in Calls : WF_vars(Progress(c))
Spec == Init /\ [][Next]_vars /\ Fairness

-----------------------------------------------------------------------------
\* However fetches overlap, a token passes only with an allowed algorithm, under a key that the
\* issuer had published by then, of that algorithm.
AcceptedByIssuer ==
  \A c \in Calls : call[c].at = "accepted" =>
    LET t == Token[c]
    IN  /\ t.alg \in Allowed \ {"none", "HS256"} /\ t.claims
        /\ \E v \in 1..version : t.key \in Published[v]
        /\ Jwk[t.key].kty = Family(t.alg) /\ Jwk[t.key].alg \in {"any", t.alg}

\* Misses of concurrent verifications cause one refetch per interval.
RefetchThrottled == \A i \in 1..Len(refetches) - 1 : refetches[i + 1] - refetches[i] >= RefetchMinInterval

\* An outage of the issuer fails no verification once a key set was fetched.
OutageTolerated == [][\A c \in Calls : call[c].at # "failed" /\ call'[c].at = "failed" => cached = <<>>]_vars

\* Every verification ends.
VerifyEnds == \A c \in Calls : <>(call[c].at \in {"accepted", "rejected", "failed"})
=============================================================================
