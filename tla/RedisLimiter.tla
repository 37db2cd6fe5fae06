---------------------------- MODULE RedisLimiter ----------------------------
(***************************************************************************)
(* RedisRateLimiter behind withLocalShield: calls of one process share the  *)
(* cached script and its single load; the bucket is shared by the cluster   *)
(* and its script is atomic; Redis may fail and may lose its script cache.  *)
(***************************************************************************)
EXTENDS Integers, FiniteSets, FiniteSetsExt

CONSTANTS
  Calls,
  Capacity, Refill,  \* the bucket, in tokens and tokens per tick
  Ttl,               \* PEXPIRE of the bucket, in ticks
  MaxTime,           \* bound: the clock
  MaxFaults          \* bound: failed commands and script flushes

VARIABLES
  now, faults,
  failOpen,
  tokens, last,   \* the hash in Redis; tokens = -1 when the key does not exist
  server,         \* Redis knows the script
  sha, loading,   \* the cached digest; a SCRIPT LOAD in flight
  call,           \* each call
  again,          \* calls that have met NOSCRIPT once
  local,          \* tokens spent of the local limiter
  granted         \* history: calls the script admitted

vars == <<now, faults, failOpen, tokens, last, server, sha, loading, call, again, local, granted>>
bucket == <<tokens, last>>
fault == faults < MaxFaults /\ faults' = faults + 1

Init ==
  /\ failOpen \in BOOLEAN /\ now = 0 /\ faults = 0
  /\ tokens = -1 /\ last = 0 /\ server = FALSE /\ sha = FALSE /\ loading = FALSE
  /\ call = [c \in Calls |-> "new"] /\ again = {} /\ local = 0 /\ granted = 0

-----------------------------------------------------------------------------
\* The Lua script: refill by the clock of Redis, then take one token.
RefillExtra == IF tokens = -1 THEN Capacity ELSE Min({Capacity, tokens + (now - last) * Refill + 1})   \* mutant
Refilled == IF tokens = -1 THEN Capacity ELSE Min({Capacity, tokens + (now - last) * Refill})
Script ==
  /\ tokens' = IF Refilled < 1 THEN Refilled ELSE Refilled - 1
  /\ last' = now
  /\ granted' = IF Refilled < 1 THEN granted ELSE granted + 1

\* What check() makes of an error; the local limiter is asked after the remote one admitted.
Failed(S) ==
  /\ call' = [c \in Calls |-> IF c \in S THEN (IF failOpen THEN "allowed" ELSE "error") ELSE call[c]]
  /\ local' = local + (IF failOpen THEN Cardinality(S) ELSE 0)

\* executeScript up to its first await: the cached digest, or the one load in flight.
CheckWaits(c) ==     \* mutant: it waits for a load it does not start
  /\ call[c] = "new"
  /\ call' = [call EXCEPT ![c] = IF sha THEN "evals" ELSE "loads"]
  /\ UNCHANGED <<now, faults, failOpen, bucket, server, sha, loading, again, local, granted>>
Check(c) ==
  /\ call[c] = "new"
  /\ call' = [call EXCEPT ![c] = IF sha THEN "evals" ELSE "loads"]
  /\ loading' = (loading \/ ~sha)
  /\ UNCHANGED <<now, faults, failOpen, bucket, server, sha, again, local, granted>>

Loaded ==
  /\ loading /\ loading' = FALSE
  /\ server' = TRUE /\ sha' = TRUE
  /\ call' = [c \in Calls |-> IF call[c] = "loads" THEN "evals" ELSE call[c]]
  /\ UNCHANGED <<now, faults, failOpen, bucket, again, local, granted>>

LoadFails ==
  /\ loading /\ fault /\ loading' = FALSE
  /\ Failed({c \in Calls : call[c] = "loads"})
  /\ UNCHANGED <<now, failOpen, bucket, server, sha, again, granted>>

Eval(c) ==
  /\ call[c] = "evals" /\ server /\ Script
  /\ call' = [call EXCEPT ![c] = IF Refilled < 1 THEN "limited" ELSE "allowed"]
  /\ local' = local + (IF Refilled < 1 THEN 0 ELSE 1)
  /\ UNCHANGED <<now, faults, failOpen, server, sha, loading, again>>

\* NOSCRIPT: forget the digest and load once more; the second NOSCRIPT is an error.
NoScript(c) ==
  /\ call[c] = "evals" /\ ~server
  /\ IF c \in again
     THEN Failed({c}) /\ UNCHANGED <<sha, loading, again>>
     ELSE /\ sha' = FALSE /\ loading' = TRUE /\ again' = again \cup {c}
          /\ call' = [call EXCEPT ![c] = "loads"] /\ UNCHANGED local
  /\ UNCHANGED <<now, faults, failOpen, bucket, server, granted>>

EvalFails(c) ==
  /\ call[c] = "evals" /\ fault /\ Failed({c})
  /\ UNCHANGED <<now, failOpen, bucket, server, sha, loading, again, granted>>

\* Redis: the script cache is flushed, the idle bucket expires.
Flush == server /\ fault /\ server' = FALSE /\ UNCHANGED <<now, failOpen, bucket, sha, loading, call, again, local, granted>>
Expire == tokens # -1 /\ now - last >= Ttl /\ tokens' = -1 /\ UNCHANGED <<now, faults, failOpen, last, server, sha, loading, call, again, local, granted>>
Tick == now < MaxTime /\ now' = now + 1 /\ UNCHANGED <<faults, failOpen, bucket, server, sha, loading, call, again, local, granted>>

Progress == Loaded \/ \E c \in Calls : Check(c) \/ Eval(c) \/ NoScript(c)
Next == Progress \/ LoadFails \/ Flush \/ Expire \/ Tick \/ \E c \in Calls : EvalFails(c)

Fairness == WF_vars(Progress)
Spec == Init /\ [][Next]_vars /\ Fairness

-----------------------------------------------------------------------------
\* The cluster-wide bucket admits at most its capacity and what the clock refilled, and the
\* local limiter is charged exactly for the calls the remote one let pass (check, withLocalShield).
ClusterRateBound ==
  /\ granted <= Capacity + Refill * now
  /\ local = Cardinality({c \in Calls : call[c] = "allowed"})

\* Every check is answered: no call is left waiting on a script load that failed or that the
\* server forgot (loadScript, executeScript).
EveryCheckEnds == <>(\A c \in Calls : call[c] \in {"allowed", "limited", "error"})
=============================================================================
