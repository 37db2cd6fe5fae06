----------------------------- MODULE EtcdClaims -----------------------------
(***************************************************************************)
(* EtcdIdempotencyStore: duplicates of one request on several replicas      *)
(* claim its key by a transaction on etcd, each replica with an L1 cache in *)
(* front; leases expire by the clock of etcd, and calls may fail.  The      *)
(* caller is TwoTierIdempotency.begin, which executes the handler itself    *)
(* when the wait for a peer gives no result.                                *)
(***************************************************************************)
EXTENDS Integers, FiniteSets

CONSTANTS
  Requests, Replica,   \* duplicates, and the replica each is at
  Policies,            \* values of readErrorPolicy
  MaxFaults            \* bound: failed calls, expired leases and waits that time out

None == "none"
Busy == "in-progress"
Result(r) == r         \* the response of the handler that request r ran

VARIABLES
  policy, key,   \* etcd: None, Busy or a result
  l1,            \* each replica: None or a result
  req,           \* each request
  got,           \* the result it was answered with
  ran,           \* history: requests whose handler succeeded
  faults,
  excuses        \* history: leases that expired, claims and waits that failed open, waits that timed out

vars == <<policy, key, l1, req, got, ran, faults, excuses>>
fault == faults < MaxFaults /\ faults' = faults + 1
Local(r) == l1[Replica[r]]
Goto(r, at) == req' = [req EXCEPT ![r] = at]
Cache(r, v) == l1' = [l1 EXCEPT ![Replica[r]] = v]
Excuse == excuses' = excuses + 1
Answer(r, v) == Goto(r, "replayed") /\ got' = [got EXCEPT ![r] = v]

Init ==
  /\ policy \in Policies /\ key = None /\ faults = 0 /\ excuses = 0 /\ ran = {}
  /\ l1 = [p \in {Replica[r] : r \in Requests} |-> None]
  /\ req = [r \in Requests |-> "new"] /\ got = [r \in Requests |-> None]

\* onReadError: rethrow, or go on with the fail-open value.
OnReadError(r, at) ==
  /\ fault
  /\ Goto(r, IF policy = "closed" THEN "error" ELSE at)
  /\ UNCHANGED <<policy, key, l1, got, ran>>

\* claim: L1, then the transaction create(key) == 0.
NotBusy == key # Busy      \* mutant: a finished key can be claimed again
Creates == key = None
Claim(r) ==
  /\ req[r] = "new"
  /\ \/ /\ Local(r) # None /\ Answer(r, Local(r))
        /\ UNCHANGED <<policy, key, l1, ran, faults, excuses>>
     \/ /\ Local(r) = None /\ Creates
        /\ key' = Busy /\ Goto(r, "handles")
        /\ UNCHANGED <<policy, l1, got, ran, faults, excuses>>
     \/ /\ Local(r) = None /\ ~Creates /\ Goto(r, "reads")
        /\ UNCHANGED <<policy, key, l1, got, ran, faults, excuses>>
ClaimFails(r) ==
  /\ req[r] = "new" /\ Local(r) = None
  /\ OnReadError(r, "handles") /\ IF policy = "open" THEN Excuse ELSE UNCHANGED excuses

\* readReal: the marker of a running handler is not a value.
AnyValue == key # None     \* mutant: the marker is decoded as a result
HasValue == key \notin {None, Busy}
ReadReal(r) ==
  IF HasValue THEN Answer(r, key) /\ Cache(r, key)
              ELSE Goto(r, "waits") /\ UNCHANGED <<l1, got>>
ReadExisting(r) ==
  /\ req[r] = "reads" /\ ReadReal(r)
  /\ UNCHANGED <<policy, key, ran, faults, excuses>>

\* awaitResult: L1 once, then polls until a value, an error or the deadline; without a value
\* begin() answers "execute".
AwaitResult(r) ==
  /\ req[r] = "waits"
  /\ IF Local(r) # None THEN Answer(r, Local(r)) ELSE Goto(r, "polls") /\ UNCHANGED got
  /\ UNCHANGED <<policy, key, l1, ran, faults, excuses>>
Poll(r) ==
  /\ req[r] = "polls" /\ HasValue /\ ReadReal(r)
  /\ UNCHANGED <<policy, key, ran, faults, excuses>>
Deadline(r) ==
  /\ req[r] = "polls" /\ fault /\ Goto(r, "handles") /\ Excuse
  /\ UNCHANGED <<policy, key, l1, got, ran>>
ReadFails(r) ==
  \/ req[r] = "reads" /\ OnReadError(r, "waits") /\ UNCHANGED excuses
  \/ /\ req[r] = "polls" /\ OnReadError(r, "handles")
     /\ IF policy = "open" THEN Excuse ELSE UNCHANGED excuses

\* set: L1 first, then etcd under a lease of its own; a failed put leaves L1 only.
HandlerOk(r) ==
  /\ req[r] = "handles" /\ ran' = ran \cup {r}
  /\ Cache(r, Result(r)) /\ Goto(r, "writes")
  /\ UNCHANGED <<policy, key, got, faults, excuses>>
Put(r) ==
  /\ req[r] = "writes" /\ Goto(r, "done") /\ key' = Result(r)
  /\ UNCHANGED <<policy, l1, got, ran, faults, excuses>>
PutFails(r) ==
  /\ req[r] = "writes" /\ fault /\ Goto(r, "done")
  /\ UNCHANGED <<policy, key, l1, got, ran, excuses>>

\* The handler failed: delete, L1 first.
HandlerFails(r) ==
  /\ req[r] = "handles" /\ Goto(r, "deletes") /\ Cache(r, None)
  /\ UNCHANGED <<policy, key, got, ran, faults, excuses>>
Delete(r) ==
  /\ req[r] = "deletes" /\ Goto(r, "failed")
  /\ \/ key' = None /\ UNCHANGED faults
     \/ fault /\ UNCHANGED key
  /\ UNCHANGED <<policy, l1, got, ran, excuses>>

LeaseExpires ==
  /\ key # None /\ fault /\ key' = None /\ Excuse
  /\ UNCHANGED <<policy, l1, req, got, ran>>

\* The L1 entry is older than its own time to live.
L1Expires(p) ==
  /\ l1[p] # None /\ fault /\ l1' = [l1 EXCEPT ![p] = None]
  /\ UNCHANGED <<policy, key, req, got, ran, excuses>>

Next ==
  \/ LeaseExpires \/ \E p \in DOMAIN l1 : L1Expires(p)
  \/ \E r \in Requests : \/ Claim(r) \/ ClaimFails(r) \/ ReadExisting(r) \/ AwaitResult(r) \/ Poll(r) \/ Deadline(r) \/ ReadFails(r)
                         \/ HandlerOk(r) \/ Put(r) \/ PutFails(r) \/ HandlerFails(r) \/ Delete(r)

Spec == Init /\ [][Next]_vars

-----------------------------------------------------------------------------
\* One request runs the handler, whatever replica they are at, and every further run, together
\* with the first or after it, takes a fault of its own: a lease that expired, a claim or a wait that
\* failed open, or a handler slower than the wait (claim, awaitResult, begin, set).  A lost
\* write, a failed delete and a handler that fails and deletes another's key add none.
EtcdOneWinner ==
  Cardinality(ran \cup {r \in Requests : req[r] \in {"handles", "writes"}}) <= 1 + excuses

\* A duplicate is answered only with the response of a handler that succeeded, faults and
\* expired leases included: never with the marker, never with one that failed (readReal, delete).
EtcdReplaysReal == \A r \in Requests : got[r] # None => got[r] \in ran
=============================================================================
