----------------------------- MODULE Idempotency -----------------------------
(***************************************************************************)
(* Claim-before-execute deduplication of requests that carry one           *)
(* idempotency key: TwoTierIdempotency (an L1 cache and an in-process      *)
(* leader election in every replica) on top of RedisIdempotencyStore (a    *)
(* second L1 cache in front of one shared Redis key), driven by the        *)
(* dispatch pipeline: begin, run the handler, then commit or release.      *)
(*                                                                         *)
(* A stored envelope is named by the request whose execution produced it.  *)
(* Every step between two awaits is one action; a Redis command takes      *)
(* effect in the step that ends the await on it.  Which failures can       *)
(* happen is the constant Faults.                                          *)
(***************************************************************************)
EXTENDS FiniteSets

CONSTANTS
  Requests,       \* requests with the key, retries and duplicates included
  Replicas,       \* processes of the service
  ReplicaOf,      \* the replica each request is delivered to
  Payload,        \* the payload fingerprint of each request, or NoFingerprint
  NoFingerprint,  \* the request is keyed by its envelope uuid
  Nobody,         \* no request
  FailOpen,       \* readErrorPolicy = "open" (otherwise "closed")
  Faults          \* a subset of FaultKinds

FaultKinds == {"timeout", "claimExpiry", "resultExpiry", "readError", "writeError", "crash"}

ASSUME IdempotencyAssumption ==
  /\ Nobody \notin Requests
  /\ ReplicaOf \in [Requests -> Replicas]
  /\ FailOpen \in BOOLEAN
  /\ Faults \subseteq FaultKinds
  /\ Requests \cap {"none", "busy", "pending", "failed"} = {} /\ Nobody \notin {"none", "busy"}

VARIABLES
  pc,       \* where each request is
  answer,   \* the envelope a request was answered with, Nobody for an error
  lease,    \* inflight/leaders of each replica: the leading request
  l1,       \* TwoTierIdempotency.l1 of each replica
  storeL1,  \* RedisIdempotencyStore.l1 of each replica
  redis     \* the shared key: "none", "busy" (the in-progress sentinel) or an envelope

vars == <<pc, answer, lease, l1, storeL1, redis>>

Locations == {"new", "wait", "rejected", "claim", "read", "poll", "exec",
              "commit", "release", "answered", "conflict", "failed", "crashed"}
Final == {"answered", "conflict", "failed", "crashed"}
Leading == {"claim", "read", "poll", "exec"}

Goto(r, where) == pc' = [pc EXCEPT ![r] = where]
Peers(r) == {q \in Requests : ReplicaOf[q] = ReplicaOf[r]}
Waiters(r) == {q \in Peers(r) : pc[q] = "wait"}

-----------------------------------------------------------------------------
(* Envelopes and leases.                                                     *)

ConflictsNever(e, r) == FALSE       \* mutant: fingerprints are not compared
Conflicts(e, r) ==
  Payload[e] # NoFingerprint /\ Payload[r] # NoFingerprint /\ Payload[e] # Payload[r]

\* settle: replay the envelope e, unless it was produced for another payload.
Settled(e, r) == IF Conflicts(e, r) THEN "conflict" ELSE "answered"
Replayed(e, r) == IF Conflicts(e, r) THEN Nobody ELSE e

\* settleLease: the requests of S get e (the waiters' promise resolves with it).
SettleAll(S, e) ==
  /\ pc' = [q \in Requests |-> IF q \in S THEN Settled(e, q) ELSE pc[q]]
  /\ answer' = [q \in Requests |-> IF q \in S THEN Replayed(e, q) ELSE answer[q]]

\* The leader r learns of the envelope e from the store and shares it.
Found(r, e) ==
  /\ l1' = [l1 EXCEPT ![ReplicaOf[r]] = e]
  /\ lease' = [lease EXCEPT ![ReplicaOf[r]] = Nobody]
  /\ SettleAll({r} \cup Waiters(r), e)

LeaseFailsSilently(r, where) ==     \* mutant: the leader's promise is dropped, not rejected
  Goto(r, where) /\ lease' = [lease EXCEPT ![ReplicaOf[r]] = Nobody]

\* failLease: r goes to `where`; its waiters race for leadership again.
LeaseFails(r, where) ==
  /\ pc' = [q \in Requests |-> IF q = r THEN where
                               ELSE IF q \in Waiters(r) THEN "rejected" ELSE pc[q]]
  /\ lease' = [lease EXCEPT ![ReplicaOf[r]] = Nobody]

-----------------------------------------------------------------------------
(* begin                                                                     *)

\* One caller per key leads, the rest await it.  The new leader's claim() first
\* looks at the store's own cache.
Elect(r) ==
  LET p == ReplicaOf[r] IN
  \/ /\ lease[p] # Nobody
     /\ Goto(r, "wait")
     /\ UNCHANGED <<answer, lease, l1>>
  \/ /\ lease[p] = Nobody /\ storeL1[p] # Nobody
     /\ Found(r, storeL1[p])
  \/ /\ lease[p] = Nobody /\ storeL1[p] = Nobody
     /\ lease' = [lease EXCEPT ![p] = r]
     /\ Goto(r, "claim")
     /\ UNCHANGED <<answer, l1>>

Begin(r) ==
  /\ pc[r] = "new"
  /\ \/ /\ l1[ReplicaOf[r]] # Nobody
        /\ SettleAll({r}, l1[ReplicaOf[r]])
        /\ UNCHANGED <<lease, l1>>
     \/ l1[ReplicaOf[r]] = Nobody /\ Elect(r)
  /\ UNCHANGED <<storeL1, redis>>

LeadAgainOnlyWaits(r) ==            \* mutant: a rejected waiter never leads itself
  /\ pc[r] = "rejected"
  /\ lease[ReplicaOf[r]] # Nobody
  /\ Goto(r, "wait")
  /\ UNCHANGED <<answer, lease, l1, storeL1, redis>>

\* The leader r was waiting for failed.
LeadAgain(r) ==
  /\ pc[r] = "rejected"
  /\ Elect(r)
  /\ UNCHANGED <<storeL1, redis>>

\* onReadError: fail open into `where`, or fail the request.
ReadError(r, where) ==
  \/ /\ FailOpen
     /\ Goto(r, where)
     /\ UNCHANGED <<answer, lease>>
  \/ /\ ~FailOpen
     /\ LeaseFails(r, "failed")
     /\ UNCHANGED answer

KeyFreeOrClaimed == redis \notin Requests          \* mutant: the claim overwrites a sentinel
KeyFree == redis = "none"

\* SET NX.  When the call fails, the command may have been executed or not.
Claim(r) ==
  /\ pc[r] = "claim"
  /\ \/ /\ KeyFree
        /\ redis' = "busy"
        /\ Goto(r, "exec")
        /\ UNCHANGED <<answer, lease>>
     \/ /\ ~KeyFree
        /\ Goto(r, "read")
        /\ UNCHANGED <<redis, answer, lease>>
     \/ /\ "readError" \in Faults
        /\ redis' \in {redis, IF KeyFree THEN "busy" ELSE redis}
        /\ ReadError(r, "exec")
  /\ UNCHANGED <<l1, storeL1>>

\* readReal finds an envelope: the store's cache is warmed, the lease settled.
ReadsResult(r) ==
  /\ redis \notin {"none", "busy"}
  /\ storeL1' = [storeL1 EXCEPT ![ReplicaOf[r]] = redis]
  /\ Found(r, redis)
  /\ UNCHANGED redis

\* The read after a lost claim.
ReadExisting(r) ==
  /\ pc[r] = "read"
  /\ \/ ReadsResult(r)
     \/ /\ redis \in {"none", "busy"}
        /\ Goto(r, "poll")
        /\ UNCHANGED <<answer, lease, l1, storeL1, redis>>
     \/ /\ "readError" \in Faults
        /\ ReadError(r, "poll")
        /\ UNCHANGED <<l1, storeL1, redis>>

\* awaitResult: polls until the deadline, after which the request is executed
\* without a claim.  Polls that find nothing change nothing.
AwaitResult(r) ==
  /\ pc[r] = "poll"
  /\ \/ ReadsResult(r)
     \/ /\ "timeout" \in Faults
        /\ Goto(r, "exec")
        /\ UNCHANGED <<answer, lease, l1, storeL1, redis>>
     \/ /\ "readError" \in Faults
        /\ ReadError(r, "exec")
        /\ UNCHANGED <<l1, storeL1, redis>>

-----------------------------------------------------------------------------
(* The handler, commit and release                                           *)

\* commit up to its write: both caches hold the envelope, the waiters get it.
HandlerOk(r) ==
  LET p == ReplicaOf[r] IN
  /\ pc[r] = "exec"
  /\ pc' = [q \in Requests |-> IF q = r THEN "commit"
                               ELSE IF q \in Waiters(r) THEN Settled(r, q) ELSE pc[q]]
  /\ answer' = [q \in Requests |-> IF q = r THEN r
                                   ELSE IF q \in Waiters(r) THEN Replayed(r, q) ELSE answer[q]]
  /\ lease' = [lease EXCEPT ![p] = Nobody]
  /\ l1' = [l1 EXCEPT ![p] = r]
  /\ storeL1' = [storeL1 EXCEPT ![p] = r]
  /\ UNCHANGED redis

CommitReleases(r) ==                \* mutant: the claim is released although the result was committed
  /\ pc[r] = "commit"
  /\ Goto(r, "answered")
  /\ redis' = "none"
  /\ UNCHANGED <<answer, lease, l1, storeL1>>

\* set() overwrites whatever is there; a failed write is only logged.
Commit(r) ==
  /\ pc[r] = "commit"
  /\ Goto(r, "answered")
  /\ redis' \in {r} \cup (IF "writeError" \in Faults THEN {redis} ELSE {})
  /\ UNCHANGED <<answer, lease, l1, storeL1>>

\* The handler throws: release up to its DEL.
HandlerError(r) ==
  /\ pc[r] = "exec"
  /\ LeaseFails(r, "release")
  /\ storeL1' = [storeL1 EXCEPT ![ReplicaOf[r]] = Nobody]
  /\ UNCHANGED <<answer, l1, redis>>

\* DEL removes whatever is there; a failed one is ignored.
Release(r) ==
  /\ pc[r] = "release"
  /\ Goto(r, "failed")
  /\ redis' \in {"none"} \cup (IF "writeError" \in Faults THEN {redis} ELSE {})
  /\ UNCHANGED <<answer, lease, l1, storeL1>>

-----------------------------------------------------------------------------
(* The environment: LRU and TTL eviction, TTLs in Redis, process crashes.    *)

Evict(p) ==
  /\ \/ l1[p] # Nobody /\ l1' = [l1 EXCEPT ![p] = Nobody] /\ UNCHANGED storeL1
     \/ storeL1[p] # Nobody /\ storeL1' = [storeL1 EXCEPT ![p] = Nobody] /\ UNCHANGED l1
  /\ UNCHANGED <<pc, answer, lease, redis>>

ClaimExpires ==
  /\ "claimExpiry" \in Faults
  /\ redis = "busy"
  /\ redis' = "none"
  /\ UNCHANGED <<pc, answer, lease, l1, storeL1>>

ResultExpires ==
  /\ "resultExpiry" \in Faults
  /\ redis \in Requests
  /\ redis' = "none"
  /\ UNCHANGED <<pc, answer, lease, l1, storeL1>>

\* A replica dies and restarts: its requests are lost, its memory is empty.
Crash(p) ==
  /\ "crash" \in Faults
  /\ \E r \in Requests : ReplicaOf[r] = p /\ pc[r] \notin Final \cup {"new"}
  /\ pc' = [r \in Requests |-> IF ReplicaOf[r] = p /\ pc[r] \notin Final \cup {"new"}
                               THEN "crashed" ELSE pc[r]]
  /\ lease' = [lease EXCEPT ![p] = Nobody]
  /\ l1' = [l1 EXCEPT ![p] = Nobody]
  /\ storeL1' = [storeL1 EXCEPT ![p] = Nobody]
  /\ UNCHANGED <<answer, redis>>

Init ==
  /\ pc = [r \in Requests |-> "new"]
  /\ answer = [r \in Requests |-> Nobody]
  /\ lease = [p \in Replicas |-> Nobody]
  /\ l1 = [p \in Replicas |-> Nobody]
  /\ storeL1 = [p \in Replicas |-> Nobody]
  /\ redis = "none"

Proceeds(r) ==
  \/ Begin(r) \/ LeadAgain(r) \/ Claim(r) \/ ReadExisting(r) \/ AwaitResult(r)
  \/ HandlerOk(r) \/ HandlerError(r) \/ Commit(r) \/ Release(r)

Next ==
  \/ \E r \in Requests : Proceeds(r)
  \/ \E p \in Replicas : Evict(p) \/ Crash(p)
  \/ ClaimExpires
  \/ ResultExpires

\* A request that can proceed does: promises settle, commands return, deadlines
\* pass and handlers end.
Fairness == \A r \in Requests : WF_vars(Proceeds(r))

Spec == Init /\ [][Next]_vars
FairSpec == Spec /\ Fairness

-----------------------------------------------------------------------------
(* Properties.                                                               *)

Entry == Requests \cup {Nobody}

\* Every variable has its type.
TypeOK ==
  /\ pc \in [Requests -> Locations]
  /\ answer \in [Requests -> Entry]
  /\ lease \in [Replicas -> Entry]
  /\ l1 \in [Replicas -> Entry]
  /\ storeL1 \in [Replicas -> Entry]
  /\ redis \in {"none", "busy"} \cup Requests

\* In-process leader election: a replica's lease is held exactly while its leader
\* is between openLease and settleLease or failLease, so at most one request per
\* replica claims, polls or executes; and a request that awaits a leader's promise
\* awaits one that is still going to be settled.
LeaseDiscipline ==
  /\ \A r \in Requests : pc[r] \in Leading <=> lease[ReplicaOf[r]] = r
  /\ \A r \in Requests : pc[r] = "wait" => lease[ReplicaOf[r]] # Nobody

\* The requests whose handler has succeeded.
Succeeded == {r \in Requests : answer[r] = r}
\* The requests that run, or whose commit or release is under way.
Owners == {r \in Requests : pc[r] \in {"exec", "commit", "release"}}

\* Two handlers never run at the same time for one key, in one process or across
\* replicas.  Holds without timeouts and claim expiry when read errors fail closed.
ExclusiveExecution ==
  \A r, q \in Requests : pc[r] = "exec" /\ pc[q] = "exec" => r = q

\* The handler succeeds at most once for one key, and once it has, it is not
\* running or about to be released.  Same conditions.
SingleSuccess ==
  \A r \in Succeeded : \A q \in Succeeded \cup Owners : q = r

\* Everything a cache or Redis replays was produced by a handler that succeeded:
\* the in-progress sentinel and released claims never surface as a response, and
\* a response is replayed only to requests with the same payload.
ReplaysAreReal ==
  /\ \A p \in Replicas : {l1[p], storeL1[p]} \subseteq Succeeded \cup {Nobody}
  /\ redis \in Requests => redis \in Succeeded
  /\ \A r \in Requests : answer[r] # Nobody =>
        /\ answer[r] \in Succeeded
        /\ NoFingerprint \in {Payload[answer[r]], Payload[r]} \/ Payload[answer[r]] = Payload[r]

\* The two tiers, the leases and the Redis commands together implement the abstract
\* specification OnceOnly: one execution at a time, none after a success, and every
\* answer is the result of that success.  Same conditions.
Abstract == INSTANCE OnceOnly WITH
  Pending <- "pending",
  Failed  <- "failed",
  running <- {r \in Requests : pc[r] = "exec"},
  verdict <- [r \in Requests |-> IF answer[r] # Nobody THEN answer[r]
                                 ELSE IF pc[r] \in Final \cup {"release"} THEN "failed" ELSE "pending"]
ImplementsOnceOnly == Abstract!Spec

\* Every request is answered, or lost with its replica: no waiter is forgotten when
\* its leader fails, and no claim blocks a request for ever.
EveryRequestEnds == \A r \in Requests : <>(pc[r] \in Final)

=============================================================================
