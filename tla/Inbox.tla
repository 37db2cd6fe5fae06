------------------------------- MODULE Inbox -------------------------------
(***************************************************************************)
(* Inbox.dedupe for the deliveries of one message uuid: in every process    *)
(* one call leads and the others await it; across processes the leaders     *)
(* compete for the store's claim.  The store is Postgres, Redis, or one     *)
(* without claim(), in which case the leader checks and then acts.          *)
(***************************************************************************)
EXTENDS Integers, FiniteSets

CONSTANTS
  Calls, Process,   \* deliveries, and the process each one reaches
  Stores,           \* the kinds of store: "pg", "redis", "legacy"
  Policies,         \* readErrorPolicy: "open", "closed"
  Returns,          \* what the handler returns: "value", "void"
  MaxFaults         \* bound: failed handlers and store errors

VARIABLES
  conf,      \* store kind, error policy and what the handler returns
  row,       \* the store's entry: "none", "pending", "void" or the call whose result it holds
  stale,     \* the pending entry has outlived its claim
  inflight,  \* each process's leader
  call,      \* where each call is
  got,       \* what each call returned
  ran,       \* history: calls whose handler returned
  excused,   \* history: a claim ran out, a wait timed out or the store failed
  faults

vars == <<conf, row, stale, inflight, call, got, ran, excused, faults>>
NoCall == "none"
Values == Calls
Ended == {"done", "failed"}

Init ==
  /\ conf \in [store : Stores, policy : Policies, returns : Returns]
  /\ row = "none" /\ stale = FALSE
  /\ inflight = [p \in {Process[c] : c \in Calls} |-> NoCall]
  /\ call = [c \in Calls |-> "new"]
  /\ got = [c \in Calls |-> NoCall]
  /\ ran = {} /\ excused = FALSE /\ faults = 0

-----------------------------------------------------------------------------
(* The lease inside a process                                                *)

Followers(c) == {d \in Calls : Process[d] = Process[c] /\ call[d] = "follows"}

SettleLease(c, v) ==
  LET told == Followers(c) \cup {c}
  IN  /\ inflight' = [inflight EXCEPT ![Process[c]] = NoCall]
      /\ call' = [d \in Calls |-> IF d \in told THEN "done" ELSE call[d]]
      /\ got' = [d \in Calls |-> IF d \in told THEN v ELSE got[d]]

\* The followers of a failed leader compete for the lease again.
LeaveFollowers(c) ==   \* mutant: the followers are not told
  /\ inflight' = [inflight EXCEPT ![Process[c]] = NoCall]
  /\ call' = [call EXCEPT ![c] = "failed"]
  /\ UNCHANGED got
FailLease(c) ==
  /\ inflight' = [inflight EXCEPT ![Process[c]] = NoCall]
  /\ call' = [d \in Calls |-> IF d = c THEN "failed" ELSE IF d \in Followers(c) THEN "new" ELSE call[d]]
  /\ UNCHANGED got

OpenLease(c) ==
  /\ call[c] = "new"
  /\ IF inflight[Process[c]] = NoCall
     THEN /\ inflight' = [inflight EXCEPT ![Process[c]] = c]
          /\ call' = [call EXCEPT ![c] = IF conf.store = "legacy" THEN "looks" ELSE "claims"]
     ELSE /\ call' = [call EXCEPT ![c] = "follows"]
          /\ UNCHANGED inflight
  /\ UNCHANGED <<conf, row, stale, got, ran, excused, faults>>

Goto(c, at) == call' = [call EXCEPT ![c] = at] /\ UNCHANGED <<inflight, got>>

-----------------------------------------------------------------------------
(* The stores                                                                *)

\* Postgres: insert, or take over a stale pending row, in one statement.
PgClaimable == row = "none" \/ (row = "pending" /\ stale)
\* Redis: SET NX PX; an expired claim is gone.
RedisClaimable == row = "none"

Claimable == IF conf.store = "pg" THEN PgClaimable ELSE RedisClaimable

Claim(c) ==
  /\ call[c] = "claims"
  /\ IF Claimable
     THEN row' = "pending" /\ stale' = FALSE /\ Goto(c, "runs")
     ELSE Goto(c, "reads") /\ UNCHANGED <<row, stale>>
  /\ UNCHANGED <<conf, ran, excused, faults>>

\* The read after a lost claim is a statement of its own.
ReadExisting(c) ==
  /\ call[c] = "reads"
  /\ IF row \in Values THEN SettleLease(c, row) ELSE Goto(c, "polls")
  /\ UNCHANGED <<conf, row, stale, ran, excused, faults>>

\* Only a pending row is completed by Postgres; Redis overwrites what is there.
AnyStored(v) == v        \* mutant: no status in the update's condition
PgStored(v) == IF row \in {"none", "pending"} THEN v ELSE row
RedisStored(v) == v
Stored(v) == IF conf.store = "pg" THEN PgStored(v) ELSE RedisStored(v)

MarkSeen(c) ==
  LET v == IF conf.returns = "void" THEN "void" ELSE c
  IN  /\ call[c] = "marks"
      /\ row' = Stored(v) /\ stale' = FALSE
      /\ SettleLease(c, v)
      /\ UNCHANGED <<conf, ran, excused, faults>>

-----------------------------------------------------------------------------
(* Waiting for a peer                                                        *)

PollResult(c) ==
  /\ call[c] = "polls"
  /\ IF row \in Values THEN SettleLease(c, row) ELSE Goto(c, "polls_done")
  /\ UNCHANGED <<conf, row, stale, ran, excused, faults>>

IsDone == row \in Values \cup {"void"}

PollDone(c) ==
  /\ call[c] = "polls_done"
  /\ Goto(c, IF IsDone THEN "asks" ELSE "polls")
  /\ UNCHANGED <<conf, row, stale, ran, excused, faults>>

Deadline(c) ==
  /\ call[c] = "polls"
  /\ excused' = TRUE
  /\ Goto(c, "asks")
  /\ UNCHANGED <<conf, row, stale, ran, faults>>

\* isFinished: nothing was read, so a finished peer must have returned nothing.
RunAnyway(c) ==        \* mutant: a peer that finished without a value is run again
  /\ call[c] = "asks"
  /\ Goto(c, "runs")
  /\ UNCHANGED <<conf, row, stale, ran, excused, faults>>
Finished(c) ==
  /\ call[c] = "asks"
  /\ IF IsDone THEN SettleLease(c, "void") ELSE Goto(c, "runs")
  /\ UNCHANGED <<conf, row, stale, ran, excused, faults>>

\* A store without claim(): hasSeen and getResult.
LookUp(c) ==
  /\ call[c] = "looks"
  /\ IF IsDone THEN SettleLease(c, row) ELSE Goto(c, "runs")
  /\ UNCHANGED <<conf, row, stale, ran, excused, faults>>

-----------------------------------------------------------------------------
(* The handler, faults and time                                              *)

HandlerOk(c) ==
  /\ call[c] = "runs"
  /\ ran' = ran \cup {c}
  /\ Goto(c, "marks")
  /\ UNCHANGED <<conf, row, stale, excused, faults>>

\* The claim is not given back: peers wait for it to run out.
HandlerThrows(c) ==
  /\ call[c] = "runs" /\ faults < MaxFaults /\ faults' = faults + 1
  /\ FailLease(c)
  /\ UNCHANGED <<conf, row, stale, ran, excused>>

\* A store call fails.  Postgres throws; Redis follows its policy, and a lost write is logged.
StoreError(c) ==
  /\ faults < MaxFaults /\ faults' = faults + 1
  /\ excused' = TRUE
  /\ \/ /\ call[c] \in {"claims", "reads", "looks"} /\ (conf.store # "redis" \/ conf.policy = "closed")
        /\ FailLease(c)
     \/ /\ call[c] \in {"polls", "polls_done", "asks", "marks"} /\ conf.store # "redis"
        /\ FailLease(c)
     \/ call[c] = "claims" /\ conf.store = "redis" /\ conf.policy = "open" /\ Goto(c, "runs")
     \/ call[c] = "reads" /\ conf.store = "redis" /\ conf.policy = "open" /\ Goto(c, "polls")
     \/ call[c] = "polls" /\ conf.store = "redis" /\ Goto(c, "polls_done")
     \/ call[c] = "polls_done" /\ conf.store = "redis" /\ Goto(c, IF conf.policy = "closed" THEN "asks" ELSE "polls")
     \/ call[c] = "asks" /\ conf.store = "redis"
        /\ (IF conf.policy = "closed" THEN SettleLease(c, "void") ELSE Goto(c, "runs"))
     \/ call[c] = "marks" /\ conf.store = "redis"
        /\ SettleLease(c, IF conf.returns = "void" THEN "void" ELSE c)
  /\ UNCHANGED <<conf, row, stale, ran>>

\* claimTtlMs: Redis drops the entry, Postgres lets the next claim take it over.
ClaimExpires ==
  /\ row = "pending" /\ ~stale
  /\ excused' = TRUE
  /\ IF conf.store = "redis" THEN row' = "none" /\ UNCHANGED stale ELSE stale' = TRUE /\ UNCHANGED row
  /\ UNCHANGED <<conf, inflight, call, got, ran, faults>>

\* The result's time to live, or prune().
ResultExpires ==
  /\ IsDone
  /\ row' = "none" /\ excused' = TRUE
  /\ UNCHANGED <<conf, stale, inflight, call, got, ran, faults>>

Progress(c) ==
  \/ OpenLease(c) \/ Claim(c) \/ ReadExisting(c) \/ PollResult(c) \/ PollDone(c) \/ Deadline(c)
  \/ Finished(c) \/ LookUp(c) \/ HandlerOk(c) \/ MarkSeen(c)

Next ==
  \/ \E c \in Calls : Progress(c) \/ HandlerThrows(c) \/ StoreError(c)
  \/ ClaimExpires \/ ResultExpires

Spec == Init /\ [][Next]_vars

\* Promises settle and the deadline of a wait passes.
Fairness == \A c \in Calls : WF_vars(Progress(c)) /\ SF_vars(Deadline(c))
FairSpec == Spec /\ Fairness

-----------------------------------------------------------------------------
\* Unless a claim ran out, a wait timed out or the store failed, the handler succeeds
\* at most once for all the deliveries in all the processes; a store without claim()
\* promises it inside one process only (dedupe, claim).
HandlerRunsOnce ==
  ~excused => \A c, d \in ran : c = d \/ (conf.store = "legacy" /\ Process[c] # Process[d])

\* Postgres never replaces a stored result, also when a peer took over its claim
\* and both handlers finish (PgInboxStore.markSeen).
StoredResultStays == [][conf.store = "pg" /\ IsDone => row' \in {row, "none"}]_vars

\* Every delivery returns or throws: a failed leader does not leave its followers
\* waiting, and no wait for a peer is without end (dedupe, awaitResult).
EveryDeliveryEnds == \A c \in Calls : call[c] # "new" ~> call[c] \in Ended

\* A duplicate of a message whose handler returned a value gets a value.
DuplicatesGetTheResult ==
  \A c \in Calls : call[c] = "done" /\ conf.returns = "value" /\ ~excused => got[c] \in Values

=============================================================================
