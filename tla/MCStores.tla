------------------------------ MODULE MCStores ------------------------------
(***************************************************************************)
(* A service keeps its messages in one store: each behaviour is one of the  *)
(* stores' components, chosen at the start.  The outbox relay over a store  *)
(* without claims is the module extended here.                              *)
(***************************************************************************)
EXTENDS Outbox, Integers, TLC

VARIABLES
  store,
  cRec, cDelivered, cLocked, cTodo, cSent, cAccepted, cBatched,
  bRec, bDelivered, bLocked, bTodo, bSent, bAccepted, bBatched,
  qRow, qBatch, qSending, qSends, qSent, qFinal,
  iConf, iRow, iStale, iInflight, iCall, iGot, iRan, iExcused, iFaults,
  ePolicy, eKey, eL1, eReq, eGot, eRan, eFaults, eExcuses,
  lTxn, lXid, lSeq, lCursor, lBatch, lMore, lPoll, lStuck, lStopped, lDelivered, lPoisoned, lFails, lFaults,
  fEvents, fRegistered, fBacklog, fSub, fTasks, fSeen, fLeft,
  dStore, dEntries, dAttempts, dOnEntry, dRunning, dPass, dReplays, dOk, dLost, dFailed, dForgotten,
  dDropped, dRouted,
  rNow, rFaults, rFailOpen, rTokens, rLast, rServer, rSha, rLoading, rCall, rAgain, rLocal, rGranted,
  tNow, tRow, tHeld, tExpiries, tEnded, tRuns

cVars == <<cRec, cDelivered, cLocked, cTodo, cSent, cAccepted, cBatched>>
bVars == <<bRec, bDelivered, bLocked, bTodo, bSent, bAccepted, bBatched>>
qVars == <<qRow, qBatch, qSending, qSends, qSent, qFinal>>
iVars == <<iConf, iRow, iStale, iInflight, iCall, iGot, iRan, iExcused, iFaults>>
eVars == <<ePolicy, eKey, eL1, eReq, eGot, eRan, eFaults, eExcuses>>
lVars == <<lTxn, lXid, lSeq, lCursor, lBatch, lMore, lPoll, lStuck, lStopped, lDelivered, lPoisoned,
  lFails, lFaults>>
fVars == <<fEvents, fRegistered, fBacklog, fSub, fTasks, fSeen, fLeft>>
dVars == <<dStore, dEntries, dAttempts, dOnEntry, dRunning, dPass, dReplays, dOk, dLost, dFailed,
  dForgotten, dDropped, dRouted>>
rVars == <<rNow, rFaults, rFailOpen, rTokens, rLast, rServer, rSha, rLoading, rCall, rAgain, rLocal,
  rGranted>>
tVars == <<tNow, tRow, tHeld, tExpiries, tEnded, tRuns>>
allVars == <<store, vars, cVars, bVars, qVars, iVars, eVars, lVars, fVars, dVars, rVars, tVars>>

-----------------------------------------------------------------------------
(* The instances                                                             *)

MixedKeys == [r \in Records |-> IF r % 2 = 1 THEN "p" ELSE NoKey]
OneKey == [r \in Records |-> "p"]

OnePartition == [r \in {1, 2} |-> "p"]
Claiming == INSTANCE Outbox WITH
  Records <- {1, 2}, Key <- OnePartition, Workers <- {"w1", "w2"}, Slots <- {1}, Claims <- TRUE,
  HasEmitBatch <- TRUE, Batch <- 2, MaxAttempts <- 1, CommitsInOrder <- FALSE,
  Faults <- {"slow", "dbError", "crash"},
  rec <- cRec, delivered <- cDelivered, locked <- cLocked, todo <- cTodo, sent <- cSent,
  accepted <- cAccepted, batched <- cBatched

NoPartition == [r \in {1, 2} |-> NoKey]
Batching == INSTANCE Outbox WITH
  Records <- {1, 2}, Key <- NoPartition, Workers <- {"w1", "w2"}, Slots <- {1}, Claims <- TRUE,
  HasEmitBatch <- TRUE, Batch <- 2, MaxAttempts <- 1, CommitsInOrder <- TRUE, Faults <- {"slow", "crash"},
  rec <- bRec, delivered <- bDelivered, locked <- bLocked, todo <- bTodo, sent <- bSent,
  accepted <- bAccepted, batched <- bBatched

Sql == INSTANCE SqlStores WITH
  Records <- {1, 2, 3}, Partition <- <<1, 1, 0>>, Pollers <- {"p1", "p2"}, BatchLimit <- 2, MaxRelays <- 1,
  MaxSends <- 3,
  stored <- qRow, batch <- qBatch, sending <- qSending, sends <- qSends, sent <- qSent, final <- qFinal,
  OneOffs <- {"once"}, Crons <- {"cron"}, Workers <- {"w1", "w2"}, Limit <- 1, MaxAttempts <- 2,
  MaxTime <- 1, MaxExpiries <- 1,
  now <- tNow, row <- tRow, held <- tHeld, expiries <- tExpiries, ended <- tEnded, runs <- tRuns

Box == INSTANCE Inbox WITH
  Calls <- {"a1", "a2", "b1"}, Process <- ("a1" :> "A" @@ "a2" :> "A" @@ "b1" :> "B"),
  Stores <- {"pg", "redis", "legacy"}, Policies <- {"open", "closed"}, Returns <- {"value", "void"},
  MaxFaults <- 1,
  conf <- iConf, row <- iRow, stale <- iStale, inflight <- iInflight, call <- iCall, got <- iGot,
  ran <- iRan, excused <- iExcused, faults <- iFaults

Etcd == INSTANCE EtcdClaims WITH
  Requests <- {"r1", "r2", "r3"}, Replica <- ("r1" :> "a" @@ "r2" :> "a" @@ "r3" :> "b"),
  Policies <- {"open", "closed"}, MaxFaults <- 2,
  policy <- ePolicy, key <- eKey, l1 <- eL1, req <- eReq, got <- eGot, ran <- eRan, faults <- eFaults,
  excuses <- eExcuses

CONSTANTS EventWriters, EventFaults
Events == INSTANCE Events WITH
  Writers <- EventWriters, Callers <- EventWriters, BatchSize <- 2, MaxAttempts <- 2,
  MaxFaults <- EventFaults,
  txn <- lTxn, xid <- lXid, seq <- lSeq, cursor <- lCursor, batch <- lBatch, more <- lMore, poll <- lPoll,
  stuck <- lStuck, stopped <- lStopped, delivered <- lDelivered, poisoned <- lPoisoned, fails <- lFails,
  faults <- lFaults,
  Subscribers <- {"s1", "s2"}, From <- ("s1" :> 1 @@ "s2" :> 2), MaxEvents <- 3,
  events <- fEvents, registered <- fRegistered, backlog <- fBacklog, sub <- fSub, tasks <- fTasks,
  seen <- fSeen, left <- fLeft

Dlq == INSTANCE DeadLetters WITH
  Entries <- {1, 2, 3}, Passes <- {"timer", "app"}, MaxStored <- 2,
  Window <- 2, MaxAttempts <- 1, AttemptsCap <- 1, MaxReplays <- 3,
  store <- dStore, entries <- dEntries, attempts <- dAttempts, onEntry <- dOnEntry, running <- dRunning,
  pass <- dPass, replays <- dReplays, ok <- dOk, lost <- dLost, failed <- dFailed, forgotten <- dForgotten,
  dropped <- dDropped, routed <- dRouted

Limiter == INSTANCE RedisLimiter WITH
  Calls <- {"c1", "c2", "c3"}, Capacity <- 1, Refill <- 1, Ttl <- 2, MaxTime <- 2, MaxFaults <- 2,
  now <- rNow, faults <- rFaults, failOpen <- rFailOpen, tokens <- rTokens, last <- rLast,
  server <- rServer, sha <- rSha, loading <- rLoading, call <- rCall, again <- rAgain, local <- rLocal,
  granted <- rGranted

-----------------------------------------------------------------------------
\* What the component that is not chosen would do at the start does not matter.
MCInit ==
  /\ store \in {"outbox", "outbox_claims", "outbox_batch", "sqlite", "inbox", "etcd", "events",
                "feed", "dlq", "limiter", "tasks"}
  /\ Init /\ Claiming!Init /\ Batching!Init /\ Sql!SqliteInit /\ Box!Init /\ Etcd!Init /\ Events!LogInit /\ Events!FeedInit
  /\ Dlq!Init /\ Limiter!Init /\ Sql!TasksInit
  /\ store = "inbox" \/ iConf = [store |-> "pg", policy |-> "open", returns |-> "value"]
  /\ store = "etcd" \/ ePolicy = "open"
  /\ store = "dlq" \/ dStore = "pg"
  /\ store = "limiter" \/ rFailOpen = FALSE

MCNext ==
  /\ UNCHANGED store
  /\ \/ /\ store = "outbox" /\ Next
        /\ UNCHANGED <<cVars, bVars, qVars, iVars, eVars, lVars, fVars, dVars, rVars, tVars>>
     \/ /\ store = "outbox_claims" /\ Claiming!Next
        /\ UNCHANGED <<vars, bVars, qVars, iVars, eVars, lVars, fVars, dVars, rVars, tVars>>
     \/ /\ store = "outbox_batch" /\ Batching!Next
        /\ UNCHANGED <<vars, cVars, qVars, iVars, eVars, lVars, fVars, dVars, rVars, tVars>>
     \/ /\ store = "sqlite" /\ Sql!SqliteNext
        /\ UNCHANGED <<vars, cVars, bVars, iVars, eVars, lVars, fVars, dVars, rVars, tVars>>
     \/ /\ store = "inbox" /\ Box!Next
        /\ UNCHANGED <<vars, cVars, bVars, qVars, eVars, lVars, fVars, dVars, rVars, tVars>>
     \/ /\ store = "etcd" /\ Etcd!Next
        /\ UNCHANGED <<vars, cVars, bVars, qVars, iVars, lVars, fVars, dVars, rVars, tVars>>
     \/ /\ store = "events" /\ Events!LogNext
        /\ UNCHANGED <<vars, cVars, bVars, qVars, iVars, eVars, fVars, dVars, rVars, tVars>>
     \/ /\ store = "feed" /\ Events!FeedNext
        /\ UNCHANGED <<vars, cVars, bVars, qVars, iVars, eVars, lVars, dVars, rVars, tVars>>
     \/ /\ store = "dlq" /\ Dlq!Next
        /\ UNCHANGED <<vars, cVars, bVars, qVars, iVars, eVars, lVars, fVars, rVars, tVars>>
     \/ /\ store = "limiter" /\ Limiter!Next
        /\ UNCHANGED <<vars, cVars, bVars, qVars, iVars, eVars, lVars, fVars, dVars, tVars>>
     \/ /\ store = "tasks" /\ Sql!TasksNext
        /\ UNCHANGED <<vars, cVars, bVars, qVars, iVars, eVars, lVars, fVars, dVars, rVars>>

\* The fairness of each component, for the component that runs.
MCSpec ==
  /\ MCInit /\ [][MCNext]_allVars
  /\ \A x \in {"a1", "a2", "b1"} : /\ WF_iVars(store = "inbox" /\ Box!Progress(x))
                                   /\ SF_iVars(store = "inbox" /\ Box!Deadline(x))
  /\ WF_lVars(store = "events" /\ Events!Poller)
  /\ WF_rVars(store = "limiter" /\ Limiter!Progress)

\* The event log on its own, and the outbox on its own.
EventsSpec == store = "events" /\ MCInit /\ [][MCNext]_allVars
OutboxSpec == store = "outbox" /\ MCInit /\ [][MCNext]_allVars

-----------------------------------------------------------------------------
(* What a service relies on, whichever store it uses                         *)

\* The cursor of a subscriber of the Postgres log passes no event that it was not handed.
NothingSkipped == Events!NothingSkipped


\* What replicas compete for has one winner while leases hold and the store answers: the handler
\* of a message (inbox), of a task (Postgres), the tokens of a bucket (Redis), and the handler of
\* a request (etcd), whose further runs take a fault each; and what a duplicate is given was
\* produced by a winner.
OneWinner ==
  /\ Box!HandlerRunsOnce
  /\ Etcd!EtcdOneWinner /\ Etcd!EtcdReplaysReal
  /\ Sql!OutcomeStands /\ Sql!LeasesExclude
  /\ Limiter!ClusterRateBound

\* What is recorded stays: a final outbox row, a stored inbox result, a live claim; and a record
\* never overtakes an earlier one of its partition.
RecordedStays ==
  /\ FinalIsFinal /\ OrderedRelay
  /\ Claiming!FinalIsFinal /\ Claiming!ClaimsRespected
  /\ Sql!SqliteBlocks
  /\ Box!StoredResultStays

\* Every delivery, subscription and check comes to an end, whatever fails first.
StoresAnswer ==
  /\ store = "inbox" => Box!EveryDeliveryEnds
  /\ store = "events" => Events!StreamAdvances
  /\ store = "limiter" => Limiter!EveryCheckEnds

=============================================================================
