------------------------------- MODULE MCOnce -------------------------------
(***************************************************************************)
(* Work that is done once although it is asked for or tried several times.  *)
(* Two replicas get duplicates of a request, one of them with a different   *)
(* payload: read errors fail closed and claims last (the module extended    *)
(* here), or they fail open and every fault occurs.  And two workers that   *)
(* may die relay a partition of an outbox in Postgres.  Each behaviour is   *)
(* one of these.                                                            *)
(***************************************************************************)
EXTENDS Idempotency, TLC

VARIABLES
  tier,
  oPc, oAnswer, oLease, oL1, oStoreL1, oRedis,
  rRec, rDelivered, rLocked, rTodo, rSent, rAccepted, rBatched

oVars == <<oPc, oAnswer, oLease, oL1, oStoreL1, oRedis>>
rVars == <<rRec, rDelivered, rLocked, rTodo, rSent, rAccepted, rBatched>>
allVars == <<tier, vars, oVars, rVars>>

MCReplicaOf == [r \in Requests |-> IF r \in {"a1", "a2", "a3"} THEN "A" ELSE "B"]
MCPayload == [r \in Requests |-> IF r \in {"a3", "b2"} THEN "other" ELSE "same"]

Open == INSTANCE Idempotency WITH
  Requests <- {"a1", "a2", "b1"}, FailOpen <- TRUE, Faults <- FaultKinds,
  ReplicaOf <- ("a1" :> "A" @@ "a2" :> "A" @@ "b1" :> "B"),
  Payload <- ("a1" :> "same" @@ "a2" :> "other" @@ "b1" :> "same"),
  pc <- oPc, answer <- oAnswer, lease <- oLease, l1 <- oL1, storeL1 <- oStoreL1, redis <- oRedis

Relay == INSTANCE Outbox WITH
  Records <- {1, 2}, Key <- <<"p", "p">>, NoKey <- "no key", Ghost <- "ghost",
  Workers <- {"w1", "w2"}, Slots <- {1}, Claims <- TRUE, HasEmitBatch <- TRUE, Batch <- 2,
  MaxAttempts <- 2, CommitsInOrder <- FALSE, Faults <- {"crash"},
  rec <- rRec, delivered <- rDelivered, locked <- rLocked, todo <- rTodo, sent <- rSent,
  accepted <- rAccepted, batched <- rBatched

MCInit ==
  /\ tier \in {"closed", "open", "outbox"}
  /\ Init /\ Open!Init /\ Relay!Init

MCNext ==
  /\ UNCHANGED tier
  /\ \/ /\ tier = "closed" /\ Next
        /\ UNCHANGED <<oVars, rVars>>
     \/ /\ tier = "open" /\ Open!Next
        /\ UNCHANGED <<vars, rVars>>
     \/ /\ tier = "outbox" /\ Relay!Next
        /\ UNCHANGED <<vars, oVars>>

\* The fairness of each component, for the component that runs.
MCSpec ==
  /\ MCInit /\ [][MCNext]_allVars
  /\ \A r \in {"a1", "a2", "b1"} : WF_oVars(tier = "open" /\ Open!Proceeds(r))
  /\ \A f \in Relay!Flushes :
       /\ WF_rVars(tier = "outbox" /\ (Relay!List(f) \/ Relay!ListLocks(f) \/ Relay!ListCommits(f)))
       /\ WF_rVars(tier = "outbox" /\ Relay!Relays(f))
  /\ \A r \in {1, 2} : /\ WF_rVars(tier = "outbox" /\ (Relay!Commit(r) \/ Relay!Rollback(r)))
                       /\ WF_rVars(tier = "outbox" /\ Relay!ClaimLapses(r))

\* With every fault, what is replayed was produced by a handler for the same payload, and every
\* request is answered or lost with its replica; a record is relayed by one worker at a time
\* although workers die, and once they stop dying it is published, parked or stands behind a
\* parked one in the end.
TriedUntilDone ==
  /\ []Open!ReplaysAreReal /\ []Relay!OneRelayer
  /\ tier = "open" => Open!EveryRequestEnds
  /\ tier = "outbox" /\ <>[][\A w \in {"w1", "w2"} : ~Relay!Crash(w)]_rVars => Relay!EventuallySettled

==============================================================================
