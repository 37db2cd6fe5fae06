-------------------------- MODULE IdempotencyProofs --------------------------
(***************************************************************************)
(* Proofs about deduplication, for any number of requests and replicas.    *)
(* LeaseDiscipline is inductive with the types, under every fault.  That   *)
(* handlers exclude each other needs more: whoever executes, commits or    *)
(* releases owns the sentinel in Redis, and a success is never forgotten.  *)
(***************************************************************************)
EXTENDS Idempotency, TLAPS

USE Zenon

USE IdempotencyAssumption

LeaseInv == TypeOK /\ LeaseDiscipline

-----------------------------------------------------------------------------
(* The leader election.                                                      *)

LEMMA InitLease == Init => LeaseInv
BY DEF Init, LeaseInv, TypeOK, LeaseDiscipline, Locations, Leading, Entry

\* Settling a set of requests gives each of them a final location.
LEMMA SettleAllType ==
  ASSUME TypeOK, NEW S \in SUBSET Requests, NEW e \in Requests, SettleAll(S, e)
  PROVE  /\ pc' \in [Requests -> Locations]
         /\ answer' \in [Requests -> Entry]
         /\ \A q \in S : pc'[q] \in {"conflict", "answered"}
         /\ \A q \in Requests \ S : pc'[q] = pc[q]
BY DEF TypeOK, SettleAll, Settled, Replayed, Locations, Entry

LEMMA FoundLease ==
  ASSUME LeaseInv, NEW r \in Requests, NEW e \in Requests, Found(r, e),
         lease[ReplicaOf[r]] \in {r, Nobody}, UNCHANGED redis,
         storeL1' \in [Replicas -> Entry]
  PROVE  LeaseInv'
<1>1. {r} \cup Waiters(r) \in SUBSET Requests
  BY DEF Waiters, Peers
<1>2. /\ pc' \in [Requests -> Locations] /\ answer' \in [Requests -> Entry]
      /\ \A q \in {r} \cup Waiters(r) : pc'[q] \in {"conflict", "answered"}
      /\ \A q \in Requests \ ({r} \cup Waiters(r)) : pc'[q] = pc[q]
  BY <1>1, SettleAllType DEF Found, LeaseInv
<1>3. TypeOK'
  BY <1>2 DEF LeaseInv, TypeOK, Found, Entry
<1>4. LeaseDiscipline'
  BY <1>2, SMTT(30) DEF LeaseInv, TypeOK, LeaseDiscipline, Found, Waiters, Peers, Leading
<1> QED
  BY <1>3, <1>4 DEF LeaseInv

LEMMA LeaseFailsLease ==
  ASSUME LeaseInv, NEW r \in Requests, pc[r] \in Leading, NEW where \in {"release", "failed"},
         LeaseFails(r, where), answer' \in [Requests -> Entry], l1' \in [Replicas -> Entry],
         storeL1' \in [Replicas -> Entry], redis' \in {"none", "busy"} \cup Requests
  PROVE  LeaseInv'
<1>1. TypeOK'
  BY DEF LeaseInv, TypeOK, LeaseFails, Locations, Entry
<1>2. LeaseDiscipline'
  BY ZenonT(60) DEF LeaseInv, TypeOK, LeaseDiscipline, LeaseFails, Waiters, Peers, Leading
<1> QED
  BY <1>1, <1>2 DEF LeaseInv

LEMMA ElectLease ==
  ASSUME LeaseInv, NEW r \in Requests, pc[r] \in {"new", "rejected"}, Elect(r),
         UNCHANGED <<storeL1, redis>>
  PROVE  LeaseInv'
<1>1. CASE lease[ReplicaOf[r]] # Nobody
  <2>1. TypeOK'
    BY <1>1 DEF Elect, LeaseInv, TypeOK, Goto, Locations
  <2>2. LeaseDiscipline'
    BY <1>1, ZenonT(60) DEF Elect, LeaseInv, TypeOK, LeaseDiscipline, Goto, Leading
  <2> QED
    BY <2>1, <2>2 DEF LeaseInv
<1>2. CASE lease[ReplicaOf[r]] = Nobody /\ storeL1[ReplicaOf[r]] # Nobody
  <2>1. storeL1[ReplicaOf[r]] \in Requests /\ Found(r, storeL1[ReplicaOf[r]])
    BY <1>2 DEF Elect, LeaseInv, TypeOK, Entry
  <2> QED
    BY <1>2, <2>1, FoundLease DEF LeaseInv, TypeOK
<1>3. CASE lease[ReplicaOf[r]] = Nobody /\ storeL1[ReplicaOf[r]] = Nobody
  <2>1. TypeOK'
    BY <1>3, SMTT(30) DEF Elect, LeaseInv, TypeOK, Goto, Locations, Entry
  <2>2. LeaseDiscipline'
    BY <1>3, SMTT(30) DEF Elect, LeaseInv, TypeOK, LeaseDiscipline, Goto, Leading
  <2> QED
    BY <2>1, <2>2 DEF LeaseInv
<1> QED
  BY <1>1, <1>2, <1>3

LEMMA ReadErrorLease ==
  ASSUME LeaseInv, NEW r \in Requests, pc[r] \in Leading, NEW where \in {"exec", "poll"},
         ReadError(r, where), UNCHANGED <<l1, storeL1>>,
         redis' \in {"none", "busy"} \cup Requests
  PROVE  LeaseInv'
<1>1. CASE FailOpen
  <2>1. TypeOK'
    BY <1>1 DEF ReadError, LeaseInv, TypeOK, Goto, Locations
  <2>2. LeaseDiscipline'
    BY <1>1, ZenonT(60) DEF ReadError, LeaseInv, TypeOK, LeaseDiscipline, Goto, Leading
  <2> QED
    BY <2>1, <2>2 DEF LeaseInv
<1>2. CASE ~FailOpen
  BY <1>2, LeaseFailsLease DEF ReadError, LeaseInv, TypeOK
<1> QED
  BY <1>1, <1>2

LEMMA ReadsResultLease ==
  ASSUME LeaseInv, NEW r \in Requests, pc[r] \in Leading, ReadsResult(r)
  PROVE  LeaseInv'
<1>1. redis \in Requests /\ Found(r, redis) /\ storeL1' \in [Replicas -> Entry]
  BY DEF ReadsResult, LeaseInv, TypeOK, Entry
<1>2. lease[ReplicaOf[r]] = r
  BY DEF LeaseInv, LeaseDiscipline
<1> QED
  BY <1>1, <1>2, FoundLease DEF ReadsResult

LEMMA NextLease == LeaseInv /\ [Next]_vars => LeaseInv'
<1> SUFFICES ASSUME LeaseInv, [Next]_vars PROVE LeaseInv'
  OBVIOUS
<1>1. ASSUME NEW r \in Requests, Begin(r) PROVE LeaseInv'
  <2>1. CASE l1[ReplicaOf[r]] = Nobody
    BY <1>1, <2>1, ElectLease DEF Begin
  <2>2. CASE l1[ReplicaOf[r]] # Nobody
    <3>1. l1[ReplicaOf[r]] \in Requests /\ SettleAll({r}, l1[ReplicaOf[r]])
      BY <1>1, <2>2 DEF Begin, LeaseInv, TypeOK, Entry
    <3>2. /\ pc' \in [Requests -> Locations] /\ answer' \in [Requests -> Entry]
          /\ pc'[r] \in {"conflict", "answered"}
          /\ \A q \in Requests \ {r} : pc'[q] = pc[q]
      BY <3>1, SettleAllType, ZenonT(60) DEF LeaseInv
    <3>3. UNCHANGED <<lease, l1, storeL1, redis>> /\ pc[r] = "new"
      BY <1>1, <2>2 DEF Begin
    <3>4. TypeOK'
      BY <3>2, <3>3 DEF LeaseInv, TypeOK, Entry
    <3>5. LeaseDiscipline'
      BY <3>2, <3>3 DEF LeaseInv, TypeOK, LeaseDiscipline, Leading
    <3> QED
      BY <3>4, <3>5 DEF LeaseInv
  <2> QED
    BY <2>1, <2>2
<1>2. ASSUME NEW r \in Requests, LeadAgain(r) PROVE LeaseInv'
  BY <1>2, ElectLease DEF LeadAgain
<1>3. ASSUME NEW r \in Requests, Claim(r) PROVE LeaseInv'
  <2>1. pc[r] \in Leading /\ UNCHANGED <<l1, storeL1>> /\ redis' \in {"none", "busy"} \cup Requests
    BY <1>3 DEF Claim, Leading, LeaseInv, TypeOK
  <2>2. CASE ReadError(r, "exec")
    BY <2>1, <2>2, ReadErrorLease
  <2>3. CASE (Goto(r, "exec") \/ Goto(r, "read")) /\ UNCHANGED <<answer, lease>>
    <3>1. TypeOK'
      BY <2>1, <2>3 DEF LeaseInv, TypeOK, Goto, Locations
    <3>2. LeaseDiscipline'
      BY <2>1, <2>3, SMTT(30) DEF LeaseInv, TypeOK, LeaseDiscipline, Goto, Leading
    <3> QED
      BY <3>1, <3>2 DEF LeaseInv
  <2> QED
    BY <1>3, <2>2, <2>3 DEF Claim
<1>4. ASSUME NEW r \in Requests, ReadExisting(r) \/ AwaitResult(r) PROVE LeaseInv'
  <2>1. pc[r] \in Leading
    BY <1>4 DEF ReadExisting, AwaitResult, Leading
  <2>2. CASE ReadsResult(r)
    BY <2>1, <2>2, ReadsResultLease
  <2>3. CASE (ReadError(r, "poll") \/ ReadError(r, "exec")) /\ UNCHANGED <<l1, storeL1, redis>>
    BY <2>1, <2>3, ReadErrorLease DEF LeaseInv, TypeOK
  <2>4. CASE (Goto(r, "poll") \/ Goto(r, "exec")) /\ UNCHANGED <<answer, lease, l1, storeL1, redis>>
    <3>1. TypeOK'
      BY <2>4 DEF LeaseInv, TypeOK, Goto, Locations
    <3>2. LeaseDiscipline'
      BY <2>1, <2>4, SMTT(30) DEF LeaseInv, TypeOK, LeaseDiscipline, Goto, Leading
    <3> QED
      BY <3>1, <3>2 DEF LeaseInv
  <2> QED
    BY <1>4, <2>2, <2>3, <2>4 DEF ReadExisting, AwaitResult
<1>5. ASSUME NEW r \in Requests, HandlerOk(r) PROVE LeaseInv'
  <2>1. /\ pc' \in [Requests -> Locations] /\ pc'[r] = "commit"
        /\ \A q \in Waiters(r) : pc'[q] \in {"conflict", "answered"}
        /\ \A q \in Requests \ ({r} \cup Waiters(r)) : pc'[q] = pc[q]
    BY <1>5 DEF HandlerOk, Settled, Waiters, Peers, Locations, LeaseInv, TypeOK
  <2>2. answer' \in [Requests -> Entry]
    BY <1>5 DEF HandlerOk, Replayed, LeaseInv, TypeOK, Entry
  <2>3. TypeOK'
    BY <1>5, <2>1, <2>2 DEF HandlerOk, LeaseInv, TypeOK, Entry
  <2>4. LeaseDiscipline'
    BY <1>5, <2>1, SMTT(30) DEF HandlerOk, LeaseInv, TypeOK, LeaseDiscipline, Waiters, Peers, Leading
  <2> QED
    BY <2>3, <2>4 DEF LeaseInv
<1>6. ASSUME NEW r \in Requests, HandlerError(r) PROVE LeaseInv'
  <2>1. /\ pc[r] \in Leading /\ LeaseFails(r, "release") /\ answer' \in [Requests -> Entry]
        /\ l1' \in [Replicas -> Entry] /\ storeL1' \in [Replicas -> Entry]
        /\ redis' \in {"none", "busy"} \cup Requests
    BY <1>6 DEF HandlerError, LeaseInv, TypeOK, Leading, Entry
  <2> QED
    BY <2>1, LeaseFailsLease
<1>7. ASSUME NEW r \in Requests, Commit(r) \/ Release(r) PROVE LeaseInv'
  <2>1. TypeOK'
    BY <1>7 DEF Commit, Release, LeaseInv, TypeOK, Goto, Locations
  <2>2. LeaseDiscipline'
    BY <1>7, SMTT(30) DEF Commit, Release, LeaseInv, TypeOK, LeaseDiscipline, Goto, Leading
  <2> QED
    BY <2>1, <2>2 DEF LeaseInv
<1>8. ASSUME NEW p \in Replicas, Evict(p) PROVE LeaseInv'
  BY <1>8, ZenonT(60) DEF Evict, LeaseInv, TypeOK, LeaseDiscipline, Entry
<1>9. ASSUME NEW p \in Replicas, Crash(p) PROVE LeaseInv'
  <2>1. TypeOK'
    BY <1>9 DEF Crash, LeaseInv, TypeOK, Locations, Entry
  <2>2. LeaseDiscipline'
    BY <1>9, ZenonT(60) DEF Crash, LeaseInv, TypeOK, LeaseDiscipline, Leading, Final
  <2> QED
    BY <2>1, <2>2 DEF LeaseInv
<1>10. CASE ClaimExpires \/ ResultExpires \/ UNCHANGED vars
  BY <1>10 DEF ClaimExpires, ResultExpires, vars, LeaseInv, TypeOK, LeaseDiscipline
<1> QED
  BY <1>1, <1>2, <1>3, <1>4, <1>5, <1>6, <1>7, <1>8, <1>9, <1>10 DEF Next, Proceeds

\* The types and the leader election are invariant under every fault the model
\* has: timeouts, expiry, failing Redis commands, crashes, either read-error policy.
THEOREM LeaseInvariant == Spec => []LeaseInv
BY InitLease, NextLease, PTL DEF Spec

\* Every variable of the deduplication keeps its type.
THEOREM IdempotencyTyped == Spec => []TypeOK
BY LeaseInvariant, PTL DEF LeaseInv

\* openLease, settleLease and failLease keep one leader per replica and never
\* leave a waiter without a leader.
THEOREM OneLeader == Spec => []LeaseDiscipline
BY LeaseInvariant, PTL DEF LeaseInv

-----------------------------------------------------------------------------
(* What is replayed.                                                         *)

Pending == {"new", "wait", "rejected", "claim", "read", "poll", "exec", "release"}

\* A request has no answer before it is settled; one that commits answers itself.
Unanswered ==
  \A r \in Requests : /\ pc[r] \in Pending => answer[r] = Nobody
                      /\ pc[r] = "commit" => answer[r] = r

ReplayInv == ReplaysAreReal /\ Unanswered

LEMMA InitReplay == Init => ReplayInv
BY SMTT(30) DEF Init, ReplayInv, ReplaysAreReal, Unanswered, Succeeded, Pending

\* A step that answers nobody and stores nothing new.
LEMMA AnswersKept ==
  ASSUME LeaseInv, ReplayInv, UNCHANGED answer,
         \A p \in Replicas : l1'[p] \in {l1[p], Nobody},
         \A p \in Replicas : storeL1'[p] \in {storeL1[p], Nobody},
         redis' \in Requests => redis' \in Succeeded,
         \A r \in Requests : /\ pc'[r] \in Pending => pc[r] \in Pending
                             /\ pc'[r] = "commit" => pc[r] = "commit"
  PROVE  ReplayInv'
<1>1. Succeeded' = Succeeded
  BY DEF Succeeded
<1>2. ReplaysAreReal'
  BY <1>1, SMTT(30) DEF ReplayInv, ReplaysAreReal
<1>3. Unanswered'
  BY DEF ReplayInv, Unanswered
<1> QED
  BY <1>2, <1>3 DEF ReplayInv

\* Settling unanswered requests with a real envelope makes none of them a success.
LEMMA SettleAllReplay ==
  ASSUME LeaseInv, ReplayInv, NEW S \in SUBSET Requests, NEW e \in Succeeded, SettleAll(S, e),
         \A q \in S : pc[q] \in Pending
  PROVE  /\ Succeeded' = Succeeded
         /\ \A q \in Requests : answer'[q] # Nobody =>
               /\ answer'[q] \in Succeeded
               /\ NoFingerprint \in {Payload[answer'[q]], Payload[q]} \/ Payload[answer'[q]] = Payload[q]
         /\ Unanswered'
<1>1. e \in Requests /\ answer[e] = e /\ e \notin S
  BY DEF Succeeded, ReplayInv, Unanswered
<1>2. \A q \in S : answer'[q] \in {e, Nobody} /\ (answer'[q] = e => ~Conflicts(e, q))
  BY <1>1 DEF SettleAll, Replayed
<1>3. \A q \in Requests \ S : answer'[q] = answer[q] /\ pc'[q] = pc[q]
  BY DEF SettleAll
<1>4. \A q \in S : pc'[q] \notin Pending \cup {"commit"}
  BY DEF SettleAll, Settled, Pending
<1>5. \A q \in S : answer[q] = Nobody
  BY DEF ReplayInv, Unanswered
<1>6. Succeeded' = Succeeded
  BY <1>1, <1>2, <1>3, <1>5, ZenonT(60) DEF Succeeded
<1>7. ASSUME NEW q \in Requests, answer'[q] # Nobody
      PROVE  /\ answer'[q] \in Succeeded
             /\ NoFingerprint \in {Payload[answer'[q]], Payload[q]} \/ Payload[answer'[q]] = Payload[q]
  <2>1. CASE q \in S
    BY <1>2, <1>7, <2>1 DEF Conflicts
  <2>2. CASE q \notin S
    BY <1>3, <1>7, <2>2 DEF ReplayInv, ReplaysAreReal
  <2> QED
    BY <2>1, <2>2
<1>8. Unanswered'
  BY <1>3, <1>4 DEF ReplayInv, Unanswered
<1> QED
  BY <1>6, <1>7, <1>8

LEMMA FoundReplay ==
  ASSUME LeaseInv, ReplayInv, NEW r \in Requests, pc[r] \in Pending, NEW e \in Succeeded,
         Found(r, e), UNCHANGED redis, \A p \in Replicas : storeL1'[p] \in {storeL1[p], e}
  PROVE  ReplayInv' /\ Succeeded' = Succeeded
<1>1. {r} \cup Waiters(r) \in SUBSET Requests /\ \A q \in {r} \cup Waiters(r) : pc[q] \in Pending
  BY DEF Waiters, Peers, Pending
<1>2. /\ Succeeded' = Succeeded
      /\ \A q \in Requests : answer'[q] # Nobody =>
            /\ answer'[q] \in Succeeded
            /\ NoFingerprint \in {Payload[answer'[q]], Payload[q]} \/ Payload[answer'[q]] = Payload[q]
      /\ Unanswered'
  BY <1>1, SettleAllReplay DEF Found
<1>3. \A p \in Replicas : l1'[p] \in {l1[p], e}
  BY DEF Found, LeaseInv, TypeOK
<1>4. ReplaysAreReal'
  BY <1>2, <1>3, SMTT(30) DEF ReplayInv, ReplaysAreReal
<1> QED
  BY <1>2, <1>4 DEF ReplayInv

LEMMA ElectReplay ==
  ASSUME LeaseInv, ReplayInv, NEW r \in Requests, pc[r] \in {"new", "rejected"}, Elect(r),
         UNCHANGED <<storeL1, redis>>
  PROVE  ReplayInv' /\ Succeeded' = Succeeded
<1>1. CASE lease[ReplicaOf[r]] = Nobody /\ storeL1[ReplicaOf[r]] # Nobody
  <2>1. storeL1[ReplicaOf[r]] \in Succeeded /\ Found(r, storeL1[ReplicaOf[r]]) /\ pc[r] \in Pending
    BY <1>1 DEF Elect, ReplayInv, ReplaysAreReal, Pending
  <2> QED
    BY <2>1, FoundReplay
<1>2. CASE ~(lease[ReplicaOf[r]] = Nobody /\ storeL1[ReplicaOf[r]] # Nobody)
  <2>1. /\ UNCHANGED <<answer, l1>>
        /\ \A q \in Requests : /\ pc'[q] \in Pending => pc[q] \in Pending
                               /\ pc'[q] = "commit" => pc[q] = "commit"
    BY <1>2 DEF Elect, Goto, Pending, LeaseInv, TypeOK
  <2>2. redis' \in Requests => redis' \in Succeeded
    BY DEF ReplayInv, ReplaysAreReal
  <2> QED
    BY <2>1, <2>2, AnswersKept DEF Succeeded
<1> QED
  BY <1>1, <1>2

LEMMA HandlerOkReplay ==
  ASSUME LeaseInv, ReplayInv, NEW r \in Requests, HandlerOk(r)
  PROVE  ReplayInv' /\ Succeeded' = Succeeded \cup {r}
<1>1. pc[r] = "exec" /\ answer'[r] = r /\ pc'[r] = "commit" /\ r \notin Waiters(r)
  BY DEF HandlerOk, Waiters
<1>2. \A q \in Waiters(r) : /\ answer[q] = Nobody /\ answer'[q] \in {r, Nobody}
                            /\ answer'[q] = r => ~Conflicts(r, q)
                            /\ pc'[q] \notin Pending \cup {"commit"}
  BY <1>1 DEF HandlerOk, Waiters, Peers, Replayed, Settled, ReplayInv, Unanswered, Pending
<1>3. \A q \in Requests \ ({r} \cup Waiters(r)) : answer'[q] = answer[q] /\ pc'[q] = pc[q]
  BY DEF HandlerOk
<1>4. Succeeded' = Succeeded \cup {r}
  BY <1>1, <1>2, <1>3, ZenonT(60) DEF Succeeded
<1>5. Unanswered'
  BY <1>1, <1>2, <1>3 DEF ReplayInv, Unanswered, Pending
<1>6. ASSUME NEW q \in Requests, answer'[q] # Nobody
      PROVE  /\ answer'[q] \in Succeeded'
             /\ NoFingerprint \in {Payload[answer'[q]], Payload[q]} \/ Payload[answer'[q]] = Payload[q]
  <2>1. CASE q = r
    BY <1>1, <1>4, <2>1
  <2>2. CASE q \in Waiters(r)
    BY <1>2, <1>4, <1>6, <2>2 DEF Conflicts
  <2>3. CASE q \notin {r} \cup Waiters(r)
    BY <1>3, <1>4, <1>6, <2>3 DEF ReplayInv, ReplaysAreReal
  <2> QED
    BY <2>1, <2>2, <2>3
<1>7. /\ \A p \in Replicas : l1'[p] \in {l1[p], r} /\ storeL1'[p] \in {storeL1[p], r}
      /\ UNCHANGED redis
  BY DEF HandlerOk, LeaseInv, TypeOK
<1>8. ReplaysAreReal'
  BY <1>4, <1>6, <1>7, SMTT(30) DEF ReplayInv, ReplaysAreReal
<1> QED
  BY <1>4, <1>5, <1>8 DEF ReplayInv

LEMMA ReadsResultReplay ==
  ASSUME LeaseInv, ReplayInv, NEW r \in Requests, pc[r] \in Leading, ReadsResult(r)
  PROVE  ReplayInv' /\ Succeeded' = Succeeded
<1>1. /\ redis \in Succeeded /\ pc[r] \in Pending /\ Found(r, redis) /\ UNCHANGED redis
      /\ \A p \in Replicas : storeL1'[p] \in {storeL1[p], redis}
  BY DEF ReadsResult, LeaseInv, TypeOK, ReplayInv, ReplaysAreReal, Leading, Pending
<1> QED
  BY <1>1, FoundReplay

LEMMA NextReplay == LeaseInv /\ ReplayInv /\ [Next]_vars => ReplayInv'
<1> SUFFICES ASSUME LeaseInv, ReplayInv, [Next]_vars PROVE ReplayInv'
  OBVIOUS
<1>0. redis \in Requests => redis \in Succeeded
  BY DEF ReplayInv, ReplaysAreReal
<1>1. ASSUME NEW r \in Requests, Begin(r) PROVE ReplayInv'
  <2>1. CASE l1[ReplicaOf[r]] = Nobody
    BY <1>1, <2>1, ElectReplay DEF Begin
  <2>2. CASE l1[ReplicaOf[r]] # Nobody
    <3>1. /\ l1[ReplicaOf[r]] \in Succeeded /\ SettleAll({r}, l1[ReplicaOf[r]])
          /\ {r} \in SUBSET Requests /\ \A q \in {r} : pc[q] \in Pending
      BY <1>1, <2>2 DEF Begin, ReplayInv, ReplaysAreReal, Pending
    <3>2. /\ Succeeded' = Succeeded
          /\ \A q \in Requests : answer'[q] # Nobody =>
                /\ answer'[q] \in Succeeded
                /\ NoFingerprint \in {Payload[answer'[q]], Payload[q]} \/ Payload[answer'[q]] = Payload[q]
          /\ Unanswered'
      BY <3>1, SettleAllReplay
    <3>3. UNCHANGED <<l1, storeL1, redis>>
      BY <1>1, <2>2 DEF Begin
    <3> QED
      BY <3>2, <3>3 DEF ReplayInv, ReplaysAreReal
  <2> QED
    BY <2>1, <2>2
<1>2. ASSUME NEW r \in Requests, LeadAgain(r) PROVE ReplayInv'
  BY <1>2, ElectReplay DEF LeadAgain
<1>3. ASSUME NEW r \in Requests, Claim(r) PROVE ReplayInv'
  <2>1. UNCHANGED <<answer, l1, storeL1>> /\ redis' \in {redis, "busy"}
    BY <1>3 DEF Claim, ReadError
  <2>2. \A q \in Requests : /\ pc'[q] \in Pending => pc[q] \in Pending
                            /\ pc'[q] = "commit" => pc[q] = "commit"
    BY <1>3 DEF Claim, ReadError, LeaseFails, Waiters, Peers, Goto, Pending, LeaseInv, TypeOK
  <2> QED
    BY <1>0, <2>1, <2>2, AnswersKept
<1>4. ASSUME NEW r \in Requests, ReadExisting(r) \/ AwaitResult(r) PROVE ReplayInv'
  <2>1. CASE ReadsResult(r)
    BY <1>4, <2>1, ReadsResultReplay DEF ReadExisting, AwaitResult, Leading
  <2>2. CASE ~ReadsResult(r)
    <3>1. UNCHANGED <<answer, l1, storeL1, redis>>
      BY <1>4, <2>2 DEF ReadExisting, AwaitResult, ReadError
    <3>2. \A q \in Requests : /\ pc'[q] \in Pending => pc[q] \in Pending
                              /\ pc'[q] = "commit" => pc[q] = "commit"
      BY <1>4, <2>2 DEF ReadExisting, AwaitResult, ReadError, LeaseFails, Waiters, Peers, Goto,
                        Pending, LeaseInv, TypeOK
    <3> QED
      BY <1>0, <3>1, <3>2, AnswersKept
  <2> QED
    BY <2>1, <2>2
<1>5. ASSUME NEW r \in Requests, HandlerOk(r) PROVE ReplayInv'
  BY <1>5, HandlerOkReplay
<1>6. ASSUME NEW r \in Requests, HandlerError(r) PROVE ReplayInv'
  <2>1. UNCHANGED <<answer, l1, redis>> /\ \A p \in Replicas : storeL1'[p] \in {storeL1[p], Nobody}
    BY <1>6 DEF HandlerError, LeaseInv, TypeOK
  <2>2. \A q \in Requests : /\ pc'[q] \in Pending => pc[q] \in Pending
                            /\ pc'[q] = "commit" => pc[q] = "commit"
    BY <1>6 DEF HandlerError, LeaseFails, Waiters, Peers, Pending, LeaseInv, TypeOK
  <2> QED
    BY <1>0, <2>1, <2>2, AnswersKept
<1>7. ASSUME NEW r \in Requests, Commit(r) \/ Release(r) PROVE ReplayInv'
  <2>1. UNCHANGED <<answer, l1, storeL1>>
    BY <1>7 DEF Commit, Release
  <2>2. \A q \in Requests : /\ pc'[q] \in Pending => pc[q] \in Pending
                            /\ pc'[q] = "commit" => pc[q] = "commit"
    BY <1>7 DEF Commit, Release, Goto, Pending, LeaseInv, TypeOK
  <2>3. redis' \in Requests => redis' \in Succeeded
    <3>1. CASE Release(r)
      BY <1>0, <3>1 DEF Release
    <3>2. CASE Commit(r)
      BY <1>0, <3>2 DEF Commit, ReplayInv, Unanswered, Succeeded
    <3> QED
      BY <1>7, <3>1, <3>2
  <2> QED
    BY <2>1, <2>2, <2>3, AnswersKept
<1>8. ASSUME NEW p \in Replicas, Evict(p) \/ Crash(p) PROVE ReplayInv'
  <2>1. /\ UNCHANGED <<answer, redis>>
        /\ \A o \in Replicas : l1'[o] \in {l1[o], Nobody}
        /\ \A o \in Replicas : storeL1'[o] \in {storeL1[o], Nobody}
    BY <1>8, SMTT(30) DEF Evict, Crash, LeaseInv, TypeOK
  <2>2. \A q \in Requests : /\ pc'[q] \in Pending => pc[q] \in Pending
                            /\ pc'[q] = "commit" => pc[q] = "commit"
    BY <1>8, SMTT(30) DEF Evict, Crash, Pending, Final, LeaseInv, TypeOK
  <2> QED
    BY <1>0, <2>1, <2>2, AnswersKept
<1>9. CASE ClaimExpires \/ ResultExpires \/ UNCHANGED vars
  <2>1. UNCHANGED <<pc, answer, l1, storeL1>> /\ redis' \in {redis, "none"}
    BY <1>9 DEF ClaimExpires, ResultExpires, vars
  <2> QED
    BY <1>0, <2>1, AnswersKept
<1> QED
  BY <1>1, <1>2, <1>3, <1>4, <1>5, <1>6, <1>7, <1>8, <1>9 DEF Next, Proceeds

\* Under every fault: replayed responses come from handlers that succeeded, for
\* the payload of the request that gets them.
THEOREM ReplaysOnlySuccesses == Spec => []ReplaysAreReal
<1>1. LeaseInv /\ ReplayInv /\ [Next]_vars => ReplayInv'
  BY NextReplay
<1> QED
  BY <1>1, InitReplay, LeaseInvariant, PTL DEF Spec, ReplayInv

-----------------------------------------------------------------------------
(* Exclusive execution, when no one gives up waiting, nothing expires and    *)
(* read errors fail closed.                                                  *)

Strict == ~FailOpen /\ Faults \cap {"timeout", "claimExpiry", "resultExpiry"} = {}

\* One owner, which owns the sentinel; a success excludes all others for good.
OwnInv ==
  /\ \A r, q \in Owners : r = q
  /\ Owners # {} => redis = "busy"
  /\ SingleSuccess
  /\ Succeeded # {} => redis # "none"

LEMMA InitOwn == Init => OwnInv
BY SMTT(30) DEF Init, OwnInv, Owners, Succeeded, SingleSuccess

LEMMA Quiet ==
  ASSUME OwnInv, Owners' \subseteq Owners, Succeeded' = Succeeded, UNCHANGED redis
  PROVE  OwnInv'
BY DEF OwnInv, SingleSuccess

\* A step that moves no request to a location of an owner.
LEMMA NoNewOwner ==
  ASSUME \A q \in Requests : pc'[q] # pc[q] => pc'[q] \notin {"exec", "commit", "release"}
  PROVE  Owners' \subseteq Owners
BY DEF Owners

LEMMA FoundOwners ==
  ASSUME NEW e \in Requests, NEW S \in SUBSET Requests, SettleAll(S, e)
  PROVE  Owners' \subseteq Owners
<1>1. \A q \in Requests : pc'[q] # pc[q] => pc'[q] \notin {"exec", "commit", "release"}
  BY DEF SettleAll, Settled
<1> QED
  BY <1>1, NoNewOwner

LEMMA ElectOwn ==
  ASSUME LeaseInv, ReplayInv, OwnInv, NEW r \in Requests, pc[r] \in {"new", "rejected"}, Elect(r),
         UNCHANGED <<storeL1, redis>>
  PROVE  OwnInv'
<1>1. Succeeded' = Succeeded
  BY ElectReplay
<1>2. Owners' \subseteq Owners
  <2>1. CASE lease[ReplicaOf[r]] = Nobody /\ storeL1[ReplicaOf[r]] # Nobody
    <3>1. /\ storeL1[ReplicaOf[r]] \in Requests /\ {r} \cup Waiters(r) \in SUBSET Requests
          /\ SettleAll({r} \cup Waiters(r), storeL1[ReplicaOf[r]])
      BY <2>1 DEF Elect, Found, LeaseInv, TypeOK, Entry, Waiters, Peers
    <3> QED
      BY <3>1, FoundOwners
  <2>2. CASE ~(lease[ReplicaOf[r]] = Nobody /\ storeL1[ReplicaOf[r]] # Nobody)
    BY <2>2, NoNewOwner DEF Elect, Goto, LeaseInv, TypeOK
  <2> QED
    BY <2>1, <2>2
<1> QED
  BY <1>1, <1>2, Quiet

LEMMA ReadErrorOwners ==
  ASSUME Strict, LeaseInv, NEW r \in Requests, NEW where, ReadError(r, where)
  PROVE  Owners' \subseteq Owners /\ Succeeded' = Succeeded
<1>1. LeaseFails(r, "failed") /\ UNCHANGED answer
  BY DEF Strict, ReadError
<1>2. \A q \in Requests : pc'[q] # pc[q] => pc'[q] \notin {"exec", "commit", "release"}
  BY <1>1 DEF LeaseFails
<1> QED
  BY <1>1, <1>2, NoNewOwner DEF Succeeded

LEMMA NextOwn ==
  ASSUME Strict
  PROVE  LeaseInv /\ ReplayInv /\ OwnInv /\ [Next]_vars => OwnInv'
<1> SUFFICES ASSUME LeaseInv, ReplayInv, OwnInv, [Next]_vars PROVE OwnInv'
  OBVIOUS
<1>1. ASSUME NEW r \in Requests, Begin(r) PROVE OwnInv'
  <2>1. CASE l1[ReplicaOf[r]] = Nobody
    BY <1>1, <2>1, ElectOwn DEF Begin
  <2>2. CASE l1[ReplicaOf[r]] # Nobody
    <3>1. /\ l1[ReplicaOf[r]] \in Succeeded /\ SettleAll({r}, l1[ReplicaOf[r]])
          /\ {r} \in SUBSET Requests /\ \A q \in {r} : pc[q] \in Pending
      BY <1>1, <2>2 DEF Begin, ReplayInv, ReplaysAreReal, Pending
    <3>2. Succeeded' = Succeeded
      BY <3>1, SettleAllReplay
    <3>3. Owners' \subseteq Owners
      BY <3>1, FoundOwners DEF Succeeded
    <3> QED
      BY <1>1, <3>2, <3>3, Quiet DEF Begin
  <2> QED
    BY <2>1, <2>2
<1>2. ASSUME NEW r \in Requests, LeadAgain(r) PROVE OwnInv'
  BY <1>2, ElectOwn DEF LeadAgain
<1>3. ASSUME NEW r \in Requests, Claim(r) PROVE OwnInv'
  <2>1. CASE KeyFree /\ redis' = "busy" /\ Goto(r, "exec") /\ UNCHANGED answer
    <3>1. Owners = {} /\ Succeeded' = {}
      BY <2>1 DEF OwnInv, KeyFree, Succeeded
    <3>2. Owners' = {r}
      BY <2>1, <3>1, SMTT(30) DEF Owners, Goto, LeaseInv, TypeOK
    <3> QED
      BY <2>1, <3>1, <3>2 DEF OwnInv, SingleSuccess
  <2>2. CASE Goto(r, "read") /\ UNCHANGED <<redis, answer>>
    <3>1. Owners' \subseteq Owners /\ Succeeded' = Succeeded
      BY <2>2, NoNewOwner DEF Goto, LeaseInv, TypeOK, Succeeded
    <3> QED
      BY <2>2, <3>1, Quiet
  <2>3. CASE redis' \in {redis, IF KeyFree THEN "busy" ELSE redis} /\ ReadError(r, "exec")
    <3>1. Owners' \subseteq Owners /\ Succeeded' = Succeeded
      BY <2>3, ReadErrorOwners
    <3>2. CASE redis' = redis
      BY <3>1, <3>2, Quiet
    <3>3. CASE redis' = "busy"
      BY <3>1, <3>3 DEF OwnInv, SingleSuccess
    <3> QED
      BY <2>3, <3>2, <3>3
  <2> QED
    BY <1>3, <2>1, <2>2, <2>3 DEF Claim
<1>4. ASSUME NEW r \in Requests, ReadExisting(r) \/ AwaitResult(r) PROVE OwnInv'
  <2>0. pc[r] \in Leading /\ UNCHANGED redis
    BY <1>4 DEF ReadExisting, AwaitResult, ReadsResult, Leading
  <2>1. CASE ReadsResult(r)
    <3>1. Succeeded' = Succeeded
      BY <2>0, <2>1, ReadsResultReplay
    <3>2. /\ redis \in Requests /\ {r} \cup Waiters(r) \in SUBSET Requests
          /\ SettleAll({r} \cup Waiters(r), redis)
      BY <2>1 DEF ReadsResult, Found, LeaseInv, TypeOK, Waiters, Peers
    <3>3. Owners' \subseteq Owners
      BY <3>2, FoundOwners
    <3> QED
      BY <2>0, <3>1, <3>3, Quiet
  <2>2. CASE ReadError(r, "poll") \/ ReadError(r, "exec")
    BY <2>0, <2>2, ReadErrorOwners, Quiet
  <2>3. CASE Goto(r, "poll") /\ UNCHANGED answer
    <3>1. Owners' \subseteq Owners /\ Succeeded' = Succeeded
      BY <2>3, NoNewOwner DEF Goto, LeaseInv, TypeOK, Succeeded
    <3> QED
      BY <2>0, <3>1, Quiet
  <2> QED
    BY <1>4, <2>1, <2>2, <2>3 DEF ReadExisting, AwaitResult, Strict
<1>5. ASSUME NEW r \in Requests, HandlerOk(r) PROVE OwnInv'
  <2>1. r \in Owners /\ redis = "busy" /\ UNCHANGED redis
    BY <1>5 DEF HandlerOk, Owners, OwnInv
  <2>2. Owners = {r} /\ Succeeded \subseteq {r}
    BY <2>1 DEF OwnInv, SingleSuccess
  <2>3. Owners' \subseteq Owners
    BY <1>5, <2>1 DEF HandlerOk, Settled, Owners
  <2>4. Succeeded' = {r}
    BY <1>5, <2>2, HandlerOkReplay
  <2> QED
    BY <2>1, <2>2, <2>3, <2>4 DEF OwnInv, SingleSuccess
<1>6. ASSUME NEW r \in Requests, HandlerError(r) PROVE OwnInv'
  <2>1. Owners' \subseteq Owners
    BY <1>6 DEF HandlerError, LeaseFails, Owners
  <2>2. Succeeded' = Succeeded
    BY <1>6 DEF HandlerError, Succeeded
  <2> QED
    BY <1>6, <2>1, <2>2, Quiet DEF HandlerError
<1>7. ASSUME NEW r \in Requests, Commit(r) \/ Release(r) PROVE OwnInv'
  <2>1. r \in Owners /\ redis = "busy" /\ Owners = {r}
    BY <1>7 DEF Commit, Release, Owners, OwnInv
  <2>2. Owners' = {} /\ Succeeded' = Succeeded
    BY <1>7, <2>1 DEF Commit, Release, Goto, Owners, Succeeded, LeaseInv, TypeOK
  <2>3. CASE Commit(r)
    <3>1. redis' # "none"
      BY <2>1, <2>3 DEF Commit
    <3> QED
      BY <2>2, <3>1 DEF OwnInv, SingleSuccess
  <2>4. CASE Release(r)
    <3>1. Succeeded = {}
      BY <2>1, <2>4 DEF Release, OwnInv, SingleSuccess, Succeeded, ReplayInv, Unanswered, Pending
    <3> QED
      BY <2>2, <3>1 DEF OwnInv, SingleSuccess
  <2> QED
    BY <1>7, <2>3, <2>4
<1>8. ASSUME NEW p \in Replicas, Evict(p) \/ Crash(p) PROVE OwnInv'
  <2>1. Owners' \subseteq Owners /\ Succeeded' = Succeeded /\ UNCHANGED redis
    BY <1>8 DEF Evict, Crash, Owners, Succeeded
  <2> QED
    BY <2>1, Quiet
<1>9. CASE UNCHANGED vars
  BY <1>9, Quiet DEF vars, Owners, Succeeded
<1>10. ~ClaimExpires /\ ~ResultExpires
  BY DEF ClaimExpires, ResultExpires, Strict
<1> QED
  BY <1>1, <1>2, <1>3, <1>4, <1>5, <1>6, <1>7, <1>8, <1>9, <1>10 DEF Next, Proceeds

\* When no waiter gives up, no key expires and read errors fail closed, two
\* handlers never run at once for one key, whatever crashes or failing writes.
THEOREM HandlersExclude ==
  ASSUME Strict
  PROVE  Spec => []ExclusiveExecution
<1>1. LeaseInv /\ ReplayInv /\ [Next]_vars => ReplayInv'
  BY NextReplay
<1>2. LeaseInv /\ ReplayInv /\ OwnInv /\ [Next]_vars => OwnInv'
  BY NextOwn
<1>3. OwnInv => ExclusiveExecution
  BY DEF OwnInv, ExclusiveExecution, Owners
<1> QED
  BY <1>1, <1>2, <1>3, InitReplay, InitOwn, LeaseInvariant, PTL DEF Spec

\* Under the same conditions the handler succeeds at most once for one key.
THEOREM SucceedsOnce ==
  ASSUME Strict
  PROVE  Spec => []SingleSuccess
<1>1. LeaseInv /\ ReplayInv /\ [Next]_vars => ReplayInv'
  BY NextReplay
<1>2. LeaseInv /\ ReplayInv /\ OwnInv /\ [Next]_vars => OwnInv'
  BY NextOwn
<1>3. OwnInv => SingleSuccess
  BY DEF OwnInv
<1> QED
  BY <1>1, <1>2, <1>3, InitReplay, InitOwn, LeaseInvariant, PTL DEF Spec

-----------------------------------------------------------------------------
(* The refinement of OnceOnly, under the same conditions.                    *)

Executing == {r \in Requests : pc[r] = "exec"}
Ending == Final \cup {"release"}
Verdict == [r \in Requests |-> IF answer[r] # Nobody THEN answer[r]
                               ELSE IF pc[r] \in Ending THEN "failed" ELSE "pending"]

\* An execution whose verdict is its own result is one that succeeded.
LEMMA SameSuccesses == Abstract!Succeeded = Succeeded
BY DEF Abstract!Succeeded, Succeeded

LEMMA InitRefines == Init => Abstract!Init
BY DEF Init, Abstract!Init, Final

\* A step that starts no execution and answers only pending requests, with a result that
\* exists, settles them.
LEMMA SettleStep ==
  ASSUME LeaseInv, LeaseInv', ReplayInv, Executing' \subseteq Executing,
         \A q \in Requests : answer'[q] # answer[q] =>
            answer[q] = Nobody /\ pc[q] \notin Ending /\ answer'[q] \in Succeeded,
         \A q \in Requests : pc[q] \in Ending => pc'[q] \in Ending,
         \A q \in Executing \ Executing' : answer'[q] = Nobody /\ pc'[q] \in Ending
  PROVE  Abstract!Settle
<1>1. Verdict' \in [Requests -> Requests \cup {"pending", "failed"}]
  BY DEF Verdict, LeaseInv, TypeOK, Entry
<1>2. \A q \in Requests : Verdict'[q] # Verdict[q] =>
         Verdict[q] = "pending" /\ Verdict'[q] \in Succeeded \cup {"failed"}
  BY DEF Verdict
<1>3. \A q \in Executing \ Executing' : Verdict'[q] = "failed"
  BY DEF Verdict, Executing
<1> QED
  BY <1>1, <1>2, <1>3, SameSuccesses DEF Abstract!Settle, Verdict, Executing, Ending

\* A step that answers nobody and moves no request to an execution or out of its end.
LEMMA SilentStep ==
  ASSUME LeaseInv, LeaseInv', ReplayInv, UNCHANGED answer,
         \A q \in Requests : \/ pc'[q] = pc[q]
                             \/ pc'[q] # "exec" /\ (pc[q] \in Ending \cup {"exec"} => pc'[q] \in Ending)
  PROVE  Abstract!Settle
<1>1. Executing' \subseteq Executing
  BY DEF Executing
<1>2. \A q \in Executing \ Executing' : answer'[q] = Nobody /\ pc'[q] \in Ending
  BY DEF Executing, ReplayInv, Unanswered, Pending
<1> QED
  BY <1>1, <1>2, SettleStep

\* Requests that are settled with a result that exists, the executing ones not among them.
LEMMA ReplayStep ==
  ASSUME LeaseInv, LeaseInv', ReplayInv, NEW S \in SUBSET Requests, NEW e \in Succeeded, SettleAll(S, e),
         \A q \in S : pc[q] \in Pending \ {"exec", "release"}
  PROVE  Abstract!Settle
<1>1. \A q \in Requests \ S : pc'[q] = pc[q] /\ answer'[q] = answer[q]
  BY DEF SettleAll
<1>2. \A q \in S : answer[q] = Nobody /\ pc[q] \notin Ending /\ pc[q] # "exec"
  BY DEF ReplayInv, Unanswered, Pending, Ending, Final
<1>3. \A q \in S : answer'[q] \in {e, Nobody} /\ pc'[q] \in Ending /\ pc'[q] # "exec"
  BY DEF SettleAll, Settled, Replayed, Ending, Final
<1>4. Executing' = Executing
  BY <1>1, <1>2, <1>3 DEF Executing
<1> QED
  BY <1>1, <1>2, <1>3, <1>4, SettleStep

LEMMA ElectRefines ==
  ASSUME LeaseInv, LeaseInv', ReplayInv, NEW r \in Requests, pc[r] \in {"new", "rejected"}, Elect(r)
  PROVE  Abstract!Settle
<1>1. CASE lease[ReplicaOf[r]] = Nobody /\ storeL1[ReplicaOf[r]] # Nobody
  <2>1. /\ storeL1[ReplicaOf[r]] \in Succeeded /\ {r} \cup Waiters(r) \in SUBSET Requests
        /\ SettleAll({r} \cup Waiters(r), storeL1[ReplicaOf[r]])
        /\ \A q \in {r} \cup Waiters(r) : pc[q] \in Pending \ {"exec", "release"}
    BY <1>1 DEF Elect, Found, ReplayInv, ReplaysAreReal, Waiters, Peers, Pending
  <2> QED
    BY <2>1, ReplayStep
<1>2. CASE ~(lease[ReplicaOf[r]] = Nobody /\ storeL1[ReplicaOf[r]] # Nobody)
  <2>1. UNCHANGED answer /\ (Goto(r, "wait") \/ Goto(r, "claim"))
    BY <1>2 DEF Elect
  <2>2. \A q \in Requests : pc'[q] = pc[q] \/ (pc'[q] # "exec" /\ pc[q] \notin Ending \cup {"exec"})
    BY <2>1 DEF Goto, Ending, Final, LeaseInv, TypeOK
  <2> QED
    BY <2>1, <2>2, SilentStep
<1> QED
  BY <1>1, <1>2

LEMMA LeaseFailsRefines ==
  ASSUME LeaseInv, LeaseInv', ReplayInv, NEW r \in Requests, NEW where \in {"failed", "release"},
         LeaseFails(r, where), UNCHANGED answer
  PROVE  Abstract!Settle
<1>1. \A q \in Requests : \/ pc'[q] = pc[q]
                          \/ pc'[q] # "exec" /\ (pc[q] \in Ending \cup {"exec"} => pc'[q] \in Ending)
  BY DEF LeaseFails, Waiters, Ending, Final
<1> QED
  BY <1>1, SilentStep

LEMMA NextRefines ==
  ASSUME Strict, LeaseInv, LeaseInv', ReplayInv, OwnInv, [Next]_vars
  PROVE  Abstract!Next
<1>1. ASSUME NEW r \in Requests, Begin(r) PROVE Abstract!Settle
  <2>1. CASE l1[ReplicaOf[r]] = Nobody
    BY <1>1, <2>1, ElectRefines DEF Begin
  <2>2. CASE l1[ReplicaOf[r]] # Nobody
    <3>1. /\ l1[ReplicaOf[r]] \in Succeeded /\ SettleAll({r}, l1[ReplicaOf[r]])
          /\ {r} \in SUBSET Requests /\ \A q \in {r} : pc[q] \in Pending \ {"exec", "release"}
      BY <1>1, <2>2 DEF Begin, ReplayInv, ReplaysAreReal, Pending
    <3> QED
      BY <3>1, ReplayStep
  <2> QED
    BY <2>1, <2>2
<1>2. ASSUME NEW r \in Requests, LeadAgain(r) PROVE Abstract!Settle
  BY <1>2, ElectRefines DEF LeadAgain
<1>3. ASSUME NEW r \in Requests, Claim(r) PROVE Abstract!Settle \/ Abstract!Run(r)
  <2>1. CASE KeyFree /\ Goto(r, "exec") /\ UNCHANGED answer
    <3>1. Owners = {} /\ Succeeded = {}
      BY <2>1 DEF OwnInv, KeyFree
    <3>2. Executing = {} /\ Executing' = {r}
      BY <2>1, <3>1, SMTT(30) DEF Executing, Owners, Goto, LeaseInv, TypeOK
    <3>3. Verdict[r] = "pending" /\ Verdict' = Verdict
      BY <1>3, <2>1 DEF Claim, Verdict, Goto, Ending, Final, LeaseInv, TypeOK, ReplayInv, Unanswered, Pending
    <3> QED
      BY <3>1, <3>2, <3>3, SameSuccesses DEF Abstract!Run, Executing, Verdict, Ending
  <2>2. CASE Goto(r, "read") /\ UNCHANGED answer
    <3>1. \A q \in Requests : pc'[q] = pc[q] \/ (pc'[q] # "exec" /\ pc[q] \notin Ending \cup {"exec"})
      BY <1>3, <2>2 DEF Claim, Goto, Ending, Final, LeaseInv, TypeOK
    <3> QED
      BY <2>2, <3>1, SilentStep
  <2>3. CASE ReadError(r, "exec")
    BY <2>3, LeaseFailsRefines DEF ReadError, Strict
  <2> QED
    BY <1>3, <2>1, <2>2, <2>3 DEF Claim
<1>4. ASSUME NEW r \in Requests, ReadExisting(r) \/ AwaitResult(r) PROVE Abstract!Settle
  <2>1. CASE ReadsResult(r)
    <3>1. /\ redis \in Succeeded /\ {r} \cup Waiters(r) \in SUBSET Requests
          /\ SettleAll({r} \cup Waiters(r), redis)
          /\ \A q \in {r} \cup Waiters(r) : pc[q] \in Pending \ {"exec", "release"}
      BY <1>4, <2>1 DEF ReadExisting, AwaitResult, ReadsResult, Found, LeaseInv, TypeOK, ReplayInv,
                        ReplaysAreReal, Waiters, Peers, Pending
    <3> QED
      BY <3>1, ReplayStep
  <2>2. CASE ReadError(r, "poll") \/ ReadError(r, "exec")
    BY <2>2, LeaseFailsRefines DEF ReadError, Strict
  <2>3. CASE Goto(r, "poll") /\ UNCHANGED answer
    <3>1. \A q \in Requests : pc'[q] = pc[q] \/ (pc'[q] # "exec" /\ pc[q] \notin Ending \cup {"exec"})
      BY <1>4, <2>3 DEF ReadExisting, AwaitResult, Goto, Ending, Final, LeaseInv, TypeOK
    <3> QED
      BY <2>3, <3>1, SilentStep
  <2> QED
    BY <1>4, <2>1, <2>2, <2>3 DEF ReadExisting, AwaitResult, Strict
<1>5. ASSUME NEW r \in Requests, HandlerOk(r) PROVE Abstract!Succeed(r)
  <2>1. Owners = {r} /\ pc[r] = "exec" /\ pc'[r] = "commit" /\ answer'[r] = r
    BY <1>5 DEF HandlerOk, Owners, OwnInv
  <2>2. Executing = {r} /\ Executing' = {}
    BY <1>5, <2>1 DEF HandlerOk, Settled, Executing, Owners
  <2>3. \A q \in Requests \ {r} :
           \/ pc'[q] = pc[q] /\ answer'[q] = answer[q]
           \/ /\ pc[q] = "wait" /\ answer[q] = Nobody
              /\ answer'[q] \in {r, Nobody} /\ pc'[q] \in {"answered", "conflict"}
    BY <1>5 DEF HandlerOk, Settled, Replayed, Waiters, ReplayInv, Unanswered, Pending
  <2>4. Verdict' \in [Requests -> Requests \cup {"pending", "failed"}] /\ Verdict'[r] = r
    BY <2>1 DEF Verdict, LeaseInv, TypeOK, Entry
  <2>5. \A q \in Requests \ {r} : Verdict'[q] # Verdict[q] => Verdict[q] = "pending" /\ Verdict'[q] \in {r, "failed"}
    BY <2>3 DEF Verdict, Ending, Final
  <2> QED
    BY <2>2, <2>4, <2>5 DEF Abstract!Succeed, Executing, Verdict, Ending
<1>6. ASSUME NEW r \in Requests, HandlerError(r) PROVE Abstract!Settle
  BY <1>6, LeaseFailsRefines DEF HandlerError
<1>7. ASSUME NEW r \in Requests, Commit(r) \/ Release(r) PROVE Abstract!Settle
  <2>1. UNCHANGED answer /\ \A q \in Requests : pc'[q] = pc[q] \/ (pc'[q] \in Ending \ {"exec"})
    BY <1>7 DEF Commit, Release, Goto, Ending, Final, LeaseInv, TypeOK
  <2> QED
    BY <2>1, SilentStep DEF Ending, Final
<1>8. ASSUME NEW p \in Replicas, Evict(p) \/ Crash(p) PROVE Abstract!Settle
  <2>1. UNCHANGED answer /\ \A q \in Requests : pc'[q] = pc[q] \/ (pc'[q] \in Ending \ {"exec"})
    BY <1>8 DEF Evict, Crash, Ending, Final
  <2> QED
    BY <2>1, SilentStep DEF Ending, Final
<1>9. CASE UNCHANGED vars
  BY <1>9, SilentStep DEF vars, Abstract!Next
<1>10. ~ClaimExpires /\ ~ResultExpires
  BY DEF ClaimExpires, ResultExpires, Strict
<1> QED
  BY <1>1, <1>2, <1>3, <1>4, <1>5, <1>6, <1>7, <1>8, <1>9, <1>10 DEF Next, Proceeds, Abstract!Next

\* Under the same conditions the caches, the leases and the Redis commands implement OnceOnly:
\* begin, commit and release amount to one execution whose result answers every duplicate.
THEOREM RefinesOnceOnly ==
  ASSUME Strict
  PROVE  Spec => ImplementsOnceOnly
<1>1. LeaseInv /\ ReplayInv /\ [Next]_vars => ReplayInv'
  BY NextReplay
<1>2. LeaseInv /\ ReplayInv /\ OwnInv /\ [Next]_vars => OwnInv'
  BY NextOwn
<1>3. LeaseInv /\ LeaseInv' /\ ReplayInv /\ OwnInv /\ [Next]_vars => Abstract!Next
  BY NextRefines
<1> QED
  BY <1>1, <1>2, <1>3, InitRefines, InitReplay, InitOwn, LeaseInvariant, PTL
     DEF Spec, ImplementsOnceOnly, Abstract!Spec

=============================================================================
