--------------------------- MODULE SchedulerProofs ---------------------------
(***************************************************************************)
(* Proofs about the scheduler, for any ids, workers, definitions, slots    *)
(* and limits.  The inductive invariant conjoins the type invariant with   *)
(* four invariants that the runs check.  Types and retry budget need each  *)
(* other: markFailed increments attempts, which stays in range only        *)
(* because a running row has an attempt left.                              *)
(***************************************************************************)
EXTENDS Scheduler, FiniteSetTheorems, TLAPS

USE Zenon

USE SchedulerAssumption DEF Ids, Times, Entries, Flushes

\* What an action of the scheduler keeps true.
Inv == TypeOK /\ DueCoverage /\ OwnerIsRunning /\ AttemptsWithinBudget /\ NeverEarly

-----------------------------------------------------------------------------
(* Facts about the store's helpers.                                          *)

\* pruneTerminal only deletes rows with a terminal status.
LEMMA PrunedFinished ==
  ASSUME NEW id \in Pruned
  PROVE  task[id].status \in Finished
BY DEF Pruned, KeptIndices, Kept

\* The rows that pruneTerminal leaves behind are well typed, and every row is
\* either as it was or deleted, in which case it was terminal.
LEMMA PruneKeepsLive ==
  ASSUME TypeOK
  PROVE  /\ PrunedTasks \in [Ids -> Task]
         /\ \A id \in Ids : \/ PrunedTasks[id] = task[id]
                            \/ /\ PrunedTasks[id] = Absent
                               /\ task[id].status \in Finished
<1>1. Absent \in Task
  BY SMTT(30) DEF Absent, Task
<1>2. PrunedTasks \in [Ids -> Task]
  BY <1>1 DEF PrunedTasks, TypeOK
<1>3. \A id \in Ids : \/ PrunedTasks[id] = task[id]
                      \/ /\ PrunedTasks[id] = Absent
                         /\ task[id].status \in Finished
  BY PrunedFinished DEF PrunedTasks
<1> QED
  BY <1>2, <1>3

\* A task as enqueue and reschedule create it.
LEMMA NewTaskType ==
  ASSUME NEW def \in Crons \cup {NoCron}, NEW runAt \in Times
  PROVE  /\ NewTask(def, runAt) \in Task
         /\ NewTask(def, runAt).status = "pending"
         /\ NewTask(def, runAt).runAt = runAt
         /\ NewTask(def, runAt).def = def
         /\ NewTask(def, runAt).attempts = 0
<1>1. Absent \in Task /\ Absent.attempts = 0
  BY SMTT(30) DEF Absent, Task
<1> QED
  BY <1>1 DEF NewTask, Task, Live

\* A row that becomes terminal.
LEMMA FinishedRow ==
  ASSUME NEW r \in Task, NEW st \in Finished, now \in 0..MaxTime
  PROVE  LET f == [r EXCEPT !.status = st, !.completedAt = now]
         IN  f \in Task /\ f.status = st /\ f.attempts = r.attempts
BY DEF Task

\* A row given back after a failed attempt.
LEMMA ReleasedRow ==
  ASSUME NEW r \in Task, r.attempts < MaxAttempts
  PROVE  /\ Released(r) \in Task
         /\ Released(r).attempts = r.attempts + 1
         /\ Released(r).runAt = r.runAt
<1>1. r.attempts + 1 \in 0..MaxAttempts /\ 0 \in 0..MaxTime
  BY SMTT(30) DEF Task
<1>2. [r EXCEPT !.attempts = r.attempts + 1, !.claimedAt = 0] \in Task
  BY <1>1 DEF Task
<1>3. Released(r) = [[r EXCEPT !.attempts = r.attempts + 1, !.claimedAt = 0]
                        EXCEPT !.claimedBy = NoWorker]
  BY DEF Released, Task
<1>4. Released(r) \in Task
  BY <1>2, <1>3 DEF Task
<1> QED
  BY <1>4 DEF Released, Task

\* A row given back that has attempts left.
LEMMA PendingRow ==
  ASSUME NEW r \in Task
  PROVE  LET p == [r EXCEPT !.status = "pending"]
         IN  p \in Task /\ p.status = "pending" /\ p.attempts = r.attempts /\ p.runAt = r.runAt
BY DEF Task, Live

\* A claimed row.
LEMMA ClaimedRow ==
  ASSUME NEW r \in Task, NEW w \in Workers, now \in 0..MaxTime
  PROVE  /\ ClaimOf(r, w) \in Task
         /\ ClaimOf(r, w).status = "running"
         /\ ClaimOf(r, w).claimedBy = w
         /\ ClaimOf(r, w).attempts = r.attempts
         /\ ClaimOf(r, w).runAt = r.runAt
         /\ ClaimOf(r, w).def = r.def
BY DEF ClaimOf, Task, Live

LEMMA AtLeastOne == \A m, n \in Nat : n >= m /\ m > 0 => n > 0
BY SMTT(30)

\* A heap that does not change loses no entries.
LEMMA HeapUnchanged ==
  ASSUME NEW heap \in [Entries -> Nat], NEW after, after = heap
  PROVE  after \in [Entries -> Nat] /\ \A e \in Entries : after[e] >= heap[e]
<1>1. \A e \in Entries : heap[e] \in Nat
  OBVIOUS
<1> QED
  BY <1>1, SMTT(30)

\* Pushing an entry adds one copy of it and removes nothing.
LEMMA PushedType ==
  ASSUME NEW heap \in [Entries -> Nat], NEW runAt \in Times, NEW id \in Ids
  PROVE  /\ Pushed(heap, runAt, id) \in [Entries -> Nat]
         /\ Pushed(heap, runAt, id)[<<runAt, id>>] > 0
         /\ \A e \in Entries : Pushed(heap, runAt, id)[e] >= heap[e]
BY SMTT(30) DEF Pushed

-----------------------------------------------------------------------------
(* One lemma per action: it preserves the invariant.                         *)

LEMMA EnqueueInv ==
  ASSUME Inv, NEW id \in Ids, NEW def \in Crons \cup {NoCron}, NEW runAt \in Times,
         Enqueue(id, def, runAt)
  PROVE  Inv'
<1> DEFINE t == PrunedTasks
<1>1. t \in [Ids -> Task] /\ \A i \in Ids : t[i].status \in Live => t[i] = task[i]
  BY PruneKeepsLive, SMTT(30) DEF Inv, Absent, Live
<1>2. TypeOK /\ DueCoverage /\ OwnerIsRunning /\ AttemptsWithinBudget /\ NeverEarly
  BY DEF Inv
<1>3. \A i \in Ids : t[i].status = "failed" => t[i].attempts = MaxAttempts
  BY PruneKeepsLive, <1>2, SMTT(30) DEF AttemptsWithinBudget, Absent
<1>4. batch' = batch /\ now' = now /\ handlers' = handlers
  BY DEF Enqueue
<1>5. CASE task' = t /\ due' = due
  <2> HIDE DEF t
  <2>1. TypeOK'
    BY <1>1, <1>2, <1>4, <1>5 DEF TypeOK
  <2>2. DueCoverage' /\ OwnerIsRunning' /\ AttemptsWithinBudget' /\ NeverEarly'
    BY <1>1, <1>2, <1>3, <1>4, <1>5
   , SMTT(30) DEF DueCoverage, OwnerIsRunning, AttemptsWithinBudget, NeverEarly, Live
  <2> QED
    BY <2>1, <2>2 DEF Inv
<1>6. CASE task' = [t EXCEPT ![id] = NewTask(def, runAt)] /\ due' = Pushed(due, runAt, id)
  <2> HIDE DEF t
  <2>1. /\ task' \in [Ids -> Task] /\ task'[id] = NewTask(def, runAt)
        /\ \A i \in Ids : i # id => task'[i] = t[i]
    BY <1>1, <1>6, NewTaskType
  <2>2. /\ due' \in [Entries -> Nat] /\ due'[<<runAt, id>>] > 0
        /\ \A e \in Entries : due'[e] >= due[e]
    BY <1>2, <1>6, PushedType DEF TypeOK
  <2>3. TypeOK'
    BY <1>2, <1>4, <2>1, <2>2 DEF TypeOK
  <2>4. DueCoverage'
    <3> SUFFICES ASSUME NEW i \in Ids, task'[i].status \in Live
                 PROVE  due'[<<task'[i].runAt, i>>] > 0
      BY DEF DueCoverage
    <3>1. CASE i = id
      BY <2>1, <2>2, <3>1, NewTaskType, SMTT(30)
    <3>2. CASE i # id
      <4>1. task'[i] = task[i] /\ due[<<task[i].runAt, i>>] > 0
        BY <1>1, <1>2, <2>1, <3>2 DEF DueCoverage
      <4>2. <<task[i].runAt, i>> \in Entries /\ due[<<task[i].runAt, i>>] \in Nat
        BY <1>2 DEF TypeOK, Task
      <4>3. due'[<<task[i].runAt, i>>] > 0
        BY <2>2, <4>1, <4>2, AtLeastOne
      <4> QED
        BY <4>1, <4>3
    <3> QED
      BY <3>1, <3>2
  <2>5. \A i \in Ids : task'[i].status = "running" => task'[i] = task[i]
    BY <1>1, <2>1, NewTaskType, SMTT(30) DEF Live
  <2>6. OwnerIsRunning' /\ NeverEarly'
    BY <1>2, <1>4, <2>5, SMTT(30) DEF OwnerIsRunning, NeverEarly
  <2>7. AttemptsWithinBudget'
    BY <1>1, <1>2, <1>3, <2>1, NewTaskType, SMTT(30) DEF AttemptsWithinBudget, Live
  <2> QED
    BY <2>3, <2>4, <2>6, <2>7 DEF Inv
<1> QED
  BY <1>5, <1>6 DEF Enqueue

LEMMA ListInv ==
  ASSUME Inv, List
  PROVE  Inv'
<1>1. PrunedTasks \in [Ids -> Task] /\ \A i \in Ids : PrunedTasks[i].status \in Live => PrunedTasks[i] = task[i]
  BY PruneKeepsLive, SMTT(30) DEF Inv, Absent, Live
<1>2. \A i \in Ids : PrunedTasks[i].status = "failed" => PrunedTasks[i].attempts = MaxAttempts
  BY PruneKeepsLive, SMTT(30) DEF Inv, AttemptsWithinBudget, Absent
<1> QED
  BY <1>1, <1>2
 , SMTT(30) DEF Inv, List, TypeOK, DueCoverage, OwnerIsRunning, AttemptsWithinBudget, NeverEarly, Live

\* A step that takes one row out of the running state, or leaves it out of it,
\* and may push heap entries and take that row's task out of a batch.
LEMMA RowStep ==
  ASSUME Inv, NEW id \in Ids, NEW r \in Task,
         task' = [task EXCEPT ![id] = r], r.status # "running",
         r.status = "pending" => due'[<<r.runAt, id>>] > 0 /\ r.attempts < MaxAttempts,
         r.status = "failed" => r.attempts = MaxAttempts,
         due' \in [Entries -> Nat], \A e \in Entries : due'[e] >= due[e],
         now' = now, handlers' = handlers, batch' \in [Flushes -> SUBSET Claimed],
         \A f \in Flushes : \A c \in batch[f] : c.id # id => c \in batch'[f]
  PROVE  Inv'
<1>1. TypeOK /\ DueCoverage /\ OwnerIsRunning /\ AttemptsWithinBudget /\ NeverEarly
  BY DEF Inv
<1>2. /\ task' \in [Ids -> Task] /\ task'[id] = r
      /\ \A i \in Ids : i # id => task'[i] = task[i]
  BY <1>1 DEF TypeOK
<1>3. TypeOK'
  BY <1>1, <1>2 DEF TypeOK
<1>4. DueCoverage'
  <2> SUFFICES ASSUME NEW i \in Ids, task'[i].status \in Live
               PROVE  due'[<<task'[i].runAt, i>>] > 0
    BY DEF DueCoverage
  <2>1. CASE i = id
    BY <1>2, <2>1 DEF Live
  <2>2. CASE i # id
    <3>1. task'[i] = task[i] /\ due[<<task[i].runAt, i>>] > 0
      BY <1>1, <1>2, <2>2 DEF DueCoverage
    <3>2. <<task[i].runAt, i>> \in Entries /\ due[<<task[i].runAt, i>>] \in Nat
      BY <1>1 DEF TypeOK, Task
    <3>3. due'[<<task[i].runAt, i>>] >= due[<<task[i].runAt, i>>]
      BY <3>2
    <3>4. due'[<<task[i].runAt, i>>] \in Nat
      BY <3>2
    <3>5. due'[<<task[i].runAt, i>>] > 0
      BY <3>1, <3>2, <3>3, <3>4, AtLeastOne
    <3> QED
      BY <3>1, <3>5
  <2> QED
    BY <2>1, <2>2
<1>5. OwnerIsRunning'
  <2> SUFFICES ASSUME NEW i \in Ids, task'[i].status = "running"
               PROVE  \E f \in Flushes : /\ f[1] = task'[i].claimedBy
                                          /\ \E c \in batch'[f] : c.id = i
    BY DEF OwnerIsRunning
  <2>1. i # id /\ task'[i] = task[i]
    BY <1>2
  <2>2. PICK f \in Flushes : f[1] = task[i].claimedBy /\ \E c \in batch[f] : c.id = i
    BY <1>1, <2>1 DEF OwnerIsRunning
  <2> QED
    BY <2>1, <2>2
<1>6. AttemptsWithinBudget'
  BY <1>1, <1>2 DEF AttemptsWithinBudget, Live
<1>7. NeverEarly'
  BY <1>1, <1>2 DEF NeverEarly
<1> QED
  BY <1>3, <1>4, <1>5, <1>6, <1>7 DEF Inv

LEMMA CancelInv ==
  ASSUME Inv, NEW id \in Ids, Cancel(id)
  PROVE  Inv'
<1> DEFINE r == [task[id] EXCEPT !.status = "cancelled", !.completedAt = now]
<1>1. r \in Task /\ r.status = "cancelled"
  BY FinishedRow, ZenonT(60) DEF Inv, TypeOK, Finished
<1>2. task' = [task EXCEPT ![id] = r]
  BY DEF Cancel, Inv, TypeOK, Task
<1>3. /\ due' \in [Entries -> Nat] /\ \A e \in Entries : due'[e] >= due[e]
      /\ now' = now /\ handlers' = handlers /\ batch' = batch
      /\ batch \in [Flushes -> SUBSET Claimed]
  <2>1. /\ due \in [Entries -> Nat] /\ batch \in [Flushes -> SUBSET Claimed]
        /\ due' = due /\ now' = now /\ handlers' = handlers /\ batch' = batch
    BY DEF Inv, TypeOK, Cancel
  <2> QED
    BY <2>1, HeapUnchanged
<1> HIDE DEF r
<1> QED
  BY <1>1, <1>2, <1>3, RowStep

\* A finalizer of a worker that no longer owns the row: only its batch changes.
LEMMA LostClaimStep ==
  ASSUME Inv, NEW w \in Workers, NEW s \in Slots, NEW c \in batch[<<w, s>>],
         ~Owns(c.id, w), UNCHANGED <<now, store, handlers>>, Leaves(w, s, c)
  PROVE  Inv'
<1>1. /\ batch' \in [Flushes -> SUBSET Claimed]
      /\ \A f \in Flushes : f # <<w, s>> => batch'[f] = batch[f]
      /\ batch'[<<w, s>>] = batch[<<w, s>>] \ {c}
  BY DEF Inv, TypeOK, Leaves
<1>2. now' = now /\ task' = task /\ due' = due /\ handlers' = handlers
  BY DEF store
<1>3. OwnerIsRunning'
  <2> SUFFICES ASSUME NEW i \in Ids, task[i].status = "running"
               PROVE  \E f \in Flushes : /\ f[1] = task[i].claimedBy
                                         /\ \E d \in batch'[f] : d.id = i
    BY <1>2 DEF OwnerIsRunning
  <2>1. PICK f \in Flushes : f[1] = task[i].claimedBy /\ \E d \in batch[f] : d.id = i
    BY DEF Inv, OwnerIsRunning
  <2>2. PICK d \in batch[f] : d.id = i
    BY <2>1
  <2>3. CASE f = <<w, s>> /\ d = c
    BY <2>1, <2>2, <2>3 DEF Owns
  <2>4. CASE f # <<w, s>> \/ d # c
    BY <1>1, <2>1, <2>2, <2>4
  <2> QED
    BY <2>3, <2>4
<1> QED
  BY <1>1, <1>2, <1>3 DEF Inv, TypeOK, DueCoverage, AttemptsWithinBudget, NeverEarly

\* What Leaves does to the batches.
LEMMA LeavesBatch ==
  ASSUME TypeOK, NEW w \in Workers, NEW s \in Slots, NEW c \in batch[<<w, s>>], Leaves(w, s, c)
  PROVE  /\ c \in Claimed /\ c.id \in Ids /\ c.runAt \in Times
         /\ c.def \in Crons \cup {NoCron}
         /\ batch' \in [Flushes -> SUBSET Claimed]
         /\ \A f \in Flushes : \A d \in batch[f] : d.id # c.id => d \in batch'[f]
<1>1. c \in Claimed
  BY DEF TypeOK
<1> QED
  BY <1>1 DEF TypeOK, Leaves, Claimed

LEMMA MarkCompletedInv ==
  ASSUME Inv, NEW w \in Workers, NEW s \in Slots, NEW c \in batch[<<w, s>>],
         MarkCompleted(c.id, w), Leaves(w, s, c), UNCHANGED <<now, handlers>>
  PROVE  Inv'
<1>1. CASE ~Owns(c.id, w)
  BY <1>1, LostClaimStep DEF MarkCompleted, store
<1>2. CASE Owns(c.id, w)
  <2> DEFINE r == [task[c.id] EXCEPT !.status = "completed", !.completedAt = now]
  <2>1. c.id \in Ids /\ task[c.id] \in Task /\ now \in 0..MaxTime /\ task \in [Ids -> Task]
    BY LeavesBatch DEF Inv, TypeOK
  <2>2. r \in Task /\ r.status = "completed"
    BY <2>1, FinishedRow DEF Finished
  <2>3. task' = [task EXCEPT ![c.id] = r]
    BY <1>2, <2>1 DEF MarkCompleted, Task
  <2>4. due' \in [Entries -> Nat] /\ \A e \in Entries : due'[e] >= due[e]
    <3>1. due' = due
      BY <1>2 DEF MarkCompleted
    <3>2. due \in [Entries -> Nat]
      BY DEF Inv, TypeOK
    <3> QED
      BY <3>1, <3>2, HeapUnchanged
  <2>5. /\ batch' \in [Flushes -> SUBSET Claimed] /\ now' = now /\ handlers' = handlers
        /\ \A f \in Flushes : \A d \in batch[f] : d.id # c.id => d \in batch'[f]
    BY LeavesBatch, ZenonT(60) DEF Inv
  <2> HIDE DEF r
  <2> QED
    BY <2>1, <2>2, <2>3, <2>4, <2>5, RowStep
<1> QED
  BY <1>1, <1>2

LEMMA MarkFailedInv ==
  ASSUME Inv, NEW w \in Workers, NEW s \in Slots, NEW c \in batch[<<w, s>>],
         MarkFailed(c.id, w), Leaves(w, s, c), UNCHANGED <<now, handlers>>
  PROVE  Inv'
<1>1. /\ batch' \in [Flushes -> SUBSET Claimed] /\ now' = now /\ handlers' = handlers
      /\ \A f \in Flushes : \A d \in batch[f] : d.id # c.id => d \in batch'[f]
  BY LeavesBatch DEF Inv
<1>2. /\ c.id \in Ids /\ task[c.id] \in Task /\ task \in [Ids -> Task]
      /\ now \in 0..MaxTime /\ due \in [Entries -> Nat]
  BY LeavesBatch DEF Inv, TypeOK
<1>3. CASE ~Owns(c.id, w)
  BY <1>3, LostClaimStep DEF MarkFailed, store
<1>4. CASE Owns(c.id, w)
  <2> DEFINE q == Released(task[c.id])
  <2>1. task[c.id].attempts < MaxAttempts /\ task[c.id].attempts \in Nat
    BY <1>2, <1>4, SMTT(30) DEF Inv, AttemptsWithinBudget, Owns, Live, Task
  <2>2. q \in Task /\ q.attempts = task[c.id].attempts + 1 /\ q.runAt = task[c.id].runAt
    BY <1>2, <2>1, ReleasedRow
  <2>3. CASE Exhausted(task[c.id])
    <3> DEFINE r == [q EXCEPT !.status = "failed", !.completedAt = now]
    <3>1. r \in Task /\ r.status = "failed" /\ r.attempts = q.attempts
      BY <1>2, <2>2, FinishedRow DEF Finished
    <3>2. r.attempts = MaxAttempts
      BY <2>1, <2>2, <2>3, <3>1, SMTT(30) DEF Exhausted
    <3>3. task' = [task EXCEPT ![c.id] = r] /\ due' = due
      BY <1>2, <1>4, <2>3 DEF MarkFailed
    <3>4. due' \in [Entries -> Nat] /\ \A e \in Entries : due'[e] >= due[e]
      BY <1>2, <3>3, HeapUnchanged
    <3> HIDE DEF r
    <3> QED
      BY <1>1, <1>2, <3>1, <3>2, <3>3, <3>4, RowStep
  <2>4. CASE ~Exhausted(task[c.id])
    <3> DEFINE r == [q EXCEPT !.status = "pending"]
    <3>1. r \in Task /\ r.status = "pending" /\ r.attempts = q.attempts /\ r.runAt = q.runAt
      BY <2>2, PendingRow
    <3>2. r.attempts < MaxAttempts
      BY <2>1, <2>2, <2>4, <3>1, SMTT(30) DEF Exhausted
    <3>3. task' = [task EXCEPT ![c.id] = r] /\ due' = Pushed(due, r.runAt, c.id)
      BY <1>2, <1>4, <2>2, <2>4, <3>1 DEF MarkFailed
    <3>4. r.runAt \in Times
      BY <3>1 DEF Task
    <3>5. /\ due' \in [Entries -> Nat] /\ \A e \in Entries : due'[e] >= due[e]
          /\ due'[<<r.runAt, c.id>>] > 0
      BY <1>2, <3>3, <3>4, PushedType
    <3> HIDE DEF r
    <3> QED
      BY <1>1, <1>2, <3>1, <3>2, <3>3, <3>5, RowStep
  <2> QED
    BY <2>3, <2>4
<1> QED
  BY <1>3, <1>4

LEMMA RescheduleInv ==
  ASSUME Inv, NEW w \in Workers, NEW s \in Slots, NEW c \in batch[<<w, s>>],
         NEW next \in Times, Reschedule(c.id, next, w), Leaves(w, s, c),
         UNCHANGED <<now, handlers>>
  PROVE  Inv'
<1>1. /\ batch' \in [Flushes -> SUBSET Claimed] /\ now' = now /\ handlers' = handlers
      /\ \A f \in Flushes : \A d \in batch[f] : d.id # c.id => d \in batch'[f]
  BY LeavesBatch, ZenonT(60) DEF Inv
<1>2. /\ c.id \in Ids /\ task[c.id] \in Task /\ task \in [Ids -> Task]
      /\ due \in [Entries -> Nat]
  BY LeavesBatch DEF Inv, TypeOK
<1>3. CASE ~Owns(c.id, w)
  BY <1>3, LostClaimStep DEF Reschedule, store
<1>4. CASE Owns(c.id, w)
  <2> DEFINE r == NewTask(task[c.id].def, next)
  <2>1. task[c.id].def \in Crons \cup {NoCron}
    BY <1>2 DEF Task
  <2>2. r \in Task /\ r.status = "pending" /\ r.attempts = 0 /\ r.runAt = next
    BY <2>1, NewTaskType, SMTT(30)
  <2>3. task' = [task EXCEPT ![c.id] = r] /\ due' = Pushed(due, next, c.id)
    BY <1>4 DEF Reschedule
  <2>4. /\ due' \in [Entries -> Nat] /\ \A e \in Entries : due'[e] >= due[e]
        /\ due'[<<r.runAt, c.id>>] > 0
    BY <1>2, <2>2, <2>3, PushedType
  <2>5. r.attempts < MaxAttempts
    BY <2>2, SMTT(30)
  <2> HIDE DEF r
  <2> QED
    BY <1>1, <1>2, <2>2, <2>3, <2>4, <2>5, RowStep
<1> QED
  BY <1>3, <1>4

\* The times the worker computes for a recurring task are in range.
LEMMA TicksInRange ==
  ASSUME Inv, NEW w \in Workers, NEW s \in Slots, NEW c \in batch[<<w, s>>], c.def # NoCron
  PROVE  TickAfter(c) \in Times /\ NextTick(c.def, now) \in Times
<1>1. c.def \in Crons /\ c.runAt \in Times
  <2>1. c \in Claimed
    BY DEF Inv, TypeOK
  <2> QED
    BY <2>1 DEF Claimed
<1>2. now \in Times
  BY SMTT(30) DEF Inv, TypeOK
<1>3. NextTick(c.def, c.runAt) \in Times /\ NextTick(c.def, now) \in Times
  BY <1>1, <1>2
<1> QED
  BY <1>3 DEF TickAfter

LEMMA SettlesInv ==
  ASSUME Inv, NEW w \in Workers, NEW s \in Slots, Settles(w, s)
  PROVE  Inv'
<1>1. PICK c \in batch[<<w, s>>] : HandlerSucceeds(w, s, c) \/ HandlerFails(w, s, c)
  BY DEF Settles
<1>2. Leaves(w, s, c) /\ UNCHANGED <<now, handlers>>
  BY <1>1 DEF HandlerSucceeds, HandlerFails
<1>3. CASE MarkCompleted(c.id, w)
  BY <1>2, <1>3, MarkCompletedInv
<1>4. CASE MarkFailed(c.id, w)
  BY <1>2, <1>4, MarkFailedInv
<1>5. CASE c.def # NoCron /\ Reschedule(c.id, TickAfter(c), w)
  BY <1>2, <1>5, TicksInRange, RescheduleInv
<1>6. CASE c.def # NoCron /\ Reschedule(c.id, NextTick(c.def, now), w)
  BY <1>2, <1>6, TicksInRange, RescheduleInv
<1> QED
  BY <1>1, <1>3, <1>4, <1>5, <1>6 DEF HandlerSucceeds, HandlerFails

LEMMA RunsInv ==
  ASSUME Inv, NEW w \in Workers, NEW s \in Slots, Runs(w, s)
  PROVE  Inv'
<1>1. PICK c \in batch[<<w, s>>] : StartHandler(w, s, c) \/ NoHandler(w, s, c)
  BY DEF Runs
<1>2. CASE NoHandler(w, s, c)
  BY <1>2, MarkFailedInv DEF NoHandler
<1>3. CASE StartHandler(w, s, c)
  <2> DEFINE d == [c EXCEPT !.phase = "running"]
  <2>1. d \in Claimed /\ d.id = c.id
    <3>1. c \in Claimed
      BY DEF Inv, TypeOK
    <3> QED
      BY <3>1 DEF Claimed
  <2>2. /\ batch' = [batch EXCEPT ![<<w, s>>] = (batch[<<w, s>>] \ {c}) \cup {d}]
        /\ now' = now /\ task' = task /\ due' = due /\ handlers' = handlers
    BY <1>3 DEF StartHandler, store
  <2> HIDE DEF d
  <2>3. /\ batch' \in [Flushes -> SUBSET Claimed]
        /\ \A f \in Flushes : f # <<w, s>> => batch'[f] = batch[f]
        /\ batch'[<<w, s>>] = (batch[<<w, s>>] \ {c}) \cup {d}
    BY <2>1, <2>2 DEF Inv, TypeOK
  <2>4. OwnerIsRunning'
    <3> SUFFICES ASSUME NEW i \in Ids, task[i].status = "running"
                 PROVE  \E f \in Flushes : /\ f[1] = task[i].claimedBy
                                           /\ \E b \in batch'[f] : b.id = i
      BY <2>2 DEF OwnerIsRunning
    <3>1. PICK f \in Flushes : f[1] = task[i].claimedBy /\ \E b \in batch[f] : b.id = i
      BY DEF Inv, OwnerIsRunning
    <3> QED
      BY <2>1, <2>3, <3>1
  <2> QED
    BY <2>2, <2>3, <2>4 DEF Inv, TypeOK, DueCoverage, AttemptsWithinBudget, NeverEarly
<1> QED
  BY <1>1, <1>2, <1>3

LEMMA HeartbeatInv ==
  ASSUME Inv, NEW w \in Workers, NEW s \in Slots, Heartbeat(w, s)
  PROVE  Inv'
<1>1. TypeOK /\ DueCoverage /\ OwnerIsRunning /\ AttemptsWithinBudget /\ NeverEarly
  BY DEF Inv
<1>2. \A i \in Ids : task'[i] = task[i] \/ task'[i] = [task[i] EXCEPT !.claimedAt = now]
  BY DEF Heartbeat
<1>3. \A r \in Task : LET q == [r EXCEPT !.claimedAt = now]
                      IN  /\ q \in Task /\ q.status = r.status /\ q.runAt = r.runAt
                          /\ q.attempts = r.attempts /\ q.claimedBy = r.claimedBy
  BY <1>1 DEF TypeOK, Task
<1>4. \A i \in Ids : /\ task'[i] \in Task /\ task'[i].status = task[i].status
                     /\ task'[i].runAt = task[i].runAt /\ task'[i].attempts = task[i].attempts
                     /\ task'[i].claimedBy = task[i].claimedBy
  <2> TAKE i \in Ids
  <2>1. task[i] \in Task
    BY <1>1 DEF TypeOK
  <2> QED
    BY <1>2, <1>3, <2>1
<1>5. task' \in [Ids -> Task]
  <2>1. task' = [i \in Ids |-> task'[i]]
    BY DEF Heartbeat
  <2> QED
    BY <1>4, <2>1
<1>6. now' = now /\ due' = due /\ handlers' = handlers /\ batch' = batch
  BY DEF Heartbeat
<1>7. TypeOK'
  BY <1>1, <1>5, <1>6 DEF TypeOK
<1>8. DueCoverage' /\ AttemptsWithinBudget' /\ NeverEarly'
  BY <1>1, <1>4, <1>6 DEF DueCoverage, AttemptsWithinBudget, NeverEarly
<1>9. OwnerIsRunning'
  BY <1>1, <1>4, <1>6, SMTT(30) DEF OwnerIsRunning
<1> QED
  BY <1>7, <1>8, <1>9 DEF Inv

LEMMA ClaimDueInv ==
  ASSUME Inv, NEW w \in Workers, NEW s \in Slots, ClaimDue(w, s)
  PROVE  Inv'
<1> DEFINE t == PrunedTasks
<1>1. TypeOK /\ DueCoverage /\ OwnerIsRunning /\ AttemptsWithinBudget /\ NeverEarly
  BY DEF Inv
<1>2. t \in [Ids -> Task] /\ \A i \in Ids : t[i].status \in Live => t[i] = task[i]
  BY <1>1, PruneKeepsLive, SMTT(30) DEF Absent, Live
<1>3. \A i \in Ids : t[i].status = "failed" => t[i].attempts = MaxAttempts
  BY <1>1, PruneKeepsLive, SMTT(30) DEF AttemptsWithinBudget, Absent
<1> HIDE DEF t
<1>4. PICK C \in Batches(t), drop \in UNION {Drops(t, B) : B \in Batches(t)} :
         /\ drop \in Drops(t, C)
         /\ due' = [e \in Entries |-> IF e \in Stale(t) THEN due[e] - drop[e] ELSE due[e]]
         /\ task' = [i \in Ids |-> IF i \in {c[2] : c \in C} THEN ClaimOf(t[i], w) ELSE t[i]]
         /\ batch' = [batch EXCEPT ![<<w, s>>] = {Snapshot(t, i) : i \in {c[2] : c \in C}}]
  BY DEF ClaimDue, t
<1>5. now' = now /\ handlers' = handlers /\ batch[<<w, s>>] = {}
  BY DEF ClaimDue
<1>6. \A c \in C : /\ c \in Entries /\ c[2] \in Ids /\ c[1] <= now
                   /\ t[c[2]].runAt = c[1] /\ t[c[2]].status \in Live
  BY <1>4 DEF Batches, Claimable, DueEntries, Valid, LeaseExpired, Live
<1>7. due' \in [Entries -> Nat] /\ \A e \in Entries : e \notin Stale(t) => due'[e] = due[e]
  <2>1. \A e \in Stale(t) : /\ e \in Entries /\ drop[e] <= due[e] /\ due[e] \in Nat
                            /\ drop[e] \in Nat
    <3> TAKE e \in Stale(t)
    <3>1. e \in Entries
      BY DEF Stale, DueEntries
    <3>2. drop[e] \in UNION {0..due[x] : x \in Stale(t)} /\ drop[e] <= due[e]
      BY <1>4 DEF Drops
    <3>3. PICK x \in Stale(t) : drop[e] \in 0..due[x]
      BY <3>2
    <3> QED
      BY <1>1, <3>1, <3>2, <3>3, SMTT(30) DEF TypeOK
  <2>2. \A e \in Entries : (IF e \in Stale(t) THEN due[e] - drop[e] ELSE due[e]) \in Nat
    BY <1>1, <2>1, SMTT(30) DEF TypeOK
  <2> QED
    BY <1>4, <2>2
<1>8. \A i \in Ids : /\ t[i] \in Task
                     /\ ClaimOf(t[i], w) \in Task
                     /\ ClaimOf(t[i], w).status = "running"
                     /\ ClaimOf(t[i], w).claimedBy = w
                     /\ ClaimOf(t[i], w).attempts = t[i].attempts
                     /\ ClaimOf(t[i], w).runAt = t[i].runAt
  BY <1>1, <1>2, ClaimedRow, SMTT(30) DEF TypeOK
<1>9. \A i \in Ids : \/ i \in {c[2] : c \in C} /\ task'[i] = ClaimOf(t[i], w) /\ t[i].status \in Live
                                               /\ t[i].runAt <= now
                     \/ i \notin {c[2] : c \in C} /\ task'[i] = t[i]
  BY <1>4, <1>6
<1>10. task' \in [Ids -> Task]
  BY <1>4, <1>8
<1>11. batch' \in [Flushes -> SUBSET Claimed]
  <2>1. \A i \in Ids : Snapshot(t, i) \in Claimed
    BY <1>8 DEF Snapshot, Claimed, Task
  <2>2. {c[2] : c \in C} \subseteq Ids
    BY <1>6
  <2>3. {Snapshot(t, i) : i \in {c[2] : c \in C}} \in SUBSET Claimed
    BY <2>1, <2>2
  <2> QED
    BY <1>1, <1>4, <2>3 DEF TypeOK
<1>12. TypeOK'
  BY <1>1, <1>5, <1>7, <1>10, <1>11 DEF TypeOK
<1>13. DueCoverage'
  <2> SUFFICES ASSUME NEW i \in Ids, task'[i].status \in Live
               PROVE  due'[<<task'[i].runAt, i>>] > 0
    BY DEF DueCoverage
  <2>1. t[i].status \in Live /\ task'[i].runAt = t[i].runAt
    BY <1>8, <1>9
  <2>2. t[i] = task[i] /\ due[<<t[i].runAt, i>>] > 0
    BY <1>1, <1>2, <2>1 DEF DueCoverage
  <2>3. <<t[i].runAt, i>> \in Entries
    BY <1>8 DEF Task
  <2>4. <<t[i].runAt, i>> \notin Stale(t)
    BY <2>1 DEF Stale, Valid, Live, Finished
  <2> QED
    BY <1>7, <2>1, <2>2, <2>3, <2>4
<1>14. OwnerIsRunning'
  <2> SUFFICES ASSUME NEW i \in Ids, task'[i].status = "running"
               PROVE  \E f \in Flushes : /\ f[1] = task'[i].claimedBy
                                         /\ \E b \in batch'[f] : b.id = i
    BY DEF OwnerIsRunning
  <2>1. CASE i \in {c[2] : c \in C}
    <3>1. task'[i].claimedBy = w
      BY <1>8, <1>9, <2>1
    <3>2. batch'[<<w, s>>] = {Snapshot(t, j) : j \in {c[2] : c \in C}}
      BY <1>1, <1>4 DEF TypeOK
    <3>3. Snapshot(t, i) \in batch'[<<w, s>>] /\ Snapshot(t, i).id = i
      BY <2>1, <3>2 DEF Snapshot
    <3>4. <<w, s>> \in Flushes /\ <<w, s>>[1] = w
      OBVIOUS
    <3> QED
      BY <3>1, <3>3, <3>4
  <2>2. CASE i \notin {c[2] : c \in C}
    <3>1. task'[i] = task[i] /\ task[i].status = "running"
      BY <1>2, <1>9, <2>2 DEF Live
    <3>2. PICK f \in Flushes : f[1] = task[i].claimedBy /\ \E b \in batch[f] : b.id = i
      BY <1>1, <3>1 DEF OwnerIsRunning
    <3>3. f # <<w, s>> /\ batch'[f] = batch[f]
      BY <1>1, <1>4, <1>5, <3>2 DEF TypeOK
    <3> QED
      BY <3>1, <3>2, <3>3
  <2> QED
    BY <2>1, <2>2
<1>15. AttemptsWithinBudget'
  BY <1>1, <1>2, <1>3, <1>8, <1>9, ZenonT(60) DEF AttemptsWithinBudget, Live
<1>16. NeverEarly'
  BY <1>1, <1>2, <1>5, <1>8, <1>9, ZenonT(60) DEF NeverEarly, Live
<1> QED
  BY <1>12, <1>13, <1>14, <1>15, <1>16 DEF Inv

LEMMA TickInv ==
  ASSUME Inv, Tick
  PROVE  Inv'
<1>1. TypeOK /\ DueCoverage /\ OwnerIsRunning /\ AttemptsWithinBudget /\ NeverEarly
  BY DEF Inv
<1>2. /\ now' = now + 1 /\ now' \in 0..MaxTime
      /\ task' = task /\ due' = due /\ handlers' = handlers /\ batch' = batch
  BY <1>1, SMTT(30) DEF Tick, store, TypeOK
<1>3. NeverEarly'
  <2>1. \A i \in Ids : task[i].runAt \in Int
    BY <1>1, SMTT(30) DEF TypeOK, Task
  <2> QED
    BY <1>1, <1>2, <2>1, SMTT(30) DEF NeverEarly, TypeOK
<1> QED
  BY <1>1, <1>2, <1>3 DEF Inv, TypeOK, DueCoverage, OwnerIsRunning, AttemptsWithinBudget

LEMMA HandlerRegistryInv ==
  ASSUME Inv, NEW w \in Workers, NEW id \in Ids,
         RegisterHandler(w, id) \/ UnregisterHandler(w, id)
  PROVE  Inv'
<1>1. /\ now' = now /\ task' = task /\ due' = due /\ batch' = batch
      /\ handlers' \in [Workers -> SUBSET Ids]
  BY SMTT(30) DEF RegisterHandler, UnregisterHandler, store, Inv, TypeOK
<1> QED
  BY <1>1 DEF Inv, TypeOK, DueCoverage, OwnerIsRunning, AttemptsWithinBudget, NeverEarly

-----------------------------------------------------------------------------
LEMMA InitInv == Init => Inv
<1> SUFFICES ASSUME Init PROVE Inv
  OBVIOUS
<1>1. Absent \in Task /\ Absent.status = "absent"
  BY SMTT(30) DEF Absent, Task
<1>2. TypeOK
  BY <1>1, SMTT(30) DEF Init, TypeOK
<1>3. \A i \in Ids : task[i].status = "absent"
  BY <1>1 DEF Init
<1> QED
  BY <1>2, <1>3
  DEF Inv, DueCoverage, OwnerIsRunning, AttemptsWithinBudget, NeverEarly, Live

LEMMA NextInv == Inv /\ [Next]_vars => Inv'
<1> SUFFICES ASSUME Inv, [Next]_vars PROVE Inv'
  OBVIOUS
<1>1. CASE \E id \in OneOffIds, runAt \in RunAts : EnqueueAt(id, runAt)
  BY <1>1, EnqueueInv, SMTT(30) DEF EnqueueAt
<1>2. CASE \E id \in CronIds, def \in Crons : EnqueueCron(id, def)
  <2>1. \A def \in Crons : NextTick(def, now) \in Times
    BY SMTT(30) DEF Inv, TypeOK
  <2> QED
    BY <1>2, <2>1, EnqueueInv DEF EnqueueCron
<1>3. CASE \E id \in Ids : Cancel(id)
  BY <1>3, CancelInv
<1>4. CASE \E w \in Workers, id \in Ids : RegisterHandler(w, id) \/ UnregisterHandler(w, id)
  BY <1>4, HandlerRegistryInv
<1>5. CASE List
  BY <1>5, ListInv
<1>6. CASE \E w \in Workers, s \in Slots :
             ClaimDue(w, s) \/ Runs(w, s) \/ Settles(w, s) \/ Heartbeat(w, s)
  BY <1>6, ClaimDueInv, RunsInv, SettlesInv, HeartbeatInv
<1>7. CASE Tick
  BY <1>7, TickInv
<1>8. CASE UNCHANGED vars
  BY <1>8 DEF vars, Inv, TypeOK, DueCoverage, OwnerIsRunning, AttemptsWithinBudget, NeverEarly
<1> QED
  BY <1>1, <1>2, <1>3, <1>4, <1>5, <1>6, <1>7, <1>8 DEF Next, Client

\* The inductive invariant holds in every reachable state of the scheduler.
THEOREM SchedulerInvariant == Spec => []Inv
BY InitInv, NextInv, PTL DEF Spec

\* Every variable keeps its type, whatever the clients and the workers do.
THEOREM SchedulerTyped == Spec => []TypeOK
<1>1. Inv => TypeOK
  BY DEF Inv
<1> QED
  BY <1>1, SchedulerInvariant, PTL

\* No pending or running task is ever without a heap entry at its runAt, so the
\* store can always find it again: claimDue, which pops entries, pushes back
\* exactly those that still count.
THEOREM NoTaskStranded == Spec => []DueCoverage
<1>1. Inv => DueCoverage
  BY DEF Inv
<1> QED
  BY <1>1, SchedulerInvariant, PTL

\* A row in the running state is always in a batch of the worker it names.
THEOREM RunningTaskHasRunner == Spec => []OwnerIsRunning
<1>1. Inv => OwnerIsRunning
  BY DEF Inv
<1> QED
  BY <1>1, SchedulerInvariant, PTL

\* A live task has an attempt left, and one marked failed has used them all.
THEOREM RetryBudgetKept == Spec => []AttemptsWithinBudget
<1>1. Inv => AttemptsWithinBudget
  BY DEF Inv
<1> QED
  BY <1>1, SchedulerInvariant, PTL

\* No row is running before its time.
THEOREM NothingRunsEarly == Spec => []NeverEarly
<1>1. Inv => NeverEarly
  BY DEF Inv
<1> QED
  BY <1>1, SchedulerInvariant, PTL

-----------------------------------------------------------------------------
(* The calendar.  A finalizer takes the next firing from the definition its  *)
(* task had when it was claimed.  That is the row's own definition as long   *)
(* as a worker has one flush under way: a replaced row is nobody's until     *)
(* some worker claims it again, and that worker's batch is then empty.  Two  *)
(* flushes of one worker (stop and start again during a flush) break this.   *)

HIDE SchedulerAssumption DEF Ids, Times, Entries, Flushes

\* A started scheduler polls in one loop that awaits each flush (scheduler.ts start).
OneFlush == \A s, u \in Slots : s = u

\* A claim that still counts was made under the row's present definition.
ClaimsCurrent ==
  \A w \in Workers, s \in Slots : \A c \in batch[<<w, s>>] :
    Owns(c.id, w) => task[c.id].def = c.def

Calendar == OnSchedule /\ ClaimsCurrent

\* The row's time is a firing of its definition.
Fires(r) == \E t \in Times : r.runAt = NextTick(r.def, t)

\* A step that rewrites one row, not into a running one, and adds nothing to a batch.
LEMMA CalendarRowStep ==
  ASSUME TypeOK, Calendar, NEW id \in Ids, NEW r,
         task' = [task EXCEPT ![id] = r], r.status # "running",
         id \in CronIds /\ r.status \in Live => Fires(r),
         \A f \in Flushes : batch'[f] \subseteq batch[f]
  PROVE  Calendar'
<1>1. task'[id] = r /\ \A i \in Ids : i # id => task'[i] = task[i]
  BY DEF TypeOK
<1>2. OnSchedule'
  BY <1>1, SMTT(30) DEF Calendar, OnSchedule, Fires
<1>3. ClaimsCurrent'
  <2> SUFFICES ASSUME NEW w \in Workers, NEW s \in Slots, NEW c \in batch'[<<w, s>>], Owns(c.id, w)'
               PROVE  task'[c.id].def = c.def
    BY DEF ClaimsCurrent
  <2>1. c \in batch[<<w, s>>] /\ c.id \in Ids
    BY SMTT(30) DEF TypeOK, Claimed, Flushes
  <2>2. c.id # id /\ task'[c.id] = task[c.id]
    BY <1>1, <2>1 DEF Owns
  <2> QED
    BY <2>1, <2>2, SMTT(30) DEF Calendar, ClaimsCurrent, Owns
<1> QED
  BY <1>2, <1>3 DEF Calendar

\* A step after which each row is deleted, or is due when it was, under the same definition and
\* no new claim.
LEMMA CalendarKeepStep ==
  ASSUME TypeOK, Calendar,
         \A i \in Ids : \/ task'[i].status \notin Live
                        \/ /\ task'[i].status = task[i].status /\ task'[i].def = task[i].def
                           /\ task'[i].runAt = task[i].runAt /\ task'[i].claimedBy = task[i].claimedBy,
         \A f \in Flushes : \A c \in batch'[f] :
            c.id \in Ids /\ \E b \in batch[f] : b.id = c.id /\ b.def = c.def
  PROVE  Calendar'
<1>1. OnSchedule'
  BY DEF Calendar, OnSchedule, Ids
<1>2. ClaimsCurrent'
  <2> SUFFICES ASSUME NEW w \in Workers, NEW s \in Slots, NEW c \in batch'[<<w, s>>], Owns(c.id, w)'
               PROVE  task'[c.id].def = c.def
    BY DEF ClaimsCurrent
  <2>1. PICK b \in batch[<<w, s>>] : b.id = c.id /\ b.def = c.def
    BY DEF Flushes
  <2>2. c.id \in Ids
    BY DEF Flushes
  <2> QED
    BY <2>1, <2>2, SMTT(30) DEF Calendar, ClaimsCurrent, Owns, Live
<1> QED
  BY <1>1, <1>2 DEF Calendar

LEMMA EnqueueCalendar ==
  ASSUME TypeOK, Calendar, NEW id \in Ids, NEW def \in Crons \cup {NoCron}, NEW runAt \in Times,
         id \in CronIds => runAt = NextTick(def, now), Enqueue(id, def, runAt)
  PROVE  Calendar'
<1> DEFINE t == PrunedTasks
<1>1. t \in [Ids -> Task] /\ \A i \in Ids : t[i].status \in Live => t[i] = task[i]
  BY PruneKeepsLive, SMTT(30) DEF Absent, Live
<1>2. batch' = batch
  BY DEF Enqueue
<1>3. \A i \in Ids : task'[i] = t[i] \/ (i = id /\ task'[i] = NewTask(def, runAt))
  BY <1>1 DEF Enqueue
<1> HIDE DEF t
<1>4. /\ NewTask(def, runAt).status = "pending" /\ NewTask(def, runAt).runAt = runAt
      /\ NewTask(def, runAt).def = def
  BY NewTaskType, ZenonT(60)
<1>5. OnSchedule'
  <2> SUFFICES ASSUME NEW i \in CronIds, task'[i].status \in Live
               PROVE  \E u \in Times : task'[i].runAt = NextTick(task'[i].def, u)
    BY DEF OnSchedule
  <2>1. CASE task'[i] = t[i]
    BY <1>1, <2>1 DEF Calendar, OnSchedule, Ids
  <2>2. CASE i = id /\ task'[i] = NewTask(def, runAt)
    <3>1. now \in Times
      BY SchedulerAssumption, SMTT(30) DEF TypeOK, Ids, Times
    <3> QED
      BY <1>4, <2>2, <3>1
  <2> QED
    BY <1>3, <2>1, <2>2 DEF Ids
<1>6. ClaimsCurrent'
  <2> SUFFICES ASSUME NEW w \in Workers, NEW s \in Slots, NEW c \in batch[<<w, s>>], Owns(c.id, w)'
               PROVE  task'[c.id].def = c.def
    BY <1>2 DEF ClaimsCurrent
  <2>1. c.id \in Ids
    BY SMTT(30) DEF TypeOK, Claimed, Flushes
  <2>2. task'[c.id] = task[c.id]
    BY <1>1, <1>3, <1>4, <2>1 DEF Owns, Live
  <2> QED
    BY <2>2, ZenonT(60) DEF Calendar, ClaimsCurrent, Owns
<1> QED
  BY <1>5, <1>6 DEF Calendar

LEMMA ClaimDueCalendar ==
  ASSUME OneFlush, TypeOK, Calendar, NEW w \in Workers, NEW s \in Slots, ClaimDue(w, s)
  PROVE  Calendar'
<1> DEFINE t == PrunedTasks
<1>1. t \in [Ids -> Task] /\ \A i \in Ids : t[i].status \in Live => t[i] = task[i]
  BY PruneKeepsLive, SMTT(30) DEF Absent, Live
<1> HIDE DEF t
<1>2. PICK C \in Batches(t) :
         /\ task' = [i \in Ids |-> IF i \in {c[2] : c \in C} THEN ClaimOf(t[i], w) ELSE t[i]]
         /\ batch' = [batch EXCEPT ![<<w, s>>] = {Snapshot(t, i) : i \in {c[2] : c \in C}}]
  BY DEF ClaimDue, t
<1> DEFINE ids == {c[2] : c \in C}
<1>3. \A i \in ids : i \in Ids /\ t[i].status \in Live
  BY SchedulerAssumption, <1>2, SMTT(30) DEF Batches, Claimable, DueEntries, LeaseExpired, Live, Ids, Times, Entries, Flushes
<1>4. /\ \A i \in Ids : task'[i] = IF i \in ids THEN ClaimOf(t[i], w) ELSE t[i]
      /\ batch'[<<w, s>>] = {Snapshot(t, i) : i \in ids}
      /\ \A f \in Flushes : f # <<w, s>> => batch'[f] = batch[f]
  BY <1>2 DEF TypeOK, Flushes
<1> HIDE DEF ids
<1>5. \A i \in Ids : /\ ClaimOf(t[i], w).def = t[i].def /\ ClaimOf(t[i], w).runAt = t[i].runAt
                     /\ ClaimOf(t[i], w).claimedBy = w
  BY <1>1, ClaimedRow, ZenonT(60) DEF TypeOK
<1>6. OnSchedule'
  <2> SUFFICES ASSUME NEW i \in CronIds, task'[i].status \in Live
               PROVE  \E u \in Times : task'[i].runAt = NextTick(task'[i].def, u)
    BY DEF OnSchedule
  <2>1. t[i].status \in Live /\ task'[i].runAt = t[i].runAt /\ task'[i].def = t[i].def
    BY <1>3, <1>4, <1>5 DEF Ids
  <2> QED
    BY <1>1, <2>1 DEF Calendar, OnSchedule, Ids
<1>7. ClaimsCurrent'
  <2> SUFFICES ASSUME NEW v \in Workers, NEW u \in Slots, NEW c \in batch'[<<v, u>>], Owns(c.id, v)'
               PROVE  task'[c.id].def = c.def
    BY DEF ClaimsCurrent
  <2>1. CASE v = w
    <3>1. <<v, u>> = <<w, s>>
      BY <2>1 DEF OneFlush
    <3>2. PICK i \in ids : c = Snapshot(t, i)
      BY <1>4, <3>1
    <3> QED
      BY <1>3, <1>4, <1>5, <3>2 DEF Snapshot
  <2>2. CASE v # w
    <3>1. c \in batch[<<v, u>>] /\ c.id \in Ids
      BY <1>4, <2>2, SMTT(30) DEF TypeOK, Claimed, Flushes
    <3>2. c.id \notin ids /\ task'[c.id] = t[c.id]
      BY <1>4, <1>5, <2>2, <3>1, ZenonT(60) DEF Owns
    <3>3. task'[c.id] = task[c.id]
      BY <1>1, <3>1, <3>2 DEF Owns, Live
    <3> QED
      BY <3>1, <3>3, ZenonT(60) DEF Calendar, ClaimsCurrent, Owns
  <2> QED
    BY <2>1, <2>2
<1> QED
  BY <1>6, <1>7 DEF Calendar

\* The finalizers keep the calendar: a next run is computed from the claim's definition, which is
\* the row's own when the worker still owns the row.
LEMMA FinalizerCalendar ==
  ASSUME TypeOK, Calendar, NEW w \in Workers, NEW s \in Slots, NEW c \in batch[<<w, s>>],
         \/ MarkCompleted(c.id, w) \/ MarkFailed(c.id, w)
         \/ \E u \in Times : /\ NextTick(c.def, u) \in Times
                             /\ Reschedule(c.id, NextTick(c.def, u), w),
         Leaves(w, s, c)
  PROVE  Calendar'
<1>1. c \in Claimed /\ c.id \in Ids /\ task[c.id] \in Task
  BY SMTT(30) DEF TypeOK, Claimed, Flushes
<1>2. \A f \in Flushes : batch'[f] \subseteq batch[f]
  BY DEF TypeOK, Leaves
<1>3. CASE task' = task
  <2>1. \A f \in Flushes : \A d \in batch'[f] : d.id \in Ids /\ d \in batch[f]
    BY <1>2, SMTT(30) DEF TypeOK, Claimed
  <2> QED
    BY <1>3, <2>1, CalendarKeepStep, ZenonT(60)
<1>4. CASE Owns(c.id, w) /\ MarkCompleted(c.id, w)
  <2> DEFINE r == [task[c.id] EXCEPT !.status = "completed", !.completedAt = now]
  <2>1. r.status = "completed"
    BY <1>1 DEF Task
  <2>2. task' = [task EXCEPT ![c.id] = r]
    BY <1>1, <1>4 DEF MarkCompleted, TypeOK, Task
  <2> HIDE DEF r
  <2> QED
    BY <1>1, <1>2, <2>1, <2>2, CalendarRowStep DEF Live
<1>5. CASE Owns(c.id, w) /\ MarkFailed(c.id, w) /\ Exhausted(task[c.id])
  <2> DEFINE r == [Released(task[c.id]) EXCEPT !.status = "failed", !.completedAt = now]
  <2>1. r.status = "failed"
    BY <1>1 DEF Task, Released
  <2>2. task' = [task EXCEPT ![c.id] = r]
    BY <1>1, <1>5 DEF MarkFailed, TypeOK
  <2> HIDE DEF r
  <2> QED
    BY <1>1, <1>2, <2>1, <2>2, CalendarRowStep DEF Live
<1>6. CASE Owns(c.id, w) /\ MarkFailed(c.id, w) /\ ~Exhausted(task[c.id])
  <2> DEFINE r == [Released(task[c.id]) EXCEPT !.status = "pending"]
  <2>1. r.status = "pending" /\ r.def = task[c.id].def /\ r.runAt = task[c.id].runAt
    BY <1>1 DEF Task, Released
  <2>2. task' = [task EXCEPT ![c.id] = r]
    BY <1>1, <1>6 DEF MarkFailed, TypeOK
  <2>3. c.id \in CronIds => Fires(r)
    BY <1>6, <2>1 DEF Calendar, OnSchedule, Owns, Live, Fires
  <2> HIDE DEF r
  <2> QED
    BY <1>1, <1>2, <2>1, <2>2, <2>3, CalendarRowStep
<1>7. ASSUME NEW u \in Times, NextTick(c.def, u) \in Times, Owns(c.id, w),
             Reschedule(c.id, NextTick(c.def, u), w)
      PROVE  Calendar'
  <2> DEFINE next == NextTick(c.def, u)
  <2> DEFINE r == NewTask(task[c.id].def, next)
  <2>1. task[c.id].def = c.def /\ task[c.id].def \in Crons \cup {NoCron}
    BY <1>1, <1>7 DEF Calendar, ClaimsCurrent, Task
  <2>2. r.status = "pending" /\ r.def = c.def /\ r.runAt = next
    BY <1>7, <2>1, NewTaskType, ZenonT(60)
  <2>3. Fires(r)
    BY <2>2 DEF Fires
  <2>4. task' = [task EXCEPT ![c.id] = r]
    BY <1>7 DEF Reschedule
  <2> HIDE DEF r
  <2> QED
    BY <1>1, <1>2, <2>2, <2>3, <2>4, CalendarRowStep
<1>8. CASE ~Owns(c.id, w)
  BY <1>3, <1>8 DEF MarkCompleted, MarkFailed, Reschedule, store
<1> QED
  BY <1>4, <1>5, <1>6, <1>7, <1>8

LEMMA NextCalendar == ASSUME OneFlush PROVE Inv /\ Calendar /\ [Next]_vars => Calendar'
<1> SUFFICES ASSUME Inv, Calendar, [Next]_vars PROVE Calendar'
  OBVIOUS
<1>0. TypeOK /\ now \in Times
  BY SchedulerAssumption, SMTT(30) DEF Inv, TypeOK, Ids, Times
<1>1. \A f \in Flushes : \A c \in batch[f] : c.id \in Ids
  BY <1>0, SMTT(30) DEF TypeOK, Claimed
<1>2. CASE task' = task /\ batch' = batch
  BY <1>0, <1>1, <1>2, CalendarKeepStep
<1>3. CASE Client
  <2>1. \A def \in Crons : NextTick(def, now) \in Times
    BY SchedulerAssumption, <1>0 DEF Ids
  <2>2. CASE \E id \in OneOffIds, runAt \in RunAts : EnqueueAt(id, runAt)
    BY SchedulerAssumption, <1>0, <2>2, EnqueueCalendar, SMTT(30) DEF EnqueueAt, Ids, Times
  <2>3. CASE \E id \in CronIds, def \in Crons : EnqueueCron(id, def)
    BY <1>0, <2>1, <2>3, EnqueueCalendar DEF EnqueueCron, Ids
  <2>4. ASSUME NEW id \in Ids, Cancel(id) PROVE Calendar'
    <3> DEFINE r == [task[id] EXCEPT !.status = "cancelled", !.completedAt = now]
    <3>1. task[id] \in Task /\ batch' = batch
      BY <1>0, <2>4 DEF TypeOK, Cancel
    <3>2. r.status = "cancelled"
      BY <3>1 DEF Task
    <3>3. task' = [task EXCEPT ![id] = r]
      BY <1>0, <2>4, <3>1 DEF Cancel, TypeOK, Task
    <3> HIDE DEF r
    <3> QED
      BY <1>0, <3>1, <3>2, <3>3, CalendarRowStep DEF Live
  <2>5. CASE \E w \in Workers, id \in Ids : RegisterHandler(w, id) \/ UnregisterHandler(w, id)
    BY <1>2, <2>5 DEF RegisterHandler, UnregisterHandler, store
  <2>6. CASE List
    <3>1. \A i \in Ids : task'[i].status \in Live => task'[i] = task[i]
      BY <1>0, <2>6, PruneKeepsLive, SMTT(30) DEF List, Absent, Live
    <3> QED
      BY <1>0, <1>1, <2>6, <3>1, CalendarKeepStep DEF List
  <2> QED
    BY <1>3, <2>2, <2>3, <2>4, <2>5, <2>6 DEF Client
<1>4. ASSUME NEW w \in Workers, NEW s \in Slots, NEW c \in batch[<<w, s>>],
             NoHandler(w, s, c) \/ HandlerSucceeds(w, s, c) \/ HandlerFails(w, s, c)
      PROVE  Calendar'
  <2>1. c \in Claimed /\ c.runAt \in Times /\ c.def \in Crons \cup {NoCron} /\ Leaves(w, s, c)
    BY <1>0, <1>4, SMTT(30) DEF TypeOK, Claimed, NoHandler, HandlerSucceeds, HandlerFails, Flushes
  <2>2. CASE MarkCompleted(c.id, w) \/ MarkFailed(c.id, w)
    BY <1>0, <2>1, <2>2, FinalizerCalendar
  <2>3. ASSUME NEW u \in Times, c.def # NoCron, Reschedule(c.id, NextTick(c.def, u), w) PROVE Calendar'
    <3>1. NextTick(c.def, u) \in Times
      BY SchedulerAssumption, <2>1, <2>3 DEF Ids
    <3> QED
      BY <1>0, <2>1, <2>3, <3>1, FinalizerCalendar
  <2>4. TickAfter(c) = NextTick(c.def, c.runAt) \/ TickAfter(c) = NextTick(c.def, now)
    BY DEF TickAfter
  <2> QED
    BY <1>0, <1>4, <2>1, <2>2, <2>3, <2>4 DEF NoHandler, HandlerSucceeds, HandlerFails
<1>5. ASSUME NEW w \in Workers, NEW s \in Slots, NEW c \in batch[<<w, s>>], StartHandler(w, s, c)
      PROVE  Calendar'
  <2> DEFINE d == [c EXCEPT !.phase = "running"]
  <2>1. d.id = c.id /\ d.def = c.def
    <3>1. c \in Claimed
      BY <1>0 DEF TypeOK, Flushes
    <3> QED
      BY <3>1 DEF Claimed
  <2>2. /\ task' = task
        /\ \A f \in Flushes : f # <<w, s>> => batch'[f] = batch[f]
        /\ batch'[<<w, s>>] = (batch[<<w, s>>] \ {c}) \cup {d}
    BY <1>0, <1>5 DEF StartHandler, TypeOK, store, Flushes
  <2> HIDE DEF d
  <2>3. \A f \in Flushes : \A e \in batch'[f] :
           e.id \in Ids /\ \E b \in batch[f] : b.id = e.id /\ b.def = e.def
    BY <1>1, <2>1, <2>2
  <2> QED
    BY <1>0, <2>2, <2>3, CalendarKeepStep
<1>6. ASSUME NEW w \in Workers, NEW s \in Slots, Heartbeat(w, s) PROVE Calendar'
  <2>1. \A i \in Ids : task[i] \in Task
    BY <1>0 DEF TypeOK
  <2>2. batch' = batch
        /\ \A i \in Ids : task'[i] = task[i] \/ task'[i] = [task[i] EXCEPT !.claimedAt = now]
    BY <1>6 DEF Heartbeat
  <2>3. \A i \in Ids : /\ task'[i].status = task[i].status /\ task'[i].def = task[i].def
                       /\ task'[i].runAt = task[i].runAt /\ task'[i].claimedBy = task[i].claimedBy
    BY <2>1, <2>2 DEF Task
  <2> QED
    BY <1>0, <1>1, <2>2, <2>3, CalendarKeepStep
<1>7. ASSUME NEW w \in Workers, NEW s \in Slots, ClaimDue(w, s) PROVE Calendar'
  BY <1>0, <1>7, ClaimDueCalendar
<1>8. CASE Tick \/ UNCHANGED vars
  BY <1>2, <1>8 DEF Tick, store, vars
<1> QED
  BY <1>3, <1>4, <1>5, <1>6, <1>7, <1>8 DEF Next, Runs, Settles

\* With one flush at a time a recurring row's next run is always a firing of the row's own
\* definition (scheduler.ts runClaimedTask, enqueueCron, reschedule).
THEOREM OnScheduleAlways == ASSUME OneFlush PROVE Spec => []OnSchedule
<1>1. Init => Calendar
  <2> SUFFICES ASSUME Init PROVE Calendar
    OBVIOUS
  <2>1. \A id \in Ids : task[id].status \notin Live
    BY DEF Init, Absent, Live
  <2>2. \A f \in Flushes : batch[f] = {}
    BY DEF Init
  <2> QED
    BY <2>1, <2>2, SMTT(30) DEF Calendar, OnSchedule, ClaimsCurrent, Ids, Flushes
<1>2. Calendar => OnSchedule
  BY DEF Calendar
<1> QED
  BY <1>1, <1>2, NextCalendar, SchedulerInvariant, PTL DEF Spec

-----------------------------------------------------------------------------
(* What a step may do to a row.                                              *)

LEMMA StepOnRow ==
  ASSUME Inv, Next, NEW id \in Ids
  PROVE  \/ task'[id].status = task[id].status /\ task'[id].claimedBy = task[id].claimedBy
         \/ id \in Pruned /\ task[id].status \in Finished
         \/ task'[id].status = "cancelled"
         \/ task[id].status = "running" /\ task'[id].status \in {"pending", "completed", "failed"}
         \/ task'[id].status = "pending" /\ task'[id].def # task[id].def
         \/ task[id].status = "absent"
         \/ /\ task'[id].status = "running"
            /\ task[id].status = "pending" \/ LeaseExpired(task[id])
<1>0. TypeOK /\ task[id] \in Task
  BY DEF Inv, TypeOK
<1>1. PrunedTasks[id] = task[id] \/ (id \in Pruned /\ task[id].status \in Finished)
  BY PrunedFinished DEF PrunedTasks
<1>2. CASE task'[id] = task[id]
  BY <1>2
<1>3. ASSUME NEW i \in Ids, NEW def \in Crons \cup {NoCron}, NEW runAt \in Times, Enqueue(i, def, runAt)
      PROVE  \/ task'[id] = task[id]
             \/ id \in Pruned /\ task[id].status \in Finished
             \/ task'[id].status = "pending" /\ task'[id].def # task[id].def
             \/ task[id].status = "absent"
  <2>1. PrunedTasks \in [Ids -> Task]
    BY <1>0, PruneKeepsLive
  <2>2. /\ NewTask(def, runAt).status = "pending" /\ NewTask(def, runAt).def = def
    BY NewTaskType, ZenonT(60)
  <2>3. \/ task'[id] = PrunedTasks[id]
        \/ /\ task'[id] = NewTask(def, runAt)
           /\ PrunedTasks[id].status = "absent" \/ PrunedTasks[id].def # def
    BY <1>3, <2>1 DEF Enqueue
  <2> QED
    BY <1>1, <2>2, <2>3
<1>4. CASE Client
  <2>1. \A def \in Crons : NextTick(def, now) \in Times
    BY SchedulerAssumption, <1>0, SMTT(30) DEF TypeOK, Times
  <2>2. CASE \E i \in OneOffIds, runAt \in RunAts : EnqueueAt(i, runAt)
    <3>1. PICK i \in OneOffIds, runAt \in RunAts : Enqueue(i, NoCron, runAt)
      BY <2>2 DEF EnqueueAt
    <3>2. i \in Ids /\ NoCron \in Crons \cup {NoCron} /\ runAt \in Times
      BY SchedulerAssumption, SMTT(30) DEF Ids, Times
    <3> QED
      BY <1>3, <3>1, <3>2
  <2>3. CASE \E i \in CronIds, def \in Crons : EnqueueCron(i, def)
    <3>1. PICK i \in CronIds, def \in Crons : Enqueue(i, def, NextTick(def, now))
      BY <2>3 DEF EnqueueCron
    <3> QED
      BY <1>3, <2>1, <3>1 DEF Ids
  <2>4. CASE \E i \in Ids : Cancel(i)
    <3>1. PICK i \in Ids : task' = [task EXCEPT ![i].status = "cancelled", ![i].completedAt = now]
      BY <2>4 DEF Cancel
    <3>2. CASE i = id
      BY <1>0, <3>1, <3>2 DEF TypeOK, Task
    <3>3. CASE i # id
      BY <1>0, <3>1, <3>3 DEF TypeOK
    <3> QED
      BY <3>2, <3>3
  <2>5. CASE \E w \in Workers, i \in Ids : RegisterHandler(w, i) \/ UnregisterHandler(w, i)
    BY <2>5 DEF RegisterHandler, UnregisterHandler, store
  <2>6. CASE List
    BY <1>1, <2>6 DEF List
  <2> QED
    BY <1>4, <2>2, <2>3, <2>4, <2>5, <2>6 DEF Client
<1>5. ASSUME NEW w \in Workers, NEW s \in Slots, ClaimDue(w, s)
      PROVE  \/ task'[id] = task[id]
             \/ id \in Pruned /\ task[id].status \in Finished
             \/ /\ task'[id].status = "running"
                /\ task[id].status = "pending" \/ LeaseExpired(task[id])
  <2>1. PICK C \in Batches(PrunedTasks) :
          task' = [i \in Ids |-> IF i \in {c[2] : c \in C} THEN ClaimOf(PrunedTasks[i], w)
                                 ELSE PrunedTasks[i]]
    BY <1>5 DEF ClaimDue
  <2>2. CASE id \in {c[2] : c \in C}
    <3>1. PrunedTasks[id].status = "pending" \/ LeaseExpired(PrunedTasks[id])
      BY <2>1, <2>2 DEF Batches, Claimable
    <3>2. ClaimOf(PrunedTasks[id], w).status = "running"
      BY <1>0, PruneKeepsLive, ClaimedRow DEF TypeOK
    <3> QED
      BY <1>1, <2>1, <2>2, <3>1, <3>2
  <2>3. CASE id \notin {c[2] : c \in C}
    BY <1>1, <2>1, <2>3
  <2> QED
    BY <2>2, <2>3
<1>6. ASSUME NEW w \in Workers, NEW i \in Ids, NEW next \in Times,
             MarkCompleted(i, w) \/ MarkFailed(i, w) \/ Reschedule(i, next, w)
      PROVE  \/ task'[id] = task[id]
             \/ task[id].status = "running" /\ task'[id].status \in {"pending", "completed", "failed"}
  <2>1. CASE Owns(i, w) /\ i = id
    <3>1. task[id].status = "running" /\ task[id].def \in Crons \cup {NoCron}
      BY <1>0, <2>1 DEF Owns, Task
    <3>3. NewTask(task[id].def, next).status = "pending"
      BY <3>1, NewTaskType, ZenonT(60)
    <3>4. CASE MarkCompleted(i, w)
      <4>1. task'[id] = [task[id] EXCEPT !.status = "completed", !.completedAt = now]
        BY <1>0, <2>1, <3>4 DEF MarkCompleted, TypeOK, Task
      <4>2. task'[id].status = "completed"
        BY <1>0, <4>1 DEF Task
      <4> QED
        BY <3>1, <4>2
    <3>5. CASE MarkFailed(i, w)
      <4>1. \/ task'[id] = [Released(task[id]) EXCEPT !.status = "failed", !.completedAt = now]
            \/ task'[id] = [Released(task[id]) EXCEPT !.status = "pending"]
        BY <1>0, <2>1, <3>5 DEF MarkFailed, TypeOK
      <4>2. task'[id].status \in {"pending", "failed"}
        BY <1>0, <4>1 DEF Released, Task
      <4> QED
        BY <3>1, <4>2
    <3>6. CASE Reschedule(i, next, w)
      BY <1>0, <2>1, <3>1, <3>3, <3>6 DEF Reschedule, TypeOK
    <3> QED
      BY <1>6, <3>4, <3>5, <3>6
  <2>2. CASE ~(Owns(i, w) /\ i = id)
    BY <1>0, <1>6, <2>2 DEF MarkCompleted, MarkFailed, Reschedule, store, TypeOK
  <2> QED
    BY <2>1, <2>2
<1>7. ASSUME NEW w \in Workers, NEW s \in Slots, NEW c \in batch[<<w, s>>],
             \/ StartHandler(w, s, c) \/ NoHandler(w, s, c)
             \/ HandlerSucceeds(w, s, c) \/ HandlerFails(w, s, c)
      PROVE  \/ task'[id] = task[id]
             \/ task[id].status = "running" /\ task'[id].status \in {"pending", "completed", "failed"}
  <2>1. c.id \in Ids /\ -1 \in Times
    BY SchedulerAssumption, <1>0, SMTT(30) DEF TypeOK, Claimed, Ids, Times, Flushes
  <2>2. CASE StartHandler(w, s, c)
    BY <2>2 DEF StartHandler, store
  <2>3. CASE MarkCompleted(c.id, w) \/ MarkFailed(c.id, w)
    BY <1>6, <2>1, <2>3
  <2>4. CASE c.def # NoCron /\ (Reschedule(c.id, TickAfter(c), w) \/ Reschedule(c.id, NextTick(c.def, now), w))
    <3>1. TickAfter(c) \in Times /\ NextTick(c.def, now) \in Times
      BY <2>4, TicksInRange
    <3> QED
      BY <1>6, <2>1, <2>4, <3>1
  <2> QED
    BY <1>7, <2>2, <2>3, <2>4 DEF NoHandler, HandlerSucceeds, HandlerFails
<1>8. ASSUME NEW w \in Workers, NEW s \in Slots, Heartbeat(w, s)
      PROVE  task'[id].status = task[id].status /\ task'[id].claimedBy = task[id].claimedBy
  BY <1>0, <1>8 DEF Heartbeat, Task
<1>9. CASE Tick
  BY <1>2, <1>9 DEF Tick, store
<1> QED
  BY <1>2, <1>4, <1>5, <1>7, <1>8, <1>9 DEF Next, Runs, Settles

\* No step ends a cancelled task otherwise, takes a task whose lease is running, or drops a task
\* that is still to run (scheduler.ts cancel, claimDue, pruneTerminal and the fenced finalizers).
THEOREM StepsAlwaysRespectTasks == Spec => StepsRespectTasks
<1> DEFINE Step ==
      \A id \in Ids :
        /\ task[id].status = "cancelled" =>
             task'[id].status = "cancelled" \/ id \in Pruned \/ task'[id].def # task[id].def
        /\ (/\ task[id].status = "running" /\ task'[id].status = "running"
            /\ task'[id].claimedBy # task[id].claimedBy) => now - task[id].claimedAt >= ClaimTtl
        /\ task[id].status \in Live => task'[id].status # "absent"
<1>1. ASSUME Inv, [Next]_vars PROVE Step
  <2>1. CASE UNCHANGED vars
    BY <2>1 DEF vars, Live
  <2>2. CASE Next
    BY <1>1, <2>2, StepOnRow DEF LeaseExpired, Finished, Live
  <2> QED
    BY <1>1, <2>1, <2>2
<1>2. Inv /\ [Next]_vars =>
        /\ [\A id \in Ids : task[id].status = "cancelled" =>
              \/ task'[id].status = "cancelled"
              \/ id \in Pruned
              \/ task'[id].def # task[id].def]_vars
        /\ [\A id \in Ids :
              (/\ task[id].status = "running" /\ task'[id].status = "running"
               /\ task'[id].claimedBy # task[id].claimedBy)
              => now - task[id].claimedAt >= ClaimTtl]_vars
        /\ [\A id \in Ids : task[id].status \in Live => task'[id].status # "absent"]_vars
  BY <1>1
<1> QED
  BY <1>2, SchedulerInvariant, PTL
  DEF Spec, StepsRespectTasks, CancelSticks, LeaseRespected, LiveNeverDropped

-----------------------------------------------------------------------------
(***************************************************************************)
(* The list of terminal tasks names every terminal row, although            *)
(* pruneTerminal rebuilds it and drops its oldest entries.  The argument    *)
(* counts: an entry's rank is its position among the kept ones, so the      *)
(* entries beyond the cap are the ones whose rows are deleted.              *)
(***************************************************************************)

USE SchedulerAssumption DEF Ids, Times, Entries, Flushes

\* The terminal list is a sequence.
Listing == \E n \in Nat : terminal = [i \in 1..n |-> terminal[i]]

\* The rank of an entry is its position among the kept ones: no two share one.
LEMMA RankIsPosition ==
  ASSUME Listing
  PROVE  /\ \A i \in KeptIndices : Rank(i) \in 1..Cardinality(KeptIndices)
         /\ \A i, j \in KeptIndices : Rank(i) = Rank(j) => i = j
         /\ Overflow \in Nat /\ Cardinality(KeptIndices) \in Nat
<1>1. PICK n \in Nat : DOMAIN terminal = 1..n
  BY DEF Listing
<1>2. IsFiniteSet(1..n)
  BY FS_Interval, SMTT(30)
<1> DEFINE K == KeptIndices  Upto(i) == {k \in K : k <= i}
<1>3. K \subseteq 1..n
  BY <1>1 DEF KeptIndices
<1>4. IsFiniteSet(K)
  BY <1>2, <1>3, FS_Subset
<1>5. \A i : IsFiniteSet(Upto(i)) /\ Cardinality(Upto(i)) <= Cardinality(K)
  <2> TAKE i
  <2>1. Upto(i) \subseteq K
    OBVIOUS
  <2> QED
    BY <1>4, <2>1, FS_Subset
<1>6. Cardinality(K) \in Nat /\ \A i : Cardinality(Upto(i)) \in Nat
  BY <1>4, <1>5, FS_CardinalityType
<1>7. \A i \in K : Cardinality(Upto(i)) # 0
  <2> TAKE i \in K
  <2>1. i \in Upto(i)
    BY <1>3, SMTT(30)
  <2> QED
    BY <1>5, <2>1, FS_EmptySet
<1>8. ASSUME NEW i \in K, NEW j \in K, i < j PROVE Cardinality(Upto(i)) # Cardinality(Upto(j))
  <2>1. Upto(i) \subseteq Upto(j) /\ Upto(i) # Upto(j)
    <3>1. j \in Upto(j) /\ j \notin Upto(i)
      BY <1>3, <1>8, SMTT(30)
    <3>2. i \in Nat /\ j \in Nat /\ \A k \in K : k \in Nat
      BY <1>3, SMTT(30)
    <3>3. \A k \in K : k <= i => k <= j
      BY <1>8, <3>2, SMTT(30)
    <3>4. Upto(i) \subseteq Upto(j)
      BY <3>3
    <3> QED
      BY <3>1, <3>4
  <2> HIDE DEF Upto
  <2> QED
    BY <1>5, <2>1, FS_Subset
<1>9. \A i, j \in K : Cardinality(Upto(i)) = Cardinality(Upto(j)) => i = j
  BY <1>3, <1>8, SMTT(30)
<1>10. \A i : Rank(i) = Cardinality(Upto(i))
  BY DEF Rank
<1> HIDE DEF Upto
<1>11. \A i \in K : Cardinality(Upto(i)) \in 1..Cardinality(K)
  BY <1>5, <1>6, <1>7, SMTT(30)
<1> QED
  BY <1>6, <1>9, <1>10, <1>11, SMTT(30) DEF Overflow

\* An entry that is kept and not cut off is on the list afterwards.
LEMMA KeptStaysListed ==
  ASSUME Listing, NEW i \in KeptIndices, Rank(i) > Overflow
  PROVE  \E m \in DOMAIN PrunedTerminal : PrunedTerminal[m] = terminal[i]
<1> DEFINE m == Rank(i) - Overflow
<1>1. m \in 1..(Cardinality(KeptIndices) - Overflow)
  BY RankIsPosition, SMTT(30)
<1>2. (CHOOSE j \in KeptIndices : Rank(j) = Overflow + m) = i
  BY RankIsPosition, SMTT(30)
<1> QED
  BY <1>1, <1>2 DEF PrunedTerminal, KeptAfter

\* pruneTerminal keeps a row only together with its entry in the list.
LEMMA PruneKeepsListed ==
  ASSUME Listing, TerminalListed, NEW id \in Ids, PrunedTasks[id].status \in Finished
  PROVE  \E m \in DOMAIN PrunedTerminal : PrunedTerminal[m] = id
<1>1. id \notin Pruned /\ task[id].status \in Finished
  BY DEF PrunedTasks, Absent, Finished
<1>2. PICK i \in DOMAIN terminal : terminal[i] = id
  BY <1>1 DEF TerminalListed
<1>3. i \in KeptIndices
  BY <1>1, <1>2 DEF Pruned, KeptIndices, Kept
<1>4. ~(Rank(i) <= Overflow)
  BY <1>1, <1>2, <1>3 DEF Pruned
<1>5. Rank(i) > Overflow
  BY <1>3, <1>4, RankIsPosition, SMTT(30)
<1> QED
  BY <1>2, <1>3, <1>5, KeptStaysListed

\* What is left of the list is a list again.
LEMMA PrunedListing ==
  ASSUME Listing
  PROVE  \E n \in Nat : PrunedTerminal = [i \in 1..n |-> PrunedTerminal[i]]
<1> DEFINE n == Cardinality(KeptIndices) - Overflow
<1>1. Overflow \in Nat /\ Cardinality(KeptIndices) \in Nat
  BY RankIsPosition
<1>2. n \in Nat
  BY <1>1, SMTT(30) DEF Overflow
<1> HIDE DEF n
<1>3. PrunedTerminal = [i \in 1..n |-> PrunedTerminal[i]]
  BY SMTT(30) DEF PrunedTerminal, KeptAfter, n
<1> QED
  BY <1>2, <1>3

\* Appending an id to the list.
LEMMA AppendListing ==
  ASSUME Listing, NEW id
  PROVE  /\ \E n \in Nat : Append(terminal, id) = [i \in 1..n |-> Append(terminal, id)[i]]
         /\ \E i \in DOMAIN Append(terminal, id) : Append(terminal, id)[i] = id
         /\ \A i \in DOMAIN terminal : /\ i \in DOMAIN Append(terminal, id)
                                       /\ Append(terminal, id)[i] = terminal[i]
<1>1. PICK n \in Nat : terminal = [i \in 1..n |-> terminal[i]]
  BY DEF Listing
<1> DEFINE S == {terminal[i] : i \in 1..n} \cup {id}
<1>2. \A i \in 1..n : terminal[i] \in S
  OBVIOUS
<1> HIDE DEF S
<1>3. terminal \in [1..n -> S]
  BY <1>1, <1>2
<1>4. terminal \in Seq(S) /\ Len(terminal) = n
  BY <1>3, SMTT(30)
<1>5. id \in S
  BY DEF S
<1>6. /\ Append(terminal, id) \in Seq(S) /\ Len(Append(terminal, id)) = n + 1
      /\ Append(terminal, id)[n + 1] = id
      /\ \A i \in 1..n : Append(terminal, id)[i] = terminal[i]
  BY <1>4, <1>5, SMTT(30)
<1>7. DOMAIN Append(terminal, id) = 1..(n + 1) /\ DOMAIN terminal = 1..n
  BY <1>3, <1>6, SMTT(30)
<1>8. Append(terminal, id) = [i \in 1..(n + 1) |-> Append(terminal, id)[i]]
  <2>1. \A f \in Seq(S) : f = [i \in 1..Len(f) |-> f[i]]
    BY SMTT(30)
  <2> QED
    BY <1>6, <2>1
<1> QED
  BY <1>6, <1>7, <1>8, SMTT(30)

\* The terminal list is a sequence that names every terminal row.
Listed == Listing /\ TerminalListed

\* A step that prunes, and makes no row terminal.
LEMMA PruningStep ==
  ASSUME Listed, terminal' = PrunedTerminal,
         \A id \in Ids : task'[id].status \in Finished => task'[id] = PrunedTasks[id]
  PROVE  Listed'
<1>1. Listing'
  BY PrunedListing DEF Listed, Listing
<1>2. TerminalListed'
  BY PruneKeepsListed DEF Listed, TerminalListed
<1> QED
  BY <1>1, <1>2 DEF Listed

\* A step that makes one row terminal and enters it in the list.
LEMMA EnteringStep ==
  ASSUME Listed, NEW i \in Ids, terminal' = Append(terminal, i),
         \A id \in Ids : id # i => task'[id] = task[id]
  PROVE  Listed'
<1>1. Listing'
  <2>1. PICK n \in Nat : Append(terminal, i) = [k \in 1..n |-> Append(terminal, i)[k]]
    BY AppendListing DEF Listed
  <2> QED
    BY Zenon, <2>1 DEF Listing
<1>2. TerminalListed'
  <2> SUFFICES ASSUME NEW id \in Ids, task'[id].status \in Finished
               PROVE  \E k \in DOMAIN terminal' : terminal'[k] = id
    BY DEF TerminalListed
  <2>1. CASE id = i
    BY <2>1, AppendListing DEF Listed
  <2>2. CASE id # i
    <3>1. PICK k \in DOMAIN terminal : terminal[k] = id
      BY <2>2 DEF Listed, TerminalListed
    <3> QED
      BY <3>1, AppendListing DEF Listed
  <2> QED
    BY <2>1, <2>2
<1> QED
  BY <1>1, <1>2 DEF Listed

\* A step that makes no row terminal and leaves the list alone.
LEMMA QuietListStep ==
  ASSUME Listed, terminal' = terminal,
         \A id \in Ids : task'[id].status \in Finished => task[id].status \in Finished
  PROVE  Listed'
BY DEF Listed, Listing, TerminalListed

\* The finalizers either leave the store alone or change the row of the one task.
LEMMA FinalizerListed ==
  ASSUME TypeOK, Listed, NEW w \in Workers, NEW id \in Ids, NEW next \in Times,
         MarkCompleted(id, w) \/ MarkFailed(id, w) \/ Reschedule(id, next, w)
  PROVE  Listed'
<1>1. CASE UNCHANGED store
  BY <1>1, QuietListStep DEF store
<1>2. CASE terminal' = Append(terminal, id) /\ \E r : task' = [task EXCEPT ![id] = r]
  BY <1>2, EnteringStep DEF TypeOK
<1>3. CASE terminal' = terminal /\ \E r : task' = [task EXCEPT ![id] = r] /\ r.status = "pending"
  BY <1>3, QuietListStep DEF TypeOK, Finished
<1>4. CASE MarkCompleted(id, w) /\ Owns(id, w)
  BY <1>2, <1>4 DEF MarkCompleted
<1>5. CASE MarkFailed(id, w) /\ Owns(id, w)
  <2>1. CASE Exhausted(task[id])
    BY <1>2, <1>5, <2>1 DEF MarkFailed
  <2>2. CASE ~Exhausted(task[id])
    <3> DEFINE r == [Released(task[id]) EXCEPT !.status = "pending"]
    <3>1. task[id] \in Task
      BY DEF TypeOK
    <3>2. r.status = "pending"
      BY <3>1 DEF Released, Task
    <3>3. task' = [task EXCEPT ![id] = r] /\ terminal' = terminal
      BY <1>5, <2>2 DEF MarkFailed, TypeOK
    <3> HIDE DEF r
    <3> QED
      BY <1>3, <3>2, <3>3
  <2> QED
    BY <2>1, <2>2
<1>6. CASE Reschedule(id, next, w) /\ Owns(id, w)
  <2>1. task[id].def \in Crons \cup {NoCron}
    BY DEF TypeOK, Task
  <2> QED
    BY <1>3, <1>6, <2>1, NewTaskType, SMTT(30) DEF Reschedule
<1>7. CASE ~Owns(id, w)
  BY <1>1, <1>7 DEF MarkCompleted, MarkFailed, Reschedule
<1> QED
  BY <1>4, <1>5, <1>6, <1>7


\* Every step keeps the terminal rows listed.
LEMMA NextListed == Inv /\ Listed /\ [Next]_vars => Listed'
<1> SUFFICES ASSUME Inv, Listed, [Next]_vars PROVE Listed'
  OBVIOUS
<1>0. TypeOK
  BY DEF Inv
<1>1. ASSUME NEW id \in Ids, NEW def \in Crons \cup {NoCron}, NEW runAt \in Times, Enqueue(id, def, runAt)
      PROVE  Listed'
  <2>1. PrunedTasks \in [Ids -> Task] /\ NewTask(def, runAt).status = "pending"
    BY <1>0, PruneKeepsLive, NewTaskType, ZenonT(60)
  <2>2. task' = PrunedTasks \/ task' = [PrunedTasks EXCEPT ![id] = NewTask(def, runAt)]
    BY <1>1 DEF Enqueue
  <2>3. \A i \in Ids : task'[i].status \in Finished => task'[i] = PrunedTasks[i]
    BY <2>1, <2>2 DEF Finished
  <2>4. terminal' = PrunedTerminal
    BY <1>1 DEF Enqueue
  <2> QED
    BY <2>3, <2>4, PruningStep
<1>2. CASE Client
  <2>1. \A def \in Crons : NextTick(def, now) \in Times
    BY <1>0, SMTT(30) DEF TypeOK
  <2>2. CASE \E id \in OneOffIds, runAt \in RunAts : EnqueueAt(id, runAt)
    BY <1>1, <2>2, SMTT(30) DEF EnqueueAt
  <2>3. CASE \E id \in CronIds, def \in Crons : EnqueueCron(id, def)
    BY <1>1, <2>1, <2>3 DEF EnqueueCron
  <2>4. ASSUME NEW id \in Ids, Cancel(id) PROVE Listed'
    <3>1. terminal' = Append(terminal, id) /\ \A i \in Ids : i # id => task'[i] = task[i]
      BY <1>0, <2>4 DEF Cancel, TypeOK
    <3> QED
      BY <3>1, EnteringStep
  <2>5. CASE \E w \in Workers, id \in Ids : RegisterHandler(w, id) \/ UnregisterHandler(w, id)
    BY <2>5, QuietListStep DEF RegisterHandler, UnregisterHandler, store
  <2>6. CASE List
    BY <2>6, PruningStep DEF List
  <2> QED
    BY <1>2, <2>2, <2>3, <2>4, <2>5, <2>6 DEF Client
<1>3. ASSUME NEW w \in Workers, NEW s \in Slots, ClaimDue(w, s) PROVE Listed'
  <2>1. PICK C : task' = [id \in Ids |-> IF id \in {c[2] : c \in C} THEN ClaimOf(PrunedTasks[id], w)
                                         ELSE PrunedTasks[id]]
    BY <1>3 DEF ClaimDue
  <2>2. \A id \in Ids : ClaimOf(PrunedTasks[id], w).status = "running"
    BY <1>0, PruneKeepsLive, ClaimedRow, SMTT(30) DEF TypeOK
  <2>3. \A id \in Ids : task'[id].status \in Finished => task'[id] = PrunedTasks[id]
    BY <2>1, <2>2 DEF Finished
  <2> QED
    BY <1>3, <2>3, PruningStep DEF ClaimDue
<1>4. ASSUME NEW w \in Workers, NEW s \in Slots, NEW c \in batch[<<w, s>>],
             \/ StartHandler(w, s, c) \/ NoHandler(w, s, c)
             \/ HandlerSucceeds(w, s, c) \/ HandlerFails(w, s, c)
      PROVE  Listed'
  <2>1. c.id \in Ids
    BY <1>0, SMTT(30) DEF TypeOK, Claimed
  <2>2. CASE StartHandler(w, s, c)
    BY <2>2, QuietListStep DEF StartHandler, store
  <2>3. CASE \/ MarkCompleted(c.id, w) \/ MarkFailed(c.id, w)
             \/ c.def # NoCron /\ (Reschedule(c.id, TickAfter(c), w) \/ Reschedule(c.id, NextTick(c.def, now), w))
    <3>1. -1 \in Times
      BY SMTT(30)
    <3> QED
      BY <1>0, <2>1, <2>3, <3>1, FinalizerListed, TicksInRange, ZenonT(60)
  <2> QED
    BY <1>4, <2>2, <2>3 DEF NoHandler, HandlerSucceeds, HandlerFails
<1>5. ASSUME NEW w \in Workers, NEW s \in Slots, Heartbeat(w, s) PROVE Listed'
  <2>1. \A id \in Ids : task[id] \in Task
    BY <1>0 DEF TypeOK
  <2>2. \A id \in Ids : task'[id] = task[id] \/ task'[id] = [task[id] EXCEPT !.claimedAt = now]
    BY <1>5 DEF Heartbeat
  <2>3. \A id \in Ids : task'[id].status = task[id].status
    BY <2>1, <2>2 DEF Task
  <2> QED
    BY <1>5, <2>3, QuietListStep DEF Heartbeat
<1>6. CASE Tick \/ UNCHANGED vars
  BY <1>6, QuietListStep DEF Tick, store, vars
<1> QED
  BY <1>2, <1>3, <1>4, <1>5, <1>6 DEF Next, Runs, Settles

\* A terminal row is on the terminal list, so pruneTerminal will reach it (scheduler.ts
\* pruneTerminal, markCompleted, markFailed, cancel).
THEOREM FinishedAreListed == Spec => []TerminalListed
<1>1. Init => Listed
  <2> SUFFICES ASSUME Init PROVE Listed
    OBVIOUS
  <2>1. \A id \in Ids : task[id].status \notin Finished
    BY DEF Init, Absent, Finished
  <2>2. terminal = [i \in 1..0 |-> terminal[i]]
    BY SMTT(30) DEF Init
  <2> QED
    BY <2>1, <2>2 DEF Listed, Listing, TerminalListed
<1>2. Listed => TerminalListed
  BY DEF Listed
<1> QED
  BY <1>1, <1>2, NextListed, SchedulerInvariant, PTL DEF Spec

\* Terminal rows are listed, and with one flush at a time a recurring row's next run is a firing
\* of the row's own definition (scheduler.ts pruneTerminal, runClaimedTask, reschedule).
THEOREM CalendarAlwaysKept == ASSUME OneFlush PROVE Spec => []CalendarKept
BY FinishedAreListed, OnScheduleAlways, PTL DEF CalendarKept

=============================================================================
