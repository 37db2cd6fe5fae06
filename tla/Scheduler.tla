------------------------------ MODULE Scheduler ------------------------------
(***************************************************************************)
(* The task scheduler of src/src/common/scheduler.ts: Scheduler instances  *)
(* (the workers) that share one InMemoryScheduledTaskStore.  A worker      *)
(* claims the due tasks under a lease, runs their handlers, and records    *)
(* each outcome through a finalizer that is fenced by the worker's id.     *)
(*                                                                         *)
(* The store keeps a map of tasks, a heap of (runAt, id) entries that may  *)
(* be stale or duplicated, and the list of tasks that reached a terminal   *)
(* status, which pruneTerminal walks.  Every store method runs without an  *)
(* await, so each is one atomic step.                                      *)
(***************************************************************************)
EXTENDS Integers, Sequences, FiniteSets

CONSTANTS
  OneOffIds,        \* ids of tasks enqueued by enqueueAt and enqueueIn
  CronIds,          \* ids of tasks enqueued by enqueueCron
  Crons,            \* recurring definitions (expression, timezone, name)
  NoCron,           \* the definition of a one-off task
  Workers,          \* worker ids
  NoWorker,         \* claimedBy when it is undefined
  Slots,            \* flushes one worker may have under way at a time
  BatchSize,        \* tasks claimed by one flush
  Concurrency,      \* handlers one flush runs at a time
  ClaimTtl,         \* length of a lease, in clock units
  MaxAttempts,      \* failures before a task is marked failed
  Retention,        \* how long a terminal task is kept
  MaxTerminal,      \* how many terminal tasks are kept
  MaxTime,          \* bound: the last clock value
  RunAts,           \* bound: the times one-off tasks are enqueued for
  MaxTick,          \* bound: the latest time a task can be scheduled for
  MaxEntries,       \* bound: heap entries of a task beyond which it is not enqueued
  MaxTerminalLen,   \* bound: length of the terminal list beyond which cancel is not called
  NextTick(_, _)    \* nextCronTick: the next firing of a definition after a time, or -1

Ids == OneOffIds \cup CronIds
Times == -1..MaxTick
Entries == Times \X Ids
Flushes == Workers \X Slots

ASSUME SchedulerAssumption ==
  /\ OneOffIds \cap CronIds = {}
  /\ NoCron \notin Crons
  /\ NoWorker \notin Workers
  /\ BatchSize \in Nat \ {0} /\ Concurrency \in Nat \ {0}
  /\ ClaimTtl \in Nat \ {0} /\ MaxAttempts \in Nat \ {0}
  /\ Retention \in Nat /\ MaxTerminal \in Nat
  /\ MaxTime \in Nat /\ MaxTick \in Nat /\ MaxTime <= MaxTick
  /\ RunAts \subseteq 0..MaxTick
  /\ MaxEntries \in Nat /\ MaxTerminalLen \in Nat
  /\ \A c \in Crons, t \in Times : /\ NextTick(c, t) \in Times
                                   /\ NextTick(c, t) # -1 => NextTick(c, t) > t

VARIABLES
  now,        \* Date.now()
  task,       \* the store's map; status "absent" for an id it does not hold
  due,        \* the heap, as the number of copies of each (runAt, id) entry
  terminal,   \* ids in the order in which their tasks became terminal
  handlers,   \* names each worker has a handler for (a task's name is its id)
  batch       \* the tasks each flush has claimed and not finalized, as claimed

store == <<task, due, terminal>>
vars == <<now, task, due, terminal, handlers, batch>>

Finished == {"completed", "failed", "cancelled"}
Live == {"pending", "running"}

Task == [status : {"absent"} \cup Live \cup Finished, def : Crons \cup {NoCron},
         runAt : Times, attempts : 0..MaxAttempts, claimedAt : 0..MaxTime,
         claimedBy : Workers \cup {NoWorker}, completedAt : 0..MaxTime]

Claimed == [id : Ids, def : Crons \cup {NoCron}, runAt : Times,
            attempts : 0..MaxAttempts, phase : {"claimed", "running"}]

Absent == [status |-> "absent", def |-> NoCron, runAt |-> 0, attempts |-> 0,
           claimedAt |-> 0, claimedBy |-> NoWorker, completedAt |-> 0]

NewTask(def, runAt) == [Absent EXCEPT !.status = "pending", !.def = def, !.runAt = runAt]

-----------------------------------------------------------------------------
(* The store: pruneTerminal, which enqueue, claimDue and list call first.   *)

\* A terminal entry survives the walk: its task is terminal and not expired.
Expired(id) == now - task[id].completedAt > Retention
Kept(id) == task[id].status \in Finished /\ ~Expired(id)

KeptIndices == {i \in DOMAIN terminal : Kept(terminal[i])}
Rank(i) == Cardinality({k \in KeptIndices : k <= i})     \* 1 for the oldest kept entry
Overflow == IF Cardinality(KeptIndices) > MaxTerminal
            THEN Cardinality(KeptIndices) - MaxTerminal ELSE 0

PrunedAnyStatus ==                  \* mutant: the walk does not look at the task's status
  {terminal[i] : i \in {j \in DOMAIN terminal : Expired(terminal[j])}}

\* What the walk deletes from the map: expired terminal tasks, then the oldest
\* surviving entries beyond the cap.
Pruned ==
  {terminal[i] : i \in {j \in DOMAIN terminal :
                          task[terminal[j]].status \in Finished /\ Expired(terminal[j])}}
  \cup {terminal[i] : i \in {j \in KeptIndices : Rank(j) <= Overflow}}

PrunedTasks == [id \in Ids |-> IF id \in Pruned THEN Absent ELSE task[id]]

\* The kept entries without the n oldest ones, in their order.
KeptAfter(n) == [m \in 1..(Cardinality(KeptIndices) - n) |->
                   terminal[CHOOSE i \in KeptIndices : Rank(i) = n + m]]
PrunedTerminalOneMore ==            \* mutant: splices one entry more than it deleted
  KeptAfter(IF Overflow > 0 THEN Overflow + 1 ELSE 0)
PrunedTerminal == KeptAfter(Overflow)

Pushed(heap, runAt, id) == [heap EXCEPT ![<<runAt, id>>] = @ + 1]

\* Cron ids are deterministic: re-registering the same definition is a no-op, a
\* changed one replaces the task, whatever its status.
Enqueue(id, def, runAt) ==
  LET t == PrunedTasks IN
  /\ terminal' = PrunedTerminal
  /\ IF t[id].status = "absent" \/ (def # NoCron /\ t[id].def # def)
     THEN /\ due[<<runAt, id>>] < MaxEntries
          /\ task' = [t EXCEPT ![id] = NewTask(def, runAt)]
          /\ due' = Pushed(due, runAt, id)
     ELSE /\ task' = t
          /\ UNCHANGED due
  /\ UNCHANGED <<now, handlers, batch>>

EnqueueAt(id, runAt) == Enqueue(id, NoCron, runAt)
EnqueueCron(id, def) == Enqueue(id, def, NextTick(def, now))

List ==
  /\ task' = PrunedTasks
  /\ terminal' = PrunedTerminal
  /\ UNCHANGED <<now, due, handlers, batch>>

\* Unconditional, and entered in the terminal list at every call.
Cancel(id) ==
  /\ task[id].status # "absent"
  /\ Len(terminal) < MaxTerminalLen
  /\ task' = [task EXCEPT ![id].status = "cancelled", ![id].completedAt = now]
  /\ terminal' = Append(terminal, id)
  /\ UNCHANGED <<now, due, handlers, batch>>

-----------------------------------------------------------------------------
(* The store: claimDue.  The loop pops entries in runAt order until it has   *)
(* claimed BatchSize tasks or nothing is due.  Entries of running tasks,     *)
(* those just claimed included, are pushed back; stale ones are lost.        *)

Valid(t, e) == t[e[2]].status # "absent" /\ t[e[2]].runAt = e[1]

LeaseIgnored(r) == r.status = "running"                  \* mutant: any running task can be reclaimed
LeaseExpired(r) == r.status = "running" /\ now - r.claimedAt >= ClaimTtl

DueEntriesEarly == {e \in Entries : due[e] > 0 /\ e[1] <= now + 1}   \* mutant: off by one
DueEntries == {e \in Entries : due[e] > 0 /\ e[1] <= now}
Claimable(t) == {e \in DueEntries : /\ Valid(t, e)
                                    /\ t[e[2]].status = "pending" \/ LeaseExpired(t[e[2]])}
StaleOrRunning(t) ==                \* mutant: the entry of a task under a live lease is not pushed back
  {e \in DueEntries : ~Valid(t, e) \/ t[e[2]].status \in Finished \cup {"running"}}
Stale(t) == {e \in DueEntries : ~Valid(t, e) \/ t[e[2]].status \in Finished}

\* The entries a batch can consist of: as many as fit, the earliest first.
Batches(t) ==
  {C \in SUBSET Claimable(t) :
     /\ Cardinality(C) <= BatchSize
     /\ Cardinality(C) < BatchSize => C = Claimable(t)
     /\ \A c \in C, d \in Claimable(t) \ C : c[1] <= d[1]}

\* How many copies of each stale entry the loop may pop on its way to batch C.
\* Entries due at the same time as the last claimed one come in any order.
Drops(t, C) ==
  {d \in [Stale(t) -> UNION {0..due[e] : e \in Stale(t)}] :
     \A e \in Stale(t) :
        /\ d[e] <= due[e]
        /\ (Cardinality(C) < BatchSize \/ \E c \in C : e[1] < c[1]) => d[e] = due[e]
        /\ (Cardinality(C) = BatchSize /\ \A c \in C : e[1] > c[1]) => d[e] = 0}

ClaimOf(r, w) == [r EXCEPT !.status = "running", !.claimedAt = now, !.claimedBy = w]

Snapshot(t, id) == [id |-> id, def |-> t[id].def, runAt |-> t[id].runAt,
                    attempts |-> t[id].attempts, phase |-> "claimed"]

\* flushOnce, up to its first handler: claim a batch.
ClaimDue(w, s) ==
  LET t == PrunedTasks IN
  /\ batch[<<w, s>>] = {}
  /\ \E C \in Batches(t) :
       LET ids == {c[2] : c \in C} IN
       /\ \E drop \in Drops(t, C) :
            due' = [e \in Entries |-> IF e \in Stale(t) THEN due[e] - drop[e] ELSE due[e]]
       /\ task' = [id \in Ids |-> IF id \in ids THEN ClaimOf(t[id], w) ELSE t[id]]
       /\ batch' = [batch EXCEPT ![<<w, s>>] = {Snapshot(t, id) : id \in ids}]
  /\ terminal' = PrunedTerminal
  /\ UNCHANGED <<now, handlers>>

-----------------------------------------------------------------------------
(* The store: the fenced finalizers and the lease heartbeat.                 *)

\* Only the worker that still holds the running claim may finalize.
OwnsAnyStatus(id, w) == task[id].claimedBy = w           \* mutant: fence without the status
OwnsAnyWorker(id, w) == task[id].status = "running"      \* mutant: fence without the worker
Owns(id, w) == task[id].status = "running" /\ task[id].claimedBy = w

MarkCompleted(id, w) ==
  \/ /\ Owns(id, w)
     /\ task' = [task EXCEPT ![id].status = "completed", ![id].completedAt = now]
     /\ terminal' = Append(terminal, id)
     /\ UNCHANGED due
  \/ ~Owns(id, w) /\ UNCHANGED store

\* The task back from a failed attempt, before its new status is known.
Released(r) == [r EXCEPT !.attempts = @ + 1, !.claimedAt = 0, !.claimedBy = NoWorker]

ExhaustedLate(r) == r.attempts >= MaxAttempts            \* mutant: off by one
Exhausted(r) == r.attempts + 1 >= MaxAttempts

MarkFailed(id, w) ==
  \/ /\ Owns(id, w)
     /\ Exhausted(task[id])
     /\ task' = [task EXCEPT ![id] = [Released(@) EXCEPT !.status = "failed",
                                                         !.completedAt = now]]
     /\ terminal' = Append(terminal, id)
     /\ UNCHANGED due
  \/ /\ Owns(id, w)
     /\ ~Exhausted(task[id])
     /\ task' = [task EXCEPT ![id] = [Released(@) EXCEPT !.status = "pending"]]
     /\ due' = Pushed(due, task[id].runAt, id)
     /\ UNCHANGED terminal
  \/ ~Owns(id, w) /\ UNCHANGED store

Reschedule(id, nextRunAt, w) ==
  \/ /\ Owns(id, w)
     /\ task' = [task EXCEPT ![id] = NewTask(task[id].def, nextRunAt)]
     /\ due' = Pushed(due, nextRunAt, id)
     /\ UNCHANGED terminal
  \/ ~Owns(id, w) /\ UNCHANGED store

HeartbeatSetsExpiry(w, s) ==        \* mutant: stores the end of the lease instead of its start
  LET held == {id \in {c.id : c \in batch[<<w, s>>]} : Owns(id, w)} IN
  /\ held # {}
  /\ task' = [id \in Ids |-> IF id \in held THEN [task[id] EXCEPT !.claimedAt = now + ClaimTtl]
                             ELSE task[id]]
  /\ UNCHANGED <<now, due, terminal, handlers, batch>>

\* extendLease, from the heartbeat timer of a flush: every task of the batch.
Heartbeat(w, s) ==
  LET held == {id \in {c.id : c \in batch[<<w, s>>]} : Owns(id, w)} IN
  /\ held # {}
  /\ task' = [id \in Ids |-> IF id \in held THEN [task[id] EXCEPT !.claimedAt = now]
                             ELSE task[id]]
  /\ UNCHANGED <<now, due, terminal, handlers, batch>>

-----------------------------------------------------------------------------
(* The worker: runClaimedTask for each task of the batch, at most            *)
(* Concurrency at a time.                                                    *)

Leaves(w, s, c) == batch' = [batch EXCEPT ![<<w, s>>] = @ \ {c}]

Running(w, s) == {c \in batch[<<w, s>>] : c.phase = "running"}

StartHandler(w, s, c) ==
  /\ c.phase = "claimed"
  /\ Cardinality(Running(w, s)) < Concurrency
  /\ c.id \in handlers[w]
  /\ batch' = [batch EXCEPT ![<<w, s>>] = (@ \ {c}) \cup {[c EXCEPT !.phase = "running"]}]
  /\ UNCHANGED <<now, store, handlers>>

NoHandlerForgets(w, s, c) ==        \* mutant: returns without releasing the row
  /\ c.phase = "claimed"
  /\ Cardinality(Running(w, s)) < Concurrency
  /\ c.id \notin handlers[w]
  /\ Leaves(w, s, c)
  /\ UNCHANGED <<now, store, handlers>>

NoHandler(w, s, c) ==
  /\ c.phase = "claimed"
  /\ Cardinality(Running(w, s)) < Concurrency
  /\ c.id \notin handlers[w]
  /\ MarkFailed(c.id, w)
  /\ Leaves(w, s, c)
  /\ UNCHANGED <<now, handlers>>

\* The tick after a successful run: from the scheduled time, or from now when
\* that one has already passed.
TickAfter(c) ==
  LET next == NextTick(c.def, c.runAt)
  IN  IF next > 0 /\ next <= now THEN NextTick(c.def, now) ELSE next

HandlerSucceeds(w, s, c) ==
  /\ c.phase = "running"
  /\ IF c.def # NoCron /\ TickAfter(c) > 0
     THEN Reschedule(c.id, TickAfter(c), w)
     ELSE MarkCompleted(c.id, w)
  /\ Leaves(w, s, c)
  /\ UNCHANGED <<now, handlers>>

HandlerFails(w, s, c) ==
  /\ c.phase = "running"
  /\ IF c.def # NoCron /\ Exhausted(c) /\ NextTick(c.def, now) > 0
     THEN Reschedule(c.id, NextTick(c.def, now), w)
     ELSE MarkFailed(c.id, w)
  /\ Leaves(w, s, c)
  /\ UNCHANGED <<now, handlers>>

RegisterHandler(w, id) ==
  /\ handlers' = [handlers EXCEPT ![w] = @ \cup {id}]
  /\ UNCHANGED <<now, store, batch>>

UnregisterHandler(w, id) ==
  /\ handlers' = [handlers EXCEPT ![w] = @ \ {id}]
  /\ UNCHANGED <<now, store, batch>>

Tick ==
  /\ now < MaxTime
  /\ now' = now + 1
  /\ UNCHANGED <<store, handlers, batch>>

-----------------------------------------------------------------------------
Init ==
  /\ now = 0
  /\ task = [id \in Ids |-> Absent]
  /\ due = [e \in Entries |-> 0]
  /\ terminal = <<>>
  /\ handlers = [w \in Workers |-> {}]
  /\ batch = [f \in Flushes |-> {}]

Client ==
  \/ \E id \in OneOffIds, runAt \in RunAts : EnqueueAt(id, runAt)
  \/ \E id \in CronIds, def \in Crons : EnqueueCron(id, def)
  \/ \E id \in Ids : Cancel(id)
  \/ \E w \in Workers, id \in Ids : RegisterHandler(w, id) \/ UnregisterHandler(w, id)
  \/ List

Runs(w, s) == \E c \in batch[<<w, s>>] : StartHandler(w, s, c) \/ NoHandler(w, s, c)
Settles(w, s) == \E c \in batch[<<w, s>>] : HandlerSucceeds(w, s, c) \/ HandlerFails(w, s, c)

Next ==
  \/ Client
  \/ \E w \in Workers, s \in Slots :
       ClaimDue(w, s) \/ Runs(w, s) \/ Settles(w, s) \/ Heartbeat(w, s)
  \/ Tick

\* Fairness: the clock advances, a started worker keeps polling (its tick
\* re-arms itself after every flush), a claimed task is picked up and a handler
\* settles.  Nothing is assumed of the heartbeat: a lease may lapse under a
\* stalled handler.
Fairness ==
  /\ WF_vars(Tick)
  /\ \A w \in Workers, s \in Slots : /\ WF_vars(ClaimDue(w, s))
                                     /\ WF_vars(Runs(w, s))
                                     /\ WF_vars(Settles(w, s))

Spec == Init /\ [][Next]_vars
FairSpec == Spec /\ Fairness

-----------------------------------------------------------------------------
(* Properties.                                                               *)

\* Every variable has its type (the terminal list is only a sequence of ids).
TypeOK ==
  /\ now \in 0..MaxTime
  /\ task \in [Ids -> Task]
  /\ due \in [Entries -> Nat]
  /\ handlers \in [Workers -> SUBSET Ids]
  /\ batch \in [Flushes -> SUBSET Claimed]

\* No task is stranded: a pending or running task always has a heap entry at its
\* current runAt, so some later claimDue finds it (again), although claimDue
\* consumes entries and every other method only adds them lazily.
DueCoverage ==
  \A id \in Ids : task[id].status \in Live => due[<<task[id].runAt, id>>] > 0

\* A task in the running state is in the batch of the worker its row names: no
\* path through runClaimedTask drops a claimed task without releasing its row.
OwnerIsRunning ==
  \A id \in Ids : task[id].status = "running" =>
     \E f \in Flushes : f[1] = task[id].claimedBy /\ \E c \in batch[f] : c.id = id

\* A live task still has an attempt left, and a failed one has used them all,
\* whichever worker recorded the failures and however often it was reclaimed.
AttemptsWithinBudget ==
  \A id \in Ids : /\ task[id].status \in Live => task[id].attempts < MaxAttempts
                  /\ task[id].status = "failed" => task[id].attempts = MaxAttempts

\* Nothing runs ahead of time: a running row is due, also after its definition
\* was replaced or rescheduled under the handler.
NeverEarly ==
  \A id \in Ids : task[id].status = "running" => task[id].runAt <= now

\* A terminal row is on the terminal list, so pruneTerminal will reach it: rows
\* cannot leak past the retention limits.
TerminalListed ==
  \A id \in Ids : task[id].status \in Finished => \E i \in DOMAIN terminal : terminal[i] = id

\* A recurring row's next run is a firing of the row's own definition (or -1 for
\* one that never fires), although the finalizer computes it from the definition
\* the task had when it was claimed.
OnSchedule ==
  \A id \in CronIds : task[id].status \in Live =>
     \E t \in Times : task[id].runAt = NextTick(task[id].def, t)

\* The list of finished tasks matches the tasks, and recurring tasks fire when their
\* definition says.
CalendarKept == TerminalListed /\ OnSchedule

\* pruneTerminal never deletes a live row, although the terminal list may still
\* name a task that was since replaced, or name one twice.
LiveNeverDropped ==
  [][\A id \in Ids : task[id].status \in Live => task'[id].status # "absent"]_vars

\* A cancelled task stays cancelled until pruneTerminal deletes it or a changed
\* definition replaces it: the worker that was running it when it was cancelled
\* cannot revive it, and no worker claims it.
CancelSticks ==
  [][\A id \in Ids : task[id].status = "cancelled" =>
        \/ task'[id].status = "cancelled"
        \/ id \in Pruned
        \/ task'[id].def # task[id].def]_vars

\* Finalizers are fenced: a row under a live claim of one worker only changes its
\* claim by that worker's own flush, a replacement or a cancellation; another
\* worker can take it over only once the lease has expired.
LeaseRespected ==
  [][\A id \in Ids :
       (/\ task[id].status = "running" /\ task'[id].status = "running"
        /\ task'[id].claimedBy # task[id].claimedBy)
       => now - task[id].claimedAt >= ClaimTtl]_vars

\* What a step of a client or a worker may never do: end a cancelled task otherwise, take a
\* task whose lease is running, or drop a task that is still to run.
StepsRespectTasks == CancelSticks /\ LeaseRespected /\ LiveNeverDropped

\* A one-off task that is due within the modelled time reaches a terminal status,
\* whatever leases lapse and whichever workers lack its handler.
Unfinished(id) == task[id].status \in Live /\ task[id].runAt <= MaxTime
EventuallyFinished == \A id \in OneOffIds : Unfinished(id) ~> task[id].status \notin Live

=============================================================================
