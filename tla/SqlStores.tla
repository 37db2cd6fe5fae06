----------------------------- MODULE SqlStores -----------------------------
(***************************************************************************)
(* The statements of the stores that keep rows in a database.               *)
(*                                                                         *)
(* SqliteOutboxStore under pollers that have no claims, so that a record    *)
(* may be in the batch of two of them; each statement is atomic, a poller   *)
(* may stop between publishing and marking.                                 *)
(*                                                                         *)
(* PgScheduledTaskStore under Scheduler workers on several replicas: leases *)
(* run out by the clock of the database, a worker may be late or crash, and *)
(* what it records afterwards is fenced by claimed_by and the status.       *)
(***************************************************************************)
EXTENDS Integers, FiniteSets, FiniteSetsExt

CONSTANTS
  Records, Partition,     \* records in the order (created_at, id); 0 is no partition
  Pollers, BatchLimit, MaxRelays,
  MaxSends,               \* bound: publish attempts
  OneOffs, Crons,         \* task ids
  Workers,
  Limit,                  \* batchSize
  MaxAttempts,            \* max_attempts
  MaxTime,                \* bound: the clock
  MaxExpiries             \* bound: leases that run out

VARIABLES
  stored,    \* the table of the outbox
  batch,     \* what each poller has listed and not yet sent
  sending,   \* the record each poller is publishing, 0 if none, and whether it was sent
  sends,
  sent,      \* history: records that reached the broker
  final      \* history: the first final status of each record

VARIABLES
  now,
  row,       \* the table of the tasks
  held,      \* tasks of the batch each worker runs
  expiries,
  ended,     \* history: the outcome of each one-off task: the first recorded, or a cancel
  runs       \* history: handlers of each task that succeeded under a current claim

sqliteVars == <<stored, batch, sending, sends, sent, final>>
taskVars == <<now, row, held, expiries, ended, runs>>

-----------------------------------------------------------------------------
(* SqliteOutboxStore                                                         *)

Idle == [id |-> 0, ok |-> FALSE]

SqliteInit ==
  /\ stored = [r \in Records |-> [status |-> "absent", attempts |-> 0]]
  /\ batch = [p \in Pollers |-> {}] /\ sending = [p \in Pollers |-> Idle]
  /\ sends = 0 /\ sent = {} /\ final = [r \in Records |-> "none"]

\* save: INSERT OR IGNORE, in the caller's transaction or its own.
Save(r) ==
  /\ stored' = [stored EXCEPT ![r] = IF @.status = "absent" THEN [status |-> "pending", attempts |-> 0] ELSE @]
  /\ stored' # stored
  /\ UNCHANGED <<batch, sending, sends, sent, final>>

\* listPending: not behind a failed record of the same partition, oldest first.
IgnoreFailed(r) == stored[r].status = "pending"      \* mutant: the NOT EXISTS is missing
Listed(r) ==
  /\ stored[r].status = "pending"
  /\ Partition[r] = 0 \/ ~\E f \in Records : Partition[f] = Partition[r] /\ stored[f].status = "failed" /\ f < r

ListPending(p) ==
  LET all == {r \in Records : Listed(r)}
      first == {r \in all : Cardinality({q \in all : q < r}) < BatchLimit}
  IN  /\ batch[p] = {} /\ sending[p] = Idle /\ all # {}
      /\ batch' = [batch EXCEPT ![p] = first]
      /\ UNCHANGED <<stored, sending, sends, sent, final>>

\* The relay sends the records without a partition first.
Publish(p) ==
  LET free == {q \in batch[p] : Partition[q] = 0}
      r == Min(IF free # {} THEN free ELSE batch[p])
  IN  /\ batch[p] # {} /\ sending[p] = Idle /\ sends < MaxSends /\ sends' = sends + 1
      /\ batch' = [batch EXCEPT ![p] = @ \ {r}]
      /\ \E ok \in BOOLEAN : /\ sending' = [sending EXCEPT ![p] = [id |-> r, ok |-> ok]]
                             /\ sent' = IF ok THEN sent \cup {r} ELSE sent
      /\ UNCHANGED <<stored, final>>

Settled(r) == final' = [final EXCEPT ![r] = IF @ = "none" /\ stored'[r].status # "pending" THEN stored'[r].status ELSE @]

\* Both marks touch pending rows only; a mark that finds none is reported as not owned.
MarkPublished(p) ==
  LET r == sending[p].id
  IN  /\ r # 0 /\ sending[p].ok /\ sending' = [sending EXCEPT ![p] = Idle]
      /\ stored' = IF stored[r].status = "pending" THEN [stored EXCEPT ![r].status = "published"] ELSE stored
      /\ Settled(r) /\ UNCHANGED <<batch, sends, sent>>

FailedRecord(r) ==
  [stored[r] EXCEPT !.attempts = @ + 1, !.status = IF stored[r].attempts + 1 >= MaxRelays THEN "failed" ELSE "pending"]
Halted(p) ==     \* the relay leaves the rest of a partition for the next batch
  {q \in batch[p] : Partition[q] = 0 \/ Partition[q] # Partition[sending[p].id]}
MarkFailed(p) ==
  LET r == sending[p].id
  IN  /\ r # 0 /\ ~sending[p].ok /\ sending' = [sending EXCEPT ![p] = Idle]
      /\ stored' = IF stored[r].status = "pending" THEN [stored EXCEPT ![r] = FailedRecord(r)] ELSE stored
      /\ batch' = [batch EXCEPT ![p] = Halted(p)]
      /\ Settled(r) /\ UNCHANGED <<sends, sent>>

PollerStops(p) ==
  /\ sending[p] # Idle \/ batch[p] # {}
  /\ sending' = [sending EXCEPT ![p] = Idle] /\ batch' = [batch EXCEPT ![p] = {}]
  /\ UNCHANGED <<stored, sends, sent, final>>

SqliteNext == (\E r \in Records : Save(r))
        \/ \E p \in Pollers : ListPending(p) \/ Publish(p) \/ MarkPublished(p) \/ MarkFailed(p) \/ PollerStops(p)


-----------------------------------------------------------------------------
\* A record is marked published only after it reached the broker, and a final status stays,
\* with two pollers racing on the same record (markPublished, markFailed).
SqliteFinal ==
  \A r \in Records : /\ stored[r].status = "published" => r \in sent
                     /\ final[r] # "none" => stored[r].status = final[r]

\* No listing ever offers a record behind a parked one of its partition (listPending).
SqliteBlocks ==
  [][\A p \in Pollers : \A r \in batch'[p] \ batch[p] :
       Partition[r] # 0 => ~\E f \in Records : f < r /\ Partition[f] = Partition[r] /\ stored[f].status = "failed"]_sqliteVars

-----------------------------------------------------------------------------
(* PgScheduledTaskStore                                                      *)

Tasks == OneOffs \cup Crons
None == "none"

Absent == [status |-> "absent", runAt |-> 0, attempts |-> 0, by |-> None, fresh |-> FALSE, spec |-> 0]

TasksInit ==
  /\ now = 0 /\ row = [t \in Tasks |-> Absent]
  /\ held = [w \in Workers |-> {}] /\ expiries = 0
  /\ ended = [t \in Tasks |-> None] /\ runs = [t \in Tasks |-> 0]

-----------------------------------------------------------------------------
\* enqueue: an existing one-off is left alone, a cron is replaced when its expression changed;
\* its first tick is after now.
Enqueue(t, at, spec) ==
  /\ IF t \in OneOffs THEN spec = 0 ELSE at = now + 1
  /\ row[t].status # "absent" => t \in Crons /\ spec > row[t].spec
  /\ row' = [row EXCEPT ![t] = [Absent EXCEPT !.status = "pending", !.runAt = at, !.spec = spec]]
  /\ UNCHANGED <<now, held, expiries, ended, runs>>

\* claimDue: pending, or running past its lease; the earliest first; SKIP LOCKED makes it one step.
AnyDue(t) == row[t].runAt <= now /\ row[t].status \in {"pending", "running"}   \* mutant: the lease is not looked at
Claimable(t) ==
  /\ row[t].runAt <= now
  /\ row[t].status = "pending" \/ (row[t].status = "running" /\ ~row[t].fresh)

Handed(S) ==
  LET due == {t \in Tasks : Claimable(t)}
  IN  /\ S \subseteq due /\ Cardinality(S) = Min({Limit, Cardinality(due)})
      /\ \A t \in S, u \in due \ S : row[t].runAt <= row[u].runAt

ClaimDue(w) ==
  /\ held[w] = {}      \* flushOnce waits for its batch
  /\ \E S \in SUBSET Tasks \ {{}} :
       /\ Handed(S)
       /\ row' = [t \in Tasks |-> IF t \in S THEN [row[t] EXCEPT !.status = "running", !.by = w, !.fresh = TRUE] ELSE row[t]]
       /\ held' = [held EXCEPT ![w] = S]
  /\ UNCHANGED <<now, expiries, ended, runs>>

\* The fence of markCompleted, markFailed, reschedule and extendLease.
OnlyClaimant(w, t) == row[t].by = w     \* mutant: the status is not compared
Owns(w, t) == row[t].by = w /\ row[t].status = "running"

Settle(w, t, new) ==
  /\ row' = IF Owns(w, t) THEN [row EXCEPT ![t] = new] ELSE row
  /\ held' = [held EXCEPT ![w] = @ \ {t}]
  /\ ended' = IF Owns(w, t) /\ new.status \in {"completed", "failed"} /\ t \in OneOffs /\ ended[t] = None
              THEN [ended EXCEPT ![t] = new.status] ELSE ended

Completed(t) == [row[t] EXCEPT !.status = "completed"]
Rescheduled(t, at) == [row[t] EXCEPT !.status = "pending", !.runAt = at, !.attempts = 0, !.by = None, !.fresh = FALSE]
Failed(t) ==
  [row[t] EXCEPT !.attempts = @ + 1, !.by = None, !.fresh = FALSE,
                 !.status = IF row[t].attempts + 1 >= MaxAttempts THEN "failed" ELSE "pending"]

HandlerSucceeds(w, t) ==
  /\ t \in held[w]
  /\ Settle(w, t, IF t \in Crons THEN Rescheduled(t, now + 1) ELSE Completed(t))
  /\ runs' = IF Owns(w, t) THEN [runs EXCEPT ![t] = @ + 1] ELSE runs
  /\ UNCHANGED <<now, expiries>>

HandlerFails(w, t) ==
  /\ t \in held[w]
  /\ Settle(w, t, IF t \in Crons /\ row[t].attempts + 1 >= MaxAttempts THEN Rescheduled(t, now + 1) ELSE Failed(t))
  /\ UNCHANGED <<now, expiries, runs>>

ExtendLease(w) ==
  /\ row' = [t \in Tasks |-> IF t \in held[w] /\ Owns(w, t) THEN [row[t] EXCEPT !.fresh = TRUE] ELSE row[t]]
  /\ row' # row
  /\ UNCHANGED <<now, held, expiries, ended, runs>>

\* cancel: not fenced.
Cancel(t) ==
  /\ row[t].status \notin {"absent", "cancelled"}
  /\ row' = [row EXCEPT ![t].status = "cancelled"]
  /\ ended' = IF t \in OneOffs THEN [ended EXCEPT ![t] = "cancelled"] ELSE ended
  /\ UNCHANGED <<now, held, expiries, runs>>

\* The lease of a worker that is late with its heartbeat, and a crash of a worker.
LeaseExpires(t) ==
  /\ row[t].status = "running" /\ row[t].fresh /\ expiries < MaxExpiries
  /\ row' = [row EXCEPT ![t].fresh = FALSE] /\ expiries' = expiries + 1
  /\ UNCHANGED <<now, held, ended, runs>>
Crash(w) ==
  /\ held[w] # {}
  /\ held' = [held EXCEPT ![w] = {}]
  /\ UNCHANGED <<now, row, expiries, ended, runs>>
Tick == now < MaxTime /\ now' = now + 1 /\ UNCHANGED <<row, held, expiries, ended, runs>>

TasksNext ==
  \/ Tick
  \/ \E t \in Tasks : Cancel(t) \/ LeaseExpires(t) \/ \E at \in {now, now + 1}, spec \in 0..1 : Enqueue(t, at, spec)
  \/ \E w \in Workers : ClaimDue(w) \/ ExtendLease(w) \/ Crash(w)
  \/ \E w \in Workers, t \in Tasks : HandlerSucceeds(w, t) \/ HandlerFails(w, t)


-----------------------------------------------------------------------------
\* A one-off task has one outcome: a worker whose lease was taken over, or whose task was
\* cancelled meanwhile, records nothing (the fence of markCompleted and markFailed), and only
\* an operator's cancel replaces a recorded outcome.
OutcomeStands ==
  \A t \in OneOffs : ended[t] # None => row[t].status = ended[t] /\ runs[t] <= 1

\* Two workers run the same task under live claims only after a lease ran out: the number of
\* holders beyond the first is at most the number of expired leases and, for a cron, of new
\* expressions enqueued over a running task (claimDue, enqueue).
LeasesExclude ==
  \A t \in Tasks :
    Cardinality({w \in Workers : t \in held[w] /\ row[t].status = "running"}) <= 1 + expiries + row[t].spec
=============================================================================
