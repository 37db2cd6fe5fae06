------------------------------ MODULE Workflow ------------------------------
(***************************************************************************)
(* Durable execution of one workflow by WorkflowEngine: its history in the *)
(* event store, runs that replay the history and go on from there, the     *)
(* per-process queue of runs, the cross-process WorkflowLock, and the      *)
(* scheduler timers behind ctx.sleep and the timeouts of ctx.waitForSignal.*)
(*                                                                         *)
(* The workflow function is a straight line of ctx calls, Program; the     *)
(* position of a call stands for its name or ordinal.  The history is kept *)
(* folded, as buildReplayState reads it.  A run passes the calls its       *)
(* replay answers in one step: nothing else happens between them.          *)
(***************************************************************************)
EXTENDS Naturals, Sequences

CONSTANTS
  Program,         \* a sequence of "step", "sleep", "wait" and "timedWait"
  Replicas,        \* processes with an engine and a scheduler
  NoReplica,
  Ghost,           \* the owner id of a process that died
  UsesLock,        \* opts.lock is given
  CatchesTimeout,  \* the function catches WorkflowSignalTimeout and goes on
  MaxSignals,      \* bound: signals sent
  MaxQueue,        \* bound: runs queued in one process when resume or start is called
  MaxCrashes,      \* bound: crashes of processes
  Faults           \* a subset of {"stepFails", "storeError"}

Positions == 1..Len(Program)
Waits == {i \in Positions : Program[i] \in {"wait", "timedWait"}}
NoTimer == 0
None == 0
Timeout == MaxSignals + 1      \* outcomes of a wait: None, a signal, Timeout

ASSUME WorkflowAssumption ==
  /\ Program \in Seq({"step", "sleep", "wait", "timedWait"})
  /\ {UsesLock, CatchesTimeout} \subseteq BOOLEAN
  /\ {MaxSignals, MaxQueue, MaxCrashes} \subseteq Nat
  /\ NoReplica \notin Replicas /\ Ghost \notin Replicas /\ NoReplica # Ghost
  /\ Faults \subseteq {"stepFails", "storeError"}

VARIABLES
  hist,      \* the folded history
  run,       \* the run of each replica
  queue,     \* executionQueues: the runs asked for, each with the timer it serves
  lock,      \* the holder of the workflow's lock
  timer,     \* the scheduler task of each sleep and each timed wait
  returned,  \* what each wait has returned to the function, over all runs
  crashes    \* crashes so far

vars == <<hist, run, queue, lock, timer, returned, crashes>>

Final == {"completed", "failed", "cancelled"}
NoHist == [status |-> "none", ended |-> {}, steps |-> {}, sleepStarted |-> {}, sleepDone |-> {},
           signals |-> 0, consumed |-> [i \in Waits |-> None], timedOut |-> {}, armed |-> {}]
Idle == [pc |-> "idle", pos |-> 0, seen |-> NoHist]
NoTask == [at |-> "none", by |-> NoReplica, record |-> FALSE]

\* Appending an event that carries a status; the last one counts on replay.
Appended(h, status) ==
  [h EXCEPT !.status = status, !.ended = @ \cup ({status} \cap Final)]

-----------------------------------------------------------------------------
(* Replay                                                                    *)

Claimed(h) == {h.consumed[i] : i \in Waits}

\* The oldest signal no wait has claimed, or None.
NewestUnclaimed(h) ==              \* mutant: the last signal received is handed out first
  LET free == (1..h.signals) \ Claimed(h)
  IN  IF free = {} THEN None ELSE CHOOSE s \in free : \A t \in free : s >= t
OldestUnclaimed(h) ==
  LET free == (1..h.signals) \ Claimed(h)
  IN  IF free = {} THEN None ELSE CHOOSE s \in free : \A t \in free : s <= t

TimeoutOrSignal(h, i) ==            \* mutant: a recorded timeout hides a recorded consumption
  IF i \in h.timedOut THEN Timeout ELSE h.consumed[i]

\* What the replay answers to the wait at i.
Outcome(h, i) ==
  IF h.consumed[i] = None /\ i \in h.timedOut THEN Timeout ELSE h.consumed[i]

StepsForgotten(h, i) ==             \* mutant: recorded results are not looked up
  CASE Program[i] = "step"  -> FALSE
    [] Program[i] = "sleep" -> i \in h.sleepDone
    [] OTHER -> Outcome(h, i) # None /\ (Outcome(h, i) = Timeout => CatchesTimeout)

\* The call at i returns from the replay.
Answered(h, i) ==
  CASE Program[i] = "step"  -> i \in h.steps
    [] Program[i] = "sleep" -> i \in h.sleepDone
    [] OTHER -> Outcome(h, i) # None /\ (Outcome(h, i) = Timeout => CatchesTimeout)

\* The first call the replay does not answer, or the end of the function.
Reached(h) ==
  CHOOSE i \in 1..(Len(Program) + 1) :
     /\ \A j \in 1..(i - 1) : Answered(h, j)
     /\ i \in Positions => ~Answered(h, i)

ArmsEveryWait(h, i) ==              \* mutant: a timer is set for a wait without timeoutMs
  IF i \notin Positions THEN "complete"
  ELSE CASE Program[i] = "step"  -> "body"
         [] Program[i] = "sleep" -> IF i \in h.sleepStarted THEN "suspend" ELSE "setSleep"
         [] OTHER -> IF Outcome(h, i) = Timeout THEN "fail"
                     ELSE IF OldestUnclaimed(h) # None THEN "consume"
                     ELSE IF i \notin h.armed THEN "setTimeout" ELSE "suspend"

\* What the run does at the unanswered call at i.
Upcoming(h, i) ==
  IF i \notin Positions THEN "complete"
  ELSE CASE Program[i] = "step"  -> "body"
         [] Program[i] = "sleep" -> IF i \in h.sleepStarted THEN "suspend" ELSE "setSleep"
         [] OTHER -> IF Outcome(h, i) = Timeout THEN "fail"
                     ELSE IF OldestUnclaimed(h) # None THEN "consume"
                     ELSE IF Program[i] = "timedWait" /\ i \notin h.armed THEN "setTimeout"
                     ELSE "suspend"

\* The run of p goes on from the call at Reached(h), after the waits on the way
\* have returned their outcomes.
Continue(p, h) ==
  LET i == Reached(h) IN
  /\ returned' = [j \in Waits |->
       returned[j] \cup (IF j <= i /\ Outcome(h, j) # None THEN {Outcome(h, j)} ELSE {})]
  /\ run' = [run EXCEPT ![p] = [pos |-> i, seen |-> h, pc |-> Upcoming(h, i)]]

GotoPc(p, pc) == run' = [run EXCEPT ![p].pc = pc]

-----------------------------------------------------------------------------
(* The engine's operations                                                   *)

Ask(p, t) == queue' = [queue EXCEPT ![p] = Append(@, t)]

\* start: appends workflow.started and runs; with a known id it only runs.
Start(p) ==
  /\ Len(queue[p]) < MaxQueue
  /\ hist' = IF hist.status = "none" THEN [hist EXCEPT !.status = "running"] ELSE hist
  /\ Ask(p, NoTimer)
  /\ UNCHANGED <<run, lock, timer, returned, crashes>>

Signal(p) ==
  /\ hist.status # "none" /\ hist.signals < MaxSignals
  /\ hist' = [hist EXCEPT !.signals = @ + 1]
  /\ Ask(p, NoTimer)
  /\ UNCHANGED <<run, lock, timer, returned, crashes>>

Cancel ==
  /\ hist.status # "none" /\ "cancelled" \notin hist.ended
  /\ hist' = Appended(hist, "cancelled")
  /\ UNCHANGED <<run, queue, lock, timer, returned, crashes>>

\* onWakeup: reads the history, then records the sleep's end or the timeout,
\* then asks for a run.  The scheduler's task ends with that run.
WakeRead(p, t) ==
  /\ timer[t].at = "set"
  /\ timer' = [timer EXCEPT ![t] =
       [at |-> "read", by |-> p,
        record |-> /\ hist.ended = {}
                   /\ t \notin hist.sleepDone \cup hist.timedOut
                   /\ t \in Waits => hist.consumed[t] = None]]
  /\ UNCHANGED <<hist, run, queue, lock, returned, crashes>>

WakeRecordsOnly(p, t) ==            \* mutant: the outcome is recorded and nothing resumed
  /\ timer[t].at = "read" /\ timer[t].by = p
  /\ hist' = IF ~timer[t].record THEN hist
             ELSE IF t \in Waits THEN [hist EXCEPT !.timedOut = @ \cup {t}]
                                 ELSE [hist EXCEPT !.sleepDone = @ \cup {t}]
  /\ timer' = [timer EXCEPT ![t].at = "done"]
  /\ UNCHANGED <<run, queue, lock, returned, crashes>>

WakeAppend(p, t) ==
  /\ timer[t].at = "read" /\ timer[t].by = p
  /\ hist' = IF ~timer[t].record THEN hist
             ELSE IF t \in Waits THEN [hist EXCEPT !.timedOut = @ \cup {t}]
                                 ELSE [hist EXCEPT !.sleepDone = @ \cup {t}]
  /\ timer' = [timer EXCEPT ![t].at = "queued"]
  /\ Ask(p, t)
  /\ UNCHANGED <<run, lock, returned, crashes>>

\* The handler swallows an error of its read or of its append: the task counts as done.
WakeFails(p, t) ==
  /\ "storeError" \in Faults
  /\ \/ timer[t].at = "set"
     \/ timer[t].at = "read" /\ timer[t].by = p /\ timer[t].record
  /\ timer' = [timer EXCEPT ![t].at = "done"]
  /\ UNCHANGED <<hist, run, queue, lock, returned, crashes>>

-----------------------------------------------------------------------------
(* A run                                                                     *)

\* The run at the head of the queue is over, and with it the task it served.
EndRun(p) ==
  /\ queue' = [queue EXCEPT ![p] = Tail(@)]
  /\ timer' = [t \in Positions |->
       IF Head(queue[p]) = t THEN [timer[t] EXCEPT !.at = "done"] ELSE timer[t]]

LockIgnored(p) == TRUE              \* mutant: acquire always succeeds
LockFree(p) == UsesLock => lock \in {NoReplica, p}

Acquire(p) ==
  /\ queue[p] # <<>> /\ run[p].pc = "idle"
  /\ LockFree(p)
  /\ lock' = IF UsesLock THEN p ELSE lock
  /\ GotoPc(p, "read")
  /\ UNCHANGED <<hist, queue, timer, returned, crashes>>

\* A run that cannot take the lease reports "suspended" without replaying.
LockBusy(p) ==
  /\ queue[p] # <<>> /\ run[p].pc = "idle"
  /\ ~LockFree(p)
  /\ EndRun(p)
  /\ UNCHANGED <<hist, run, lock, returned, crashes>>

Read(p) ==
  /\ run[p].pc = "read"
  /\ IF hist.status \in Final THEN GotoPc(p, "release") /\ UNCHANGED returned
                              ELSE Continue(p, hist)
  /\ UNCHANGED <<hist, queue, lock, timer, crashes>>

\* The body of a step returns or throws.
Body(p) ==
  /\ run[p].pc = "body"
  /\ \/ GotoPc(p, "step")
     \/ "stepFails" \in Faults /\ GotoPc(p, "fail")
  /\ UNCHANGED <<hist, queue, lock, timer, returned, crashes>>

\* One event is appended to the history, and to what the run has seen.
AppendStep(p) ==
  /\ run[p].pc = "step"
  /\ hist' = [hist EXCEPT !.steps = @ \cup {run[p].pos}]
  /\ Continue(p, [run[p].seen EXCEPT !.steps = @ \cup {run[p].pos}])
  /\ UNCHANGED <<queue, lock, timer, crashes>>

AppendConsumed(p) ==
  LET s == OldestUnclaimed(run[p].seen) IN
  /\ run[p].pc = "consume"
  /\ hist' = [hist EXCEPT !.consumed[run[p].pos] = s]
  /\ Continue(p, [run[p].seen EXCEPT !.consumed[run[p].pos] = s])
  /\ UNCHANGED <<queue, lock, timer, crashes>>

\* The timer's id is that of the call: setting it again changes nothing.
SetTimer(p) ==
  /\ run[p].pc \in {"setSleep", "setTimeout"}
  /\ timer' = [timer EXCEPT ![run[p].pos] = IF @.at = "none" THEN [@ EXCEPT !.at = "set"] ELSE @]
  /\ GotoPc(p, IF run[p].pc = "setSleep" THEN "sleep" ELSE "arm")
  /\ UNCHANGED <<hist, queue, lock, returned, crashes>>

AppendTimer(p) ==
  /\ run[p].pc \in {"sleep", "arm"}
  /\ hist' = IF run[p].pc = "sleep" THEN [hist EXCEPT !.sleepStarted = @ \cup {run[p].pos}]
                                    ELSE [hist EXCEPT !.armed = @ \cup {run[p].pos}]
  /\ GotoPc(p, "suspend")
  /\ UNCHANGED <<queue, lock, timer, returned, crashes>>

\* The run ends by suspending, completing or failing the workflow.
AppendVerdict(p) ==
  /\ run[p].pc \in {"suspend", "complete", "fail"}
  /\ hist' = Appended(hist, CASE run[p].pc = "suspend" -> "suspended"
                              [] run[p].pc = "complete" -> "completed"
                              [] OTHER -> "failed")
  /\ GotoPc(p, "release")
  /\ UNCHANGED <<queue, lock, timer, returned, crashes>>

\* An error of the event store or of the scheduler inside the function fails the
\* workflow; one of the read before it or of the verdict after it only ends the run.
StoreFails(p) ==
  /\ "storeError" \in Faults
  /\ \/ /\ run[p].pc \in {"step", "consume", "setSleep", "setTimeout", "sleep", "arm", "complete"}
        /\ GotoPc(p, "fail")
     \/ run[p].pc \in {"read", "suspend", "fail"} /\ GotoPc(p, "release")
  /\ UNCHANGED <<hist, queue, lock, timer, returned, crashes>>

Release(p) ==
  /\ run[p].pc = "release"
  /\ lock' = IF lock = p THEN NoReplica ELSE lock
  /\ run' = [run EXCEPT ![p] = Idle]
  /\ EndRun(p)
  /\ UNCHANGED <<hist, returned, crashes>>

-----------------------------------------------------------------------------
(* The environment                                                           *)

\* lockLeaseMs passes after a crash; the heartbeat of a live run keeps its lease.
LockLapses ==
  /\ lock = Ghost
  /\ lock' = NoReplica
  /\ UNCHANGED <<hist, run, queue, timer, returned, crashes>>

\* A process dies; the scheduler redelivers the tasks it was serving.
Crash(p) ==
  /\ crashes < MaxCrashes /\ crashes' = crashes + 1
  /\ queue[p] # <<>> \/ \E t \in Positions : timer[t].by = p /\ timer[t].at = "read"
  /\ run' = [run EXCEPT ![p] = Idle]
  /\ queue' = [queue EXCEPT ![p] = <<>>]
  /\ lock' = IF lock = p THEN Ghost ELSE lock
  /\ timer' = [t \in Positions |->
       IF timer[t].by = p /\ timer[t].at \in {"read", "queued"} THEN [NoTask EXCEPT !.at = "set"] ELSE timer[t]]
  /\ UNCHANGED <<hist, returned>>

Init ==
  /\ hist = NoHist
  /\ run = [p \in Replicas |-> Idle]
  /\ queue = [p \in Replicas |-> <<>>]
  /\ lock = NoReplica
  /\ timer = [t \in Positions |-> NoTask]
  /\ returned = [i \in Waits |-> {}]
  /\ crashes = 0

Runs(p) ==
  \/ Acquire(p) \/ LockBusy(p) \/ Read(p) \/ Body(p) \/ AppendStep(p) \/ AppendConsumed(p)
  \/ SetTimer(p) \/ AppendTimer(p) \/ AppendVerdict(p) \/ StoreFails(p) \/ Release(p)

Wakes(p, t) == WakeRead(p, t) \/ WakeAppend(p, t) \/ WakeFails(p, t)

Next ==
  \/ \E p \in Replicas :
       \/ Start(p) \/ Signal(p) \/ Runs(p) \/ Crash(p)
       \/ \E t \in Positions : Wakes(p, t)
  \/ Cancel
  \/ LockLapses

\* Queued runs proceed, and the scheduler runs due tasks (Scheduler!EventuallyFinished).
\* Nobody has to start, signal or cancel anything.
Fairness ==
  /\ \A p \in Replicas : WF_vars(Runs(p))
  /\ \A t \in Positions : WF_vars(\E p \in Replicas : Wakes(p, t))
  /\ WF_vars(LockLapses)

Spec == Init /\ [][Next]_vars
FairSpec == Spec /\ Fairness

-----------------------------------------------------------------------------
(* Properties.                                                               *)

\* Every variable has its type.
TypeOK ==
  /\ hist.status \in {"none", "running", "suspended"} \cup Final
  /\ hist.ended \subseteq Final
  /\ hist.signals \in 0..MaxSignals
  /\ hist.consumed \in [Waits -> 0..MaxSignals]
  /\ lock \in Replicas \cup {NoReplica, Ghost}
  /\ \A p \in Replicas : queue[p] \in Seq(Positions \cup {NoTimer})
  /\ \A t \in Positions : timer[t].at # "none" => Program[t] \in {"sleep", "timedWait"}

\* Run p executes the body of a step.
Executes(p) == run[p].pc = "body" /\ run'[p].pc \in {"step", "fail"}

\* A step whose result is recorded is not executed again, by any process: runs of one
\* workflow do not overlap, in one process (the queue) or across processes (the lock),
\* wherever a process dies or a store fails.
RecordedOnce == [][\A p \in Replicas : Executes(p) => run[p].pos \notin hist.steps]_vars

\* Every received signal is handed to at most one wait, in order of arrival.
SignalsInOrder ==
  \A i, j \in Waits :
     i < j /\ hist.consumed[i] # None /\ hist.consumed[j] # None => hist.consumed[i] < hist.consumed[j]

\* The outcome of a wait is single-valued: whatever a run saw it return, a signal or
\* a timeout, every later replay sees too, although timeouts are recorded by wake-ups
\* that do not wait for a run in progress.
WaitSingleValued == \A i \in Waits : \A a, b \in returned[i] : a = b

\* A completed or failed workflow executes and records no further step.
NothingAfterEnd ==
  [][hist.ended \cap {"completed", "failed"} # {} =>
       /\ \A p \in Replicas : ~Executes(p)
       /\ hist'.steps = hist.steps /\ hist'.consumed = hist.consumed]_vars

\* Both: no replay, crash or failing store makes the history take a step back.
HistoryGrows == RecordedOnce /\ NothingAfterEnd

\* The workflow waits for a signal that was not sent (and no timeout is running).
AwaitsSignal ==
  /\ Reached(hist) \in Waits /\ Program[Reached(hist)] = "wait"
  /\ OldestUnclaimed(hist) = None

\* A started workflow never rests except at its end or where it awaits a signal: a
\* sleep that is over, a timeout and a received signal always wake it.
Started == hist.status # "none"
AtRest == hist.ended # {} \/ AwaitsSignal
NeverStuck == Started ~> AtRest

=============================================================================
