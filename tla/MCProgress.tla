----------------------------- MODULE MCProgress -----------------------------
(***************************************************************************)
(* The engines that finish work they have accepted, with the faults they    *)
(* are to survive: each behaviour is one of them, chosen at the start.  The *)
(* saga is the module extended here.                                        *)
(***************************************************************************)
EXTENDS Saga, Sequences, TLC

VARIABLES
  engine,
  sNow, sTask, sDue, sTerminal, sHandlers, sBatch,
  fHist, fRun, fQueue, fLock, fTimer, fReturned, fCrashes

sVars == <<sNow, sTask, sDue, sTerminal, sHandlers, sBatch>>
fVars == <<fHist, fRun, fQueue, fLock, fTimer, fReturned, fCrashes>>
allVars == <<engine, vars, sVars, fVars>>

-----------------------------------------------------------------------------
(* The instances                                                             *)

NoTick(c, t) == -1
Sched == INSTANCE Scheduler WITH
  OneOffIds <- {"once"}, CronIds <- {}, Crons <- {}, NoCron <- "no cron", Workers <- {"w1", "w2"},
  NoWorker <- "no worker", Slots <- {1}, BatchSize <- 1, Concurrency <- 1, ClaimTtl <- 1, MaxAttempts <- 2,
  Retention <- 0, MaxTerminal <- 1, MaxTime <- 2, RunAts <- {1}, MaxTick <- 2, MaxEntries <- 1,
  MaxTerminalLen <- 2, NextTick <- NoTick,
  now <- sNow, task <- sTask, due <- sDue, terminal <- sTerminal, handlers <- sHandlers, batch <- sBatch

Flow == INSTANCE Workflow WITH
  Program <- <<"step", "timedWait", "sleep", "wait", "step">>, Replicas <- {"p1"},
  NoReplica <- "no replica", Ghost <- "ghost", UsesLock <- FALSE, CatchesTimeout <- TRUE, MaxSignals <- 2,
  MaxQueue <- 2, MaxCrashes <- 0, Faults <- {"stepFails"},
  hist <- fHist, run <- fRun, queue <- fQueue, lock <- fLock, timer <- fTimer, returned <- fReturned,
  crashes <- fCrashes

\* The same workflow on two replicas that share a lock and of which one may die.
Team == INSTANCE Workflow WITH
  Program <- <<"step", "timedWait", "step">>, Replicas <- {"p1", "p2"},
  NoReplica <- "no replica", Ghost <- "ghost", UsesLock <- TRUE, CatchesTimeout <- TRUE, MaxSignals <- 1,
  MaxQueue <- 1, MaxCrashes <- 1, Faults <- {"stepFails"},
  hist <- fHist, run <- fRun, queue <- fQueue, lock <- fLock, timer <- fTimer, returned <- fReturned,
  crashes <- fCrashes

-----------------------------------------------------------------------------
MCInit ==
  /\ engine \in {"saga", "scheduler", "workflow", "replicas"}
  /\ Init /\ Sched!Init /\ IF engine = "replicas" THEN Team!Init ELSE Flow!Init

MCNext ==
  /\ UNCHANGED engine
  /\ \/ /\ engine = "saga" /\ Next
        /\ UNCHANGED <<sVars, fVars>>
     \/ /\ engine = "scheduler" /\ Sched!Next
        /\ UNCHANGED <<vars, fVars>>
     \/ /\ engine = "workflow" /\ Flow!Next
        /\ UNCHANGED <<vars, sVars>>
     \/ /\ engine = "replicas" /\ Team!Next
        /\ UNCHANGED <<vars, sVars>>

\* The fairness of each component, for the component that runs.  Nothing in the engine takes up a
\* workflow whose run a crash cut short or a busy lock turned away: on two replicas the
\* application is assumed to call start or resume again.
MCSpec ==
  /\ MCInit /\ [][MCNext]_allVars
  /\ WF_vars(engine = "saga" /\ Create) /\ WF_vars(engine = "saga" /\ Tick)
  /\ \A w \in Drivers : WF_vars(engine = "saga" /\ Drives(w)) /\ WF_vars(engine = "saga" /\ Heartbeat(w))
  /\ \A w \in Workers : WF_vars(engine = "saga" /\ Recovers(w))
  /\ WF_sVars(engine = "scheduler" /\ Sched!Tick)
  /\ \A w \in {"w1", "w2"} : /\ WF_sVars(engine = "scheduler" /\ Sched!ClaimDue(w, 1))
                             /\ WF_sVars(engine = "scheduler" /\ Sched!Runs(w, 1))
                             /\ WF_sVars(engine = "scheduler" /\ Sched!Settles(w, 1))
  /\ WF_fVars(engine = "workflow" /\ Flow!Runs("p1"))
  /\ \A t \in 1..5 : WF_fVars(engine = "workflow" /\ Flow!Wakes("p1", t))
  /\ \A p \in {"p1", "p2"} : /\ WF_fVars(engine = "replicas" /\ Team!Runs(p))
                             /\ WF_fVars(engine = "replicas" /\ Team!Start(p))
  /\ \A t \in 1..3 : WF_fVars(engine = "replicas" /\ \E p \in {"p1", "p2"} : Team!Wakes(p, t))
  /\ WF_fVars(engine = "replicas" /\ Team!LockLapses)

-----------------------------------------------------------------------------
\* The variables of the engines have their types: undone steps are executed steps that can be
\* undone, only sleeps and timed waits have timers, heap entries name scheduled tasks.
EnginesTyped ==
  /\ TypeOK /\ Sched!TypeOK
  /\ engine = "workflow" => Flow!TypeOK
  /\ engine = "replicas" => Team!TypeOK

\* Accepted work is finished.  Sagas and one-off tasks end although steps, handlers and the
\* processes that drive them fail or die (EventuallyFinished of Saga and of Scheduler).  A
\* workflow ends or awaits a signal: in one process by itself, on replicas that share a lock and
\* of which one dies as long as it is asked for again (NeverStuck of Workflow).
Accepted ==
  \/ engine = "saga" /\ row.status \in Unfinished
  \/ engine = "scheduler" /\ Sched!Unfinished("once")
  \/ engine = "workflow" /\ Flow!Started
  \/ engine = "replicas" /\ Team!Started
Ended ==
  \/ engine = "saga" /\ row.status \notin Unfinished
  \/ engine = "scheduler" /\ sTask["once"].status \notin Sched!Live
  \/ engine = "workflow" /\ Flow!AtRest
  \/ engine = "replicas" /\ Team!AtRest
WorkIsFinished == Accepted ~> Ended

======================================================================================
