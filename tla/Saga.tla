-------------------------------- MODULE Saga --------------------------------
(***************************************************************************)
(* One persisted saga: the process that runs it, recovery workers that     *)
(* resume it when it looks abandoned, the store's row and the lease that   *)
(* keeps two drivers from working on one saga.  Every await is a step      *)
(* boundary.  Time is kept as ages; a tick is a second.                    *)
(***************************************************************************)
EXTENDS Naturals, FiniteSetsExt

CONSTANTS
  N,             \* number of steps; they are executed in order 1..N
  Compensable,   \* the steps with a compensate action
  Runner,        \* the process that called run()
  Workers,       \* SagaRecovery workers
  NoOne, Dead,   \* no lease; the lease of a process that died
  LeaseMs,       \* withLease, in ticks
  StaleAfterMs,  \* SagaRecovery's staleAfterMs, in ticks
  Pg,            \* PgSagaStore; otherwise InMemorySagaStore
  MaxMishaps,    \* bound: crashes and failing saves
  Faults         \* a subset of {"stepFails", "undoFails", "storeError"}

Steps == 1..N
Drivers == {Runner} \cup Workers
Unfinished == {"pending", "compensating"}
Terminal == {"success", "compensated", "compensation_failed"}

ASSUME SagaAssumption ==
  /\ {N, LeaseMs, StaleAfterMs} \subseteq Nat \ {0}
  /\ MaxMishaps \in Nat
  /\ Compensable \subseteq Steps
  /\ Runner \notin Workers /\ NoOne # Dead /\ {NoOne, Dead} \cap Drivers = {}
  /\ Pg \in BOOLEAN
  /\ Faults \subseteq {"stepFails", "undoFails", "storeError"}

VARIABLES
  row,      \* the saved snapshot: status, number of executed steps, compensated steps
  rowAge,   \* time since updatedAt
  claim,    \* the recovery lease: holder and age
  drv,      \* each driver: where it is, and its local executed, compensated and failed
  hb,       \* time since each driver's last heartbeat
  effect,   \* the steps whose effect is in the world
  mishaps   \* crashes and failing saves so far

vars == <<row, rowAge, claim, drv, hb, effect, mishaps>>

Away == [pc |-> "idle", exec |-> 0, comp |-> {}, failed |-> {}]
Cap == Max({LeaseMs, StaleAfterMs}) + 1

\* The pcs at which a driver's heartbeat runs.
Driving(w) == drv[w].pc \notin {"idle", "claim", "load", "gone"}

LeaseOf(w) == IF w = Runner THEN LeaseMs ELSE Max({1, StaleAfterMs})
Interval(w) == Max({1, LeaseOf(w) \div 3})

Goto(w, pc) == drv' = [drv EXCEPT ![w].pc = pc]
Leave(w) == drv' = [drv EXCEPT ![w] = IF w = Runner THEN [Away EXCEPT !.pc = "gone"] ELSE Away]

-----------------------------------------------------------------------------
(* The store                                                                 *)

Save(status, exec, comp) ==
  /\ row' = [status |-> status, exec |-> exec, comp |-> comp]
  /\ rowAge' = 0

ExpiredEarly(lease) == claim.age + 1 >= lease     \* mutant: an off-by-one in the lease check
Expired(lease) == IF Pg THEN claim.age > lease ELSE claim.age >= lease

\* store.claim succeeds.
MayClaim(w, lease) ==
  /\ Pg => row.status \in Unfinished
  /\ claim.by \in {NoOne, w} \/ Expired(lease)

\* A renewal; its outcome is ignored.
Renew(w) == claim' = IF MayClaim(w, LeaseOf(w)) THEN [by |-> w, age |-> 0] ELSE claim

-----------------------------------------------------------------------------
(* Saga.run: forward, fail, compensate                                       *)

Run ==
  /\ drv[Runner].pc = "idle"
  /\ Renew(Runner)
  /\ hb' = [hb EXCEPT ![Runner] = 0]
  /\ Goto(Runner, "create")
  /\ UNCHANGED <<row, rowAge, effect, mishaps>>

Create ==
  /\ drv[Runner].pc = "create"
  /\ Save("pending", 0, {})
  /\ Goto(Runner, "exec")
  /\ UNCHANGED <<claim, hb, effect, mishaps>>

\* The next step returns, or throws once its retries are used up; a step that throws
\* may have had its effect all the same.
Execute(w) ==
  /\ drv[w].pc = "exec" /\ drv[w].exec < N
  /\ \/ /\ effect' = effect \cup {drv[w].exec + 1}
        /\ drv' = [drv EXCEPT ![w].exec = @ + 1, ![w].pc = "saveStep"]
     \/ /\ "stepFails" \in Faults
        /\ effect' \in {effect, effect \cup {drv[w].exec + 1}}
        /\ Goto(w, "saveFail")
  /\ UNCHANGED <<row, rowAge, claim, hb, mishaps>>

SaveStep(w) ==
  /\ drv[w].pc = "saveStep"
  /\ Save("pending", drv[w].exec, {})
  /\ Goto(w, "exec")
  /\ UNCHANGED <<claim, hb, effect, mishaps>>

SaveSuccess(w) ==
  /\ drv[w].pc = "exec" /\ drv[w].exec = N
  /\ Save("success", N, {})
  /\ Goto(w, "delete")
  /\ UNCHANGED <<claim, hb, effect, mishaps>>

Delete(w) ==
  /\ drv[w].pc = "delete"
  /\ row' = [row EXCEPT !.status = "deleted"]
  /\ claim' = [by |-> NoOne, age |-> 0]
  /\ Leave(w)
  /\ UNCHANGED <<rowAge, hb, effect, mishaps>>

SaveCompensating(w) ==
  /\ drv[w].pc = "saveFail"
  /\ Save("compensating", drv[w].exec, drv[w].comp)
  /\ Goto(w, "comp")
  /\ UNCHANGED <<claim, hb, effect, mishaps>>

UndoEveryStep(w) ==                 \* mutant: steps without a compensate action are not skipped
  {i \in Steps : i <= drv[w].exec /\ i \notin drv[w].comp \cup drv[w].failed}

\* The steps compensate still has to visit, the last executed first.
ToUndo(w) == {i \in Compensable : i <= drv[w].exec /\ i \notin drv[w].comp \cup drv[w].failed}

FirstToUndo(w) == Min(ToUndo(w))    \* mutant: compensation in execution order
NextToUndo(w) == Max(ToUndo(w))

Compensate(w) ==
  /\ drv[w].pc = "comp" /\ ToUndo(w) # {}
  /\ LET i == NextToUndo(w) IN
       \/ /\ effect' = effect \ {i}
          /\ drv' = [drv EXCEPT ![w].comp = @ \cup {i}, ![w].pc = "saveComp"]
       \/ /\ "undoFails" \in Faults
          /\ drv' = [drv EXCEPT ![w].failed = @ \cup {i}]
          /\ UNCHANGED effect
  /\ UNCHANGED <<row, rowAge, claim, hb, mishaps>>

SaveCompensated(w) ==
  /\ drv[w].pc = "saveComp"
  /\ Save("compensating", drv[w].exec, drv[w].comp)
  /\ Goto(w, "comp")
  /\ UNCHANGED <<claim, hb, effect, mishaps>>

AlwaysCompensated(w) == "compensated"      \* mutant: failed compensations are forgotten
Verdict(w) == IF drv[w].failed = {} THEN "compensated" ELSE "compensation_failed"

SaveVerdict(w) ==
  /\ drv[w].pc = "comp" /\ ToUndo(w) = {}
  /\ Save(Verdict(w), drv[w].exec, drv[w].comp)
  /\ Leave(w)
  /\ UNCHANGED <<claim, hb, effect, mishaps>>

\* A failing save sends a step to compensation, is only logged after an undo, and
\* otherwise ends the run with an error, as a failing claim or load ends the recovery.
StoreFails(w) ==
  /\ "storeError" \in Faults
  /\ mishaps < MaxMishaps /\ mishaps' = mishaps + 1
  /\ \/ drv[w].pc = "saveStep" /\ Goto(w, "saveFail")
     \/ drv[w].pc = "saveComp" /\ Goto(w, "comp")
     \/ drv[w].pc \in {"create", "claim", "load", "saveFail", "delete"} /\ Leave(w)
     \/ drv[w].pc = "exec" /\ drv[w].exec = N /\ Leave(w)
     \/ drv[w].pc = "comp" /\ ToUndo(w) = {} /\ Leave(w)
  /\ UNCHANGED <<row, rowAge, claim, hb, effect>>

Heartbeat(w) ==
  /\ Driving(w) /\ hb[w] = Interval(w)
  /\ Renew(w)
  /\ hb' = [hb EXCEPT ![w] = 0]
  /\ UNCHANGED <<row, rowAge, drv, effect, mishaps>>

-----------------------------------------------------------------------------
(* SagaRecovery                                                              *)

ListsOnlyPending(w) ==              \* mutant: sagas in compensation are not listed
  /\ drv[w].pc = "idle"
  /\ row.status = "pending" /\ rowAge >= StaleAfterMs
  /\ Goto(w, "claim")
  /\ UNCHANGED <<row, rowAge, claim, hb, effect, mishaps>>

\* recoverOnce lists the saga: unfinished and not updated for staleAfterMs.
List(w) ==
  /\ drv[w].pc = "idle"
  /\ row.status \in Unfinished /\ rowAge >= StaleAfterMs
  /\ Goto(w, "claim")
  /\ UNCHANGED <<row, rowAge, claim, hb, effect, mishaps>>

TakeClaim(w) ==
  /\ drv[w].pc = "claim"
  /\ IF MayClaim(w, StaleAfterMs)
     THEN claim' = [by |-> w, age |-> 0] /\ Goto(w, "load")
     ELSE UNCHANGED claim /\ Leave(w)
  /\ UNCHANGED <<row, rowAge, hb, effect, mishaps>>

ResumesForward(w) ==                \* mutant: resume always goes forward
  [pc |-> "exec", exec |-> row.exec, comp |-> row.comp, failed |-> {}]

ForgetsUndone(w) ==                 \* mutant: the snapshot's compensated list is not passed on
  [pc |-> IF row.status = "compensating" THEN "saveFail" ELSE "exec",
   exec |-> row.exec, comp |-> {}, failed |-> {}]

Resumed(w) ==
  [pc |-> IF row.status = "compensating" THEN "saveFail" ELSE "exec",
   exec |-> row.exec, comp |-> row.comp, failed |-> {}]

\* Saga.resume loads the row again; a saga that has finished meanwhile is left alone.
Resume(w) ==
  /\ drv[w].pc = "load"
  /\ hb' = [hb EXCEPT ![w] = 0]
  /\ IF row.status \in Unfinished
     THEN drv' = [drv EXCEPT ![w] = Resumed(w)]
     ELSE Leave(w)
  /\ IF row.status = "deleted" THEN UNCHANGED claim ELSE Renew(w)
  /\ UNCHANGED <<row, rowAge, effect, mishaps>>

-----------------------------------------------------------------------------
(* The environment                                                           *)

Older(age) == Min({age + 1, Cap})

\* Timers fire on time: time does not pass a heartbeat that is due.  Nor does a tick
\* pass between a successful claim and the load that follows it.
Tick ==
  /\ \A w \in Drivers : drv[w].pc # "load" /\ (Driving(w) => hb[w] < Interval(w))
  /\ rowAge' = Older(rowAge)
  /\ claim' = [claim EXCEPT !.age = Older(@)]
  /\ hb' = [w \in Drivers |-> IF Driving(w) THEN hb[w] + 1 ELSE 0]
  /\ <<rowAge, claim, hb>>' # <<rowAge, claim, hb>>
  /\ UNCHANGED <<row, drv, effect, mishaps>>

Crash(w) ==
  /\ mishaps < MaxMishaps /\ mishaps' = mishaps + 1
  /\ drv[w].pc \notin {"idle", "gone"}
  /\ Leave(w)
  /\ claim' = IF claim.by = w THEN [claim EXCEPT !.by = Dead] ELSE claim
  /\ hb' = [hb EXCEPT ![w] = 0]
  /\ UNCHANGED <<row, rowAge, effect>>

Init ==
  /\ row = [status |-> "none", exec |-> 0, comp |-> {}]
  /\ rowAge = 0
  /\ claim = [by |-> NoOne, age |-> 0]
  /\ drv = [w \in Drivers |-> Away]
  /\ hb = [w \in Drivers |-> 0]
  /\ effect = {}
  /\ mishaps = 0

Drives(w) ==
  \/ Execute(w) \/ SaveStep(w) \/ SaveSuccess(w) \/ Delete(w) \/ SaveCompensating(w)
  \/ Compensate(w) \/ SaveCompensated(w) \/ SaveVerdict(w)

Recovers(w) == List(w) \/ TakeClaim(w) \/ Resume(w)

Next ==
  \/ Run \/ Create
  \/ \E w \in Drivers : Drives(w) \/ StoreFails(w) \/ Heartbeat(w) \/ Crash(w)
  \/ \E w \in Workers : Recovers(w)
  \/ Tick

\* A driver goes on until it is done, recovery workers keep polling, time passes.
Fairness ==
  /\ WF_vars(Create)
  /\ \A w \in Drivers : WF_vars(Drives(w)) /\ WF_vars(Heartbeat(w))
  /\ \A w \in Workers : WF_vars(Recovers(w))
  /\ WF_vars(Tick)

Spec == Init /\ [][Next]_vars
FairSpec == Spec /\ Fairness

-----------------------------------------------------------------------------
(* Properties.                                                               *)

\* Every variable has its type; a snapshot lists as compensated only steps that it
\* lists as executed and that have a compensate action.
TypeOK ==
  /\ row.status \in {"none", "deleted"} \cup Unfinished \cup Terminal
  /\ row.exec \in 0..N
  /\ row.comp \subseteq Compensable \cap 1..row.exec
  /\ rowAge \in 0..Cap
  /\ claim.by \in Drivers \cup {NoOne, Dead} /\ claim.age \in 0..Cap
  /\ \A w \in Drivers : hb[w] \in 0..Interval(w)
  /\ effect \subseteq Steps

\* A recovery worker never resumes a saga that is still being driven: at most one
\* driver is past its claim.
PastClaim(w) == Driving(w) \/ drv[w].pc = "load"
OneDriver == \A v, w \in Drivers : PastClaim(v) /\ PastClaim(w) => v = w

\* All or nothing: a deleted saga had every effect; a compensated one has none left
\* that could be undone, but for the step that failed and was never recorded.
AllOrNothing ==
  /\ row.status = "deleted" => effect = Steps
  /\ row.status = "compensated" => effect \cap Compensable \subseteq {row.exec + 1}

\* A step is undone only after every later step that was executed, whichever driver
\* undoes them and wherever it crashed.
UndoInReverse ==
  [][\A w \in Drivers, i \in Steps :
       i \in drv[w]'.comp /\ i \notin drv[w].comp /\ drv[w].pc = "comp"
         => \A j \in Compensable : i < j /\ j <= drv[w].exec => j \notin effect \/ j \in drv[w].failed]_vars

\* An undo that was saved is neither forgotten nor run again, whoever resumes a saga
\* that crashed in the middle of compensation.
SavedUndoStays ==
  [][/\ row.comp \subseteq row'.comp
     /\ \A w \in Drivers : drv[w].pc = "comp" /\ drv[w]'.pc = "saveComp"
          => (drv[w]'.comp \ drv[w].comp) \cap row.comp = {}]_vars

\* Once a saga is compensating, no driver executes a step of it any more.
NoWayBack ==
  [][row.status \notin {"none", "pending"} => effect' \subseteq effect]_vars

\* A saga undoes its steps in reverse order, an undo that was saved stays, and a finished saga
\* does not start again, whoever drives it.
SagaStepsBack == UndoInReverse /\ SavedUndoStays /\ NoWayBack

\* A saga that was saved is eventually finished by its process or by a recovery worker.
EventuallyFinished == row.status \in Unfinished ~> row.status \notin Unfinished

=============================================================================
