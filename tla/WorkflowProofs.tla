--------------------------- MODULE WorkflowProofs ---------------------------
(***************************************************************************)
(* Proofs about one workflow, for any program and any number of replicas.  *)
(*                                                                         *)
(* At most one run is inside the workflow function.  What it has seen of   *)
(* the history differs from the stored history only in what arrived since  *)
(* its read: signals, timeouts, ends of sleeps and statuses.  Therefore    *)
(* what it appends continues the history, and a timeout recorded under it  *)
(* does not change what it, or a run after it, returns for a wait.         *)
(***************************************************************************)
EXTENDS Workflow, TLAPS, WellFoundedInduction

USE Zenon

\* The runs exclude each other: by the queue of a single process (executionQueues), or by the lock
\* between processes (executeUnderLock).  Two processes without a lock do replay side by side.
RunsExclude == UsesLock \/ \A p, q \in Replicas : p = q

InFunction == {"body", "step", "consume", "setSleep", "setTimeout", "sleep", "arm",
               "suspend", "complete", "fail"}
Locations == {"idle", "read", "release"} \cup InFunction

Hist == [status : {"none", "running", "suspended"} \cup Final, ended : SUBSET Final,
         steps : SUBSET Positions, sleepStarted : SUBSET Positions, sleepDone : SUBSET Positions,
         signals : 0..MaxSignals, consumed : [Waits -> 0..MaxSignals],
         timedOut : SUBSET Waits, armed : SUBSET Positions]
Run == [pc : Locations, pos : 0..(Len(Program) + 1), seen : Hist]
Task == [at : {"none", "set", "read", "queued", "done"}, by : Replicas \cup {NoReplica}, record : BOOLEAN]

\* The variables around the history and the runs.
Timed == {t \in Positions : Program[t] \in {"sleep", "timedWait"}}
QueueTyped == queue \in [Replicas -> Seq(Timed \cup {NoTimer})]
LockTyped == lock \in Replicas \cup {NoReplica, Ghost}
TimersTyped ==
  /\ timer \in [Positions -> Task]
  /\ \A t \in Positions : timer[t].at # "none" => t \in Timed
ReturnsTyped == returned \in [Waits -> SUBSET (1..Timeout)]

Typed ==
  /\ hist \in Hist
  /\ run \in [Replicas -> Run]
  /\ QueueTyped /\ LockTyped /\ TimersTyped /\ ReturnsTyped

\* A run is the first of its queue and holds the lock.
Holding ==
  \A p \in Replicas : run[p].pc # "idle" => queue[p] # <<>> /\ (UsesLock => lock = p)

\* The run stands at the first call its replay does not answer.
StandsAt(d) ==
  /\ d.pos >= 1
  /\ \A j \in 1..(d.pos - 1) : Answered(d.seen, j)
  /\ d.pos \in Positions => ~Answered(d.seen, d.pos)
  /\ d.pc \in {"body", "step"} => d.pos \in Positions /\ Program[d.pos] = "step"
  /\ d.pc \in {"setSleep", "sleep"} => d.pos \in Positions /\ Program[d.pos] = "sleep"
  /\ d.pc \in {"setTimeout", "arm"} => d.pos \in Positions /\ Program[d.pos] = "timedWait"
  /\ d.pc = "consume" => /\ d.pos \in Waits /\ Outcome(d.seen, d.pos) # Timeout
                         /\ OldestUnclaimed(d.seen) # None

\* Only events of others have reached the store since the run read it.
Behind(seen, h) ==
  /\ seen.steps = h.steps /\ seen.consumed = h.consumed
  /\ seen.signals <= h.signals
  /\ seen.sleepDone \subseteq h.sleepDone /\ seen.timedOut \subseteq h.timedOut

\* Signals were handed out from the first on, and to no wait before the calls in front of it.
InOrder(h) ==
  /\ \A i \in Waits : \A s \in 1..h.consumed[i] : \E j \in Waits : h.consumed[j] = s
  /\ \A i \in Waits : h.consumed[i] # None => \A j \in 1..(i - 1) : Answered(h, j)

\* Every outcome a wait has returned is the one in the history.
Returns(h) == \A i \in Waits : \A v \in returned[i] : v = Outcome(h, i)

RunInv ==
  \A p \in Replicas : run[p].pc \in InFunction =>
     /\ StandsAt(run[p])
     /\ Behind(run[p].seen, hist)
     /\ InOrder(run[p].seen)
     /\ Returns(run[p].seen)

Ended == hist.ended \cap {"completed", "failed"} # {}
EndInv == Ended => hist.status \in Final /\ \A p \in Replicas : run[p].pc \notin InFunction

Inv ==
  /\ Typed /\ Holding
  /\ RunInv
  /\ InOrder(hist) /\ SignalsInOrder /\ Returns(hist)
  /\ EndInv

USE WorkflowAssumption

-----------------------------------------------------------------------------
(* The operators of the replay                                               *)

LEMMA PositionFacts ==
  /\ Len(Program) \in Nat /\ Positions \subseteq Nat /\ NoTimer \notin Positions
  /\ Waits \subseteq Positions /\ MaxSignals \in Nat
  /\ \A i \in Positions : Program[i] \in {"step", "sleep", "wait", "timedWait"}
BY SMTT(30) DEF Positions, Waits, NoTimer

\* A set of naturals that is not empty has a least element.
LEMMA Least ==
  ASSUME NEW S \in SUBSET Nat, S # {}
  PROVE  \E x \in S : \A y \in S : x <= y
<1>1. PICK x \in S : \A y \in S : ~ (<<y, x>> \in OpToRel(<, Nat))
  BY NatLessThanWellFounded, WFMin
<1>2. \A y \in S : ~ (y < x)
  <2> SUFFICES ASSUME NEW y \in S, y < x PROVE FALSE
    OBVIOUS
  <2>1. <<y, x>> \in OpToRel(<, Nat)
    BY DEF OpToRel
  <2> QED
    BY <1>1, <2>1
<1> QED
  BY <1>2, SMTT(30)

LEMMA HistFields ==
  ASSUME NEW h \in Hist
  PROVE  /\ h.status \in {"none", "running", "suspended"} \cup Final /\ h.ended \subseteq Final
         /\ h.steps \subseteq Positions /\ h.sleepStarted \subseteq Positions
         /\ h.sleepDone \subseteq Positions /\ h.signals \in Nat /\ h.signals <= MaxSignals
         /\ h.consumed \in [Waits -> 0..MaxSignals] /\ h.timedOut \subseteq Waits
         /\ h.armed \subseteq Positions
BY SMTT(30) DEF Hist

\* OldestUnclaimed is the first signal no wait has, and there is one unless it is None.
LEMMA OldestFacts ==
  ASSUME NEW h \in Hist, OldestUnclaimed(h) # None
  PROVE  /\ OldestUnclaimed(h) \in 1..MaxSignals
         /\ \A i \in Waits : h.consumed[i] # OldestUnclaimed(h)
         /\ \A s \in 1..(OldestUnclaimed(h) - 1) : \E i \in Waits : h.consumed[i] = s
<1> DEFINE free == (1..h.signals) \ Claimed(h)
<1>1. free # {} /\ free \subseteq Nat
  BY HistFields, SMTT(30) DEF OldestUnclaimed
<1>2. \E s \in free : \A t \in free : s <= t
  <2> HIDE DEF free
  <2> QED
    BY <1>1, Least
<1>3. OldestUnclaimed(h) \in free /\ \A t \in free : OldestUnclaimed(h) <= t
  <2>1. OldestUnclaimed(h) = CHOOSE s \in free : \A t \in free : s <= t
    BY <1>1 DEF OldestUnclaimed
  <2> HIDE DEF free
  <2> QED
    BY <1>2, <2>1
<1>4. OldestUnclaimed(h) \in 1..h.signals /\ OldestUnclaimed(h) \notin Claimed(h)
  BY <1>3
<1>5. \A s \in 1..(OldestUnclaimed(h) - 1) : s \in Claimed(h)
  BY <1>3, <1>4, HistFields, SMTT(30)
<1> QED
  BY <1>4, <1>5, HistFields, PositionFacts, SMTT(30) DEF Claimed

\* Reached is the first call the replay does not answer, or the end of the program.
LEMMA ReachedFacts ==
  ASSUME NEW h \in Hist
  PROVE  /\ Reached(h) \in 1..(Len(Program) + 1)
         /\ \A j \in 1..(Reached(h) - 1) : Answered(h, j)
         /\ Reached(h) \in Positions => ~Answered(h, Reached(h))
<1> DEFINE P(i) == /\ \A j \in 1..(i - 1) : Answered(h, j)
                   /\ i \in Positions => ~Answered(h, i)
           open == {i \in 1..(Len(Program) + 1) : i \in Positions => ~Answered(h, i)}
<1>1. Len(Program) + 1 \in open /\ open \subseteq Nat
  BY PositionFacts, SMTT(30) DEF Positions
<1>2. PICK i \in open : \A j \in open : i <= j
  <2> HIDE DEF open
  <2> QED
    BY <1>1, Least
<1>3. i \in 1..(Len(Program) + 1) /\ P(i)
  <2> SUFFICES ASSUME NEW j \in 1..(i - 1) PROVE Answered(h, j)
    BY <1>2
  <2>1. j \in 1..(Len(Program) + 1) /\ j < i /\ j \in Positions
    BY <1>2, PositionFacts, SMTT(30) DEF Positions
  <2> QED
    BY <1>2, <2>1, SMTT(30)
<1>4. \E k \in 1..(Len(Program) + 1) : P(k)
  BY <1>3
<1>5. Reached(h) = CHOOSE k \in 1..(Len(Program) + 1) : P(k)
  BY DEF Reached
<1> HIDE DEF P
<1>6. Reached(h) \in 1..(Len(Program) + 1) /\ P(Reached(h))
  BY <1>4, <1>5
<1> QED
  BY <1>6 DEF P

\* Where a run goes on from what it has seen.
LEMMA UpcomingFacts ==
  ASSUME NEW h \in Hist, NEW d, d = [pos |-> Reached(h), seen |-> h, pc |-> Upcoming(h, Reached(h))]
  PROVE  d \in Run /\ d.pc \in InFunction /\ StandsAt(d)
<1> DEFINE i == Reached(h)
<1>1. /\ i \in 1..(Len(Program) + 1)
      /\ \A j \in 1..(i - 1) : Answered(h, j)
      /\ i \in Positions => ~Answered(h, i)
  BY ReachedFacts
<1>2. /\ d = [pos |-> i, seen |-> h, pc |-> Upcoming(h, i)]
      /\ d.pos = i /\ d.seen = h /\ d.pc = Upcoming(h, i)
  OBVIOUS
<1> HIDE DEF i
<1>3. Upcoming(h, i) \in InFunction
  BY PositionFacts DEF Upcoming, InFunction
<1>4. /\ Upcoming(h, i) \in {"body", "step"} => i \in Positions /\ Program[i] = "step"
      /\ Upcoming(h, i) \in {"setSleep", "sleep"} => i \in Positions /\ Program[i] = "sleep"
      /\ Upcoming(h, i) \in {"setTimeout", "arm"} => i \in Positions /\ Program[i] = "timedWait"
      /\ Upcoming(h, i) = "consume" => i \in Waits /\ Outcome(h, i) # Timeout /\ OldestUnclaimed(h) # None
  <2>1. CASE i \notin Positions
    BY <2>1 DEF Upcoming
  <2>2. CASE i \in Positions /\ Program[i] = "step"
    BY <2>2 DEF Upcoming
  <2>3. CASE i \in Positions /\ Program[i] = "sleep"
    BY <2>3 DEF Upcoming
  <2>4. CASE i \in Positions /\ Program[i] \in {"wait", "timedWait"}
    <3>1. i \in Waits
      BY <2>4 DEF Waits
    <3> QED
      BY <2>4, <3>1 DEF Upcoming
  <2> QED
    BY <2>1, <2>2, <2>3, <2>4, PositionFacts
<1>5. d \in Run
  <2>1. i \in 0..(Len(Program) + 1) /\ Upcoming(h, i) \in Locations
    BY <1>1, <1>3, PositionFacts, SMTT(30) DEF Locations
  <2> QED
    BY <1>2, <2>1 DEF Run
<1>6. StandsAt(d)
  BY <1>1, <1>2, <1>4, SMTT(30) DEF StandsAt
<1> QED
  BY <1>2, <1>3, <1>5, <1>6
-----------------------------------------------------------------------------
(* What later events leave as it was                                         *)

\* An outcome the run has seen is the one in the store.
LEMMA OutcomeStays ==
  ASSUME NEW h \in Hist, NEW g \in Hist, Behind(h, g), NEW i \in Waits, Outcome(h, i) # None
  PROVE  Outcome(g, i) = Outcome(h, i)
BY DEF Behind, Outcome

LEMMA AnsweredStays ==
  ASSUME NEW h \in Hist, NEW g \in Hist, Behind(h, g), NEW i \in Positions, Answered(h, i)
  PROVE  Answered(g, i)
<1>1. CASE Program[i] = "step"
  BY <1>1 DEF Answered, Behind
<1>2. CASE Program[i] = "sleep"
  BY <1>2 DEF Answered, Behind
<1>3. CASE Program[i] \in {"wait", "timedWait"}
  <2>1. i \in Waits
    BY <1>3 DEF Waits
  <2>2. Outcome(h, i) # None /\ (Outcome(h, i) = Timeout => CatchesTimeout)
    BY <1>3 DEF Answered
  <2> QED
    BY <1>3, <2>1, <2>2, OutcomeStays DEF Answered
<1> QED
  BY <1>1, <1>2, <1>3, PositionFacts

LEMMA BehindTransitive ==
  ASSUME NEW h \in Hist, NEW g \in Hist, NEW k \in Hist, Behind(h, g), Behind(g, k)
  PROVE  Behind(h, k)
BY HistFields, SMTT(30) DEF Behind

LEMMA BehindReflexive ==
  ASSUME NEW h \in Hist
  PROVE  Behind(h, h)
BY HistFields, SMTT(30) DEF Behind

LEMMA InOrderStays ==
  ASSUME NEW h \in Hist, NEW g \in Hist, Behind(h, g), InOrder(h)
  PROVE  InOrder(g)
<1>1. g.consumed = h.consumed
  BY DEF Behind
<1>2. \A i \in Waits : \A s \in 1..g.consumed[i] : \E j \in Waits : g.consumed[j] = s
  BY <1>1 DEF InOrder
<1>3. ASSUME NEW i \in Waits, g.consumed[i] # None, NEW j \in 1..(i - 1)
      PROVE  Answered(g, j)
  <2>1. Answered(h, j)
    BY <1>1, <1>3 DEF InOrder
  <2>2. j \in Positions
    BY PositionFacts, SMTT(30) DEF Positions
  <2> QED
    BY <2>1, <2>2, AnsweredStays
<1> QED
  BY <1>2, <1>3 DEF InOrder

\* Outcomes that were returned are not None, so later events leave them alone.
LEMMA ReturnsStay ==
  ASSUME NEW h \in Hist, NEW g \in Hist, Behind(h, g), Returns(h), Typed
  PROVE  Returns(g)
<1> SUFFICES ASSUME NEW i \in Waits, NEW v \in returned[i] PROVE v = Outcome(g, i)
  BY DEF Returns
<1>1. v = Outcome(h, i)
  BY DEF Returns
<1>2. v \in 1..Timeout
  BY DEF Typed, ReturnsTyped
<1>3. v # None
  BY <1>2, SMTT(30) DEF None
<1> QED
  BY <1>1, <1>3, OutcomeStays

-----------------------------------------------------------------------------
(* Kinds of steps                                                            *)

\* The run of p is the only one.
LEMMA OneRun ==
  ASSUME RunsExclude, Holding, NEW p \in Replicas, run[p].pc # "idle", NEW q \in Replicas, q # p
  PROVE  run[q].pc = "idle"
BY DEF RunsExclude, Holding

HistoryInv == InOrder(hist) /\ SignalsInOrder /\ Returns(hist)

\* A step that returns nothing, in which the history takes events of others and runs keep
\* what they have seen.
LEMMA QuietStep ==
  ASSUME Inv, hist' \in Hist, Behind(hist, hist'), returned' = returned,
         \A q \in Replicas : run'[q].pc \in InFunction =>
            run[q].pc \in InFunction /\ run'[q].seen = run[q].seen /\ StandsAt(run'[q])
  PROVE  RunInv' /\ HistoryInv'
<1>1. hist \in Hist /\ Typed
  BY DEF Inv, Typed
<1>2. InOrder(hist') /\ Returns(hist')
  BY <1>1, InOrderStays, ReturnsStay DEF Inv
<1>3. InOrder(hist)' /\ Returns(hist)'
  BY <1>2 DEF InOrder, Returns, Answered, Outcome
<1>4. SignalsInOrder'
  BY DEF Inv, SignalsInOrder, Behind
<1>5. ASSUME NEW q \in Replicas, run'[q].pc \in InFunction
      PROVE  /\ StandsAt(run'[q]) /\ Behind(run'[q].seen, hist')
             /\ InOrder(run'[q].seen) /\ Returns(run'[q].seen)
  <2>1. run[q].pc \in InFunction /\ run'[q].seen = run[q].seen /\ StandsAt(run'[q])
    BY <1>5
  <2>2. Behind(run[q].seen, hist) /\ InOrder(run[q].seen) /\ Returns(run[q].seen)
    BY <2>1 DEF Inv, RunInv
  <2>3. run[q].seen \in Hist
    BY <1>1 DEF Typed, Run
  <2>4. Behind(run[q].seen, hist')
    BY <1>1, <2>2, <2>3, BehindTransitive
  <2> QED
    BY <2>1, <2>2, <2>4
<1>6. RunInv'
  BY <1>5, SMTT(30) DEF RunInv, StandsAt, Behind, InOrder, Returns
<1> QED
  BY <1>3, <1>4, <1>6 DEF HistoryInv

Increasing(h) ==
  \A i, j \in Waits :
     i < j /\ h.consumed[i] # None /\ h.consumed[j] # None => h.consumed[i] < h.consumed[j]

\* A run goes on from the history h it now knows.
LEMMA ContinueStep ==
  ASSUME RunsExclude, Inv, NEW p \in Replicas, run[p].pc # "idle", NEW h \in Hist, Continue(p, h),
         hist' \in Hist, Behind(h, hist'), InOrder(h), Increasing(h), Returns(h)
  PROVE  /\ RunInv' /\ HistoryInv'
         /\ run' \in [Replicas -> Run] /\ returned' \in [Waits -> SUBSET (1..Timeout)]
         /\ \A q \in Replicas : q # p => run'[q] = run[q] /\ run[q].pc = "idle"
<1>1. Typed /\ Holding /\ run \in [Replicas -> Run]
  BY DEF Inv, Typed
<1> DEFINE i == Reached(h)
           d == [pos |-> i, seen |-> h, pc |-> Upcoming(h, i)]
<1>2. d \in Run /\ d.pc \in InFunction /\ StandsAt(d) /\ d.seen = h
  BY UpcomingFacts
<1>3. run' = [run EXCEPT ![p] = d]
  BY DEF Continue
<1>4. \A j \in Waits :
        returned'[j] = returned[j] \cup (IF j <= i /\ Outcome(h, j) # None THEN {Outcome(h, j)} ELSE {})
  BY DEF Continue
<1>5. returned' = [j \in Waits |->
        returned[j] \cup (IF j <= i /\ Outcome(h, j) # None THEN {Outcome(h, j)} ELSE {})]
  BY DEF Continue
<1> HIDE DEF d, i
<1>6. run' \in [Replicas -> Run] /\ run'[p] = d
  BY <1>1, <1>2, <1>3
<1>7. \A q \in Replicas : q # p => run'[q] = run[q] /\ run[q].pc = "idle"
  BY <1>1, <1>3, OneRun
<1>8. \A j \in Waits : Outcome(h, j) # None => Outcome(h, j) \in 1..Timeout
  BY HistFields, PositionFacts, SMTT(30) DEF Outcome, None, Timeout
<1>9. returned' \in [Waits -> SUBSET (1..Timeout)]
  <2>1. \A j \in Waits : returned[j] \subseteq 1..Timeout
    BY <1>1 DEF Typed, ReturnsTyped
  <2> QED
    BY <1>5, <1>8, <2>1
<1>10. \A j \in Waits : \A v \in returned'[j] : v = Outcome(h, j)
  BY <1>4 DEF Returns
<1>11. \A j \in Waits : \A v \in returned'[j] : v = Outcome(hist', j)
  <2> SUFFICES ASSUME NEW j \in Waits, NEW v \in returned'[j] PROVE v = Outcome(hist', j)
    OBVIOUS
  <2>1. v = Outcome(h, j) /\ v \in 1..Timeout
    BY <1>9, <1>10
  <2>2. v # None
    BY <2>1, SMTT(30) DEF None
  <2> QED
    BY <2>1, <2>2, OutcomeStays
<1>12. Returns(hist)'
  BY <1>11 DEF Returns, Outcome
<1>13. InOrder(hist)'
  <2>1. InOrder(hist')
    BY InOrderStays
  <2> QED
    BY <2>1 DEF InOrder, Answered, Outcome
<1>14. SignalsInOrder'
  BY DEF SignalsInOrder, Increasing, Behind
<1>15. ASSUME NEW q \in Replicas, run'[q].pc \in InFunction
       PROVE  q = p
  BY <1>7, <1>15 DEF InFunction
<1>16. RunInv'
  <2>1. /\ StandsAt(run'[p]) /\ Behind(run'[p].seen, hist') /\ InOrder(run'[p].seen)
        /\ \A j \in Waits : \A v \in returned'[j] : v = Outcome(run'[p].seen, j)
    BY <1>2, <1>6, <1>10
  <2> QED
    BY <1>15, <2>1, SMTT(30) DEF RunInv, StandsAt, Behind, InOrder, Returns, Outcome
<1> QED
  BY <1>6, <1>7, <1>9, <1>12, <1>13, <1>14, <1>16 DEF HistoryInv

\* A step that neither ends the workflow nor enters the function.
LEMMA EndKept ==
  ASSUME Inv, hist'.ended \subseteq hist.ended \cup {"cancelled"},
         Ended /\ hist.status \in Final => hist'.status \in Final,
         \A q \in Replicas : run'[q].pc \in InFunction => run[q].pc \in InFunction
  PROVE  EndInv'
<1>1. Ended' => Ended
  BY DEF Ended
<1> QED
  BY <1>1 DEF Inv, EndInv


LEMMA IdleTyped == NoHist \in Hist /\ Idle \in Run
<1>1. [i \in Waits |-> None] \in [Waits -> 0..MaxSignals]
  BY PositionFacts, SMTT(30) DEF None
<1>2. 0 \in 0..MaxSignals /\ 0 \in 0..(Len(Program) + 1)
  BY PositionFacts, SMTT(30)
<1>3. NoHist \in Hist
  BY <1>1, <1>2 DEF NoHist, Hist
<1> QED
  BY <1>2, <1>3 DEF Idle, Run, Locations

LEMMA Initial == Init => Inv
<1> SUFFICES ASSUME Init PROVE Inv
  OBVIOUS
<1>1. NoHist \in Hist /\ Idle \in Run /\ NoTask \in Task
  BY IdleTyped DEF NoTask, Task
<1>2. Typed
  <2>1. QueueTyped
    BY SMTT(30) DEF Init, QueueTyped
  <2>2. TimersTyped /\ ReturnsTyped /\ LockTyped
    BY <1>1 DEF Init, TimersTyped, ReturnsTyped, LockTyped, NoTask
  <2> QED
    BY <1>1, <2>1, <2>2 DEF Init, Typed
<1>3. \A p \in Replicas : run[p].pc = "idle"
  BY DEF Init, Idle
<1>4. Holding /\ RunInv /\ EndInv
  BY <1>3 DEF Init, Holding, RunInv, EndInv, InFunction, Ended, NoHist
<1>5. \A i \in Waits : hist.consumed[i] = None /\ returned[i] = {}
  BY DEF Init, NoHist
<1>6. InOrder(hist) /\ SignalsInOrder /\ Returns(hist)
  BY <1>5, SMTT(30) DEF InOrder, SignalsInOrder, Returns, None
<1> QED
  BY <1>2, <1>4, <1>6 DEF Inv

-----------------------------------------------------------------------------
(* Steps outside the runs                                                    *)

LEMMA AskFacts ==
  ASSUME QueueTyped, Holding, NEW p \in Replicas, NEW t \in Timed \cup {NoTimer}, Ask(p, t)
  PROVE  QueueTyped' /\ \A q \in Replicas : queue[q] # <<>> => queue'[q] # <<>>
BY SMTT(30) DEF QueueTyped, Ask

\* start, signal, cancel and the wake-ups leave the runs alone.
LEMMA OutsideStep ==
  ASSUME Inv, UNCHANGED <<run, returned, lock>>, hist' \in Hist, Behind(hist, hist'),
         hist'.ended \subseteq hist.ended \cup {"cancelled"},
         Ended /\ hist.status \in Final => hist'.status \in Final,
         QueueTyped', TimersTyped',
         \A q \in Replicas : queue[q] # <<>> => queue'[q] # <<>>
  PROVE  Inv'
<1>1. RunInv' /\ HistoryInv'
  <2>1. \A q \in Replicas : run'[q].pc \in InFunction =>
           run[q].pc \in InFunction /\ run'[q].seen = run[q].seen /\ StandsAt(run'[q])
    BY DEF Inv, RunInv
  <2> QED
    BY <2>1, QuietStep
<1>2. EndInv'
  BY EndKept
<1>3. Typed'
  BY DEF Inv, Typed, LockTyped, ReturnsTyped
<1>4. Holding'
  BY DEF Inv, Holding
<1> QED
  BY <1>1, <1>2, <1>3, <1>4 DEF Inv, HistoryInv

LEMMA StartKeeps ==
  ASSUME Inv, NEW p \in Replicas, Start(p)
  PROVE  Inv'
<1>1. hist \in Hist /\ Holding /\ QueueTyped /\ TimersTyped
  BY DEF Inv, Typed
<1>2. hist' \in Hist /\ Behind(hist, hist') /\ hist'.ended = hist.ended
  <2>1. CASE hist' = hist
    BY <1>1, <2>1, BehindReflexive
  <2>2. CASE hist' = [hist EXCEPT !.status = "running"]
    <3>1. hist' \in Hist
      BY <1>1, <2>2 DEF Hist
    <3>2. /\ hist'.steps = hist.steps /\ hist'.consumed = hist.consumed /\ hist'.signals = hist.signals
          /\ hist'.sleepDone = hist.sleepDone /\ hist'.timedOut = hist.timedOut /\ hist'.ended = hist.ended
      BY <1>1, <2>2 DEF Hist
    <3> QED
      BY <1>1, <3>1, <3>2, HistFields, SMTT(30) DEF Behind
  <2> QED
    BY <2>1, <2>2 DEF Start
<1>3. hist.status \in Final => hist'.status \in Final
  BY DEF Start, Final
<1>4. QueueTyped' /\ \A q \in Replicas : queue[q] # <<>> => queue'[q] # <<>>
  BY <1>1, AskFacts DEF Start
<1>5. TimersTyped'
  BY <1>1 DEF Start, TimersTyped
<1> QED
  BY <1>2, <1>3, <1>4, <1>5, OutsideStep DEF Start

LEMMA SignalKeeps ==
  ASSUME Inv, NEW p \in Replicas, Signal(p)
  PROVE  Inv'
<1>1. hist \in Hist /\ Holding /\ QueueTyped /\ TimersTyped
  BY DEF Inv, Typed
<1>2. hist.signals + 1 \in 0..MaxSignals
  BY <1>1, HistFields, PositionFacts, SMTT(30) DEF Signal
<1>3. hist' = [hist EXCEPT !.signals = @ + 1]
  BY DEF Signal
<1>4. hist' \in Hist /\ Behind(hist, hist') /\ hist'.ended = hist.ended /\ hist'.status = hist.status
  <2>1. hist' \in Hist
    BY <1>1, <1>2, <1>3 DEF Hist
  <2>2. /\ hist'.steps = hist.steps /\ hist'.consumed = hist.consumed /\ hist'.signals = hist.signals + 1
        /\ hist'.sleepDone = hist.sleepDone /\ hist'.timedOut = hist.timedOut
        /\ hist'.ended = hist.ended /\ hist'.status = hist.status
    BY <1>1, <1>3 DEF Hist
  <2> QED
    BY <1>1, <2>1, <2>2, HistFields, SMTT(30) DEF Behind
<1>5. QueueTyped' /\ \A q \in Replicas : queue[q] # <<>> => queue'[q] # <<>>
  BY <1>1, AskFacts DEF Signal
<1>6. TimersTyped'
  BY <1>1 DEF Signal, TimersTyped
<1> QED
  BY <1>4, <1>5, <1>6, OutsideStep DEF Signal

\* Appending a status leaves the rest of the history alone.
LEMMA AppendedFacts ==
  ASSUME NEW h \in Hist, NEW status \in {"suspended"} \cup Final
  PROVE  /\ Appended(h, status) \in Hist /\ Behind(h, Appended(h, status))
         /\ Appended(h, status).status = status
         /\ Appended(h, status).ended = h.ended \cup ({status} \cap Final)
<1> DEFINE g == [h EXCEPT !.status = status, !.ended = @ \cup ({status} \cap Final)]
<1>1. h.ended \cup ({status} \cap Final) \in SUBSET Final
  BY HistFields
<1>2. g \in Hist
  BY <1>1 DEF Hist
<1>3. /\ g.status = status /\ g.ended = h.ended \cup ({status} \cap Final)
      /\ g.steps = h.steps /\ g.consumed = h.consumed /\ g.signals = h.signals
      /\ g.sleepDone = h.sleepDone /\ g.timedOut = h.timedOut
  BY DEF Hist
<1>4. Behind(h, g)
  BY <1>3, HistFields, SMTT(30) DEF Behind
<1> QED
  BY <1>2, <1>3, <1>4 DEF Appended

LEMMA CancelKeeps ==
  ASSUME Inv, Cancel
  PROVE  Inv'
<1>1. hist \in Hist /\ QueueTyped /\ TimersTyped
  BY DEF Inv, Typed
<1>2. "cancelled" \in Final
  BY DEF Final
<1>3. /\ hist' \in Hist /\ Behind(hist, hist') /\ hist'.status \in Final
      /\ hist'.ended \subseteq hist.ended \cup {"cancelled"}
  BY <1>1, <1>2, AppendedFacts, SMTT(30) DEF Cancel
<1>4. QueueTyped' /\ TimersTyped' /\ queue' = queue
  BY <1>1 DEF Cancel, QueueTyped, TimersTyped
<1> QED
  BY <1>3, <1>4, OutsideStep DEF Cancel


\* A step of one scheduler task.
LEMMA TaskStep ==
  ASSUME TimersTyped, NEW t \in Positions, timer[t].at # "none", NEW k \in Task,
         timer' = [timer EXCEPT ![t] = k]
  PROVE  TimersTyped'
BY DEF TimersTyped

LEMMA TaskAt ==
  ASSUME TimersTyped, NEW t \in Positions, NEW a \in {"set", "read", "queued", "done"}
  PROVE  [timer[t] EXCEPT !.at = a] \in Task
<1>1. timer[t] \in Task
  BY DEF TimersTyped
<1> QED
  BY <1>1 DEF Task

LEMMA WakeReadKeeps ==
  ASSUME Inv, NEW p \in Replicas, NEW t \in Positions, WakeRead(p, t)
  PROVE  Inv'
<1>1. hist \in Hist /\ QueueTyped /\ TimersTyped
  BY DEF Inv, Typed
<1> DEFINE r == /\ hist.ended = {}
                /\ t \notin hist.sleepDone \cup hist.timedOut
                /\ t \in Waits => hist.consumed[t] = None
           k == [at |-> "read", by |-> p, record |-> r]
<1>2. timer' = [timer EXCEPT ![t] = k] /\ timer[t].at = "set"
  BY DEF WakeRead
<1>3. k \in Task
  <2>1. r \in BOOLEAN
    OBVIOUS
  <2> HIDE DEF r
  <2> QED
    BY <2>1 DEF Task
<1> HIDE DEF k
<1>4. TimersTyped'
  BY <1>1, <1>2, <1>3, TaskStep
<1>5. Behind(hist, hist') /\ hist' = hist /\ queue' = queue
  BY <1>1, BehindReflexive DEF WakeRead
<1> QED
  BY <1>1, <1>4, <1>5, OutsideStep DEF WakeRead, QueueTyped

LEMMA WakeAppendKeeps ==
  ASSUME Inv, NEW p \in Replicas, NEW t \in Positions, WakeAppend(p, t)
  PROVE  Inv'
<1>1. hist \in Hist /\ QueueTyped /\ TimersTyped /\ Holding
  BY DEF Inv, Typed
<1>2. hist' \in Hist /\ Behind(hist, hist') /\ hist'.ended = hist.ended /\ hist'.status = hist.status
  <2>1. CASE hist' = hist
    BY <1>1, <2>1, BehindReflexive
  <2>2. CASE t \in Waits /\ hist' = [hist EXCEPT !.timedOut = @ \cup {t}]
    <3>1. hist.timedOut \cup {t} \in SUBSET Waits
      BY <1>1, <2>2, HistFields
    <3>2. hist' \in Hist
      BY <1>1, <2>2, <3>1 DEF Hist
    <3>3. /\ hist'.steps = hist.steps /\ hist'.consumed = hist.consumed /\ hist'.signals = hist.signals
          /\ hist'.sleepDone = hist.sleepDone /\ hist'.timedOut = hist.timedOut \cup {t}
          /\ hist'.ended = hist.ended /\ hist'.status = hist.status
      BY <1>1, <2>2 DEF Hist
    <3> QED
      BY <1>1, <3>2, <3>3, HistFields, SMTT(30) DEF Behind
  <2>3. CASE hist' = [hist EXCEPT !.sleepDone = @ \cup {t}]
    <3>1. hist.sleepDone \cup {t} \in SUBSET Positions
      BY <1>1, HistFields
    <3>2. hist' \in Hist
      BY <1>1, <2>3, <3>1 DEF Hist
    <3>3. /\ hist'.steps = hist.steps /\ hist'.consumed = hist.consumed /\ hist'.signals = hist.signals
          /\ hist'.sleepDone = hist.sleepDone \cup {t} /\ hist'.timedOut = hist.timedOut
          /\ hist'.ended = hist.ended /\ hist'.status = hist.status
      BY <1>1, <2>3 DEF Hist
    <3> QED
      BY <1>1, <3>2, <3>3, HistFields, SMTT(30) DEF Behind
  <2> QED
    BY <2>1, <2>2, <2>3 DEF WakeAppend
<1>3. TimersTyped'
  <2>1. timer' = [timer EXCEPT ![t] = [timer[t] EXCEPT !.at = "queued"]] /\ timer[t].at # "none"
    BY DEF WakeAppend
  <2> QED
    BY <1>1, <2>1, TaskAt, TaskStep
<1>4. QueueTyped' /\ \A q \in Replicas : queue[q] # <<>> => queue'[q] # <<>>
  <2>1. t \in Timed
    BY <1>1 DEF WakeAppend, TimersTyped
  <2> QED
    BY <1>1, <2>1, AskFacts DEF WakeAppend
<1> QED
  BY <1>2, <1>3, <1>4, OutsideStep DEF WakeAppend

LEMMA WakeFailsKeeps ==
  ASSUME Inv, NEW p \in Replicas, NEW t \in Positions, WakeFails(p, t)
  PROVE  Inv'
<1>1. hist \in Hist /\ QueueTyped /\ TimersTyped
  BY DEF Inv, Typed
<1>2. TimersTyped'
  <2>1. timer' = [timer EXCEPT ![t] = [timer[t] EXCEPT !.at = "done"]] /\ timer[t].at # "none"
    BY DEF WakeFails
  <2> QED
    BY <1>1, <2>1, TaskAt, TaskStep
<1>3. Behind(hist, hist') /\ hist' = hist /\ queue' = queue
  BY <1>1, BehindReflexive DEF WakeFails
<1> QED
  BY <1>1, <1>2, <1>3, OutsideStep DEF WakeFails, QueueTyped

LEMMA LockLapsesKeeps ==
  ASSUME Inv, LockLapses
  PROVE  Inv'
<1>1. hist \in Hist /\ Typed
  BY DEF Inv, Typed
<1>2. RunInv' /\ HistoryInv'
  <2>1. Behind(hist, hist') /\ hist' \in Hist /\ run' = run /\ returned' = returned
    BY <1>1, BehindReflexive DEF LockLapses
  <2>2. \A q \in Replicas : run'[q].pc \in InFunction =>
           run[q].pc \in InFunction /\ run'[q].seen = run[q].seen /\ StandsAt(run'[q])
    BY <2>1 DEF Inv, RunInv
  <2> QED
    BY <2>1, <2>2, QuietStep
<1>3. EndInv' /\ Holding'
  BY DEF Inv, LockLapses, EndInv, Ended, Holding
<1>4. Typed'
  BY <1>1 DEF LockLapses, Typed, QueueTyped, LockTyped, TimersTyped, ReturnsTyped
<1> QED
  BY <1>2, <1>3, <1>4 DEF Inv, HistoryInv

-----------------------------------------------------------------------------
(* Steps of a run                                                            *)

\* The run of p goes from one place to another and keeps what it has seen.
LEMMA GotoStep ==
  ASSUME Inv, NEW p \in Replicas, NEW x \in Locations \ {"idle"}, GotoPc(p, x), run[p].pc # "idle",
         x \in InFunction => run[p].pc \in InFunction /\ StandsAt([run[p] EXCEPT !.pc = x]),
         UNCHANGED <<queue, lock, returned>>, hist' \in Hist, Behind(hist, hist'), TimersTyped', EndInv'
  PROVE  Inv'
<1>1. Typed /\ Holding /\ run \in [Replicas -> Run]
  BY DEF Inv, Typed
<1>2. run' = [run EXCEPT ![p] = [run[p] EXCEPT !.pc = x]]
  BY DEF GotoPc
<1>3. run[p] \in Run
  BY <1>1
<1>4. [run[p] EXCEPT !.pc = x] \in Run
  BY <1>3 DEF Run
<1>5. run' \in [Replicas -> Run]
  BY <1>1, <1>2, <1>4
<1>6. run'[p] = [run[p] EXCEPT !.pc = x] /\ \A q \in Replicas : q # p => run'[q] = run[q]
  BY <1>1, <1>2
<1>7. run'[p].pc = x /\ run'[p].seen = run[p].seen
  BY <1>3, <1>6 DEF Run
<1>8. ASSUME NEW q \in Replicas, run'[q].pc \in InFunction
      PROVE  run[q].pc \in InFunction /\ run'[q].seen = run[q].seen /\ StandsAt(run'[q])
  <2>1. CASE q = p
    BY <1>6, <1>7, <1>8, <2>1
  <2>2. CASE q # p
    BY <1>6, <1>8, <2>2 DEF Inv, RunInv
  <2> QED
    BY <2>1, <2>2
<1>9. RunInv' /\ HistoryInv'
  BY <1>8, QuietStep
<1>10. Holding'
  BY <1>1, <1>6, <1>7 DEF Holding
<1>11. Typed'
  BY <1>1, <1>5 DEF Typed, QueueTyped, LockTyped, ReturnsTyped
<1> QED
  BY <1>9, <1>10, <1>11 DEF Inv, HistoryInv


LEMMA StandsStill ==
  ASSUME NEW d \in Run, StandsAt(d),
         NEW x \in {"fail", "suspend"} \cup (IF d.pc = "body" THEN {"step"} ELSE {})
                   \cup (IF d.pc = "setSleep" THEN {"sleep"} ELSE {})
                   \cup (IF d.pc = "setTimeout" THEN {"arm"} ELSE {})
  PROVE  StandsAt([d EXCEPT !.pc = x])
<1> DEFINE e == [d EXCEPT !.pc = x]
<1>1. e.pc = x /\ e.pos = d.pos /\ e.seen = d.seen
  BY DEF Run
<1> HIDE DEF e
<1>2. StandsAt(e)
  BY <1>1 DEF StandsAt
<1> QED
  BY <1>2 DEF e

LEMMA AcquireKeeps ==
  ASSUME RunsExclude, Inv, NEW p \in Replicas, Acquire(p)
  PROVE  Inv'
<1>1. Typed /\ Holding /\ hist \in Hist /\ run \in [Replicas -> Run]
  BY DEF Inv, Typed
<1>2. run' = [run EXCEPT ![p] = [run[p] EXCEPT !.pc = "read"]]
  BY DEF Acquire, GotoPc
<1>3. run[p] \in Run /\ "read" \in Locations
  BY <1>1 DEF Locations
<1>4. [run[p] EXCEPT !.pc = "read"] \in Run
  BY <1>3 DEF Run
<1>5. run' \in [Replicas -> Run]
  BY <1>1, <1>2, <1>4
<1>6. run'[p].pc = "read" /\ \A q \in Replicas : q # p => run'[q] = run[q]
  BY <1>1, <1>2, <1>3 DEF Run
<1>7. \A q \in Replicas : run'[q].pc \in InFunction =>
         run[q].pc \in InFunction /\ run'[q].seen = run[q].seen /\ StandsAt(run'[q])
  BY <1>6 DEF Inv, RunInv, InFunction
<1>8. hist' = hist /\ returned' = returned /\ Behind(hist, hist')
  BY <1>1, BehindReflexive DEF Acquire
<1>9. RunInv' /\ HistoryInv'
  BY <1>1, <1>7, <1>8, QuietStep
<1>10. EndInv'
  BY <1>7, <1>8, EndKept
<1>11. Holding'
  <2>1. ASSUME UsesLock PROVE lock' = p /\ \A q \in Replicas : q # p => run[q].pc = "idle"
    <3>1. lock \in {NoReplica, p} /\ lock' = p
      BY <2>1 DEF Acquire, LockFree
    <3> QED
      BY <1>1, <2>1, <3>1 DEF Holding
  <2> QED
    BY <1>1, <1>6, <2>1 DEF Holding, Acquire
<1>12. Typed'
  BY <1>1, <1>5 DEF Acquire, Typed, QueueTyped, LockTyped, TimersTyped, ReturnsTyped
<1> QED
  BY <1>9, <1>10, <1>11, <1>12 DEF Inv, HistoryInv

LEMMA EndRunFacts ==
  ASSUME Typed, NEW p \in Replicas, queue[p] # <<>>, EndRun(p)
  PROVE  QueueTyped' /\ TimersTyped' /\ \A q \in Replicas : q # p => queue'[q] = queue[q]
<1>1. queue[p] \in Seq(Timed \cup {NoTimer})
  BY DEF Typed, QueueTyped
<1>2. Tail(queue[p]) \in Seq(Timed \cup {NoTimer})
  BY <1>1, SMTT(30)
<1>3. queue' = [queue EXCEPT ![p] = Tail(queue[p])]
  BY DEF EndRun
<1>4. QueueTyped' /\ \A q \in Replicas : q # p => queue'[q] = queue[q]
  BY <1>2, <1>3 DEF Typed, QueueTyped
<1>5. TimersTyped
  BY DEF Typed
<1>6. \A t \in Positions :
         timer'[t] = timer[t] \/ (t \in Timed /\ timer'[t] = [timer[t] EXCEPT !.at = "done"])
  <2>1. Head(queue[p]) \in Timed \cup {NoTimer}
    BY <1>1, SMTT(30)
  <2> QED
    BY <2>1, PositionFacts DEF EndRun
<1>7. \A t \in Positions : timer'[t] \in Task
  BY <1>5, <1>6, TaskAt DEF TimersTyped
<1>8. timer' \in [Positions -> Task]
  BY <1>7 DEF EndRun
<1> QED
  BY <1>4, <1>5, <1>6, <1>8 DEF TimersTyped

LEMMA LockBusyKeeps ==
  ASSUME Inv, NEW p \in Replicas, LockBusy(p)
  PROVE  Inv'
<1>1. Typed /\ Holding /\ hist \in Hist
  BY DEF Inv, Typed
<1>2. QueueTyped' /\ TimersTyped' /\ \A q \in Replicas : q # p => queue'[q] = queue[q]
  BY <1>1, EndRunFacts DEF LockBusy
<1>3. UNCHANGED <<hist, run, lock, returned>> /\ run[p].pc = "idle" /\ Behind(hist, hist')
  BY <1>1, BehindReflexive DEF LockBusy
<1>4. \A q \in Replicas : run'[q].pc \in InFunction =>
         run[q].pc \in InFunction /\ run'[q].seen = run[q].seen /\ StandsAt(run'[q])
  BY <1>3 DEF Inv, RunInv
<1>5. RunInv' /\ HistoryInv'
  BY <1>1, <1>3, <1>4, QuietStep
<1>6. EndInv' /\ Holding'
  BY <1>1, <1>2, <1>3 DEF Inv, EndInv, Ended, Holding
<1>7. Typed'
  BY <1>1, <1>2, <1>3 DEF Typed, LockTyped, ReturnsTyped
<1> QED
  BY <1>5, <1>6, <1>7 DEF Inv, HistoryInv

\* The run of p is over.
LEMMA RunOver ==
  ASSUME Inv, NEW p \in Replicas, run' = [run EXCEPT ![p] = Idle], UNCHANGED <<hist, returned>>,
         QueueTyped', TimersTyped', \A q \in Replicas : q # p => queue'[q] = queue[q],
         LockTyped', \A q \in Replicas : q # p /\ lock = q => lock' = q
  PROVE  Inv'
<1>1. Typed /\ Holding /\ hist \in Hist /\ run \in [Replicas -> Run]
  BY DEF Inv, Typed
<1>2. Idle \in Run /\ Idle.pc = "idle"
  BY IdleTyped DEF Idle
<1>3. run' \in [Replicas -> Run] /\ run'[p].pc = "idle" /\ \A q \in Replicas : q # p => run'[q] = run[q]
  BY <1>1, <1>2
<1>4. \A q \in Replicas : run'[q].pc \in InFunction =>
         run[q].pc \in InFunction /\ run'[q].seen = run[q].seen /\ StandsAt(run'[q])
  BY <1>3 DEF Inv, RunInv, InFunction
<1>5. RunInv' /\ HistoryInv'
  BY <1>1, <1>4, BehindReflexive, QuietStep
<1>6. EndInv'
  BY <1>4, EndKept
<1>7. Holding'
  BY <1>1, <1>3 DEF Holding
<1>8. Typed'
  BY <1>1, <1>3 DEF Typed, ReturnsTyped
<1> QED
  BY <1>5, <1>6, <1>7, <1>8 DEF Inv, HistoryInv

LEMMA ReleaseKeeps ==
  ASSUME Inv, NEW p \in Replicas, Release(p)
  PROVE  Inv'
<1>1. Typed /\ Holding
  BY DEF Inv, Typed
<1>2. queue[p] # <<>>
  BY <1>1 DEF Release, Holding
<1>3. QueueTyped' /\ TimersTyped' /\ \A q \in Replicas : q # p => queue'[q] = queue[q]
  BY <1>1, <1>2, EndRunFacts DEF Release
<1>4. LockTyped' /\ \A q \in Replicas : q # p /\ lock = q => lock' = q
  BY <1>1 DEF Release, Typed, LockTyped
<1> QED
  BY <1>3, <1>4, RunOver DEF Release

LEMMA CrashKeeps ==
  ASSUME Inv, NEW p \in Replicas, Crash(p)
  PROVE  Inv'
<1>1. QueueTyped /\ TimersTyped /\ LockTyped
  BY DEF Inv, Typed
<1>2. QueueTyped' /\ \A q \in Replicas : q # p => queue'[q] = queue[q]
  BY <1>1, SMTT(30) DEF Crash, QueueTyped
<1>3. [NoTask EXCEPT !.at = "set"] \in Task
  BY DEF NoTask, Task
<1>4. TimersTyped'
  <2>1. \A t \in Positions :
          \/ timer'[t] = timer[t]
          \/ timer[t].at # "none" /\ timer'[t] = [NoTask EXCEPT !.at = "set"]
    BY DEF Crash
  <2>2. timer' \in [Positions -> Task]
    BY <1>1, <1>3 DEF Crash, TimersTyped
  <2> QED
    BY <1>1, <2>1, <2>2 DEF TimersTyped
<1>5. LockTyped' /\ \A q \in Replicas : q # p /\ lock = q => lock' = q
  BY <1>1 DEF Crash, LockTyped
<1> QED
  BY <1>2, <1>4, <1>5, RunOver DEF Crash

LEMMA ReadKeeps ==
  ASSUME RunsExclude, Inv, NEW p \in Replicas, Read(p)
  PROVE  Inv'
<1>1. Typed /\ Holding /\ hist \in Hist /\ TimersTyped
  BY DEF Inv, Typed
<1>2. UNCHANGED <<hist, queue, lock, timer>> /\ Behind(hist, hist') /\ run[p].pc = "read"
  BY <1>1, BehindReflexive DEF Read
<1>3. TimersTyped' /\ QueueTyped' /\ LockTyped'
  BY <1>1, <1>2 DEF Typed, TimersTyped, QueueTyped, LockTyped
<1>4. CASE hist.status \in Final
  <2>1. GotoPc(p, "release") /\ returned' = returned
    BY <1>4 DEF Read
  <2>2. "release" \in Locations \ {"idle"} /\ "release" \notin InFunction
    BY DEF Locations, InFunction
  <2>3. \A q \in Replicas : run'[q].pc \in InFunction => run[q].pc \in InFunction
    BY <1>1, <2>1, <2>2 DEF GotoPc, Typed, Run
  <2>4. EndInv'
    BY <1>2, <2>3, EndKept
  <2> QED
    BY <1>1, <1>2, <1>3, <2>1, <2>2, <2>4, GotoStep
<1>5. CASE hist.status \notin Final
  <2>1. Continue(p, hist)
    BY <1>5 DEF Read
  <2>2. InOrder(hist) /\ Increasing(hist) /\ Returns(hist)
    BY DEF Inv, SignalsInOrder, Increasing
  <2>3. /\ RunInv' /\ HistoryInv'
        /\ run' \in [Replicas -> Run] /\ returned' \in [Waits -> SUBSET (1..Timeout)]
        /\ \A q \in Replicas : q # p => run'[q] = run[q] /\ run[q].pc = "idle"
    BY <1>1, <1>2, <2>1, <2>2, ContinueStep
  <2>4. EndInv'
    BY <1>2, <1>5 DEF Inv, EndInv, Ended
  <2>5. Holding'
    BY <1>1, <1>2, <2>3 DEF Holding
  <2>6. Typed'
    BY <1>1, <1>2, <1>3, <2>3 DEF Typed, ReturnsTyped
  <2> QED
    BY <2>3, <2>4, <2>5, <2>6 DEF Inv, HistoryInv
<1> QED
  BY <1>4, <1>5


\* A run goes on inside the function, or fails, without appending what it has seen.
LEMMA GotoInside ==
  ASSUME Inv, NEW p \in Replicas, run[p].pc \in InFunction,
         NEW x \in {"fail", "suspend"} \cup (IF run[p].pc = "body" THEN {"step"} ELSE {})
                   \cup (IF run[p].pc = "setSleep" THEN {"sleep"} ELSE {})
                   \cup (IF run[p].pc = "setTimeout" THEN {"arm"} ELSE {}),
         GotoPc(p, x), UNCHANGED <<queue, lock, returned>>, hist' \in Hist, Behind(hist, hist'),
         hist'.ended = hist.ended, TimersTyped'
  PROVE  Inv'
<1>1. Typed /\ run[p] \in Run /\ StandsAt(run[p])
  BY DEF Inv, Typed, RunInv
<1>2. x \in InFunction /\ x \in Locations \ {"idle"} /\ run[p].pc # "idle"
  BY DEF InFunction, Locations
<1>3. StandsAt([run[p] EXCEPT !.pc = x])
  BY <1>1, StandsStill
<1>4. EndInv'
  BY DEF Inv, EndInv, Ended
<1> QED
  BY <1>2, <1>3, <1>4, GotoStep

LEMMA BodyKeeps ==
  ASSUME Inv, NEW p \in Replicas, Body(p)
  PROVE  Inv'
<1>1. hist \in Hist /\ TimersTyped
  BY DEF Inv, Typed
<1>2. UNCHANGED <<hist, queue, lock, timer, returned>> /\ run[p].pc = "body" /\ Behind(hist, hist')
  BY <1>1, BehindReflexive DEF Body
<1>3. TimersTyped' /\ run[p].pc \in InFunction
  BY <1>1, <1>2 DEF TimersTyped, InFunction
<1>4. \/ GotoPc(p, "step") \/ GotoPc(p, "fail")
  BY DEF Body
<1> QED
  BY <1>1, <1>2, <1>3, <1>4, GotoInside

LEMMA SetTimerKeeps ==
  ASSUME Inv, NEW p \in Replicas, SetTimer(p)
  PROVE  Inv'
<1>1. hist \in Hist /\ TimersTyped /\ run[p].pc \in InFunction
  BY DEF Inv, Typed, SetTimer, InFunction
<1>2. UNCHANGED <<hist, queue, lock, returned>> /\ Behind(hist, hist')
  BY <1>1, BehindReflexive DEF SetTimer
<1>3. run[p].pos \in Timed
  <2>1. StandsAt(run[p]) /\ run[p].pc \in {"setSleep", "setTimeout"}
    BY <1>1 DEF Inv, RunInv, SetTimer
  <2> QED
    BY <2>1 DEF StandsAt, Timed
<1>4. TimersTyped'
  <2>1. run[p].pos \in Positions
    BY <1>3 DEF Timed
  <2>2. PICK k \in Task : timer' = [timer EXCEPT ![run[p].pos] = k]
    <3>1. [timer[run[p].pos] EXCEPT !.at = "set"] \in Task /\ timer[run[p].pos] \in Task
      BY <1>1, <2>1, TaskAt DEF TimersTyped
    <3> QED
      BY <3>1 DEF SetTimer
  <2> QED
    BY <1>1, <1>3, <2>1, <2>2 DEF TimersTyped
<1>5. \/ run[p].pc = "setSleep" /\ GotoPc(p, "sleep")
      \/ run[p].pc = "setTimeout" /\ GotoPc(p, "arm")
  BY DEF SetTimer
<1> QED
  BY <1>1, <1>2, <1>4, <1>5, GotoInside

LEMMA AppendTimerKeeps ==
  ASSUME Inv, NEW p \in Replicas, AppendTimer(p)
  PROVE  Inv'
<1>1. hist \in Hist /\ TimersTyped /\ run[p].pc \in InFunction
  BY DEF Inv, Typed, AppendTimer, InFunction
<1>2. run[p].pos \in Positions
  <2>1. StandsAt(run[p]) /\ run[p].pc \in {"sleep", "arm"}
    BY <1>1 DEF Inv, RunInv, AppendTimer
  <2> QED
    BY <2>1 DEF StandsAt
<1>3. hist' \in Hist /\ Behind(hist, hist') /\ hist'.ended = hist.ended
  <2>1. CASE hist' = [hist EXCEPT !.sleepStarted = @ \cup {run[p].pos}]
    <3>1. hist.sleepStarted \cup {run[p].pos} \in SUBSET Positions
      BY <1>1, <1>2, HistFields
    <3>2. hist' \in Hist
      BY <1>1, <2>1, <3>1 DEF Hist
    <3>3. /\ hist'.steps = hist.steps /\ hist'.consumed = hist.consumed /\ hist'.signals = hist.signals
          /\ hist'.sleepDone = hist.sleepDone /\ hist'.timedOut = hist.timedOut /\ hist'.ended = hist.ended
      BY <1>1, <2>1 DEF Hist
    <3> QED
      BY <1>1, <3>2, <3>3, HistFields, SMTT(30) DEF Behind
  <2>2. CASE hist' = [hist EXCEPT !.armed = @ \cup {run[p].pos}]
    <3>1. hist.armed \cup {run[p].pos} \in SUBSET Positions
      BY <1>1, <1>2, HistFields
    <3>2. hist' \in Hist
      BY <1>1, <2>2, <3>1 DEF Hist
    <3>3. /\ hist'.steps = hist.steps /\ hist'.consumed = hist.consumed /\ hist'.signals = hist.signals
          /\ hist'.sleepDone = hist.sleepDone /\ hist'.timedOut = hist.timedOut /\ hist'.ended = hist.ended
      BY <1>1, <2>2 DEF Hist
    <3> QED
      BY <1>1, <3>2, <3>3, HistFields, SMTT(30) DEF Behind
  <2> QED
    BY <2>1, <2>2 DEF AppendTimer
<1>4. TimersTyped'
  BY <1>1 DEF AppendTimer, TimersTyped
<1> QED
  BY <1>1, <1>3, <1>4, GotoInside DEF AppendTimer

LEMMA AppendVerdictKeeps ==
  ASSUME RunsExclude, Inv, NEW p \in Replicas, AppendVerdict(p)
  PROVE  Inv'
<1>1. Typed /\ Holding /\ hist \in Hist /\ TimersTyped /\ run[p].pc \in InFunction /\ run[p].pc # "idle"
  BY DEF Inv, Typed, AppendVerdict, InFunction
<1>2. PICK status \in {"suspended", "completed", "failed"} : hist' = Appended(hist, status)
  BY DEF AppendVerdict
<1>3. status \in {"suspended"} \cup Final
  BY DEF Final
<1>4. /\ hist' \in Hist /\ Behind(hist, hist')
      /\ hist'.status = status /\ hist'.ended = hist.ended \cup ({status} \cap Final)
  BY <1>1, <1>2, <1>3, AppendedFacts
<1>5. GotoPc(p, "release") /\ "release" \in Locations \ {"idle"} /\ "release" \notin InFunction
  BY DEF AppendVerdict, Locations, InFunction
<1>6. \A q \in Replicas : run'[q].pc \notin InFunction
  <2>1. \A q \in Replicas : q # p => run[q].pc = "idle"
    BY <1>1, OneRun
  <2>2. run'[p].pc = "release" /\ \A q \in Replicas : q # p => run'[q] = run[q]
    BY <1>1, <1>5 DEF GotoPc, Typed, Run
  <2> QED
    BY <1>5, <2>1, <2>2 DEF InFunction
<1>7. EndInv'
  <2>1. CASE status = "suspended"
    <3>1. hist'.ended = hist.ended
      BY <1>4, <2>1 DEF Final
    <3> QED
      BY <1>1, <3>1 DEF Inv, EndInv, Ended
  <2>2. CASE status # "suspended"
    BY <1>3, <1>4, <1>6, <2>2 DEF EndInv
  <2> QED
    BY <2>1, <2>2
<1>8. TimersTyped'
  BY <1>1 DEF AppendVerdict, TimersTyped
<1> QED
  BY <1>1, <1>4, <1>5, <1>7, <1>8, GotoStep DEF AppendVerdict

LEMMA StoreFailsKeeps ==
  ASSUME Inv, NEW p \in Replicas, StoreFails(p)
  PROVE  Inv'
<1>1. Typed /\ hist \in Hist /\ TimersTyped
  BY DEF Inv, Typed
<1>2. UNCHANGED <<hist, queue, lock, timer, returned>> /\ Behind(hist, hist') /\ TimersTyped'
  BY <1>1, BehindReflexive DEF StoreFails, TimersTyped
<1>3. CASE run[p].pc \in InFunction /\ GotoPc(p, "fail")
  BY <1>1, <1>2, <1>3, GotoInside
<1>4. CASE run[p].pc # "idle" /\ GotoPc(p, "release")
  <2>1. "release" \in Locations \ {"idle"} /\ "release" \notin InFunction
    BY DEF Locations, InFunction
  <2>2. \A q \in Replicas : run'[q].pc \in InFunction => run[q].pc \in InFunction
    BY <1>1, <1>4, <2>1 DEF GotoPc, Typed, Run
  <2>3. EndInv'
    BY <1>2, <2>2, EndKept
  <2> QED
    BY <1>1, <1>2, <1>4, <2>1, <2>3, GotoStep
<1> QED
  BY <1>3, <1>4 DEF StoreFails, InFunction


\* A run appends one event to the history and to what it has seen.
LEMMA AppendStepOf ==
  ASSUME RunsExclude, Inv, NEW p \in Replicas, run[p].pc \in InFunction, NEW h \in Hist, Continue(p, h),
         hist' \in Hist, hist'.ended = hist.ended, Behind(h, hist'), InOrder(h), Increasing(h), Returns(h),
         UNCHANGED <<queue, lock, timer>>
  PROVE  Inv'
<1>1. Typed /\ Holding /\ run[p].pc # "idle"
  BY DEF Inv, InFunction
<1>2. /\ RunInv' /\ HistoryInv'
      /\ run' \in [Replicas -> Run] /\ returned' \in [Waits -> SUBSET (1..Timeout)]
      /\ \A q \in Replicas : q # p => run'[q] = run[q] /\ run[q].pc = "idle"
  BY <1>1, ContinueStep
<1>3. EndInv'
  BY DEF Inv, EndInv, Ended
<1>4. Holding'
  BY <1>1, <1>2 DEF Holding
<1>5. Typed'
  BY <1>1, <1>2 DEF Typed, ReturnsTyped, QueueTyped, LockTyped, TimersTyped
<1> QED
  BY <1>2, <1>3, <1>4, <1>5 DEF Inv, HistoryInv

LEMMA AppendStepKeeps ==
  ASSUME RunsExclude, Inv, NEW p \in Replicas, AppendStep(p)
  PROVE  Inv'
<1>1. Typed /\ hist \in Hist /\ run[p].seen \in Hist /\ run[p].pc \in InFunction
  BY DEF Inv, Typed, Run, AppendStep, InFunction
<1>2. /\ StandsAt(run[p]) /\ Behind(run[p].seen, hist) /\ InOrder(run[p].seen) /\ Returns(run[p].seen)
      /\ run[p].pos \in Positions
  BY <1>1 DEF Inv, RunInv, StandsAt, AppendStep
<1> DEFINE seen == run[p].seen
           i == run[p].pos
           h == [seen EXCEPT !.steps = @ \cup {i}]
<1>3. Continue(p, h) /\ hist' = [hist EXCEPT !.steps = @ \cup {i}]
  BY DEF AppendStep
<1>4. hist.steps \cup {i} \in SUBSET Positions /\ seen.steps \cup {i} \in SUBSET Positions
  BY <1>1, <1>2, HistFields
<1>5. hist' \in Hist /\ h \in Hist
  BY <1>1, <1>3, <1>4 DEF Hist
<1>6. /\ hist'.steps = hist.steps \cup {i} /\ hist'.consumed = hist.consumed /\ hist'.signals = hist.signals
      /\ hist'.sleepDone = hist.sleepDone /\ hist'.timedOut = hist.timedOut /\ hist'.ended = hist.ended
  BY <1>1, <1>3 DEF Hist
<1>7. /\ h.steps = seen.steps \cup {i} /\ h.consumed = seen.consumed /\ h.signals = seen.signals
      /\ h.sleepDone = seen.sleepDone /\ h.timedOut = seen.timedOut
  BY <1>1 DEF Hist
<1> HIDE DEF h, i, seen
<1>8. Behind(h, hist')
  BY <1>2, <1>6, <1>7 DEF Behind, seen
<1>9. \A j \in Waits : Outcome(h, j) = Outcome(seen, j)
  BY <1>7 DEF Outcome
<1>10. Returns(h)
  BY <1>2, <1>9 DEF Returns, seen
<1>11. InOrder(h)
  <2>1. ASSUME NEW j \in Positions, Answered(seen, j) PROVE Answered(h, j)
    <3>1. CASE Program[j] = "step"
      BY <1>7, <2>1, <3>1 DEF Answered
    <3>2. CASE Program[j] = "sleep"
      BY <1>7, <2>1, <3>2 DEF Answered
    <3>3. CASE Program[j] \in {"wait", "timedWait"}
      <4>1. j \in Waits
        BY <3>3 DEF Waits
      <4> QED
        BY <1>9, <2>1, <3>3, <4>1 DEF Answered
    <3> QED
      BY <3>1, <3>2, <3>3, PositionFacts
  <2>2. \A k \in Waits : \A j \in 1..(k - 1) : j \in Positions
    BY PositionFacts, SMTT(30) DEF Positions
  <2>3. InOrder(seen)
    BY <1>2 DEF seen
  <2> QED
    BY <1>7, <2>1, <2>2, <2>3 DEF InOrder
<1>12. Increasing(h)
  <2>1. h.consumed = hist.consumed
    BY <1>2, <1>7 DEF Behind, seen
  <2> QED
    BY <2>1 DEF Inv, SignalsInOrder, Increasing
<1> QED
  BY <1>1, <1>3, <1>5, <1>6, <1>8, <1>10, <1>11, <1>12, AppendStepOf DEF AppendStep

\* A wait takes the oldest unclaimed signal: the waits before it have older signals, the
\* waits behind it none, and no run has returned an outcome for it.
LEMMA AppendConsumedKeeps ==
  ASSUME RunsExclude, Inv, NEW p \in Replicas, AppendConsumed(p)
  PROVE  Inv'
<1>1. Typed /\ hist \in Hist /\ run[p].seen \in Hist /\ run[p].pc \in InFunction
  BY DEF Inv, Typed, Run, AppendConsumed, InFunction
<1>2. StandsAt(run[p]) /\ Behind(run[p].seen, hist) /\ InOrder(run[p].seen) /\ Returns(run[p].seen)
  BY <1>1 DEF Inv, RunInv
<1> DEFINE seen == run[p].seen
           i == run[p].pos
           s == OldestUnclaimed(seen)
           h == [seen EXCEPT !.consumed[i] = s]
<1>3. Continue(p, h) /\ hist' = [hist EXCEPT !.consumed[i] = s]
  BY DEF AppendConsumed
<1>4. /\ i \in Waits /\ Outcome(seen, i) # Timeout /\ s # None /\ ~Answered(seen, i)
      /\ \A j \in 1..(i - 1) : Answered(seen, j)
  BY <1>2, PositionFacts DEF StandsAt, AppendConsumed
<1>5. /\ s \in 1..MaxSignals
      /\ \A j \in Waits : seen.consumed[j] # s
      /\ \A t \in 1..(s - 1) : \E j \in Waits : seen.consumed[j] = t
  BY <1>1, <1>4, OldestFacts
<1> HIDE DEF s
<1>6. Outcome(seen, i) = None
  <2>1. Program[i] \in {"wait", "timedWait"}
    BY <1>4 DEF Waits
  <2> QED
    BY <1>4, <2>1 DEF Answered
<1>7. seen.consumed[i] = None
  BY <1>6 DEF Outcome, None, Timeout
<1>8. /\ seen.consumed \in [Waits -> 0..MaxSignals] /\ hist.consumed \in [Waits -> 0..MaxSignals]
      /\ s \in 0..MaxSignals
  BY <1>1, <1>5, HistFields, SMTT(30)
<1>9. /\ [hist.consumed EXCEPT ![i] = s] \in [Waits -> 0..MaxSignals]
      /\ [seen.consumed EXCEPT ![i] = s] \in [Waits -> 0..MaxSignals]
  BY <1>8
<1>10. hist' \in Hist /\ h \in Hist
  BY <1>1, <1>3, <1>9 DEF Hist
<1>11. /\ hist'.steps = hist.steps /\ hist'.consumed = [hist.consumed EXCEPT ![i] = s]
       /\ hist'.signals = hist.signals /\ hist'.sleepDone = hist.sleepDone
       /\ hist'.timedOut = hist.timedOut /\ hist'.ended = hist.ended
  BY <1>1, <1>3 DEF Hist
<1>12. /\ h.steps = seen.steps /\ h.consumed = [seen.consumed EXCEPT ![i] = s]
       /\ h.signals = seen.signals /\ h.sleepDone = seen.sleepDone /\ h.timedOut = seen.timedOut
  BY <1>1 DEF Hist
<1> HIDE DEF h
<1>13. Behind(h, hist')
  BY <1>2, <1>11, <1>12 DEF Behind
<1>14. h.consumed[i] = s /\ \A j \in Waits : j # i => h.consumed[j] = seen.consumed[j]
  BY <1>4, <1>8, <1>12
<1>15. \A j \in Waits : j # i => Outcome(h, j) = Outcome(seen, j)
  BY <1>12, <1>14 DEF Outcome
<1>16. Outcome(h, i) = s /\ s # Timeout
  BY <1>4, <1>5, <1>14, SMTT(30) DEF Outcome, Timeout
<1>17. Returns(h)
  <2> SUFFICES ASSUME NEW j \in Waits, NEW v \in returned[j] PROVE v = Outcome(h, j)
    BY DEF Returns
  <2>1. v = Outcome(seen, j) /\ v \in 1..Timeout
    BY <1>1, <1>2 DEF Returns, Typed, ReturnsTyped
  <2>2. j # i
    BY <1>6, <2>1, SMTT(30) DEF None
  <2> QED
    BY <1>15, <2>1, <2>2
<1> HIDE DEF seen, i
<1>18. ASSUME NEW j \in Positions, Answered(seen, j) PROVE Answered(h, j)
  <2>1. CASE Program[j] = "step"
    BY <1>12, <1>18, <2>1 DEF Answered
  <2>2. CASE Program[j] = "sleep"
    BY <1>12, <1>18, <2>2 DEF Answered
  <2>3. CASE Program[j] \in {"wait", "timedWait"}
    <3>1. j \in Waits /\ j # i
      BY <1>4, <1>18, <2>3 DEF Waits
    <3> QED
      BY <1>15, <1>18, <2>3, <3>1 DEF Answered
  <2> QED
    BY <2>1, <2>2, <2>3, PositionFacts
<1>19. InOrder(seen)
  BY <1>2 DEF seen
<1>20. InOrder(h)
  <2>1. ASSUME NEW j \in Waits, NEW t \in 1..h.consumed[j] PROVE \E k \in Waits : h.consumed[k] = t
    <3>1. CASE t = s
      BY <1>4, <1>14, <3>1
    <3>2. CASE t # s
      <4>1. t \in Nat /\ t >= 1
        BY <1>8, <1>14, <2>1, SMTT(30)
      <4>2. PICK k \in Waits : seen.consumed[k] = t
        <5>1. CASE j = i
          BY <1>5, <1>14, <3>2, <5>1, SMTT(30)
        <5>2. CASE j # i
          BY <1>14, <1>19, <5>2 DEF InOrder
        <5> QED
          BY <5>1, <5>2
      <4>3. k # i
        BY <1>7, <4>1, <4>2, SMTT(30) DEF None
      <4> QED
        BY <1>14, <4>2, <4>3
    <3> QED
      BY <3>1, <3>2
  <2>2. ASSUME NEW j \in Waits, h.consumed[j] # None, NEW k \in 1..(j - 1) PROVE Answered(h, k)
    <3>1. Answered(seen, k)
      BY <1>4, <1>14, <1>19, <2>2 DEF InOrder
    <3>2. k \in Positions
      BY PositionFacts, SMTT(30) DEF Positions
    <3> QED
      BY <1>18, <3>1, <3>2
  <2> QED
    BY <2>1, <2>2 DEF InOrder
<1>21. Increasing(h)
  <2> SUFFICES ASSUME NEW a \in Waits, NEW b \in Waits, a < b, h.consumed[a] # None, h.consumed[b] # None
               PROVE  h.consumed[a] < h.consumed[b]
    BY DEF Increasing
  <2>1. CASE a = i
    <3>1. seen.consumed[b] # None
      BY <1>14, <2>1, PositionFacts, SMTT(30)
    <3>2. a \in 1..(b - 1)
      BY PositionFacts, SMTT(30) DEF Positions
    <3> QED
      BY <1>4, <1>19, <2>1, <3>1, <3>2 DEF InOrder
  <2>2. CASE b = i
    <3>0. a # i
      BY <2>2, PositionFacts, SMTT(30)
    <3>1. h.consumed[a] = seen.consumed[a] /\ h.consumed[b] = s
      BY <1>14, <2>2, <3>0
    <3>2. ~(s \in 1..seen.consumed[a])
      BY <1>5, <1>19 DEF InOrder
    <3>3. seen.consumed[a] \in Nat
      BY <1>8, SMTT(30)
    <3> QED
      BY <1>5, <3>1, <3>2, <3>3, SMTT(30)
  <2>3. CASE a # i /\ b # i
    <3>1. seen.consumed = hist.consumed
      BY <1>2 DEF Behind, seen
    <3> QED
      BY <1>14, <2>3, <3>1 DEF Inv, SignalsInOrder
  <2> QED
    BY <2>1, <2>2, <2>3
<1> QED
  BY <1>1, <1>3, <1>10, <1>11, <1>13, <1>17, <1>20, <1>21, AppendStepOf DEF AppendConsumed


-----------------------------------------------------------------------------
(* The theorems                                                              *)

LEMMA StutterKeeps ==
  ASSUME Inv, UNCHANGED vars
  PROVE  Inv'
<1>1. hist \in Hist /\ QueueTyped /\ TimersTyped
  BY DEF Inv, Typed
<1>2. /\ UNCHANGED <<hist, run, queue, lock, timer, returned>>
      /\ Behind(hist, hist')
  BY <1>1, BehindReflexive DEF vars
<1>3. QueueTyped' /\ TimersTyped'
  BY <1>1, <1>2 DEF QueueTyped, TimersTyped
<1> QED
  BY <1>1, <1>2, <1>3, OutsideStep

\* What the engine keeps true between any two steps of its processes: the run inside the
\* function is alone and has seen all that runs before it recorded (workflow.ts run, execute).
THEOREM WorkflowInvariant == ASSUME RunsExclude PROVE Spec => []Inv
<1>1. ASSUME Inv, [Next]_vars PROVE Inv'
  <2>1. ASSUME NEW p \in Replicas, Start(p) \/ Signal(p) \/ Crash(p) PROVE Inv'
    BY <1>1, <2>1, StartKeeps, SignalKeeps, CrashKeeps
  <2>2. ASSUME NEW p \in Replicas, Runs(p) PROVE Inv'
    BY <1>1, <2>2, AcquireKeeps, LockBusyKeeps, ReadKeeps, BodyKeeps, AppendStepKeeps, AppendConsumedKeeps,
       SetTimerKeeps, AppendTimerKeeps, AppendVerdictKeeps, StoreFailsKeeps, ReleaseKeeps DEF Runs
  <2>3. ASSUME NEW p \in Replicas, NEW t \in Positions, Wakes(p, t) PROVE Inv'
    BY <1>1, <2>3, WakeReadKeeps, WakeAppendKeeps, WakeFailsKeeps DEF Wakes
  <2>4. CASE Cancel \/ LockLapses
    BY <1>1, <2>4, CancelKeeps, LockLapsesKeeps
  <2>5. CASE UNCHANGED vars
    BY <1>1, <2>5, StutterKeeps
  <2> QED
    BY <1>1, <2>1, <2>2, <2>3, <2>4, <2>5 DEF Next
<1> QED
  BY <1>1, Initial, PTL DEF Spec

\* Every variable has its type, and only sleeps and timed waits have a timer.
THEOREM WorkflowTyped == ASSUME RunsExclude PROVE Spec => []TypeOK
<1>1. ASSUME Typed PROVE TypeOK
  <2>1. /\ hist.status \in {"none", "running", "suspended"} \cup Final /\ hist.ended \subseteq Final
        /\ hist.signals \in 0..MaxSignals /\ hist.consumed \in [Waits -> 0..MaxSignals]
    BY <1>1 DEF Typed, Hist
  <2>2. \A p \in Replicas : queue[p] \in Seq(Positions \cup {NoTimer})
    <3> SUFFICES ASSUME NEW p \in Replicas PROVE queue[p] \in Seq(Positions \cup {NoTimer})
      OBVIOUS
    <3>1. queue[p] \in Seq(Timed \cup {NoTimer})
      BY <1>1 DEF Typed, QueueTyped
    <3>2. Len(queue[p]) \in Nat /\ queue[p] \in [1..Len(queue[p]) -> Timed \cup {NoTimer}]
      BY <3>1, SMTT(30)
    <3>3. queue[p] \in [1..Len(queue[p]) -> Positions \cup {NoTimer}]
      BY <3>2 DEF Timed
    <3> QED
      BY <3>2, <3>3, SMTT(30)
  <2> QED
    BY <1>1, <2>1, <2>2 DEF TypeOK, Typed, LockTyped, TimersTyped, Timed
<1> QED
  BY <1>1, WorkflowInvariant, PTL DEF Inv

\* Every received signal is handed to at most one wait, in order of arrival, although signals
\* arrive during a run and a crash may come between any two appends (workflow.ts waitForSignal).
THEOREM SignalsHandedInOrder == ASSUME RunsExclude PROVE Spec => []SignalsInOrder
BY WorkflowInvariant, PTL DEF Inv

\* A wait has one outcome over all replays: a timeout recorded while a run is about to consume
\* a signal does not change what later runs return (workflow.ts onWakeup, waitForSignal).
THEOREM OneOutcome == ASSUME RunsExclude PROVE Spec => []WaitSingleValued
<1>1. ASSUME Inv PROVE WaitSingleValued
  BY <1>1 DEF Inv, Returns, WaitSingleValued
<1> QED
  BY <1>1, WorkflowInvariant, PTL

\* A recorded step is executed by no later run, and a completed or failed workflow executes and
\* records nothing more (workflow.ts step, and run on a final status).
THEOREM HistoryOnlyGrows == ASSUME RunsExclude PROVE Spec => HistoryGrows
<1>1. ASSUME Inv, NEW p \in Replicas, Executes(p) PROVE run[p].pos \notin hist.steps /\ ~Ended
  <2>1. run[p].pc \in InFunction
    BY <1>1 DEF Executes, InFunction
  <2>2. StandsAt(run[p]) /\ Behind(run[p].seen, hist) /\ ~Ended
    BY <1>1, <2>1 DEF Inv, RunInv, EndInv
  <2>3. run[p].pos \in Positions /\ Program[run[p].pos] = "step" /\ ~Answered(run[p].seen, run[p].pos)
    BY <1>1, <2>2 DEF StandsAt, Executes
  <2> QED
    BY <2>2, <2>3 DEF Answered, Behind
<1>2. ASSUME Inv, [Next]_vars, Ended PROVE hist'.steps = hist.steps /\ hist'.consumed = hist.consumed
  <2>1. \A p \in Replicas : ~AppendStep(p) /\ ~AppendConsumed(p)
    BY <1>2 DEF Inv, EndInv, AppendStep, AppendConsumed, InFunction
  <2>2. hist \in Hist
    BY <1>2 DEF Inv, Typed
  <2>3. \A status : /\ Appended(hist, status).steps = hist.steps
                    /\ Appended(hist, status).consumed = hist.consumed
    BY <2>2 DEF Appended, Hist
  <2>4. CASE hist' = hist
    BY <2>4
  <2>5. CASE Cancel \/ \E p \in Replicas : AppendVerdict(p)
    BY <2>3, <2>5 DEF Cancel, AppendVerdict
  <2>6. ASSUME NEW p \in Replicas,
               Start(p) \/ Signal(p) \/ AppendTimer(p) \/ \E t \in Positions : WakeAppend(p, t)
        PROVE  hist'.steps = hist.steps /\ hist'.consumed = hist.consumed
    BY <2>2, <2>6 DEF Start, Signal, AppendTimer, WakeAppend, Hist
  <2> QED
    BY Zenon, <1>2, <2>1, <2>4, <2>5, <2>6
    DEF Next, Runs, Wakes, vars, Crash, Acquire, LockBusy, Read, Body, SetTimer, StoreFails, Release,
        WakeRead, WakeFails, LockLapses
<1>3. ASSUME Inv, [Next]_vars
      PROVE  /\ \A p \in Replicas : Executes(p) => run[p].pos \notin hist.steps
             /\ hist.ended \cap {"completed", "failed"} # {} =>
                  /\ \A p \in Replicas : ~Executes(p)
                  /\ hist'.steps = hist.steps /\ hist'.consumed = hist.consumed
  BY <1>1, <1>2, <1>3 DEF Ended
<1> QED
  BY <1>3, WorkflowInvariant, PTL DEF Spec, HistoryGrows, RecordedOnce, NothingAfterEnd

=============================================================================
