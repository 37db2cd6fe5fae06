----------------------------- MODULE SagaProofs -----------------------------
(***************************************************************************)
(* Proofs about one saga, for any number of steps and recovery workers.    *)
(*                                                                         *)
(* Two parts carry each other.  LeaseInv: a driver past its claim holds a  *)
(* lease no older than its last heartbeat, or one nobody can take any      *)
(* more, so it is alone.  EffectInv: being alone, what it remembers of the *)
(* saga agrees with the row, and the row with the effects in the world.    *)
(***************************************************************************)
EXTENDS Saga, TLAPS, WellFoundedInduction

USE Zenon

\* A driver's heartbeats, every third of its lease, are closer together than the time after
\* which a recovery worker takes a saga for abandoned.
HeartbeatsInTime == \A w \in Drivers : Interval(w) < StaleAfterMs

Locations == {"idle", "create", "exec", "saveStep", "delete", "saveFail", "comp", "saveComp",
              "claim", "load", "gone"}
Statuses == {"none", "deleted"} \cup Unfinished \cup Terminal

Drv == [pc : Locations, exec : 0..N, comp : SUBSET Compensable, failed : SUBSET Compensable]

RowTyped ==
  /\ row \in [status : Statuses, exec : 0..N, comp : SUBSET Compensable]
  /\ row.comp \subseteq 1..row.exec
  /\ rowAge \in 0..Cap
ClaimTyped == claim \in [by : Drivers \cup {NoOne, Dead}, age : 0..Cap]
DriversTyped ==
  /\ drv \in [Drivers -> Drv]
  /\ \A w \in Drivers : drv[w].comp \subseteq 1..drv[w].exec
TimersTyped == hb \in [Drivers -> Nat] /\ \A w \in Drivers : hb[w] <= Interval(w)
Typed ==
  /\ RowTyped /\ ClaimTyped /\ DriversTyped /\ TimersTyped
  /\ effect \subseteq Steps
  /\ mishaps \in Nat

Closed == row.status \in Terminal \cup {"deleted"}

\* The driver holds a fresh lease, or nobody can take it.
Holds(w) ==
  \/ claim.by = w /\ (claim.age <= hb[w] \/ (Pg /\ Closed))
  \/ /\ w = Runner /\ claim.by = NoOne
     /\ \/ row.status = "none"
        \/ Pg /\ Closed
        \/ rowAge <= hb[w] /\ \A v \in Workers : drv[v].pc # "claim"

LeaseInv ==
  /\ \A w \in Drivers : Driving(w) => Holds(w)
  /\ \A w \in Drivers : drv[w].pc = "load" => claim = [by |-> w, age |-> 0]
  /\ drv[Runner].pc \notin {"claim", "load"}
  /\ \A w \in Workers : drv[w].pc \notin {"create", "gone"}
  /\ drv[Runner].pc \in {"idle", "create"} => row.status = "none"
  /\ drv[Runner].pc = "idle" => claim.by = NoOne
  /\ row.status = "none" => /\ \A w \in Workers : drv[w].pc = "idle"
                            /\ drv[Runner].pc \in {"idle", "create", "gone"}
  /\ Pg /\ row.status = "none" => claim.by = NoOne

\* What a driver knows agrees with the row.
Agrees(w) ==
  LET d == drv[w] IN
  /\ d.pc = "idle" => d = Away
  /\ d.pc = "create" => d = [Away EXCEPT !.pc = "create"]
  /\ d.pc \in {"exec", "saveStep"} => row.status = "pending" /\ d.comp = {} /\ d.failed = {}
  /\ d.pc = "exec" => d.exec = row.exec
  /\ d.pc = "saveStep" => d.exec = row.exec + 1 /\ d.exec \in effect
  /\ d.pc = "saveFail" => /\ row.status \in Unfinished /\ row.comp = d.comp
                          /\ \/ d.exec = row.exec
                             \/ row.status = "pending" /\ d.exec = row.exec + 1
  /\ d.pc \in {"comp", "saveComp"} => row.status = "compensating" /\ d.exec = row.exec /\ row.comp \subseteq d.comp
  /\ d.pc \in {"saveFail", "comp", "saveComp"} => effect \cap d.comp = {}
  /\ d.pc = "delete" => row.status = "success"

\* What the row says agrees with the world.
RowTrue ==
  /\ row.status = "none" => effect = {} /\ row.comp = {}
  /\ row.status = "pending" => 1..row.exec \subseteq effect /\ row.comp = {}
  /\ row.status \in Unfinished => effect \subseteq 1..(row.exec + 1) /\ effect \cap row.comp = {}
  /\ row.status \in {"success", "deleted"} => effect = Steps
  /\ row.status = "compensated" => effect \cap Compensable \subseteq {row.exec + 1}

EffectInv == RowTrue /\ \A w \in Drivers : Agrees(w)

Inv == Typed /\ LeaseInv /\ EffectInv

USE SagaAssumption

-----------------------------------------------------------------------------
(* Numbers                                                                   *)

LEMMA MaxOfTwo ==
  ASSUME NEW a \in Nat, NEW b \in Nat
  PROVE  Max({a, b}) \in {a, b} /\ Max({a, b}) >= a /\ Max({a, b}) >= b
<1>1. \E x \in {a, b} : \A y \in {a, b} : x >= y
  BY SMTT(30)
<1> QED
  BY <1>1 DEF Max

LEMMA MinOfTwo ==
  ASSUME NEW a \in Nat, NEW b \in Nat
  PROVE  Min({a, b}) \in {a, b} /\ Min({a, b}) <= a /\ Min({a, b}) <= b
<1>1. \E x \in {a, b} : \A y \in {a, b} : x <= y
  BY SMTT(30)
<1> QED
  BY <1>1 DEF Min

LEMMA IntervalType == \A w \in Drivers : Interval(w) \in Nat /\ Interval(w) >= 1
<1> SUFFICES ASSUME NEW w \in Drivers PROVE Interval(w) \in Nat /\ Interval(w) >= 1
  OBVIOUS
<1>1. LeaseOf(w) \in Nat
  BY MaxOfTwo, SMTT(30) DEF LeaseOf
<1>2. LeaseOf(w) \div 3 \in Nat
  BY <1>1, SMTT(30)
<1> QED
  BY <1>2, MaxOfTwo, SMTT(30) DEF Interval

LEMMA CapType == Cap \in Nat
BY MaxOfTwo, SMTT(30) DEF Cap

LEMMA OlderType == \A age \in 0..Cap : Older(age) \in 0..Cap /\ Older(age) <= age + 1
<1> SUFFICES ASSUME NEW age \in 0..Cap PROVE Older(age) \in 0..Cap /\ Older(age) <= age + 1
  OBVIOUS
<1>1. age + 1 \in Nat /\ Cap \in Nat
  BY CapType, SMTT(30)
<1> QED
  BY <1>1, MinOfTwo, SMTT(30) DEF Older

\* A set of steps that is not empty has a last one.
LEMMA LastStep ==
  ASSUME NEW S \in SUBSET Steps, S # {}
  PROVE  Max(S) \in S /\ \A j \in S : j <= Max(S)
<1> DEFINE T == {n \in Nat : \E i \in S : n + i = N}
<1>1. PICK s \in S : TRUE
  OBVIOUS
<1>2. s \in Nat /\ N - s \in Nat /\ (N - s) + s = N
  BY SMTT(30) DEF Steps
<1>3. T # {} /\ T \subseteq Nat
  BY <1>2
<1>4. PICK x \in T : \A y \in T : ~ (<<y, x>> \in OpToRel(<, Nat))
  <2> HIDE DEF T
  <2> QED
    BY <1>3, NatLessThanWellFounded, WFMin
<1>5. PICK i \in S : x + i = N
  OBVIOUS
<1>6. \A j \in S : i >= j
  <2> SUFFICES ASSUME NEW j \in S, j > i PROVE FALSE
    BY SMTT(30) DEF Steps
  <2>1. N - j \in T /\ N - j < x /\ x \in Nat
    BY <1>5, SMTT(30) DEF Steps
  <2>2. <<N - j, x>> \in OpToRel(<, Nat)
    BY <2>1 DEF OpToRel
  <2> QED
    BY <1>4, <2>1, <2>2
<1>7. \E k \in S : \A j \in S : k >= j
  BY <1>6
<1>8. Max(S) \in S /\ \A j \in S : Max(S) >= j
  BY <1>7 DEF Max
<1> QED
  BY <1>8 DEF Steps

-----------------------------------------------------------------------------
(* One driver                                                                *)

Alone(w) == \A v \in Drivers \ {w} : drv[v].pc \in {"idle", "claim", "gone"}

\* Whoever is past its claim is the only one.
LEMMA PastClaimAlone ==
  ASSUME Typed, LeaseInv, NEW w \in Drivers, PastClaim(w)
  PROVE  Alone(w)
<1> SUFFICES ASSUME NEW v \in Drivers, v # w, PastClaim(v) PROVE FALSE
  BY DEF Alone, PastClaim, Driving
<1>1. claim.by = w \/ (w = Runner /\ claim.by = NoOne)
  BY SMTT(30) DEF LeaseInv, PastClaim, Holds
<1>2. claim.by = v \/ (v = Runner /\ claim.by = NoOne)
  BY SMTT(30) DEF LeaseInv, PastClaim, Holds
<1> QED
  BY <1>1, <1>2 DEF Drivers

\* A driver goes on: it keeps its lease, and the row stays closed once it is.
LEMMA GoesOn ==
  ASSUME Inv, Typed', NEW w \in Drivers, Driving(w), UNCHANGED <<claim, hb>>,
         \A v \in Drivers \ {w} : drv'[v] = drv[v],
         drv'[w].pc \in {"exec", "saveStep", "delete", "saveFail", "comp", "saveComp"},
         row'.status # "none", Closed => Closed',
         rowAge' = 0 \/ (rowAge' = rowAge /\ row.status # "none")
  PROVE  LeaseInv'
<1>1. Alone(w)
  BY PastClaimAlone DEF Inv, PastClaim
<1>2. Holds(w)'
  <2>1. Holds(w) /\ 0 <= hb[w]
    BY SMTT(30) DEF Inv, LeaseInv, Typed, TimersTyped
  <2>2. \A v \in Workers : drv'[v].pc = "claim" => drv[v].pc = "claim"
    BY DEF Drivers
  <2>3. row.status = "none" => \A v \in Workers : drv[v].pc = "idle"
    BY DEF Inv, LeaseInv
  <2> QED
    BY <2>1, <2>2, <2>3 DEF Holds
<1>3. \A v \in Drivers \ {w} : ~Driving(v)' /\ drv'[v].pc # "load"
  BY <1>1 DEF Alone, Driving
<1>4. drv'[Runner].pc \in {"idle", "create"} => FALSE
  <2>1. CASE w = Runner
    BY <2>1
  <2>2. CASE w # Runner
    BY <2>2 DEF Inv, LeaseInv, Drivers, Driving
  <2> QED
    BY <2>1, <2>2
<1>5. drv'[Runner].pc \notin {"claim", "load"} /\ \A v \in Workers : drv'[v].pc \notin {"create", "gone"}
  BY DEF Inv, LeaseInv, Drivers
<1> QED
  BY <1>2, <1>3, <1>4, <1>5 DEF LeaseInv

Left(w) == drv'[w] = IF w = Runner THEN [Away EXCEPT !.pc = "gone"] ELSE Away

\* The driver leaves: nobody drives.
LEMMA Leaves ==
  ASSUME Inv, NEW w \in Drivers, PastClaim(w), Left(w),
         \A v \in Drivers \ {w} : drv'[v] = drv[v],
         row'.status # "none" \/ (row' = row /\ (claim' = claim \/ claim.by = w))
  PROVE  LeaseInv'
<1>1. Alone(w)
  BY PastClaimAlone DEF Inv
<1>2. \A v \in Drivers : ~Driving(v)' /\ drv'[v].pc # "load"
  BY <1>1, SMTT(30) DEF Alone, Driving, Left, Away
<1>3. drv'[Runner].pc \notin {"idle", "create", "claim", "load"}
  <2>1. CASE w = Runner
    BY <2>1 DEF Left, Away
  <2>2. CASE w # Runner
    BY <2>2 DEF Inv, LeaseInv, Drivers, PastClaim, Driving
  <2> QED
    BY <2>1, <2>2
<1>4. \A v \in Workers : drv'[v].pc \notin {"create", "gone"}
  BY SMTT(30) DEF Inv, LeaseInv, Drivers, Left, Away
<1>5. row'.status = "none" => /\ \A v \in Workers : drv'[v].pc = "idle"
                              /\ drv'[Runner].pc \in {"idle", "create", "gone"}
  BY SMTT(30) DEF Inv, LeaseInv, Drivers, Left, Away
<1>6. Pg /\ row'.status = "none" => claim'.by = NoOne
  BY DEF Inv, LeaseInv, Drivers
<1> QED
  BY <1>2, <1>3, <1>4, <1>5, <1>6 DEF LeaseInv

\* A recovery worker that has not claimed yet leaves: whoever drives keeps the lease.
LEMMA GivesUp ==
  ASSUME Inv, NEW w \in Drivers, drv[w].pc = "claim", Left(w), UNCHANGED <<row, rowAge>>,
         \A v \in Drivers \ {w} : drv'[v] = drv[v] /\ hb'[v] = hb[v],
         claim' = claim \/ claim.by = w
  PROVE  LeaseInv'
<1>1. w \in Workers /\ w # Runner /\ drv'[w].pc = "idle"
  BY SMTT(30) DEF Inv, LeaseInv, Drivers, Left, Away
<1>2. row.status # "none"
  BY <1>1 DEF Inv, LeaseInv
<1>3. \A v \in Drivers : Driving(v)' => v # w /\ Driving(v)
  BY <1>1 DEF Driving
<1>4. ASSUME NEW v \in Drivers, Driving(v)' PROVE Holds(v)'
  <2>1. v # w /\ Holds(v)
    BY <1>3, <1>4 DEF Inv, LeaseInv
  <2>2. claim' = claim /\ hb'[v] = hb[v]
    BY <1>1, <2>1 DEF Holds, Drivers
  <2>3. \A u \in Workers : drv'[u].pc = "claim" => drv[u].pc = "claim"
    BY <1>1 DEF Drivers
  <2> QED
    BY <2>1, <2>2, <2>3 DEF Holds, Closed
<1>5. ASSUME NEW v \in Drivers, drv'[v].pc = "load" PROVE claim' = [by |-> v, age |-> 0]
  BY <1>1, <1>5, SMTT(30) DEF Inv, LeaseInv
<1>6. /\ drv'[Runner] = drv[Runner]
      /\ drv[Runner].pc \notin {"idle", "create"}
  BY <1>1, <1>2 DEF Inv, LeaseInv, Drivers
<1>7. \A v \in Workers : drv'[v].pc \notin {"create", "gone"}
  BY <1>1 DEF Inv, LeaseInv, Drivers
<1> QED
  BY <1>2, <1>4, <1>5, <1>6, <1>7 DEF LeaseInv, Inv

-----------------------------------------------------------------------------
(* Types                                                                     *)

LEMMA DrvFields ==
  \A d \in Drv : /\ d.pc \in Locations /\ d.exec \in Nat /\ d.exec <= N
                 /\ d.comp \in SUBSET Compensable /\ d.failed \in SUBSET Compensable
BY SMTT(30) DEF Drv

LEMMA GotoTyped ==
  ASSUME DriversTyped, NEW w \in Drivers, NEW pc \in Locations, Goto(w, pc)
  PROVE  /\ DriversTyped'
         /\ drv'[w] = [drv[w] EXCEPT !.pc = pc]
         /\ drv'[w].pc = pc
         /\ \A v \in Drivers \ {w} : drv'[v] = drv[v]
BY DEF DriversTyped, Drv, Goto

LEMMA LeaveTyped ==
  ASSUME DriversTyped, NEW w \in Drivers, Leave(w)
  PROVE  /\ DriversTyped'
         /\ Left(w)
         /\ \A v \in Drivers \ {w} : drv'[v] = drv[v]
BY SMTT(30) DEF DriversTyped, Drv, Leave, Left, Away, Locations

LEMMA SaveTyped ==
  ASSUME NEW s \in Statuses, NEW e \in 0..N, NEW c \in SUBSET Compensable, c \subseteq 1..e, Save(s, e, c)
  PROVE  RowTyped'
BY CapType, SMTT(30) DEF Save, RowTyped

\* What a driver saves has the type of a row.
LEMMA DriverSaves ==
  ASSUME Typed, NEW w \in Drivers, NEW s \in Statuses,
         Save(s, drv[w].exec, drv[w].comp) \/ Save(s, drv[w].exec, {})
  PROVE  RowTyped'
<1>1. drv[w].exec \in 0..N /\ drv[w].comp \in SUBSET Compensable /\ drv[w].comp \subseteq 1..drv[w].exec
  BY DEF Typed, DriversTyped, Drv
<1> QED
  BY <1>1, SaveTyped

LEMMA RenewTyped ==
  ASSUME ClaimTyped, NEW w \in Drivers, Renew(w)
  PROVE  ClaimTyped'
BY CapType, SMTT(30) DEF ClaimTyped, Renew

LEMMA TimerReset ==
  ASSUME TimersTyped, NEW w \in Drivers, hb' = [hb EXCEPT ![w] = 0]
  PROVE  TimersTyped'
BY IntervalType, SMTT(30) DEF TimersTyped

LEMMA TypesUnchanged ==
  /\ RowTyped /\ UNCHANGED <<row, rowAge>> => RowTyped'
  /\ ClaimTyped /\ UNCHANGED claim => ClaimTyped'
  /\ DriversTyped /\ UNCHANGED drv => DriversTyped'
  /\ TimersTyped /\ UNCHANGED hb => TimersTyped'
BY DEF RowTyped, ClaimTyped, DriversTyped, TimersTyped

LEMMA NextTyped == Typed /\ [Next]_vars => Typed'
<1> SUFFICES ASSUME Typed, [Next]_vars PROVE Typed'
  OBVIOUS
<1>0. /\ {"none", "pending", "success", "compensating", "compensated",
          "compensation_failed", "deleted"} \subseteq Statuses
      /\ Runner \in Drivers /\ Workers \subseteq Drivers
      /\ {"idle", "create", "exec", "saveStep", "delete", "saveFail",
          "comp", "saveComp", "claim", "load"} \subseteq Locations
  BY DEF Statuses, Unfinished, Terminal, Drivers, Locations
<1>1. CASE Run
  BY <1>0, <1>1, GotoTyped, RenewTyped, TimerReset, TypesUnchanged DEF Run, Typed
<1>2. CASE Create
  <2>1. RowTyped'
    BY <1>0, <1>2, SaveTyped, SMTT(30) DEF Create
  <2> QED
    BY <1>0, <1>2, <2>1, GotoTyped, TypesUnchanged DEF Create, Typed
<1>3. ASSUME NEW w \in Drivers, Execute(w) PROVE Typed'
  <2>1. drv[w].exec + 1 \in Steps /\ UNCHANGED <<row, rowAge, claim, hb, mishaps>>
    BY <1>3, SMTT(30) DEF Execute, Typed, DriversTyped, Drv, Steps
  <2>2. effect' \subseteq Steps
    BY <1>3, <2>1 DEF Execute, Typed
  <2>3. DriversTyped'
    <3>1. CASE Goto(w, "saveFail")
      BY <1>0, <3>1, GotoTyped DEF Typed
    <3>2. CASE drv' = [drv EXCEPT ![w].exec = @ + 1, ![w].pc = "saveStep"]
      <4>1. drv[w] \in Drv /\ drv[w].comp \subseteq 1..drv[w].exec
        BY DEF Typed, DriversTyped
      <4>2. drv'[w] = [drv[w] EXCEPT !.exec = @ + 1, !.pc = "saveStep"]
        BY <3>2 DEF Typed, DriversTyped
      <4>3. drv[w].exec \in Nat /\ drv[w].exec + 1 \in 0..N
        BY <2>1, <4>1, SMTT(30) DEF Drv, Steps
      <4>4. drv'[w] \in Drv /\ drv'[w].comp = drv[w].comp /\ drv'[w].exec = drv[w].exec + 1
        BY <1>0, <4>1, <4>2, <4>3 DEF Drv
      <4>5. drv'[w].comp \subseteq 1..drv'[w].exec
        BY <4>1, <4>3, <4>4, SMTT(30)
      <4> QED
        BY <3>2, <4>4, <4>5 DEF Typed, DriversTyped
    <3> QED
      BY <1>3, <3>1, <3>2 DEF Execute
  <2> QED
    BY <2>1, <2>2, <2>3, TypesUnchanged DEF Typed
<1>4. ASSUME NEW w \in Drivers, SaveStep(w) PROVE Typed'
  <2>1. RowTyped'
    BY <1>0, <1>4, DriverSaves DEF SaveStep
  <2> QED
    BY <1>0, <1>4, <2>1, GotoTyped, TypesUnchanged DEF SaveStep, Typed
<1>5. ASSUME NEW w \in Drivers, SaveSuccess(w) PROVE Typed'
  <2>1. RowTyped'
    BY <1>0, <1>5, DriverSaves DEF SaveSuccess
  <2> QED
    BY <1>0, <1>5, <2>1, GotoTyped, TypesUnchanged DEF SaveSuccess, Typed
<1>6. ASSUME NEW w \in Drivers, Delete(w) PROVE Typed'
  <2>1. RowTyped'
    BY <1>0, <1>6 DEF Delete, Typed, RowTyped
  <2>2. ClaimTyped'
    BY <1>6, CapType, SMTT(30) DEF Delete, ClaimTyped
  <2> QED
    BY <1>6, <2>1, <2>2, LeaveTyped, TypesUnchanged DEF Delete, Typed
<1>7. ASSUME NEW w \in Drivers, SaveCompensating(w) \/ SaveCompensated(w) PROVE Typed'
  <2>1. RowTyped'
    BY <1>0, <1>7, DriverSaves DEF SaveCompensating, SaveCompensated
  <2> QED
    BY <1>0, <1>7, <2>1, GotoTyped, TypesUnchanged DEF SaveCompensating, SaveCompensated, Typed
<1>8. ASSUME NEW w \in Drivers, Compensate(w) PROVE Typed'
  <2>1. ToUndo(w) \in SUBSET Steps /\ ToUndo(w) # {}
    BY <1>8 DEF Compensate, ToUndo
  <2>2. NextToUndo(w) \in ToUndo(w)
    BY <2>1, LastStep DEF NextToUndo
  <2>3. drv[w] \in Drv /\ drv[w].comp \subseteq 1..drv[w].exec
    BY DEF Typed, DriversTyped
  <2>4. NextToUndo(w) \in Compensable /\ NextToUndo(w) \in 1..drv[w].exec
    <3>1. NextToUndo(w) \in Compensable /\ NextToUndo(w) <= drv[w].exec
      BY <2>2 DEF ToUndo
    <3>2. NextToUndo(w) \in 1..N
      BY <3>1 DEF Steps
    <3>3. drv[w].exec \in Nat
      BY <2>3, DrvFields
    <3> QED
      BY <3>1, <3>2, <3>3, SMTT(30)
  <2>5. UNCHANGED <<row, rowAge, claim, hb, mishaps>> /\ effect' \subseteq Steps
    BY <1>8 DEF Compensate, Typed
  <2>6. /\ drv' = [drv EXCEPT ![w] = drv'[w]]
        /\ drv'[w] \in Drv /\ drv'[w].comp \subseteq 1..drv'[w].exec
    <3>1. CASE drv' = [drv EXCEPT ![w].comp = @ \cup {NextToUndo(w)}, ![w].pc = "saveComp"]
      <4>1. drv'[w] = [drv[w] EXCEPT !.comp = @ \cup {NextToUndo(w)}, !.pc = "saveComp"]
        BY <3>1 DEF Typed, DriversTyped
      <4> QED
        <5>1. drv[w].comp \cup {NextToUndo(w)} \in SUBSET Compensable
          BY <2>3, <2>4, DrvFields
        <5>2. drv'[w] \in Drv
          BY <1>0, <2>3, <4>1, <5>1 DEF Drv
        <5>3. drv'[w].comp = drv[w].comp \cup {NextToUndo(w)} /\ drv'[w].exec = drv[w].exec
          BY <2>3, <4>1 DEF Drv
        <5> QED
          BY <2>3, <2>4, <3>1, <5>2, <5>3 DEF Typed, DriversTyped
    <3>2. CASE drv' = [drv EXCEPT ![w].failed = @ \cup {NextToUndo(w)}]
      <4>1. drv'[w] = [drv[w] EXCEPT !.failed = @ \cup {NextToUndo(w)}]
        BY <3>2 DEF Typed, DriversTyped
      <4> QED
        <5>1. drv'[w] \in Drv /\ drv'[w].comp = drv[w].comp /\ drv'[w].exec = drv[w].exec
          BY <2>3, <2>4, <4>1, ZenonT(60) DEF Drv
        <5> QED
          BY <2>3, <3>2, <5>1 DEF Typed, DriversTyped
    <3> QED
      BY <1>8, <3>1, <3>2 DEF Compensate
  <2>7. DriversTyped'
    BY <2>6 DEF Typed, DriversTyped
  <2> QED
    BY <2>5, <2>7, TypesUnchanged DEF Typed
<1>9. ASSUME NEW w \in Drivers, SaveVerdict(w) PROVE Typed'
  <2>1. Verdict(w) \in Statuses
    BY <1>0 DEF Verdict
  <2>2. RowTyped'
    BY <1>9, <2>1, DriverSaves DEF SaveVerdict
  <2> QED
    BY <1>9, <2>2, LeaveTyped, TypesUnchanged DEF SaveVerdict, Typed
<1>10. ASSUME NEW w \in Drivers, StoreFails(w) PROVE Typed'
  <2>1. UNCHANGED <<row, rowAge, claim, hb, effect>> /\ mishaps' \in Nat
    BY <1>10, SMTT(30) DEF StoreFails, Typed
  <2>2. Goto(w, "saveFail") \/ Goto(w, "comp") \/ Leave(w)
    BY <1>10 DEF StoreFails
  <2>3. DriversTyped'
    BY <1>0, <2>2, GotoTyped, LeaveTyped DEF Typed
  <2> QED
    BY <2>1, <2>3, TypesUnchanged DEF Typed
<1>11. ASSUME NEW w \in Drivers, Heartbeat(w) PROVE Typed'
  BY <1>11, RenewTyped, TimerReset, TypesUnchanged DEF Heartbeat, Typed
<1>12. ASSUME NEW w \in Drivers, Crash(w) PROVE Typed'
  <2>1. ClaimTyped' /\ mishaps' \in Nat
    BY <1>12, SMTT(30) DEF Crash, Typed, ClaimTyped
  <2> QED
    BY <1>12, <2>1, LeaveTyped, TimerReset, TypesUnchanged DEF Crash, Typed
<1>13. ASSUME NEW w \in Workers, List(w) PROVE Typed'
  BY <1>0, <1>13, GotoTyped, TypesUnchanged DEF List, Typed
<1>14. ASSUME NEW w \in Workers, TakeClaim(w) PROVE Typed'
  <2>1. w \in Drivers /\ ClaimTyped'
    BY <1>0, <1>14, CapType, SMTT(30) DEF TakeClaim, Typed, ClaimTyped
  <2>2. Goto(w, "load") \/ Leave(w)
    BY <1>14 DEF TakeClaim
  <2>3. DriversTyped'
    BY <1>0, <2>1, <2>2, GotoTyped, LeaveTyped DEF Typed
  <2> QED
    BY <1>14, <2>1, <2>3, TypesUnchanged DEF TakeClaim, Typed
<1>15. ASSUME NEW w \in Workers, Resume(w) PROVE Typed'
  <2>1. w \in Drivers /\ ClaimTyped' /\ TimersTyped'
    BY <1>0, <1>15, RenewTyped, TimerReset, TypesUnchanged DEF Resume, Typed
  <2>2. Resumed(w) \in Drv /\ Resumed(w).comp \subseteq 1..Resumed(w).exec
    BY <1>0 DEF Resumed, Typed, RowTyped, Drv
  <2>3. DriversTyped'
    <3>1. CASE drv' = [drv EXCEPT ![w] = Resumed(w)]
      BY <2>2, <3>1 DEF Typed, DriversTyped
    <3>2. CASE Leave(w)
      BY <2>1, <3>2, LeaveTyped DEF Typed
    <3> QED
      BY <1>15, <3>1, <3>2 DEF Resume
  <2> QED
    BY <1>15, <2>1, <2>3, TypesUnchanged DEF Resume, Typed
<1>16. CASE Tick
  <2>1. RowTyped' /\ ClaimTyped'
    BY <1>16, OlderType DEF Tick, Typed, RowTyped, ClaimTyped
  <2>2. TimersTyped'
    BY <1>16, IntervalType, SMTT(30) DEF Tick, Typed, TimersTyped
  <2> QED
    BY <1>16, <2>1, <2>2, TypesUnchanged DEF Tick, Typed
<1>17. CASE UNCHANGED vars
  BY <1>17, TypesUnchanged DEF vars, Typed
<1> QED
  BY <1>1, <1>2, <1>3, <1>4, <1>5, <1>6, <1>7, <1>8, <1>9, <1>10, <1>11, <1>12, <1>13, <1>14, <1>15, <1>16, <1>17
     DEF Next, Drives, Recovers

-----------------------------------------------------------------------------
(* The lease                                                                 *)

\* A driver at work has a row.
LEMMA WorkHasRow ==
  ASSUME Inv, NEW w \in Drivers, drv[w].pc \notin {"idle", "create", "gone"}
  PROVE  row.status # "none"
BY DEF Inv, LeaseInv, Drivers

LEMMA TakeClaimLease ==
  ASSUME HeartbeatsInTime, Inv, NEW w \in Workers, TakeClaim(w)
  PROVE  LeaseInv'
<1>1. w \in Drivers /\ w # Runner /\ drv[w].pc = "claim"
  BY DEF TakeClaim, Drivers
<1>2. row.status # "none"
  BY <1>1, WorkHasRow
<1>3. CASE ~MayClaim(w, StaleAfterMs)
  <2>1. Left(w) /\ \A v \in Drivers \ {w} : drv'[v] = drv[v]
    BY <1>1, <1>3, LeaveTyped DEF TakeClaim, Inv, Typed
  <2> QED
    BY <1>1, <1>3, <2>1, GivesUp DEF TakeClaim
<1>4. CASE MayClaim(w, StaleAfterMs)
  <2>1. /\ claim' = [by |-> w, age |-> 0] /\ drv'[w].pc = "load"
        /\ \A v \in Drivers \ {w} : drv'[v] = drv[v]
        /\ UNCHANGED <<row, rowAge, hb>>
    BY <1>1, <1>4, GotoTyped DEF TakeClaim, Inv, Typed, Locations
  <2>2. ASSUME NEW v \in Drivers, Driving(v) PROVE FALSE
    <3>1. v # w /\ Holds(v)
      BY <1>1, <2>2 DEF Driving, Inv, LeaseInv
    <3>2. ~(Pg /\ Closed)
      BY <1>4 DEF MayClaim, Closed, Unfinished, Terminal
    <3>3. claim.by = v /\ claim.age <= hb[v]
      BY <1>1, <1>2, <3>1, <3>2 DEF Holds
    <3>4. claim.age < StaleAfterMs
      BY <3>3, IntervalType, SMTT(30) DEF HeartbeatsInTime, Inv, Typed, TimersTyped, ClaimTyped
    <3>5. claim.age \in Nat /\ Expired(StaleAfterMs)
      BY <1>4, <3>1, <3>3, SMTT(30) DEF MayClaim, Inv, Typed, ClaimTyped, Drivers
    <3> QED
      BY <3>4, <3>5, SMTT(30) DEF Expired
  <2>3. \A v \in Drivers \ {w} : drv[v].pc # "load"
    <3> SUFFICES ASSUME NEW v \in Drivers \ {w}, drv[v].pc = "load" PROVE FALSE
      OBVIOUS
    <3>1. claim = [by |-> v, age |-> 0]
      BY DEF Inv, LeaseInv
    <3> QED
      BY <1>4, <3>1, SMTT(30) DEF MayClaim, Expired, Drivers
  <2>4. \A v \in Drivers : ~Driving(v)' /\ (drv'[v].pc = "load" => v = w)
    BY <2>1, <2>2, <2>3 DEF Driving
  <2>5. drv'[Runner] = drv[Runner] /\ drv[Runner].pc \notin {"idle", "create", "claim", "load"}
    BY <1>1, <1>2, <2>1 DEF Inv, LeaseInv, Drivers
  <2>6. \A v \in Workers : drv'[v].pc \notin {"create", "gone"}
    BY <2>1 DEF Inv, LeaseInv, Drivers
  <2> QED
    BY <1>2, <2>1, <2>4, <2>5, <2>6 DEF LeaseInv
<1> QED
  BY <1>3, <1>4

LEMMA ListLease ==
  ASSUME HeartbeatsInTime, Inv, NEW w \in Workers, List(w)
  PROVE  LeaseInv'
<1>1. w \in Drivers /\ w # Runner /\ drv[w].pc = "idle"
  BY DEF List, Drivers
<1>2. /\ drv'[w].pc = "claim" /\ \A v \in Drivers \ {w} : drv'[v] = drv[v]
      /\ UNCHANGED <<row, rowAge, claim, hb>> /\ row.status \in Unfinished /\ rowAge >= StaleAfterMs
  BY <1>1, GotoTyped DEF List, Inv, Typed, Locations
<1>3. ASSUME NEW v \in Drivers, Driving(v)' PROVE Holds(v)'
  <2>1. v # w /\ Holds(v)
    BY <1>2, <1>3 DEF Driving, Inv, LeaseInv
  <2>2. rowAge > hb[v]
    BY <1>2, IntervalType, SMTT(30) DEF HeartbeatsInTime, Inv, Typed, TimersTyped, RowTyped
  <2>3. claim.by = v /\ claim.age <= hb[v]
    BY <1>2, <2>1, <2>2, SMTT(30) DEF Holds, Closed, Unfinished, Terminal, Inv, Typed, TimersTyped, RowTyped
  <2> QED
    BY <1>2, <2>3 DEF Holds
<1>4. \A v \in Drivers : drv'[v].pc = "load" => drv[v].pc = "load"
  BY <1>2
<1>5. row.status # "none"
  BY <1>2 DEF Unfinished
<1>6. drv'[Runner] = drv[Runner] /\ \A v \in Workers : drv'[v].pc \notin {"create", "gone"}
  BY <1>1, <1>2 DEF Inv, LeaseInv, Drivers
<1> QED
  BY <1>2, <1>3, <1>4, <1>5, <1>6 DEF Inv, LeaseInv

LEMMA HeartbeatLease ==
  ASSUME Inv, NEW w \in Drivers, Heartbeat(w)
  PROVE  LeaseInv'
<1>1. Driving(w) /\ Renew(w) /\ UNCHANGED <<row, rowAge, drv>> /\ hb' = [hb EXCEPT ![w] = 0]
  BY DEF Heartbeat
<1>2. Alone(w) /\ Holds(w)
  BY <1>1, PastClaimAlone DEF Inv, PastClaim, LeaseInv
<1>3. hb'[w] = 0 /\ 0 <= 0
  BY <1>1, SMTT(30) DEF Inv, Typed, TimersTyped
<1>4. Holds(w)'
  <2>1. CASE MayClaim(w, LeaseOf(w))
    BY <1>1, <1>3, <2>1 DEF Renew, Holds
  <2>2. CASE ~MayClaim(w, LeaseOf(w))
    <3>1. claim' = claim /\ Pg /\ row.status \notin Unfinished
      BY <1>1, <1>2, <2>2 DEF Renew, MayClaim, Holds
    <3>2. row.status = "none" \/ Closed
      BY <3>1 DEF Inv, Typed, RowTyped, Statuses, Closed, Terminal
    <3>3. CASE Closed
      BY <1>1, <1>2, <3>1, <3>3 DEF Holds, Closed
    <3>4. CASE row.status = "none"
      BY <1>1, <1>2, <3>1, <3>4 DEF Holds, Inv, LeaseInv, Drivers
    <3> QED
      BY <3>2, <3>3, <3>4
  <2> QED
    BY <2>1, <2>2
<1>5. \A v \in Drivers : /\ Driving(v)' => v = w
                         /\ drv'[v].pc # "load"
  BY <1>1, <1>2 DEF Alone, Driving
<1>6. drv[Runner].pc = "idle" => FALSE
  BY <1>1 DEF Inv, LeaseInv, Driving, Drivers
<1>7. Pg /\ row.status = "none" => claim'.by = NoOne
  BY <1>1 DEF Renew, MayClaim, Unfinished, Inv, LeaseInv
<1> QED
  BY <1>1, <1>4, <1>5, <1>6, <1>7 DEF Inv, LeaseInv

LEMMA RunLease ==
  ASSUME Inv, Run
  PROVE  LeaseInv'
<1>1. /\ drv[Runner].pc = "idle" /\ row.status = "none" /\ claim.by = NoOne
      /\ \A v \in Workers : drv[v].pc = "idle"
  BY DEF Run, Inv, LeaseInv
<1>2. /\ Runner \in Drivers /\ drv'[Runner].pc = "create"
      /\ \A v \in Workers : drv'[v] = drv[v]
      /\ UNCHANGED <<row, rowAge>>
  BY GotoTyped DEF Run, Inv, Typed, Locations, Drivers
<1>3. (claim' = [by |-> Runner, age |-> 0] /\ ~Pg) \/ claim' = claim
  BY <1>1 DEF Run, Renew, MayClaim, Unfinished
<1>4. hb'[Runner] = 0 /\ 0 <= 0
  BY <1>2, SMTT(30) DEF Run, Inv, Typed, TimersTyped
<1>5. Holds(Runner)'
  BY <1>1, <1>2, <1>3, <1>4, SMTT(30) DEF Holds
<1>6. \A v \in Drivers : /\ Driving(v)' => v = Runner
                         /\ drv'[v].pc # "load"
  BY <1>1, <1>2 DEF Driving, Drivers
<1>7. Pg => claim'.by = NoOne
  BY <1>1, <1>3
<1> QED
  BY <1>1, <1>2, <1>5, <1>6, <1>7 DEF LeaseInv

LEMMA ResumeLease ==
  ASSUME Inv, NEW w \in Workers, Resume(w)
  PROVE  LeaseInv'
<1>1. w \in Drivers /\ w # Runner /\ drv[w].pc = "load" /\ UNCHANGED <<row, rowAge>>
  BY DEF Resume, Drivers
<1>2. PastClaim(w) /\ Alone(w) /\ claim = [by |-> w, age |-> 0] /\ row.status # "none"
  BY <1>1, PastClaimAlone, WorkHasRow DEF Inv, LeaseInv, PastClaim
<1>3. CASE row.status \notin Unfinished
  <2>1. Left(w) /\ \A v \in Drivers \ {w} : drv'[v] = drv[v]
    BY <1>1, <1>3, LeaveTyped DEF Resume, Inv, Typed
  <2> QED
    BY <1>1, <1>2, <2>1, Leaves
<1>4. CASE row.status \in Unfinished
  <2>1. claim' = [by |-> w, age |-> 0] /\ row.status # "deleted"
    BY <1>2, <1>4 DEF Resume, Renew, MayClaim, Unfinished
  <2>2. /\ drv'[w] = Resumed(w)
        /\ \A v \in Drivers \ {w} : drv'[v] = drv[v]
    BY <1>1, <1>4 DEF Resume, Inv, Typed, DriversTyped
  <2>3. hb'[w] = 0 /\ 0 <= 0
    BY <1>1, SMTT(30) DEF Resume, Inv, Typed, TimersTyped
  <2>4. Holds(w)' /\ drv'[w].pc \in {"saveFail", "exec"}
    BY <2>1, <2>2, <2>3, SMTT(30) DEF Holds, Resumed
  <2>5. \A v \in Drivers \ {w} : ~Driving(v)' /\ drv'[v].pc # "load"
    BY <1>2, <2>2 DEF Alone, Driving
  <2>6. drv'[Runner] = drv[Runner] /\ drv[Runner].pc \notin {"idle", "create", "claim", "load"}
    BY <1>1, <1>2, <2>2 DEF Inv, LeaseInv, Drivers
  <2>7. \A v \in Workers : drv'[v].pc \notin {"create", "gone"}
    BY <2>2, <2>4 DEF Inv, LeaseInv, Drivers
  <2> QED
    BY <1>1, <1>2, <2>4, <2>5, <2>6, <2>7 DEF LeaseInv
<1> QED
  BY <1>3, <1>4

LEMMA TickLease ==
  ASSUME Inv, Tick
  PROVE  LeaseInv'
<1>1. UNCHANGED <<row, drv>> /\ claim'.by = claim.by /\ \A v \in Drivers : drv[v].pc # "load"
  BY DEF Tick, Inv, Typed, ClaimTyped
<1>2. /\ rowAge \in Nat /\ rowAge' \in Nat /\ rowAge' <= rowAge + 1
      /\ claim.age \in Nat /\ claim'.age \in Nat /\ claim'.age <= claim.age + 1
  BY OlderType, CapType, SMTT(30) DEF Tick, Inv, Typed, ClaimTyped, RowTyped
<1>3. ASSUME NEW v \in Drivers, Driving(v)' PROVE Holds(v)'
  <2>1. Driving(v) /\ Holds(v)
    BY <1>1, <1>3 DEF Driving, Inv, LeaseInv
  <2>2. hb'[v] = hb[v] + 1 /\ hb[v] \in Nat
    BY <2>1 DEF Tick, Inv, Typed, TimersTyped
  <2>3. claim.age <= hb[v] => claim'.age <= hb'[v]
    BY <1>2, <2>2, SMTT(30)
  <2>4. rowAge <= hb[v] => rowAge' <= hb'[v]
    BY <1>2, <2>2, SMTT(30)
  <2> QED
    BY <1>1, <2>1, <2>3, <2>4 DEF Holds, Closed
<1> QED
  BY <1>1, <1>3 DEF Inv, LeaseInv

\* A crash takes the lease of the driver that crashed, and no other.
LEMMA CrashLease ==
  ASSUME Inv, NEW w \in Drivers, Crash(w)
  PROVE  LeaseInv'
<1>1. /\ Left(w) /\ UNCHANGED <<row, rowAge>>
      /\ \A v \in Drivers \ {w} : drv'[v] = drv[v] /\ hb'[v] = hb[v]
      /\ claim' = claim \/ claim.by = w
  BY LeaveTyped DEF Crash, Inv, Typed, TimersTyped
<1>2. CASE drv[w].pc = "claim"
  BY <1>1, <1>2, GivesUp
<1>3. CASE drv[w].pc # "claim"
  <2>1. PastClaim(w)
    BY <1>3 DEF Crash, PastClaim, Driving
  <2> QED
    BY <1>1, <2>1, Leaves
<1> QED
  BY <1>2, <1>3

LEMMA StoreFailsLease ==
  ASSUME Inv, Typed', NEW w \in Drivers, StoreFails(w)
  PROVE  LeaseInv'
<1>1. UNCHANGED <<row, rowAge, claim, hb>>
  BY DEF StoreFails
<1>2. CASE Leave(w) /\ drv[w].pc \notin {"idle", "gone"}
  <2>1. Left(w) /\ \A v \in Drivers \ {w} : drv'[v] = drv[v] /\ hb'[v] = hb[v]
    BY <1>1, <1>2, LeaveTyped DEF Inv, Typed
  <2>2. CASE drv[w].pc = "claim"
    BY <1>1, <2>1, <2>2, GivesUp
  <2>3. CASE drv[w].pc # "claim"
    <3>1. PastClaim(w)
      BY <1>2, <2>3 DEF PastClaim, Driving
    <3> QED
      BY <1>1, <2>1, <3>1, Leaves
  <2> QED
    BY <2>2, <2>3
<1>3. CASE /\ Goto(w, "saveFail") \/ Goto(w, "comp")
           /\ drv[w].pc \in {"saveStep", "saveComp"}
  <2>1. /\ drv'[w].pc \in {"saveFail", "comp"}
        /\ \A v \in Drivers \ {w} : drv'[v] = drv[v]
    BY <1>3, GotoTyped DEF Inv, Typed, Locations
  <2>2. Driving(w) /\ row.status # "none"
    BY <1>3, WorkHasRow DEF Driving
  <2> QED
    BY <1>1, <2>1, <2>2, GoesOn DEF Closed
<1>4. \/ Leave(w) /\ drv[w].pc \notin {"idle", "gone"}
      \/ /\ Goto(w, "saveFail") \/ Goto(w, "comp")
         /\ drv[w].pc \in {"saveStep", "saveComp"}
  BY DEF StoreFails
<1> QED
  BY <1>2, <1>3, <1>4

\* What a driver that goes on saves is not closed before it does.
LEMMA DriverLease ==
  ASSUME Inv, Typed', NEW w \in Drivers, Drives(w)
  PROVE  LeaseInv'
<1>1. Driving(w) /\ row.status # "none"
  BY WorkHasRow DEF Drives, Execute, SaveStep, SaveSuccess, Delete, SaveCompensating, Compensate,
                    SaveCompensated, SaveVerdict, Driving
<1>2. CASE Execute(w) \/ Compensate(w)
  <2>1. UNCHANGED <<row, rowAge, claim, hb>>
    BY <1>2 DEF Execute, Compensate
  <2>2. /\ drv'[w].pc \in {"saveStep", "saveFail", "saveComp", "comp"}
        /\ \A v \in Drivers \ {w} : drv'[v] = drv[v]
    BY <1>2, SMTT(30) DEF Execute, Compensate, Goto, Inv, Typed, DriversTyped, Drv
  <2> QED
    BY <1>1, <2>1, <2>2, GoesOn DEF Closed
<1>3. CASE SaveStep(w) \/ SaveCompensating(w) \/ SaveCompensated(w) \/ SaveSuccess(w)
  <2>1. UNCHANGED <<claim, hb>> /\ row'.status # "none" /\ rowAge' = 0
    BY <1>3, SMTT(30) DEF SaveStep, SaveCompensating, SaveCompensated, SaveSuccess, Save
  <2>2. Goto(w, "exec") \/ Goto(w, "comp") \/ Goto(w, "delete")
    BY <1>3 DEF SaveStep, SaveCompensating, SaveCompensated, SaveSuccess
  <2>3. /\ drv'[w].pc \in {"exec", "comp", "delete"}
        /\ \A v \in Drivers \ {w} : drv'[v] = drv[v]
    BY <2>2, GotoTyped DEF Inv, Typed, Locations
  <2>4. Agrees(w) /\ drv[w].pc \in {"saveStep", "saveFail", "saveComp", "exec"}
    BY <1>3 DEF SaveStep, SaveCompensating, SaveCompensated, SaveSuccess, Inv, EffectInv
  <2>5. ~Closed
    BY <2>4 DEF Agrees, Closed, Unfinished, Terminal
  <2> QED
    BY <1>1, <2>1, <2>3, <2>5, GoesOn
<1>4. CASE Delete(w) \/ SaveVerdict(w)
  <2>1. Leave(w) /\ row'.status # "none"
    BY <1>4, SMTT(30) DEF Delete, SaveVerdict, Save, Verdict, Inv, Typed, RowTyped
  <2> QED
    BY <1>1, <2>1, LeaveTyped, Leaves DEF PastClaim, Inv, Typed
<1> QED
  BY <1>2, <1>3, <1>4 DEF Drives

LEMMA CreateLease ==
  ASSUME Inv, Typed', Create
  PROVE  LeaseInv'
<1>1. Runner \in Drivers /\ Driving(Runner)
  BY DEF Create, Drivers, Driving
<1>2. /\ drv'[Runner].pc = "exec" /\ row'.status = "pending" /\ rowAge' = 0
      /\ \A v \in Drivers \ {Runner} : drv'[v] = drv[v]
      /\ UNCHANGED <<claim, hb>>
  BY <1>1, GotoTyped DEF Create, Save, Inv, Typed, Locations
<1>3. ~Closed
  BY DEF Create, Inv, LeaseInv, Closed, Terminal
<1> QED
  BY <1>1, <1>2, <1>3, GoesOn

LEMMA NextLease ==
  ASSUME HeartbeatsInTime, Inv, Typed', [Next]_vars
  PROVE  LeaseInv'
<1>1. CASE UNCHANGED vars
  BY <1>1 DEF vars, Inv, LeaseInv, Holds, Closed, Driving
<1> QED
  BY <1>1, RunLease, CreateLease, DriverLease, StoreFailsLease, HeartbeatLease, CrashLease,
     ListLease, TakeClaimLease, ResumeLease, TickLease DEF Next, Recovers

-----------------------------------------------------------------------------
(* The effects                                                               *)

\* A step of the one driver leaves what the others know alone.
LEMMA DriverSteps ==
  ASSUME Inv, NEW w \in Drivers, PastClaim(w), \A v \in Drivers \ {w} : drv'[v] = drv[v],
         Agrees(w)', RowTrue'
  PROVE  EffectInv'
<1>1. Alone(w)
  BY PastClaimAlone DEF Inv
<1>2. ASSUME NEW v \in Drivers, v # w PROVE Agrees(v)'
  <2>1. drv'[v] = drv[v] /\ drv[v].pc \in {"idle", "claim", "gone"} /\ Agrees(v)
    BY <1>1, <1>2 DEF Alone, Inv, EffectInv
  <2> QED
    BY <2>1 DEF Agrees
<1> QED
  BY <1>2 DEF EffectInv

\* Drivers come and go, the row and the world stay.
LEMMA QuietStep ==
  ASSUME Inv, UNCHANGED <<row, effect>>,
         \A v \in Drivers : \/ drv'[v] = drv[v] \/ drv'[v] = Away
                            \/ drv'[v].pc \in {"claim", "load", "gone"}
  PROVE  EffectInv'
<1>1. RowTrue'
  BY DEF Inv, EffectInv, RowTrue
<1>2. ASSUME NEW v \in Drivers PROVE Agrees(v)'
  <2>1. CASE drv'[v] = drv[v]
    BY <2>1, ZenonT(60) DEF Agrees, Inv, EffectInv
  <2>2. CASE drv'[v] = Away
    BY <2>2, SMTT(30) DEF Agrees, Away
  <2>3. CASE drv'[v].pc \in {"claim", "load", "gone"}
    BY <2>3 DEF Agrees
  <2> QED
    BY <2>1, <2>2, <2>3
<1> QED
  BY <1>1, <1>2 DEF EffectInv

LEMMA LeftQuietly ==
  ASSUME NEW w \in Drivers, Left(w)
  PROVE  drv'[w] = Away \/ drv'[w].pc \in {"claim", "load", "gone"}
BY DEF Left, Away

LEMMA GotoKeeps ==
  ASSUME Typed, NEW w \in Drivers, NEW pc \in Locations, Goto(w, pc)
  PROVE  /\ drv'[w].pc = pc /\ drv'[w].exec = drv[w].exec
         /\ drv'[w].comp = drv[w].comp /\ drv'[w].failed = drv[w].failed
         /\ \A v \in Drivers \ {w} : drv'[v] = drv[v]
BY DEF Typed, DriversTyped, Drv, Goto

LEMMA RunEffect ==
  ASSUME Inv, Run
  PROVE  EffectInv'
<1>1. Runner \in Drivers /\ drv[Runner] = Away
  BY DEF Run, Inv, EffectInv, Agrees, Drivers
<1>2. /\ drv'[Runner] = [Away EXCEPT !.pc = "create"]
      /\ \A v \in Drivers \ {Runner} : drv'[v] = drv[v]
  BY <1>1, GotoTyped DEF Run, Inv, Typed, Locations
<1>3. Agrees(Runner)'
  BY <1>2 DEF Agrees, Away
<1>4. RowTrue'
  BY DEF Run, Inv, EffectInv, RowTrue
<1>5. \A v \in Drivers \ {Runner} : drv[v].pc = "idle" /\ drv[v] = Away
  BY DEF Run, Inv, LeaseInv, EffectInv, Agrees, Drivers
<1>6. \A v \in Drivers \ {Runner} : Agrees(v)'
  BY <1>2, <1>5 DEF Agrees, Away
<1> QED
  BY <1>3, <1>4, <1>6 DEF EffectInv

LEMMA CreateEffect ==
  ASSUME Inv, Create
  PROVE  EffectInv'
<1>1. Runner \in Drivers /\ PastClaim(Runner) /\ row.status = "none"
  BY DEF Create, Inv, LeaseInv, Drivers, PastClaim, Driving
<1>2. drv[Runner].exec = 0 /\ drv[Runner].comp = {} /\ drv[Runner].failed = {} /\ effect = {}
  BY <1>1, SMTT(30) DEF Create, Inv, EffectInv, RowTrue, Agrees, Away
<1>3. /\ drv'[Runner].pc = "exec" /\ drv'[Runner].exec = 0
      /\ drv'[Runner].comp = {} /\ drv'[Runner].failed = {}
      /\ \A v \in Drivers \ {Runner} : drv'[v] = drv[v]
  BY <1>1, <1>2, GotoKeeps DEF Create, Inv, Locations
<1>4. row'.status = "pending" /\ row'.exec = 0 /\ row'.comp = {} /\ effect' = {}
  BY <1>2 DEF Create, Save
<1>5. Agrees(Runner)'
  BY <1>3, <1>4 DEF Agrees
<1>6. RowTrue'
  BY <1>4, SMTT(30) DEF RowTrue, Unfinished
<1> QED
  BY <1>1, <1>3, <1>5, <1>6, DriverSteps

LEMMA ExecuteEffect ==
  ASSUME Inv, NEW w \in Drivers, Execute(w)
  PROVE  EffectInv'
<1>1. PastClaim(w) /\ drv[w].pc = "exec" /\ row' = row
  BY DEF Execute, PastClaim, Driving
<1>2. /\ row.status = "pending" /\ drv[w].exec = row.exec /\ drv[w].comp = {} /\ drv[w].failed = {}
      /\ 1..row.exec \subseteq effect /\ row.comp = {} /\ effect \subseteq 1..(row.exec + 1)
      /\ row.exec \in Nat
  BY <1>1, SMTT(30) DEF Inv, EffectInv, Agrees, RowTrue, Unfinished, Typed, RowTyped
<1>3. effect \subseteq effect' /\ effect' \subseteq effect \cup {row.exec + 1}
  BY <1>2 DEF Execute
<1>4. RowTrue'
  <2>1. 1..row.exec \subseteq effect' /\ effect' \subseteq 1..(row.exec + 1)
    BY <1>2, <1>3, SMTT(30)
  <2> QED
    BY <1>1, <1>2, <2>1 DEF RowTrue
<1>5. CASE Goto(w, "saveFail")
  <2>1. /\ drv'[w].pc = "saveFail" /\ drv'[w].exec = row.exec /\ drv'[w].comp = {}
        /\ \A v \in Drivers \ {w} : drv'[v] = drv[v]
    BY <1>2, <1>5, GotoKeeps DEF Inv, Locations
  <2>2. Agrees(w)'
    BY <1>1, <1>2, <2>1 DEF Agrees, Unfinished
  <2> QED
    BY <1>1, <1>4, <2>1, <2>2, DriverSteps
<1>6. CASE /\ effect' = effect \cup {drv[w].exec + 1}
           /\ drv' = [drv EXCEPT ![w].exec = @ + 1, ![w].pc = "saveStep"]
  <2>1. /\ drv'[w].pc = "saveStep" /\ drv'[w].exec = row.exec + 1
        /\ drv'[w].comp = {} /\ drv'[w].failed = {}
        /\ \A v \in Drivers \ {w} : drv'[v] = drv[v]
    <3>1. /\ drv[w] \in Drv /\ drv'[w] = [drv[w] EXCEPT !.exec = @ + 1, !.pc = "saveStep"]
          /\ \A v \in Drivers \ {w} : drv'[v] = drv[v]
      BY <1>6 DEF Inv, Typed, DriversTyped
    <3> QED
      BY <1>2, <3>1, ZenonT(60) DEF Drv
  <2>2. row'.status = "pending" /\ row'.exec = row.exec /\ row.exec + 1 \in effect'
    BY <1>1, <1>2, <1>6
  <2>3. Agrees(w)'
    BY <2>1, <2>2 DEF Agrees
  <2> QED
    BY <1>1, <1>4, <2>1, <2>3, DriverSteps
<1> QED
  BY <1>5, <1>6 DEF Execute

LEMMA SaveStepEffect ==
  ASSUME Inv, NEW w \in Drivers, SaveStep(w)
  PROVE  EffectInv'
<1>1. PastClaim(w) /\ drv[w].pc = "saveStep" /\ effect' = effect
  BY DEF SaveStep, PastClaim, Driving
<1>2. /\ row.status = "pending" /\ drv[w].exec = row.exec + 1 /\ drv[w].exec \in effect
      /\ drv[w].comp = {} /\ drv[w].failed = {}
      /\ 1..row.exec \subseteq effect /\ effect \subseteq 1..(row.exec + 1) /\ row.exec \in Nat
  BY <1>1, SMTT(30) DEF Inv, EffectInv, Agrees, RowTrue, Unfinished, Typed, RowTyped
<1>3. /\ drv'[w].pc = "exec" /\ drv'[w].exec = row.exec + 1 /\ drv'[w].comp = {} /\ drv'[w].failed = {}
      /\ \A v \in Drivers \ {w} : drv'[v] = drv[v]
  BY <1>2, GotoKeeps DEF SaveStep, Inv, Locations
<1>4. row'.status = "pending" /\ row'.exec = row.exec + 1 /\ row'.comp = {}
  BY <1>2 DEF SaveStep, Save
<1>5. 1..(row.exec + 1) \subseteq effect /\ effect \subseteq 1..(row.exec + 1 + 1)
  BY <1>2, SMTT(30)
<1>6. RowTrue'
  BY <1>1, <1>4, <1>5 DEF RowTrue
<1>7. Agrees(w)'
  BY <1>3, <1>4 DEF Agrees
<1> QED
  BY <1>1, <1>3, <1>6, <1>7, DriverSteps

LEMMA SaveSuccessEffect ==
  ASSUME Inv, NEW w \in Drivers, SaveSuccess(w)
  PROVE  EffectInv'
<1>1. PastClaim(w) /\ drv[w].pc = "exec" /\ effect' = effect /\ drv[w].exec = N
  BY DEF SaveSuccess, PastClaim, Driving
<1>2. row.status = "pending" /\ row.exec = N /\ 1..N \subseteq effect /\ effect \subseteq Steps
  BY <1>1 DEF Inv, EffectInv, Agrees, RowTrue, Typed
<1>3. drv'[w].pc = "delete" /\ \A v \in Drivers \ {w} : drv'[v] = drv[v]
  BY GotoKeeps DEF SaveSuccess, Inv, Locations
<1>4. row'.status = "success"
  BY DEF SaveSuccess, Save
<1>5. RowTrue'
  BY <1>1, <1>2, <1>4 DEF RowTrue, Unfinished, Steps
<1>6. Agrees(w)'
  BY <1>3, <1>4 DEF Agrees
<1> QED
  BY <1>1, <1>3, <1>5, <1>6, DriverSteps

LEMMA DeleteEffect ==
  ASSUME Inv, NEW w \in Drivers, Delete(w)
  PROVE  EffectInv'
<1>1. PastClaim(w) /\ drv[w].pc = "delete" /\ effect' = effect
  BY DEF Delete, PastClaim, Driving
<1>2. row.status = "success" /\ effect = Steps
  BY <1>1 DEF Inv, EffectInv, Agrees, RowTrue
<1>3. Left(w) /\ \A v \in Drivers \ {w} : drv'[v] = drv[v]
  BY LeaveTyped DEF Delete, Inv, Typed
<1>4. row'.status = "deleted"
  BY DEF Delete, Inv, Typed, RowTyped
<1>5. RowTrue'
  BY <1>1, <1>2, <1>4 DEF RowTrue, Unfinished
<1>6. Agrees(w)'
  BY <1>3, SMTT(30) DEF Agrees, Left, Away
<1> QED
  BY <1>1, <1>3, <1>5, <1>6, DriverSteps

LEMMA SaveCompEffect ==
  ASSUME Inv, NEW w \in Drivers, SaveCompensating(w) \/ SaveCompensated(w)
  PROVE  EffectInv'
<1>1. PastClaim(w) /\ drv[w].pc \in {"saveFail", "saveComp"} /\ effect' = effect
  BY DEF SaveCompensating, SaveCompensated, PastClaim, Driving
<1>2. /\ row.status \in Unfinished /\ drv[w].exec \in {row.exec, row.exec + 1}
      /\ effect \cap drv[w].comp = {} /\ effect \subseteq 1..(row.exec + 1) /\ row.exec \in Nat
  BY <1>1, SMTT(30) DEF Inv, EffectInv, Agrees, RowTrue, Unfinished, Typed, RowTyped
<1>3. /\ drv'[w].pc = "comp" /\ drv'[w].exec = drv[w].exec /\ drv'[w].comp = drv[w].comp
      /\ \A v \in Drivers \ {w} : drv'[v] = drv[v]
  BY GotoKeeps DEF SaveCompensating, SaveCompensated, Inv, Locations
<1>4. row'.status = "compensating" /\ row'.exec = drv[w].exec /\ row'.comp = drv[w].comp
  BY SMTT(30) DEF SaveCompensating, SaveCompensated, Save
<1>5. effect \subseteq 1..(drv[w].exec + 1)
  BY <1>2, SMTT(30)
<1>6. RowTrue'
  BY <1>1, <1>2, <1>4, <1>5 DEF RowTrue
<1>7. Agrees(w)'
  BY <1>1, <1>2, <1>3, <1>4 DEF Agrees
<1> QED
  BY <1>1, <1>3, <1>6, <1>7, DriverSteps

\* The step that is undone next.
LEMMA UndoneNext ==
  ASSUME NEW w \in Drivers, ToUndo(w) # {}
  PROVE  NextToUndo(w) \in ToUndo(w) /\ \A j \in ToUndo(w) : j <= NextToUndo(w)
<1>1. ToUndo(w) \in SUBSET Steps
  BY DEF ToUndo
<1> QED
  BY <1>1, LastStep DEF NextToUndo

LEMMA CompensateEffect ==
  ASSUME Inv, NEW w \in Drivers, Compensate(w)
  PROVE  EffectInv'
<1>1. PastClaim(w) /\ drv[w].pc = "comp" /\ row' = row
  BY DEF Compensate, PastClaim, Driving
<1>2. /\ row.status = "compensating" /\ drv[w].exec = row.exec /\ row.comp \subseteq drv[w].comp
      /\ effect \cap drv[w].comp = {}
  BY <1>1 DEF Inv, EffectInv, Agrees
<1>3. effect' \subseteq effect /\ row.status \in Unfinished
  BY <1>2 DEF Compensate, Unfinished
<1>4. RowTrue'
  BY <1>1, <1>2, <1>3 DEF Inv, EffectInv, RowTrue
<1>5. /\ drv'[w].pc \in {"comp", "saveComp"} /\ drv'[w].exec = drv[w].exec
      /\ drv[w].comp \subseteq drv'[w].comp /\ effect' \cap drv'[w].comp = {}
      /\ \A v \in Drivers \ {w} : drv'[v] = drv[v]
  <2>1. CASE /\ effect' = effect \ {NextToUndo(w)}
             /\ drv' = [drv EXCEPT ![w].comp = @ \cup {NextToUndo(w)}, ![w].pc = "saveComp"]
    <3>1. /\ drv[w] \in Drv /\ drv'[w] = [drv[w] EXCEPT !.comp = @ \cup {NextToUndo(w)}, !.pc = "saveComp"]
          /\ \A v \in Drivers \ {w} : drv'[v] = drv[v]
      BY <2>1 DEF Inv, Typed, DriversTyped
    <3>2. drv'[w].pc = "saveComp" /\ drv'[w].exec = drv[w].exec /\ drv'[w].comp = drv[w].comp \cup {NextToUndo(w)}
      BY <3>1 DEF Drv
    <3> QED
      BY <1>2, <2>1, <3>1, <3>2
  <2>2. CASE effect' = effect /\ drv' = [drv EXCEPT ![w].failed = @ \cup {NextToUndo(w)}]
    <3>1. /\ drv[w] \in Drv /\ drv'[w] = [drv[w] EXCEPT !.failed = @ \cup {NextToUndo(w)}]
          /\ \A v \in Drivers \ {w} : drv'[v] = drv[v]
      BY <2>2 DEF Inv, Typed, DriversTyped
    <3>2. drv'[w].pc = "comp" /\ drv'[w].exec = drv[w].exec /\ drv'[w].comp = drv[w].comp
      BY <1>1, <3>1 DEF Drv
    <3> QED
      BY <1>2, <2>2, <3>1, <3>2
  <2> QED
    BY <2>1, <2>2 DEF Compensate
<1>6. Agrees(w)'
  BY <1>1, <1>2, <1>5 DEF Agrees
<1> QED
  BY <1>1, <1>4, <1>5, <1>6, DriverSteps

\* Nothing is left to undo: only the effect of a step that failed can remain.
LEMMA SaveVerdictEffect ==
  ASSUME Inv, NEW w \in Drivers, SaveVerdict(w)
  PROVE  EffectInv'
<1>1. PastClaim(w) /\ drv[w].pc = "comp" /\ effect' = effect /\ ToUndo(w) = {}
  BY DEF SaveVerdict, PastClaim, Driving
<1>2. /\ row.status \in Unfinished /\ drv[w].exec = row.exec /\ effect \cap drv[w].comp = {}
      /\ effect \subseteq 1..(row.exec + 1) /\ row.exec \in Nat
  BY <1>1, SMTT(30) DEF Inv, EffectInv, Agrees, RowTrue, Unfinished, Typed, RowTyped
<1>3. Left(w) /\ \A v \in Drivers \ {w} : drv'[v] = drv[v]
  BY LeaveTyped DEF SaveVerdict, Inv, Typed
<1>4. row'.status = Verdict(w) /\ row'.exec = drv[w].exec
  BY DEF SaveVerdict, Save
<1>5. Verdict(w) = "compensated" => effect \cap Compensable \subseteq {row.exec + 1}
  <2> SUFFICES ASSUME drv[w].failed = {}, NEW i \in effect \cap Compensable, i # row.exec + 1 PROVE FALSE
    BY DEF Verdict
  <2>1. i \in 1..(row.exec + 1) /\ i <= drv[w].exec
    BY <1>2, SMTT(30)
  <2>2. i \in ToUndo(w)
    BY <1>2, <2>1 DEF ToUndo
  <2> QED
    BY <1>1, <2>2
<1>6. RowTrue'
  BY <1>1, <1>2, <1>4, <1>5 DEF RowTrue, Verdict, Unfinished
<1>7. Agrees(w)'
  BY <1>3, SMTT(30) DEF Agrees, Left, Away
<1> QED
  BY <1>1, <1>3, <1>6, <1>7, DriverSteps

LEMMA StoreFailsEffect ==
  ASSUME Inv, NEW w \in Drivers, StoreFails(w)
  PROVE  EffectInv'
<1>1. UNCHANGED <<row, effect>>
  BY DEF StoreFails
<1>2. CASE Leave(w)
  <2>1. Left(w) /\ \A v \in Drivers \ {w} : drv'[v] = drv[v]
    BY <1>2, LeaveTyped DEF Inv, Typed
  <2> QED
    BY <1>1, <2>1, LeftQuietly, QuietStep
<1>3. CASE \/ drv[w].pc = "saveStep" /\ Goto(w, "saveFail")
           \/ drv[w].pc = "saveComp" /\ Goto(w, "comp")
  <2>1. /\ \/ drv[w].pc = "saveStep" /\ drv'[w].pc = "saveFail"
           \/ drv[w].pc = "saveComp" /\ drv'[w].pc = "comp"
        /\ drv'[w].exec = drv[w].exec /\ drv'[w].comp = drv[w].comp /\ drv'[w].failed = drv[w].failed
        /\ \A v \in Drivers \ {w} : drv'[v] = drv[v]
    BY <1>3, GotoKeeps DEF Inv, Locations
  <2>2. PastClaim(w) /\ Agrees(w) /\ RowTrue
    BY <2>1 DEF PastClaim, Driving, Inv, EffectInv
  <2>3. Agrees(w)'
    <3>1. CASE drv[w].pc = "saveStep"
      <4>1. /\ row.status = "pending" /\ drv[w].exec = row.exec + 1 /\ drv[w].comp = {} /\ row.comp = {}
        BY <2>2, <3>1 DEF Agrees, RowTrue
      <4> QED
        BY <1>1, <2>1, <3>1, <4>1 DEF Agrees, Unfinished
    <3>2. CASE drv[w].pc = "saveComp"
      BY <1>1, <2>1, <2>2, <3>2 DEF Agrees
    <3> QED
      BY <2>1, <3>1, <3>2
  <2>4. RowTrue'
    BY <1>1, <2>2 DEF RowTrue
  <2> QED
    BY <2>1, <2>2, <2>3, <2>4, DriverSteps
<1> QED
  BY <1>2, <1>3 DEF StoreFails

LEMMA ResumeEffect ==
  ASSUME Inv, NEW w \in Workers, Resume(w)
  PROVE  EffectInv'
<1>1. w \in Drivers /\ PastClaim(w) /\ UNCHANGED <<row, effect>>
  BY DEF Resume, Drivers, PastClaim
<1>2. CASE row.status \notin Unfinished
  <2>1. Left(w) /\ \A v \in Drivers \ {w} : drv'[v] = drv[v]
    BY <1>1, <1>2, LeaveTyped DEF Resume, Inv, Typed
  <2> QED
    BY <1>1, <2>1, LeftQuietly, QuietStep
<1>3. CASE row.status \in Unfinished
  <2>1. drv'[w] = Resumed(w) /\ \A v \in Drivers \ {w} : drv'[v] = drv[v]
    BY <1>1, <1>3 DEF Resume, Inv, Typed, DriversTyped
  <2>2. RowTrue /\ RowTrue'
    BY <1>1 DEF RowTrue, Inv, EffectInv
  <2>3. Agrees(w)'
    BY <1>1, <1>3, <2>1, <2>2, SMTT(30) DEF Agrees, Resumed, RowTrue, Unfinished
  <2> QED
    BY <1>1, <2>1, <2>2, <2>3, DriverSteps
<1> QED
  BY <1>2, <1>3

LEMMA NextEffect ==
  ASSUME Inv, [Next]_vars
  PROVE  EffectInv'
<1>1. CASE UNCHANGED vars \/ Tick \/ \E w \in Drivers : Heartbeat(w)
  BY <1>1, QuietStep DEF vars, Tick, Heartbeat
<1>2. ASSUME NEW w \in Drivers, Crash(w) PROVE EffectInv'
  BY <1>2, LeaveTyped, LeftQuietly, QuietStep DEF Crash, Inv, Typed
<1>3. ASSUME NEW w \in Workers, List(w) \/ TakeClaim(w) PROVE EffectInv'
  <2>1. w \in Drivers /\ UNCHANGED <<row, effect>>
    BY <1>3 DEF List, TakeClaim, Drivers
  <2>2. Goto(w, "claim") \/ Goto(w, "load") \/ Leave(w)
    BY <1>3 DEF List, TakeClaim
  <2>3. /\ drv'[w] = Away \/ drv'[w].pc \in {"claim", "load", "gone"}
        /\ \A v \in Drivers \ {w} : drv'[v] = drv[v]
    BY <2>1, <2>2, GotoTyped, LeaveTyped, LeftQuietly DEF Inv, Typed, Locations
  <2> QED
    BY <2>1, <2>3, QuietStep
<1>4. ASSUME NEW w \in Drivers, Drives(w) PROVE EffectInv'
  BY <1>4, ExecuteEffect, SaveStepEffect, SaveSuccessEffect, DeleteEffect, SaveCompEffect,
     CompensateEffect, SaveVerdictEffect DEF Drives
<1> QED
  BY <1>1, <1>2, <1>3, <1>4, RunEffect, CreateEffect, StoreFailsEffect, ResumeEffect DEF Next, Recovers

-----------------------------------------------------------------------------
(* The theorems                                                              *)

LEMMA InitInv == Init => Inv
<1> SUFFICES ASSUME Init PROVE Inv
  OBVIOUS
<1>1. Typed
  <2>1. RowTyped /\ ClaimTyped
    BY CapType, SMTT(30) DEF Init, RowTyped, ClaimTyped, Statuses
  <2>2. DriversTyped
    BY SMTT(30) DEF Init, DriversTyped, Drv, Away, Locations
  <2>3. TimersTyped
    BY IntervalType, SMTT(30) DEF Init, TimersTyped
  <2> QED
    BY <2>1, <2>2, <2>3 DEF Init, Typed
<1>2. \A w \in Drivers : drv[w] = Away /\ drv[w].pc = "idle"
  BY DEF Init, Away
<1>3. LeaseInv
  BY <1>2 DEF Init, LeaseInv, Driving, Drivers
<1>4. EffectInv
  BY <1>2 DEF Init, EffectInv, RowTrue, Agrees, Unfinished
<1> QED
  BY <1>1, <1>3, <1>4 DEF Inv

\* The inductive invariant: a driver past its claim holds a lease younger than its last
\* heartbeat (or one nobody can take), so it is alone; and what it remembers of the saga
\* agrees with the row, and the row with the effects in the world.
THEOREM SagaInvariant == ASSUME HeartbeatsInTime PROVE Spec => []Inv
<1>1. Init => Inv
  BY InitInv
<1>2. Inv /\ [Next]_vars => Inv'
  BY NextTyped, NextLease, NextEffect DEF Inv
<1> QED
  BY <1>1, <1>2, PTL DEF Spec

LEMMA InvTypes == Inv => TypeOK
BY SMTT(30) DEF Inv, Typed, RowTyped, ClaimTyped, TimersTyped, TypeOK, Statuses

LEMMA InvOneDriver == Inv => OneDriver
<1> SUFFICES ASSUME Inv, NEW v \in Drivers, NEW w \in Drivers, PastClaim(v), PastClaim(w), v # w PROVE FALSE
  BY DEF OneDriver
<1>1. Alone(w)
  BY PastClaimAlone DEF Inv, PastClaim
<1> QED
  BY <1>1 DEF Alone, PastClaim, Driving

\* Typed rows: a snapshot lists as compensated only steps it lists as executed and that
\* can be undone.
THEOREM SagaTyped == ASSUME HeartbeatsInTime PROVE Spec => []TypeOK
BY SagaInvariant, InvTypes, PTL

\* One driver: while heartbeats are sent in time, a recovery worker never resumes a saga
\* that is still being driven, however many workers there are and whoever crashes.
THEOREM OneDriverAlways == ASSUME HeartbeatsInTime PROVE Spec => []OneDriver
BY SagaInvariant, InvOneDriver, PTL

\* All or nothing: a deleted saga had every effect, and a compensated one has none left
\* that could be undone, but for the step that failed and was never recorded.
THEOREM AllOrNothingAlways == ASSUME HeartbeatsInTime PROVE Spec => []AllOrNothing
<1>1. Inv => AllOrNothing
  BY DEF Inv, EffectInv, RowTrue, AllOrNothing
<1> QED
  BY <1>1, SagaInvariant, PTL

\* A driver in compensation marks a step as compensated only by undoing the next one.
LEMMA OnlyUndoMarks ==
  ASSUME Inv, [Next]_vars, NEW w \in Drivers, drv[w].pc = "comp",
         NEW i \in drv'[w].comp, i \notin drv[w].comp
  PROVE  Compensate(w) /\ i = NextToUndo(w)
<1>1. CASE UNCHANGED vars \/ Tick \/ \E v \in Drivers : Heartbeat(v)
  BY <1>1 DEF vars, Tick, Heartbeat
<1>2. ASSUME NEW v \in Drivers, NEW pc \in Locations, Goto(v, pc) PROVE FALSE
  BY <1>2, GotoKeeps DEF Inv
<1>3. ASSUME NEW v \in Drivers, Leave(v) PROVE FALSE
  <2>1. Left(v) /\ \A u \in Drivers \ {v} : drv'[u] = drv[u]
    BY <1>3, LeaveTyped DEF Inv, Typed
  <2>2. v = w
    BY <2>1
  <2>3. drv'[w].comp = {}
    BY <2>1, <2>2, SMTT(30) DEF Left, Away
  <2> QED
    BY <2>3
<1>4. ASSUME NEW v \in Drivers, Execute(v) PROVE FALSE
  <2>1. drv'[w] = drv[w] \/ Goto(v, "saveFail")
    BY <1>4 DEF Execute, Inv, Typed, DriversTyped
  <2> QED
    BY <1>2, <2>1 DEF Locations
<1>5. ASSUME NEW v \in Workers, Resume(v) PROVE FALSE
  <2>1. v \in Drivers /\ (drv'[w] = drv[w] \/ Leave(v))
    BY <1>5 DEF Resume, Drivers, Inv, Typed, DriversTyped
  <2> QED
    BY <1>3, <2>1
<1>6. ASSUME NEW v \in Drivers, Compensate(v) PROVE Compensate(w) /\ i = NextToUndo(w)
  <2>1. v = w
    BY <1>6 DEF Compensate, Inv, Typed, DriversTyped
  <2>2. drv[w] \in Drv
    BY DEF Inv, Typed, DriversTyped
  <2>3. CASE drv' = [drv EXCEPT ![w].comp = @ \cup {NextToUndo(w)}, ![w].pc = "saveComp"]
    <3>1. drv'[w] = [drv[w] EXCEPT !.comp = @ \cup {NextToUndo(w)}, !.pc = "saveComp"]
      BY <2>3 DEF Inv, Typed, DriversTyped
    <3>2. drv'[w].comp = drv[w].comp \cup {NextToUndo(w)}
      BY <2>2, <3>1 DEF Drv
    <3> QED
      BY <1>6, <2>1, <3>2
  <2>4. CASE drv' = [drv EXCEPT ![w].failed = @ \cup {NextToUndo(w)}]
    <3>1. drv'[w] = [drv[w] EXCEPT !.failed = @ \cup {NextToUndo(w)}]
      BY <2>4 DEF Inv, Typed, DriversTyped
    <3>2. drv'[w].comp = drv[w].comp
      BY <2>2, <3>1 DEF Drv
    <3> QED
      BY <3>2
  <2> QED
    BY <1>6, <2>1, <2>3, <2>4 DEF Compensate
<1>7. CASE Run \/ Create
  BY <1>2, <1>7 DEF Run, Create, Locations, Drivers
<1>8. ASSUME NEW v \in Drivers, SaveStep(v) \/ SaveSuccess(v) \/ SaveCompensating(v) \/ SaveCompensated(v)
      PROVE FALSE
  BY <1>2, <1>8 DEF SaveStep, SaveSuccess, SaveCompensating, SaveCompensated, Locations
<1>9. ASSUME NEW v \in Drivers, Delete(v) \/ SaveVerdict(v) \/ Crash(v) PROVE FALSE
  BY <1>3, <1>9 DEF Delete, SaveVerdict, Crash
<1>10. ASSUME NEW v \in Drivers, StoreFails(v) PROVE FALSE
  BY <1>2, <1>3, <1>10 DEF StoreFails, Locations
<1>11. ASSUME NEW v \in Workers, List(v) \/ TakeClaim(v) PROVE FALSE
  BY <1>2, <1>3, <1>11 DEF List, TakeClaim, Locations, Drivers
<1> QED
  BY <1>1, <1>4, <1>5, <1>6, <1>7, <1>8, <1>9, <1>10, <1>11 DEF Next, Drives, Recovers

\* A step is undone only after every later step that was executed, whichever driver undoes
\* them and wherever it crashed.
THEOREM UndoneInReverse == ASSUME HeartbeatsInTime PROVE Spec => UndoInReverse
<1>1. ASSUME Inv, [Next]_vars
      PROVE  \A w \in Drivers, i \in Steps :
               i \in drv[w]'.comp /\ i \notin drv[w].comp /\ drv[w].pc = "comp"
                 => \A j \in Compensable : i < j /\ j <= drv[w].exec => j \notin effect \/ j \in drv[w].failed
  <2> SUFFICES ASSUME NEW w \in Drivers, NEW i \in Steps, i \in drv'[w].comp, i \notin drv[w].comp,
                      drv[w].pc = "comp", NEW j \in Compensable, i < j, j <= drv[w].exec, j \in effect
               PROVE  j \in drv[w].failed
    OBVIOUS
  <2>1. Compensate(w) /\ i = NextToUndo(w)
    BY <1>1, OnlyUndoMarks
  <2>2. \A k \in ToUndo(w) : k <= i
    BY <2>1, UndoneNext DEF Compensate
  <2>3. j \in Steps /\ j \notin ToUndo(w)
    BY <2>2, SMTT(30) DEF Steps
  <2>4. j \notin drv[w].comp
    BY <1>1 DEF Inv, EffectInv, Agrees
  <2> QED
    BY <2>3, <2>4 DEF ToUndo
<1> QED
  BY <1>1, SagaInvariant, PTL DEF Spec, UndoInReverse

\* An undo that was saved is neither forgotten nor run again, whoever resumes a saga that
\* crashed in the middle of compensation.
THEOREM SavedUndoKept == ASSUME HeartbeatsInTime PROVE Spec => SavedUndoStays
<1>1. ASSUME Inv, [Next]_vars
      PROVE  row.comp \subseteq row'.comp
  <2>1. CASE UNCHANGED row
    BY <2>1
  <2>2. CASE Create
    BY <1>1, <2>2 DEF Create, Save, Inv, LeaseInv, EffectInv, RowTrue
  <2>3. ASSUME NEW w \in Drivers, Drives(w), row' # row PROVE row.comp \subseteq row'.comp
    <3>1. Agrees(w) /\ RowTrue
      BY <1>1 DEF Inv, EffectInv
    <3>2. CASE SaveStep(w) \/ SaveSuccess(w)
      BY <3>1, <3>2 DEF SaveStep, SaveSuccess, Save, Agrees, RowTrue
    <3>3. CASE SaveCompensating(w) \/ SaveCompensated(w) \/ SaveVerdict(w)
      BY <3>1, <3>3, SMTT(30) DEF SaveCompensating, SaveCompensated, SaveVerdict, Save, Agrees
    <3>4. CASE Delete(w)
      BY <1>1, <3>4 DEF Delete, Inv, Typed, RowTyped
    <3> QED
      BY <2>3, <3>2, <3>3, <3>4 DEF Drives, Execute, Compensate
  <2> QED
    BY <1>1, <2>1, <2>2, <2>3
    DEF Next, Run, StoreFails, Heartbeat, Crash, Recovers, List, TakeClaim, Resume, Tick, vars
<1>2. ASSUME Inv
      PROVE  \A w \in Drivers : drv[w].pc = "comp" /\ drv[w]'.pc = "saveComp"
               => (drv[w]'.comp \ drv[w].comp) \cap row.comp = {}
  BY <1>2 DEF Inv, EffectInv, Agrees
<1> QED
  BY <1>1, <1>2, SagaInvariant, PTL DEF Spec, SavedUndoStays

\* Once a saga is compensating or has ended, no driver executes a step of it any more.
THEOREM NeverBack == ASSUME HeartbeatsInTime PROVE Spec => NoWayBack
<1>1. ASSUME Inv, [Next]_vars
      PROVE  row.status \notin {"none", "pending"} => effect' \subseteq effect
  <2>1. ASSUME NEW w \in Drivers, Execute(w) PROVE row.status = "pending"
    BY <1>1, <2>1 DEF Execute, Inv, EffectInv, Agrees
  <2> QED
    BY Zenon, <1>1, <2>1
    DEF Next, Drives, Run, Create, SaveStep, SaveSuccess, Delete, SaveCompensating, Compensate, SaveCompensated,
        SaveVerdict, StoreFails, Heartbeat, Crash, Recovers, List, TakeClaim, Resume, Tick, vars
<1> QED
  BY <1>1, SagaInvariant, PTL DEF Spec, NoWayBack

\* How a saga steps back: in reverse order, keeping every undo that was saved, and never
\* forward again.
THEOREM StepsBack == ASSUME HeartbeatsInTime PROVE Spec => SagaStepsBack
BY UndoneInReverse, SavedUndoKept, NeverBack DEF SagaStepsBack

=============================================================================
