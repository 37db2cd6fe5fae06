--------------------------- MODULE CompressionPool ---------------------------
(***************************************************************************)
(* maybeCompressAsync and maybeDecompressAsync over the worker pool: large  *)
(* buffers go to the least loaded worker, a worker that dies hands its jobs *)
(* back to the inline path, and the pool may be shut down under load.       *)
(***************************************************************************)
EXTENDS Integers, FiniteSets, Sequences, SequencesExt, FiniteSetsExt

CONSTANTS
  Jobs, Job,         \* calls, and for each [op, encoding, large, fits, declared]:
                     \* fits: the output is within the cap; declared: a zstd frame says its size
  PoolSize,
  MaxWorkers         \* bound: workers ever created

VARIABLES
  poolOn,       \* pool # null
  pool,         \* the pool: workers (numbered as created) in order
  created,
  pending,      \* the map each worker's message handler closes over: worker -> its jobs
  known,        \* the keys of pendingByWorker
  dead,         \* workers that died or were terminated
  at,           \* each call: "new", "worker", "inline", "done", "refused"
  tooLarge,     \* history: the worker refused this call's output
  inflated,     \* history: an output over the cap was produced in full
  closing,      \* the shutdowns under way: each the workers it has yet to see terminated
  overlap,      \* history: the pool was configured while a shutdown was awaited
  wiped         \* history: live workers whose entry a shutdown's final clear() took

vars == <<poolOn, pool, created, pending, known, dead, at, tooLarge, inflated, closing, overlap, wiped>>
Workers == 1..MaxWorkers

Init ==
  /\ poolOn = FALSE /\ pool = <<>> /\ created = 0 /\ pending = [w \in Workers |-> {}]
  /\ known = {} /\ dead = {} /\ at = [j \in Jobs |-> "new"] /\ tooLarge = {} /\ inflated = {}
  /\ closing = {} /\ overlap = FALSE /\ wiped = {}

-----------------------------------------------------------------------------
(* The pool                                                                  *)

\* getPool fills the pool, and enters each new worker in pendingByWorker.
Missing == PoolSize - Len(pool)
FreshWorkers == [i \in 1..Missing |-> created + i]
GetPool ==
  /\ Missing > 0 /\ created + Missing <= MaxWorkers
  /\ pool' = pool \o FreshWorkers /\ created' = created + Missing
  /\ known' = known \cup ToSet(FreshWorkers)

\* configureCompressionWorker; nothing keeps it from running while a shutdown is awaited.
Configure ==
  /\ GetPool /\ poolOn' = TRUE /\ overlap' = (overlap \/ closing # {})
  /\ UNCHANGED <<pending, dead, at, tooLarge, inflated, closing, wiped>>

\* pickWorker: the first of the least loaded; a worker without an entry counts as idle.
Load(w) == IF w \in known THEN Cardinality(pending[w]) ELSE 0
PickWorker ==
  LET least == Min({Load(w) : w \in ToSet(pool)}) IN Min({w \in ToSet(pool) : Load(w) = least})

\* A call for the pool when every worker has died fills the pool first.
SubmitAfterRefill(j) ==
  /\ pool = <<>> /\ GetPool
  /\ pending' = [pending EXCEPT ![created + 1] = {j}]
  /\ at' = [at EXCEPT ![j] = "worker"]
\* A picked worker without an entry throws, and the call falls back.
Submit(j) ==
  /\ pool # <<>>
  /\ IF PickWorker \in known
     THEN pending' = [pending EXCEPT ![PickWorker] = @ \cup {j}] /\ at' = [at EXCEPT ![j] = "worker"]
     ELSE at' = [at EXCEPT ![j] = "inline"] /\ UNCHANGED pending
  /\ UNCHANGED <<pool, created, known>>

GoesToWorker(j) == poolOn /\ Job[j].large /\ ~(Job[j].op = "decompress" /\ Job[j].encoding = "zstd")

Call(j) ==
  /\ at[j] = "new"
  /\ \/ GoesToWorker(j) /\ (Submit(j) \/ SubmitAfterRefill(j))
     \/ ~GoesToWorker(j) /\ at' = [at EXCEPT ![j] = "inline"] /\ UNCHANGED <<pool, created, pending, known>>
  /\ UNCHANGED <<poolOn, dead, tooLarge, inflated, closing, overlap, wiped>>

-----------------------------------------------------------------------------
(* What a worker does                                                        *)

Overflows(j) == Job[j].op = "decompress" /\ ~Job[j].fits

\* The worker enforces the cap; its refusal is final.
FallThrough(w, j) ==    \* mutant: any error of a worker falls back to the inline path
  /\ w \notin dead /\ j \in pending[w]
  /\ pending' = [pending EXCEPT ![w] = @ \ {j}]
  /\ IF Overflows(j)
     THEN at' = [at EXCEPT ![j] = "inline"] /\ tooLarge' = tooLarge \cup {j}
     ELSE at' = [at EXCEPT ![j] = "done"] /\ UNCHANGED tooLarge
  /\ UNCHANGED <<poolOn, pool, created, known, dead, inflated, closing, overlap, wiped>>
Message(w, j) ==
  /\ w \notin dead /\ j \in pending[w]
  /\ pending' = [pending EXCEPT ![w] = @ \ {j}]
  /\ IF Overflows(j)
     THEN at' = [at EXCEPT ![j] = "refused"] /\ tooLarge' = tooLarge \cup {j}
     ELSE at' = [at EXCEPT ![j] = "done"] /\ UNCHANGED tooLarge
  /\ UNCHANGED <<poolOn, pool, created, known, dead, inflated, closing, overlap, wiped>>

\* Every job of a worker that pendingByWorker still holds is rejected, and its caller falls back.
Reject(w) ==
  /\ at' = [j \in Jobs |-> IF w \in known /\ j \in pending[w] THEN "inline" ELSE at[j]]
  /\ pending' = [pending EXCEPT ![w] = IF w \in known THEN {} ELSE @]

\* error or exit of a worker: rejectPending.
CrashForgets(w) ==     \* mutant: the jobs of a worker that died are not rejected
  /\ w \in 1..created \ dead /\ dead' = dead \cup {w}
  /\ known' = known \ {w} /\ pool' = SelectSeq(pool, LAMBDA x : x # w)
  /\ UNCHANGED <<poolOn, created, pending, at, tooLarge, inflated, closing, overlap, wiped>>
RejectPending(w) ==
  /\ w \in 1..created \ dead /\ dead' = dead \cup {w}
  /\ Reject(w) /\ known' = known \ {w}
  /\ pool' = SelectSeq(pool, LAMBDA x : x # w)
  /\ UNCHANGED <<poolOn, created, tooLarge, inflated, closing, overlap, wiped>>
\* The exit handler of a worker without an entry does nothing: the pool keeps the worker.
ExitUnnoticed(w) ==
  /\ w \in 1..created \ (dead \cup known) /\ dead' = dead \cup {w}
  /\ UNCHANGED <<poolOn, pool, created, pending, known, at, tooLarge, inflated, closing, overlap, wiped>>

-----------------------------------------------------------------------------
(* The inline path and shutdown                                              *)

\* zlib stops at the cap; zstd checks a declared size first, and an undeclared one afterwards.
Inline(j) ==
  /\ at[j] = "inline"
  /\ at' = [at EXCEPT ![j] = IF Overflows(j) THEN "refused" ELSE "done"]
  /\ inflated' = IF Overflows(j) /\ Job[j].encoding = "zstd" /\ ~Job[j].declared
                 THEN inflated \cup {j} ELSE inflated
  /\ UNCHANGED <<poolOn, pool, created, pending, known, dead, tooLarge, closing, overlap, wiped>>

\* The loop of a shutdown reaches the next of `workers`: its jobs are rejected and terminate()
\* is awaited.  After the last one pendingByWorker is cleared, whatever it holds by then.
Reach(workers, gone) ==
  IF workers = <<>>
  THEN known' = {} /\ wiped' = wiped \cup (known \ gone) /\ UNCHANGED <<at, pending>>
  ELSE Reject(Head(workers)) /\ known' = known \ {Head(workers)} /\ UNCHANGED wiped

\* shutdownCompressionWorker: the pool is gone at once, its workers one after the other.
Shutdown ==
  /\ poolOn /\ poolOn' = FALSE /\ pool' = <<>> /\ Reach(pool, dead)
  /\ closing' = closing \cup ({pool} \ {<<>>})
  /\ UNCHANGED <<created, dead, tooLarge, inflated, overlap>>
Terminate(workers) ==
  /\ workers \in closing /\ dead' = dead \cup {Head(workers)} /\ Reach(Tail(workers), dead')
  /\ closing' = (closing \ {workers}) \cup ({Tail(workers)} \ {<<>>})
  /\ UNCHANGED <<poolOn, pool, created, tooLarge, inflated, overlap>>

Terminated == \E workers \in closing : Terminate(workers)
Works == \E j \in Jobs : Call(j) \/ Inline(j) \/ \E w \in Workers : Message(w, j)
Next == Configure \/ Shutdown \/ Terminated \/ Works \/ \E w \in Workers : RejectPending(w) \/ ExitUnnoticed(w)

\* Zlib finishes, a live worker answers, terminate() resolves.
Fairness == WF_vars(Works) /\ WF_vars(Terminated)
Spec == Init /\ [][Next]_vars /\ Fairness

-----------------------------------------------------------------------------
\* A refusal is final and a bomb is never inflated: an output over the cap is neither returned
\* nor, once a worker refused it, tried again inline; only a zstd frame that hides its size is
\* inflated before it is refused.
CapHonoured ==
  /\ \A j \in tooLarge : at[j] = "refused"
  /\ \A j \in Jobs : Overflows(j) => at[j] # "done"
  /\ inflated \subseteq {j \in Jobs : Job[j].encoding = "zstd" /\ ~Job[j].declared}

\* A call waits for a worker exactly when one worker has it, and that worker can still answer it
\* or hand it back: it lives and pendingByWorker knows it.  The exception is a worker whose entry
\* the final clear() of a shutdown took, which takes a configure while that shutdown was awaited.
JobsAccounted ==
  /\ \A j \in Jobs :
       LET holders == {w \in Workers : j \in pending[w]}
       IN  /\ Cardinality(holders) = IF at[j] = "worker" THEN 1 ELSE 0
           /\ holders \subseteq (known \ dead) \cup wiped
  /\ wiped # {} => overlap

\* Every call comes back although workers die and the pool is shut down under load, except one
\* whose worker died after the clear() of an overlapping shutdown took its entry: nobody is left
\* who would reject it.
Stranded(j) == \E w \in wiped \cap dead : j \in pending[w]
EveryJobSettles ==
  \A j \in Jobs : at[j] \in {"worker", "inline"} ~> (at[j] \in {"done", "refused"} \/ Stranded(j))
=============================================================================
