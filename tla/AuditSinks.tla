----------------------------- MODULE AuditSinks -----------------------------
(***************************************************************************)
(* AuditLog.record over its sinks: a ring in memory, a file that is flushed *)
(* in batches by whoever fills one or by a timer, and a Postgres table with *)
(* a buffer for the entries whose insert failed.  Records overlap.          *)
(***************************************************************************)
EXTENDS Integers, Sequences, SequencesExt, FiniteSets

CONSTANTS
  Entries,      \* calls of record(), numbered from 1
  Sinks,        \* of "memory", "file", "pg"
  MaxEntries,   \* the ring's size
  BatchSize,    \* of the file sink
  BufferCap,    \* of the Postgres sink
  Unwritables,  \* choices for the entries JSON.stringify throws on (a BigInt among the params)
  MaxFaults     \* bound: failures of the file system or the database

Flusher == 0                        \* the timer's flush, or the one of AuditLog.flush()
Procs == Entries \cup {Flusher}

VARIABLES
  sink, buffer, stored,
  opening,    \* the file: "no", "open", or "failed", for opening is never retried
  timer,      \* a flush is scheduled
  at, batch,  \* each process: where it is, and the entries it took
  bad,        \* the entries that cannot be written as JSON
  failures,   \* history: failed inserts, counted up to two
  lost, faults

vars == <<sink, buffer, stored, opening, timer, at, batch, lost, bad, failures, faults>>

Init ==
  /\ sink \in Sinks /\ buffer = <<>> /\ stored = <<>> /\ opening = "no" /\ timer = FALSE
  /\ at = [p \in Procs |-> "idle"] /\ batch = [p \in Procs |-> <<>>] /\ lost = {} /\ faults = 0
  /\ bad \in Unwritables /\ failures = 0

Goto(p, s) == at' = [at EXCEPT ![p] = s]
Rest(p) == IF p = Flusher THEN "idle" ELSE "done"
Fault == faults < MaxFaults /\ faults' = faults + 1

-----------------------------------------------------------------------------
(* InMemoryAuditSink                                                         *)

MemoryWrite(e) ==
  /\ sink = "memory" /\ at[e] = "idle" /\ Goto(e, "done")
  /\ LET all == Append(stored, e)
     IN  IF Len(all) > MaxEntries
         THEN stored' = Tail(all) /\ lost' = lost \cup {Head(all)}
         ELSE stored' = all /\ UNCHANGED lost
  /\ UNCHANGED <<sink, buffer, opening, timer, batch, bad, failures, faults>>

-----------------------------------------------------------------------------
(* FileAuditSink                                                             *)

\* write(): the entry that fills a batch flushes it, any other makes sure that a timer will.
FileWrite(e) ==
  /\ sink = "file" /\ at[e] = "idle"
  /\ buffer' = Append(buffer, e)
  /\ IF Len(buffer') >= BatchSize
     THEN Goto(e, "opens") /\ timer' = FALSE
     ELSE Goto(e, "done") /\ timer' = TRUE
  /\ UNCHANGED <<sink, stored, opening, batch, lost, bad, failures, faults>>

TimerFlush ==
  /\ sink = "file" /\ timer /\ at[Flusher] = "idle" /\ timer' = FALSE
  /\ IF buffer = <<>> THEN UNCHANGED at ELSE Goto(Flusher, "opens")
  /\ UNCHANGED <<sink, buffer, stored, opening, batch, lost, bad, failures, faults>>

\* flush() once ensureOpen has resolved: the lines are made and taken in the step that starts the
\* write.  An entry that JSON.stringify throws on ends every flush before it takes anything.
TakeLate(p) ==       \* mutant: the buffer is emptied after the write
  /\ sink = "file" /\ at[p] = "opens" /\ opening # "failed" /\ opening' = "open"
  /\ batch' = [batch EXCEPT ![p] = buffer] /\ UNCHANGED buffer /\ Goto(p, "writes")
  /\ UNCHANGED <<sink, stored, timer, lost, bad, failures, faults>>
FileTake(p) ==
  /\ sink = "file" /\ at[p] = "opens" /\ opening # "failed" /\ opening' = "open"
  /\ ToSet(buffer) \cap bad = {}
  /\ batch' = [batch EXCEPT ![p] = buffer] /\ buffer' = <<>> /\ Goto(p, "writes")
  /\ UNCHANGED <<sink, stored, timer, lost, bad, failures, faults>>

FileTakeThrows(p) ==
  /\ sink = "file" /\ at[p] = "opens" /\ opening # "failed" /\ opening' = "open"
  /\ ToSet(buffer) \cap bad # {} /\ Goto(p, Rest(p))
  /\ UNCHANGED <<sink, buffer, stored, timer, batch, lost, bad, failures, faults>>

FileWritten(p) ==
  /\ sink = "file" /\ at[p] = "writes" /\ Goto(p, Rest(p))
  /\ stored' = stored \o batch[p] /\ batch' = [batch EXCEPT ![p] = <<>>]
  /\ UNCHANGED <<sink, buffer, opening, timer, lost, bad, failures, faults>>

FileWriteFails(p) ==
  /\ sink = "file" /\ at[p] = "writes" /\ Goto(p, Rest(p)) /\ Fault
  /\ lost' = lost \cup ToSet(batch[p]) /\ batch' = [batch EXCEPT ![p] = <<>>]
  /\ UNCHANGED <<sink, buffer, stored, opening, timer, bad, failures>>

\* The rejected promise stays in `opening`: this flush and every later one reject.
FileOpenFails(p) ==
  /\ sink = "file" /\ at[p] = "opens" /\ Goto(p, Rest(p))
  /\ \/ opening = "no" /\ Fault /\ opening' = "failed"
     \/ opening = "failed" /\ UNCHANGED <<faults, opening>>
  /\ UNCHANGED <<sink, buffer, stored, timer, batch, lost, bad, failures>>

-----------------------------------------------------------------------------
(* PgAuditSink                                                               *)

\* write() and flush() take the whole buffer; write() inserts its own entry last.
PgWrite(e) ==
  /\ sink = "pg" /\ at[e] = "idle" /\ Goto(e, "inserts")
  /\ batch' = [batch EXCEPT ![e] = Append(buffer, e)] /\ buffer' = <<>>
  /\ UNCHANGED <<sink, stored, opening, timer, lost, bad, failures, faults>>

PgFlush ==
  /\ sink = "pg" /\ at[Flusher] = "idle" /\ buffer # <<>> /\ Goto(Flusher, "inserts")
  /\ batch' = [batch EXCEPT ![Flusher] = buffer] /\ buffer' = <<>>
  /\ UNCHANGED <<sink, stored, opening, timer, lost, bad, failures, faults>>

\* ON CONFLICT (uuid) DO NOTHING
InsertOne(p) ==
  /\ sink = "pg" /\ at[p] = "inserts" /\ Head(batch[p]) \notin bad
  /\ stored' = Append(stored, Head(batch[p]))
  /\ batch' = [batch EXCEPT ![p] = Tail(@)]
  /\ Goto(p, IF Len(batch[p]) = 1 THEN Rest(p) ELSE "inserts")
  /\ UNCHANGED <<sink, buffer, opening, timer, lost, bad, failures, faults>>

\* The query fails, or JSON.stringify does.
InsertFails(p) ==
  /\ sink = "pg" /\ at[p] = "inserts" /\ failures' = IF failures = 2 THEN 2 ELSE failures + 1
  /\ IF Head(batch[p]) \in bad THEN UNCHANGED faults ELSE Fault

\* write() keeps its own entry, the rest of what it took is gone; the buffer drops its oldest.
PgWriteFails(e) ==
  /\ InsertFails(e) /\ Goto(e, "done")
  /\ LET all == Append(buffer, e)
         kept == IF Len(all) > BufferCap THEN SubSeq(all, Len(all) - BufferCap + 1, Len(all)) ELSE all
     IN  /\ buffer' = kept
         /\ lost' = lost \cup (ToSet(batch[e]) \ {e}) \cup (ToSet(all) \ ToSet(kept))
  /\ batch' = [batch EXCEPT ![e] = <<>>]
  /\ UNCHANGED <<sink, stored, opening, timer, bad>>

\* flush() puts back the entry that failed, and only that one.
PgFlushFails ==
  /\ InsertFails(Flusher) /\ Goto(Flusher, "idle")
  /\ buffer' = <<Head(batch[Flusher])>> \o buffer
  /\ lost' = lost \cup ToSet(Tail(batch[Flusher]))
  /\ batch' = [batch EXCEPT ![Flusher] = <<>>]
  /\ UNCHANGED <<sink, stored, opening, timer, bad>>

Progress == TimerFlush \/ \E p \in Procs : FileTake(p) \/ FileTakeThrows(p) \/ FileWritten(p) \/ InsertOne(p)
Next ==
  \/ Progress \/ PgFlush \/ PgFlushFails
  \/ \E e \in Entries : MemoryWrite(e) \/ FileWrite(e) \/ PgWrite(e) \/ PgWriteFails(e)
  \/ \E p \in Procs : FileWriteFails(p) \/ FileOpenFails(p)
Fairness == WF_vars(Progress)
Spec == Init /\ [][Next]_vars /\ Fairness

-----------------------------------------------------------------------------
Places(e) == (IF e \in ToSet(stored) THEN 1 ELSE 0) + (IF e \in ToSet(buffer) THEN 1 ELSE 0)
             + (IF e \in lost THEN 1 ELSE 0)
             + Cardinality({p \in Procs : e \in ToSet(batch[p])})

\* However records, flushes and timers overlap, an entry is stored, buffered, on its way or
\* given up, in exactly one place and once.  What is given up: by the ring its oldest entries, by
\* the file the batch whose write failed, and by Postgres entries that waited in the buffer for a
\* failed insert and were taken by, or shifted out at, the next failure.  So one failed insert
\* loses nothing, but of writes that fail one after another only the last is kept.
AuditAccounted ==
  /\ \A e \in Entries : Places(e) = IF at[e] = "idle" THEN 0 ELSE 1
  /\ IsInjective(stored) /\ IsInjective(buffer)
  /\ sink = "memory" /\ lost # {} => Len(stored) = MaxEntries
  /\ sink = "file" /\ lost # {} => faults > 0
  /\ sink = "pg" /\ lost # {} => failures > 1

\* An entry of the file sink reaches the file without another record() after it, unless the write
\* failed, the file never opened, or an entry that cannot be written as JSON holds up the buffer:
\* flush() throws on it before it empties the buffer, now and every later time.
EventuallyAudited ==
  \A e \in Entries : (sink = "file" /\ at[e] # "idle") ~>
    (e \in ToSet(stored) \cup lost \/ opening = "failed" \/ ToSet(buffer) \cap bad # {})
=============================================================================
