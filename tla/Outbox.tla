------------------------------- MODULE Outbox -------------------------------
(***************************************************************************)
(* The transactional outbox: Outbox.enqueue inside withOutboxTransaction,  *)
(* and the relay (flushOnce) that lists pending records, emits them and    *)
(* marks them, over InMemoryOutboxStore or SqliteOutboxStore (no claims)   *)
(* or PgOutboxStore (rows claimed by a worker for claimTtlMs).             *)
(*                                                                         *)
(* Records are numbers in createdAt order.  A flush keeps the set of the   *)
(* records it still has to relay: an ordered partition is relayed from its *)
(* smallest record on, the records without a key before all partitions.    *)
(***************************************************************************)
EXTENDS Naturals, FiniteSets

CONSTANTS
  Records,         \* a set of naturals, in createdAt order
  Key,             \* the partitionKey of each record, or NoKey
  NoKey,
  Workers,         \* relay processes
  Slots,           \* flushes of one worker that may overlap
  Nobody,          \* no worker
  Ghost,           \* a worker that died (workerId is new after a restart)
  Claims,          \* PgOutboxStore; otherwise one worker over a store without claims
  HasEmitBatch,    \* the publisher implements emitBatch
  Batch,           \* opts.batch
  MaxAttempts,     \* opts.maxAttempts
  CommitsInOrder,  \* transactions commit in the order their records were created
  Faults           \* a subset of {"slow", "dbError", "crash"}

ASSUME OutboxAssumption ==
  /\ Records \subseteq Nat
  /\ MaxAttempts \in Nat \ {0} /\ Batch \in Nat \ {0}
  /\ {Claims, HasEmitBatch, CommitsInOrder} \subseteq BOOLEAN
  /\ Nobody \notin Workers /\ Ghost \notin Workers /\ Nobody # Ghost
  /\ Faults \subseteq {"slow", "dbError", "crash"}

VARIABLES
  rec,        \* the stored rows
  delivered,  \* the records the broker has received at least once
  locked,     \* the rows each flush has locked in a listPending statement
  todo,       \* the records each flush still has to relay
  sent,       \* those of todo that were handed to the publisher
  accepted,   \* those of sent that the publisher reported as accepted
  batched     \* the flush relays its independent records with emitBatch

vars == <<rec, delivered, locked, todo, sent, accepted, batched>>
flushVars == <<todo, sent, accepted, batched>>

Flushes == Workers \X Slots

Row == [status : {"none", "staged", "pending", "published", "failed", "gone"},
        attempts : 0..MaxAttempts, by : Workers \cup {Nobody, Ghost}, fresh : BOOLEAN]

Earlier(r) == {e \in Records : e < r /\ Key[e] = Key[r]}
ClaimedByDead(r) == rec[r].by = Ghost /\ rec[r].fresh  \* mutant: live workers' claims are not seen
ClaimedForever(r) == rec[r].by # Nobody             \* mutant: claims have no TTL
Claimed(r) == rec[r].by # Nobody /\ rec[r].fresh
Independent(f) == {r \in todo[f] : Key[r] = NoKey}

-----------------------------------------------------------------------------
(* enqueue, inside or outside a transaction                                  *)

SetStatus(r, status) == rec' = [rec EXCEPT ![r].status = status]
MayBecomeVisible(r) == CommitsInOrder => \A e \in Records : e < r => rec[e].status # "staged"

Enqueue(r) ==
  /\ rec[r].status = "none"
  /\ \A e \in Records : e < r => rec[e].status # "none"
  /\ SetStatus(r, "staged") \/ (MayBecomeVisible(r) /\ SetStatus(r, "pending"))
  /\ UNCHANGED <<delivered, locked, flushVars>>

Commit(r) ==
  /\ rec[r].status = "staged"
  /\ MayBecomeVisible(r)
  /\ SetStatus(r, "pending")
  /\ UNCHANGED <<delivered, locked, flushVars>>

Rollback(r) ==
  /\ rec[r].status = "staged"
  /\ SetStatus(r, "gone")
  /\ UNCHANGED <<delivered, locked, flushVars>>

-----------------------------------------------------------------------------
(* listPending                                                               *)

Blocked(r) == Key[r] # NoKey /\ \E e \in Earlier(r) : rec[e].status = "failed"

\* A worker may relay a partition nobody else holds a live claim in.
Eligible(w, r) ==
  /\ rec[r].status = "pending"
  /\ ~Claimed(r)
  /\ ~Blocked(r)
  /\ Key[r] # NoKey =>
       \A c \in Records : Key[c] = Key[r] /\ rec[c].status = "pending" /\ Claimed(c) => rec[c].by = w

\* The first Batch records of S (ORDER BY created_at LIMIT).
FirstOf(S) == {r \in S : Cardinality({e \in S : e < r}) < Batch}

Free(f) == todo[f] = {} /\ locked[f] = {}

\* A new flush over the records S: several records without a key form one batch.
Flush(f, S) ==
  /\ todo' = [todo EXCEPT ![f] = S]
  /\ sent' = [sent EXCEPT ![f] = {}]
  /\ accepted' = [accepted EXCEPT ![f] = {}]
  /\ batched' = [batched EXCEPT ![f] = HasEmitBatch /\ Cardinality({r \in S : Key[r] = NoKey}) > 1]

\* Stores without claims.  The in-memory store first prunes published records.
List(f) ==
  /\ ~Claims
  /\ Free(f)
  /\ \E old \in SUBSET {r \in Records : rec[r].status = "published"} :
        rec' = [r \in Records |-> IF r \in old THEN [rec[r] EXCEPT !.status = "gone"] ELSE rec[r]]
  /\ Flush(f, FirstOf({r \in Records : Eligible(f[1], r)}))
  /\ UNCHANGED <<delivered, locked>>

\* The Postgres statement reads a snapshot and locks rows no one else has locked
\* (FOR UPDATE SKIP LOCKED); ...
ListLocks(f) ==
  /\ Claims
  /\ Free(f)
  /\ LET skip == UNION {locked[g] : g \in Flushes}
         rows == FirstOf({r \in Records \ skip : Eligible(f[1], r)})
     IN  rows # {} /\ locked' = [locked EXCEPT ![f] = rows]
  /\ UNCHANGED <<rec, delivered, flushVars>>

\* ... its claims are visible when it commits.  The rows may be lost on the way back.
ListCommits(f) ==
  /\ locked[f] # {}
  /\ rec' = [r \in Records |->
       IF r \in locked[f] THEN [rec[r] EXCEPT !.by = f[1], !.fresh = TRUE] ELSE rec[r]]
  /\ \/ Flush(f, locked[f])
     \/ "dbError" \in Faults /\ UNCHANGED flushVars
  /\ locked' = [locked EXCEPT ![f] = {}]
  /\ UNCHANGED delivered

-----------------------------------------------------------------------------
(* relayIndependent and relayOrdered                                         *)

\* The records the flush works on: the independent ones, then every partition in the order of the
\* rows.  That is creation order: the in-memory store sorts, and Postgres is assumed to return the
\* rows of the UPDATE ... RETURNING, which has no ORDER BY of its own, in the order of its cte.
Head(f, r) ==
  /\ r \in todo[f]
  /\ Key[r] # NoKey => Independent(f) = {}
  /\ \A e \in todo[f] : Key[e] = Key[r] => r <= e

\* emit: the broker may have received a record although the call failed.
Emit(f, r) ==
  /\ Head(f, r) /\ r \notin sent[f]
  /\ Key[r] = NoKey => ~batched[f]
  /\ sent' = [sent EXCEPT ![f] = @ \cup {r}]
  /\ \E received, ok \in SUBSET {r} :
       /\ ok \subseteq received
       /\ delivered' = delivered \cup received
       /\ accepted' = [accepted EXCEPT ![f] = @ \cup ok]
  /\ UNCHANGED <<rec, locked, todo, batched>>

AcceptedUnlessRefused(items, answered, ok) ==      \* mutant: a missing result counts as accepted
  ok \cup (items \ answered)

\* The items that have a result, and whose result is ok.
AcceptedItems(items, answered, ok) == ok

EmitBatch(f) ==
  LET items == Independent(f) IN
  /\ batched[f] /\ items # {} /\ items \cap sent[f] = {}
  /\ sent' = [sent EXCEPT ![f] = items]
  /\ \E received, answered \in SUBSET items : \E ok \in SUBSET (received \cap answered) :
       /\ delivered' = delivered \cup received
       /\ accepted' = [accepted EXCEPT ![f] = AcceptedItems(items, answered, ok)]
  /\ UNCHANGED <<rec, locked, todo, batched>>

\* The row is still pending and, with claims, still this worker's.  An UPDATE waits
\* for the row lock of a listPending.
OwnsAnyStatus(f, r) == ~Claims \/ rec[r].by = f[1]     \* mutant: status is not compared
OwnsAnyWorker(f, r) == rec[r].status = "pending"       \* mutant: claimed_by is not compared
Owns(f, r) == rec[r].status = "pending" /\ (Claims => rec[r].by = f[1])

Unlocked(r) == \A g \in Flushes : r \notin locked[g]

Published(f, r) == IF Owns(f, r) THEN [rec EXCEPT ![r].status = "published"] ELSE rec

ExhaustedLate(r) == rec[r].attempts >= MaxAttempts      \* mutant: parks one attempt late
Exhausted(r) == rec[r].attempts + 1 >= MaxAttempts

Failed(f, r) ==
  IF Owns(f, r)
  THEN [rec EXCEPT ![r].status = IF Exhausted(r) THEN "failed" ELSE "pending",
                   ![r].attempts = @ + 1, ![r].by = Nobody, ![r].fresh = FALSE]
  ELSE rec

DropUnfinished(f, S) ==             \* mutant: reports of dropped records are kept
  todo' = [todo EXCEPT ![f] = @ \ S] /\ UNCHANGED <<sent, accepted>>

\* The flush drops the records S.
Drop(f, S) ==
  /\ todo' = [todo EXCEPT ![f] = @ \ S]
  /\ sent' = [sent EXCEPT ![f] = @ \ S]
  /\ accepted' = [accepted EXCEPT ![f] = @ \ S]

MarkPublished(f, r) ==
  /\ Head(f, r) /\ r \in accepted[f] /\ Unlocked(r)
  /\ rec' = Published(f, r)
  /\ Drop(f, {r})
  /\ UNCHANGED <<delivered, locked, batched>>

\* The update fails, applied or not: a batch ends the flush, a single record is
\* handled like one that could not be emitted.
MarkPublishedThrows(f, r) ==
  /\ "dbError" \in Faults
  /\ Head(f, r) /\ r \in accepted[f] /\ Unlocked(r)
  /\ rec' \in {rec, Published(f, r)}
  /\ IF Key[r] = NoKey /\ batched[f]
     THEN Drop(f, todo[f])
     ELSE accepted' = [accepted EXCEPT ![f] = @ \ {r}] /\ UNCHANGED <<todo, sent>>
  /\ UNCHANGED <<delivered, locked, batched>>

\* What a flush leaves undone when r fails: a partition halts.
HaltsNever(f, r) == {r}             \* mutant: the partition goes on after a failure
Halts(f, r) == IF Key[r] = NoKey THEN {r} ELSE {e \in todo[f] : Key[e] = Key[r]}

MarkFailed(f, r) ==
  /\ Head(f, r) /\ r \in sent[f] \ accepted[f] /\ Unlocked(r)
  /\ rec' = Failed(f, r)
  /\ Drop(f, Halts(f, r))
  /\ UNCHANGED <<delivered, locked, batched>>

\* The exception ends the whole flush, or the partition's own loop.
MarkFailedThrows(f, r) ==
  /\ "dbError" \in Faults
  /\ Head(f, r) /\ r \in sent[f] \ accepted[f] /\ Unlocked(r)
  /\ rec' \in {rec, Failed(f, r)}
  /\ Drop(f, IF Key[r] = NoKey THEN todo[f] ELSE Halts(f, r))
  /\ UNCHANGED <<delivered, locked, batched>>

-----------------------------------------------------------------------------
(* claimTtlMs passes; a worker dies and a new one takes its place.           *)

ClaimLapses(r) ==
  /\ rec[r].status = "pending" /\ Claimed(r)
  /\ "slow" \in Faults \/ \A f \in Flushes : f[1] = rec[r].by => r \notin todo[f]
  /\ rec' = [rec EXCEPT ![r].fresh = FALSE]
  /\ UNCHANGED <<delivered, locked, flushVars>>

Crash(w) ==
  /\ "crash" \in Faults /\ Claims
  /\ \E s \in Slots : ~Free(<<w, s>>)
  /\ rec' = [r \in Records |-> IF rec[r].by = w THEN [rec[r] EXCEPT !.by = Ghost] ELSE rec[r]]
  /\ locked' = [f \in Flushes |-> IF f[1] = w THEN {} ELSE locked[f]]
  /\ todo' = [f \in Flushes |-> IF f[1] = w THEN {} ELSE todo[f]]
  /\ sent' = [f \in Flushes |-> IF f[1] = w THEN {} ELSE sent[f]]
  /\ accepted' = [f \in Flushes |-> IF f[1] = w THEN {} ELSE accepted[f]]
  /\ UNCHANGED <<delivered, batched>>

Init ==
  /\ rec = [r \in Records |-> [status |-> "none", attempts |-> 0, by |-> Nobody, fresh |-> FALSE]]
  /\ delivered = {}
  /\ locked = [f \in Flushes |-> {}]
  /\ todo = [f \in Flushes |-> {}]
  /\ sent = [f \in Flushes |-> {}]
  /\ accepted = [f \in Flushes |-> {}]
  /\ batched = [f \in Flushes |-> FALSE]

Relays(f) ==
  \/ EmitBatch(f)
  \/ \E r \in Records : \/ Emit(f, r) \/ MarkPublished(f, r) \/ MarkFailed(f, r)
                        \/ MarkPublishedThrows(f, r) \/ MarkFailedThrows(f, r)

Next ==
  \/ \E r \in Records : Enqueue(r) \/ Commit(r) \/ Rollback(r) \/ ClaimLapses(r)
  \/ \E f \in Flushes : List(f) \/ ListLocks(f) \/ ListCommits(f) \/ Relays(f)
  \/ \E w \in Workers : Crash(w)

\* The loop of start() lists again after every flush; calls return; transactions
\* end; an abandoned claim lapses.
Fairness ==
  /\ \A f \in Flushes : WF_vars(List(f) \/ ListLocks(f) \/ ListCommits(f)) /\ WF_vars(Relays(f))
  /\ \A r \in Records : WF_vars(Commit(r) \/ Rollback(r)) /\ WF_vars(ClaimLapses(r))

Spec == Init /\ [][Next]_vars
FairSpec == Spec /\ Fairness

-----------------------------------------------------------------------------
(* Properties.                                                               *)

\* Every variable has its type, and a flush reports on records it was given.
TypeOK ==
  /\ rec \in [Records -> Row]
  /\ delivered \subseteq Records
  /\ locked \in [Flushes -> SUBSET Records]
  /\ todo \in [Flushes -> SUBSET Records]
  /\ batched \in [Flushes -> BOOLEAN]
  /\ \A f \in Flushes : accepted[f] \subseteq sent[f] /\ sent[f] \subseteq todo[f]

\* At least once: a record is marked published only if the broker received it, and
\* nothing is relayed that was never committed (staged or rolled back records).
NothingLost ==
  \A r \in Records : /\ rec[r].status = "published" => r \in delivered
                     /\ r \in delivered => rec[r].status \notin {"none", "staged"}

\* markFailed parks a record exactly when its attempts reach maxAttempts.
ParkedAtBudget ==
  \A r \in Records : rec[r].status = "failed" <=> rec[r].attempts = MaxAttempts

\* No double finalization: a published or failed row never changes status again
\* (the in-memory store may prune a published one), whoever marks it late.
FinalIsFinal ==
  [][\A r \in Records :
       /\ rec[r].status = "published" => rec'[r].status \in {"published", "gone"}
       /\ rec[r].status = "failed" => rec'[r] = rec[r]]_vars

\* Per-partition ordering: the broker gets a record of a partition for the first
\* time only after every earlier record of the partition that is stored and not
\* published yet.
OrderedRelay ==
  [][\A r \in delivered' \ delivered : Key[r] # NoKey =>
       \A e \in Earlier(r) : rec[e].status \in {"pending", "failed"} => e \in delivered']_vars

\* With claims, two workers never relay the same record at once while neither is
\* slower than claimTtlMs.
OneRelayer ==
  \A f, g \in Flushes : f # g => todo[f] \cap todo[g] = {}

\* A live claim on a pending row ends by its TTL, with its holder, or when its holder
\* marks the row: a worker that lost its claim cannot take it from the next one.
ClaimsRespected ==
  [][\A r \in Records : \A w \in Workers :
       rec[r].status = "pending" /\ Claimed(r) /\ rec[r].by = w /\ rec'[r].by = Nobody =>
         \E s \in Slots : r \in sent[<<w, s>>] \ sent'[<<w, s>>]]_vars

\* A committed record is eventually published or parked, unless its partition is
\* blocked by a parked record.
EventuallySettled ==
  \A r \in Records : rec[r].status = "pending" ~>
     (rec[r].status \in {"published", "failed", "gone"} \/ Blocked(r))

=============================================================================
