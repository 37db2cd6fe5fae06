------------------------------- MODULE Events -------------------------------
(* Event stores: the Postgres log and its poller, and the in-memory feed.    *)
EXTENDS Integers, Sequences, FiniteSets, SequencesExt, FiniteSetsExt

(***************************************************************************)
(* PgEventStore: writers append events, in a statement of their own or in a *)
(* transaction of the caller.  The defaults of the row are taken in column  *)
(* order: first the sequence number, then the transaction id, which Postgres *)
(* (external) assigns when it is first asked for.  One subscriber polls     *)
(* from its cursor, retries a failing event with its cursor in place and    *)
(* skips it after its attempts.                                             *)
(***************************************************************************)

CONSTANTS
  Writers,      \* each appends one event
  Callers,      \* those that may append within a transaction of their own
  BatchSize, MaxAttempts,
  MaxFaults     \* bound: failing handlers and polls

VARIABLES
  txn,        \* each writer: "idle", "begun", "inserting", "inserted", "committed" or "aborted"
  xid, seq,   \* transaction ids and sequence numbers, 0 until taken
  cursor,     \* the subscriber: next sequence number to read
  batch,      \* events read and not yet handled
  more,       \* the last read was a full batch
  poll,       \* the loop: "timer", "reading", "handling", "off"
  stuck,      \* the failing event and its attempts
  stopped,
  delivered,  \* events handled, in order
  poisoned,   \* events skipped
  fails,      \* history: failed deliveries of each event
  faults

logVars == <<txn, xid, seq, cursor, batch, more, poll, stuck, stopped, delivered, poisoned, fails, faults>>
log == <<txn, xid, seq>>
NotStuck == [event |-> "none", attempts |-> 0]

LogInit ==
  /\ txn = [w \in Writers |-> "idle"]
  /\ xid = [w \in Writers |-> 0] /\ seq = [w \in Writers |-> 0]
  /\ cursor = 1 /\ batch = <<>> /\ more = FALSE /\ poll = "timer" /\ stuck = NotStuck /\ stopped = FALSE
  /\ delivered = <<>> /\ poisoned = {}
  /\ fails = [w \in Writers |-> 0] /\ faults = 0

Successor(f) == Max({f[w] : w \in Writers}) + 1

-----------------------------------------------------------------------------
(* Writers                                                                   *)

reader == <<cursor, batch, more, poll, stuck, stopped, delivered, poisoned, fails, faults>>

\* The caller's transaction has written something before it appends.
Begin(w) ==
  /\ w \in Callers /\ txn[w] = "idle"
  /\ txn' = [txn EXCEPT ![w] = "begun"] /\ xid' = [xid EXCEPT ![w] = Successor(xid)]
  /\ UNCHANGED <<seq, reader>>

\* append(): nextval of BIGSERIAL, then pg_current_xact_id().
TakeSequence(w) ==
  /\ txn[w] \in {"idle", "begun"}
  /\ txn' = [txn EXCEPT ![w] = "inserting"] /\ seq' = [seq EXCEPT ![w] = Successor(seq)]
  /\ UNCHANGED <<xid, reader>>

StampTxid(w) ==
  /\ txn[w] = "inserting" /\ txn' = [txn EXCEPT ![w] = "inserted"]
  /\ xid' = IF xid[w] = 0 THEN [xid EXCEPT ![w] = Successor(xid)] ELSE xid
  /\ UNCHANGED <<seq, reader>>

Finish(w, how) ==
  /\ txn[w] = "inserted"
  /\ txn' = [txn EXCEPT ![w] = how]
  /\ UNCHANGED <<xid, seq, reader>>

-----------------------------------------------------------------------------
(* The subscriber                                                            *)

\* pg_snapshot_xmin: the lowest transaction id still running; one that has none yet does not count.
Running == {w \in Writers : txn[w] \in {"begun", "inserting", "inserted"}}
Xmin == Min(({xid[w] : w \in Running} \ {0}) \cup {Successor(xid)})

CommittedRows == {w \in Writers : txn[w] = "committed"}    \* mutant: no horizon
Visible == {w \in Writers : txn[w] = "committed" /\ xid[w] < Xmin}

Rows == SetToSortSeq({w \in Visible : seq[w] >= cursor}, LAMBDA v, w : seq[v] < seq[w])

Tick ==
  /\ poll = "timer"
  /\ poll' = IF stopped THEN "off" ELSE "reading"
  /\ UNCHANGED <<log, cursor, batch, more, stuck, stopped, delivered, poisoned, fails, faults>>

Read ==
  /\ poll = "reading"
  /\ batch' = SubSeq(Rows, 1, Min({BatchSize, Len(Rows)}))
  /\ more' = (Len(batch') = BatchSize)
  /\ poll' = "handling"
  /\ UNCHANGED <<log, cursor, stuck, stopped, delivered, poisoned, fails, faults>>

PollFails ==
  /\ poll = "reading" /\ faults < MaxFaults /\ faults' = faults + 1
  /\ poll' = IF stopped THEN "off" ELSE "timer"
  /\ UNCHANGED <<log, cursor, batch, more, stuck, stopped, delivered, poisoned, fails>>

EventDone(w) == cursor' = seq[w] + 1 /\ batch' = Tail(batch)

HandlerOk ==
  /\ poll = "handling" /\ batch # <<>> /\ ~stopped
  /\ LET w == Head(batch)
     IN  /\ delivered' = Append(delivered, w)
         /\ stuck' = IF stuck.event = w THEN NotStuck ELSE stuck
         /\ EventDone(w)
  /\ UNCHANGED <<log, more, poll, stopped, poisoned, fails, faults>>

SkipFirst(w) == "skip"      \* mutant: no retry
Decision(w) ==
  IF (IF stuck.event = w THEN stuck.attempts + 1 ELSE 1) < MaxAttempts THEN "retry" ELSE "skip"

HandlerFails ==
  /\ poll = "handling" /\ batch # <<>> /\ ~stopped
  /\ faults < MaxFaults /\ faults' = faults + 1
  /\ LET w == Head(batch)
     IN  /\ fails' = [fails EXCEPT ![w] = @ + 1]
         /\ IF Decision(w) = "retry"
            THEN /\ stuck' = [event |-> w, attempts |-> IF stuck.event = w THEN stuck.attempts + 1 ELSE 1]
                 /\ batch' = <<>> /\ more' = FALSE
                 /\ UNCHANGED <<cursor, poisoned>>
            ELSE /\ stuck' = NotStuck
                 /\ poisoned' = poisoned \cup {w}
                 /\ EventDone(w)
                 /\ UNCHANGED more
  /\ UNCHANGED <<log, poll, stopped, delivered>>

BatchEnds ==
  /\ poll = "handling" /\ (batch = <<>> \/ stopped)
  /\ batch' = <<>>
  /\ poll' = IF stopped THEN "off" ELSE IF more THEN "reading" ELSE "timer"
  /\ UNCHANGED <<log, cursor, more, stuck, stopped, delivered, poisoned, fails, faults>>

Unsubscribe ==
  /\ ~stopped /\ stopped' = TRUE
  /\ UNCHANGED <<log, cursor, batch, more, poll, stuck, delivered, poisoned, fails, faults>>

Poller == Tick \/ Read \/ HandlerOk \/ HandlerFails \/ BatchEnds

LogNext ==
  \/ \E w \in Writers : Begin(w) \/ TakeSequence(w) \/ StampTxid(w)
                         \/ \E how \in {"committed", "aborted"} : Finish(w, how)
  \/ Poller \/ PollFails \/ Unsubscribe

LogSpec == LogInit /\ [][LogNext]_logVars

\* The timer of the loop is armed again after every tick; handlers return.
Fairness == WF_logVars(Poller)
LogFairSpec == LogSpec /\ Fairness

-----------------------------------------------------------------------------
Handled == Range(delivered) \cup poisoned

\* The cursor never passes a committed event that was neither handled nor skipped: "No later
\* commit can introduce a lower `sequence` behind one that has been delivered" (docs/cqrs.md).
NothingSkipped == \A w \in CommittedRows : seq[w] < cursor => w \in Handled

\* What the horizon of read() with committedOnly does ensure, however commits and polls fall: the
\* cursor passes a committed event only when a delivered one overtook it, with the higher
\* sequence but the lower transaction id.
Overtaken(w) == \E v \in Handled : seq[v] > seq[w] /\ xid[v] < xid[w]
SkippedOnlyOvertaken == \A w \in CommittedRows : seq[w] < cursor => w \in Handled \/ Overtaken(w)

\* An event is skipped only after it failed MaxAttempts times, and is not delivered afterwards;
\* nothing is delivered twice (onEventFailed, tick).
SkippedAfterBudget ==
  /\ \A w \in poisoned : fails[w] = MaxAttempts /\ w \notin Range(delivered)
  /\ Len(delivered) = Cardinality(Range(delivered))

\* Once no transaction is running, every committed event that was not overtaken is handled or
\* skipped in time, poison or not, unless the subscription is stopped.
StreamAdvances ==
  \A w \in Writers :
    txn[w] = "committed" ~> w \in Handled \/ Overtaken(w) \/ stopped \/ Running # {}

-----------------------------------------------------------------------------
(***************************************************************************)
(* InMemoryEventStore: append() hands an event to a snapshot of the         *)
(* subscribers in a microtask while a new subscriber is still being taken   *)
(* through the backlog.                                                     *)
(***************************************************************************)

CONSTANTS
  Subscribers, From,   \* the sequence each subscribes from
  MaxEvents            \* bound: events appended

VARIABLES
  events,     \* length of the log; event i has sequence i
  registered, \* the set of subscribers
  backlog,    \* the part of its snapshot each subscriber has yet to see
  sub,        \* each subscriber: "new", "catching", "live" or "gone"
  tasks,      \* queued microtasks: an event and its targets
  seen,       \* how often each subscriber was handed each event
  left        \* history: events in the log when it unsubscribed

feedVars == <<events, registered, backlog, sub, tasks, seen, left>>

FeedInit ==
  /\ events = 0 /\ registered = {} /\ tasks = <<>>
  /\ backlog = [s \in Subscribers |-> <<>>]
  /\ sub = [s \in Subscribers |-> "new"]
  /\ seen = [s \in Subscribers |-> [e \in 1..MaxEvents |-> 0]]
  /\ left = [s \in Subscribers |-> 0]

FeedAppend ==
  LET e == events + 1
      targets == {s \in registered : e >= From[s]}
  IN  /\ events < MaxEvents /\ events' = e
      /\ tasks' = IF targets = {} THEN tasks ELSE Append(tasks, [event |-> e, targets |-> targets])
      /\ UNCHANGED <<registered, backlog, sub, seen, left>>

Hand(S, e) == seen' = [s \in Subscribers |-> [seen[s] EXCEPT ![e] = @ + (IF s \in S THEN 1 ELSE 0)]]

\* The microtask skips the subscribers that left since; a handler that throws changes nothing.
Microtask ==
  /\ tasks # <<>> /\ tasks' = Tail(tasks)
  /\ Hand(Head(tasks).targets \cap registered, Head(tasks).event)
  /\ UNCHANGED <<events, registered, backlog, sub, left>>

Snapshot(s, n) == [i \in 1..Max({0, n - From[s] + 1}) |-> From[s] + i - 1]

\* subscribe(): registered before the snapshot of the log is taken, in one turn.
LateSubscribe(s) ==     \* mutant: only the backlog is subscribed to
  /\ sub[s] = "new" /\ sub' = [sub EXCEPT ![s] = "catching"]
  /\ backlog' = [backlog EXCEPT ![s] = Snapshot(s, events)]
  /\ UNCHANGED <<events, registered, tasks, seen, left>>
Subscribe(s) ==
  /\ sub[s] = "new" /\ sub' = [sub EXCEPT ![s] = "catching"]
  /\ registered' = registered \cup {s}
  /\ backlog' = [backlog EXCEPT ![s] = Snapshot(s, events)]
  /\ UNCHANGED <<events, tasks, seen, left>>

\* One awaited handler of the backlog; it goes on although the microtasks deliver newer events.
CatchUp(s) ==
  /\ sub[s] = "catching"
  /\ IF backlog[s] = <<>>
     THEN sub' = [sub EXCEPT ![s] = "live"] /\ UNCHANGED <<backlog, seen>>
     ELSE /\ Hand({s}, Head(backlog[s]))
          /\ backlog' = [backlog EXCEPT ![s] = Tail(@)]
          /\ UNCHANGED sub
  /\ UNCHANGED <<events, registered, tasks, left>>

FeedLeave(s) ==
  /\ sub[s] = "live" /\ sub' = [sub EXCEPT ![s] = "gone"]
  /\ registered' = registered \ {s}
  /\ left' = [left EXCEPT ![s] = events]
  /\ UNCHANGED <<events, backlog, tasks, seen>>

FeedNext == FeedAppend \/ Microtask \/ \E s \in Subscribers : Subscribe(s) \/ CatchUp(s) \/ FeedLeave(s)

FeedSpec == FeedInit /\ [][FeedNext]_feedVars

-----------------------------------------------------------------------------
Queued(s, e) == \E i \in DOMAIN tasks : tasks[i].event = e /\ s \in tasks[i].targets

\* Every event from the requested sequence on reaches a subscriber exactly once, through the
\* backlog or live, however appends fall between subscribe() and the end of the backlog; what
\* is not yet delivered is queued.  Only an unsubscribe drops queued events.
FeedExactlyOnce ==
  \A s \in Subscribers, e \in 1..MaxEvents :
    /\ seen[s][e] <= 1
    /\ (sub[s] \in {"catching", "live"} /\ e \in From[s]..events) =>
         (seen[s][e] = 1 <=> ~Queued(s, e) /\ \A i \in DOMAIN backlog[s] : backlog[s][i] # e)
    /\ seen[s][e] = 1 => e >= From[s] /\ (sub[s] = "gone" => e <= left[s])

=============================================================================
