---------------------------- MODULE DeadLetters ----------------------------
(***************************************************************************)
(* DlqRouter and its stores: entries are routed to the store while replay   *)
(* passes, started by the timer and by the application, walk over a window  *)
(* of it.  The memory store is bounded; the Postgres store is not.          *)
(***************************************************************************)
EXTENDS Integers, Sequences, FiniteSets, SequencesExt, FiniteSetsExt, Functions

CONSTANTS
  Entries,       \* dead letters; their order is that of their timestamps
  Passes,        \* callers of replayOnce()
  MaxStored,     \* InMemoryDlqStore.max
  Window,        \* entries a pass looks at
  MaxAttempts,   \* replay.maxAttempts
  AttemptsCap,   \* REPLAY_ATTEMPTS_CAP
  MaxReplays     \* bound: replay passes

VARIABLES
  store,     \* "memory" or "pg"
  entries,   \* the store, in insertion order
  attempts,  \* replayAttempts: pairs of entry and count, in insertion order
  onEntry,   \* the attempts field of each stored entry
  running,   \* replayInProgress
  pass,      \* each pass: where it is and what is left of its list
  replays,   \* passes started
  routed,    \* history: entries given to route()
  ok, lost,  \* history: successful handlers, and removals that failed after one
  failed,    \* history: failed replays of each entry
  forgotten, \* history: entries whose count left the map
  dropped    \* history: entries the bounded store shifted out

vars == <<store, entries, attempts, onEntry, running, pass, replays, routed, ok, lost, failed, forgotten, dropped>>
history == <<routed, ok, lost, failed, forgotten, dropped>>
Zero == [e \in Entries |-> 0]
Off == [at |-> "idle", list |-> <<>>]

Init ==
  /\ store \in {"memory", "pg"}
  /\ entries = <<>> /\ attempts = <<>> /\ onEntry = Zero
  /\ running = FALSE /\ pass = [p \in Passes |-> Off] /\ replays = 0
  /\ routed = {} /\ ok = Zero /\ lost = Zero /\ failed = Zero /\ forgotten = {} /\ dropped = {}

-----------------------------------------------------------------------------
(* The stores                                                                *)

\* InMemoryDlqStore.push shifts the oldest out; PgDlqStore.push ignores a known id.
MemoryPush(e) == LET all == Append(entries, e)
                 IN  SubSeq(all, 1 + Max({0, Len(all) - MaxStored}), Len(all))
PgPush(e) == IF e \in Range(entries) THEN entries ELSE Append(entries, e)

\* listOldest(): the head of the memory store.  Postgres has only list(): the newest, newest first.
MemoryOldest(n) == SubSeq(entries, 1, Min({n, Len(entries)}))
PgList(n) == LET newest == Reverse(SetToSortSeq(Range(entries), <))
             IN  SubSeq(newest, 1, Min({n, Len(newest)}))

Without(e) == SelectSeq(entries, LAMBDA x : x # e)

\* route(): each entry once, in the order of time.
Route(e) ==
  /\ e \notin routed /\ \A f \in Entries : f < e => f \in routed
  /\ routed' = routed \cup {e}
  /\ entries' = IF store = "memory" THEN MemoryPush(e) ELSE PgPush(e)
  /\ dropped' = dropped \cup (Range(entries) \ Range(entries'))
  /\ UNCHANGED <<store, attempts, onEntry, running, pass, replays, ok, lost, failed, forgotten>>

-----------------------------------------------------------------------------
(* Replay                                                                    *)

Counted(e) == {i \in DOMAIN attempts : attempts[i].entry = e}
Attempts(e) ==
  IF Counted(e) # {} THEN attempts[Min(Counted(e))].n ELSE onEntry[e]

\* bumpReplayAttempts: a known key keeps its place, the oldest keys leave the map at its cap.
\* The memory store hands out its own objects, so the count is also on the entry.
Bump(e) ==
  LET n == Attempts(e) + 1
      new == [entry |-> e, n |-> n]
      all == IF Counted(e) = {} THEN Append(attempts, new) ELSE [attempts EXCEPT ![Min(Counted(e))] = new]
      kept == SubSeq(all, 1 + Max({0, Len(all) - AttemptsCap}), Len(all))
  IN  /\ attempts' = kept
      /\ forgotten' = forgotten \cup {all[i].entry : i \in 1..(Len(all) - Len(kept))}
      /\ onEntry' = IF store = "memory" THEN [onEntry EXCEPT ![e] = n] ELSE onEntry
      /\ failed' = [failed EXCEPT ![e] = @ + 1]

Overlapping(p) ==    \* mutant: a second pass starts while one is running
  /\ pass[p].at = "idle" /\ replays < MaxReplays
  /\ running' = TRUE /\ replays' = replays + 1
  /\ pass' = [pass EXCEPT ![p] = [at |-> "walks", list |-> IF store = "memory" THEN MemoryOldest(Window) ELSE PgList(Window)]]
  /\ UNCHANGED <<store, entries, attempts, onEntry, history>>
ReplayOnce(p) ==
  /\ pass[p].at = "idle" /\ replays < MaxReplays
  /\ ~running /\ running' = TRUE
  /\ replays' = replays + 1
  /\ pass' = [pass EXCEPT ![p] = [at |-> "walks", list |-> IF store = "memory" THEN MemoryOldest(Window) ELSE PgList(Window)]]
  /\ UNCHANGED <<store, entries, attempts, onEntry, history>>

NoLimit(e) == FALSE     \* mutant: the attempts are not looked at
Exhausted(e) == Attempts(e) >= MaxAttempts

Step(p, at) == pass' = [pass EXCEPT ![p].at = at]
Dropped(p) == pass' = [pass EXCEPT ![p] = [at |-> "walks", list |-> Tail(pass[p].list)]]

\* The next entry: out of attempts, refused by the policy, or handed to the handler.
Consider(p) ==
  /\ pass[p].at = "walks" /\ pass[p].list # <<>>
  /\ \/ Exhausted(Head(pass[p].list)) /\ Dropped(p)
     \/ ~Exhausted(Head(pass[p].list)) /\ (Dropped(p) \/ Step(p, "handles"))
  /\ UNCHANGED <<store, entries, attempts, onEntry, running, replays, history>>

Handled(p) ==
  LET e == Head(pass[p].list)
  IN  /\ pass[p].at = "handles"
      /\ \/ /\ ok' = [ok EXCEPT ![e] = @ + 1] /\ Step(p, "removes")
            /\ UNCHANGED <<attempts, onEntry, failed, forgotten>>
         \/ Bump(e) /\ Dropped(p) /\ UNCHANGED ok
      /\ UNCHANGED <<store, entries, running, replays, routed, lost, dropped>>

Removed(p) ==
  LET e == Head(pass[p].list)
  IN  /\ pass[p].at = "removes" /\ Dropped(p)
      /\ \/ /\ entries' = Without(e)
            /\ attempts' = SelectSeq(attempts, LAMBDA a : a.entry # e)
            /\ UNCHANGED <<onEntry, lost, failed, forgotten>>
         \/ /\ store = "pg"      \* the statement fails: counted as a failed replay
            /\ Bump(e) /\ lost' = [lost EXCEPT ![e] = @ + 1]
            /\ UNCHANGED entries
      /\ UNCHANGED <<store, running, replays, routed, ok, dropped>>

\* The end of the list, or a policy that throws: the finally.
PassEnds(p) ==
  /\ pass[p].at = "walks"
  /\ pass' = [pass EXCEPT ![p] = Off]
  /\ running' = FALSE
  /\ UNCHANGED <<store, entries, attempts, onEntry, replays, history>>

Next ==
  \/ \E e \in Entries : Route(e)
  \/ \E p \in Passes : ReplayOnce(p) \/ Consider(p) \/ Handled(p) \/ Removed(p) \/ PassEnds(p)

Spec == Init /\ [][Next]_vars

-----------------------------------------------------------------------------
\* A dead letter is replayed successfully once, however many passes are asked for at the
\* same time; it comes again only when removing it failed (replayOnce).
ReplayedOnce == \A e \in Entries : ok[e] <= 1 + lost[e]

\* It is not replayed more often than maxAttempts, unless its count was dropped from the
\* bounded map and the store does not keep it on the entry (bumpReplayAttempts).
ReplaysBounded ==
  \A e \in Entries : failed[e] <= MaxAttempts \/ (store = "pg" /\ e \in forgotten)

\* Nothing leaves the dead-letter queue unseen: an entry that was routed is in the store, was
\* replayed with success, or was shifted out by the cap of the memory store, whatever replays
\* fail and whichever entries are pushed while a pass walks its list (push, replayOnce, remove).
RoutedIsKept ==
  /\ \A e \in routed : e \in Range(entries) \cup dropped \/ ok[e] > 0
  /\ dropped # {} => store = "memory" /\ Cardinality(routed) > MaxStored

=============================================================================
