------------------------------ MODULE WsClient ------------------------------
(***************************************************************************)
(* NevoWsClient talking to one WsSignalRouter: sockets that are opened on   *)
(* demand and by a reconnect timer, queries matched to replies by uuid, and *)
(* subscriptions that are sent again on every new socket.  A promise's      *)
(* continuations run in the step that settles it.                           *)
(***************************************************************************)
EXTENDS Integers, Sequences, SequencesExt, FiniteSets

CONSTANTS
  MaxSockets,            \* bound: sockets opened in all
  Queries,               \* the calls made: query, or emit, publish, broadcast
  Subs, KeysOf,          \* subscriptions, and the service:method keys each may be for
  MaxReconnectAttempts,  \* maxReconnectAttempts, -1 for no limit
  MaxPerSocket           \* MAX_SUBSCRIPTIONS_PER_SOCKET of the server

VARIABLES
  sock,      \* state of each socket, and the subscriptions the server keeps for it
  entry,     \* the ServiceSocket: [socket, opening, attempt, closed]
  timers,    \* reconnect timers that are running
  query,     \* where each query is
  via,       \* the socket a pending query was sent on
  sub,       \* where each subscription is
  key,       \* and its key
  requests   \* entry.subscribeRequests: the keys, in the order of the Map

vars == <<sock, entry, timers, query, via, sub, key, requests>>

Sockets == 1..MaxSockets
NoSocket == 0
Waiting == {"opening", "emitting"}     \* a call that awaits getSocket
Pending == {q \in Queries : query[q] = "pending"}     \* entry.pending
Unused == {s \in Sockets : sock[s].st = "unused"}
IsOpen == entry.socket # NoSocket /\ sock[entry.socket].st = "open"

Init ==
  /\ sock = [s \in Sockets |-> [st |-> "unused", joined |-> {}]]
  /\ entry = [socket |-> NoSocket, opening |-> NoSocket, attempt |-> 0, closed |-> FALSE]
  /\ timers = 0
  /\ query = [q \in Queries |-> "idle"]
  /\ via = [q \in Queries |-> NoSocket]
  /\ sub = [x \in Subs |-> "idle"]
  /\ key \in {f \in [Subs -> UNION {KeysOf[x] : x \in Subs}] : \A x \in Subs : f[x] \in KeysOf[x]}
  /\ requests = <<>>

-----------------------------------------------------------------------------
(* The server's side of a socket                                             *)

\* __subscribe, one message after the other: the server remembers the key, up to a limit
\* per socket.
JoinOne(joined, k) ==
  IF k \in joined \/ Cardinality(joined) < MaxPerSocket THEN joined \cup {k} ELSE joined
JoinUnbounded(joined, keys) == joined \cup ToSet(keys)       \* mutant: the limit is not looked at
Join(joined, keys) == FoldLeft(JoinOne, joined, keys)

\* subscribeRequests.set: a key that is there keeps its place.
Request(reqs, k) == IF k \in ToSet(reqs) THEN reqs ELSE Append(reqs, k)
KeysIn(order) == [i \in DOMAIN order |-> key[order[i]]]

\* What was sent on socket s now, if it is pending, and what was pending before.
SentOn(s) ==
  via' = [q \in Queries |-> IF query'[q] # "pending" THEN NoSocket ELSE IF query[q] = "pending" THEN via[q] ELSE s]

\* A call whose request was sent: a query waits for its reply, an emit is done.
Sent(state) == CASE state = "opening" -> "pending" [] state = "emitting" -> "ok" [] OTHER -> state

-----------------------------------------------------------------------------
(* Opening a socket                                                          *)

\* openSocket: one attempt at a time; entry.socket is replaced at once.
OpenSocket(e) ==
  IF e.opening # NoSocket
  THEN entry' = e /\ UNCHANGED sock
  ELSE \E s \in Unused :
         /\ \A t \in Unused : s <= t
         /\ entry' = [e EXCEPT !.opening = s, !.socket = s]
         /\ sock' = [sock EXCEPT ![s].st = "connecting"]

\* settle(): the attempt's waiters fail; a later call of settle does nothing.
SettleFails(s) ==
  /\ entry' = IF entry.opening = s THEN [entry EXCEPT !.opening = NoSocket] ELSE entry
  /\ query' = [q \in Queries |-> IF entry.opening = s /\ query[q] \in Waiting THEN "failed" ELSE query[q]]
  /\ sub' = [x \in Subs |-> IF entry.opening = s /\ sub[x] = "opening" THEN "failed" ELSE sub[x]]

\* The open event: send every subscription again, then let the waiters continue in the
\* order in which they called.
OpenForgets(s) ==      \* mutant: subscriptions are not sent again
  LET waiting == {x \in Subs : sub[x] = "opening"}
  IN  \E order \in SetToSeqs(waiting) :
      /\ sock[s].st = "connecting"
      /\ requests' = FoldLeft(Request, requests, KeysIn(order))
      /\ sock' = [sock EXCEPT ![s] = [st |-> "open", joined |-> Join({}, KeysIn(order))]]
      /\ entry' = [entry EXCEPT !.opening = NoSocket, !.attempt = 0]
      /\ query' = [q \in Queries |-> Sent(query[q])]
      /\ SentOn(s)
      /\ sub' = [x \in Subs |-> IF x \in waiting THEN "live" ELSE sub[x]]
      /\ UNCHANGED <<timers, key>>
Opened(s) ==
  LET waiting == {x \in Subs : sub[x] = "opening"}
  IN  \E order \in SetToSeqs(waiting) :
      /\ sock[s].st = "connecting"
      /\ requests' = FoldLeft(Request, requests, KeysIn(order))
      /\ sock' = [sock EXCEPT ![s] = [st |-> "open", joined |-> Join({}, requests \o KeysIn(order))]]
      /\ entry' = [entry EXCEPT !.opening = NoSocket, !.attempt = 0]
      /\ query' = [q \in Queries |-> Sent(query[q])]
      /\ SentOn(s)
      /\ sub' = [x \in Subs |-> IF x \in waiting THEN "live" ELSE sub[x]]
      /\ UNCHANGED <<timers, key>>

\* The connect timer, or the error event: the attempt fails and the socket closes.
ConnectFails(s) ==
  /\ sock[s].st = "connecting"
  /\ sock' = [sock EXCEPT ![s].st = "closing"]
  /\ SettleFails(s)
  /\ UNCHANGED <<timers, via, key, requests>>

\* The connection is lost or closed by the server.
Drop(s) ==
  /\ sock[s].st = "open"
  /\ sock' = [sock EXCEPT ![s] = [st |-> "closing", joined |-> {}]]
  /\ UNCHANGED <<entry, timers, query, via, sub, key, requests>>

MayReconnect(e) == ~e.closed /\ (MaxReconnectAttempts < 0 \/ e.attempt < MaxReconnectAttempts)

\* The close event rejects every pending query, whichever socket it was sent on,
\* and starts the reconnect timer.
CloseKeepsPending(s) ==       \* mutant: the close event leaves the pending queries alone, timers and all
  /\ sock[s].st = "closing"
  /\ sock' = [sock EXCEPT ![s].st = "closed"]
  /\ entry' = [entry EXCEPT !.opening = IF @ = s THEN NoSocket ELSE @,
                            !.attempt = IF MayReconnect(entry) THEN @ + 1 ELSE @]
  /\ query' = [q \in Queries |-> IF query[q] = "pending" THEN "orphan" ELSE query[q]]
  /\ sub' = [x \in Subs |-> IF entry.opening = s /\ sub[x] = "opening" THEN "failed" ELSE sub[x]]
  /\ timers' = IF MayReconnect(entry) THEN timers + 1 ELSE timers
  /\ SentOn(NoSocket) /\ UNCHANGED <<key, requests>>
CloseEvent(s) ==
  /\ sock[s].st = "closing"
  /\ sock' = [sock EXCEPT ![s].st = "closed"]
  /\ entry' = [entry EXCEPT !.opening = IF @ = s THEN NoSocket ELSE @,
                            !.attempt = IF MayReconnect(entry) THEN @ + 1 ELSE @]
  /\ query' = [q \in Queries |-> IF query[q] = "pending" \/ (entry.opening = s /\ query[q] \in Waiting)
                                 THEN "failed" ELSE query[q]]
  /\ sub' = [x \in Subs |-> IF entry.opening = s /\ sub[x] = "opening" THEN "failed" ELSE sub[x]]
  /\ timers' = IF MayReconnect(entry) THEN timers + 1 ELSE timers
  /\ SentOn(NoSocket) /\ UNCHANGED <<key, requests>>

Reconnect ==
  /\ timers > 0
  /\ timers' = timers - 1
  /\ OpenSocket(entry)
  /\ UNCHANGED <<query, via, sub, key, requests>>

-----------------------------------------------------------------------------
(* Calls                                                                     *)

Query(q, waiting) ==
  /\ query[q] = "idle" /\ ~entry.closed
  /\ \/ /\ IsOpen
        /\ query' = [query EXCEPT ![q] = Sent(waiting)]
        /\ SentOn(entry.socket)
        /\ UNCHANGED <<sock, entry>>
     \/ /\ ~IsOpen
        /\ OpenSocket(entry)
        /\ query' = [query EXCEPT ![q] = waiting]
        /\ UNCHANGED via
  /\ UNCHANGED <<timers, sub, key, requests>>

\* handleMessage finds the uuid among the pending queries.
Reply(q) ==
  /\ query[q] = "pending"
  /\ sock[via[q]].st = "open"
  /\ query' = [query EXCEPT ![q] = "ok"]
  /\ SentOn(NoSocket) /\ UNCHANGED <<sock, entry, timers, sub, key, requests>>

Timeout(q) ==
  /\ query[q] = "pending"
  /\ query' = [query EXCEPT ![q] = "failed"]
  /\ SentOn(NoSocket) /\ UNCHANGED <<sock, entry, timers, sub, key, requests>>

Subscribe(x) ==
  /\ sub[x] = "idle" /\ ~entry.closed
  /\ \/ /\ IsOpen
        /\ sub' = [sub EXCEPT ![x] = "live"]
        /\ requests' = Request(requests, key[x])
        /\ sock' = [sock EXCEPT ![entry.socket].joined = Join(@, <<key[x]>>)]
        /\ UNCHANGED entry
     \/ /\ ~IsOpen
        /\ OpenSocket(entry)
        /\ sub' = [sub EXCEPT ![x] = "opening"]
        /\ UNCHANGED requests
  /\ UNCHANGED <<timers, query, via, key>>

\* Only the last handler of a key removes it; the server is not told.
Unsubscribe(x) ==
  /\ sub[x] = "live"
  /\ sub' = [sub EXCEPT ![x] = "gone"]
  /\ requests' = IF \E y \in Subs \ {x} : sub[y] = "live" /\ key[y] = key[x]
                 THEN requests ELSE SelectSeq(requests, LAMBDA k : k # key[x])
  /\ UNCHANGED <<sock, entry, timers, query, via, key>>

Close ==
  /\ ~entry.closed
  /\ entry' = [entry EXCEPT !.closed = TRUE]
  /\ query' = [q \in Queries |-> IF query[q] = "pending" THEN "failed" ELSE query[q]]
  /\ sock' = IF entry.socket # NoSocket /\ sock[entry.socket].st \in {"connecting", "open"}
             THEN [sock EXCEPT ![entry.socket] = [st |-> "closing", joined |-> {}]] ELSE sock
  /\ SentOn(NoSocket) /\ UNCHANGED <<timers, sub, key, requests>>

Next ==
  \/ \E s \in Sockets : Opened(s) \/ ConnectFails(s) \/ Drop(s) \/ CloseEvent(s)
  \/ Reconnect
  \/ \E q \in Queries : (\E w \in Waiting : Query(q, w)) \/ Reply(q) \/ Timeout(q)
  \/ \E x \in Subs : Subscribe(x) \/ Unsubscribe(x)
  \/ Close

Spec == Init /\ [][Next]_vars

\* Events and timers of the process fire.
Events ==
  \/ \E s \in Sockets : ConnectFails(s) \/ CloseEvent(s)
  \/ \E q \in Queries : Timeout(q)
FairSpec == Spec /\ WF_vars(Events)

-----------------------------------------------------------------------------
(* Properties                                                                *)

\* While the client's socket is open, the server fans publications of every live
\* subscription out to it, through losses of the connection, reconnects that race
\* with calls, and handlers that come and go, unless the socket has all the keys the
\* server allows it, those of handlers that went included (nevo-ws.client.ts open and
\* subscribe, ws.signal-router.decorator.ts __subscribe).
SubscribedOnCurrentSocket ==
  IsOpen => LET joined == sock[entry.socket].joined
            IN  /\ Cardinality(joined) <= MaxPerSocket
                /\ \A x \in Subs : sub[x] = "live" => key[x] \in joined \/ Cardinality(joined) = MaxPerSocket

\* A query that was handed to the client is answered or rejected, whatever happens to
\* the sockets (nevo-ws.client.ts query and the close event).
EveryQueryEnds == \A q \in Queries : (query[q] # "idle") ~> (query[q] \in {"ok", "failed"})

=============================================================================
