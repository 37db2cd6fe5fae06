------------------------------ MODULE SocketIo ------------------------------
(***************************************************************************)
(* NevoSocketClient and one SocketSignalRouter.  The library (external)     *)
(* reconnects by itself, keeps what is emitted while the connection is down *)
(* and sends it on the next connect; what was in flight when the connection *)
(* broke is lost, and the server forgets the rooms of a lost connection.    *)
(***************************************************************************)
EXTENDS Integers, Sequences, SequencesExt, FiniteSets

CONSTANTS
  Subs, KeysOf,   \* subscriptions, and the subKeys each may be for: [method, version, room]
  Queries,
  MaxBreaks       \* bound: losses of the connection

VARIABLES
  link,    \* "down", "up" or "closed"
  breaks,
  chan,    \* messages from the client that the server has not read
  active,  \* activeSubscriptions: the count of each subKey
  sub,     \* where each subscription is
  key,     \* and its subKey
  rooms,   \* rooms of this connection at the server
  ask      \* where each query is

vars == <<link, breaks, chan, active, sub, key, rooms, ask>>

Keys == UNION {KeysOf[x] : x \in Subs}
Live == {x \in Subs : sub[x] = "live"}

Init ==
  /\ link = "down" /\ breaks = 0 /\ chan = <<>>
  /\ active = [k \in Keys |-> 0]
  /\ sub = [x \in Subs |-> "idle"]
  /\ key \in {f \in [Subs -> Keys] : \A x \in Subs : f[x] \in KeysOf[x]}
  /\ rooms = {}
  /\ ask = [q \in Queries |-> "idle"]

\* The room the server joins for a subKey: the explicit one, or the method's, a method without
\* a version being its first version, or the service's.
Room(k) ==
  IF k.room # "" THEN <<"room", k.room>>
  ELSE IF k.method # "" THEN <<"method", k.method, IF k.version = "" THEN "v1" ELSE k.version>>
  ELSE <<"service">>

Emit(op, arg) == chan' = Append(chan, [op |-> op, arg |-> arg])

-----------------------------------------------------------------------------
(* The client                                                                *)

\* The connect event sends every active subscription again.
Connect ==
  /\ link = "down"
  /\ link' = "up"
  /\ chan' = chan \o SetToSeq({[op |-> "subscribe", arg |-> k] : k \in {k \in Keys : active[k] > 0}})
  /\ UNCHANGED <<breaks, active, sub, key, rooms, ask>>

Break ==
  /\ link = "up" /\ breaks < MaxBreaks
  /\ link' = "down" /\ breaks' = breaks + 1
  /\ chan' = <<>> /\ rooms' = {}
  /\ UNCHANGED <<active, sub, key, ask>>

Subscribe(x) ==
  /\ link # "closed" /\ sub[x] = "idle"
  /\ sub' = [sub EXCEPT ![x] = "live"]
  /\ active' = [active EXCEPT ![key[x]] = @ + 1]
  /\ Emit("subscribe", key[x])
  /\ UNCHANGED <<link, breaks, key, rooms, ask>>

\* The server is told only when the last handler of a subKey goes.
UnsubscribeAlways(x) ==     \* mutant: every handler tells the server
  /\ link # "closed" /\ sub[x] = "live"
  /\ sub' = [sub EXCEPT ![x] = "gone"]
  /\ active' = [active EXCEPT ![key[x]] = @ - 1]
  /\ Emit("unsubscribe", key[x])
  /\ UNCHANGED <<link, breaks, key, rooms, ask>>
Unsubscribe(x) ==
  /\ link # "closed" /\ sub[x] = "live"
  /\ sub' = [sub EXCEPT ![x] = "gone"]
  /\ active' = [active EXCEPT ![key[x]] = @ - 1]
  /\ IF active'[key[x]] > 0 THEN UNCHANGED chan ELSE Emit("unsubscribe", key[x])
  /\ UNCHANGED <<link, breaks, key, rooms, ask>>

Query(q) ==
  /\ link # "closed" /\ ask[q] = "idle"
  /\ ask' = [ask EXCEPT ![q] = "waiting"]
  /\ Emit("query", q)
  /\ UNCHANGED <<link, breaks, active, sub, key, rooms>>

\* socket.timeout(): the acknowledgement callback runs with an error.
QueryTimeout(q) ==
  /\ ask[q] = "waiting"
  /\ ask' = [ask EXCEPT ![q] = "failed"]
  /\ UNCHANGED <<link, breaks, chan, active, sub, key, rooms>>

Close ==
  /\ link # "closed"
  /\ link' = "closed" /\ chan' = <<>> /\ rooms' = {}
  /\ UNCHANGED <<breaks, active, sub, key, ask>>

-----------------------------------------------------------------------------
(* The server reads the next message                                         *)

Reads(op) == link = "up" /\ chan # <<>> /\ Head(chan).op = op /\ chan' = Tail(chan)

OnSubscribe ==
  /\ Reads("subscribe")
  /\ rooms' = rooms \cup {Room(Head(chan).arg)}
  /\ UNCHANGED <<link, breaks, active, sub, key, ask>>

OnUnsubscribe ==
  /\ Reads("unsubscribe")
  /\ rooms' = rooms \ {Room(Head(chan).arg)}
  /\ UNCHANGED <<link, breaks, active, sub, key, ask>>

\* The handler's answer, or the error it threw, is the acknowledgement.
OnQuery ==
  /\ Reads("query")
  /\ \E answer \in {"ok", "failed"} :
       ask' = [ask EXCEPT ![Head(chan).arg] = IF @ = "waiting" THEN answer ELSE @]
  /\ UNCHANGED <<link, breaks, active, sub, key, rooms>>

Next ==
  \/ Connect \/ Break \/ Close
  \/ OnSubscribe \/ OnUnsubscribe \/ OnQuery
  \/ \E x \in Subs : Subscribe(x) \/ Unsubscribe(x)
  \/ \E q \in Queries : Query(q) \/ QueryTimeout(q)

Spec == Init /\ [][Next]_vars

-----------------------------------------------------------------------------
\* When the server has read everything the client sent, it keeps the socket in the rooms of
\* live subscriptions only, and in the room of each of them, through reconnects and through
\* handlers of one subscription that leave one by one; except in a room that another
\* subscription of the client shared and left, because the server does not count how many
\* share a room (connect and unsubscribe of nevo-socket.client.ts, nevo:unsubscribe of
\* socket.signal-router.decorator.ts).
RoomsFollowSubscriptions ==
  link = "up" /\ chan = <<>> =>
    /\ rooms \subseteq {Room(key[x]) : x \in Live}
    /\ \A x \in Live : \/ Room(key[x]) \in rooms
                       \/ \E y \in Subs : sub[y] = "gone" /\ key[y] # key[x] /\ Room(key[y]) = Room(key[x])

=============================================================================
