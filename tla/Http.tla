-------------------------------- MODULE Http --------------------------------
(* The HTTP transports: one exchange over each sender, and event streams.    *)
EXTENDS Integers, FiniteSets, FiniteSetsExt, Functions

(***************************************************************************)
(* One request of the HTTP clients: NevoHttpClient over node's http or over *)
(* undici, and NevoHttp2Client over a session it shares between requests.   *)
(* The body arrives in pieces under a size cap and a deadline; the promise  *)
(* takes the first settlement and ignores the rest.                         *)
(***************************************************************************)

CONSTANTS
  Calls,
  Senders,      \* "http", "undici", "http2"
  Cap,          \* maxPayloadBytes, in pieces
  Answers,      \* answers of the server: [size (in pieces), declared, status, body]
  MaxSessions   \* bound: HTTP/2 sessions opened

VARIABLES
  sender,    \* the client in use
  call,      \* where each call is: "idle", "sent", "head", "settled"
  answer,    \* what the server answers
  received,  \* pieces received
  result,    \* how the promise settled
  on,        \* the session a call was sent over
  session    \* HTTP/2: the state of each session; the last one opened is in the map

exchangeVars == <<sender, call, answer, received, result, on, session>>

NoAnswer == [size |-> 0, declared |-> FALSE, status |-> 0, body |-> "value"]
Opened == {s \in 1..MaxSessions : session[s] # "unused"}
Current == Cardinality(Opened)

ExchangeInit ==
  /\ sender \in Senders
  /\ call = [c \in Calls |-> "idle"]
  /\ answer = [c \in Calls |-> NoAnswer]
  /\ received = [c \in Calls |-> 0]
  /\ result = [c \in Calls |-> "none"]
  /\ on = [c \in Calls |-> 0]
  /\ session = [s \in 1..MaxSessions |-> "unused"]

Settle(c, r) == call' = [call EXCEPT ![c] = "settled"] /\ result' = [result EXCEPT ![c] = r]

-----------------------------------------------------------------------------
\* getSession: reuse the session unless it is closed or destroyed.
GetSession ==
  IF Current > 0 /\ session[Current] = "open"
  THEN UNCHANGED session
  ELSE Current < MaxSessions /\ session' = [session EXCEPT ![Current + 1] = "open"]

Send(c) ==
  /\ call[c] = "idle"
  /\ call' = [call EXCEPT ![c] = "sent"]
  /\ IF sender = "http2" THEN GetSession ELSE UNCHANGED session
  /\ on' = [on EXCEPT ![c] = Cardinality({s \in 1..MaxSessions : session'[s] # "unused"})]
  /\ UNCHANGED <<sender, answer, received, result>>

\* The headers: an announced length over the cap ends the request.
Headers(c) ==
  /\ call[c] = "sent"
  /\ \E a \in Answers :
       /\ answer' = [answer EXCEPT ![c] = a]
       /\ IF a.declared /\ a.size > Cap
          THEN Settle(c, "too_large")
          ELSE call' = [call EXCEPT ![c] = "head"] /\ UNCHANGED result
  /\ UNCHANGED <<sender, received, on, session>>

\* A piece of the body: what exceeds the cap ends the request.
DataUncapped(c) ==      \* mutant: the received bytes are not counted
  /\ call[c] = "head" /\ received[c] < answer[c].size
  /\ received' = [received EXCEPT ![c] = @ + 1]
  /\ UNCHANGED <<sender, call, answer, result, on, session>>
Data(c) ==
  /\ call[c] = "head" /\ received[c] < answer[c].size
  /\ received' = [received EXCEPT ![c] = @ + 1]
  /\ IF received'[c] > Cap THEN Settle(c, "too_large") ELSE UNCHANGED <<call, result>>
  /\ UNCHANGED <<sender, answer, on, session>>

\* What query makes of a complete answer: the status counts only when there is no
\* envelope with an error in it.
Read(a) ==
  IF a.status >= 400 /\ a.body # "error" THEN "status_error"
  ELSE IF a.size = 0 THEN "empty"
  ELSE CASE a.body = "garbled" -> "parse_error"
         [] a.body = "error" -> "remote_error"
         [] OTHER -> "value"

End(c) ==
  /\ call[c] = "head" /\ received[c] = answer[c].size
  /\ Settle(c, Read(answer[c]))
  /\ UNCHANGED <<sender, answer, received, on, session>>

\* The connection breaks; the library reports it on the request.
Broken(c) ==
  /\ call[c] \in {"sent", "head"} /\ sender # "http2"
  /\ Settle(c, "lost")
  /\ UNCHANGED <<sender, answer, received, on, session>>

Deadline(c) ==
  /\ call[c] \in {"sent", "head"}
  /\ Settle(c, "timeout")
  /\ UNCHANGED <<sender, answer, received, on, session>>

\* An HTTP/2 session is lost with every stream on it.
SessionLost(s) ==
  /\ session[s] \in {"open", "closing"}
  /\ session' = [session EXCEPT ![s] = "closed"]
  /\ LET hit == {c \in Calls : on[c] = s /\ call[c] \in {"sent", "head"}}
     IN  /\ call' = [c \in Calls |-> IF c \in hit THEN "settled" ELSE call[c]]
         /\ result' = [c \in Calls |-> IF c \in hit THEN "lost" ELSE result[c]]
  /\ UNCHANGED <<sender, answer, received, on>>

\* close(): the session finishes the streams it has and takes no new one.
CloseClient ==
  /\ Current > 0 /\ session[Current] = "open"
  /\ session' = [session EXCEPT ![Current] = "closing"]
  /\ UNCHANGED <<sender, call, answer, received, result, on>>

ExchangeNext ==
  \/ \E c \in Calls : Send(c) \/ Headers(c) \/ Data(c) \/ End(c) \/ Broken(c) \/ Deadline(c)
  \/ \E s \in 1..MaxSessions : SessionLost(s)
  \/ CloseClient

ExchangeSpec == ExchangeInit /\ [][ExchangeNext]_exchangeVars

-----------------------------------------------------------------------------
\* A caller gets a value only from a whole answer within the cap whose status or envelope
\* says success, whatever the order of pieces, errors and deadlines (sendBuffer,
\* sendBufferUndici, sendOverStream and query).
ValuesAreWhole ==
  \A c \in Calls : result[c] \in {"value", "remote_error"} =>
    /\ received[c] = answer[c].size /\ received[c] <= Cap /\ received[c] > 0
    /\ result[c] = "value" => answer[c].status < 400 /\ answer[c].body = "value"

\* At most one session takes new requests: calls share it until it is closed or lost.
OneOpenSession == Cardinality({s \in Opened : session[s] = "open"}) <= 1

-----------------------------------------------------------------------------
(***************************************************************************)
(* Subscriptions over server-sent events: the read loop of NevoHttpClient,  *)
(* which reconnects with a delay until it is aborted, and HttpSseBroker,    *)
(* which counts the streams of each channel and bounds the channels.        *)
(***************************************************************************)

CONSTANTS
  Subs, Channel,   \* subscriptions and the channel each reads
  MaxChannels,     \* maxChannels of the broker
  MaxBreaks        \* bound: streams that end or break

VARIABLES
  loop,      \* each subscription's loop: "idle", "connecting", "reading", "sleeping", "done", "failed"
  aborted,   \* its AbortController
  attached,  \* open streams of each subscription at the server, abandoned ones included
  channels,  \* the broker: subscribers of each channel that exists
  closed,    \* close() was called
  breaks

sseVars == <<loop, aborted, attached, channels, closed, breaks>>

Names == {Channel[x] : x \in Subs}
Existing == {n \in Names : channels[n] > 0}

SseInit ==
  /\ loop = [x \in Subs |-> "idle"]
  /\ aborted = [x \in Subs |-> FALSE]
  /\ attached = [x \in Subs |-> 0]
  /\ channels = [n \in Names |-> 0]
  /\ closed = FALSE /\ breaks = 0

-----------------------------------------------------------------------------
(* The broker                                                                *)

\* assertCapacity
HasCapacity(n) == n \in Existing \/ Cardinality(Existing) < MaxChannels

Acquire(x) == channels' = [channels EXCEPT ![Channel[x]] = @ + 1] /\ attached' = [attached EXCEPT ![x] = @ + 1]
ReleaseChannel(x) ==      \* mutant: a stream that ends takes the channel with it
  channels' = [channels EXCEPT ![Channel[x]] = 0] /\ attached' = [attached EXCEPT ![x] = @ - 1]
Release(x) == channels' = [channels EXCEPT ![Channel[x]] = @ - 1] /\ attached' = [attached EXCEPT ![x] = @ - 1]

\* The server notices that the client is gone.
ServerReleases(x) ==
  /\ attached[x] > (IF loop[x] = "reading" THEN 1 ELSE 0)
  /\ Release(x)
  /\ UNCHANGED <<loop, aborted, closed, breaks>>

-----------------------------------------------------------------------------
(* The client                                                                *)

Subscribe(x) ==
  /\ loop[x] = "idle" /\ ~closed
  /\ loop' = [loop EXCEPT ![x] = "connecting"]
  /\ UNCHANGED <<aborted, attached, channels, closed, breaks>>

\* fetch() settles.  The first failure is the caller's, later ones only delay the loop.
Connects(x) ==
  /\ loop[x] \in {"connecting", "reconnecting"} /\ ~aborted[x]
  /\ HasCapacity(Channel[x])
  /\ Acquire(x)
  /\ loop' = [loop EXCEPT ![x] = "reading"]
  /\ UNCHANGED <<aborted, closed, breaks>>

GiveUp(x) ==      \* mutant: a failed reconnect ends the loop
  /\ loop[x] \in {"connecting", "reconnecting"}
  /\ aborted[x] \/ ~HasCapacity(Channel[x])
  /\ loop' = [loop EXCEPT ![x] = IF aborted[x] THEN "done" ELSE "failed"]
  /\ UNCHANGED <<aborted, attached, channels, closed, breaks>>
ConnectFails(x) ==
  /\ loop[x] \in {"connecting", "reconnecting"}
  /\ aborted[x] \/ ~HasCapacity(Channel[x])
  /\ loop' = [loop EXCEPT ![x] = CASE aborted[x] -> "done"
                                   [] loop[x] = "connecting" -> "failed"
                                   [] OTHER -> "sleeping"]
  /\ UNCHANGED <<aborted, attached, channels, closed, breaks>>

\* The stream ends, breaks or is silent longer than the idle timeout.
StreamEnds(x) ==
  /\ loop[x] = "reading" /\ ~aborted[x] /\ breaks < MaxBreaks
  /\ breaks' = breaks + 1
  /\ loop' = [loop EXCEPT ![x] = "sleeping"]
  /\ \/ Release(x)                          \* the server ended it
     \/ UNCHANGED <<attached, channels>>    \* the server does not know yet
  /\ UNCHANGED <<aborted, closed>>

\* sleepUnlessAborted
Wake(x) ==
  /\ loop[x] = "sleeping"
  /\ loop' = [loop EXCEPT ![x] = IF aborted[x] THEN "done" ELSE "reconnecting"]
  /\ UNCHANGED <<aborted, attached, channels, closed, breaks>>

\* An aborted read rejects and the loop returns.
AbortedRead(x) ==
  /\ loop[x] = "reading" /\ aborted[x]
  /\ loop' = [loop EXCEPT ![x] = "done"]
  /\ UNCHANGED <<aborted, attached, channels, closed, breaks>>

Unsubscribe(x) ==
  /\ loop[x] \in {"reading", "sleeping", "reconnecting"} /\ ~aborted[x]
  /\ aborted' = [aborted EXCEPT ![x] = TRUE]
  /\ UNCHANGED <<loop, attached, channels, closed, breaks>>

\* close() aborts every controller.
Close ==
  /\ ~closed /\ closed' = TRUE
  /\ aborted' = [x \in Subs |-> aborted[x] \/ loop[x] # "idle"]
  /\ UNCHANGED <<loop, attached, channels, breaks>>

Step(x) == Connects(x) \/ ConnectFails(x) \/ Wake(x) \/ AbortedRead(x) \/ ServerReleases(x)
SseNext == Close \/ \E x \in Subs : Subscribe(x) \/ Unsubscribe(x) \/ StreamEnds(x) \/ Step(x)

SseSpec == SseInit /\ [][SseNext]_sseVars
SseFairSpec == SseSpec /\ \A x \in Subs : WF_sseVars(Step(x))

-----------------------------------------------------------------------------
\* The broker's counters are the open streams, so a channel lives exactly as long as a
\* stream reads it, and the number of channels stays within the limit.
ChannelsCounted ==
  /\ \A n \in Names : channels[n] = SumFunctionOnSet(attached, {x \in Subs : Channel[x] = n})
  /\ Cardinality(Existing) <= MaxChannels

\* A subscription that was established and not ended by the caller comes back after every
\* break, once the broker has room for it for good (readLoop).
SubscriptionReturns ==
  \A x \in Subs : <>[]HasCapacity(Channel[x]) => ((loop[x] = "sleeping") ~> (loop[x] \in {"reading", "done"}))

\* After close() every loop ends and the broker is left without streams.
CloseEndsStreams == closed ~> (\A x \in Subs : attached[x] = 0)

=============================================================================
