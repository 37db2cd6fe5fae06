-------------------------------- MODULE Nats --------------------------------
(* The NATS transport: streamed answers, the router of a service, JetStream. *)
EXTENDS Integers, Sequences, FiniteSets, FiniteSetsExt, Functions, TLC

(***************************************************************************)
(* NevoNatsClient: the shared connection that the first caller opens, and   *)
(* subscribeQuery, a streamed answer read from a reply subscription under   *)
(* an idle timer, with cancel and close of the client racing with it.       *)
(***************************************************************************)

CONSTANTS
  Streams,
  MaxChunks   \* bound: messages of one answer

VARIABLES
  nc,       \* the connection: "none", "connecting" or "up"
  client,   \* "open", "closing" or "closed"
  st,       \* where each subscribeQuery is
  replySub, \* is its reply subscription open
  inbox,    \* messages in the subscription's queue
  sent,     \* messages the server sent for it
  idle,     \* its idle timer
  flags     \* [cancelled, timedOut, error]: error is what onEnd was given

streamVars == <<nc, client, st, replySub, inbox, sent, idle, flags>>

StreamInit ==
  /\ nc = "none" /\ client = "open"
  /\ st = [i \in Streams |-> "idle"]
  /\ replySub = [i \in Streams |-> FALSE]
  /\ inbox = [i \in Streams |-> <<>>]
  /\ sent = [i \in Streams |-> 0]
  /\ idle = [i \in Streams |-> "off"]
  /\ flags = [i \in Streams |-> [cancelled |-> FALSE, timedOut |-> FALSE, error |-> FALSE]]

-----------------------------------------------------------------------------
(* ensureConnection: one connect() for all callers                           *)

Connected ==
  /\ nc = "connecting" /\ nc' = "up"
  /\ st' = [i \in Streams |-> IF st[i] = "connecting" THEN "encoding" ELSE st[i]]
  /\ replySub' = [i \in Streams |-> replySub[i] \/ st[i] = "connecting"]
  /\ UNCHANGED <<client, inbox, sent, idle, flags>>

ConnectFails ==
  /\ nc = "connecting" /\ nc' = "none"
  /\ st' = [i \in Streams |-> IF st[i] = "connecting" THEN "failed" ELSE st[i]]
  /\ UNCHANGED <<client, replySub, inbox, sent, idle, flags>>

-----------------------------------------------------------------------------
(* subscribeQuery                                                            *)

Start(i) ==
  /\ st[i] = "idle" /\ client = "open"
  /\ \/ /\ nc = "up"
        /\ st' = [st EXCEPT ![i] = "encoding"]
        /\ replySub' = [replySub EXCEPT ![i] = TRUE]
        /\ UNCHANGED nc
     \/ /\ nc # "up"
        /\ nc' = "connecting"
        /\ st' = [st EXCEPT ![i] = "connecting"]
        /\ UNCHANGED replySub
  /\ UNCHANGED <<client, inbox, sent, idle, flags>>

\* The request is encoded and published; the timer is armed and the loop starts.
Encoded(i) ==
  /\ st[i] = "encoding"
  /\ st' = [st EXCEPT ![i] = "reading"]
  /\ idle' = [idle EXCEPT ![i] = "armed"]
  /\ UNCHANGED <<nc, client, replySub, inbox, sent, flags>>

\* The request is too large: the call rejects.
EncodeFails(i) ==
  /\ st[i] = "encoding"
  /\ st' = [st EXCEPT ![i] = "failed"]
  /\ UNCHANGED <<nc, client, replySub, inbox, sent, idle, flags>>

\* The server answers with chunks, with messages that carry no result, and an end mark.
Arrive(i) ==
  /\ st[i] \in {"reading", "handling"} /\ replySub[i] /\ sent[i] < MaxChunks
  /\ sent' = [sent EXCEPT ![i] = @ + 1]
  /\ \E m \in {"chunk", "skip", "end"} : inbox' = [inbox EXCEPT ![i] = Append(@, m)]
  /\ UNCHANGED <<nc, client, st, replySub, idle, flags>>

\* The finally clause: clear the timer and call onEnd.
Finish(i, timedOut) ==
  /\ st' = [st EXCEPT ![i] = "ended"]
  /\ idle' = [idle EXCEPT ![i] = "off"]
  /\ flags' = [flags EXCEPT ![i].error = timedOut /\ ~flags[i].cancelled]

\* The loop takes a message.
TakeDisarms(i) ==      \* mutant: the timer is cleared for a message and not armed again
  /\ st[i] = "reading" /\ inbox[i] # <<>>
  /\ inbox' = [inbox EXCEPT ![i] = Tail(@)]
  /\ IF flags[i].cancelled \/ Head(inbox[i]) = "end"
     THEN Finish(i, flags[i].timedOut)
     ELSE /\ idle' = [idle EXCEPT ![i] = "off"]
          /\ st' = [st EXCEPT ![i] = IF Head(inbox[i]) = "chunk" THEN "handling" ELSE @]
          /\ UNCHANGED flags
  /\ UNCHANGED <<nc, client, replySub, sent>>
Take(i) ==
  /\ st[i] = "reading" /\ inbox[i] # <<>>
  /\ inbox' = [inbox EXCEPT ![i] = Tail(@)]
  /\ IF flags[i].cancelled \/ Head(inbox[i]) = "end"
     THEN Finish(i, flags[i].timedOut)
     ELSE /\ idle' = [idle EXCEPT ![i] = "armed"]
          /\ st' = [st EXCEPT ![i] = IF Head(inbox[i]) = "chunk" THEN "handling" ELSE @]
          /\ UNCHANGED flags
  /\ UNCHANGED <<nc, client, replySub, sent>>

\* onChunk returns or throws; the loop goes on either way.
ChunkHandled(i) ==
  /\ st[i] = "handling"
  /\ st' = [st EXCEPT ![i] = "reading"]
  /\ UNCHANGED <<nc, client, replySub, inbox, sent, idle, flags>>

IdleFires(i) ==
  /\ idle[i] = "armed"
  /\ idle' = [idle EXCEPT ![i] = "fired"]
  /\ IF flags[i].cancelled THEN UNCHANGED <<replySub, flags>>
     ELSE /\ flags' = [flags EXCEPT ![i].timedOut = TRUE]
          /\ replySub' = [replySub EXCEPT ![i] = FALSE]
  /\ UNCHANGED <<nc, client, st, inbox, sent>>

\* The subscription was closed and its queue is empty: the loop ends.
Drained(i) ==
  /\ st[i] = "reading" /\ ~replySub[i] /\ inbox[i] = <<>>
  /\ Finish(i, flags[i].timedOut)
  /\ UNCHANGED <<nc, client, replySub, inbox, sent>>

Cancel(i) ==
  /\ st[i] \in {"reading", "handling"} /\ ~flags[i].cancelled
  /\ flags' = [flags EXCEPT ![i].cancelled = TRUE]
  /\ replySub' = [replySub EXCEPT ![i] = FALSE]
  /\ UNCHANGED <<nc, client, st, inbox, sent, idle>>

-----------------------------------------------------------------------------
(* close: every subscription first, the connection after the drain           *)

Close ==
  /\ client = "open" /\ client' = "closing"
  /\ replySub' = [i \in Streams |-> FALSE]
  /\ UNCHANGED <<nc, st, inbox, sent, idle, flags>>

Closed ==
  /\ client = "closing" /\ client' = "closed"
  /\ nc' = IF nc = "up" THEN "none" ELSE nc
  /\ UNCHANGED <<st, replySub, inbox, sent, idle, flags>>

Connecting == Connected \/ ConnectFails
Step(i) == Encoded(i) \/ EncodeFails(i) \/ Take(i) \/ ChunkHandled(i) \/ IdleFires(i) \/ Drained(i)
StreamNext ==
  \/ Connecting \/ Close \/ Closed
  \/ \E i \in Streams : Start(i) \/ Arrive(i) \/ Cancel(i) \/ Step(i)

StreamSpec == StreamInit /\ [][StreamNext]_streamVars

\* connect() settles, encoding and onChunk return, and timers fire.
StreamFairSpec == StreamSpec /\ WF_streamVars(Connecting) /\ \A i \in Streams : WF_streamVars(Step(i))

-----------------------------------------------------------------------------
\* A streamed query ends by its end mark, the idle timer, cancel or close, or is
\* rejected: none is left waiting for an answer that never comes (subscribeQuery).
EveryStreamEnds == \A i \in Streams : (st[i] # "idle") ~> (st[i] \in {"ended", "failed"})

-----------------------------------------------------------------------------
(***************************************************************************)
(* NatsSignalRouter: the pump that takes requests one by one, answers them, *)
(* optionally from a cache of encoded replies, and subscribes again after   *)
(* an error of the iterator.                                                *)
(***************************************************************************)

CONSTANTS
  Requests,
  Outcome,            \* the handler's answer: [kind: "value", "null", "error" or "throws", text: the result as JSON]
  ResponseCache,      \* responseCache.enabled
  MaxErrors           \* bound: errors of the iterator

VARIABLES
  pump, queue, dead, errors,
  cached,   \* responseCache: key -> the request whose encoded envelope is kept
  reply     \* the request whose envelope was published as the reply to each request

routerVars == <<pump, queue, cached, reply, dead, errors>>

NoReply == "none"

RouterInit ==
  /\ pump = "subscribed" /\ queue = <<>> /\ errors = 0
  /\ cached = [v \in {} |-> v]
  /\ reply = [r \in Requests |-> NoReply]
  /\ dead = {}

RequestArrives(r) ==
  /\ pump = "subscribed" /\ r \notin dead /\ reply[r] = NoReply
  /\ \A i \in DOMAIN queue : queue[i] # r
  /\ queue' = Append(queue, r)
  /\ UNCHANGED <<pump, cached, reply, dead, errors>>

\* hashResult: a string is its own text, so "1" and 1 have one key, and every error has the key
\* of the word "error".  Without a result the whole envelope is the key.  (A collision of the
\* 64-bit hash of two texts is left out.)
ByMethod(r) == "any"      \* mutant: the cache key is not the result
CacheKey(r) == IF Outcome[r].kind = "null" THEN r ELSE Outcome[r].text

Handle ==
  LET r == Head(queue)
      k == CacheKey(r)
  IN  /\ pump = "subscribed" /\ queue # <<>>
      /\ queue' = Tail(queue)
      /\ IF Outcome[r].kind = "throws"
         THEN dead' = dead \cup {r} /\ UNCHANGED <<cached, reply>>
         ELSE /\ IF ResponseCache /\ k \in DOMAIN cached
                 THEN reply' = [reply EXCEPT ![r] = cached[k]] /\ UNCHANGED cached
                 ELSE reply' = [reply EXCEPT ![r] = r] /\ cached' = (k :> r) @@ cached
              /\ UNCHANGED dead
      /\ UNCHANGED <<pump, errors>>

\* The iterator fails: what was queued is lost, and the loop subscribes again.
PumpError ==
  /\ pump = "subscribed" /\ errors < MaxErrors
  /\ errors' = errors + 1
  /\ pump' = "sleeping" /\ queue' = <<>>
  /\ UNCHANGED <<cached, reply, dead>>

Resubscribe ==
  /\ pump = "sleeping" /\ pump' = "subscribed"
  /\ UNCHANGED <<queue, cached, reply, dead, errors>>

Destroy ==
  /\ pump # "gone" /\ pump' = "gone" /\ queue' = <<>>
  /\ UNCHANGED <<cached, reply, dead, errors>>

RouterNext == Handle \/ PumpError \/ Resubscribe \/ Destroy \/ \E r \in Requests : RequestArrives(r)

RouterSpec == RouterInit /\ [][RouterNext]_routerVars

-----------------------------------------------------------------------------
\* A request that was handled is answered with a result that reads like its own: with the cache
\* of encoded replies the envelope may be that of an earlier request, with the uuid, meta and
\* error details of that one, but its result has the same text (nats.signal-router.decorator.ts
\* hashResult); and a value without such a twin is answered by its own envelope.
RepliesAreOurs ==
  \A r \in Requests : reply[r] # NoReply =>
    /\ Outcome[reply[r]].text = Outcome[r].text
    /\ Outcome[r].kind = "null" => reply[r] = r

-----------------------------------------------------------------------------
(***************************************************************************)
(* JetStreamHelper.pullSubscribe: the consumer that consumes in sessions, and   *)
(* unsubscribe racing with it.  The server (external) delivers a message    *)
(* again after a nak, a lost session or an expired acknowledgement.         *)
(***************************************************************************)

CONSTANTS
  Messages, Kind,  \* "ok" or "garbled"
  MaxFailures      \* bound: handler errors and failures of consume, in all

VARIABLES
  consumer,      \* "asking", "reading", "handling", "sleeping" or "done"
  session,   \* the server still pushes to this session
  stopped, msg, inHand, failures

jetVars == <<consumer, session, stopped, msg, inHand, failures>>

NoMsg == "none"
Queued == {m \in Messages : msg[m] = "queued"}

JetInit ==
  /\ consumer = "asking" /\ session = FALSE /\ stopped = FALSE
  /\ msg = [m \in Messages |-> "queued"]
  /\ inHand = NoMsg /\ failures = 0

\* consume() answered: a session that was asked for before unsubscribe is stopped here.
SessionKept ==      \* mutant: the check after consume() is dropped
  /\ consumer = "asking"
  /\ session' = TRUE /\ consumer' = "reading"
  /\ UNCHANGED <<stopped, msg, inHand, failures>>
Session ==
  /\ consumer = "asking"
  /\ session' = ~stopped
  /\ consumer' = IF stopped THEN "done" ELSE "reading"
  /\ UNCHANGED <<stopped, msg, inHand, failures>>

\* consume() failed, or the iterator did: wait and ask again, unless stopped.
LoopError ==
  /\ consumer \in {"asking", "reading"} /\ failures < MaxFailures
  /\ failures' = failures + 1
  /\ session' = FALSE
  /\ consumer' = IF stopped THEN "done" ELSE "sleeping"
  /\ UNCHANGED <<stopped, msg, inHand>>

Wake ==
  /\ consumer = "sleeping"
  /\ consumer' = IF stopped THEN "done" ELSE "asking"
  /\ UNCHANGED <<session, stopped, msg, inHand, failures>>

\* A message that does not decode is terminated.
Read(m) ==
  /\ consumer = "reading" /\ session /\ ~stopped /\ m \in Queued
  /\ msg' = [msg EXCEPT ![m] = IF Kind[m] = "garbled" THEN "terminated" ELSE "delivered"]
  /\ IF Kind[m] = "garbled" THEN UNCHANGED <<consumer, inHand>> ELSE consumer' = "handling" /\ inHand' = m
  /\ UNCHANGED <<session, stopped, failures>>

\* The handler acknowledges, or throws and the message is nak'ed.
HandlerAcks ==
  /\ consumer = "handling"
  /\ msg' = [msg EXCEPT ![inHand] = "acked"]
  /\ consumer' = "reading" /\ inHand' = NoMsg
  /\ UNCHANGED <<session, stopped, failures>>

HandlerThrows ==
  /\ consumer = "handling" /\ failures < MaxFailures
  /\ failures' = failures + 1
  /\ msg' = [msg EXCEPT ![inHand] = "queued"]
  /\ consumer' = "reading" /\ inHand' = NoMsg
  /\ UNCHANGED <<session, stopped>>

\* The session was stopped, or one more message shows that it should be: the loop is left.
LoopEnds ==
  /\ consumer = "reading" /\ stopped
  /\ ~session \/ Queued # {}
  /\ consumer' = "done" /\ session' = FALSE
  /\ UNCHANGED <<stopped, msg, inHand, failures>>

Unsubscribe ==
  /\ ~stopped /\ stopped' = TRUE
  /\ session' = FALSE
  /\ UNCHANGED <<consumer, msg, inHand, failures>>

PumpStep == Session \/ Wake \/ HandlerAcks \/ LoopEnds \/ \E m \in Messages : Read(m)
JetNext == PumpStep \/ LoopError \/ HandlerThrows \/ Unsubscribe

JetSpec == JetInit /\ [][JetNext]_jetVars
JetFairSpec == JetSpec /\ WF_jetVars(PumpStep)

-----------------------------------------------------------------------------
\* Unless the subscription is stopped, every message is acknowledged or, when it does not
\* decode, terminated: errors of the handler and of the session only delay it.
EveryMessageSettles == \A m \in Messages : <>(stopped \/ msg[m] \in {"acked", "terminated"})

\* unsubscribe leaves no session behind, also when it comes while consume() is pending.
SessionsStopped == stopped ~> [](~session)

-----------------------------------------------------------------------------
(***************************************************************************)
(* Publications: subjects scoped by method, the checks of a subscription    *)
(* that NATS cannot make, and batches encoded by a few workers.             *)
(***************************************************************************)

CONSTANTS
  Message,     \* what may be published: kind, method, version, headers if any, meta, ok
  Subscriber,  \* subscriptions: topic, method (no tokens: none given), version, wild, group, room, filter
  Cleaned,     \* what replace(/[\s*>]/g, "_") || "_" makes of a token
  Cases,       \* who subscribes, what is published, and the batch: its kind, and whether encoding is asynchronous
  BatchOf,     \* the batch of each kind: messages, one of which may not be encodable
  Workers,     \* BATCH_ENCODE_CONCURRENCY
  MaxLog       \* bound: messages published one by one

VARIABLES
  how,      \* the case
  live,     \* the subscriptions of the moment
  log,      \* what NATS was handed, in order
  since,    \* the length of the log when a subscriber subscribed
  mail,     \* what waits in a subscription's iterator
  handed,   \* what reached its handler
  job       \* mapLimit: its cursor, the items being encoded and the ones encoded

publishVars == <<how, live, log, since, mail, handed, job>>

Subscribers == DOMAIN Subscriber
Items == BatchOf[how.kind]
Never == -1
IsWild(t) == t \in {"*", ">"}

PublishInit ==
  /\ how \in Cases /\ live = {} /\ log = <<>>
  /\ since = [x \in Subscribers |-> Never]
  /\ mail = [x \in Subscribers |-> <<>>]
  /\ handed = [x \in Subscribers |-> <<>>]
  /\ job = [at |-> "none", cursor |-> 0, running |-> {}, done |-> {}]

\* methodSubject in its two modes; the version is no part of a subject.
VersionedSubject(topic, m) ==     \* mutant: the version is a token of the subject
  <<topic>> \o [i \in DOMAIN m.method |-> Cleaned[m.method[i]]] \o (IF m.version = "v1" THEN <<>> ELSE <<m.version>>)
PublishSubject(topic, m) == <<topic>> \o [i \in DOMAIN m.method |-> Cleaned[m.method[i]]]
SubscribeSubject(x) ==
  LET s == Subscriber[x]
  IN  CASE s.wild -> s.method
        [] ~s.wild /\ s.method = <<>> -> <<s.topic, ">">>
        [] OTHER -> <<s.topic>> \o [i \in DOMAIN s.method |-> IF IsWild(s.method[i]) THEN s.method[i]
                                                                ELSE Cleaned[s.method[i]]]

\* emit() and emitBatch() use one subject for all methods of a service.
SubjectOf(m) == IF Message[m].kind = "events" THEN <<"events">> ELSE PublishSubject(Message[m].kind, Message[m])

\* What the server matches: "*" is one token, a final ">" is one token or more.
Matched(pattern, subject) ==
  LET n == Len(pattern)
      tail == pattern[n] = ">"
      k == IF tail THEN n - 1 ELSE n
  IN  /\ IF tail THEN Len(subject) >= n ELSE Len(subject) = n
      /\ \A i \in 1..k : pattern[i] \in {"*", subject[i]}

\* matchesFilter: what is expected of a header or of a field of meta is a set of texts, since a
\* pattern accepts several; a field that is missing reads as the empty text, a header never matches.
MatchesFilter(f, m) ==
  /\ "headers" \in DOMAIN f =>
       /\ "headers" \in DOMAIN m
       /\ \A k \in DOMAIN f.headers : k \in DOMAIN m.headers /\ m.headers[k] \in f.headers[k]
  /\ "meta" \in DOMAIN f =>
       \A k \in DOMAIN f.meta : (IF k \in DOMAIN m.meta THEN m.meta[k] ELSE "") \in f.meta[k]

InRoom(s, m) == s.room = "" \/ ("headers" \in DOMAIN m /\ "room" \in DOMAIN m.headers /\ m.headers.room = s.room)

\* The checks of the loop of subscribe().
AnyVersion(x, m) ==     \* mutant: the method is left to the subject
  LET s == Subscriber[x] IN MatchesFilter(s.filter, Message[m]) /\ InRoom(s, Message[m])
Accepts(x, m) ==
  LET s == Subscriber[x]
      given == s.method # <<>> /\ ~\E i \in DOMAIN s.method : IsWild(s.method[i])
      same == s.method = Message[m].method /\ s.version \in {"", Message[m].version}
  IN  (given => same) /\ MatchesFilter(s.filter, Message[m]) /\ InRoom(s, Message[m])

\* NATS hands a message to every subscription that matches, and to one of each queue group.
Delivered(m, D) ==
  LET M == {x \in live : Matched(SubscribeSubject(x), SubjectOf(m))}
      group(x) == Subscriber[x].group
  IN  /\ D \subseteq M
      /\ \A x \in M : IF group(x) = "" THEN x \in D ELSE \E y \in D : group(y) = group(x)
      /\ \A x, y \in D : x # y /\ group(x) # "" => group(x) # group(y)

\* Some messages published in one turn; the member of a group is chosen for each.
Sent(ms) ==
  \E D \in [DOMAIN ms -> SUBSET live] :
    /\ \A i \in DOMAIN ms : Delivered(ms[i], D[i])
    /\ log' = log \o ms
    /\ mail' = [x \in Subscribers |->
                  LET mine == SelectSeq([i \in DOMAIN ms |-> i], LAMBDA i : x \in D[i])
                  IN  mail[x] \o [k \in DOMAIN mine |-> ms[mine[k]]]]

\* publish() and broadcast(), or another program with a message that cannot be decoded.
Publish(m) ==
  /\ Len(log) < MaxLog /\ Sent(<<m>>)
  /\ UNCHANGED <<how, live, since, handed, job>>

JoinTeam(x) ==
  /\ x \in how.team /\ since[x] = Never
  /\ live' = live \cup {x} /\ since' = [since EXCEPT ![x] = Len(log)]
  /\ UNCHANGED <<how, log, mail, handed, job>>

LeaveTeam(x) ==
  /\ x \in live /\ live' = live \ {x}
  /\ UNCHANGED <<how, log, since, mail, handed, job>>

\* One round of a loop: a message that cannot be decoded or whose handler throws is logged.
HandOver(x, wanted) ==
  /\ mail[x] # <<>>
  /\ handed' = IF Message[Head(mail[x])].ok /\ wanted THEN [handed EXCEPT ![x] = Append(@, Head(mail[x]))] ELSE handed
  /\ mail' = [mail EXCEPT ![x] = Tail(@)]
  /\ UNCHANGED <<how, live, log, since, job>>

Consumed(x) == ~Subscriber[x].wild /\ mail[x] # <<>> /\ HandOver(x, Accepts(x, Head(mail[x])))

\* subscribeWildcard() takes what its subject matches.
ConsumedRaw(x) == Subscriber[x].wild /\ HandOver(x, TRUE)

\* emitBatch() and publishBatch(), encoding in turn: the items before the one that fails are out.
BatchInTurn ==
  LET bad == {i \in DOMAIN Items : ~Message[Items[i]].ok}
      upto == IF bad = {} THEN Len(Items) ELSE Min(bad) - 1
  IN  /\ job.at = "none" /\ Items # <<>> /\ ~how.async
      /\ Sent(SubSeq(Items, 1, upto))
      /\ job' = [job EXCEPT !.at = IF bad = {} THEN "done" ELSE "failed"]
      /\ UNCHANGED <<how, live, since, handed>>

\* With asynchronous compression: mapLimit starts as many workers as it may.
BatchStarts ==
  LET n == Max({1, Min({Workers, Len(Items)})})
  IN  /\ job.at = "none" /\ Items # <<>> /\ how.async
      /\ job' = [job EXCEPT !.at = "encoding", !.cursor = n, !.running = 1..n]
      /\ UNCHANGED <<how, live, log, since, mail, handed>>

ItemGoesOut(i) ==     \* mutant: an item is published once it is encoded
  LET more == job.cursor < Len(Items)
      all == job.done \cup {i} = DOMAIN Items
  IN  /\ job.at = "encoding" /\ i \in job.running /\ Message[Items[i]].ok
      /\ job' = [job EXCEPT !.done = @ \cup {i}, !.cursor = IF more THEN @ + 1 ELSE @,
                            !.running = (@ \ {i}) \cup (IF more THEN {job.cursor + 1} ELSE {}),
                            !.at = IF all THEN "done" ELSE @]
      /\ Sent(<<Items[i]>>)
      /\ UNCHANGED <<how, live, since, handed>>
\* An item is encoded and its worker takes the next; the last one has the batch published, in the
\* order of the items.  Once an item failed, what the other workers do has no effect.
ItemEncoded(i) ==
  LET more == job.cursor < Len(Items)
      encoded == [job EXCEPT !.done = @ \cup {i}, !.cursor = IF more THEN @ + 1 ELSE @,
                             !.running = (@ \ {i}) \cup (IF more THEN {job.cursor + 1} ELSE {})]
  IN  /\ job.at = "encoding" /\ i \in job.running
      /\ CASE ~Message[Items[i]].ok -> job' = [job EXCEPT !.at = "failed"] /\ UNCHANGED <<log, mail>>
           [] Message[Items[i]].ok /\ encoded.done # DOMAIN Items -> job' = encoded /\ UNCHANGED <<log, mail>>
           [] OTHER -> job' = [encoded EXCEPT !.at = "done"] /\ Sent(Items)
      /\ UNCHANGED <<how, live, since, handed>>

PublishNext ==
  \/ BatchInTurn \/ BatchStarts \/ \E i \in DOMAIN Items : ItemEncoded(i)
  \/ \E m \in how.singles : Publish(m)
  \/ \E x \in Subscribers : JoinTeam(x) \/ LeaveTeam(x) \/ Consumed(x) \/ ConsumedRaw(x)

PublishSpec == PublishInit /\ [][PublishNext]_publishVars

-----------------------------------------------------------------------------
\* What a subscriber asked for, told by names alone.
Asked(x, m) ==
  LET s == Subscriber[x]
      g == Message[m]
  IN  /\ g.ok
      /\ IF s.wild THEN Matched(s.method, IF g.kind = "events" THEN <<g.kind>> ELSE <<g.kind>> \o g.method)
         ELSE /\ s.topic = g.kind /\ MatchesFilter(s.filter, g) /\ InRoom(s, g)
              /\ \/ s.method = <<>>
                 \/ \E i \in DOMAIN s.method : IsWild(s.method[i]) /\ Matched(s.method, g.method)
                 \/ s.method = g.method /\ s.version \in {"", g.version}

\* A live subscriber is handed, in order, exactly the messages it asked for that were published
\* since it subscribed, although the subjects drop versions and the cleaning of tokens makes
\* methods alike; a queue group is handed each message at most once.
SubscribersServed ==
  LET asked(x, ms) == SelectSeq(ms, LAMBDA m : Asked(x, m))
      count(ms, m) == Len(SelectSeq(ms, LAMBDA e : e = m))
      alone == {x \in live : Subscriber[x].group = ""}
      grouped == Subscribers \ {x \in Subscribers : Subscriber[x].group = ""}
  IN  /\ \A x \in alone : handed[x] \o asked(x, mail[x]) = asked(x, SubSeq(log, since[x] + 1, Len(log)))
      /\ \A m \in DOMAIN Message : MapThenSumSet(LAMBDA x : count(handed[x], m), grouped) <= count(log, m)

\* A batch goes out as a whole and in the order of its items, whichever item is encoded first;
\* with asynchronous encoding a batch with an item that fails does not go out at all.
BatchWhole ==
  LET out == {i \in 0..(Len(log) - Len(Items)) : SubSeq(log, i + 1, i + Len(Items)) = Items}
  IN  /\ job.at = "done" => out # {}
      /\ job.at \in {"encoding", "failed"} /\ how.async => Range(log) \cap Range(Items) = {}
      /\ Cardinality(job.running) <= Workers

=============================================================================
