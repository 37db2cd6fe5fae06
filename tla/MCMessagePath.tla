--------------------------- MODULE MCMessagePath ---------------------------
(***************************************************************************)
(* The path of a message: the dispatch of requests in a service, extended   *)
(* here, and the transports.  An application uses one transport, and        *)
(* dispatch is the same over each of them: a behaviour is one of these      *)
(* components, chosen at the start.                                         *)
(***************************************************************************)
EXTENDS Dispatch, Integers, Sequences, FiniteSets, TLC

VARIABLES
  transport,
  wsSock, wsEntry, wsTimers, wsQuery, wsVia, wsSub, wsKey, wsRequests,
  ioLink, ioBreaks, ioChan, ioActive, ioSub, ioKey, ioRooms, ioAsk,
  kMode, kPos, kCommitted, kAttempts, kCur, kPaused, kVerdict, kRestarts,
  tTopics, tCache, tPc, tKnown, tTries, tFaults,
  nNc, nClient, nSt, nReplySub, nInbox, nSent, nIdle, nFlags,
  rPump, rQueue, rCached, rReply, rDead, rErrors,
  jPump, jSession, jStopped, jMsg, jInHand, jFailures,
  hSender, hCall, hAnswer, hReceived, hResult, hOn, hSession,
  sLoop, sAborted, sAttached, sChannels, sClosed, sBreaks,
  mHandler, mFailure, mInjected, mCall, mOrder, mActive, mPub, mGot,
  pHow, pLive, pLog, pSince, pMail, pHanded, pJob,
  gPromise, gGroups, gSub, gProducer, gLive, gLog, gEmit, gBreaks, gCalm,
  lForm, lBound, lHeld, lOrder, lCurrent, lLimiter, lAt, lBy, lLate

wsVars == <<wsSock, wsEntry, wsTimers, wsQuery, wsVia, wsSub, wsKey, wsRequests>>
ioVars == <<ioLink, ioBreaks, ioChan, ioActive, ioSub, ioKey, ioRooms, ioAsk>>
kVars == <<kMode, kPos, kCommitted, kAttempts, kCur, kPaused, kVerdict, kRestarts>>
tVars == <<tTopics, tCache, tPc, tKnown, tTries, tFaults>>
nVars == <<nNc, nClient, nSt, nReplySub, nInbox, nSent, nIdle, nFlags>>
rVars == <<rPump, rQueue, rCached, rReply, rDead, rErrors>>
jVars == <<jPump, jSession, jStopped, jMsg, jInHand, jFailures>>
hVars == <<hSender, hCall, hAnswer, hReceived, hResult, hOn, hSession>>
sVars == <<sLoop, sAborted, sAttached, sChannels, sClosed, sBreaks>>
mVars == <<mHandler, mFailure, mInjected, mCall, mOrder, mActive, mPub, mGot>>
pVars == <<pHow, pLive, pLog, pSince, pMail, pHanded, pJob>>
gVars == <<gPromise, gGroups, gSub, gProducer, gLive, gLog, gEmit, gBreaks, gCalm>>
lVars == <<lForm, lBound, lHeld, lOrder, lCurrent, lLimiter, lAt, lBy, lLate>>
allVars == <<transport, vars, wsVars, ioVars, kVars, tVars, nVars, rVars, jVars, hVars, sVars, mVars, pVars,
  gVars, lVars>>

-----------------------------------------------------------------------------
(* The services of the dispatch part, configured in ten ways                 *)

Base == [uuid |-> "u1", ts |-> 0, key |-> None, name |-> "get", version |-> None, tenant |-> "T",
         service |-> "A", token |-> "good", payload |-> "p"]
MCReq ==
  "r1" :> Base @@
  "r1again" :> Base @@
  "r2" :> [Base EXCEPT !.uuid = "u2", !.key = "k"] @@
  "r2retry" :> [Base EXCEPT !.uuid = "u3", !.key = "k"] @@
  "r2other" :> [Base EXCEPT !.uuid = "u4", !.key = "k", !.payload = "q"] @@
  "peer" :> [Base EXCEPT !.uuid = "u5", !.key = "k", !.service = "B"] @@
  "anon" :> [Base EXCEPT !.uuid = "u6", !.token = "bad", !.service = "B"] @@
  "mismatch" :> [Base EXCEPT !.uuid = "u7", !.token = "mismatch"] @@
  "health" :> [Base EXCEPT !.uuid = "u8", !.name = "nevo.health"] @@
  "v2" :> [Base EXCEPT !.uuid = "u9", !.version = "v2"] @@
  "set1" :> [Base EXCEPT !.uuid = "u12", !.name = "set", !.version = "v1"] @@
  "unknown" :> [Base EXCEPT !.uuid = "u10", !.name = "nope"] @@
  "invalid" :> [Base EXCEPT !.uuid = "u11", !.payload = "invalid"] @@
  "bare" :> [Base EXCEPT !.uuid = None] @@
  "ahead" :> [Base EXCEPT !.uuid = "u13", !.ts = 1] @@
  "aheadAgain" :> [Base EXCEPT !.uuid = "u13", !.ts = 1] @@
  "far" :> [Base EXCEPT !.uuid = "u14", !.ts = 2] @@
  "q1" :> [Base EXCEPT !.name = "nope"] @@
  "q2" :> [Base EXCEPT !.name = "nope"] @@
  "q3" :> [Base EXCEPT !.name = "nope"] @@
  "q4" :> [Base EXCEPT !.name = "nope", !.service = "B"] @@
  "empty" :> [Base EXCEPT !.uuid = None, !.name = None, !.ts = None]

Signal(n, v) == [code |-> "ok", name |-> n, version |-> v, cacheable |-> TRUE, limited |-> FALSE]
MCSignals == <<[Signal("get", None) EXCEPT !.limited = TRUE], [Signal("set", "v2") EXCEPT !.cacheable = FALSE]>>

Plain == [router |-> TRUE, replay |-> FALSE, rate |-> FALSE, verifier |-> FALSE, rules |-> <<>>,
          health |-> FALSE, idem |-> FALSE, hooks |-> FALSE, switch |-> FALSE, requests |-> {}, maxTime |-> 0]
Rule == [topic |-> "topic", method |-> "*", allow |-> {"A"}, deny |-> {}]
MCOptions ==
  {[Plain EXCEPT !.idem = TRUE, !.hooks = TRUE, !.requests = {"r2", "r2retry", "peer"}],
   [Plain EXCEPT !.idem = TRUE, !.hooks = TRUE, !.requests = {"r1", "r2", "r2other"}, !.maxTime = 1],
   [Plain EXCEPT !.router = FALSE, !.idem = TRUE, !.hooks = TRUE, !.requests = {"r1", "r1again", "bare"}],
   [Plain EXCEPT !.replay = TRUE, !.requests = {"r1", "r1again", "empty"}, !.maxTime = 3],
   [Plain EXCEPT !.replay = TRUE, !.requests = {"ahead", "aheadAgain"}, !.maxTime = 3],
   [Plain EXCEPT !.replay = TRUE, !.requests = {"far"}, !.maxTime = 2],
   [Plain EXCEPT !.rate = TRUE, !.requests = {"q1", "q2", "q3", "q4"}, !.maxTime = 3],
   [Plain EXCEPT !.verifier = TRUE, !.rules = <<Rule>>, !.health = TRUE, !.switch = TRUE,
                 !.requests = {"anon", "mismatch", "health"}],
   [Plain EXCEPT !.requests = {"v2", "unknown", "invalid", "health"}],
   [Plain EXCEPT !.router = FALSE, !.requests = {"v2", "unknown", "set1", "invalid"}]}

MCCapacity == [k \in {"A", "B", "T", "get", "nope"} |-> 1]
MCRefill == [k \in {"A", "B", "T", "get", "nope"} |-> 1]

-----------------------------------------------------------------------------
(* The transports                                                            *)

Ws == INSTANCE WsClient WITH
  MaxSockets <- 3, Queries <- {"q1"}, Subs <- {"x1", "x2"}, KeysOf <- ("x1" :> {"k"} @@ "x2" :> {"k", "l"}),
  MaxReconnectAttempts <- 1, MaxPerSocket <- 1,
  sock <- wsSock, entry <- wsEntry, timers <- wsTimers, query <- wsQuery, via <- wsVia,
  sub <- wsSub, key <- wsKey, requests <- wsRequests

IoKey(method, version, room) == [method |-> method, version |-> version, room |-> room]
IoKeys == "x1" :> {IoKey("m", "", "")}
          @@ "x2" :> {IoKey("m", "", ""), IoKey("m", "v1", ""), IoKey("", "", ""), IoKey("m", "", "r")}
Io == INSTANCE SocketIo WITH
  Subs <- {"x1", "x2"}, KeysOf <- IoKeys, Queries <- {"q1"}, MaxBreaks <- 2,
  link <- ioLink, breaks <- ioBreaks, chan <- ioChan, active <- ioActive, sub <- ioSub,
  key <- ioKey, rooms <- ioRooms, ask <- ioAsk

HandlerMatches(h, o) == h = "h1" \/ o # 1
Item(topic, bad) == [topic |-> topic, bad |-> bad]
Kafka == INSTANCE Kafka WITH
  Offsets <- {1, 2, 3}, Kind <- (1 :> "ok" @@ 2 :> "garbled" @@ 3 :> "ok"),
  Handlers <- {"h1", "h2"}, Matches <- HandlerMatches, MaxAttempts <- ("h1" :> 1 @@ "h2" :> 2),
  Modes <- [manual : BOOLEAN, sticky : BOOLEAN], MaxRestarts <- 2,
  mode <- kMode, pos <- kPos, committed <- kCommitted, attempts <- kAttempts, cur <- kCur,
  paused <- kPaused, verdict <- kVerdict, restarts <- kRestarts,
  Clients <- {"a", "b", "c"}, ProcessOf <- ("a" :> 1 @@ "b" :> 1 @@ "c" :> 2),
  Needs <- ("a" :> {"t1"} @@ "b" :> {"t1", "t2"} @@ "c" :> {"t2"}),
  MaxTries <- 2, MaxFaults <- 1,
  topics <- tTopics, cache <- tCache, pc <- tPc, known <- tKnown, tries <- tTries, faults <- tFaults,
  Subs <- {"x1", "x2", "x3", "x4"}, TopicOf <- [x \in {"x1", "x2", "x3", "x4"} |-> IF x \in {"x1", "x2"} THEN "t" ELSE "u"],
  MaxBreaks <- 1,
  Batches <- <<<<Item("t", FALSE), Item("u", FALSE), Item("t", FALSE)>>, <<Item("u", FALSE), Item("t", TRUE)>>,
               <<Item("t", FALSE), Item("t", FALSE)>>>>,
  promise <- gPromise, groups <- gGroups, sub <- gSub, producer <- gProducer, live <- gLive, log <- gLog,
  emit <- gEmit, breaks <- gBreaks, calm <- gCalm

Answered(kind, text) == [kind |-> kind, text |-> text]
Publication(kind, name, v) ==
  [kind |-> kind, method |-> name, version |-> v, meta |-> [tenant |-> "t1"], headers |-> [room |-> "r1"], ok |-> TRUE]
UserCreated == <<"user", "created">>
Publications ==
  "v1" :> Publication("sub", UserCreated, "v1") @@ "v2" :> Publication("sub", UserCreated, "v2")
  @@ "dirty" :> Publication("sub", <<"user", "a b">>, "v1") @@ "clean" :> Publication("sub", <<"user", "a_b">>, "v1")
  @@ "bare" :> [kind |-> "sub", method |-> <<"user">>, version |-> "v1", meta |-> <<>>, ok |-> TRUE]
  @@ "all" :> Publication("broadcast", UserCreated, "v1")
  @@ "foreign" :> [Publication("sub", UserCreated, "v1") EXCEPT !.ok = FALSE]
  @@ "item1" :> Publication("sub", UserCreated, "v1") @@ "item2" :> Publication("sub", <<"user">>, "v2")
  @@ "item3" :> Publication("sub", UserCreated, "v1")
  @@ "event1" :> Publication("events", UserCreated, "v1")
  @@ "event2" :> [Publication("events", UserCreated, "v1") EXCEPT !.ok = FALSE]
  @@ "event3" :> Publication("events", UserCreated, "v1")
PublishCase(team, singles, kind, async) == [team |-> team, singles |-> singles, kind |-> kind, async |-> async]
Subscribing(topic, name) ==
  [topic |-> topic, method |-> name, version |-> "", wild |-> FALSE, group |-> "", room |-> "", filter |-> <<>>]
Subscriptions ==
  "base" :> Subscribing("sub", UserCreated) @@ "v2" :> [Subscribing("sub", UserCreated) EXCEPT !.version = "v2"]
  @@ "dirty" :> Subscribing("sub", <<"user", "a b">>) @@ "users" :> Subscribing("sub", <<"user", "*">>)
  @@ "any" :> [Subscribing("sub", <<>>) EXCEPT !.filter = [headers |-> [room |-> {"r1", "r2"}]]]
  @@ "roomy" :> [Subscribing("sub", <<"user", ">">>) EXCEPT !.room = "r1", !.filter = [meta |-> [tenant |-> {"", "t2"}]]]
  @@ "tenant" :> [Subscribing("sub", <<>>) EXCEPT !.filter = [meta |-> [tenant |-> {"", "t2"}]]]
  @@ "raw" :> [Subscribing("", <<"*", ">">>) EXCEPT !.wild = TRUE]
  @@ "events" :> [Subscribing("", <<"events">>) EXCEPT !.wild = TRUE]
  @@ "town" :> Subscribing("broadcast", UserCreated)
  @@ "g1" :> [Subscribing("sub", UserCreated) EXCEPT !.group = "g"]
  @@ "g2" :> [Subscribing("sub", UserCreated) EXCEPT !.group = "g"]
Nats == INSTANCE Nats WITH
  Streams <- {"s1", "s2"}, MaxChunks <- 1,
  nc <- nNc, client <- nClient, st <- nSt, replySub <- nReplySub, inbox <- nInbox, sent <- nSent,
  idle <- nIdle, flags <- nFlags,
  Requests <- {"number", "string", "other", "throws", "error", "null"},
  Outcome <- ("number" :> Answered("value", "1") @@ "string" :> Answered("value", "1")
              @@ "other" :> Answered("value", "2") @@ "throws" :> Answered("throws", "")
              @@ "error" :> Answered("error", "error") @@ "null" :> Answered("null", "null")),
  ResponseCache <- TRUE, MaxErrors <- 1,
  pump <- rPump, queue <- rQueue, cached <- rCached, reply <- rReply, dead <- rDead, errors <- rErrors,
  Messages <- {"m1", "m2", "m3"}, Kind <- ("m1" :> "ok" @@ "m2" :> "garbled" @@ "m3" :> "ok"),
  MaxFailures <- 3,
  consumer <- jPump, session <- jSession, stopped <- jStopped, msg <- jMsg, inHand <- jInHand,
  failures <- jFailures,
  Message <- Publications, Subscriber <- Subscriptions, Workers <- 2, MaxLog <- 2,
  Cleaned <- [t \in {"user", "created", "a b", "a_b", "*", ">"} |->
                CASE t = "a b" -> "a_b" [] t \in {"*", ">"} -> "_" [] OTHER -> t],
  Cases <- {PublishCase({"base", "v2"}, {"v1", "v2", "foreign"}, "none", FALSE),
            PublishCase({"base"}, {"v2"}, "sub", TRUE),
            PublishCase({"dirty", "users"}, {"dirty", "clean"}, "none", FALSE),
            PublishCase({"any", "roomy"}, {"bare", "v1"}, "none", FALSE),
            PublishCase({"tenant", "raw"}, {"all", "bare"}, "sub", FALSE),
            PublishCase({"events", "town"}, {"all"}, "events", FALSE),
            PublishCase({"events", "town"}, {"all"}, "events", TRUE),
            PublishCase({"g1", "g2"}, {"v1"}, "sub", TRUE),
            PublishCase({}, {}, "none", FALSE)},
  BatchOf <- [none |-> <<>>, sub |-> <<"item1", "item2", "item3">>, events |-> <<"event1", "event2", "event3">>],
  how <- pHow, live <- pLive, log <- pLog, since <- pSince, mail <- pMail, handed <- pHanded, job <- pJob

Answer(n, declared, status, body) == [size |-> n, declared |-> declared, status |-> status, body |-> body]
Http == INSTANCE Http WITH
  Calls <- {"c1", "c2"}, Senders <- {"http", "undici", "http2"}, Cap <- 1, MaxSessions <- 2,
  Answers <- {Answer(0, TRUE, 200, "value"), Answer(1, TRUE, 200, "value"), Answer(2, TRUE, 200, "value"),
              Answer(2, FALSE, 200, "value"), Answer(1, FALSE, 500, "error"), Answer(1, TRUE, 500, "garbled"),
              Answer(1, TRUE, 200, "garbled")},
  sender <- hSender, call <- hCall, answer <- hAnswer, received <- hReceived, result <- hResult,
  on <- hOn, session <- hSession,
  Subs <- {"x1", "x2", "x3"}, Channel <- ("x1" :> "a" @@ "x2" :> "a" @@ "x3" :> "b"),
  MaxChannels <- 1, MaxBreaks <- 2,
  loop <- sLoop, aborted <- sAborted, attached <- sAttached, channels <- sChannels, closed <- sClosed,
  breaks <- sBreaks

SubWants(x, p) == x # "x2"
Mem == INSTANCE MemoryTransport WITH
  Calls <- {"c1", "c2", "c3"}, CallKind <- ("c1" :> "query" @@ "c2" :> "emit" @@ "c3" :> "query"),
  Subs <- {"x1", "x2", "x3"}, Pubs <- {"p1"}, Wants <- SubWants, MaxInjections <- 2,
  handler <- mHandler, failure <- mFailure, injected <- mInjected, call <- mCall, order <- mOrder,
  active <- mActive, pub <- mPub, got <- mGot

Form(keyed, overflow, max, high, low) ==
  [keyed |-> keyed, overflow |-> overflow, max |-> max, high |-> high, low |-> low]
LimiterForms ==
  {Form(TRUE, "reject", 1, -1, -1), Form(FALSE, "reject", 2, -1, -1), Form(FALSE, "nack", 3, 2, 0),
   Form(FALSE, "drop", 1, -1, -1), Form(FALSE, "nack", 0, -1, -1), Form(FALSE, "drop", 1, 2, 1)}
Load == INSTANCE Backpressure WITH
  Messages <- {"m1", "m2", "m3", "m4"}, KeyOf <- ("m1" :> "a" @@ "m2" :> "b" @@ "m3" :> "a" @@ "m4" :> "a"),
  Forms <- LimiterForms, MaxKeys <- 1, MaxLate <- 2,
  form <- lForm, bound <- lBound, held <- lHeld, order <- lOrder, current <- lCurrent, limiter <- lLimiter,
  at <- lAt, by <- lBy, late <- lLate

-----------------------------------------------------------------------------
\* What the component that is not chosen would do at the start does not matter.
MCInit ==
  /\ transport \in {"dispatch", "ws", "socket.io", "kafka", "kafka_topics", "nats", "nats_router", "jetstream",
                    "nats_publish", "http", "sse", "memory", "fanout", "kafka_sticky", "kafka_batch", "load"}
  /\ IF transport = "dispatch" THEN TRUE ELSE opts = CHOOSE o \in MCOptions : o.replay
  /\ Init
  /\ transport = "ws" \/ wsKey = [x \in {"x1", "x2"} |-> "k"]
  /\ transport = "socket.io" \/ ioKey = [x \in {"x1", "x2"} |-> IoKey("m", "", "")]
  /\ Ws!Init /\ Io!Init /\ Kafka!ConsumerInit /\ Kafka!TopicsInit /\ Nats!StreamInit /\ Nats!RouterInit /\ Nats!JetInit
  /\ IF transport = "nats_publish" THEN TRUE ELSE pHow = PublishCase({}, {}, "none", FALSE)
  /\ Nats!PublishInit /\ Kafka!StickyInit
  /\ IF transport = "load" THEN TRUE ELSE lForm = Form(FALSE, "drop", 1, -1, -1)
  /\ Load!Init
  /\ Http!ExchangeInit /\ Http!SseInit /\ Mem!Init
  /\ transport = "kafka" \/ kMode = [manual |-> FALSE, sticky |-> FALSE]
  /\ transport = "http" \/ hSender = "http"

MCNext ==
  /\ UNCHANGED transport
  /\ \/ /\ transport = "dispatch" /\ Next
        /\ UNCHANGED <<wsVars, ioVars, kVars, tVars, nVars, rVars, jVars, hVars, sVars, mVars, pVars, gVars, lVars>>
     \/ /\ transport = "ws" /\ Ws!Next
        /\ UNCHANGED <<vars, ioVars, kVars, tVars, nVars, rVars, jVars, hVars, sVars, mVars, pVars, gVars, lVars>>
     \/ /\ transport = "socket.io" /\ Io!Next
        /\ UNCHANGED <<vars, wsVars, kVars, tVars, nVars, rVars, jVars, hVars, sVars, mVars, pVars, gVars, lVars>>
     \/ /\ transport = "kafka" /\ Kafka!ConsumerNext
        /\ UNCHANGED <<vars, wsVars, ioVars, tVars, nVars, rVars, jVars, hVars, sVars, mVars, pVars, gVars, lVars>>
     \/ /\ transport = "kafka_topics" /\ Kafka!TopicsNext
        /\ UNCHANGED <<vars, wsVars, ioVars, kVars, nVars, rVars, jVars, hVars, sVars, mVars, pVars, gVars, lVars>>
     \/ /\ transport = "nats" /\ Nats!StreamNext
        /\ UNCHANGED <<vars, wsVars, ioVars, kVars, tVars, rVars, jVars, hVars, sVars, mVars, pVars, gVars, lVars>>
     \/ /\ transport = "nats_router" /\ Nats!RouterNext
        /\ UNCHANGED <<vars, wsVars, ioVars, kVars, tVars, nVars, jVars, hVars, sVars, mVars, pVars, gVars, lVars>>
     \/ /\ transport = "jetstream" /\ Nats!JetNext
        /\ UNCHANGED <<vars, wsVars, ioVars, kVars, tVars, nVars, rVars, hVars, sVars, mVars, pVars, gVars, lVars>>
     \/ /\ transport = "http" /\ Http!ExchangeNext
        /\ UNCHANGED <<vars, wsVars, ioVars, kVars, tVars, nVars, rVars, jVars, sVars, mVars, pVars, gVars, lVars>>
     \/ /\ transport = "sse" /\ Http!SseNext
        /\ UNCHANGED <<vars, wsVars, ioVars, kVars, tVars, nVars, rVars, jVars, hVars, mVars, pVars, gVars, lVars>>
     \/ /\ transport = "memory" /\ Mem!CallsNext
        /\ UNCHANGED <<vars, wsVars, ioVars, kVars, tVars, nVars, rVars, jVars, hVars, sVars, pVars, gVars, lVars>>
     \/ /\ transport = "fanout" /\ Mem!FanoutNext
        /\ UNCHANGED <<vars, wsVars, ioVars, kVars, tVars, nVars, rVars, jVars, hVars, sVars, pVars, gVars, lVars>>
     \/ /\ transport = "nats_publish" /\ Nats!PublishNext
        /\ UNCHANGED <<vars, wsVars, ioVars, kVars, tVars, nVars, rVars, jVars, hVars, sVars, mVars, gVars, lVars>>
     \/ /\ transport = "kafka_sticky" /\ Kafka!GroupNext
        /\ UNCHANGED <<vars, wsVars, ioVars, kVars, tVars, nVars, rVars, jVars, hVars, sVars, mVars, pVars, lVars>>
     \/ /\ transport = "kafka_batch" /\ Kafka!BatchNext
        /\ UNCHANGED <<vars, wsVars, ioVars, kVars, tVars, nVars, rVars, jVars, hVars, sVars, mVars, pVars, lVars>>
     \/ /\ transport = "load" /\ Load!Next
        /\ UNCHANGED <<vars, wsVars, ioVars, kVars, tVars, nVars, rVars, jVars, hVars, sVars, mVars, pVars, gVars>>

\* The fairness of each component, for the component that runs.
MCSpec ==
  /\ MCInit /\ [][MCNext]_allVars
  /\ WF_wsVars(transport = "ws" /\ Ws!Events)
  /\ WF_kVars(transport = "kafka" /\ Kafka!Process)
  /\ WF_nVars(transport = "nats" /\ Nats!Connecting)
  /\ \A i \in {"s1", "s2"} : WF_nVars(transport = "nats" /\ Nats!Step(i))
  /\ WF_jVars(transport = "jetstream" /\ Nats!PumpStep)
  /\ \A x \in {"x1", "x2", "x3"} : WF_sVars(transport = "sse" /\ Http!Step(x))

-----------------------------------------------------------------------------
(* What an application relies on, whichever transport it uses                *)

\* Messages reach whom they are for.  Live subscriptions are the ones the other side serves: the
\* server knows them after every reconnect (WebSocket, Socket.IO), counts them (server-sent
\* events), and hands each publication to each of them once (memory).  Two limits of the code are
\* part of it: a WebSocket holds maxSubscriptionsPerSocket keys, and a Socket.IO room is left by
\* the first of two different subscriptions that share it.  Kafka messages before an automatic
\* commit were handled or dead-lettered, a client that is ready has its topics, and a sticky group
\* serves every subscription that joined it.  NATS subscribers get what matches their subject,
\* filter and room; a batch reported as sent went out whole and in order.
MessagesReach ==
  /\ transport = "ws" => Ws!SubscribedOnCurrentSocket
  /\ transport = "socket.io" => Io!RoomsFollowSubscriptions
  /\ transport = "sse" => Http!ChannelsCounted
  /\ transport = "fanout" => Mem!PublicationsFanOut
  /\ transport = "kafka" => Kafka!CommittedIsSettled
  /\ transport = "kafka_topics" => Kafka!ReadyHasTopics
  /\ transport = "kafka_sticky" => Kafka!GroupServes
  /\ transport = "kafka_batch" => Kafka!BatchesWhole
  /\ transport = "nats_publish" => Nats!SubscribersServed /\ Nats!BatchWhole

\* An answer is the whole answer to this call: of an HTTP exchange, of a failure injected for one
\* call, and up to the text of the result of the NATS router's cache; one HTTP/2 session is shared; and the
\* handlers that compute answers run within their limiter's cap, which holds nobody up for good.
AnswersBelongToCalls ==
  /\ transport = "http" => Http!ValuesAreWhole /\ Http!OneOpenSession
  /\ transport = "nats_router" => Nats!RepliesAreOurs
  /\ transport = "memory" => Mem!FailuresAreSingleUse
  /\ transport = "load" => Load!LoadBounded

\* What was started ends: queries, streams, deliveries and sessions, whatever fails first.
OperationsEnd ==
  /\ transport = "ws" => Ws!EveryQueryEnds
  /\ transport = "kafka" => Kafka!PartitionMovesOn
  /\ transport = "nats" => Nats!EveryStreamEnds
  /\ transport = "jetstream" => Nats!EveryMessageSettles /\ Nats!SessionsStopped
  /\ transport = "sse" => Http!SubscriptionReturns /\ Http!CloseEndsStreams

=============================================================================
