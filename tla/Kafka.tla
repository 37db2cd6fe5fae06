------------------------------- MODULE Kafka --------------------------------
(* The Kafka transport: consumers of subscriptions, the creation of topics, sticky groups and batches. *)
EXTENDS Integers, FiniteSets, Sequences, Functions, TLC

(***************************************************************************)
(* One partition read by a subscription of NevoKafkaClient: the handlers of *)
(* a (sticky) consumer group run in turn for each message, failures are     *)
(* redelivered up to a budget and then dead-lettered.  kafkajs (external):  *)
(* eachMessage resolves the offset when it returns and keeps it when it     *)
(* throws; a restart or rebalance goes back to the committed offset.        *)
(***************************************************************************)

CONSTANTS
  Offsets,       \* 1..n
  Kind,          \* what each message is: "ok", "garbled"
  Handlers,      \* handler entries of the group
  Matches(_, _), \* method and filter of a handler against a message
  MaxAttempts,   \* maxDeliveryAttempts of each handler
  Modes,         \* kinds of subscription: [manual: ack is true, sticky: shares a group's consumer]
  MaxRestarts    \* bound: restarts and rebalances

VARIABLES
  mode,
  pos,        \* next offset to deliver
  committed,  \* committed offset
  attempts,   \* deliveryCounts
  cur,        \* the delivery in progress: [offset, todo, retry, rethrow]
  paused,
  verdict,    \* last outcome of each handler for each message
  restarts

consumerVars == <<mode, pos, committed, attempts, cur, paused, verdict, restarts>>

NoMessage == [offset |-> 0, todo |-> {}, retry |-> FALSE, rethrow |-> FALSE]
LastOffset == Cardinality(Offsets)
ManualAck == mode.manual
\* A subscription of its own has one handler, a sticky group all of them.
Members == IF mode.sticky THEN Handlers ELSE {CHOOSE h \in Handlers : TRUE}
Audience(o) == {h \in Members : Matches(h, o)}

ConsumerInit ==
  /\ mode \in Modes
  /\ pos = 1 /\ committed = 1
  /\ attempts = [o \in Offsets |-> 0]
  /\ cur = NoMessage /\ paused = FALSE
  /\ verdict = [h \in Handlers |-> [o \in Offsets |-> "none"]]
  /\ restarts = 0

\* A message that does not decode is dead-lettered and passed over.
Garbled ==
  /\ cur = NoMessage /\ ~paused /\ pos <= LastOffset
  /\ Kind[pos] = "garbled"
  /\ verdict' = [h \in Handlers |-> [verdict[h] EXCEPT ![pos] = "dead"]]
  /\ pos' = pos + 1
  /\ UNCHANGED <<mode, committed, attempts, cur, paused, restarts>>

Deliver ==
  /\ cur = NoMessage /\ ~paused /\ pos <= LastOffset
  /\ Kind[pos] = "ok"
  /\ attempts' = [attempts EXCEPT ![pos] = @ + 1]
  /\ cur' = [NoMessage EXCEPT !.offset = pos, !.todo = Audience(pos)]
  /\ UNCHANGED <<mode, pos, committed, paused, verdict, restarts>>

\* The handler succeeds; with manual acknowledgement it may have called ack.
HandlerOk(h) ==
  /\ h \in cur.todo
  /\ cur' = [cur EXCEPT !.todo = @ \ {h}]
  /\ verdict' = [verdict EXCEPT ![h][cur.offset] = "ok"]
  /\ \/ UNCHANGED <<mode, committed, attempts>>
     \/ ManualAck /\ committed' = cur.offset + 1 /\ attempts' = [attempts EXCEPT ![cur.offset] = 0]
  /\ UNCHANGED <<mode, pos, paused, restarts>>

\* The handler fails: dead-letter it, pause the partition, or rethrow at the end.
FailSwallowed(h) ==      \* mutant: the error is not kept for the rethrow
  LET o == cur.offset
  IN  /\ h \in cur.todo
      /\ cur' = [cur EXCEPT !.todo = @ \ {h}]
      /\ verdict' = [verdict EXCEPT ![h][o] = IF attempts[o] >= MaxAttempts[h] THEN "dead" ELSE "failed"]
      /\ UNCHANGED <<mode, pos, committed, attempts, paused, restarts>>
HandlerFails(h) ==
  LET o == cur.offset
      exceeded == attempts[o] >= MaxAttempts[h]
  IN  /\ h \in cur.todo
      /\ verdict' = [verdict EXCEPT ![h][o] = IF exceeded THEN "dead" ELSE "failed"]
      /\ cur' = [cur EXCEPT !.todo = @ \ {h},
                            !.retry = @ \/ (ManualAck /\ ~exceeded),
                            !.rethrow = @ \/ (~ManualAck /\ ~exceeded)]
      /\ paused' = (paused \/ (ManualAck /\ ~exceeded))
      /\ committed' = IF exceeded /\ ManualAck /\ ~mode.sticky THEN o + 1 ELSE committed
      /\ UNCHANGED <<mode, pos, attempts, restarts>>

\* eachMessage ends: it throws and the message is fetched again, or it returns.
Finish ==
  /\ cur # NoMessage /\ cur.todo = {}
  /\ cur' = NoMessage
  /\ pos' = IF cur.rethrow THEN pos ELSE cur.offset + 1
  /\ attempts' = IF cur.rethrow \/ cur.retry THEN attempts ELSE [attempts EXCEPT ![cur.offset] = 0]
  /\ UNCHANGED <<mode, committed, paused, verdict, restarts>>

\* The backoff timer of scheduleResume.
Resume ==
  /\ paused /\ cur = NoMessage
  /\ paused' = FALSE
  /\ UNCHANGED <<mode, pos, committed, attempts, cur, verdict, restarts>>

AutoCommit ==
  /\ ~ManualAck /\ committed < pos
  /\ committed' = pos
  /\ UNCHANGED <<mode, pos, attempts, cur, paused, verdict, restarts>>

Restart ==
  /\ restarts < MaxRestarts
  /\ restarts' = restarts + 1
  /\ pos' = committed /\ cur' = NoMessage /\ paused' = FALSE
  /\ attempts' = [o \in Offsets |-> 0]
  /\ UNCHANGED <<mode, committed, verdict>>

Process == Garbled \/ Deliver \/ Finish \/ Resume \/ AutoCommit
           \/ \E h \in Handlers : HandlerOk(h) \/ HandlerFails(h)
ConsumerNext == Process \/ Restart

ConsumerSpec == ConsumerInit /\ [][ConsumerNext]_consumerVars
ConsumerFairSpec == ConsumerSpec /\ WF_consumerVars(Process)

-----------------------------------------------------------------------------
Settled(o) == \A h \in Audience(o) : verdict[h][o] \in {"ok", "dead"}

\* With automatic commits no message is passed over: whatever lies before the committed
\* offset was handled or dead-lettered for every handler it matches, through restarts and
\* handlers of one group that fail at different times (nevo-kafka.client.ts eachMessage).
\* With manual acknowledgement the commit promises less: the message it ends with was acknowledged
\* or dead-lettered by a handler, but one before it may have failed without being delivered
\* again, since the pause of scheduleResume does not keep eachMessage from resolving its offset.
CommittedIsSettled ==
  IF ManualAck
  THEN committed > 1 => \E h \in Audience(committed - 1) : verdict[h][committed - 1] \in {"ok", "dead"}
  ELSE \A o \in Offsets : o < committed => Settled(o)

\* A message is never stuck behind a handler that always fails: the budget ends in the
\* dead-letter queue and the partition moves on.
PartitionMovesOn == ~ManualAck => \A o \in Offsets : <>(pos > o)

-----------------------------------------------------------------------------
(***************************************************************************)
(* createKafkaTopics: clients that are created at the same time, in one     *)
(* process or in several, make the topics of their services.  The broker    *)
(* (external) creates the missing topics of a request and reports an error  *)
(* when one of them exists already.                                         *)
(***************************************************************************)

CONSTANTS
  Clients, ProcessOf,  \* clients, and the process each is created in
  Needs,             \* topics each client's services need
  MaxTries,          \* maxTopicCreationAttempts
  MaxFaults          \* bound: errors of the broker

VARIABLES topics, cache, pc, known, tries, faults

topicsVars == <<topics, cache, pc, known, tries, faults>>

Stale == {"expired"}   \* no cached list, or older than its time to live

TopicsInit ==
  /\ topics = {} /\ faults = 0
  /\ cache = [p \in {ProcessOf[c] : c \in Clients} |-> Stale]
  /\ pc = [c \in Clients |-> "start"]
  /\ known = [c \in Clients |-> {}]
  /\ tries = [c \in Clients |-> 0]

\* The list of topics: the process's cached list, or the broker's.
List(c) ==
  LET p == ProcessOf[c]
      use == IF cache[p] = Stale THEN topics ELSE cache[p]
  IN  /\ pc[c] = "start"
      /\ known' = [known EXCEPT ![c] = use]
      /\ cache' = [cache EXCEPT ![p] = use]
      /\ pc' = [pc EXCEPT ![c] = IF Needs[c] \subseteq use THEN "ready" ELSE "create"]
      /\ UNCHANGED <<topics, tries, faults>>

\* createTopics: an "already exists" error counts as success.
CreateAndTrust(c) ==      \* mutant: a failed request counts as success too
  /\ pc[c] = "create"
  /\ \/ topics' = topics \cup Needs[c] /\ UNCHANGED faults
     \/ faults < MaxFaults /\ faults' = faults + 1 /\ UNCHANGED topics
  /\ pc' = [pc EXCEPT ![c] = "ready"]
  /\ UNCHANGED <<cache, known, tries>>
Create(c) ==
  LET missing == Needs[c] \ known[c]
  IN  /\ pc[c] = "create"
      /\ topics' = topics \cup missing
      /\ pc' = [pc EXCEPT ![c] = IF missing \cap topics # {} THEN "ready" ELSE "verify"]
      /\ UNCHANGED <<cache, known, tries, faults>>

Verify(c) ==
  /\ pc[c] = "verify"
  /\ Needs[c] \ known[c] \subseteq topics
  /\ pc' = [pc EXCEPT ![c] = "ready"]
  /\ UNCHANGED <<topics, cache, known, tries, faults>>

\* Any other error: try again up to three times.
Fault(c) ==
  /\ pc[c] \in {"start", "create", "verify"} /\ faults < MaxFaults
  /\ faults' = faults + 1
  /\ tries' = [tries EXCEPT ![c] = @ + 1]
  /\ pc' = [pc EXCEPT ![c] = IF tries'[c] >= MaxTries THEN "failed" ELSE "start"]
  /\ UNCHANGED <<topics, cache, known>>

CacheExpires(p) ==
  /\ cache[p] # Stale
  /\ cache' = [cache EXCEPT ![p] = Stale]
  /\ UNCHANGED <<topics, pc, known, tries, faults>>

TopicsNext ==
  \/ \E c \in Clients : List(c) \/ Create(c) \/ Verify(c) \/ Fault(c)
  \/ \E p \in DOMAIN cache : CacheExpires(p)

TopicsSpec == TopicsInit /\ [][TopicsNext]_topicsVars

-----------------------------------------------------------------------------
\* A client that was created finds the topics of its services, although the cached list
\* is stale and other clients create the same topics meanwhile.
ReadyHasTopics == \A c \in Clients : pc[c] = "ready" => Needs[c] \subseteq topics

-----------------------------------------------------------------------------
(***************************************************************************)
(* Sticky groups and the batch producer: one consumer and one producer are  *)
(* created on first use, by callers that overlap.  A topic is added by      *)
(* stopping the consumer, subscribing and running it again; the additions   *)
(* of a group are chained.  kafkajs (external): run() serves the topics     *)
(* subscribed before it, and does nothing while the consumer runs.          *)
(***************************************************************************)

CONSTANTS
  Subs, TopicOf,     \* subscriptions of one groupId, and their topics
  Batches,           \* calls of emitBatch: sequences of [topic, bad]
  MaxBreaks          \* bound: calls of kafkajs that fail

VARIABLES
  promise,    \* stickyGroupPromises: the number of the group, 0 for none
  groups,     \* the groups created, each with its consumer
  sub,        \* each subscription: state, the group it has, who created its topicEntries
  producer,   \* the batch producer: "none", "connecting", "up"
  live,       \* producers that connect or are connected
  log,        \* what each topic holds: <<batch, index>>
  emit,       \* each batch: "new", "waiting", "sent", "failed"
  breaks,
  calm        \* no addition failed, and nobody unsubscribed while another subscribed

stickyVars == <<promise, groups, sub, producer, live, log, emit, breaks, calm>>
groupVars == <<promise, groups, sub, calm>>
batchVars == <<producer, live, log, emit>>

Nothing == [t \in {} |-> 0]
Idle == [running |-> FALSE, topics |-> {}, serves |-> {}]
Breaks == breaks < MaxBreaks /\ breaks' = breaks + 1

StickyInit ==
  /\ promise = 0 /\ groups = <<>> /\ calm = TRUE /\ breaks = 0
  /\ sub = [x \in Subs |-> [state |-> "new", group |-> 0, entries |-> x]]
  /\ producer = "none" /\ live = 0 /\ emit = [b \in DOMAIN Batches |-> "new"]
  /\ log = [t \in {i.topic : i \in UNION {Range(Batches[b]) : b \in DOMAIN Batches}} |-> <<>>]

\* ensureStickyGroup: a promise that is there, pending or not, is shared.
EachCreates(x) ==     \* mutant: only a group that is connected is shared
  LET new == promise = 0 \/ groups[promise].state = "connecting"
  IN  /\ sub[x].state = "new"
      /\ groups' = IF new THEN Append(groups, [state |-> "connecting", dispatcher |-> Nothing, lane |-> <<>>,
                                               phase |-> "next", consumer |-> Idle])
                   ELSE groups
      /\ promise' = IF new THEN Len(groups) + 1 ELSE promise
      /\ sub' = [sub EXCEPT ![x] = [@ EXCEPT !.state = "waiting", !.group = promise']]
      /\ UNCHANGED <<calm, breaks, batchVars>>
EnsureStickyGroup(x) ==
  LET new == promise = 0
  IN  /\ sub[x].state = "new"
      /\ groups' = IF new THEN Append(groups, [state |-> "connecting", dispatcher |-> Nothing, lane |-> <<>>,
                                               phase |-> "next", consumer |-> Idle])
                   ELSE groups
      /\ promise' = IF new THEN Len(groups) + 1 ELSE promise
      /\ sub' = [sub EXCEPT ![x] = [@ EXCEPT !.state = "waiting", !.group = promise']]
      /\ UNCHANGED <<calm, breaks, batchVars>>

\* The consumer connects, or the promise is rejected and forgotten.
CreateStickyGroup(g) ==
  /\ groups[g].state = "connecting"
  /\ \/ groups' = [groups EXCEPT ![g].state = "up"] /\ UNCHANGED <<promise, sub, breaks>>
     \/ /\ Breaks /\ promise' = 0
        /\ groups' = [groups EXCEPT ![g].state = "off"]
        /\ sub' = [x \in Subs |-> IF sub[x].state = "waiting" /\ sub[x].group = g
                                  THEN [sub[x] EXCEPT !.state = "failed"] ELSE sub[x]]
  /\ UNCHANGED <<calm, batchVars>>

\* The rest of subscribeSticky: the first of a topic adds it, the others join its entries.
SubscribeSticky(x) ==
  LET g == sub[x].group
      t == TopicOf[x]
      joins == t \in DOMAIN groups[g].dispatcher
  IN  /\ sub[x].state = "waiting" /\ groups[g].state # "connecting"
      /\ IF joins
         THEN /\ sub' = [sub EXCEPT ![x] = [@ EXCEPT !.state = "active", !.entries = groups[g].dispatcher[t]]]
              /\ UNCHANGED groups
         ELSE /\ sub' = [sub EXCEPT ![x].state = "adding"]
              /\ groups' = [groups EXCEPT ![g].dispatcher = (t :> x) @@ @, ![g].lane = Append(@, x)]
      /\ UNCHANGED <<promise, calm, breaks, batchVars>>

\* addStickyTopic, once the additions before it are done: stop, subscribe, run.
NeverStopped(g) ==     \* mutant: the consumer is left running
  /\ groups[g].lane # <<>> /\ groups[g].phase = "next"
  /\ groups' = [groups EXCEPT ![g].phase = "stopped"]
  /\ UNCHANGED <<promise, sub, calm, breaks, batchVars>>
StopConsumer(g) ==
  /\ groups[g].lane # <<>> /\ groups[g].phase = "next"
  /\ groups' = [groups EXCEPT ![g].phase = "stopped", ![g].consumer = [@ EXCEPT !.running = FALSE, !.serves = {}]]
  /\ UNCHANGED <<promise, sub, calm, breaks, batchVars>>

SubscribeTopic(g) ==
  /\ groups[g].lane # <<>> /\ groups[g].phase = "stopped"
  /\ groups' = [groups EXCEPT ![g].phase = "subscribed",
                              ![g].consumer.topics = @ \cup {TopicOf[Head(groups[g].lane)]}]
  /\ UNCHANGED <<promise, sub, calm, breaks, batchVars>>

RunStickyGroup(g) ==
  LET runs == [groups[g].consumer EXCEPT !.running = TRUE, !.serves = groups[g].consumer.topics]
  IN  /\ groups[g].lane # <<>> /\ groups[g].phase = "subscribed"
      /\ groups' = [groups EXCEPT ![g].phase = "next", ![g].lane = Tail(@),
                                  ![g].consumer = IF @.running \/ groups[g].state = "off" THEN @ ELSE runs]
      /\ sub' = [sub EXCEPT ![Head(groups[g].lane)].state = "active"]
      /\ UNCHANGED <<promise, calm, breaks, batchVars>>

\* A call of an addition is rejected: the topic leaves the dispatcher, the chain goes on.
AdditionFails(g) ==
  LET x == Head(groups[g].lane)
  IN  /\ groups[g].lane # <<>> /\ Breaks
      /\ groups' = [groups EXCEPT ![g].phase = "next", ![g].lane = Tail(@),
                                  ![g].dispatcher = Restrict(@, DOMAIN @ \ {TopicOf[x]})]
      /\ sub' = [sub EXCEPT ![x].state = "failed"] /\ calm' = FALSE
      /\ UNCHANGED <<promise, batchVars>>

\* The last entry takes its topic out of the dispatcher, the last topic the group.
UnsubscribeSticky(x) ==
  LET g == sub[x].group
      left == {y \in Subs \ {x} : sub[y].state = "active" /\ sub[y].group = g /\ sub[y].entries = sub[x].entries}
      rest == IF left = {} THEN Restrict(groups[g].dispatcher, DOMAIN groups[g].dispatcher \ {TopicOf[x]})
              ELSE groups[g].dispatcher
  IN  /\ sub[x].state = "active" /\ sub' = [sub EXCEPT ![x].state = "gone"]
      /\ calm' = (calm /\ \A y \in Subs : sub[y].state \notin {"waiting", "adding"})
      /\ groups' = [groups EXCEPT ![g].dispatcher = rest,
                                  ![g].state = IF DOMAIN rest = {} THEN "off" ELSE @,
                                  ![g].consumer = IF DOMAIN rest = {} THEN Idle ELSE @]
      /\ promise' = IF DOMAIN rest = {} THEN 0 ELSE promise
      /\ UNCHANGED <<breaks, batchVars>>

-----------------------------------------------------------------------------
OwnProducer(b) ==     \* mutant: a promise that is pending is not shared
  /\ emit[b] = "new" /\ emit' = [emit EXCEPT ![b] = "waiting"]
  /\ producer' = IF producer = "up" THEN producer ELSE "connecting"
  /\ live' = IF producer = "up" THEN live ELSE live + 1
  /\ UNCHANGED <<log, breaks, groupVars>>
EnsureBatchProducer(b) ==
  /\ emit[b] = "new" /\ emit' = [emit EXCEPT ![b] = "waiting"]
  /\ producer' = IF producer = "none" THEN "connecting" ELSE producer
  /\ live' = IF producer = "none" THEN live + 1 ELSE live
  /\ UNCHANGED <<log, breaks, groupVars>>

BatchProducerConnects ==
  /\ producer = "connecting"
  /\ \/ producer' = "up" /\ UNCHANGED <<live, emit, breaks>>
     \/ /\ Breaks /\ producer' = "none" /\ live' = live - 1
        /\ emit' = [b \in DOMAIN Batches |-> IF emit[b] = "waiting" THEN "failed" ELSE emit[b]]
  /\ UNCHANGED <<log, groupVars>>

\* byTopic: the items of a topic (here of one partition), in the order of the batch.
ByTopic(b, t) ==
  LET here == SelectSeq([i \in DOMAIN Batches[b] |-> i], LAMBDA i : Batches[b][i].topic = t)
  IN  [k \in DOMAIN here |-> <<b, here[k]>>]

\* Every item is encoded before any is sent.  sendBatch is no transaction: when it fails, any of
\* the topics may have taken its items.  The producer is idempotent, so none takes them twice.
SendsWhatEncodes(b) ==     \* mutant: an item that cannot be encoded is skipped
  /\ producer = "up" /\ emit[b] = "waiting" /\ emit' = [emit EXCEPT ![b] = "sent"]
  /\ log' = [t \in DOMAIN log |-> log[t] \o SelectSeq(ByTopic(b, t), LAMBDA e : ~Batches[b][e[2]].bad)]
  /\ UNCHANGED <<producer, live, breaks, groupVars>>
EmitBatch(b) ==
  /\ producer = "up" /\ emit[b] = "waiting"
  /\ \/ /\ \A i \in DOMAIN Batches[b] : ~Batches[b][i].bad
        /\ emit' = [emit EXCEPT ![b] = "sent"]
        /\ log' = [t \in DOMAIN log |-> log[t] \o ByTopic(b, t)]
        /\ UNCHANGED breaks
     \/ /\ \E i \in DOMAIN Batches[b] : Batches[b][i].bad
        /\ emit' = [emit EXCEPT ![b] = "failed"] /\ UNCHANGED <<log, breaks>>
     \/ /\ \A i \in DOMAIN Batches[b] : ~Batches[b][i].bad
        /\ Breaks /\ emit' = [emit EXCEPT ![b] = "failed"]
        /\ \E taken \in SUBSET DOMAIN log :
             log' = [t \in DOMAIN log |-> IF t \in taken THEN log[t] \o ByTopic(b, t) ELSE log[t]]
  /\ UNCHANGED <<producer, live, groupVars>>

GroupNext ==
  \/ \E x \in Subs : EnsureStickyGroup(x) \/ SubscribeSticky(x) \/ UnsubscribeSticky(x)
  \/ \E g \in DOMAIN groups : CreateStickyGroup(g) \/ StopConsumer(g) \/ SubscribeTopic(g)
                              \/ RunStickyGroup(g) \/ AdditionFails(g)

BatchNext == BatchProducerConnects \/ \E b \in DOMAIN Batches : EnsureBatchProducer(b) \/ EmitBatch(b)

StickySpec == StickyInit /\ [][GroupNext \/ BatchNext]_stickyVars

\* Callers that overlap share one consumer; once the additions of a group are done, its consumer
\* runs and serves the topic of every active subscription, whose entries the dispatcher has
\* (as long as no addition fails and unsubscribing does not overlap subscribing).
GroupServes ==
  calm => /\ Cardinality({g \in DOMAIN groups : groups[g].state # "off"}) <= 1
          /\ \A x \in Subs : sub[x].state = "active" =>
               LET g == groups[sub[x].group]
                   t == TopicOf[x]
               IN  /\ t \in DOMAIN g.dispatcher /\ g.dispatcher[t] = sub[x].entries
                   /\ g.lane = <<>> => g.consumer.running /\ t \in g.consumer.serves

\* Batches that overlap share one producer; a batch reaches all its topics in its own order when
\* emitBatch succeeds, no topic when an item cannot be encoded, and when the broker fails a
\* topic has all of its items or none: callers who repeat a failed batch repeat whole topics.
BatchesWhole ==
  /\ live <= 1
  /\ \A b \in DOMAIN Batches : \A t \in DOMAIN log :
       LET here == SelectSeq(log[t], LAMBDA e : e[1] = b)
           all == ByTopic(b, t)
           encodes == \A i \in DOMAIN Batches[b] : ~Batches[b][i].bad
       IN  \/ emit[b] = "sent" /\ here = all
           \/ emit[b] # "sent" /\ here = <<>>
           \/ emit[b] = "failed" /\ encodes /\ here = all

=============================================================================
