----------------------------- MODULE MCServices -----------------------------
(***************************************************************************)
(* The services that stand beside the message path, and the conversions it  *)
(* uses.  They do not share state: each behaviour is one of them, chosen at *)
(* the start.                                                               *)
(***************************************************************************)
EXTENDS Integers, Sequences, TLC

VARIABLES
  part,
  uClock, uLastMs, uCounter, uPoolOffset, uIds, uDrawn,
  gNow, gServices, gLastSeen, gByService,
  pKind, pNamed, pWorld, pKnown, pRunning, pLoop, pAsk, pChanges, pFaults,
  kNow, kVersion, kCached, kLastRefetch, kRefetches, kCall, kFaults,
  zPoolOn, zPool, zCreated, zPending, zKnown, zDead, zAt, zTooLarge, zInflated, zClosing, zOverlap, zWiped,
  aSink, aBuffer, aStored, aOpening, aTimer, aAt, aBatch, aBad, aFailures, aLost, aFaults,
  cServes, cContracts, cStopped, cPoller, cAnnounced, cStarted, cDeploys, cFaults,
  hNow, hCache, hInFlight, hStarted, hZombies, hReport,
  dConf, dBuffer, dWriteIdx, dCount, dPending, dFlushScheduled, dImmediate, dOn, dNext, dOrigin, dStored,
  dSeen,
  tNow, tRing, tStart, tSize, tRetries, tTimeout, tSinceRecompute, tLastRecomputeAt, tObserved,
  rZone, rSpec, rFrom,
  wValue, wCodec, wAt, wWire, wResult,
  xHeap, xLimit, xAt, xWritten,
  sZod, sRegistry, sContract, sDoc,
  mMethod, mKnown, mAsked, mAnswer,
  oKind, oConfig, oBuckets, oValue, oTotal, oCounts, oCalls

uVars == <<uClock, uLastMs, uCounter, uPoolOffset, uIds, uDrawn>>
gVars == <<gNow, gServices, gLastSeen, gByService>>
pVars == <<pKind, pNamed, pWorld, pKnown, pRunning, pLoop, pAsk, pChanges, pFaults>>
kVars == <<kNow, kVersion, kCached, kLastRefetch, kRefetches, kCall, kFaults>>
zVars == <<zPoolOn, zPool, zCreated, zPending, zKnown, zDead, zAt, zTooLarge, zInflated, zClosing, zOverlap,
  zWiped>>
aVars == <<aSink, aBuffer, aStored, aOpening, aTimer, aAt, aBatch, aBad, aFailures, aLost, aFaults>>
cVars == <<cServes, cContracts, cStopped, cPoller, cAnnounced, cStarted, cDeploys, cFaults>>
hVars == <<hNow, hCache, hInFlight, hStarted, hZombies, hReport>>
dVars == <<dConf, dBuffer, dWriteIdx, dCount, dPending, dFlushScheduled, dImmediate, dOn, dNext, dOrigin,
  dStored, dSeen>>
tVars == <<tNow, tRing, tStart, tSize, tRetries, tTimeout, tSinceRecompute, tLastRecomputeAt, tObserved>>
rVars == <<rZone, rSpec, rFrom>>
wVars == <<wValue, wCodec, wAt, wWire, wResult>>
xVars == <<xHeap, xLimit, xAt, xWritten>>
sVars == <<sZod, sRegistry, sContract, sDoc>>
mVars == <<mMethod, mKnown, mAsked, mAnswer>>
oVars == <<oKind, oConfig, oBuckets, oValue, oTotal, oCounts, oCalls>>
allVars == <<part, uVars, gVars, pVars, kVars, zVars, aVars, cVars, hVars, dVars, tVars, rVars, wVars,
  xVars, sVars, mVars, oVars>>

-----------------------------------------------------------------------------
(* The instances                                                             *)

PeerService == "a1" :> "a" @@ "a2" :> "a" @@ "b1" :> "b" @@ "c1" :> "c"
ProviderKinds == {"consul", "k8s", "etcd", "eureka", "cloud-map", "nomad"}
Discovery == INSTANCE Discovery WITH
  Peers <- DOMAIN PeerService, ServiceOf <- PeerService, MaxEntries <- 2, Ttl <- 1, MaxTime <- 3,
  now <- gNow, services <- gServices, lastSeen <- gLastSeen, byService <- gByService,
  Kinds <- ProviderKinds, Services <- {"a"}, Instances <- {"i1", "i2"}, Loops <- {1, 2}, MaxChanges <- 1,
  MaxFaults <- 1,
  kind <- pKind, named <- pNamed, world <- pWorld, known <- pKnown, running <- pRunning, loop <- pLoop,
  ask <- pAsk, changes <- pChanges, faults <- pFaults

\* Two tokens under the rotated key, and one without a kid that expires.
Signed(alg, kid, key, exp) == [alg |-> alg, kid |-> kid, key |-> key, exp |-> exp, claims |-> TRUE]
Tokens == "c1" :> Signed("RS256", "k2", "k2", 9) @@ "c2" :> Signed("RS256", "k2", "k2", 9)
          @@ "c3" :> Signed("PS256", "none", "k1", 1)
Jwks == "k1" :> [kty |-> "RSA", alg |-> "RS256", use |-> "sig"]
        @@ "k2" :> [kty |-> "RSA", alg |-> "any", use |-> "any"]
Keys == INSTANCE KeySet WITH
  Calls <- DOMAIN Tokens, Token <- Tokens, Jwk <- Jwks, Published <- <<{"k1"}, {"k1", "k2"}>>,
  Allowed <- {"RS256", "PS256", "ES256"}, CacheTtl <- 1, RefetchMinInterval <- 2, ClockSkew <- 1,
  MaxTime <- 4, MaxFaults <- 1,
  now <- kNow, version <- kVersion, cached <- kCached, lastRefetch <- kLastRefetch,
  refetches <- kRefetches, call <- kCall, faults <- kFaults

CodecJob(op, encoding, fits, declared) ==
  [op |-> op, encoding |-> encoding, large |-> TRUE, fits |-> fits, declared |-> declared]
CodecJobs == <<CodecJob("compress", "gzip", TRUE, TRUE), CodecJob("decompress", "gzip", FALSE, TRUE),
               CodecJob("decompress", "zstd", FALSE, FALSE)>>
Codec == INSTANCE CompressionPool WITH
  Jobs <- 1..3, Job <- CodecJobs, PoolSize <- 2, MaxWorkers <- 4,
  poolOn <- zPoolOn, pool <- zPool, created <- zCreated, pending <- zPending, known <- zKnown,
  dead <- zDead, at <- zAt, tooLarge <- zTooLarge, inflated <- zInflated, closing <- zClosing,
  overlap <- zOverlap, wiped <- zWiped

Audit == INSTANCE AuditSinks WITH
  Entries <- {1, 2, 3}, Sinks <- {"memory", "file", "pg"}, MaxEntries <- 2, BatchSize <- 2, BufferCap <- 2,
  Unwritables <- {{}, {2}}, MaxFaults <- 3,
  sink <- aSink, buffer <- aBuffer, stored <- aStored, opening <- aOpening, timer <- aTimer, at <- aAt,
  batch <- aBatch, bad <- aBad, failures <- aFailures, lost <- aLost, faults <- aFaults

\* A contract, the same with its schema's keys in another order, and one with another type.
WithSchema(schema) == [version |-> "1", methods |-> <<[name |-> "m", version |-> 1, schema |-> schema]>>]
SomeContracts == {WithSchema(<<<<"id", "string">>, <<"n", "number">>>>),
                  WithSchema(<<<<"n", "number">>, <<"id", "string">>>>),
                  WithSchema(<<<<"id", "string">>, <<"n", "string">>>>)}
Contract == INSTANCE ContractPoller WITH
  Services <- <<"a">>, Contracts <- SomeContracts, Pollers <- {"loop", "loop2", "app"}, MaxDeploys <- 1,
  MaxFaults <- 1,
  serves <- cServes, contracts <- cContracts, stopped <- cStopped, poller <- cPoller,
  announced <- cAnnounced, started <- cStarted, deploys <- cDeploys, faults <- cFaults

Tuner == INSTANCE Adaptive WITH
  MaxSamples <- 3, MinSamples <- 2, WindowMs <- 0, RecomputeIntervalMs <- 1, RecomputeEvery <- 2,
  Target <- 2, MinRetries <- 1, MaxRetries <- 3, MinTimeout <- 2, MaxTimeout <- 9, Durations <- {0, 2, 4},
  MaxTime <- 2, MaxObservations <- 4,
  now <- tNow, ring <- tRing, start <- tStart, size <- tSize, retries <- tRetries, timeout <- tTimeout,
  sinceRecompute <- tSinceRecompute, lastRecomputeAt <- tLastRecomputeAt, observed <- tObserved

\* Days of six slots, weeks of three days, a year of two months.  A zone changes its offset once, and
\* west of UTC it may lose the midnight: LostMidnight tells whether those zones are included.
CONSTANT LostMidnight
Star == [star |-> TRUE, from |-> 0, to |-> 0, step |-> 1]
Hours(a, b, s) == [star |-> FALSE, from |-> a, to |-> b, step |-> s]
CronSpecs ==
  [slots : {<<Hours(0, 0, 1)>>, <<Hours(2, 2, 1)>>, <<Hours(0, 1, 1), Hours(5, 5, 1)>>, <<Hours(1, 5, 2)>>},
   day : {<<Star>>, <<Hours(2, 2, 1)>>}, month : {<<Star>>, <<Hours(2, 2, 1)>>},
   weekday : {<<Star>>, <<Hours(3, 3, 1)>>, <<Hours(1, 1, 1)>>}]
ShortYear == <<[month |-> 1, day |-> 1], [month |-> 1, day |-> 2], [month |-> 1, day |-> 3],
               [month |-> 2, day |-> 1], [month |-> 2, day |-> 2]>>
\* The clocks change by two slots; going forward, the slots that are lost may include midnight.
LosesMidnight(z) == \E i \in 0..(z.shift - 1) : (z.at + z.offset + i) % 6 = 0
SkippingZones == {z \in [offset : {0, 3, -3}, at : 13..16, shift : {0, 2, -2}] :
                    LostMidnight \/ ~(z.offset < 0 /\ LosesMidnight(z))}
Calendar == INSTANCE Cron WITH
  DayLength <- 6, WeekLength <- 3, Year <- ShortYear, MaxDays <- 6, Zones <- SkippingZones,
  Specs <- CronSpecs, Froms <- {9, 12}, MaxTime <- 18,
  zone <- rZone, spec <- rSpec, from <- rFrom

\* Strings that are, or begin like, the sentinels; nested up to the depth limit and past it.
Text(s) == [t |-> "str", s |-> s, kids |-> <<>>]
BigInt(s) == [t |-> "big", s |-> s, kids |-> <<>>]
Plain(t) == [t |-> t, s |-> <<>>, kids |-> <<>>]
Arr(vs) == [t |-> "arr", s |-> <<>>, kids |-> [i \in DOMAIN vs |-> [key |-> <<>>, val |-> vs[i]]]]
Obj(vs) == [t |-> "obj", s |-> <<>>, kids |-> [i \in DOMAIN vs |-> [key |-> <<"P", "x">>, val |-> vs[i]]]]
Atoms ==
  {Text(s) : s \in {<<>>, <<"S", "B", "1">>, <<"B", "-", "1">>} \cup [1..2 -> {"B", "S", "1", "-", "n"}]
                   \cup [1..1 -> {"B", "S", "P", "1", "x"}]}
  \cup {BigInt(<<"1">>), BigInt(<<"-", "1">>)}
  \cup {Plain(t) : t \in {"null", "num", "undefined", "date", "bytes"}}
Few == {Text(<<"S", "x">>), Text(<<"B", "1">>), Text(<<"1", "n">>), BigInt(<<"1">>)}
       \cup {Plain(t) : t \in {"undefined", "date", "bytes", "num"}}
WireInputs ==
  Atoms \cup {Arr(<<a>>) : a \in Atoms} \cup {Arr(<<a, b>>) : a \in Few, b \in Few}
  \cup {Obj(<<a, b>>) : a \in Few, b \in Few} \cup {Obj(<<Arr(<<a>>)>>) : a \in Few}
  \cup {Arr(<<Obj(<<Arr(<<a>>)>>)>>) : a \in Few}
\* Heaps of three nodes with shared and cyclic references: the entry, its params, and a child.
Prim(t) == [t |-> t, id |-> 0]
Ref(i) == [t |-> "ref", id |-> i]
Field(k, v) == [key |-> k, val |-> v]
Params == {<<>>} \cup {<<Field(k, v)>> : k \in {"a", "password", "mine"},
                                            v \in {Prim("str"), Prim("undefined"), Ref(2), Ref(3)}}
          \cup {<<Field("a", v), Field("password", w)>> : v \in {Prim("num"), Ref(2), Ref(3)},
                                                             w \in {Prim("str"), Prim("undefined"), Ref(3)}}
Children == {<<Field("password", Prim("str")), Field("b", v)>> :
               v \in {Prim("null"), Ref(2), Prim("undefined")}}
AuditHeaps ==
  {<<[t |-> "obj", kids |-> <<Field("params", Ref(2)), Field("result", r)>>], [t |-> t, kids |-> p],
     [t |-> u, kids |-> c]>> : r \in {Prim("undefined"), Ref(3)}, t \in {"arr", "set", "map", "obj"},
                              u \in {"obj", "Binary"}, p \in Params, c \in Children}
SmallHeap == <<[t |-> "obj", kids |-> <<Field("params", Ref(2)), Field("result", Prim("undefined"))>>],
               [t |-> "arr", kids |-> <<>>],
               [t |-> "obj", kids |-> <<Field("password", Prim("str")), Field("b", Prim("null"))>>]>>
\* Schemas one or two wrappers deep, each the schema of the second of three methods.
Zod(k) == [k |-> k, kids |-> <<>>, keys |-> <<>>, vals |-> {}]
Wrap(k, s) == [k |-> k, kids |-> <<s>>, keys |-> <<>>, vals |-> {}]
Pair(k, a, b) == [k |-> k, kids |-> <<a, b>>, keys |-> <<>>, vals |-> {}]
Shape(a, b) == [k |-> "object", kids |-> <<a, b>>, keys |-> <<"a", "b">>, vals |-> {}]
OneOf(k, vals) == [k |-> k, kids |-> <<>>, keys |-> <<>>, vals |-> vals]
ZodLeaves == {Zod(k) : k \in {"string", "number", "date"}}
             \cup {OneOf("literal", {"1"}), OneOf("enum", {"1", "x"})}
ZodOne == ZodLeaves \cup {Wrap(k, s) : k \in {"array", "optional", "nullable", "record", "set", "default",
                                            "effects", "pipeline", "readonly"}, s \in ZodLeaves}
ZodTwo ==
  {Wrap(k, s) : k \in {"array", "nullable", "readonly", "record"}, s \in ZodOne}
  \cup {Pair(k, Zod("string"), s) : k \in {"tuple", "map"}, s \in ZodOne}
  \cup {Pair("intersection", s, Zod("string")) : s \in ZodLeaves}
  \cup {Pair("union", Zod("number"), s) : s \in {Zod("string"), Zod("boolean"), Wrap("array", Zod("number"))}}
  \cup {Shape(s, Zod("number")) : s \in ZodOne}
  \cup {Wrap("array", Wrap("array", Wrap("array", s))) : s \in ZodLeaves}
MethodTable(s) == <<[name |-> 3, builtin |-> TRUE, schema |-> Zod("string")],
                    [name |-> 2, builtin |-> FALSE, schema |-> s],
                    [name |-> 1, builtin |-> FALSE, schema |-> Zod("any")]>>
MethodTables == {MethodTable(s) : s \in ZodOne \cup ZodTwo}
Scalar(t, v) == [t |-> t, v |-> v, keys |-> <<>>, kids |-> <<>>]
JsonArray(vs) == [t |-> "array", v |-> "", keys |-> <<>>, kids |-> vs]
JsonObject(keys, vs) == [t |-> "object", v |-> "", keys |-> keys, kids |-> vs]
Scalars == {Scalar("string", "x"), Scalar("string", "y"), Scalar("number", "1"), Scalar("boolean", "true"),
            Scalar("null", "null")}
JsonFlat ==
  Scalars \cup {JsonArray(<<>>), JsonObject(<<>>, <<>>)}
  \cup {JsonArray(<<a>>) : a \in Scalars} \cup {JsonArray(<<a, b>>) : a \in Scalars, b \in Scalars}
  \cup {JsonObject(<<k>>, <<a>>) : k \in {"a", "b"}, a \in Scalars}
  \cup {JsonObject(<<"a", "b">>, <<a, b>>) : a \in Scalars,
                                               b \in {Scalar("number", "1"), Scalar("null", "null")}}
JsonInputs ==
  JsonFlat \cup {JsonArray(<<a>>) : a \in JsonFlat}
  \cup {JsonObject(<<"a", "b">>, <<JsonArray(<<a>>), Scalar("number", "1")>>) : a \in Scalars}
Words == {<<>>} \cup [1..1 -> {"a", "b"}] \cup [1..2 -> {"a", "b"}] \cup [1..3 -> {"a", "b"}]
AskedNames == Words \cup {<<"A", "b">>, <<"a", "b", "a", "b">>, <<"a", "b", "a", "b", "a">>}
KnownNames == {<<>>} \cup {<<c, d>> : c \in Words \ {<<>>},
                                     d \in {<<"A", "b">>, <<"b", "b", "a", "a">>, <<"a", "a", "b", "a">>}}
Values == INSTANCE Conversions WITH
  Values <- WireInputs, Codecs <- {"json", "msgpack", "pg", "sqlite", "legacy"}, MaxDepth <- 2,
  value <- wValue, codec <- wCodec, at <- wAt, wire <- wWire, result <- wResult,
  Heaps <- AuditHeaps, Sensitive <- {"password"}, Extra <- {"mine"}, RedactDepth <- 8, Limits <- {30, 60},
  heap <- xHeap, limit <- xLimit, place <- xAt, written <- xWritten,
  Letters <- {"a", "b"}, ToLower <- ("a" :> "a" @@ "b" :> "b" @@ "A" :> "a"), Unknown <- AskedNames,
  Candidates <- KnownNames, MaxInput <- 4,
  method <- mMethod, known <- mKnown, asked <- mAsked, answer <- mAnswer,
  Registries <- MethodTables, JsonValues <- JsonInputs, ShapeDepth <- 2, JsonDepth <- 3,
  zod <- sZod, registry <- sRegistry, contract <- sContract, doc <- sDoc,
  CounterSize <- 2, Base <- 2, BytePool <- 5, Take <- 2, MaxMs <- 3, MaxIds <- 5,
  clock <- uClock, lastMs <- uLastMs, counter <- uCounter, poolOffset <- uPoolOffset, ids <- uIds,
  drawn <- uDrawn

\* Labels that differ in what must be escaped, more series than may be kept, unordered buckets.
Labelled(name, text) == <<[name |-> name, text |-> text]>>
SomeLabels == {Labelled("l", <<"newline">>), Labelled("l", <<"\\", "n">>), Labelled("l", <<"a", "control">>),
               Labelled("l", <<"a">>), Labelled("label", <<"other">>)}
Observed == INSTANCE Observability WITH
  Checks <- {"db", "mq"}, KindOf <- ("db" :> "both" @@ "mq" :> "readiness"), Reports <- {"r1", "r2"},
  AskedKind <- ("r1" :> "all" @@ "r2" :> "liveness"), CacheMs <- 1, MaxTime <- 1, MaxProbes <- 2,
  now <- hNow, cache <- hCache, inFlight <- hInFlight, started <- hStarted, zombies <- hZombies,
  report <- hReport,
  Listeners <- {"l1", "l2"}, LocalOnly <- {"l2"}, Capacity <- 2, MaxPending <- 2,
  Strategies <- {"drop-oldest", "drop-newest", "back-pressure"}, MaxEvents <- 3,
  conf <- dConf, buffer <- dBuffer, writeIdx <- dWriteIdx, count <- dCount, pending <- dPending,
  flushScheduled <- dFlushScheduled, immediate <- dImmediate, on <- dOn, next <- dNext, origin <- dOrigin,
  stored <- dStored, seen <- dSeen,
  Labels <- SomeLabels, MaxSeries <- 1, Amounts <- {1, 2}, BucketArgs <- {<<>>, <<2, 1, 2>>},
  Configs <- {<<>>, <<1>>}, Default <- <<2>>, MaxCalls <- 3,
  kind <- oKind, config <- oConfig, buckets <- oBuckets, value <- oValue, total <- oTotal,
  counts <- oCounts, calls <- oCalls

-----------------------------------------------------------------------------
\* The inputs of a component that is not chosen are fixed.
MCInit ==
  /\ part \in {"ids", "registry", "providers", "jwks", "compression", "audit", "contracts", "health",
               "devtools", "adaptive", "cron", "wire", "redaction", "schemas", "suggestion", "metrics"}
  /\ Values!IdsInit
  /\ Discovery!RegistryInit
  /\ IF part = "providers" THEN TRUE ELSE pKind = "consul" /\ pNamed = TRUE
       /\ pWorld = [s \in {"a"} |-> [i \in {"i1", "i2"} |-> "up"]]
  /\ Discovery!ProvidersInit
  /\ Keys!Init
  /\ Codec!Init
  /\ IF part = "audit" THEN TRUE ELSE aSink = "memory" /\ aBad = {}
  /\ Audit!Init
  /\ IF part = "contracts" THEN TRUE ELSE cServes = "a" :> WithSchema(<<<<"id", "string">>, <<"n", "number">>>>)
  /\ Contract!Init
  /\ Observed!HealthInit
  /\ IF part = "devtools" THEN TRUE ELSE dConf = [strategy |-> "drop-oldest", batched |-> FALSE]
  /\ Observed!BusInit
  /\ Tuner!Init
  /\ IF part = "cron" THEN TRUE ELSE rZone = [offset |-> 0, at |-> 13, shift |-> 0]
       /\ rSpec = [slots |-> <<Hours(0, 0, 1)>>, day |-> <<Star>>, month |-> <<Star>>,
                   weekday |-> <<Star>>] /\ rFrom = 12
  /\ Calendar!Init
  /\ IF part = "wire" THEN TRUE ELSE wValue = Plain("null") /\ wCodec = "json"
  /\ Values!WireInit
  /\ IF part = "redaction" THEN TRUE ELSE xHeap = SmallHeap /\ xLimit = 30
  /\ Values!RedactInit
  /\ IF part = "schemas" THEN TRUE ELSE sZod = 3 /\ sRegistry = MethodTable(Zod("string"))
  /\ Values!SchemaInit
  /\ IF part = "suggestion" THEN TRUE ELSE mMethod = <<>> /\ mKnown = <<>>
  /\ Values!SuggestInit
  /\ IF part = "metrics" THEN TRUE ELSE oKind = "off" /\ oConfig = <<>>
  /\ Observed!MetricsInit

MCNext ==
  /\ UNCHANGED part
  /\ \/ /\ part = "ids" /\ Values!IdsNext
        /\ UNCHANGED <<gVars, pVars, kVars, zVars, aVars, cVars, hVars, dVars, tVars, rVars, wVars, xVars,
                       sVars, mVars, oVars>>
     \/ /\ part = "registry" /\ Discovery!RegistryNext
        /\ UNCHANGED <<uVars, pVars, kVars, zVars, aVars, cVars, hVars, dVars, tVars, rVars, wVars, xVars,
                       sVars, mVars, oVars>>
     \/ /\ part = "providers" /\ Discovery!ProvidersNext
        /\ UNCHANGED <<uVars, gVars, kVars, zVars, aVars, cVars, hVars, dVars, tVars, rVars, wVars, xVars,
                       sVars, mVars, oVars>>
     \/ /\ part = "jwks" /\ Keys!Next
        /\ UNCHANGED <<uVars, gVars, pVars, zVars, aVars, cVars, hVars, dVars, tVars, rVars, wVars, xVars,
                       sVars, mVars, oVars>>
     \/ /\ part = "compression" /\ Codec!Next
        /\ UNCHANGED <<uVars, gVars, pVars, kVars, aVars, cVars, hVars, dVars, tVars, rVars, wVars, xVars,
                       sVars, mVars, oVars>>
     \/ /\ part = "audit" /\ Audit!Next
        /\ UNCHANGED <<uVars, gVars, pVars, kVars, zVars, cVars, hVars, dVars, tVars, rVars, wVars, xVars,
                       sVars, mVars, oVars>>
     \/ /\ part = "contracts" /\ Contract!Next
        /\ UNCHANGED <<uVars, gVars, pVars, kVars, zVars, aVars, hVars, dVars, tVars, rVars, wVars, xVars,
                       sVars, mVars, oVars>>
     \/ /\ part = "health" /\ Observed!HealthNext
        /\ UNCHANGED <<uVars, gVars, pVars, kVars, zVars, aVars, cVars, dVars, tVars, rVars, wVars, xVars,
                       sVars, mVars, oVars>>
     \/ /\ part = "devtools" /\ Observed!BusNext
        /\ UNCHANGED <<uVars, gVars, pVars, kVars, zVars, aVars, cVars, hVars, tVars, rVars, wVars, xVars,
                       sVars, mVars, oVars>>
     \/ /\ part = "adaptive" /\ Tuner!Next
        /\ UNCHANGED <<uVars, gVars, pVars, kVars, zVars, aVars, cVars, hVars, dVars, rVars, wVars, xVars,
                       sVars, mVars, oVars>>
     \/ /\ part = "cron" /\ Calendar!Next
        /\ UNCHANGED <<uVars, gVars, pVars, kVars, zVars, aVars, cVars, hVars, dVars, tVars, wVars, xVars,
                       sVars, mVars, oVars>>
     \/ /\ part = "wire" /\ Values!WireNext
        /\ UNCHANGED <<uVars, gVars, pVars, kVars, zVars, aVars, cVars, hVars, dVars, tVars, rVars, xVars,
                       sVars, mVars, oVars>>
     \/ /\ part = "redaction" /\ Values!RedactNext
        /\ UNCHANGED <<uVars, gVars, pVars, kVars, zVars, aVars, cVars, hVars, dVars, tVars, rVars, wVars,
                       sVars, mVars, oVars>>
     \/ /\ part = "schemas" /\ Values!SchemaNext
        /\ UNCHANGED <<uVars, gVars, pVars, kVars, zVars, aVars, cVars, hVars, dVars, tVars, rVars, wVars,
                       xVars, mVars, oVars>>
     \/ /\ part = "suggestion" /\ Values!SuggestNext
        /\ UNCHANGED <<uVars, gVars, pVars, kVars, zVars, aVars, cVars, hVars, dVars, tVars, rVars, wVars,
                       xVars, sVars, oVars>>
     \/ /\ part = "metrics" /\ Observed!MetricsNext
        /\ UNCHANGED <<uVars, gVars, pVars, kVars, zVars, aVars, cVars, hVars, dVars, tVars, rVars, wVars,
                       xVars, sVars, mVars>>

\* The fairness of each component, for the component that runs.
MCSpec ==
  /\ MCInit /\ [][MCNext]_allVars
  /\ \A l \in {1, 2} : WF_pVars(part = "providers" /\ Discovery!Step(l))
  /\ \A c \in DOMAIN Tokens : WF_kVars(part = "jwks" /\ Keys!Progress(c))
  /\ WF_zVars(part = "compression" /\ Codec!Works) /\ WF_zVars(part = "compression" /\ Codec!Terminated)
  /\ WF_aVars(part = "audit" /\ Audit!Progress)
  /\ \A l \in {"loop", "loop2", "app"} :
       WF_cVars(part = "contracts" /\ (Contract!Progress(l) \/ Contract!TimerFires(l)))
  /\ \A k \in {"db", "mq"} : WF_hVars(part = "health" /\ Observed!TimesOut(k))
  /\ WF_dVars(part = "devtools" /\ Observed!Immediate)

\* The calendar on its own.
CronSpec == part = "cron" /\ MCInit /\ [][MCNext]_allVars

-----------------------------------------------------------------------------
\* What the services keep agrees with what happened, however calls, timers and failures overlap:
\* the index and the eviction order of discovery, the reason for every accepted token and every
\* rotation refetch, the compression jobs and their cap, the audit entries, the announced
\* contracts, the health cache, the events a DevTools listener was called with, the tuner, and the
\* series of a metric.
ServicesExact ==
  /\ part = "registry" => Discovery!RegistryExact
  /\ part = "jwks" => Keys!AcceptedByIssuer /\ Keys!RefetchThrottled
  /\ part = "compression" => Codec!CapHonoured /\ Codec!JobsAccounted
  /\ part = "audit" => Audit!AuditAccounted
  /\ part = "contracts" => Contract!AnnouncementsChain
  /\ part = "health" => Observed!CacheIsLatest
  /\ part = "devtools" => Observed!BusExact
  /\ part = "adaptive" => Tuner!TunerSound
  /\ part = "metrics" => Observed!SeriesExact

\* The search of the next run, which goes from day to day, finds the first instant after `from`
\* that matches the expression in the zone.
NextTickExact == Calendar!NextTickExact

\* Every conversion and search returns what its definition says: the next cron tick, a value that
\* went over a wire or through a store, a redacted entry and its size, a contract's document, the
\* closest method name; and ids increase although the clock stands still, jumps or goes back.
ConversionsExact ==
  /\ part = "ids" => Values!IdsIncrease
  /\ part = "cron" => NextTickExact
  /\ part = "wire" => Values!WireExact
  /\ part = "redaction" => Values!RedactionExact
  /\ part = "schemas" => Values!DocumentExact
  /\ part = "suggestion" => Values!SuggestionClosest

\* A step gives up only what it may: a full registry the entry heard of longest ago, a failed
\* fetch no cached key.
StepsKeep == Discovery!LeastRecentGoes /\ Keys!OutageTolerated

\* What is asked for ends, and what changed is noticed: verifications, compression jobs, health
\* reports, audit writes and DevTools flushes end; discovery and the contract poller converge on
\* what the world has become.
ServicesProgress ==
  /\ part = "providers" => Discovery!Converges
  /\ part = "jwks" => Keys!VerifyEnds
  /\ part = "compression" => Codec!EveryJobSettles
  /\ part = "audit" => Audit!EventuallyAudited
  /\ part = "contracts" => Contract!DriftNoticed
  /\ part = "health" => Observed!ReportsEnd
  /\ part = "devtools" => Observed!FlushHappens

=============================================================================
