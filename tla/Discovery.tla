----------------------------- MODULE Discovery ------------------------------
(* Discovery: the registry of announced peers, and the providers that poll.  *)
EXTENDS Integers, Sequences, FiniteSets, SequencesExt, FiniteSetsExt, Functions

(***************************************************************************)
(* DiscoveryRegistry: announcements refresh entries of a bounded map in     *)
(* insertion order, kept beside an index by service; stale entries are      *)
(* pruned, and make room first when the map is full.                        *)
(***************************************************************************)

CONSTANTS
  Peers, ServiceOf,   \* announced instances, and the service of each
  MaxEntries, Ttl,
  MaxTime             \* bound: the clock

VARIABLES
  now,
  services,   \* the map: peers in insertion order
  lastSeen,   \* lastSeen of each entry
  byService   \* the index: the services it has, each with its set of keys

registryVars == <<now, services, lastSeen, byService>>
Names == {ServiceOf[p] : p \in Peers}

RegistryInit == now = 0 /\ services = <<>> /\ lastSeen = [p \in Peers |-> 0] /\ byService = [s \in {} |-> {}]

Stale(p) == now - lastSeen[p] > Ttl

-----------------------------------------------------------------------------
Without(seq, S) == SelectSeq(seq, LAMBDA p : p \notin S)

\* drop() of the entries S: an empty set leaves the index.
DropKeepsSet(index, S) == [s \in DOMAIN index |-> index[s] \ S]       \* mutant
Drop(index, S) ==
  LET left == [s \in DOMAIN index |-> index[s] \ S]
  IN  [s \in {x \in DOMAIN index : left[x] # {}} |-> left[s]]

IndexAdd(index, p) ==
  [s \in DOMAIN index \cup {ServiceOf[p]} |->
     (IF s \in DOMAIN index THEN index[s] ELSE {}) \cup (IF s = ServiceOf[p] THEN {p} ELSE {})]

\* evictIfFull: stale entries in order until there is room, then the oldest.
Evicted ==
  LET n == Max({0, Len(services) - MaxEntries + 1})
      stale == SelectSeq(services, Stale)
      rest == SelectSeq(services, LAMBDA p : ~Stale(p))
  IN  Range(SubSeq(stale \o rest, 1, n))

\* mutant: a refreshed entry keeps its place in the map
UpdateInPlace(p) ==
  LET out == IF p \in Range(services) THEN {} ELSE Evicted
  IN  /\ services' = IF p \in Range(services) THEN services ELSE Append(Without(services, out), p)
      /\ lastSeen' = [lastSeen EXCEPT ![p] = now]
      /\ byService' = IndexAdd(Drop(byService, out), p)
      /\ UNCHANGED now
Update(p) ==
  LET out == IF p \in Range(services) THEN {} ELSE Evicted
  IN  /\ services' = Append(Without(services, out \cup {p}), p)
      /\ lastSeen' = [lastSeen EXCEPT ![p] = now]
      /\ byService' = IndexAdd(Drop(byService, out), p)
      /\ UNCHANGED now

Prune ==
  LET out == {p \in Range(services) : Stale(p)}
  IN  /\ out # {}
      /\ services' = Without(services, out) /\ byService' = Drop(byService, out)
      /\ UNCHANGED <<now, lastSeen>>

RemoveInstance(p) ==
  /\ p \in Range(services)
  /\ services' = Without(services, {p}) /\ byService' = Drop(byService, {p})
  /\ UNCHANGED <<now, lastSeen>>

Tick == now < MaxTime /\ now' = now + 1 /\ UNCHANGED <<services, lastSeen, byService>>

RegistryNext == Tick \/ Prune \/ \E p \in Peers : Update(p) \/ RemoveInstance(p)
RegistrySpec == RegistryInit /\ [][RegistryNext]_registryVars

ListByService(s) == IF s \in DOMAIN byService THEN byService[s] \cap Range(services) ELSE {}
IsAvailable(s) == \E p \in ListByService(s) : ~Stale(p)

-----------------------------------------------------------------------------
\* Index and map tell the same, through every eviction and prune: a service is available
\* exactly when one of its instances announced itself within the TTL, the map stays within its
\* bound, and no empty set is left behind.
RegistryExact ==
  /\ Len(services) <= MaxEntries
  /\ \A s \in DOMAIN byService : byService[s] # {}
  /\ \A s \in Names : /\ ListByService(s) = {p \in Range(services) : ServiceOf[p] = s}
                      /\ IsAvailable(s) <=> \E p \in Range(services) : ServiceOf[p] = s /\ ~Stale(p)

\* The entry that makes room is the one heard of least recently: insertion order, which
\* evictIfFull follows, stays announcement order because update() re-inserts what it refreshes.
LeastRecentGoes ==
  [][\A p \in Range(services) \ Range(services') :
       \/ \A q \in Range(services) \cap Range(services') : lastSeen[p] <= lastSeen[q]
       \/ RemoveInstance(p)]_registryVars

-----------------------------------------------------------------------------
(***************************************************************************)
(* The discovery providers: a loop asks an external registry about each     *)
(* service and replaces what is known of it.  Loops of one provider may     *)
(* overlap after stop() and start(); requests fail; the world changes.      *)
(***************************************************************************)

CONSTANTS
  Kinds,               \* of "consul", "k8s", "etcd", "eureka", "cloud-map", "nomad", all polling
  Services, Instances,
  Loops,               \* loops a provider can have at once
  MaxChanges,          \* bound: changes of the world
  MaxFaults            \* bound: failed requests, stops

VARIABLES
  kind,
  named,      \* the options list the services; otherwise each round asks the catalog for them
  world,      \* the external registry: each instance of a service is "gone", "up" or "down"
  known,      \* what the sink knows
  running,    \* start() was called, did not fail, and stop() was not called since
  loop,       \* each loop: "off", "timer", "names", "starts" or "asks"
  ask,        \* what each loop has asked per service: "todo", "sent" or "done", and the answer
  changes, faults

providersVars == <<kind, named, world, known, running, loop, ask, changes, faults>>
Fresh == [s \in Services |-> [at |-> "todo", got |-> {}]]

\* The providers whose list of services may be left out.
HasCatalog == {"consul", "eureka", "nomad"}

ProvidersInit ==
  /\ kind \in Kinds /\ named \in IF kind \in HasCatalog THEN BOOLEAN ELSE {TRUE}
  /\ world \in [Services -> [Instances -> {"gone", "up"}]] /\ known = [s \in Services |-> {}]
  /\ running = FALSE /\ loop = [l \in Loops |-> "off"] /\ ask = [l \in Loops |-> Fresh]
  /\ changes = 0 /\ faults = 0

Change(s) ==
  /\ changes < MaxChanges /\ changes' = changes + 1
  /\ \E i \in Instances, h \in {"gone", "up", "down"} :
       h # world[s][i] /\ world' = [world EXCEPT ![s][i] = h]
  /\ UNCHANGED <<kind, named, known, running, loop, ask, faults>>

-----------------------------------------------------------------------------
(* start() and stop(): stop() does not wait for the round in progress        *)

Launch(l) ==
  /\ ~running /\ running' = TRUE
  /\ loop[l] = "off" /\ ask' = [ask EXCEPT ![l] = Fresh]
  /\ UNCHANGED <<kind, named, world, known, changes, faults>>
RoundBegins == IF named THEN "asks" ELSE "names"
Start(l) == kind # "etcd" /\ Launch(l) /\ loop' = [loop EXCEPT ![l] = RoundBegins]
EtcdStart(l) == kind = "etcd" /\ Launch(l) /\ loop' = [loop EXCEPT ![l] = "starts"]

\* The round that etcd's start() awaits fails: start() rejects and nothing is scheduled.
EtcdStartFails(l) ==
  /\ loop[l] = "starts" /\ faults < MaxFaults /\ faults' = faults + 1
  /\ loop' = [loop EXCEPT ![l] = "off"] /\ running' = FALSE
  /\ UNCHANGED <<kind, named, world, known, ask, changes>>

Stop ==
  /\ running /\ running' = FALSE /\ faults < MaxFaults /\ faults' = faults + 1
  /\ loop' = [l \in Loops |-> IF loop[l] = "timer" THEN "off" ELSE loop[l]]
  /\ UNCHANGED <<kind, named, world, known, ask, changes>>

Timer(l) ==
  /\ loop[l] = "timer" /\ loop' = [loop EXCEPT ![l] = RoundBegins]
  /\ ask' = [ask EXCEPT ![l] = Fresh]
  /\ UNCHANGED <<kind, named, world, known, running, changes, faults>>

Up(s) == {i \in Instances : world[s][i] = "up"}
Listed(s) == {i \in Instances : world[s][i] # "gone"}

\* The round is over: the next one is scheduled unless the provider was stopped.
RoundDies(l) ==     \* mutant: the next round is scheduled only after a round without errors
  /\ loop[l] \in {"starts", "asks"} /\ \A s \in Services : ask[l][s].at = "done"
  /\ loop' = [loop EXCEPT ![l] = IF running /\ faults = 0 THEN "timer" ELSE "off"]
  /\ UNCHANGED <<kind, named, world, known, running, ask, changes, faults>>
RoundEnds(l) ==
  /\ loop[l] \in {"starts", "asks"} /\ \A s \in Services : ask[l][s].at = "done"
  /\ loop' = [loop EXCEPT ![l] = IF running THEN "timer" ELSE "off"]
  /\ UNCHANGED <<kind, named, world, known, running, ask, changes, faults>>

\* resolveServiceNames, resolveAppNames: only the services in the catalog are asked about.  When
\* it cannot be read the round is over.
ResolveNames(l) ==
  /\ loop[l] = "names" /\ loop' = [loop EXCEPT ![l] = "asks"]
  /\ ask' = [ask EXCEPT ![l] = [s \in Services |->
               [at |-> IF Listed(s) = {} THEN "done" ELSE "todo", got |-> {}]]]
  /\ UNCHANGED <<kind, named, world, known, running, changes, faults>>
ResolveFails(l) ==
  /\ loop[l] = "names" /\ faults < MaxFaults /\ faults' = faults + 1
  /\ loop' = [loop EXCEPT ![l] = IF running THEN "timer" ELSE "off"]
  /\ UNCHANGED <<kind, named, world, known, running, ask, changes>>

-----------------------------------------------------------------------------
(* One request and what each provider makes of its answer                    *)

\* Asking for passing or healthy instances, or filtering the answer; Nomad and DNS list what they have.
\* A "down" key of etcd is one whose value does not parse.
ConsulLists(s) == Up(s)
SrvLists(s) == Listed(s)
EtcdLists(s) == Up(s)
EurekaLists(s) == Up(s)
CloudMapLists(s) == Up(s)
NomadLists(s) == Listed(s)
Lists(s) ==
  CASE kind = "consul" -> ConsulLists(s) [] kind = "k8s" -> SrvLists(s) [] kind = "etcd" -> EtcdLists(s)
    [] kind = "eureka" -> EurekaLists(s) [] kind = "cloud-map" -> CloudMapLists(s)
    [] kind = "nomad" -> NomadLists(s)

\* Sequential providers ask for a service when the previous one is answered.
InTurn(l, s) == kind \in {"k8s", "cloud-map"} => \A t \in Services : ask[l][t].at # "sent"
Ask(l, s) ==
  /\ loop[l] \in {"starts", "asks"} /\ ask[l][s].at = "todo" /\ InTurn(l, s)
  /\ ask' = [ask EXCEPT ![l][s] = [at |-> "sent", got |-> Lists(s)]]
  /\ UNCHANGED <<kind, named, world, known, running, loop, changes, faults>>

Done(l, s) == ask' = [ask EXCEPT ![l][s].at = "done"]
Upsert(s, S) == known' = [known EXCEPT ![s] = @ \cup S]     \* mutant of Replace: what is gone stays
Replace(s, S) == known' = [known EXCEPT ![s] = S]

\* The etcd provider replaces only the services that have a key.
Answered(l, s) ==
  /\ ask[l][s].at = "sent" /\ Done(l, s)
  /\ IF kind = "etcd" /\ ask[l][s].got = {} THEN UNCHANGED known ELSE Replace(s, ask[l][s].got)
  /\ UNCHANGED <<kind, named, world, running, loop, changes, faults>>

\* An error status clears the service (eureka, nomad); so does a lookup that fails (Kubernetes DNS);
\* any other failure leaves what was known.
ConsulFails(s) == UNCHANGED known
KubernetesFails(s) == Replace(s, {})
EtcdFails(s) == UNCHANGED known
EurekaFails(s) == Replace(s, {}) \/ UNCHANGED known
CloudMapFails(s) == UNCHANGED known
NomadFails(s) == Replace(s, {}) \/ UNCHANGED known
RequestFails(l, s) ==
  /\ ask[l][s].at = "sent" /\ loop[l] = "asks" /\ Done(l, s)
  /\ faults < MaxFaults /\ faults' = faults + 1
  /\ \/ kind = "consul" /\ ConsulFails(s)
     \/ kind = "k8s" /\ KubernetesFails(s)
     \/ kind = "etcd" /\ EtcdFails(s)
     \/ kind = "eureka" /\ EurekaFails(s)
     \/ kind = "cloud-map" /\ CloudMapFails(s)
     \/ kind = "nomad" /\ NomadFails(s)
  /\ UNCHANGED <<kind, named, world, running, loop, changes>>

Step(l) == Timer(l) \/ ResolveNames(l) \/ RoundEnds(l) \/ \E s \in Services : Ask(l, s) \/ Answered(l, s)
ProvidersNext ==
  \/ Stop \/ \E s \in Services : Change(s)
  \/ \E l \in Loops : \/ Start(l) \/ EtcdStart(l) \/ EtcdStartFails(l) \/ ResolveFails(l) \/ Step(l)
                      \/ \E s \in Services : RequestFails(l, s)

Fairness == \A l \in Loops : WF_providersVars(Step(l))
ProvidersSpec == ProvidersInit /\ [][ProvidersNext]_providersVars /\ Fairness

-----------------------------------------------------------------------------
\* A service the provider does not ask about, or whose answer does not mention it: etcd sees the
\* services that have a key, a provider without a list of services those of the catalog.
Unseen(s) == IF kind = "etcd" THEN Lists(s) = {} ELSE ~named /\ Listed(s) = {}

\* While the provider runs, the registry agrees with the world again and again, although
\* requests fail and rounds of an old loop answer late.  A service that disappeared altogether is
\* replaced only when the options list it; otherwise its last instances stay until they are
\* pruned as stale.
Converges == \A s \in Services : []<>(running => known[s] = Lists(s) \/ Unseen(s))

=============================================================================
