--------------------------- MODULE ContractPoller ---------------------------
(***************************************************************************)
(* ContractPoller: a self-scheduling loop and pollOnce() fetch the contract *)
(* of each service in turn, and announce what differs.  Contracts are       *)
(* compared by version and by the shape of their schemas.                   *)
(***************************************************************************)
EXTENDS Integers, Sequences, SequencesExt, FiniteSets

CONSTANTS
  Services,      \* a sequence: the order in which tick() asks
  Contracts,     \* contracts a service may have: [version, methods], a method is [name, version, schema]
  Pollers,       \* "loop", a second loop after stop() and start(), and callers of pollOnce()
  MaxDeploys,    \* bound: deployments that change a contract
  MaxFaults      \* bound: fetches that fail, stops

Nothing == [version |-> "none", methods |-> <<>>]

VARIABLES
  serves,       \* the contract each service has
  contracts,    \* the poller's map
  stopped,
  poller,       \* each poller: [at, next (index of the service), got]; at "off", "timer", "asks", "got"
  announced,    \* history: what onChange was called with, per service
  started,      \* start() was called
  deploys, faults

vars == <<serves, contracts, stopped, poller, announced, started, deploys, faults>>
Names == ToSet(Services)
Idle == [at |-> "off", next |-> 1, got |-> Nothing]

Init ==
  /\ serves \in [Names -> Contracts] /\ contracts = [s \in Names |-> Nothing] /\ stopped = FALSE
  /\ poller = [p \in Pollers |-> Idle] /\ announced = [s \in Names |-> <<>>]
  /\ started = FALSE /\ deploys = 0 /\ faults = 0

-----------------------------------------------------------------------------
(* contractsEqual: methods in order, schemas by canonical form               *)

\* stableStringify sorts the keys of a schema, a sequence of <<key, value>>.
SchemaKey(schema) == ToSet(schema)
VersionsEqual(a, b) ==      \* mutant: only versions are compared
  /\ a.version = b.version /\ Len(a.methods) = Len(b.methods)
  /\ \A i \in DOMAIN a.methods : a.methods[i].version = b.methods[i].version
ContractsEqual(a, b) ==
  /\ a.version = b.version
  /\ Len(a.methods) = Len(b.methods)
  /\ \A i \in DOMAIN a.methods :
       /\ a.methods[i].name = b.methods[i].name /\ a.methods[i].version = b.methods[i].version
       /\ SchemaKey(a.methods[i].schema) = SchemaKey(b.methods[i].schema)

-----------------------------------------------------------------------------
(* start, stop and the loop                                                  *)

Loop(p) == p \in {"loop", "loop2"}
Begins(p) == poller' = [poller EXCEPT ![p] = [at |-> "asks", next |-> 1, got |-> Nothing]]

Start(p) ==
  /\ Loop(p) /\ poller[p].at = "off" /\ (p = "loop2" => stopped /\ poller["loop"].at # "off")
  /\ stopped' = FALSE /\ started' = TRUE /\ Begins(p)
  /\ UNCHANGED <<serves, contracts, announced, deploys, faults>>
PollOnce(p) ==
  /\ ~Loop(p) /\ poller[p].at = "off" /\ ~stopped /\ Begins(p)
  /\ UNCHANGED <<serves, contracts, stopped, announced, started, deploys, faults>>
TimerFires(p) ==
  /\ Loop(p) /\ poller[p].at = "timer" /\ Begins(p)
  /\ UNCHANGED <<serves, contracts, stopped, announced, started, deploys, faults>>
Stop ==
  /\ ~stopped /\ stopped' = TRUE /\ faults < MaxFaults /\ faults' = faults + 1
  /\ poller' = [p \in Pollers |-> IF poller[p].at = "timer" THEN Idle ELSE poller[p]]
  /\ UNCHANGED <<serves, contracts, announced, started, deploys>>

\* The next service, or the end of the round: the loop schedules itself unless it was stopped.
Proceeds(p) ==
  IF poller[p].next < Len(Services)
  THEN [at |-> "asks", next |-> poller[p].next + 1, got |-> Nothing]
  ELSE IF Loop(p) /\ ~stopped THEN [Idle EXCEPT !.at = "timer"] ELSE Idle

-----------------------------------------------------------------------------
(* tick()                                                                    *)

\* The service answers with its contract of that moment.
Fetch(p) ==
  /\ poller[p].at = "asks"
  /\ poller' = [poller EXCEPT ![p].at = "got", ![p].got = serves[Services[poller[p].next]]]
  /\ UNCHANGED <<serves, contracts, stopped, announced, started, deploys, faults>>

\* prev is read after the await.
Apply(p) ==
  /\ poller[p].at = "got"
  /\ LET s == Services[poller[p].next] prev == contracts[s] next == poller[p].got
     IN  IF prev = Nothing \/ ~ContractsEqual(prev, next)
         THEN /\ contracts' = [contracts EXCEPT ![s] = next]
              /\ announced' = [announced EXCEPT ![s] = Append(@, [next |-> next, prev |-> prev])]
         ELSE UNCHANGED <<contracts, announced>>
  /\ poller' = [poller EXCEPT ![p] = Proceeds(p)]
  /\ UNCHANGED <<serves, stopped, started, deploys, faults>>

\* A service that does not answer is skipped: the round goes on.
FetchAborts(p) ==        \* mutant: a failure ends the round and the loop
  /\ poller[p].at = "asks" /\ faults < MaxFaults /\ faults' = faults + 1
  /\ poller' = [poller EXCEPT ![p] = Idle]
  /\ UNCHANGED <<serves, contracts, stopped, announced, started, deploys>>
FetchFails(p) ==
  /\ poller[p].at = "asks" /\ faults < MaxFaults /\ faults' = faults + 1
  /\ poller' = [poller EXCEPT ![p] = Proceeds(p)]
  /\ UNCHANGED <<serves, contracts, stopped, announced, started, deploys>>

Deploy(s) ==
  /\ deploys < MaxDeploys /\ deploys' = deploys + 1
  /\ \E c \in Contracts \ {serves[s]} : serves' = [serves EXCEPT ![s] = c]
  /\ UNCHANGED <<contracts, stopped, poller, announced, started, faults>>

Progress(p) == Fetch(p) \/ Apply(p)
Next ==
  \/ Stop \/ \E s \in Names : Deploy(s)
  \/ \E p \in Pollers : Start(p) \/ PollOnce(p) \/ TimerFires(p) \/ Progress(p) \/ FetchFails(p)
Fairness == \A p \in Pollers : WF_vars(Progress(p) \/ TimerFires(p))
Spec == Init /\ [][Next]_vars /\ Fairness

-----------------------------------------------------------------------------
\* The reference: two contracts are the same whatever the order in which a schema lists its keys.
Shape(c) == [c EXCEPT !.methods = [i \in DOMAIN c.methods |-> [c.methods[i] EXCEPT !.schema = ToSet(@)]]]
Same(a, b) == Shape(a) = Shape(b)

\* The announcements of a service form a chain that ends in what getContract returns: each one's
\* prev is the next of the one before, and differs from its own next, whoever polls meanwhile.
AnnouncementsChain ==
  \A s \in Names :
    LET a == announced[s]
    IN  /\ \A i \in DOMAIN a : /\ a[i].prev = (IF i = 1 THEN Nothing ELSE a[i - 1].next)
                               /\ ~Same(a[i].prev, a[i].next)
        /\ contracts[s] = (IF a = <<>> THEN Nothing ELSE a[Len(a)].next)

\* While the poller runs, getContract agrees with the service again and again, although fetches
\* fail, a schema changes under the same version and late answers bring back an old contract.
DriftNoticed == \A s \in Names : []<>(started /\ ~stopped => Same(contracts[s], serves[s]))
=============================================================================
