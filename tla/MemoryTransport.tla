--------------------------- MODULE MemoryTransport ---------------------------
(***************************************************************************)
(* MemoryTransport and its MemoryHarness: queries with injected delays and  *)
(* failures, fire-and-forget emits, and publications that are delivered to  *)
(* one subscriber after the other while others subscribe and unsubscribe.   *)
(***************************************************************************)
EXTENDS Integers, Sequences, FiniteSets

CONSTANTS
  Calls, CallKind,     \* calls of service:method, "query" or "emit"
  Subs, Pubs,          \* subscriptions and publications
  Wants(_, _),         \* service, method pattern and filter of a subscription
  MaxInjections        \* bound: failNext calls

VARIABLES
  handler,    \* is a handler registered
  failure,    \* a failure is injected for the next call
  injected,   \* failNext calls so far
  call,       \* where each call is
  order,      \* subscribers, in insertion order
  active,     \* each entry: "new", "on" or "off"
  pub,        \* each publication: where its fan-out is, the entries visited, and the subscribers
              \* at its start
  got         \* publications each handler was started for, in order

vars == <<handler, failure, injected, call, order, active, pub, got>>

Init ==
  /\ handler = TRUE /\ failure = FALSE /\ injected = 0
  /\ call = [c \in Calls |-> "idle"]
  /\ order = <<>>
  /\ active = [x \in Subs |-> "new"]
  /\ pub = [p \in Pubs |-> [at |-> "idle", seen |-> {}, from |-> {}]]
  /\ got = [x \in Subs |-> <<>>]

-----------------------------------------------------------------------------
(* Calls                                                                     *)

FailNext ==
  /\ injected < MaxInjections /\ injected' = injected + 1
  /\ failure' = TRUE
  /\ UNCHANGED <<handler, call, order, active, pub, got>>

Unregister ==
  /\ handler /\ handler' = FALSE
  /\ UNCHANGED <<failure, injected, call, order, active, pub, got>>

\* The call is recorded and waits for the injected delay.
Call(c) ==
  /\ call[c] = "idle"
  /\ call' = [call EXCEPT ![c] = "delayed"]
  /\ UNCHANGED <<handler, failure, injected, order, active, pub, got>>

\* After the delay: an injected failure is taken, once, before the handler is looked up.
KeepFailure(c) ==      \* mutant: the injected failure stays
  /\ call[c] = "delayed"
  /\ call' = [call EXCEPT ![c] = IF failure THEN "injected"
                                 ELSE IF handler THEN "handled"
                                 ELSE IF CallKind[c] = "query" THEN "not_found" ELSE "dropped"]
  /\ UNCHANGED <<handler, failure, injected, order, active, pub, got>>
Arrive(c) ==
  /\ call[c] = "delayed"
  /\ failure' = FALSE
  /\ call' = [call EXCEPT ![c] = IF failure THEN "injected"
                                 ELSE IF handler THEN "handled"
                                 ELSE IF CallKind[c] = "query" THEN "not_found" ELSE "dropped"]
  /\ UNCHANGED <<handler, injected, order, active, pub, got>>

-----------------------------------------------------------------------------
(* Publications                                                              *)

Subscribe(x) ==
  /\ active[x] = "new"
  /\ order' = Append(order, x)
  /\ active' = [active EXCEPT ![x] = "on"]
  /\ UNCHANGED <<handler, failure, injected, call, pub, got>>

Unsubscribe(x) ==
  /\ active[x] = "on"
  /\ active' = [active EXCEPT ![x] = "off"]
  /\ order' = SelectSeq(order, LAMBDA y : y # x)
  /\ UNCHANGED <<handler, failure, injected, call, pub, got>>

Publish(p) ==
  /\ pub[p].at = "idle"
  /\ pub' = [pub EXCEPT ![p] = [at |-> "walking", seen |-> {}, from |-> {x \in Subs : active[x] = "on"}]]
  /\ UNCHANGED <<handler, failure, injected, call, order, active, got>>

\* The iterator of the Set visits what is left, new entries included.
Left(p) == {i \in DOMAIN order : order[i] \notin pub[p].seen}

\* fanout: skip the entries that do not match, deliver to the next that does.
Deliver(p) ==
  /\ pub[p].at = "walking"
  /\ LET wanted == {i \in Left(p) : Wants(order[i], p)}
         i == CHOOSE i \in wanted : \A j \in wanted : i <= j
     IN  IF wanted = {}
         THEN pub' = [pub EXCEPT ![p].at = "done"] /\ UNCHANGED got
         ELSE /\ pub' = [pub EXCEPT ![p].at = "delivering",
                                    ![p].seen = @ \cup {order[j] : j \in {j \in Left(p) : j <= i}}]
              /\ got' = [got EXCEPT ![order[i]] = Append(@, p)]
  /\ UNCHANGED <<handler, failure, injected, call, order, active>>

\* The handler returns or throws; the producer goes on.
Delivered(p) ==
  /\ pub[p].at = "delivering"
  /\ pub' = [pub EXCEPT ![p].at = "walking"]
  /\ UNCHANGED <<handler, failure, injected, call, order, active, got>>

CallsNext == FailNext \/ Unregister \/ \E c \in Calls : Call(c) \/ Arrive(c)

FanoutNext ==
  \/ \E x \in Subs : Subscribe(x) \/ Unsubscribe(x)
  \/ \E p \in Pubs : Publish(p) \/ Deliver(p) \/ Delivered(p)

Spec == Init /\ [][CallsNext \/ FanoutNext]_vars

-----------------------------------------------------------------------------
\* One injected failure fails one call, however many are delayed at the time
\* (consumeFailure).
FailuresAreSingleUse == Cardinality({c \in Calls : call[c] = "injected"}) <= injected

\* A finished publication was handed once to every subscriber that wanted it and stayed
\* subscribed, and never to one twice, while entries come and go during the walk (fanout).
PublicationsFanOut ==
  \A p \in Pubs : \A x \in Subs :
    LET n == Cardinality({i \in DOMAIN got[x] : got[x][i] = p})
    IN  /\ n <= 1
        /\ pub[p].at = "done" /\ x \in pub[p].from /\ active[x] = "on" /\ Wants(x, p) => n = 1

=============================================================================
