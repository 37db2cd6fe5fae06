------------------------------ MODULE MCClient ------------------------------
(* Small instances of ClientCall: six ways of configuring a client.          *)
EXTENDS ClientCall, TLC

CONSTANTS c1, c2, c3, c4, k1, k2

MCKeyOf == c1 :> k1 @@ c2 :> k1 @@ c3 :> k1 @@ c4 :> k2
MCIdemKey == c1 :> NoKey @@ c2 :> "idem" @@ c3 :> "idem" @@ c4 :> NoKey

Plain == [breaker |-> FALSE, circuit |-> "none", adaptive |-> FALSE, copies |-> 1,
          backpressure |-> FALSE, maxKeys |-> 2, calls |-> {c1, c2}, closes |-> FALSE]
MCOptions ==
  {[Plain EXCEPT !.breaker = TRUE, !.calls = {c1, c2, c3}],
   [Plain EXCEPT !.breaker = TRUE, !.maxKeys = 1, !.calls = {c1, c2, c4}],
   [Plain EXCEPT !.circuit = "sliding", !.backpressure = TRUE],
   [Plain EXCEPT !.backpressure = TRUE, !.calls = {c1, c2, c3}],
   [Plain EXCEPT !.adaptive = TRUE, !.copies = 2, !.backpressure = TRUE, !.circuit = "count", !.calls = {c1}],
   [Plain EXCEPT !.closes = TRUE]}

MCProbeKeyOf == [c \in Calls |-> k1]
MCNoIdem == [c \in Calls |-> NoKey]
MCProbeOptions == {[Plain EXCEPT !.breaker = TRUE, !.calls = Calls]}

=============================================================================
