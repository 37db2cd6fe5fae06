------------------------------ MODULE OnceOnly ------------------------------
(***************************************************************************)
(* What claim-before-execute idempotency promises for one key: at most one  *)
(* execution at a time, no execution after one has succeeded, and every     *)
(* other request with the key gets that execution's result or an error.     *)
(***************************************************************************)
CONSTANTS Requests, Pending, Failed

VARIABLES
  running,   \* the requests being executed
  verdict    \* each request's fate: Pending, Failed, or the execution it was answered with

Succeeded == {r \in Requests : verdict[r] = r}

Init ==
  /\ running = {}
  /\ verdict = [r \in Requests |-> Pending]

\* An execution starts.
Run(r) ==
  /\ running = {} /\ Succeeded = {}
  /\ verdict[r] = Pending
  /\ running' = {r}
  /\ UNCHANGED verdict

\* The execution r succeeds; requests that waited for it are answered with it.
Succeed(r) ==
  /\ r \in running
  /\ running' = {}
  /\ verdict' \in [Requests -> Requests \cup {Pending, Failed}]
  /\ verdict'[r] = r
  /\ \A q \in Requests \ {r} : verdict'[q] # verdict[q] => verdict[q] = Pending /\ verdict'[q] \in {r, Failed}

\* Requests end without an execution of their own, or with one that failed.
Settle ==
  /\ running' \in SUBSET running
  /\ verdict' \in [Requests -> Requests \cup {Pending, Failed}]
  /\ \A q \in Requests : verdict'[q] # verdict[q] => verdict[q] = Pending /\ verdict'[q] \in Succeeded \cup {Failed}
  /\ \A q \in running \ running' : verdict'[q] = Failed

Next == Settle \/ \E r \in Requests : Run(r) \/ Succeed(r)
Spec == Init /\ [][Next]_<<running, verdict>>

=============================================================================
