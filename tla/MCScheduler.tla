---- MODULE MCScheduler ----
(* The scheduler on small instances.  Definition "often" fires at every even  *)
(* time, "rare" at every third, and "never" is a valid expression with no     *)
(* firing at all.  Three deployments: a one-off task beside a recurring one,  *)
(* and for longer a recurring task whose definition is replaced by another,   *)
(* or by one that ends it.                                                    *)
EXTENDS Scheduler, TLC

VARIABLE deployment

Period(c) == IF c = "often" THEN 2 ELSE 3
MCNextTick(c, t) ==
  LET next == (t \div Period(c) + 1) * Period(c)
  IN  IF c = "never" \/ next > MaxTick \/ next <= 0 THEN -1 ELSE next

Symmetry == Permutations(Workers)

\* bound: the definitions of recurring tasks and the time a deployment has; in the mixed one the
\* workers have their handlers from the start, the one for the one-off task first
Uses(defs) == \A id \in CronIds : task'[id].def \in {NoCron} \cup defs
NoOneOffs == \A id \in OneOffIds : task'[id].status = "absent" /\ \A w \in Workers : id \notin handlers'[w]
HandlersFromStart ==
  handlers' # handlers => now = 0 /\ \A w \in Workers : handlers'[w] \in {{}, OneOffIds, Ids}
Within ==
  \/ deployment = "mixed" /\ Uses({"often"}) /\ now' <= 2 /\ HandlersFromStart
  \/ deployment = "recurring" /\ Uses({"often", "rare"}) /\ NoOneOffs
  \/ deployment = "ending" /\ Uses({"rare", "never"}) /\ NoOneOffs

MCInit == Init /\ deployment \in {"mixed", "recurring", "ending"}
MCNext == Next /\ Within /\ UNCHANGED deployment
MCSpec == MCInit /\ [][MCNext]_<<vars, deployment>>

====
