------------------------------ MODULE MCGateway ------------------------------
(* Instances of Gateway: one intent that resumes the line while it is in RUN  *)
(* and the zone is clear, and one stop, at three installations.               *)
EXTENDS Gateway, TLC

CONSTANT Stops     \* the stop-class intents

Zone == "zone.clear"
MCTargets == {"cell"}
MCTargetOf == [i \in Intents |-> "cell"]
MCStopPolicies == {Stops}
MCPaths == {LineState, LineVersion, Zone}
MCAdmissible ==
  [i \in Intents |-> [p \in MCPaths |-> IF p = LineVersion THEN 1..MaxCellVersion ELSE {1}]]

Changes == [bridge |-> "queue", versions |-> "line", stateFile |-> TRUE]
Samples == [bridge |-> "sampling", versions |-> "line", stateFile |-> FALSE]
Bursts == [bridge |-> "coalesce", versions |-> "global", stateFile |-> FALSE]
MCDeployments == {Changes, Samples, Bursts}

Q(mode, act, scope, guard) ==
  [mode |-> mode, act |-> act, scope |-> scope, guard |-> guard, inject |-> FALSE, complete |-> TRUE]
LocalQueries ==
  {Q(mode, "ros", "readset", FALSE) : mode \in {"direct", "naive", "local", "local_stale",
     "local_authoritative", "opa", "opa_readset"}}
    \cup {Q("local_authoritative", "ros", "global", FALSE),
          [Q("naive", "ros", "readset", FALSE) EXCEPT !.complete = FALSE]}
CellQueries ==
  {Q("xair", "version", "readset", FALSE), Q("xair_atomic", "version", "readset", TRUE)}
OtherQueries ==
  {Q("xair", "predicate", "predicate", FALSE), Q("xair", "plain", "global", FALSE),
   [Q("xair_atomic", "ros", "readset", FALSE) EXCEPT !.inject = TRUE]}

MCSites ==
  {[cell |-> Changes, engine |-> FALSE, posted |-> {}, requests |-> 2,
    queries |-> CellQueries],
   [cell |-> Bursts, engine |-> FALSE, posted |-> {}, requests |-> 1,
    queries |-> OtherQueries],
   [cell |-> Samples, engine |-> TRUE, posted |-> {Zone}, requests |-> 1,
    queries |-> LocalQueries]}
Symmetry == Permutations(Threads)
=============================================================================
