--------------------------- MODULE MCBatchIngress ---------------------------
(* Instances of BatchIngress: the intents act on one target, those of Stops  *)
(* may be classed as stops, and one from XR wins a tie.                      *)
EXTENDS BatchIngress, TLC

CONSTANTS Stops

Line == "line.state"
MCTargets == {"cell"}
MCTargetOf == [i \in Intents |-> "cell"]
MCStopPolicies == {{}, Stops}
MCPaths == {Line, "stop.b0"}
MCStopPath == [x \in MCTargets |-> "stop.b0"]
MCAdmissible == [i \in Intents |-> [p \in {Line} |-> {1}]]
MCDecision == [i \in Intents |-> 0]
MCFreshness == [i \in Intents |-> 1]
MCDeadline == [i \in Intents |-> NoDeadline]
MCPriority == [i \in Intents |-> 0]
\* the plant has posted that the line runs before the first batch arrives
MCInit == BatchInit /\ \A p \in DataPaths : context[p] = 1
MCSpec == MCInit /\ [][BatchNext]_batchVars
Symmetry == Permutations(Workers)
=============================================================================
