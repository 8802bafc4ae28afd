----------------------------- MODULE MCXairServer -----------------------------
(* Instances of XairServer: which intents share a target, which are stops,   *)
(* and when each was decided, is read off the sets a cfg names.              *)
EXTENDS XairServer, TLC

CONSTANTS
  Stops,           \* the stop-class intents
  OneTarget,       \* do all intents act on one target?
  Late             \* intents decided at time 2; the others are decided at 0

Line == "line.state"
MCTargets == IF OneTarget THEN {"cell"} ELSE Intents
MCTargetOf == [i \in Intents |-> IF OneTarget THEN "cell" ELSE i]
MCStopPolicies == {Stops}
MCPaths == {Line, "stop.b0"}
MCStopPath == [x \in MCTargets |-> "stop.b0"]
MCAdmissible == [i \in Intents |-> [p \in {Line} |-> {1}]]
MCDecision == [i \in Intents |-> IF i \in Late THEN 2 ELSE 0]
MCFreshness == [i \in Intents |-> 1 + Eps]
MCDeadline == [i \in Intents |-> NoDeadline]
Symmetry == Permutations(Workers)
=============================================================================
