---------------------------- MODULE MCIntentQueue ----------------------------
(* Two intents on one target: b is degradable, of lower priority, declares p *)
(* and may be classed as a stop; a policy may mandate p for a.               *)
EXTENDS IntentQueue

CONSTANTS a, b, t, p

MCTargetOf == [i \in Intents |-> t]
MCDegradable == {b}
MCStopPolicies == {{}, {b}}
MCPriority == [i \in Intents |-> IF i = a THEN 1 ELSE 0]
MCDeclared == [i \in Intents |-> IF i = a THEN {} ELSE {p}]
MCMandates == {[i \in Intents |-> {}], [i \in Intents |-> IF i = a THEN {p} ELSE {}]}
=============================================================================
