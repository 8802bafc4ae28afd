------------------------------ MODULE Lifecycle ------------------------------
(***************************************************************************)
(* The finite state machine of an action intent (xair/core/lifecycle.py):  *)
(* which transitions LifecycleTracker.transition admits.  A transition it  *)
(* does not admit raises InvalidTransition and changes nothing.            *)
(***************************************************************************)

\* IntentState
States == {"CREATED", "PENDING", "VALIDATING", "AUTHORIZED", "DELAYED",
           "DEGRADED", "REVOKED", "EXPIRED", "COMMITTED", "RELEASED",
           "WITHHELD", "EFFECT_CONFIRMED", "FAILED", "UNKNOWN_EFFECT"}

\* ALLOWED_TRANSITIONS; a state not listed is terminal
Allowed(s) ==
  CASE s = "CREATED"        -> {"PENDING", "REVOKED"}
    [] s = "PENDING"        -> {"VALIDATING", "REVOKED"}
    [] s = "VALIDATING"     -> {"AUTHORIZED", "DELAYED", "DEGRADED", "REVOKED", "EXPIRED"}
    [] s = "DELAYED"        -> {"PENDING", "REVOKED", "EXPIRED"}
    [] s = "DEGRADED"       -> {"PENDING", "REVOKED", "EXPIRED"}
    [] s = "AUTHORIZED"     -> {"COMMITTED", "RELEASED", "WITHHELD", "REVOKED"}
    [] s = "COMMITTED"      -> {"RELEASED", "WITHHELD"}
    [] s = "RELEASED"       -> {"EFFECT_CONFIRMED", "FAILED", "UNKNOWN_EFFECT"}
    [] s = "UNKNOWN_EFFECT" -> {"EFFECT_CONFIRMED", "FAILED"}
    [] OTHER                -> {}

\* TERMINAL_STATES
TerminalStates == {s \in States : Allowed(s) = {}}

\* SETTLED_STATES: a record in one of them may be forgotten once the
\* idempotency window has passed
SettledStates == TerminalStates \cup {"UNKNOWN_EFFECT"}

\* RELEASED_STATES: the command was handed to middleware or a controller
ReleasedStates == {"RELEASED", "EFFECT_CONFIRMED", "FAILED", "UNKNOWN_EFFECT"}

\* _VALIDATABLE_STATES: the states process_intent starts a validation pass from
ValidatableStates == {"CREATED", "DELAYED", "DEGRADED"}
=============================================================================
