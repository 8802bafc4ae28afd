----------------------------- MODULE XairRuntime -----------------------------
(***************************************************************************)
(* The XAIR runtime object (xair/core/runtime.py with lifecycle.py,        *)
(* coordinator.py and execution_decision.py): the lifecycle records, the   *)
(* idempotency table, the target locks and the installed context version.  *)
(*                                                                         *)
(* Every method runs under the runtime's one re-entrant lock, so each is   *)
(* one action; PENDING and VALIDATING exist only inside process_intent.    *)
(* LifecycleRevoke is the exception: the HTTP layer calls                  *)
(* lifecycle.transition directly, without the lock and without giving the  *)
(* target lock back.  Here the callers are arbitrary: any method may be    *)
(* called at any time with any argument.  XairServer says which calls the  *)
(* HTTP handlers make.                                                     *)
(***************************************************************************)
EXTENDS Integers, Sequences, FiniteSetsExt, Lifecycle

CONSTANTS
  Intents,         \* intent identifiers
  Targets,         \* values of payload.target_entity
  TargetOf,        \* the target of each intent
  Degradable,      \* intents submitted with degradation_policy = reduce_speed
  StopPolicies,    \* the sets of intents a policy may class as "stop"
  RetentionLapses, \* may the idempotency retention of an id elapse?
  MaxVersion,      \* bound on context versions
  MaxLog           \* bound on positions in the actuation log

ASSUME RuntimeAssumption ==
  /\ TargetOf \in [Intents -> Targets]
  /\ Degradable \subseteq Intents
  /\ StopPolicies \subseteq SUBSET Intents
  /\ RetentionLapses \in BOOLEAN
  /\ MaxVersion \in Nat
  /\ MaxLog \in Nat

VARIABLES
  records,         \* LifecycleTracker._records
  seen,            \* _seen, oldest first
  activeTargets,   \* DistributedCoordinator._active_targets
  contextVersion,  \* _context_version, of the installed snapshot
  stopClass        \* intents whose action type the policy classes as "stop"

runtimeVars == <<records, seen, activeTargets, contextVersion, stopClass>>

Versions == 0..MaxVersion
LogPositions == 1..MaxLog
NoSeq == 0                              \* commit_seq is None

Outcomes == {"NONE", "EXECUTE", "DELAY", "DEGRADE", "REVOKE"}
Decisions == {"NONE", "RELEASE", "WITHHOLD"}
Effects == {"confirmed", "failed", "unknown"}

\* IntentRecord, less what no handler reads back; "class" is the action class
\* of its last validation, "policy" the degradation policy its payload still
\* carries
Record ==
  [state: States \cup {"ABSENT"}, outcome: Outcomes, class: {"stop", "other"},
   policy: {"none", "reduce_speed"}, contextVersion: Versions, readSetVersion: Versions,
   decision: Decisions, commitSeq: {NoSeq} \cup LogPositions,
   effect: Effects \cup {"NONE"}]

\* no record is kept for the id
Absent ==
  [state |-> "ABSENT", outcome |-> "NONE", class |-> "other", policy |-> "none",
   contextVersion |-> 0, readSetVersion |-> 0, decision |-> "NONE",
   commitSeq |-> NoSeq, effect |-> "NONE"]

\* LifecycleTracker.register
Created(i) ==
  [Absent EXCEPT !.state = "CREATED",
                 !.policy = IF i \in Degradable THEN "reduce_speed" ELSE "none"]

RuntimeInit ==
  /\ records = [i \in Intents |-> Absent]
  /\ seen = <<>>
  /\ activeTargets = {}
  /\ contextVersion = 0
  /\ stopClass \in StopPolicies

-----------------------------------------------------------------------------
(* Policy and context *)

\* set_policy, as far as it assigns the stop class
SetPolicy(S) ==
  /\ stopClass' = S
  /\ UNCHANGED <<records, seen, activeTargets, contextVersion>>

\* install_context_snapshot: an older snapshot than the installed one is ignored
InstallSnapshot(v) ==
  /\ contextVersion' = IF v < contextVersion THEN contextVersion ELSE v
  /\ UNCHANGED <<records, seen, activeTargets, stopClass>>

-----------------------------------------------------------------------------
(* Admission *)

\* how many of the oldest ids the retention horizon may have passed
Lapses == IF RetentionLapses THEN 0..Len(seen) ELSE {0}

\* _expire_seen, having popped the k oldest ids: the table that is left ...
Retained(k) == SubSeq(seen, k + 1, Len(seen))

\* ... and the records, of which the settled ones are forgotten
AfterExpiry(k) ==
  [i \in Intents |->
     IF /\ \E n \in 1..k : seen[n] = i
        /\ records[i].state \in SettledStates
     THEN Absent ELSE records[i]]

\* what admit returns besides the record
IsDuplicate(i, k) ==
  i \in Range(Retained(k)) /\ AfterExpiry(k)[i].state # "ABSENT"

\* admit, without the internal queue
Admit(i, k) ==
  /\ IF IsDuplicate(i, k)
     THEN /\ records' = AfterExpiry(k)
          /\ seen' = Retained(k)
     ELSE /\ records' = [AfterExpiry(k) EXCEPT ![i] = Created(i)]
          /\ seen' = IF i \in Range(Retained(k)) THEN Retained(k)
                                                 ELSE Append(Retained(k), i)
  /\ UNCHANGED <<activeTargets, contextVersion, stopClass>>

-----------------------------------------------------------------------------
(* Validation at t_v *)

\* what a validation pass is given or finds: the version of its snapshot, the
\* read-set version in it, the age check ("obsolete" stands for a decision too
\* far ahead of the clock as well), and whether the predicates hold
Checks ==
  [version: Versions, readSetVersion: Versions,
   temporal: {"ok", "obsolete", "deadline"}, contextOk: BOOLEAN]

\* mutant of Decide: a busy target is looked at first
DecideBusyFirst(r, i, c) ==
  IF TargetOf[i] \in activeTargets THEN "DELAY"
  ELSE IF c.temporal # "ok" \/ ~c.contextOk THEN "REVOKE"
  ELSE IF r.policy # "none" THEN "DEGRADE" ELSE "EXECUTE"

\* ExecutionDecisionEngine.decide
Decide(r, i, c) ==
  CASE c.temporal # "ok"              -> "REVOKE"
    [] c.temporal = "ok" /\ ~c.contextOk -> "REVOKE"
    [] OTHER -> IF TargetOf[i] \in activeTargets THEN "DELAY"
                ELSE IF r.policy # "none" THEN "DEGRADE" ELSE "EXECUTE"

\* the state each outcome ends a pass in
StateAfter(outcome, c) ==
  CASE outcome = "EXECUTE" -> "AUTHORIZED"
    [] outcome = "DELAY"   -> "DELAYED"
    [] outcome = "DEGRADE" -> "DEGRADED"
    [] OTHER -> IF c.temporal = "deadline" THEN "EXPIRED" ELSE "REVOKED"

\* a stop is authorized on schema validity alone and takes no target lock
AuthorizeStop(r) ==
  [r EXCEPT !.state = "AUTHORIZED", !.outcome = "EXECUTE", !.class = "stop",
            !.contextVersion = contextVersion, !.readSetVersion = 0]

\* the pass was given an older snapshot than the installed one
RevokeStale(r) ==
  [r EXCEPT !.state = "REVOKED", !.outcome = "REVOKE", !.class = "other",
            !.contextVersion = contextVersion]

\* _apply_degradation is the change of "policy"
Validated(r, outcome, c) ==
  [r EXCEPT !.state = StateAfter(outcome, c), !.outcome = outcome,
            !.class = "other", !.policy = IF outcome = "DEGRADE" THEN "none" ELSE @,
            !.contextVersion = c.version,
            !.readSetVersion = c.readSetVersion]

\* process_intent with requeue=False
ProcessIntent(i, c) ==
  LET r == IF records[i].state = "ABSENT" THEN Created(i) ELSE records[i]
      outcome == Decide(r, i, c)
  IN /\ IF r.state \notin ValidatableStates
        THEN UNCHANGED <<records, activeTargets>>
        ELSE IF i \in stopClass
        THEN /\ records' = [records EXCEPT ![i] = AuthorizeStop(r)]
             /\ UNCHANGED activeTargets
        ELSE IF c.version < contextVersion
        THEN /\ records' = [records EXCEPT ![i] = RevokeStale(r)]
             /\ UNCHANGED activeTargets
        ELSE /\ records' = [records EXCEPT ![i] = Validated(r, outcome, c)]
             /\ activeTargets' = IF outcome = "EXECUTE"
                                 THEN activeTargets \cup {TargetOf[i]}
                                 ELSE activeTargets
     /\ UNCHANGED <<seen, contextVersion, stopClass>>

-----------------------------------------------------------------------------
(* Commit, release, effect.  A report that is a replay, names an unknown   *)
(* id, or is refused by the FSM leaves everything but the audit as it is.  *)

\* mutant of ReleaseTarget: the lock is never given back
ReleaseTargetNever(i) == UNCHANGED activeTargets

\* DistributedCoordinator.release: by target name, whoever holds it
ReleaseTarget(i) == activeTargets' = activeTargets \ {TargetOf[i]}

\* what the reports make of a record
Committed(r, seq) == [r EXCEPT !.state = "COMMITTED", !.commitSeq = seq]
Withheld(r) == [r EXCEPT !.state = "WITHHELD", !.decision = "WITHHOLD"]
Released(r) == [r EXCEPT !.state = "RELEASED", !.decision = "RELEASE"]
Revoked(r) == [r EXCEPT !.state = "REVOKED", !.outcome = "REVOKE"]

\* record_commit
RecordCommit(i, committed, seq) ==
  /\ IF records[i].state = "AUTHORIZED"
     THEN /\ records' = [records EXCEPT ![i] = IF committed THEN Committed(@, seq)
                                               ELSE Withheld(@)]
          /\ ReleaseTarget(i)
     ELSE UNCHANGED <<records, activeTargets>>
  /\ UNCHANGED <<seen, contextVersion, stopClass>>

\* the version a release report carries, if any, differs from the recorded one
VersionMoved(r, scope, v) ==
  \/ scope = "readset" /\ v # r.readSetVersion
  \/ scope = "global"  /\ v # r.contextVersion

\* mutants of TakesReport: a late report is accepted after a revoke, or a
\* conflicting one after the decision
TakesReportRevoked(r) ==
  r.decision = "NONE" /\ r.state \in {"AUTHORIZED", "COMMITTED", "REVOKED"}
TakesReportAgain(r) == r.state \in {"AUTHORIZED", "COMMITTED", "RELEASED"}

\* report_release is taken up rather than replayed or refused
TakesReport(r) ==
  r.decision = "NONE" /\ r.state \in {"AUTHORIZED", "COMMITTED"}

\* report_release
ReportRelease(i, released, scope, v) ==
  LET r == records[i]
      hold == ~released \/ (r.state = "AUTHORIZED" /\ VersionMoved(r, scope, v))
  IN /\ IF TakesReport(r)
        THEN /\ records' = [records EXCEPT ![i] = IF hold THEN Withheld(@) ELSE Released(@)]
             /\ ReleaseTarget(i)
        ELSE UNCHANGED <<records, activeTargets>>
     /\ UNCHANGED <<seen, contextVersion, stopClass>>

EffectState(status) ==
  CASE status = "confirmed" -> "EFFECT_CONFIRMED"
    [] status = "failed"    -> "FAILED"
    [] OTHER                -> "UNKNOWN_EFFECT"

Effected(r, status) == [r EXCEPT !.state = EffectState(status), !.effect = status]

\* report_effect
ReportEffect(i, status) ==
  /\ records' = IF EffectState(status) \in Allowed(records[i].state)
                THEN [records EXCEPT ![i] = Effected(@, status)] ELSE records
  /\ UNCHANGED <<seen, activeTargets, contextVersion, stopClass>>

\* supervisory_revoke
SupervisoryRevoke(i) ==
  /\ IF "REVOKED" \in Allowed(records[i].state)
     THEN /\ records' = [records EXCEPT ![i] = Revoked(@)]
          /\ ReleaseTarget(i)
     ELSE UNCHANGED <<records, activeTargets>>
  /\ UNCHANGED <<seen, contextVersion, stopClass>>

\* lifecycle.transition(id, REVOKED) as the HTTP layer calls it
LifecycleRevoke(i) ==
  /\ records' = IF "REVOKED" \in Allowed(records[i].state)
                THEN [records EXCEPT ![i] = Revoked(@)] ELSE records
  /\ UNCHANGED <<seen, activeTargets, contextVersion, stopClass>>

\* a restart of the process: the runtime keeps nothing on disk, and a policy
\* installed over HTTP gives way to the one of XAIR_POLICY_FILE
RuntimeRestart ==
  /\ records' = [i \in Intents |-> Absent]
  /\ seen' = <<>>
  /\ activeTargets' = {}
  /\ contextVersion' = 0
  /\ stopClass' \in StopPolicies

-----------------------------------------------------------------------------
RuntimeNext ==
  \/ \E S \in StopPolicies : SetPolicy(S)
  \/ \E v \in Versions : InstallSnapshot(v)
  \/ \E i \in Intents, k \in Lapses : Admit(i, k)
  \/ \E i \in Intents, c \in Checks : ProcessIntent(i, c)
  \/ \E i \in Intents, committed \in BOOLEAN, seq \in {NoSeq} \cup LogPositions :
        RecordCommit(i, committed, seq)
  \/ \E i \in Intents, released \in BOOLEAN,
        scope \in {"none", "readset", "global"}, v \in Versions :
        ReportRelease(i, released, scope, v)
  \/ \E i \in Intents, status \in Effects : ReportEffect(i, status)
  \/ \E i \in Intents : SupervisoryRevoke(i)
  \/ \E i \in Intents : LifecycleRevoke(i)
  \/ RuntimeRestart

RuntimeSpec == RuntimeInit /\ [][RuntimeNext]_runtimeVars
-----------------------------------------------------------------------------
(* Properties *)

RuntimeTypeOK ==
  /\ records \in [Intents -> Record]
  /\ seen \in Seq(Intents)
  /\ activeTargets \subseteq Targets
  /\ contextVersion \in Versions
  /\ stopClass \in StopPolicies

\* the items of one record agree
Consistent(r) ==
  /\ r.state \notin {"PENDING", "VALIDATING"}
  /\ r.state \in {"AUTHORIZED", "COMMITTED", "WITHHELD"} \cup ReleasedStates
       => r.outcome = "EXECUTE"
  /\ r.state \in {"REVOKED", "EXPIRED"} => r.outcome = "REVOKE"
  /\ r.decision = "RELEASE"  <=> r.state \in ReleasedStates
  /\ r.decision = "WITHHOLD" <=> r.state = "WITHHELD"
  /\ r.effect # "NONE" <=> r.state \in ReleasedStates \ {"RELEASED"}
  /\ r.commitSeq # NoSeq
       => r.state \in {"COMMITTED", "WITHHELD"} \cup ReleasedStates

\* The four items a record keeps apart (policy outcome at t_v, lifecycle state,
\* release decision, effect status) never contradict each other, whatever
\* order commits, release reports, effect reports, revokes and revalidations
\* arrive in: an intent is committed, withheld or released only after an
\* EXECUTE outcome, carries RELEASE exactly in the released states and
\* WITHHOLD exactly in WITHHELD, has an effect status only once released, has
\* a log position only once committed, and no pass leaves it in mid-validation.
ReportsMatchState == \A i \in Intents : Consistent(records[i])

\* A release decision, once recorded, is not overturned by a late or
\* conflicting report, a revoke or a revalidation: it lasts as long as the
\* record (which the retention window or a restart may drop, and a new
\* admission may replace).
DecisionFinal ==
  [][\A i \in Intents :
       \/ records[i].decision = "NONE"
       \/ records'[i].decision = records[i].decision
       \/ records'[i] \in {Absent, Created(i)}]_runtimeVars
=============================================================================
