------------------------------- MODULE Gateway -------------------------------
(***************************************************************************)
(* The actuator gateway (scripts/actuator_gateway.py over scripts/         *)
(* xair_http_client.py), composed with XAIR (XairRuntime, AtomicStore) and *)
(* with the cell controller it commands and that feeds the context         *)
(* (CellController).                                                       *)
(*                                                                         *)
(* Threads of the gateway serve requests in one of the adapter modes.  A   *)
(* request to XAIR is served in as few steps as its effects allow; the     *)
(* interleavings inside XAIR's handlers are XairServer's subject.  A call  *)
(* of XAIR or of the cell may fail before or after it took effect, XAIR    *)
(* and the controller may restart, an operator may revoke; "faults" bounds *)
(* how many of these happen in one behaviour.                              *)
(***************************************************************************)
EXTENDS XairRuntime, AtomicStore, CellController

CONSTANTS
  Sites,           \* installations: a controller, with or without a policy
                   \* engine, the queries of the requests it gets, a bound on
                   \* their number, and the paths that producers other than
                   \* the bridge write there
  Admissible,      \* per intent: the paths its predicates read, and the values
                   \* that satisfy them
  AgeBound,        \* freshness window, which also bounds the release
  MaxNow,          \* bound on the clock
  MaxFaults        \* bound on faults, restarts and revokes

LineState == "line.state"
LineVersion == "line.version"
OtherPaths == Paths \ {LineState, LineVersion}

XairModes == {"xair", "xair_atomic"}
Modes == {"direct", "naive", "local", "local_stale", "local_authoritative", "opa",
          "opa_readset"} \cup XairModes
VersionedModes == {"local_authoritative", "opa_readset", "xair_atomic"}
Actuators == {"ros"} \cup Guards
Scopes == {"readset", "global", "predicate"}

\* the query string of a request: ?mode=, ?actuator=, ?version_scope=,
\* ?release_guard= and ?inject_pause_after_validation_ms=, each with its
\* default where the mode ignores it; and whether the body is a whole intent
Query ==
  {q \in [mode: Modes, act: Actuators, scope: Scopes, guard: BOOLEAN, inject: BOOLEAN,
          complete: BOOLEAN] :
     /\ q.mode \notin XairModes => q.act = "ros" /\ ~q.inject
     /\ q.mode \notin {"xair", "local_authoritative"} => q.scope = "readset"
     /\ q.mode # "xair_atomic" => ~q.guard}

ASSUME GatewayAssumption ==
  /\ Intents # {} /\ Intents \subseteq Commanded
  /\ {LineState, LineVersion} \subseteq Paths /\ WrittenValues \subseteq Int
  /\ \A i \in Intents : DOMAIN Admissible[i] \subseteq Paths
  /\ \A x \in Sites :
       /\ x.cell \in Deployments /\ x.engine \in BOOLEAN
       /\ x.posted \subseteq OtherPaths /\ x.requests \in Nat
       /\ x.queries \subseteq Query
       /\ \A q \in x.queries : q.mode \in {"opa", "opa_readset"} => x.engine
  /\ Degradable = {}
  /\ {AgeBound, MaxNow, MaxFaults} \subseteq Nat /\ MaxVersion > 0

VARIABLES
  site,            \* the installation
  gw,              \* the request each thread serves
  injecting,       \* the threads whose request has an injection under way
  cache,           \* _context_cache, the adapter's own copy of the context
  opa,             \* the document XAIR last wrote into the policy engine
  opaLock,         \* an update is stored and not yet replicated (_opa_lock)
  requests,        \* requests of intents so far
  crossings,       \* XAIR-mode releases per intent (history)
  changes,         \* <<path, version>> of every value change (history)
  faults           \* faults so far

gatewayVars == <<site, gw, injecting, cache, opa, opaLock, requests, crossings, changes, faults>>
vars == <<runtimeVars, storeVars, now, cellVars, gatewayVars>>

Threads == Callers

AnyIntent == CHOOSE i \in Intents : TRUE

\* A request.  "seen" is the global version its validation read, "gate" the
\* one its last check read; "expected" is the version the recheck compares,
\* "ctx" the context a check goes by.  A thread that reports carries the
\* release decision in "released" and the effect status in "effect".
Idle ==
  [pc |-> "idle", id |-> AnyIntent, mode |-> "direct", act |-> "ros",
   scope |-> "readset", guard |-> FALSE, inject |-> FALSE, seen |-> 0, gate |-> 0, expected |-> 0,
   reads |-> 0, trusted |-> TRUE, ctx |-> [p \in Paths |-> Missing], witness |-> NoVersion,
   released |-> FALSE, effect |-> "NONE"]

Init ==
  /\ RuntimeInit
  /\ context = [p \in Paths |-> IF p \in OtherPaths THEN 1 ELSE Missing]
  /\ version = IF OtherPaths = {} THEN 0 ELSE 1
  /\ pathVersions = [p \in Paths |-> IF p \in OtherPaths THEN 1 ELSE 0]
  /\ actuations = <<>> /\ committed = {} /\ claims = {} /\ up = TRUE
  /\ CellInit
  /\ site \in {x \in Sites : x.cell = deployment}
  /\ gw = [t \in Threads |-> Idle]
  /\ injecting = {}
  /\ cache = context
  /\ opa = Snapshot
  /\ opaLock = FALSE
  /\ requests = 0
  /\ crossings = [i \in Intents |-> 0]
  /\ changes = {}
  /\ faults = 0

-----------------------------------------------------------------------------
(* Steps of a request *)

At(t, pc) == gw[t].pc = pc
Goto(t, pc) == gw' = [gw EXCEPT ![t].pc = pc]
End(t) == gw' = [gw EXCEPT ![t] = Idle]
Fault == faults < MaxFaults /\ faults' = faults + 1

CanUpdate == version < MaxVersion
CanAppend == Len(actuations) < MaxLog

\* the intent's predicates on a context, and its age; freshness at t_v and the
\* release bound coincide without a deadline
Satisfied(i, ctx) == \A p \in DOMAIN Admissible[i] : ctx[p] \in Admissible[i][p]
InTime == now <= AgeBound
Validates(i, ctx) == InTime /\ Satisfied(i, ctx)
ReadsOf(i, pv) == ReadSetVersion(pv, DOMAIN Admissible[i])

\* _gate_version
GateVersion(scope, ver, reads) == IF scope = "global" THEN ver ELSE reads

\* _release: the command is published on the ROS topics, without feedback.
\* The XAIR modes count it.
Publish(t) ==
  crossings' = IF gw[t].mode \in XairModes
               THEN [crossings EXCEPT ![gw[t].id] = @ + 1] ELSE crossings

\* what a request that is served by the store alone leaves as it is
Local == UNCHANGED <<site, injecting, runtimeVars, storeVars, now, cellVars, opa, opaLock, requests, changes>>

-----------------------------------------------------------------------------
(* POST /intent: process_intent_payload *)

FirstStep(mode) ==
  CASE mode \in {"direct", "naive"}     -> mode
    [] mode = "local"                   -> "refresh"
    [] mode = "local_stale"             -> "local"
    [] mode = "local_authoritative"     -> "read"
    [] mode \in {"opa", "opa_readset"}  -> "opa_validate"
    [] OTHER                            -> "submit"

\* _reject_incomplete_ais: every mode but direct refuses a body with a field
\* missing before it looks at anything else
Rejected(q) == ~q.complete /\ q.mode # "direct"

\* local_push is local when the notification came and local_stale when not
Request(t, i, q) ==
  /\ At(t, "idle") /\ t \notin injecting
  /\ requests < site.requests
  /\ requests' = requests + 1
  /\ gw' = IF Rejected(q) THEN gw
           ELSE [gw EXCEPT ![t] = [Idle EXCEPT !.pc = FirstStep(q.mode), !.id = i,
                                               !.mode = q.mode, !.act = q.act,
                                               !.scope = q.scope, !.guard = q.guard,
                                               !.inject = q.inject]]
  /\ UNCHANGED <<site, injecting, runtimeVars, storeVars, now, cellVars, cache, opa, opaLock, crossings,
                 changes, faults>>

\* direct and naive: no check, or the age alone
Unchecked(t) ==
  /\ gw[t].pc \in {"direct", "naive"}
  /\ IF At(t, "direct") \/ InTime THEN Publish(t) ELSE UNCHANGED crossings
  /\ End(t)
  /\ Local /\ UNCHANGED <<cache, faults>>

\* _local_policy: refresh the cache from XAIR, unless XAIR fails ...
Refresh(t) ==
  /\ At(t, "refresh")
  /\ \/ /\ cache' = [p \in Paths |-> IF context[p] # Missing THEN context[p] ELSE cache[p]]
        /\ Goto(t, "local")
        /\ UNCHANGED faults
     \/ Fault /\ End(t) /\ UNCHANGED cache
  /\ Local /\ UNCHANGED crossings

\* ... and validate on what the cache holds by now
LocalPolicy(t) ==
  /\ At(t, "local")
  /\ IF Validates(gw[t].id, cache) THEN Publish(t) ELSE UNCHANGED crossings
  /\ End(t)
  /\ Local /\ UNCHANGED <<cache, faults>>

\* _local_authoritative: read and validate at t_v ...
AuthoritativeRead(t) ==
  /\ At(t, "read")
  /\ \/ /\ Validates(gw[t].id, context)
        /\ gw' = [gw EXCEPT ![t].pc = "reread", ![t].seen = version,
                            ![t].expected = GateVersion(gw[t].scope, version,
                                                        ReadsOf(gw[t].id, pathVersions))]
        /\ UNCHANGED faults
     \/ ~Validates(gw[t].id, context) /\ End(t) /\ UNCHANGED faults
     \/ Fault /\ End(t)
  /\ Local /\ UNCHANGED <<cache, crossings>>

\* ... and again at t_g, with the same version
AuthoritativeReread(t) ==
  LET same == gw[t].expected = GateVersion(gw[t].scope, version, ReadsOf(gw[t].id, pathVersions))
      ok == same /\ Validates(gw[t].id, context)
  IN /\ At(t, "reread")
     /\ \/ ok /\ gw' = [gw EXCEPT ![t].pc = "publish", ![t].gate = version] /\ UNCHANGED faults
        \/ ~ok /\ End(t) /\ UNCHANGED faults
        \/ Fault /\ End(t)
     /\ Local /\ UNCHANGED <<cache, crossings>>

\* _opa_policy: the engine decides on its copy at arrival ...
OpaValidate(t) ==
  LET allow == InTime /\ Satisfied(gw[t].id, opa.context)
  IN /\ At(t, "opa_validate")
     /\ \/ /\ allow
           /\ gw' = [gw EXCEPT ![t].pc = "opa_gate", ![t].seen = opa.version,
                               ![t].expected = ReadsOf(gw[t].id, opa.pathVersions)]
           /\ UNCHANGED faults
        \/ ~allow /\ End(t) /\ UNCHANGED faults
        \/ Fault /\ End(t)
     /\ Local /\ UNCHANGED <<cache, crossings>>

\* ... and before the release, in opa_readset with the version it gave then
OpaGate(t) ==
  LET allow == /\ InTime
               /\ Satisfied(gw[t].id, opa.context)
               /\ gw[t].mode = "opa_readset" => gw[t].expected = ReadsOf(gw[t].id, opa.pathVersions)
  IN /\ At(t, "opa_gate")
     /\ \/ allow /\ gw' = [gw EXCEPT ![t].pc = "publish", ![t].gate = opa.version] /\ UNCHANGED faults
        \/ ~allow /\ End(t) /\ UNCHANGED faults
        \/ Fault /\ End(t)
     /\ Local /\ UNCHANGED <<cache, crossings>>

\* the release of a gateway-local mode: no record to report to
PublishLocal(t) ==
  /\ At(t, "publish")
  /\ Publish(t)
  /\ End(t)
  /\ Local /\ UNCHANGED <<cache, faults>>

-----------------------------------------------------------------------------
(* _xair_policy: submission *)

\* what a step in XAIR leaves as it is
Served == UNCHANGED <<site, now, cellVars, cache, opa, opaLock, requests, changes>>

\* POST /v1/intents: admit; a duplicate is never released
SubmitAdmit(t) ==
  LET i == gw[t].id IN
  /\ At(t, "submit")
  /\ \/ /\ Admit(i, 0)
        /\ IF IsDuplicate(i, 0) THEN End(t)
           ELSE Goto(t, IF i \in stopClass THEN "validate" ELSE "claim")
        /\ UNCHANGED faults
     \/ Fault /\ End(t) /\ UNCHANGED runtimeVars
  /\ Served /\ UNCHANGED <<injecting, storeVars, crossings>>

\* ... claim the id in the store, which survives a restart of XAIR
SubmitClaim(t) ==
  LET i == gw[t].id IN
  /\ At(t, "claim")
  /\ IF i \in claims
     THEN LifecycleRevoke(i) /\ End(t) /\ UNCHANGED storeVars
     ELSE Claim(i) /\ Goto(t, "validate") /\ UNCHANGED runtimeVars
  /\ Served /\ UNCHANGED <<injecting, crossings, faults>>

\* what the validation finds on the current context
Found(i) ==
  [version |-> version, readSetVersion |-> ReadsOf(i, pathVersions),
   temporal |-> IF InTime THEN "ok" ELSE "obsolete",
   contextOk |-> Satisfied(i, context)]

\* ... and starts the injection the request asks for, as a thread of its own
Injects(t) == injecting' = IF gw[t].inject THEN injecting \cup {t} ELSE injecting

AfterValidation(t) ==
  IF gw[t].id \in stopClass THEN "cross"
  ELSE IF gw[t].mode = "xair_atomic" THEN "commit" ELSE "gate_read"

\* ... and validate; only EXECUTE goes on.  The reply carries the versions of
\* the validation and the values it read, and starts the injection the request
\* asks for.  A stop goes straight to the middleware.
SubmitValidate(t) ==
  LET i == gw[t].id IN
  /\ At(t, "validate")
  /\ ProcessIntent(i, Found(i))
  /\ \/ /\ records'[i].outcome = "EXECUTE"
        /\ gw' = [gw EXCEPT ![t].pc = AfterValidation(t),
                            ![t].act = IF i \in stopClass THEN "ros" ELSE @,
                            ![t].seen = version,
                            ![t].expected = GateVersion(gw[t].scope, records'[i].contextVersion,
                                                        records'[i].readSetVersion),
                            ![t].witness = IF LineVersion \in DOMAIN Admissible[i]
                                           THEN context[LineVersion] ELSE NoVersion]
        /\ Injects(t) /\ UNCHANGED faults
     \/ records'[i].outcome # "EXECUTE" /\ End(t) /\ Injects(t) /\ UNCHANGED faults
     \/ Fault /\ End(t) /\ UNCHANGED injecting             \* the reply is lost
  /\ Served /\ UNCHANGED <<storeVars, crossings>>

-----------------------------------------------------------------------------
(* _xair_policy: the optimistic gate at t_g *)

\* GET /v1/context/snapshot reads the snapshot ...
GateRead(t) ==
  /\ At(t, "gate_read")
  /\ \/ /\ gw' = [gw EXCEPT ![t].pc = "gate", ![t].ctx = context, ![t].gate = version,
                            ![t].reads = ReadsOf(gw[t].id, pathVersions)]
        /\ UNCHANGED faults
     \/ Fault /\ gw' = [gw EXCEPT ![t].pc = "gate", ![t].trusted = FALSE]
  /\ Local /\ UNCHANGED <<cache, crossings>>

\* mutant of Passes: the predicates are believed to hold still
PassesUnchecked(g) == g.trusted /\ records[g.id].state = "AUTHORIZED"

\* the checks of the gate, in its order
Passes(g) ==
  /\ g.trusted
  /\ records[g.id].state = "AUTHORIZED"
  /\ g.scope # "predicate" => g.expected = GateVersion(g.scope, g.gate, g.reads)
  /\ Validates(g.id, g.ctx)

\* ... and then the intent's state; the witness of a conditional command is
\* the controller version in the snapshot the gate went by
GateCheck(t) ==
  /\ At(t, "gate")
  /\ gw' = [gw EXCEPT ![t].pc = IF Passes(gw[t]) THEN "cross" ELSE "report",
                      ![t].witness = IF gw[t].ctx[LineVersion] # Missing
                                     THEN gw[t].ctx[LineVersion] ELSE @,
                      ![t].expected = GateVersion(gw[t].scope, gw[t].gate, gw[t].reads),
                      ![t].ctx = Idle.ctx, ![t].reads = 0]
  /\ Local /\ UNCHANGED <<cache, crossings, faults>>

-----------------------------------------------------------------------------
(* _xair_policy: the atomic commit at t_c *)

\* POST .../commit: refused with 409 unless AUTHORIZED.  A call that raises
\* ends the request without a report, whether or not it took effect.
CommitCall(t) ==
  LET i == gw[t].id
      status == CommitStatus(i, DOMAIN Admissible[i], records[i].readSetVersion, now, AgeBound, 0)
      Serves == /\ records[i].state = "AUTHORIZED"
                /\ status = "committed" => CanAppend
                /\ Commit(i, status)
                /\ RecordCommit(i, status \in {"committed", "duplicate"},
                                IF status = "committed" THEN Len(actuations) + 1 ELSE NoSeq)
  IN /\ At(t, "commit")
     /\ \/ /\ Serves
           /\ IF status \in {"committed", "duplicate"}
              THEN gw' = [gw EXCEPT ![t].pc = IF gw[t].guard THEN "guard" ELSE "cross",
                                    ![t].gate = version]
              ELSE End(t)
           /\ UNCHANGED faults
        \/ records[i].state # "AUTHORIZED" /\ End(t) /\ UNCHANGED <<runtimeVars, storeVars, faults>>
        \/ Fault /\ End(t) /\ UNCHANGED <<runtimeVars, storeVars>>
        \/ Fault /\ End(t) /\ Serves
     /\ Served /\ UNCHANGED <<injecting, crossings>>

\* mutant of ReleaseGuard: the late command is withheld and sent all the same
ReleaseGuardLeaks(t) ==
  LET i == gw[t].id IN
  /\ At(t, "guard")
  /\ \/ InTime /\ UNCHANGED <<runtimeVars, storeVars, faults>>
     \/ /\ ~InTime /\ records[i].state = "COMMITTED" /\ CanAppend
        /\ AppendActuation(i, "withheld")
        /\ ReportRelease(i, FALSE, "none", 0)
        /\ UNCHANGED faults
  /\ Goto(t, "cross")
  /\ Served /\ UNCHANGED <<injecting, crossings>>

\* ?release_guard=1: a late command is withheld, with a tombstone if XAIR
\* still has the record and the call arrives
ReleaseGuard(t) ==
  LET i == gw[t].id IN
  /\ At(t, "guard")
  /\ \/ InTime /\ Goto(t, "cross") /\ UNCHANGED <<runtimeVars, storeVars, faults>>
     \/ /\ ~InTime /\ records[i].state = "COMMITTED" /\ CanAppend
        /\ AppendActuation(i, "withheld")
        /\ ReportRelease(i, FALSE, "none", 0)
        /\ End(t)
        /\ UNCHANGED faults
     \/ /\ ~InTime /\ records[i].state # "COMMITTED"
        /\ End(t) /\ UNCHANGED <<runtimeVars, storeVars, faults>>
     \/ ~InTime /\ Fault /\ End(t) /\ UNCHANGED <<runtimeVars, storeVars>>
  /\ Served /\ UNCHANGED <<injecting, crossings>>

-----------------------------------------------------------------------------
(* _xair_policy: the middleware call at t_m and its report *)

\* what the request reports when the call of the controller raises: the atomic
\* branch an attempted release of unknown effect, the optimistic one a block
Raised(t) == [gw EXCEPT ![t].pc = "report", ![t].released = (gw[t].mode = "xair_atomic"),
                        ![t].effect = IF gw[t].mode = "xair_atomic" THEN "unknown" ELSE "NONE"]

\* _release or _actuate_cell, with the deadline t_d + bound
Cross(t) ==
  LET i == gw[t].id IN
  /\ At(t, "cross")
  /\ \/ /\ gw[t].act = "ros"
        /\ gw' = [gw EXCEPT ![t].pc = "report", ![t].released = TRUE, ![t].effect = "unknown"]
        /\ Publish(t)
        /\ UNCHANGED <<commandVars, faults>>
     \/ /\ gw[t].act # "ros"
        /\ \A u \in Threads : ~At(u, "await")                \* _cell_lock
        /\ Enqueue(t, i, gw[t].act, gw[t].witness, AgeBound)
        /\ Goto(t, "await")
        /\ Publish(t)
        /\ UNCHANGED faults
     \/ /\ gw[t].act # "ros" /\ Fault                     \* no connection
        /\ gw' = Raised(t)
        /\ UNCHANGED <<commandVars, crossings>>
  /\ UNCHANGED <<site, injecting, runtimeVars, storeVars, now, controllerVars, bridgeVars, cache, opa, opaLock,
                 requests, changes>>

\* mutant of Await: a refused command is reported as an unknown effect that ran
AwaitOptimist(t) ==
  /\ At(t, "await")
  /\ \/ /\ answer[t] \in {"executed", "refused"}
        /\ gw' = [gw EXCEPT ![t].pc = "report", ![t].released = TRUE, ![t].effect = "confirmed"]
        /\ UNCHANGED faults
     \/ answer[t] = "error" /\ gw' = Raised(t) /\ UNCHANGED faults
     \/ Fault /\ gw' = Raised(t)
  /\ Abandon(t)
  /\ UNCHANGED <<site, injecting, runtimeVars, storeVars, now, controllerVars, bridgeVars, cache, opa, opaLock,
                 requests, crossings, changes>>

\* mutant of Await: a call that is given up is made again
AwaitRetries(t) ==
  /\ At(t, "await")
  /\ \/ /\ answer[t] \in {"executed", "refused"}
        /\ gw' = [gw EXCEPT ![t].pc = "report", ![t].released = TRUE,
                            ![t].effect = IF answer[t] = "executed" THEN "confirmed" ELSE "failed"]
        /\ UNCHANGED faults
     \/ answer[t] = "error" /\ gw' = Raised(t) /\ UNCHANGED faults
     \/ Fault /\ Goto(t, "cross")
  /\ Abandon(t)
  /\ UNCHANGED <<site, injecting, runtimeVars, storeVars, now, controllerVars, bridgeVars, cache,
                 opa, opaLock, requests, crossings, changes>>

\* the controller's answer, an error, or a call that is given up
Await(t) ==
  /\ At(t, "await")
  /\ \/ /\ answer[t] \in {"executed", "refused"}
        /\ gw' = [gw EXCEPT ![t].pc = "report", ![t].released = TRUE,
                            ![t].effect = IF answer[t] = "executed" THEN "confirmed" ELSE "failed"]
        /\ UNCHANGED faults
     \/ answer[t] = "error" /\ gw' = Raised(t) /\ UNCHANGED faults
     \/ Fault /\ gw' = Raised(t)
  /\ Abandon(t)
  /\ UNCHANGED <<site, injecting, runtimeVars, storeVars, now, controllerVars, bridgeVars, cache, opa, opaLock,
                 requests, crossings, changes>>

\* POST .../release, from the optimistic branch with the version the gate saw;
\* a report that fails is not retried
Report(t) ==
  LET i == gw[t].id
      scope == IF gw[t].mode = "xair" /\ i \notin stopClass /\ gw[t].scope # "predicate"
               THEN gw[t].scope ELSE "none"
  IN /\ At(t, "report")
     /\ \/ /\ ReportRelease(i, gw[t].released, scope, gw[t].expected)
           /\ IF records'[i].state = "RELEASED" /\ gw[t].effect # "NONE"
              THEN Goto(t, "effect") ELSE End(t)
           /\ UNCHANGED faults
        \/ Fault /\ End(t) /\ UNCHANGED runtimeVars
     /\ Served /\ UNCHANGED <<injecting, storeVars, crossings>>

\* ... and the effect status the same report carries
ReportedEffect(t) ==
  /\ At(t, "effect")
  /\ ReportEffect(gw[t].id, gw[t].effect)
  /\ End(t)
  /\ Served /\ UNCHANGED <<injecting, storeVars, crossings, faults>>

-----------------------------------------------------------------------------
(* Context updates *)

\* update_context_store_timed: with a policy engine, an update and its
\* replication hold _opa_lock
StorePatch(patch) ==
  /\ ~opaLock
  /\ CanUpdate
  /\ Apply(patch)
  /\ opaLock' = site.engine
  /\ changes' = changes \cup {<<p, version'>> : p \in {q \in Paths : context'[q] # context[q]}}

\* POST /context: the adapter's cache first ...
ContextPost(t, p, v) ==
  /\ At(t, "idle") /\ t \notin injecting
  /\ CanUpdate
  /\ cache' = [cache EXCEPT ![p] = v]
  /\ gw' = [gw EXCEPT ![t] = [Idle EXCEPT !.pc = "forward", !.ctx[p] = v]]
  /\ Local /\ UNCHANGED <<crossings, faults>>

\* ... then XAIR, which may not get it
ContextForward(t) ==
  /\ At(t, "forward")
  /\ \/ /\ LET set == {p \in Paths : gw[t].ctx[p] # Missing}
           IN StorePatch([p \in set |-> gw[t].ctx[p]])
        /\ UNCHANGED faults
     \/ /\ Fault \/ (~CanUpdate /\ UNCHANGED faults)
        /\ UNCHANGED <<storeVars, opaLock, changes>>
  /\ End(t)
  /\ UNCHANGED <<site, injecting, runtimeVars, now, cellVars, cache, opa, requests, crossings>>

\* the injected pause reaches XAIR any time after the validation, or never
Inject(t) ==
  /\ t \in injecting
  /\ injecting' = injecting \ {t}
  /\ \/ StorePatch([p \in {LineState} |-> PAUSED]) /\ UNCHANGED faults
     \/ /\ Fault \/ (~CanUpdate /\ UNCHANGED faults)
        /\ UNCHANGED <<storeVars, opaLock, changes>>
  /\ UNCHANGED <<site, runtimeVars, now, cellVars, gw, cache, opa, requests, crossings>>

\* XAIR serves a POST of the bridge: state and version in one patch
BridgeServed ==
  \E m \in late \cup {posting} :
    /\ Serve(m)
    /\ StorePatch([p \in {LineState, LineVersion} |->
                     IF p = LineState THEN m.line ELSE m.version])
    /\ UNCHANGED <<site, runtimeVars, gw, injecting, cache, opa, requests, crossings, faults>>

\* _replicate_to_opa; a failure is counted and not retried
Replicate ==
  /\ opaLock
  /\ opaLock' = FALSE
  /\ \/ opa' = Snapshot /\ UNCHANGED faults
     \/ Fault /\ UNCHANGED opa
  /\ UNCHANGED <<site, runtimeVars, storeVars, now, cellVars, gw, injecting, cache, requests, crossings, changes>>

-----------------------------------------------------------------------------
(* Environment *)

Tick ==
  /\ now < MaxNow
  /\ now' = now + 1
  /\ UNCHANGED <<runtimeVars, storeVars, cellVars, gatewayVars>>

\* DELETE /v1/intents/{id}
Revoke(i) ==
  /\ Fault
  /\ records[i].state # "ABSENT"
  /\ SupervisoryRevoke(i)
  /\ Served /\ UNCHANGED <<storeVars, gw, injecting, crossings>>

\* XAIR restarts: its records are lost and the calls it serves raise
XairRestart ==
  /\ Fault
  /\ RuntimeRestart
  /\ gw' = [t \in Threads |-> IF gw[t].pc \in {"claim", "validate", "effect"} THEN Idle ELSE gw[t]]
  /\ opaLock' = FALSE
  /\ UNCHANGED <<site, injecting, storeVars, now, cellVars, cache, opa, requests, crossings, changes>>

\* steps of the controller and of its bridge
CellStep ==
  /\ CellTasks
  /\ UNCHANGED <<runtimeVars, storeVars, gatewayVars>>

CellFault ==
  /\ Fault
  /\ CellRestart \/ BridgeRaise
  /\ UNCHANGED <<site, runtimeVars, storeVars, gw, injecting, cache, opa, opaLock, requests, crossings, changes>>

-----------------------------------------------------------------------------
ThreadStep(t) ==
  \/ Unchecked(t) \/ Refresh(t) \/ LocalPolicy(t)
  \/ AuthoritativeRead(t) \/ AuthoritativeReread(t)
  \/ OpaValidate(t) \/ OpaGate(t) \/ PublishLocal(t)
  \/ SubmitAdmit(t) \/ SubmitClaim(t) \/ SubmitValidate(t)
  \/ GateRead(t) \/ GateCheck(t) \/ CommitCall(t) \/ ReleaseGuard(t)
  \/ Cross(t) \/ Await(t) \/ Report(t) \/ ReportedEffect(t)
  \/ ContextForward(t) \/ Inject(t)

Next ==
  \/ \E t \in Threads : ThreadStep(t)
  \/ \E t \in Threads, i \in Intents, q \in site.queries : Request(t, i, q)
  \/ \E t \in Threads, p \in site.posted, v \in WrittenValues : ContextPost(t, p, v)
  \/ BridgeServed
  \/ Replicate
  \/ CellStep
  \/ CellFault
  \/ Tick
  \/ \E i \in Intents : Revoke(i)
  \/ XairRestart

Spec == Init /\ [][Next]_vars
-----------------------------------------------------------------------------
(* Properties *)

Steps == {"idle", "direct", "naive", "refresh", "local", "read", "reread", "opa_validate",
          "opa_gate", "publish", "submit", "claim", "validate", "gate_read", "gate",
          "commit", "guard", "cross", "await", "report", "effect", "forward"}

GatewayTypeOK ==
  /\ RuntimeTypeOK
  /\ CellTypeOK
  /\ gw \in [Threads ->
       [pc: Steps, id: Intents, mode: Modes, act: Actuators,
        scope: Scopes, guard: BOOLEAN, inject: BOOLEAN, seen: Versions, gate: Versions,
        expected: Versions, reads: Versions, trusted: BOOLEAN, ctx: [Paths -> Int],
        witness: Int, released: BOOLEAN, effect: Effects \cup {"NONE"}]]
  /\ version \in Versions /\ context \in [Paths -> Int] /\ pathVersions \in [Paths -> Versions]
  /\ injecting \subseteq Threads /\ cache \in [Paths -> Int]
  /\ crossings \in [Intents -> Nat]
  /\ faults \in 0..MaxFaults

\* a thread that is about to release under a check that compares versions
Versioned(t) ==
  \/ At(t, "publish") /\ gw[t].mode \in VersionedModes
  \/ At(t, "cross") /\ gw[t].id \notin stopClass
       /\ (gw[t].mode = "xair_atomic" \/ gw[t].scope # "predicate")

\* Between the validation and the last check of a release that compares
\* versions (the gate's recheck, the commit, the second read of
\* local_authoritative, or the policy engine's on its own copy) no value the
\* intent's predicates read has changed in the store, not even to change back,
\* whatever updates, lost replications, late posts and restarts came between.
GateSound ==
  \A t \in Threads : Versioned(t) =>
    \A p \in DOMAIN Admissible[gw[t].id] : \A v \in (gw[t].seen + 1)..gw[t].gate :
      <<p, v>> \notin changes

\* Through the XAIR modes an intent that is not a stop crosses into the
\* middleware at most once, however often its request is repeated, whichever
\* replies are lost, and also when XAIR forgets it in a restart.
ReleasedOnce == \A i \in Intents \ stopClass : crossings[i] <= 1

Executed(i) == \E e \in effects : e.id = i

\* What XAIR records of an effect is what the controller did: a confirmed
\* intent was executed, and one recorded as FAILED has not been and will not be.
EffectsMatch ==
  \A i \in Intents :
    /\ records[i].effect = "confirmed" => Executed(i)
    /\ records[i].effect = "failed" =>
         ~Executed(i) /\ \A n \in DOMAIN pending : pending[n].id # i

\* A version-conditional or interlocked command never takes effect on a paused
\* line or after the deadline, although the gateway's view of the line is a
\* replica that lags, skips states, and may be overtaken by older posts.
ConditionalFresh ==
  \A e \in effects : e.guard # "plain" => e.line = RUN /\ e.at <= AgeBound

\* In the atomic mode nothing crosses without an authorization in the log,
\* and nothing that the release guard withheld with a tombstone.
AtomicAuthorized ==
  \A t \in Threads : At(t, "cross") /\ gw[t].mode = "xair_atomic" /\ gw[t].id \notin stopClass =>
    /\ \E n \in DOMAIN actuations : actuations[n] = [id |-> gw[t].id, kind |-> "auth"]
    /\ \A n \in DOMAIN actuations : actuations[n] # [id |-> gw[t].id, kind |-> "withheld"]
=============================================================================
