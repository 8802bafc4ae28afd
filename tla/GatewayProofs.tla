---------------------------- MODULE GatewayProofs ----------------------------
(***************************************************************************)
(* Proofs about Gateway, for any number of threads, intents, requests,     *)
(* installations, updates and faults, with XAIR and the controller         *)
(* restarting.                                                             *)
(***************************************************************************)
EXTENDS Gateway, XairRuntimeProofs

-----------------------------------------------------------------------------
(* Versions of read sets *)

\* What read_set_version returns: 0 or the version of a path that was read,
\* and none of these is later.
LEMMA ReadSetVersionFacts ==
  ASSUME NEW pv \in [Paths -> Versions], NEW R \in SUBSET Paths
  PROVE  /\ ReadSetVersion(pv, R) \in Versions
         /\ \A p \in R : pv[p] <= ReadSetVersion(pv, R)
         /\ ReadSetVersion(pv, R) = 0 \/ \E p \in R : ReadSetVersion(pv, R) = pv[p]
<1> DEFINE S == {0} \cup {pv[p] : p \in R}
<1>1. S \in SUBSET (0..MaxVersion) /\ S # {} /\ MaxVersion \in Nat
  BY RuntimeAssumption DEF Versions
<1>2. \E m \in S : \A x \in S : m >= x
  BY <1>1, BoundedMax
<1>3. Max(S) \in S /\ \A x \in S : Max(S) >= x
  BY <1>2 DEF Max
<1>4. ReadSetVersion(pv, R) = Max(S)
  BY DEF ReadSetVersion
<1> HIDE DEF S
<1>5. \A p \in R : pv[p] \in S
  BY DEF S
<1>6. \A x \in S : x \in Int
  BY <1>1
<1> QED BY <1>1, <1>3, <1>4, <1>5, <1>6 DEF S, Versions

-----------------------------------------------------------------------------
(* Types *)

Req ==
  [pc: Steps, id: Intents, mode: Modes, act: Actuators,
   scope: Scopes, guard: BOOLEAN, inject: BOOLEAN, seen: Versions, gate: Versions,
   expected: Versions, reads: Versions, trusted: BOOLEAN, ctx: [Paths -> Int],
   witness: Int, released: BOOLEAN, effect: Effects \cup {"NONE"}]

Documents == [version: Versions, context: [Paths -> Int], pathVersions: [Paths -> Versions]]

Logged == [id: Intents, kind: {"auth", "withheld"}]

\* a version of the controller, or none, in the context or a copy of it
LineVersions == Nat \cup {Missing}

\* The types, with what the effect step of a report, the forward of an update
\* and the witness of a command rely on.
GatewayTypes ==
  /\ GatewayTypeOK
  /\ actuations \in Seq(Logged)
  /\ site \in Sites
  /\ opa \in Documents
  /\ context[LineVersion] \in LineVersions
  /\ \A t \in Threads :
       /\ At(t, "effect") => gw[t].effect # "NONE"
       /\ At(t, "forward") => gw[t].ctx[LineState] = Missing /\ gw[t].ctx[LineVersion] = Missing
       /\ gw[t].ctx[LineVersion] \in LineVersions /\ gw[t].witness \in LineVersions

-----------------------------------------------------------------------------
(* The cell controller *)

\* The pair the controller holds is the newest of those it held, and no older
\* pair has its version; a state file holds the current version.
HeldInv ==
  /\ Pair \in held
  /\ \A x \in held : /\ x.version <= cellVersion
                     /\ x.version = cellVersion => x.line = line
  /\ VersionNamesState
  /\ deployment.stateFile => persisted = cellVersion /\ deployment.versions = "line"

heldVars == <<deployment, line, cellVersion, persisted, held>>

\* A step of the controller: a state change, a change of a fast variable, a
\* restart, or none of these.
ControllerMoves ==
  \/ \E value \in LineStates : SetState(value)
  \/ FastChange
  \/ CellRestart
  \/ UNCHANGED heldVars

LEMMA ControllerSteps == [Next]_vars => ControllerMoves
<1> USE DEF ControllerMoves
<1>1. ASSUME NEW t \in Threads, ThreadStep(t) PROVE UNCHANGED heldVars
  <2> USE DEF cellVars, controllerVars, heldVars
  <2>1. CASE \/ Unchecked(t) \/ Refresh(t) \/ LocalPolicy(t)
             \/ AuthoritativeRead(t) \/ AuthoritativeReread(t)
             \/ OpaValidate(t) \/ OpaGate(t) \/ PublishLocal(t)
             \/ GateRead(t) \/ GateCheck(t)
    BY <2>1 DEF Unchecked, Refresh, LocalPolicy, AuthoritativeRead, AuthoritativeReread,
                OpaValidate, OpaGate, PublishLocal, GateRead, GateCheck, Local
  <2>2. CASE \/ SubmitAdmit(t) \/ SubmitClaim(t) \/ SubmitValidate(t)
             \/ CommitCall(t) \/ ReleaseGuard(t) \/ Report(t) \/ ReportedEffect(t)
    BY <2>2 DEF SubmitAdmit, SubmitClaim, SubmitValidate, CommitCall, ReleaseGuard, Report,
                ReportedEffect, Served
  <2>3. CASE Cross(t) \/ Await(t) \/ ContextForward(t) \/ Inject(t)
    BY <2>3 DEF Cross, Await, ContextForward, Inject
  <2> QED BY <1>1, <2>1, <2>2, <2>3 DEF ThreadStep
<1>2. ASSUME NEW t \in Threads, NEW i \in Intents, NEW q \in site.queries, Request(t, i, q)
      PROVE  UNCHANGED heldVars
  BY <1>2 DEF Request, cellVars, controllerVars, heldVars
<1>3. ASSUME NEW t \in Threads, NEW p \in site.posted, NEW v \in WrittenValues, ContextPost(t, p, v)
      PROVE  UNCHANGED heldVars
  BY <1>3 DEF ContextPost, Local, cellVars, controllerVars, heldVars
<1>4. ASSUME BridgeServed \/ Replicate PROVE UNCHANGED heldVars
  BY <1>4 DEF BridgeServed, Serve, Replicate, cellVars, controllerVars, heldVars
<1>5. ASSUME CellStep PROVE ControllerMoves
  <2>1. CASE Scan
    BY <2>1 DEF Scan, heldVars
  <2>2. CASE BridgeTake
    BY <2>2 DEF BridgeTake, controllerVars, heldVars
  <2> HIDE DEF ControllerMoves
  <2>3. CASE FastChange \/ \E value \in LineStates : SetState(value)
    BY <2>3 DEF ControllerMoves
  <2> QED BY <1>5, <2>1, <2>2, <2>3 DEF CellStep, CellTasks
<1>6. ASSUME CellFault PROVE ControllerMoves
  BY <1>6 DEF CellFault, BridgeRaise, controllerVars, heldVars
<1>7. ASSUME Tick \/ XairRestart \/ \E i \in Intents : Revoke(i)
      PROVE  UNCHANGED heldVars
  BY <1>7 DEF Tick, XairRestart, Revoke, Served, cellVars, controllerVars, heldVars
<1>8. UNCHANGED vars => UNCHANGED heldVars
  BY DEF vars, cellVars, controllerVars, heldVars
<1> QED BY <1>1, <1>2, <1>3, <1>4, <1>5, <1>6, <1>7, <1>8 DEF Next

\* What the controller's own state is made of.
CellShape ==
  /\ deployment \in Deployments
  /\ line \in LineStates
  /\ cellVersion \in Nat /\ persisted \in Nat
  /\ held \in SUBSET Pairs

\* The controller holds a version above every one it held before.
LEMMA HeldStep == CellShape /\ HeldInv /\ ControllerMoves => CellShape' /\ HeldInv'
<1> SUFFICES ASSUME CellShape, HeldInv, ControllerMoves PROVE CellShape' /\ HeldInv'
  OBVIOUS
<1>0. /\ deployment \in Deployment
      /\ RUN \in LineStates
      /\ Pair \in Pairs /\ Pair.line = line /\ Pair.version = cellVersion
  BY CellAssumption DEF CellShape, Pair, Pairs, LineStates
<1>1. ASSUME NEW l \in LineStates, NEW v \in Nat, v > cellVersion,
             line' = l, cellVersion' = v,
             held' = held \cup {[line |-> l, version |-> v]}
      PROVE  /\ held' \in SUBSET Pairs
             /\ Pair' \in held'
             /\ \A x \in held' : /\ x.version <= cellVersion'
                                 /\ x.version = cellVersion' => x.line = line'
             /\ VersionNamesState'
  <2> DEFINE new == [line |-> l, version |-> v]
  <2>1. new \in Pairs /\ new.version = v /\ new.line = l
    BY DEF Pairs
  <2>2. Pair' = new
    BY <1>1 DEF Pair
  <2>3. \A x \in held : x \in Pairs /\ x.version \in Nat /\ x.version < v
    BY <1>1 DEF CellShape, HeldInv, Pairs
  <2> HIDE DEF new
  <2>4. held' = held \cup {new}
    BY <1>1 DEF new
  <2>5. VersionNamesState'
    BY <2>1, <2>3, <2>4 DEF HeldInv, VersionNamesState
  <2> QED BY <1>1, <2>1, <2>2, <2>3, <2>4, <2>5 DEF CellShape
<1>2. ASSUME NEW value \in LineStates, SetState(value) PROVE CellShape' /\ HeldInv'
  <2>1. CASE value = line
    BY <1>2, <2>1 DEF SetState, CellShape, HeldInv, VersionNamesState, Pair
  <2>2. CASE value # line
    <3>1. /\ UNCHANGED deployment
          /\ line' = value /\ cellVersion' = cellVersion + 1
          /\ persisted' = IF deployment.stateFile THEN cellVersion' ELSE persisted
          /\ held' = held \cup {[line |-> value, version |-> cellVersion + 1]}
      BY <1>2, <2>2 DEF SetState
    <3>2. cellVersion + 1 \in Nat /\ cellVersion + 1 > cellVersion
      BY DEF CellShape
    <3> QED BY <3>1, <3>2, <1>1 DEF CellShape, HeldInv
  <2> QED BY <2>1, <2>2
<1>3. ASSUME FastChange PROVE CellShape' /\ HeldInv'
  <2>1. /\ UNCHANGED <<deployment, line, persisted>>
        /\ line' = line /\ cellVersion' = cellVersion + 1
        /\ held' = held \cup {[line |-> line, version |-> cellVersion + 1]}
        /\ deployment.versions = "global"
    BY <1>3 DEF FastChange
  <2>2. cellVersion + 1 \in Nat /\ cellVersion + 1 > cellVersion /\ line \in LineStates
    BY DEF CellShape
  <2>3. ~deployment.stateFile
    BY <2>1 DEF HeldInv
  <2> QED BY <2>1, <2>2, <2>3, <1>1 DEF CellShape, HeldInv
<1>4. ASSUME CellRestart PROVE CellShape' /\ HeldInv'
  <2>1. /\ UNCHANGED deployment
        /\ line' = RUN /\ cellVersion' = Booted
        /\ persisted' = IF deployment.stateFile THEN Booted ELSE persisted
        /\ held' = held \cup {[line |-> RUN, version |-> Booted]}
    BY <1>4 DEF CellRestart
  <2>2. Booted \in Nat /\ Booted > cellVersion
    BY DEF Booted, HeldInv, CellShape
  <2> QED BY <2>1, <2>2, <1>0, <1>1 DEF CellShape, HeldInv
<1>5. ASSUME UNCHANGED heldVars PROVE CellShape' /\ HeldInv'
  BY <1>5 DEF CellShape, HeldInv, heldVars, VersionNamesState, Pair
<1> QED BY <1>2, <1>3, <1>4, <1>5 DEF ControllerMoves

LEMMA HeldInit == Init => CellShape /\ HeldInv
<1> SUFFICES ASSUME Init PROVE CellShape /\ HeldInv
  OBVIOUS
<1>1. CellInit
  BY DEF Init
<1>2. deployment \in Deployment /\ deployment \in Deployments
  BY <1>1, CellAssumption DEF CellInit
<1>3. deployment.stateFile => deployment.versions = "line"
  BY <1>2 DEF Deployment
<1>4. [line |-> RUN, version |-> 1] \in Pairs
  BY DEF Pairs, LineStates
<1> QED BY <1>1, <1>2, <1>3, <1>4 DEF CellInit, CellShape, HeldInv, Pair, VersionNamesState,
                                     LineStates

\* However the controller changes, changes back, counts fast variables and
\* restarts, with a state file or with the clock, one of its versions never
\* names two states of the line.
THEOREM VersionsName == Spec => []VersionNamesState
<1>1. CellShape /\ HeldInv /\ [Next]_vars => (CellShape /\ HeldInv)'
  BY ControllerSteps, HeldStep
<1>2. CellShape /\ HeldInv => VersionNamesState
  BY DEF HeldInv
<1> QED BY HeldInit, <1>1, <1>2, PTL DEF Spec

-----------------------------------------------------------------------------
(* Types of requests *)

\* The state of a thread that serves nothing, and bounds that are numbers.
LEMMA IdleType == Idle \in Req /\ Idle.ctx \in [Paths -> Int] /\ 0 \in Versions
<1>1. AnyIntent \in Intents
  BY GatewayAssumption DEF AnyIntent
<1>2. 0 \in Versions
  BY RuntimeAssumption DEF Versions
<1>3. [p \in Paths |-> Missing] \in [Paths -> Int]
  BY DEF Missing
<1> QED BY <1>1, <1>2, <1>3 DEF Idle, Req, Steps, Modes, Actuators, Scopes, NoVersion

\* The versions a thread keeps of a document are versions.
LEMMA ReadsTypes ==
  ASSUME NEW i \in Intents, NEW pv \in [Paths -> Versions]
  PROVE  /\ ReadsOf(i, pv) \in Versions
         /\ \A scope \in Scopes, v \in Versions : GateVersion(scope, v, ReadsOf(i, pv)) \in Versions
         /\ \A p \in DOMAIN Admissible[i] : p \in Paths /\ pv[p] <= ReadsOf(i, pv)
         /\ ReadsOf(i, pv) = 0 \/ \E p \in DOMAIN Admissible[i] : ReadsOf(i, pv) = pv[p]
<1>1. DOMAIN Admissible[i] \in SUBSET Paths
  BY GatewayAssumption
<1>2. ReadsOf(i, pv) \in Versions
  BY <1>1, ReadSetVersionFacts DEF ReadsOf
<1> QED BY <1>1, <1>2, ReadSetVersionFacts DEF ReadsOf, GateVersion

LEMMA TypesGive ==
  ASSUME GatewayTypes
  PROVE  /\ RuntimeTypeOK /\ CellTypeOK
         /\ gw \in [Threads -> Req]
         /\ version \in Versions /\ version \in Nat
         /\ context \in [Paths -> Int] /\ pathVersions \in [Paths -> Versions]
         /\ opa \in Documents /\ site \in Sites
         /\ Versions \subseteq Nat
         /\ \A t \in Threads : gw[t] \in Req /\ gw[t].id \in Intents
<1>1. gw \in [Threads -> Req]
  BY DEF GatewayTypes, GatewayTypeOK, Req
<1>2. \A t \in Threads : gw[t] \in Req /\ gw[t].id \in Intents
  BY <1>1 DEF Req
<1> QED BY <1>1, <1>2, RuntimeAssumption DEF GatewayTypes, GatewayTypeOK, Versions

\* Thread t moves on to the request h, and no other thread moves.
Turns(t, h) == gw' = [gw EXCEPT ![t] = h]

\* A turn leaves the threads' requests well formed.
LEMMA TurnTypes ==
  ASSUME gw \in [Threads -> Req], NEW t \in Threads, NEW h \in Req, Turns(t, h)
  PROVE  /\ gw' \in [Threads -> Req]
         /\ gw'[t] = h
         /\ \A u \in Threads : u # t => gw'[u] = gw[u]
BY DEF Turns

\* The moves that change the step only.
LEMMA MoveTypes ==
  ASSUME gw \in [Threads -> Req], NEW t \in Threads, NEW pc \in Steps
  PROVE  /\ Goto(t, pc) => Turns(t, [gw[t] EXCEPT !.pc = pc])
         /\ [gw[t] EXCEPT !.pc = pc] \in Req
         /\ End(t) => Turns(t, Idle)
         /\ Idle \in Req
<1>1. gw[t] \in Req
  OBVIOUS
<1>2. [gw[t] EXCEPT !.pc = pc] \in Req
  BY <1>1 DEF Req
<1> QED BY <1>2, IdleType DEF Goto, End, Turns

-----------------------------------------------------------------------------
(* How a request goes on *)

Edges ==
  {<<"refresh", "local">>, <<"read", "reread">>, <<"reread", "publish">>,
   <<"opa_validate", "opa_gate">>, <<"opa_gate", "publish">>,
   <<"submit", "claim">>, <<"submit", "validate">>, <<"claim", "validate">>,
   <<"validate", "gate_read">>, <<"validate", "commit">>, <<"validate", "cross">>,
   <<"gate_read", "gate">>, <<"gate", "cross">>, <<"gate", "report">>,
   <<"commit", "guard">>, <<"commit", "cross">>, <<"guard", "cross">>,
   <<"cross", "report">>, <<"cross", "await">>, <<"await", "report">>,
   <<"report", "effect">>}

\* The request g goes on to its next step as h: which of its items a step may
\* change.
Edge(g, h) ==
  /\ <<g.pc, h.pc>> \in Edges
  /\ h.id = g.id /\ h.mode = g.mode /\ h.scope = g.scope /\ h.guard = g.guard
  /\ g.pc # "validate" => h.act = g.act
  /\ g.pc \notin {"validate", "gate"} => h.witness = g.witness
  /\ g.pc \notin {"read", "opa_validate", "validate"} => h.seen = g.seen
  /\ g.pc \notin {"read", "opa_validate", "validate", "gate"} => h.expected = g.expected
  /\ g.pc \notin {"reread", "opa_gate", "gate_read", "commit"} => h.gate = g.gate
  /\ g.pc \notin {"cross", "await"} \/ h.pc = "await" => h.effect = g.effect
  /\ h.pc = "effect" => h.effect # "NONE"
  /\ h.ctx \in {g.ctx, context, Idle.ctx}
  /\ h.witness \in {g.witness, g.ctx[LineVersion], context[LineVersion], NoVersion}

GoesOn(t) == \E h \in Req : Turns(t, h) /\ (h = Idle \/ h = gw[t] \/ Edge(gw[t], h))

\* A step that changes the step of its request only.
LEMMA GotoEdge ==
  ASSUME gw \in [Threads -> Req], NEW t \in Threads, NEW pc \in Steps,
         <<gw[t].pc, pc>> \in Edges, pc # "effect", Goto(t, pc)
  PROVE  GoesOn(t)
<1> DEFINE g == gw[t]
           h == [g EXCEPT !.pc = pc]
<1>1. g \in Req /\ h \in Req /\ Turns(t, h)
  BY MoveTypes
<1>2. /\ h.pc = pc /\ h.id = g.id /\ h.mode = g.mode /\ h.scope = g.scope /\ h.guard = g.guard
      /\ h.act = g.act /\ h.witness = g.witness /\ h.seen = g.seen
      /\ h.expected = g.expected /\ h.gate = g.gate /\ h.effect = g.effect
      /\ h.ctx = g.ctx
  BY <1>1 DEF Req
<1> HIDE DEF g, h
<1>3. Edge(g, h)
  BY <1>2 DEF Edge, g
<1> QED BY <1>1, <1>3 DEF GoesOn, g

LEMMA EndEdge ==
  ASSUME gw \in [Threads -> Req], NEW t \in Threads, End(t)
  PROVE  GoesOn(t)
BY IdleType DEF End, GoesOn, Turns

\* The steps of a request served by the gateway alone.
LEMMA LocalEdges ==
  ASSUME GatewayTypes, NEW t \in Threads,
         \/ Unchecked(t) \/ Refresh(t) \/ LocalPolicy(t)
         \/ AuthoritativeRead(t) \/ AuthoritativeReread(t)
         \/ OpaValidate(t) \/ OpaGate(t) \/ PublishLocal(t)
  PROVE  GoesOn(t)
<1>0. /\ gw \in [Threads -> Req] /\ gw[t] \in Req /\ gw[t].id \in Intents
      /\ version \in Versions /\ pathVersions \in [Paths -> Versions] /\ opa \in Documents
  BY TypesGive
<1>1. CASE Unchecked(t) \/ LocalPolicy(t) \/ PublishLocal(t)
  BY <1>0, <1>1, EndEdge DEF Unchecked, LocalPolicy, PublishLocal
<1>2. CASE Refresh(t)
  <2>1. (Goto(t, "local") \/ End(t)) /\ At(t, "refresh")
    BY <1>2 DEF Refresh
  <2>2. <<gw[t].pc, "local">> \in Edges /\ "local" \in Steps
    BY <2>1 DEF Edges, Steps, At
  <2> QED BY <1>0, <2>1, <2>2, GotoEdge, EndEdge
<1>3. CASE AuthoritativeRead(t)
  <2> DEFINE e == GateVersion(gw[t].scope, version, ReadsOf(gw[t].id, pathVersions))
             h == [gw[t] EXCEPT !.pc = "reread", !.seen = version, !.expected = e]
  <2>1. At(t, "read") /\ (End(t) \/ Turns(t, h))
    BY <1>0, <1>3 DEF AuthoritativeRead, Turns
  <2>2. e \in Versions
    BY <1>0, ReadsTypes DEF Req
  <2> HIDE DEF e
  <2>3. h \in Req /\ Edge(gw[t], h)
    BY <1>0, <2>1, <2>2 DEF Req, Edge, Edges, Steps, At
  <2> QED BY <1>0, <2>1, <2>3, EndEdge DEF GoesOn
<1>4. CASE AuthoritativeReread(t)
  <2> DEFINE h == [gw[t] EXCEPT !.pc = "publish", !.gate = version]
  <2>1. At(t, "reread") /\ (End(t) \/ Turns(t, h))
    BY <1>0, <1>4 DEF AuthoritativeReread, Turns
  <2>2. h \in Req /\ Edge(gw[t], h)
    BY <1>0, <2>1 DEF Req, Edge, Edges, Steps, At
  <2> QED BY <1>0, <2>1, <2>2, EndEdge DEF GoesOn
<1>5. CASE OpaValidate(t)
  <2> DEFINE e == ReadsOf(gw[t].id, opa.pathVersions)
             h == [gw[t] EXCEPT !.pc = "opa_gate", !.seen = opa.version, !.expected = e]
  <2>1. At(t, "opa_validate") /\ (End(t) \/ Turns(t, h))
    BY <1>0, <1>5 DEF OpaValidate, Turns
  <2>2. e \in Versions /\ opa.version \in Versions
    BY <1>0, ReadsTypes DEF Documents
  <2> HIDE DEF e
  <2>3. h \in Req /\ Edge(gw[t], h)
    BY <1>0, <2>1, <2>2 DEF Req, Edge, Edges, Steps, At
  <2> QED BY <1>0, <2>1, <2>3, EndEdge DEF GoesOn
<1>6. CASE OpaGate(t)
  <2> DEFINE h == [gw[t] EXCEPT !.pc = "publish", !.gate = opa.version]
  <2>1. At(t, "opa_gate") /\ (End(t) \/ Turns(t, h))
    BY <1>0, <1>6 DEF OpaGate, Turns
  <2>2. opa.version \in Versions
    BY <1>0 DEF Documents
  <2>3. h \in Req /\ Edge(gw[t], h)
    BY <1>0, <2>1, <2>2 DEF Req, Edge, Edges, Steps, At
  <2> QED BY <1>0, <2>1, <2>3, EndEdge DEF GoesOn
<1> QED BY <1>1, <1>2, <1>3, <1>4, <1>5, <1>6

\* The steps of a request served by XAIR and the controller.
LEMMA XairEdges ==
  ASSUME GatewayTypes, NEW t \in Threads,
         \/ SubmitAdmit(t) \/ SubmitClaim(t) \/ SubmitValidate(t)
         \/ GateRead(t) \/ GateCheck(t) \/ CommitCall(t) \/ ReleaseGuard(t)
  PROVE  GoesOn(t)
<1>0. /\ gw \in [Threads -> Req] /\ gw[t] \in Req /\ gw[t].id \in Intents
      /\ version \in Versions /\ pathVersions \in [Paths -> Versions]
      /\ context \in [Paths -> Int]
  BY TypesGive
<1>1. CASE SubmitAdmit(t)
  <2>1. At(t, "submit") /\ (Goto(t, "claim") \/ Goto(t, "validate") \/ End(t))
    BY <1>1 DEF SubmitAdmit
  <2>2. /\ <<gw[t].pc, "claim">> \in Edges /\ "claim" \in Steps
        /\ <<gw[t].pc, "validate">> \in Edges /\ "validate" \in Steps
    BY <2>1 DEF Edges, Steps, At
  <2> QED BY <1>0, <2>1, <2>2, GotoEdge, EndEdge
<1>2. CASE SubmitClaim(t)
  <2>1. At(t, "claim") /\ (Goto(t, "validate") \/ End(t))
    BY <1>2 DEF SubmitClaim
  <2>2. <<gw[t].pc, "validate">> \in Edges /\ "validate" \in Steps
    BY <2>1 DEF Edges, Steps, At
  <2> QED BY <1>0, <2>1, <2>2, GotoEdge, EndEdge
<1>3. CASE SubmitValidate(t)
  <2> DEFINE i == gw[t].id
             pc == AfterValidation(t)
             act == IF i \in stopClass THEN "ros" ELSE gw[t].act
             e == GateVersion(gw[t].scope, records'[i].contextVersion, records'[i].readSetVersion)
             w == IF LineVersion \in DOMAIN Admissible[i] THEN context[LineVersion] ELSE NoVersion
             h == [gw[t] EXCEPT !.pc = pc, !.act = act, !.seen = version, !.expected = e,
                                !.witness = w]
  <2>1. At(t, "validate") /\ (End(t) \/ Turns(t, h))
    BY <1>0, <1>3 DEF SubmitValidate, Turns
  <2>2. pc \in {"cross", "commit", "gate_read"}
    BY DEF AfterValidation
  <2>3. act \in Actuators /\ w \in Int /\ w \in {context[LineVersion], NoVersion}
    BY <1>0, GatewayAssumption DEF Actuators, NoVersion, Req
  <2>4. e \in Versions
    <3>1. Found(i) \in Checks
      BY <1>0, ReadsTypes DEF Found, Checks, Satisfied
    <3>2. ProcessIntent(i, Found(i))
      BY <1>3 DEF SubmitValidate
    <3>3. RuntimeTypeOK'
      BY <1>0, <3>1, <3>2, TypesGive, TypeStep DEF RuntimeNext
    <3>4. records'[i] \in Record
      BY <1>0, <3>3 DEF RuntimeTypeOK
    <3> QED BY <3>4 DEF GateVersion, Record
  <2> HIDE DEF pc, act, e, w
  <2>5. h \in Req /\ Edge(gw[t], h)
    BY <1>0, <2>1, <2>2, <2>3, <2>4 DEF Req, Edge, Edges, Steps, At
  <2> QED BY <1>0, <2>1, <2>5, EndEdge DEF GoesOn
<1>4. CASE GateRead(t)
  <2> DEFINE r == ReadsOf(gw[t].id, pathVersions)
             h1 == [gw[t] EXCEPT !.pc = "gate", !.ctx = context, !.gate = version, !.reads = r]
             h2 == [gw[t] EXCEPT !.pc = "gate", !.trusted = FALSE]
  <2>1. At(t, "gate_read") /\ (Turns(t, h1) \/ Turns(t, h2))
    BY <1>0, <1>4 DEF GateRead, Turns
  <2>2. r \in Versions
    BY <1>0, ReadsTypes
  <2> HIDE DEF r
  <2>3. h1 \in Req /\ Edge(gw[t], h1) /\ h2 \in Req /\ Edge(gw[t], h2)
    BY <1>0, <2>1, <2>2 DEF Req, Edge, Edges, Steps, At
  <2> QED BY <2>1, <2>3 DEF GoesOn
<1>5. CASE GateCheck(t)
  <2> DEFINE pc == IF Passes(gw[t]) THEN "cross" ELSE "report"
             w == IF gw[t].ctx[LineVersion] # Missing THEN gw[t].ctx[LineVersion]
                  ELSE gw[t].witness
             e == GateVersion(gw[t].scope, gw[t].gate, gw[t].reads)
             h == [gw[t] EXCEPT !.pc = pc, !.witness = w, !.expected = e,
                                !.ctx = Idle.ctx, !.reads = 0]
  <2>1. At(t, "gate") /\ Turns(t, h)
    BY <1>0, <1>5 DEF GateCheck, Turns
  <2>2. /\ pc \in {"cross", "report"} /\ w \in Int /\ e \in Versions
        /\ w \in {gw[t].witness, gw[t].ctx[LineVersion]}
    BY <1>0, GatewayAssumption DEF Req, GateVersion
  <2> HIDE DEF pc, w, e
  <2>3. h \in Req /\ Edge(gw[t], h)
    BY <1>0, <2>1, <2>2, IdleType DEF Req, Edge, Edges, Steps, At
  <2> QED BY <2>1, <2>3 DEF GoesOn
<1>6. CASE CommitCall(t)
  <2> DEFINE pc == IF gw[t].guard THEN "guard" ELSE "cross"
             h == [gw[t] EXCEPT !.pc = pc, !.gate = version]
  <2>1. At(t, "commit") /\ (End(t) \/ Turns(t, h))
    BY <1>0, <1>6 DEF CommitCall, Turns
  <2>2. pc \in {"guard", "cross"}
    OBVIOUS
  <2> HIDE DEF pc
  <2>3. h \in Req /\ Edge(gw[t], h)
    BY <1>0, <2>1, <2>2 DEF Req, Edge, Edges, Steps, At
  <2> QED BY <1>0, <2>1, <2>3, EndEdge DEF GoesOn
<1>7. CASE ReleaseGuard(t)
  <2>1. At(t, "guard") /\ (Goto(t, "cross") \/ End(t))
    BY <1>7 DEF ReleaseGuard
  <2>2. <<gw[t].pc, "cross">> \in Edges /\ "cross" \in Steps
    BY <2>1 DEF Edges, Steps, At
  <2> QED BY <1>0, <2>1, <2>2, GotoEdge, EndEdge
<1> QED BY <1>1, <1>2, <1>3, <1>4, <1>5, <1>6, <1>7

\* The middleware call, its answer and its report, and the forward of an update.
LEMMA ReleaseEdges ==
  ASSUME GatewayTypes, NEW t \in Threads,
         \/ Cross(t) \/ Await(t) \/ Report(t) \/ ReportedEffect(t)
         \/ ContextForward(t) \/ Inject(t)
  PROVE  GoesOn(t)
<1>0. gw \in [Threads -> Req] /\ gw[t] \in Req
  BY TypesGive
<1>1. ASSUME NEW released \in BOOLEAN, NEW effect \in Effects \cup {"NONE"},
             gw[t].pc \in {"cross", "await"},
             Turns(t, [gw[t] EXCEPT !.pc = "report", !.released = released, !.effect = effect])
      PROVE  GoesOn(t)
  <2> DEFINE h == [gw[t] EXCEPT !.pc = "report", !.released = released, !.effect = effect]
  <2>1. h \in Req /\ Edge(gw[t], h)
    BY <1>0, <1>1 DEF Req, Edge, Edges, Steps
  <2> QED BY <1>1, <2>1 DEF GoesOn
<1>2. ASSUME gw[t].pc \in {"cross", "await"}, gw' = Raised(t) PROVE GoesOn(t)
  <2> DEFINE released == gw[t].mode = "xair_atomic"
             effect == IF gw[t].mode = "xair_atomic" THEN "unknown" ELSE "NONE"
  <2>1. released \in BOOLEAN /\ effect \in Effects \cup {"NONE"}
    BY DEF Effects
  <2>2. Turns(t, [gw[t] EXCEPT !.pc = "report", !.released = released, !.effect = effect])
    BY <1>0, <1>2 DEF Raised, Turns
  <2> HIDE DEF released, effect
  <2> QED BY <1>1, <1>2, <2>1, <2>2
<1>3. CASE Cross(t)
  <2>1. /\ At(t, "cross")
        /\ \/ Turns(t, [gw[t] EXCEPT !.pc = "report", !.released = TRUE, !.effect = "unknown"])
           \/ Goto(t, "await")
           \/ gw' = Raised(t)
    BY <1>0, <1>3 DEF Cross, Turns
  <2>2. /\ <<gw[t].pc, "await">> \in Edges /\ "await" \in Steps
        /\ gw[t].pc \in {"cross", "await"} /\ TRUE \in BOOLEAN /\ "unknown" \in Effects
    BY <2>1 DEF Edges, Steps, At, Effects
  <2> QED BY <1>0, <1>1, <1>2, <2>1, <2>2, GotoEdge
<1>4. CASE Await(t)
  <2> DEFINE effect == IF answer[t] = "executed" THEN "confirmed" ELSE "failed"
  <2>1. /\ At(t, "await")
        /\ \/ Turns(t, [gw[t] EXCEPT !.pc = "report", !.released = TRUE, !.effect = effect])
           \/ gw' = Raised(t)
    BY <1>0, <1>4 DEF Await, Turns
  <2>2. gw[t].pc \in {"cross", "await"} /\ TRUE \in BOOLEAN /\ effect \in Effects
    BY <2>1 DEF At, Effects
  <2> HIDE DEF effect
  <2> QED BY <1>0, <1>1, <1>2, <2>1, <2>2
<1>5. CASE Report(t)
  <2>1. /\ At(t, "report")
        /\ (Goto(t, "effect") /\ gw[t].effect # "NONE") \/ End(t)
    BY <1>5 DEF Report
  <2>2. ASSUME Goto(t, "effect"), gw[t].effect # "NONE" PROVE GoesOn(t)
    <3> DEFINE h == [gw[t] EXCEPT !.pc = "effect"]
    <3>1. Turns(t, h)
      BY <1>0, <2>2 DEF Goto, Turns
    <3>2. h \in Req /\ Edge(gw[t], h)
      BY <1>0, <2>1, <2>2 DEF Req, Edge, Edges, Steps, At
    <3> QED BY <3>1, <3>2 DEF GoesOn
  <2> QED BY <1>0, <2>1, <2>2, EndEdge
<1>6. CASE ReportedEffect(t) \/ ContextForward(t)
  BY <1>0, <1>6, EndEdge DEF ReportedEffect, ContextForward
<1>7. CASE Inject(t)
  <2>1. Turns(t, gw[t])
    BY <1>0, <1>7 DEF Inject, Turns
  <2> QED BY <1>0, <2>1 DEF GoesOn
<1> QED BY <1>3, <1>4, <1>5, <1>6, <1>7

FirstSteps == {"direct", "naive", "refresh", "local", "read", "opa_validate", "submit", "forward"}

\* The request h is one that a thread begins with.
Begins(h) ==
  /\ h.pc \in FirstSteps
  /\ h.pc = "submit" <=> h.mode \in XairModes
  /\ h.pc = "opa_validate" => h.mode \in {"opa", "opa_readset"}
  /\ h.effect = "NONE" /\ h.witness = NoVersion
  /\ h.ctx[LineState] = Missing /\ h.ctx[LineVersion] = Missing

LEMMA RequestBegins ==
  ASSUME GatewayTypes, NEW t \in Threads, NEW i \in Intents, NEW q \in site.queries,
         Request(t, i, q)
  PROVE  \E h \in Req : Turns(t, h) /\ (h = gw[t] \/ Begins(h))
<1>0. gw \in [Threads -> Req] /\ gw[t] \in Req
  BY TypesGive
<1>1. CASE Rejected(q)
  BY <1>0, <1>1 DEF Request, Turns
<1>2. CASE ~Rejected(q)
  <2> DEFINE pc == FirstStep(q.mode)
             h == [Idle EXCEPT !.pc = pc, !.id = i, !.mode = q.mode, !.act = q.act,
                               !.scope = q.scope, !.guard = q.guard, !.inject = q.inject]
  <2>1. Turns(t, h)
    BY <1>2 DEF Request, Turns
  <2>2. q \in Query
    BY GatewayAssumption, TypesGive
  <2>3. /\ q.mode \in Modes /\ q.act \in Actuators /\ q.scope \in Scopes
        /\ q.guard \in BOOLEAN /\ q.inject \in BOOLEAN
    BY <2>2 DEF Query
  <2>4. /\ pc \in FirstSteps \ {"forward"}
        /\ pc = "submit" <=> q.mode \in XairModes
        /\ pc = "opa_validate" => q.mode \in {"opa", "opa_readset"}
    BY <2>3 DEF FirstStep, FirstSteps, Modes, XairModes
  <2> HIDE DEF pc
  <2>5. h \in Req
    BY <2>3, <2>4, IdleType DEF Req, Steps, FirstSteps
  <2>6. /\ h.pc = pc /\ h.mode = q.mode /\ h.effect = "NONE" /\ h.witness = NoVersion
        /\ h.ctx[LineState] = Missing /\ h.ctx[LineVersion] = Missing
    BY GatewayAssumption DEF Idle
  <2> HIDE DEF h
  <2> QED BY <2>1, <2>4, <2>5, <2>6 DEF Begins
<1> QED BY <1>1, <1>2

LEMMA PostBegins ==
  ASSUME GatewayTypes, NEW t \in Threads, NEW p \in site.posted, NEW v \in WrittenValues,
         ContextPost(t, p, v)
  PROVE  \E h \in Req : Turns(t, h) /\ Begins(h)
<1> DEFINE c == [Idle.ctx EXCEPT ![p] = v]
           h == [Idle EXCEPT !.pc = "forward", !.ctx = c]
<1>1. p \in OtherPaths /\ v \in Int
  BY GatewayAssumption, TypesGive
<1>2. c \in [Paths -> Int] /\ c[LineState] = Missing /\ c[LineVersion] = Missing
  BY <1>1, GatewayAssumption DEF Idle, Missing, OtherPaths
<1>3. Turns(t, h)
  BY DEF ContextPost, Turns
<1> HIDE DEF c
<1>4. h \in Req
  BY <1>2, IdleType DEF Req, Steps
<1>5. /\ h.pc = "forward" /\ h.mode = "direct" /\ h.effect = "NONE" /\ h.ctx = c
      /\ h.witness = NoVersion
  BY DEF Idle
<1> HIDE DEF h
<1> QED BY <1>2, <1>3, <1>4, <1>5 DEF Begins, FirstSteps, XairModes

\* The steps that a restart of XAIR cuts off.
Cut == {"claim", "validate", "effect"}

\* What a step does to the request of thread u: nothing, or u's own step ends it,
\* takes it on or begins one, or XAIR restarts under it.
Moves(u) ==
  \/ gw'[u] = gw[u]
  \/ ThreadStep(u) /\ (gw'[u] = Idle \/ Edge(gw[u], gw'[u]))
  \/ At(u, "idle") /\ Begins(gw'[u])
  \/ gw[u].pc \in Cut /\ gw'[u] = Idle

\* At most one thread moves, unless XAIR restarts.
Alone(t) == \A u \in Threads : u # t => gw'[u] = gw[u]

LEMMA ThreadMoves ==
  ASSUME GatewayTypes, [Next]_vars
  PROVE  /\ gw' \in [Threads -> Req]
         /\ \A u \in Threads : Moves(u)
         /\ \/ \E t \in Threads : Alone(t)
            \/ UNCHANGED gw
            \/ \A u \in Threads : gw'[u] = gw[u] \/ gw'[u] = Idle
<1> DEFINE Goal == /\ gw' \in [Threads -> Req]
                   /\ \A u \in Threads : Moves(u)
                   /\ \/ \E t \in Threads : Alone(t)
                      \/ UNCHANGED gw
                      \/ \A u \in Threads : gw'[u] = gw[u] \/ gw'[u] = Idle
<1>0. gw \in [Threads -> Req]
  BY TypesGive
<1>1. ASSUME NEW t \in Threads, NEW h \in Req, Turns(t, h),
             \/ h = gw[t]
             \/ ThreadStep(t) /\ (h = Idle \/ Edge(gw[t], h))
             \/ At(t, "idle") /\ Begins(h)
      PROVE  Goal
  <2>1. gw' \in [Threads -> Req] /\ gw'[t] = h /\ \A u \in Threads : u # t => gw'[u] = gw[u]
    BY <1>0, <1>1, TurnTypes
  <2> QED BY <1>1, <2>1 DEF Alone, Moves
<1>2. ASSUME UNCHANGED gw PROVE Goal
  BY <1>0, <1>2 DEF Moves
<1>3. ASSUME NEW t \in Threads, ThreadStep(t) PROVE Goal
  <2>1. GoesOn(t)
    BY <1>3, LocalEdges, XairEdges, ReleaseEdges DEF ThreadStep
  <2>2. PICK h \in Req : Turns(t, h) /\ (h = Idle \/ h = gw[t] \/ Edge(gw[t], h))
    BY <2>1 DEF GoesOn
  <2> HIDE DEF Goal
  <2> QED BY <1>1, <1>3, <2>2
<1>4. ASSUME NEW t \in Threads, NEW i \in Intents, NEW q \in site.queries, Request(t, i, q)
      PROVE  Goal
  <2>1. PICK h \in Req : Turns(t, h) /\ (h = gw[t] \/ Begins(h))
    BY <1>4, RequestBegins
  <2>2. At(t, "idle")
    BY <1>4 DEF Request
  <2> HIDE DEF Goal
  <2> QED BY <1>1, <2>1, <2>2
<1>5. ASSUME NEW t \in Threads, NEW p \in site.posted, NEW v \in WrittenValues, ContextPost(t, p, v)
      PROVE  Goal
  <2>1. PICK h \in Req : Turns(t, h) /\ Begins(h)
    BY <1>5, PostBegins
  <2>2. At(t, "idle")
    BY <1>5 DEF ContextPost
  <2> HIDE DEF Goal
  <2> QED BY <1>1, <2>1, <2>2
<1>6. ASSUME XairRestart PROVE Goal
  <2>1. gw' = [u \in Threads |-> IF gw[u].pc \in Cut THEN Idle ELSE gw[u]]
    BY <1>6 DEF XairRestart, Cut
  <2>2. \A u \in Threads : gw'[u] = gw[u] \/ (gw[u].pc \in Cut /\ gw'[u] = Idle)
    BY <2>1
  <2>3. gw' \in [Threads -> Req]
    BY <1>0, <2>1, IdleType
  <2> QED BY <2>2, <2>3 DEF Moves
<1>7. ASSUME \/ BridgeServed \/ Replicate \/ CellStep \/ CellFault \/ Tick
             \/ \E i \in Intents : Revoke(i)
      PROVE  UNCHANGED gw
  BY <1>7 DEF BridgeServed, Replicate, CellStep, CellFault, Tick, Revoke, gatewayVars
<1>8. UNCHANGED vars => UNCHANGED gw
  BY DEF vars, gatewayVars
<1> HIDE DEF Goal
<1>9. Goal
  BY <1>2, <1>3, <1>4, <1>5, <1>6, <1>7, <1>8 DEF Next
<1> QED BY <1>9 DEF Goal

-----------------------------------------------------------------------------
(* Steps of XAIR and of the store *)

\* What a validation pass finds on the current context.
LEMMA FoundTypes ==
  ASSUME GatewayTypes, NEW i \in Intents
  PROVE  Found(i) \in Checks
<1>1. version \in Versions /\ pathVersions \in [Paths -> Versions]
  BY TypesGive
<1>2. Satisfied(i, context) \in BOOLEAN
  BY DEF Satisfied
<1> QED BY <1>1, <1>2, ReadsTypes DEF Found, Checks

\* Whatever a thread, the operator, the cell or a restart does, XAIR's runtime
\* makes one of its own steps or none.
LEMMA RuntimeSteps == GatewayTypes /\ [Next]_vars => [RuntimeNext]_runtimeVars
<1> SUFFICES ASSUME GatewayTypes, [Next]_vars PROVE [RuntimeNext]_runtimeVars
  OBVIOUS
<1>0. \A t \in Threads : gw[t] \in Req /\ gw[t].id \in Intents
  BY TypesGive
<1>1. ASSUME NEW t \in Threads, SubmitAdmit(t) PROVE [RuntimeNext]_runtimeVars
  <2>1. 0 \in Lapses
    BY LenProperties, TypesGive DEF Lapses, RuntimeTypeOK
  <2>2. Admit(gw[t].id, 0) \/ UNCHANGED runtimeVars
    BY <1>1 DEF SubmitAdmit
  <2> QED BY <1>0, <2>1, <2>2 DEF RuntimeNext
<1>2. ASSUME NEW t \in Threads, SubmitClaim(t) PROVE [RuntimeNext]_runtimeVars
  <2>1. LifecycleRevoke(gw[t].id) \/ UNCHANGED runtimeVars
    BY <1>2 DEF SubmitClaim
  <2> QED BY <1>0, <2>1 DEF RuntimeNext
<1>3. ASSUME NEW t \in Threads, SubmitValidate(t) PROVE RuntimeNext
  <2>1. ProcessIntent(gw[t].id, Found(gw[t].id))
    BY <1>3 DEF SubmitValidate
  <2> QED BY <1>0, <2>1, FoundTypes DEF RuntimeNext
<1>4. ASSUME NEW t \in Threads, CommitCall(t) PROVE [RuntimeNext]_runtimeVars
  <2> DEFINE i == gw[t].id
             status == CommitStatus(i, DOMAIN Admissible[i], records[i].readSetVersion, now, AgeBound, 0)
             ok == status \in {"committed", "duplicate"}
             seq == IF status = "committed" THEN Len(actuations) + 1 ELSE NoSeq
  <2>1. \/ UNCHANGED runtimeVars
        \/ RecordCommit(i, ok, seq) /\ (status = "committed" => CanAppend)
    BY <1>4 DEF CommitCall
  <2>2. CASE UNCHANGED runtimeVars
    BY <2>2
  <2>3. CASE RecordCommit(i, ok, seq) /\ (status = "committed" => CanAppend)
    <3>1. ok \in BOOLEAN
      OBVIOUS
    <3>2. seq \in {NoSeq} \cup LogPositions
      BY <2>3, LenProperties, RuntimeAssumption DEF CanAppend, LogPositions, GatewayTypes
    <3> HIDE DEF ok, seq
    <3> QED BY <1>0, <2>3, <3>1, <3>2 DEF RuntimeNext
  <2> QED BY <2>1, <2>2, <2>3
<1>5. ASSUME NEW t \in Threads, ReleaseGuard(t) PROVE [RuntimeNext]_runtimeVars
  <2>1. ReportRelease(gw[t].id, FALSE, "none", 0) \/ UNCHANGED runtimeVars
    BY <1>5 DEF ReleaseGuard
  <2> QED BY <1>0, <2>1, IdleType DEF RuntimeNext
<1>6. ASSUME NEW t \in Threads, Report(t) PROVE [RuntimeNext]_runtimeVars
  <2> DEFINE scope == IF gw[t].mode = "xair" /\ gw[t].id \notin stopClass /\ gw[t].scope # "predicate"
                      THEN gw[t].scope ELSE "none"
  <2>1. \/ ReportRelease(gw[t].id, gw[t].released, scope, gw[t].expected)
        \/ UNCHANGED runtimeVars
    BY <1>6 DEF Report
  <2>2. /\ gw[t].released \in BOOLEAN /\ gw[t].expected \in Versions
        /\ scope \in {"none", "readset", "global"}
    BY <1>0 DEF Req, Scopes
  <2> HIDE DEF scope
  <2> QED BY <1>0, <2>1, <2>2 DEF RuntimeNext
<1>7. ASSUME NEW t \in Threads, ReportedEffect(t) PROVE RuntimeNext
  <2>1. gw[t].effect \in Effects
    BY <1>0, <1>7 DEF Req, GatewayTypes, ReportedEffect
  <2>2. ReportEffect(gw[t].id, gw[t].effect)
    BY <1>7 DEF ReportedEffect
  <2> QED BY <1>0, <2>1, <2>2 DEF RuntimeNext
<1>8. ASSUME NEW t \in Threads,
             \/ Unchecked(t) \/ Refresh(t) \/ LocalPolicy(t)
             \/ AuthoritativeRead(t) \/ AuthoritativeReread(t)
             \/ OpaValidate(t) \/ OpaGate(t) \/ PublishLocal(t)
             \/ GateRead(t) \/ GateCheck(t)
      PROVE  UNCHANGED runtimeVars
  BY <1>8 DEF Unchecked, Refresh, LocalPolicy, AuthoritativeRead, AuthoritativeReread,
              OpaValidate, OpaGate, PublishLocal, GateRead, GateCheck, Local
<1>9. ASSUME NEW t \in Threads, Cross(t) \/ Await(t) \/ ContextForward(t) \/ Inject(t)
      PROVE  UNCHANGED runtimeVars
  BY <1>9 DEF Cross, Await, ContextForward, Inject
<1>10. ASSUME NEW t \in Threads, ThreadStep(t) PROVE [RuntimeNext]_runtimeVars
  BY <1>10, <1>1, <1>2, <1>3, <1>4, <1>5, <1>6, <1>7, <1>8, <1>9 DEF ThreadStep
<1>11. ASSUME NEW t \in Threads, NEW i \in Intents, NEW q \in site.queries, Request(t, i, q)
       PROVE  UNCHANGED runtimeVars
  BY <1>11 DEF Request
<1>12. ASSUME NEW t \in Threads, NEW p \in site.posted, NEW v \in WrittenValues, ContextPost(t, p, v)
       PROVE  UNCHANGED runtimeVars
  BY <1>12 DEF ContextPost, Local
<1>13. ASSUME BridgeServed \/ Replicate \/ CellStep \/ CellFault \/ Tick
       PROVE  UNCHANGED runtimeVars
  BY <1>13 DEF BridgeServed, Replicate, CellStep, CellFault, Tick
<1>14. ASSUME NEW i \in Intents, Revoke(i) PROVE RuntimeNext
  BY <1>14 DEF Revoke, RuntimeNext
<1>15. ASSUME XairRestart PROVE RuntimeNext
  BY <1>15 DEF XairRestart, RuntimeNext
<1>16. UNCHANGED vars => UNCHANGED runtimeVars
  BY DEF vars
<1> QED BY <1>10, <1>11, <1>12, <1>13, <1>14, <1>15, <1>16 DEF Next

\* A patch of the context: the controller's pair comes from a POST of the
\* bridge, and the line state alone only from an injected pause.
Patch(patch) ==
  /\ patch \in [DOMAIN patch -> Int] /\ DOMAIN patch \subseteq Paths
  /\ IF LineVersion \in DOMAIN patch
     THEN /\ LineState \in DOMAIN patch
          /\ patch[LineVersion] \in Nat
          /\ [line |-> patch[LineState], version |-> patch[LineVersion]]
                \in (late \cup {posting}) \ {NoPost}
     ELSE LineState \in DOMAIN patch => patch[LineState] = PAUSED

\* One update of the context, or none.
LEMMA DocumentSteps ==
  ASSUME GatewayTypes, [Next]_vars
  PROVE  \/ UNCHANGED <<documentVars, changes>>
         \/ \E patch : Patch(patch) /\ StorePatch(patch)
<1> DEFINE Quiet == UNCHANGED <<documentVars, changes>>
           Patched == \E patch : Patch(patch) /\ StorePatch(patch)
<1>0. /\ gw \in [Threads -> Req] /\ \A t \in Threads : gw[t] \in Req
      /\ LineState \in Paths /\ LineVersion \in Paths
      /\ posting \in Pairs \cup {NoPost} /\ late \subseteq Pairs
  BY TypesGive, GatewayAssumption DEF CellTypeOK
<1>1. ASSUME NEW t \in Threads,
             \/ Unchecked(t) \/ Refresh(t) \/ LocalPolicy(t)
             \/ AuthoritativeRead(t) \/ AuthoritativeReread(t)
             \/ OpaValidate(t) \/ OpaGate(t) \/ PublishLocal(t)
             \/ GateRead(t) \/ GateCheck(t)
      PROVE  Quiet
  BY <1>1 DEF Unchecked, Refresh, LocalPolicy, AuthoritativeRead, AuthoritativeReread,
              OpaValidate, OpaGate, PublishLocal, GateRead, GateCheck, Local, storeVars, documentVars
<1>2. ASSUME NEW t \in Threads,
             \/ SubmitAdmit(t) \/ SubmitClaim(t) \/ SubmitValidate(t)
             \/ CommitCall(t) \/ ReleaseGuard(t) \/ Report(t) \/ ReportedEffect(t)
      PROVE  Quiet
  BY <1>2 DEF SubmitAdmit, SubmitClaim, Claim, SubmitValidate, CommitCall, Commit, ReleaseGuard,
              AppendActuation, Report, ReportedEffect, Served, storeVars, documentVars
<1>3. ASSUME NEW t \in Threads, Cross(t) \/ Await(t) PROVE Quiet
  BY <1>3 DEF Cross, Await, storeVars, documentVars
<1>4. ASSUME NEW t \in Threads, ContextForward(t) PROVE Quiet \/ Patched
  <2> DEFINE set == {p \in Paths : gw[t].ctx[p] # Missing}
             patch == [p \in set |-> gw[t].ctx[p]]
  <2>1. At(t, "forward") /\ (StorePatch(patch) \/ UNCHANGED <<storeVars, changes>>)
    BY <1>4 DEF ContextForward
  <2>2. gw[t].ctx \in [Paths -> Int]
    BY <1>0 DEF Req
  <2>3. LineState \notin set /\ LineVersion \notin set
    BY <2>1 DEF GatewayTypes
  <2>4. Patch(patch)
    BY <2>2, <2>3 DEF Patch
  <2> HIDE DEF set, patch
  <2> QED BY <2>1, <2>4 DEF storeVars, documentVars
<1>5. ASSUME NEW t \in Threads, Inject(t) PROVE Quiet \/ Patched
  <2> DEFINE patch == [p \in {LineState} |-> PAUSED]
  <2>1. StorePatch(patch) \/ UNCHANGED <<storeVars, changes>>
    BY <1>5 DEF Inject
  <2>2. Patch(patch)
    BY <1>0 DEF Patch, PAUSED, LineState, LineVersion
  <2> HIDE DEF patch
  <2> QED BY <2>1, <2>2 DEF storeVars, documentVars
<1>6. ASSUME BridgeServed PROVE Patched
  <2>1. PICK m \in late \cup {posting} :
          /\ Serve(m)
          /\ StorePatch([p \in {LineState, LineVersion} |->
                            IF p = LineState THEN m.line ELSE m.version])
    BY <1>6 DEF BridgeServed
  <2> DEFINE patch == [p \in {LineState, LineVersion} |->
                         IF p = LineState THEN m.line ELSE m.version]
  <2>2. m # NoPost
    <3>1. NoPost \notin late
      BY <1>0 DEF Pairs, NoPost, NoVersion
    <3> QED BY <2>1, <3>1 DEF Serve
  <2>3. m \in Pairs
    BY <1>0, <2>2
  <2>4. /\ m.line \in Int /\ m.version \in Nat
        /\ m = [line |-> m.line, version |-> m.version]
    BY <2>3 DEF Pairs, LineStates, RUN, PAUSED
  <2>5. /\ patch \in [{LineState, LineVersion} -> Int]
        /\ DOMAIN patch = {LineState, LineVersion}
        /\ patch[LineState] = m.line /\ patch[LineVersion] = m.version
    BY <2>4 DEF LineState, LineVersion
  <2>6. StorePatch(patch)
    BY <2>1
  <2> HIDE DEF patch
  <2>7. Patch(patch)
    BY <1>0, <2>2, <2>4, <2>5 DEF Patch
  <2> QED BY <2>6, <2>7
<1>7. ASSUME NEW t \in Threads, NEW i \in Intents, NEW q \in site.queries, Request(t, i, q)
      PROVE  Quiet
  BY <1>7 DEF Request, storeVars, documentVars
<1>8. ASSUME NEW t \in Threads, NEW p \in site.posted, NEW v \in WrittenValues, ContextPost(t, p, v)
      PROVE  Quiet
  BY <1>8 DEF ContextPost, Local, storeVars, documentVars
<1>9. ASSUME Replicate \/ CellStep \/ CellFault \/ Tick \/ XairRestart \/ \E i \in Intents : Revoke(i)
      PROVE  Quiet
  BY <1>9 DEF Replicate, CellStep, CellFault, Tick, XairRestart, Revoke, Served, storeVars,
              documentVars, gatewayVars
<1>10. UNCHANGED vars => Quiet
  BY DEF vars, storeVars, documentVars, gatewayVars
<1> HIDE DEF Quiet, Patched
<1>11. ASSUME NEW t \in Threads, ThreadStep(t) PROVE Quiet \/ Patched
  BY <1>11, <1>1, <1>2, <1>3, <1>4, <1>5 DEF ThreadStep
<1>12. Quiet \/ Patched
  BY <1>6, <1>7, <1>8, <1>9, <1>10, <1>11 DEF Next
<1> QED BY <1>12 DEF Quiet, Patched

-----------------------------------------------------------------------------
(* Steps of the cell *)

Enqueues(t) ==
  /\ Cross(t) /\ gw[t].act # "ros"
  /\ Enqueue(t, gw[t].id, gw[t].act, gw[t].witness, AgeBound)
  /\ Goto(t, "await")
  /\ UNCHANGED <<now, controllerVars, bridgeVars>>

Abandons(t) ==
  /\ Await(t)
  /\ Abandon(t)
  /\ UNCHANGED <<now, controllerVars, bridgeVars>>

CellMoves ==
  \/ \E value \in LineStates : SetState(value)
  \/ FastChange
  \/ Scan
  \/ BridgeTake
  \/ BridgeRaise
  \/ CellRestart
  \/ \E m \in late \cup {posting} : Serve(m)
  \/ \E t \in Threads : Enqueues(t) \/ Abandons(t)
  \/ UNCHANGED cellVars

\* A step of the cell's event loop or of a client of it, or none.
LEMMA CellSteps == [Next]_vars => CellMoves
<1>1. ASSUME NEW t \in Threads, ThreadStep(t) PROVE CellMoves
  <2>1. CASE \/ Unchecked(t) \/ Refresh(t) \/ LocalPolicy(t)
             \/ AuthoritativeRead(t) \/ AuthoritativeReread(t)
             \/ OpaValidate(t) \/ OpaGate(t) \/ PublishLocal(t)
             \/ GateRead(t) \/ GateCheck(t)
    <3>1. UNCHANGED cellVars
      BY <2>1 DEF Unchecked, Refresh, LocalPolicy, AuthoritativeRead, AuthoritativeReread,
                  OpaValidate, OpaGate, PublishLocal, GateRead, GateCheck, Local
    <3> QED BY <3>1 DEF CellMoves
  <2>2. CASE \/ SubmitAdmit(t) \/ SubmitClaim(t) \/ SubmitValidate(t)
             \/ CommitCall(t) \/ ReleaseGuard(t) \/ Report(t) \/ ReportedEffect(t)
    <3>1. UNCHANGED cellVars
      BY <2>2 DEF SubmitAdmit, SubmitClaim, SubmitValidate, CommitCall, ReleaseGuard, Report,
                  ReportedEffect, Served
    <3> QED BY <3>1 DEF CellMoves
  <2>3. CASE Cross(t)
    <3>1. Enqueues(t) \/ UNCHANGED cellVars
      BY <2>3 DEF Cross, Enqueues, cellVars
    <3> QED BY <3>1 DEF CellMoves
  <2>4. CASE Await(t)
    <3>1. Abandons(t)
      BY <2>4 DEF Await, Abandons
    <3> QED BY <3>1 DEF CellMoves
  <2>5. CASE ContextForward(t) \/ Inject(t)
    <3>1. UNCHANGED cellVars
      BY <2>5 DEF ContextForward, Inject
    <3> QED BY <3>1 DEF CellMoves
  <2> QED BY <1>1, <2>1, <2>2, <2>3, <2>4, <2>5 DEF ThreadStep
<1>2. ASSUME \/ \E t \in Threads, i \in Intents, q \in site.queries : Request(t, i, q)
             \/ \E t \in Threads, p \in site.posted, v \in WrittenValues : ContextPost(t, p, v)
             \/ Replicate \/ Tick \/ XairRestart
             \/ \E i \in Intents : Revoke(i)
      PROVE  CellMoves
  <2>1. UNCHANGED cellVars
    BY <1>2 DEF Request, ContextPost, Local, Replicate, Tick, XairRestart, Revoke, Served
  <2> QED BY <2>1 DEF CellMoves
<1>3. ASSUME BridgeServed PROVE CellMoves
  BY <1>3 DEF BridgeServed, CellMoves
<1>4. ASSUME CellStep PROVE CellMoves
  BY <1>4 DEF CellStep, CellTasks, CellMoves
<1>5. ASSUME CellFault PROVE CellMoves
  BY <1>5 DEF CellFault, CellMoves
<1>6. UNCHANGED vars => CellMoves
  BY DEF vars, CellMoves
<1> QED BY <1>1, <1>2, <1>3, <1>4, <1>5, <1>6 DEF Next

\* The clock advances or stands.
LEMMA ClockSteps == [Next]_vars => now' \in {now, now + 1}
<1>1. ASSUME NEW t \in Threads, ThreadStep(t) PROVE now' = now
  <2>1. CASE \/ Unchecked(t) \/ Refresh(t) \/ LocalPolicy(t)
             \/ AuthoritativeRead(t) \/ AuthoritativeReread(t)
             \/ OpaValidate(t) \/ OpaGate(t) \/ PublishLocal(t)
             \/ GateRead(t) \/ GateCheck(t)
    BY <2>1 DEF Unchecked, Refresh, LocalPolicy, AuthoritativeRead, AuthoritativeReread,
                OpaValidate, OpaGate, PublishLocal, GateRead, GateCheck, Local
  <2>2. CASE \/ SubmitAdmit(t) \/ SubmitClaim(t) \/ SubmitValidate(t)
             \/ CommitCall(t) \/ ReleaseGuard(t) \/ Report(t) \/ ReportedEffect(t)
    BY <2>2 DEF SubmitAdmit, SubmitClaim, SubmitValidate, CommitCall, ReleaseGuard, Report,
                ReportedEffect, Served
  <2>3. CASE Cross(t) \/ Await(t) \/ ContextForward(t) \/ Inject(t)
    BY <2>3 DEF Cross, Await, ContextForward, Inject
  <2> QED BY <1>1, <2>1, <2>2, <2>3 DEF ThreadStep
<1>2. ASSUME \/ \E t \in Threads, i \in Intents, q \in site.queries : Request(t, i, q)
             \/ \E t \in Threads, p \in site.posted, v \in WrittenValues : ContextPost(t, p, v)
             \/ Replicate \/ XairRestart
             \/ \E i \in Intents : Revoke(i)
      PROVE  now' = now
  BY <1>2 DEF Request, ContextPost, Local, Replicate, XairRestart, Revoke, Served
<1>3. ASSUME BridgeServed PROVE now' = now
  BY <1>3 DEF BridgeServed, Serve
<1>4. ASSUME CellStep PROVE now' = now
  <2>1. ASSUME NEW value \in LineStates, SetState(value) PROVE now' = now
    BY <2>1 DEF SetState
  <2>2. FastChange \/ BridgeTake => now' = now
    BY DEF FastChange, BridgeTake
  <2>3. Scan => now' = now
    BY DEF Scan
  <2> QED BY <1>4, <2>1, <2>2, <2>3 DEF CellStep, CellTasks
<1>5. ASSUME CellFault PROVE now' = now
  <2>1. CellRestart => now' = now
    BY DEF CellRestart
  <2> QED BY <1>5, <2>1 DEF CellFault, BridgeRaise
<1>6. Tick => now' = now + 1
  BY DEF Tick
<1>7. UNCHANGED vars => now' = now
  BY DEF vars
<1> QED BY <1>1, <1>2, <1>3, <1>4, <1>5, <1>6, <1>7 DEF Next

\* A sequence mapped element by element.
LEMMA MappedSeq ==
  ASSUME NEW S, NEW s \in Seq(S), NEW q, DOMAIN q = DOMAIN s, \A n \in DOMAIN s : q[n] \in S,
         q = [n \in DOMAIN s |-> q[n]]
  PROVE  q \in Seq(S)
BY LenProperties

\* The command a caller queues is one.
Queued(t) ==
  [id |-> gw[t].id, guard |-> gw[t].act, by |-> t,
   expected |-> IF gw[t].act = "version" THEN gw[t].witness ELSE NoVersion,
   deadline |-> IF gw[t].act = "plain" THEN NoDeadlineAt ELSE AgeBound]

LEMMA QueuedType ==
  ASSUME GatewayTypes, NEW t \in Threads, gw[t].act # "ros"
  PROVE  Queued(t) \in Command
<1>1. gw[t] \in Req /\ gw[t].id \in Commanded
  BY TypesGive, GatewayAssumption
<1>2. gw[t].act \in Guards
  BY <1>1 DEF Req, Actuators
<1>3. AgeBound \in Nat
  BY GatewayAssumption
<1> QED BY <1>1, <1>2, <1>3 DEF Queued, Command, GatewayTypes, LineVersions, Missing, Threads, NoVersion, NoDeadlineAt

\* Every step of the cell keeps its types.
LEMMA CellTypes == GatewayTypes /\ [Next]_vars => CellTypeOK'
<1> SUFFICES ASSUME GatewayTypes, [Next]_vars PROVE CellTypeOK'
  OBVIOUS
<1>0. /\ CellTypeOK /\ now' \in Nat /\ MaxCellVersion \in Nat
      /\ RUN \in LineStates /\ RUN \in BOOLEAN \cup Nat
  BY TypesGive, ClockSteps, CellAssumption DEF CellTypeOK, LineStates, RUN
<1>1. ASSUME NEW value \in LineStates, SetState(value) PROVE CellTypeOK'
  <2>1. CASE value = line
    BY <1>0, <1>1, <2>1 DEF SetState, CellTypeOK, commandVars
  <2>2. CASE value # line
    <3> DEFINE new == [line |-> value, version |-> cellVersion + 1]
    <3>1. /\ line' = value /\ cellVersion' = cellVersion + 1 /\ cellVersion < MaxCellVersion
          /\ persisted' \in {persisted, cellVersion + 1}
          /\ held' = held \cup {new} /\ bridgeQ' = Append(bridgeQ, new)
          /\ conveyor' \in BOOLEAN
          /\ UNCHANGED <<deployment, pending, answer, effects, published, posting, late>>
      BY <1>1, <2>2 DEF SetState, commandVars
    <3>2. new \in Pairs /\ cellVersion + 1 \in 0..MaxCellVersion
      BY <1>0, <3>1 DEF Pairs, CellTypeOK
    <3> HIDE DEF new
    <3>3. bridgeQ' \in Seq(Pairs)
      BY <1>0, <3>1, <3>2, AppendProperties DEF CellTypeOK
    <3> QED BY <1>0, <3>1, <3>2, <3>3 DEF CellTypeOK
  <2> QED BY <2>1, <2>2
<1>2. ASSUME FastChange PROVE CellTypeOK'
  <2> DEFINE new == [line |-> line, version |-> cellVersion + 1]
  <2>1. /\ cellVersion' = cellVersion + 1 /\ cellVersion < MaxCellVersion
        /\ held' = held \cup {new} /\ bridgeQ' = Append(bridgeQ, new)
        /\ UNCHANGED <<deployment, line, persisted, conveyor, pending, answer, effects,
                       published, posting, late>>
    BY <1>2 DEF FastChange, commandVars
  <2>2. new \in Pairs /\ cellVersion + 1 \in 0..MaxCellVersion
    BY <1>0, <2>1 DEF Pairs, CellTypeOK
  <2> HIDE DEF new
  <2>3. bridgeQ' \in Seq(Pairs)
    BY <1>0, <2>1, <2>2, AppendProperties DEF CellTypeOK
  <2> QED BY <1>0, <2>1, <2>2, <2>3 DEF CellTypeOK
<1>3. ASSUME Scan PROVE CellTypeOK'
  <2> DEFINE done == {n \in DOMAIN pending : Executes(pending[n])}
             new == {[id |-> pending[n].id, guard |-> pending[n].guard, line |-> line, at |-> now]
                       : n \in done}
  <2>1. /\ pending' = <<>>
        /\ effects' = effects \cup new
        /\ conveyor' \in BOOLEAN
        /\ UNCHANGED <<deployment, line, cellVersion, persisted, held, bridgeQ, published, posting,
                       late>>
    BY <1>3 DEF Scan, bridgeVars
  <2>2. answer' \in [Callers -> Answers]
    <3>1. \A c \in Callers : answer[c] \in Answers
      BY <1>0 DEF CellTypeOK
    <3> QED BY <1>3, <3>1 DEF Scan, Answers
  <2>3. new \subseteq Effect
    <3>1. \A n \in DOMAIN pending : pending[n] \in Command
      BY <1>0, ElementOfSeq, LenProperties DEF CellTypeOK
    <3> QED BY <1>0, <3>1 DEF Effect, Command, CellTypeOK
  <2> HIDE DEF new, done
  <2>4. pending' \in Seq(Command)
    BY <2>1, EmptySeq
  <2> QED BY <1>0, <2>1, <2>2, <2>3, <2>4 DEF CellTypeOK
<1>4. ASSUME BridgeTake PROVE CellTypeOK'
  <2>1. UNCHANGED <<deployment, line, cellVersion, persisted, conveyor, held,
                    pending, answer, effects, late>>
    BY <1>4 DEF BridgeTake, controllerVars, commandVars
  <2>2. Pair \in Pairs /\ bridgeQ \in Seq(Pairs)
    BY <1>0 DEF Pair, Pairs, CellTypeOK
  <2>3. /\ posting' \in Pairs \cup {NoPost}
        /\ bridgeQ' \in Seq(Pairs) /\ published' \in Pairs
    <3>1. CASE /\ bridgeQ # <<>>
               /\ posting' = Head(bridgeQ) /\ bridgeQ' = Tail(bridgeQ) /\ UNCHANGED published
      BY <1>0, <2>2, <3>1, HeadTailProperties DEF CellTypeOK
    <3>2. CASE /\ bridgeQ # <<>>
               /\ posting' = Last(bridgeQ) /\ bridgeQ' = <<>> /\ UNCHANGED published
      <4>1. Last(bridgeQ) \in Pairs
        BY <2>2, <3>2, LenProperties, ElementOfSeq, EmptySeq DEF Last
      <4> QED BY <1>0, <3>2, <4>1, EmptySeq DEF CellTypeOK
    <3>3. CASE posting' = Pair /\ published' = Pair /\ bridgeQ' = <<>>
      BY <2>2, <3>3, EmptySeq
    <3> QED BY <1>4, <3>1, <3>2, <3>3 DEF BridgeTake
  <2> QED BY <1>0, <2>1, <2>3 DEF CellTypeOK
<1>5. ASSUME BridgeRaise PROVE CellTypeOK'
  <2>1. /\ UNCHANGED <<deployment, line, cellVersion, persisted, conveyor, held,
                       pending, answer, effects, bridgeQ, published>>
        /\ posting' = NoPost /\ posting # NoPost /\ late' \in {late, late \cup {posting}}
    BY <1>5 DEF BridgeRaise, controllerVars, commandVars
  <2> QED BY <1>0, <2>1 DEF CellTypeOK
<1>6. ASSUME NEW m \in late \cup {posting}, Serve(m) PROVE CellTypeOK'
  <2>1. /\ UNCHANGED <<deployment, line, cellVersion, persisted, conveyor, held,
                       pending, answer, effects, bridgeQ, published>>
        /\ posting' \in {posting, NoPost} /\ late' \subseteq late
    BY <1>6 DEF Serve, controllerVars, commandVars
  <2> QED BY <1>0, <2>1 DEF CellTypeOK
<1>7. ASSUME CellRestart PROVE CellTypeOK'
  <2> DEFINE new == [line |-> RUN, version |-> Booted]
  <2>1. Booted \in 0..MaxCellVersion
    BY <1>0, <1>7 DEF CellRestart, Booted, CellTypeOK
  <2>2. new \in Pairs
    BY <1>0, <2>1 DEF Pairs
  <2>3. /\ line' = RUN /\ cellVersion' = Booted /\ persisted' \in {Booted, persisted}
        /\ conveyor' = FALSE /\ pending' = <<>> /\ held' = held \cup {new}
        /\ bridgeQ' = <<new>> /\ published' = new /\ posting' = NoPost
        /\ late' = IF posting = NoPost THEN late ELSE late \cup {posting}
        /\ UNCHANGED <<deployment, effects>>
    BY <1>7 DEF CellRestart
  <2>4. answer' \in [Callers -> Answers]
    <3>1. \A c \in Callers : answer[c] \in Answers
      BY <1>0 DEF CellTypeOK
    <3> QED BY <1>7, <3>1 DEF CellRestart, Answers
  <2> HIDE DEF new
  <2>5. bridgeQ' \in Seq(Pairs) /\ pending' \in Seq(Command)
    BY <2>2, <2>3, EmptySeq
  <2> QED BY <1>0, <2>1, <2>2, <2>3, <2>4, <2>5 DEF CellTypeOK
<1>8. ASSUME NEW t \in Threads, Enqueues(t) PROVE CellTypeOK'
  <2>1. /\ UNCHANGED <<deployment, line, cellVersion, persisted, conveyor, held, effects,
                       bridgeQ, published, posting, late>>
        /\ pending' = Append(pending, Queued(t))
        /\ answer' = [answer EXCEPT ![t] = "none"]
        /\ gw[t].act # "ros"
    BY <1>8 DEF Enqueues, Enqueue, Queued, controllerVars, bridgeVars
  <2>2. pending' \in Seq(Command)
    BY <1>0, <2>1, QueuedType, AppendProperties DEF CellTypeOK
  <2>3. answer' \in [Callers -> Answers]
    BY <1>0, <2>1 DEF CellTypeOK, Answers
  <2> QED BY <1>0, <2>1, <2>2, <2>3 DEF CellTypeOK
<1>9. ASSUME NEW t \in Threads, Abandons(t) PROVE CellTypeOK'
  <2>1. /\ UNCHANGED <<deployment, line, cellVersion, persisted, conveyor, held, effects,
                       bridgeQ, published, posting, late>>
        /\ pending' = [n \in DOMAIN pending |->
                         IF pending[n].by = t THEN [pending[n] EXCEPT !.by = NoCaller]
                         ELSE pending[n]]
        /\ answer' = [answer EXCEPT ![t] = "none"]
    BY <1>9 DEF Abandons, Abandon, controllerVars, bridgeVars
  <2>2. pending \in Seq(Command)
    BY <1>0 DEF CellTypeOK
  <2>3. \A n \in DOMAIN pending : pending[n] \in Command
    BY <2>2, ElementOfSeq, LenProperties
  <2>4. \A n \in DOMAIN pending : pending'[n] \in Command
    BY <2>1, <2>3 DEF Command
  <2>5. pending' \in Seq(Command)
    BY <2>1, <2>2, <2>4, MappedSeq
  <2>6. answer' \in [Callers -> Answers]
    BY <1>0, <2>1 DEF CellTypeOK, Answers
  <2> QED BY <1>0, <2>1, <2>5, <2>6 DEF CellTypeOK
<1>10. ASSUME UNCHANGED cellVars PROVE CellTypeOK'
  BY <1>0, <1>10 DEF CellTypeOK, cellVars, controllerVars, commandVars, bridgeVars
<1> QED BY CellSteps, <1>1, <1>2, <1>3, <1>4, <1>5, <1>6, <1>7, <1>8, <1>9, <1>10 DEF CellMoves

-----------------------------------------------------------------------------
(* Steps of the log, the claims and the history *)

Claims(t) ==
  /\ SubmitClaim(t) /\ gw[t].id \notin claims
  /\ claims' = claims \cup {gw[t].id}
  /\ UNCHANGED logVars

Commits(t) ==
  /\ CommitCall(t) /\ gw[t].id \notin committed
  /\ actuations' = Append(actuations, [id |-> gw[t].id, kind |-> "auth"])
  /\ committed' = committed \cup {gw[t].id}
  /\ UNCHANGED claims

Withholds(t) ==
  /\ ReleaseGuard(t) /\ End(t)
  /\ actuations' = Append(actuations, [id |-> gw[t].id, kind |-> "withheld"])
  /\ UNCHANGED <<committed, claims>>

\* One id is claimed or one record logged, or none.
LEMMA LogSteps ==
  ASSUME [Next]_vars
  PROVE  \/ UNCHANGED <<logVars, claims>>
         \/ \E t \in Threads : Claims(t) \/ Commits(t) \/ Withholds(t)
<1> DEFINE Quiet == UNCHANGED <<logVars, claims>>
           Logs(t) == Claims(t) \/ Commits(t) \/ Withholds(t)
<1>1. ASSUME NEW t \in Threads,
             \/ Unchecked(t) \/ Refresh(t) \/ LocalPolicy(t)
             \/ AuthoritativeRead(t) \/ AuthoritativeReread(t)
             \/ OpaValidate(t) \/ OpaGate(t) \/ PublishLocal(t)
             \/ GateRead(t) \/ GateCheck(t)
      PROVE  Quiet
  BY <1>1 DEF Unchecked, Refresh, LocalPolicy, AuthoritativeRead, AuthoritativeReread,
              OpaValidate, OpaGate, PublishLocal, GateRead, GateCheck, Local, storeVars, logVars
<1>2. ASSUME NEW t \in Threads,
             SubmitAdmit(t) \/ SubmitValidate(t) \/ Report(t) \/ ReportedEffect(t)
      PROVE  Quiet
  BY <1>2 DEF SubmitAdmit, SubmitValidate, Report, ReportedEffect, storeVars, logVars
<1>3. ASSUME NEW t \in Threads, SubmitClaim(t) PROVE Quiet \/ Logs(t)
  BY <1>3 DEF SubmitClaim, Claims, Claim, storeVars, logVars
<1>4. ASSUME NEW t \in Threads, CommitCall(t) PROVE Quiet \/ Logs(t)
  <2> DEFINE i == gw[t].id
             status == CommitStatus(i, DOMAIN Admissible[i], records[i].readSetVersion, now, AgeBound, 0)
  <2>1. Commit(i, status) \/ UNCHANGED storeVars
    BY <1>4 DEF CommitCall
  <2>2. status = "committed" => i \notin committed
    BY DEF CommitStatus
  <2> HIDE DEF status
  <2> QED BY <1>4, <2>1, <2>2 DEF Commit, Commits, storeVars, logVars
<1>5. ASSUME NEW t \in Threads, ReleaseGuard(t) PROVE Quiet \/ Logs(t)
  <2>1. UNCHANGED storeVars \/ (AppendActuation(gw[t].id, "withheld") /\ End(t))
    BY <1>5 DEF ReleaseGuard
  <2> QED BY <1>5, <2>1 DEF AppendActuation, Withholds, storeVars, logVars
<1>6. ASSUME NEW t \in Threads, Cross(t) \/ Await(t) PROVE Quiet
  BY <1>6 DEF Cross, Await, storeVars, logVars
<1>7. ASSUME NEW patch, StorePatch(patch) PROVE Quiet
  BY <1>7 DEF StorePatch, Apply, logVars
<1>8. ASSUME NEW t \in Threads, ContextForward(t) \/ Inject(t) PROVE Quiet
  <2>1. UNCHANGED storeVars \/ \E patch : StorePatch(patch)
    BY <1>8 DEF ContextForward, Inject
  <2> QED BY <1>7, <2>1 DEF storeVars, logVars
<1>9. ASSUME BridgeServed PROVE Quiet
  <2>1. \E patch : StorePatch(patch)
    BY <1>9 DEF BridgeServed
  <2> QED BY <1>7, <2>1
<1>10. ASSUME \/ \E t \in Threads, i \in Intents, q \in site.queries : Request(t, i, q)
              \/ \E t \in Threads, p \in site.posted, v \in WrittenValues : ContextPost(t, p, v)
              \/ Replicate \/ CellStep \/ CellFault \/ Tick \/ XairRestart
              \/ \E i \in Intents : Revoke(i)
       PROVE  Quiet
  BY <1>10 DEF Request, ContextPost, Local, Replicate, CellStep, CellFault, Tick, XairRestart,
               Revoke, storeVars, logVars
<1>11. UNCHANGED vars => Quiet
  BY DEF vars, storeVars, logVars
<1> HIDE DEF Quiet, Logs
<1>12. ASSUME NEW t \in Threads, ThreadStep(t) PROVE Quiet \/ Logs(t)
  BY <1>12, <1>1, <1>2, <1>3, <1>4, <1>5, <1>6, <1>8 DEF ThreadStep
<1>13. Quiet \/ \E t \in Threads : Logs(t)
  BY <1>9, <1>10, <1>11, <1>12 DEF Next
<1> QED BY <1>13 DEF Quiet, Logs

\* The steps of the local modes that publish.
LocalReleases == {"direct", "naive", "local", "publish"}

\* Thread t makes a release that an XAIR mode counts.
Counts(t) ==
  /\ ThreadStep(t) /\ gw[t].mode \in XairModes
  /\ Cross(t) \/ gw[t].pc \in LocalReleases
  /\ crossings' = [crossings EXCEPT ![gw[t].id] = @ + 1]

LEMMA CrossingSteps ==
  ASSUME [Next]_vars
  PROVE  UNCHANGED crossings \/ \E t \in Threads : Counts(t)
<1>1. ASSUME NEW t \in Threads, ThreadStep(t) PROVE UNCHANGED crossings \/ Counts(t)
  <2>1. CASE Unchecked(t) \/ LocalPolicy(t) \/ PublishLocal(t)
    BY <1>1, <2>1 DEF Unchecked, LocalPolicy, PublishLocal, Publish, Counts, LocalReleases, At
  <2>2. CASE Cross(t)
    BY <1>1, <2>2 DEF Cross, Publish, Counts
  <2>3. CASE \/ Refresh(t) \/ AuthoritativeRead(t) \/ AuthoritativeReread(t)
             \/ OpaValidate(t) \/ OpaGate(t) \/ GateRead(t) \/ GateCheck(t)
    BY <2>3 DEF Refresh, AuthoritativeRead, AuthoritativeReread, OpaValidate, OpaGate, GateRead,
                GateCheck
  <2>4. CASE \/ SubmitAdmit(t) \/ SubmitClaim(t) \/ SubmitValidate(t)
             \/ CommitCall(t) \/ ReleaseGuard(t) \/ Report(t) \/ ReportedEffect(t)
    BY <2>4 DEF SubmitAdmit, SubmitClaim, SubmitValidate, CommitCall, ReleaseGuard, Report,
                ReportedEffect
  <2>5. CASE Await(t) \/ ContextForward(t) \/ Inject(t)
    BY <2>5 DEF Await, ContextForward, Inject
  <2> QED BY <1>1, <2>1, <2>2, <2>3, <2>4, <2>5 DEF ThreadStep
<1>2. ASSUME \/ \E t \in Threads, i \in Intents, q \in site.queries : Request(t, i, q)
             \/ \E t \in Threads, p \in site.posted, v \in WrittenValues : ContextPost(t, p, v)
             \/ BridgeServed \/ Replicate \/ CellStep \/ CellFault \/ Tick \/ XairRestart
             \/ \E i \in Intents : Revoke(i)
      PROVE  UNCHANGED crossings
  BY <1>2 DEF Request, ContextPost, BridgeServed, Replicate, CellStep, CellFault, Tick,
              XairRestart, Revoke, gatewayVars
<1>3. UNCHANGED vars => UNCHANGED crossings
  BY DEF vars, gatewayVars
<1> QED BY <1>1, <1>2, <1>3 DEF Next

-----------------------------------------------------------------------------
(* Every step keeps the types *)

\* The installation stays, and the policy engine's document is its last copy or
\* the store's.
LEMMA ReplicaSteps ==
  ASSUME [Next]_vars
  PROVE  site' = site /\ (opa' = opa \/ opa' = Snapshot)
<1>1. ASSUME NEW t \in Threads, ThreadStep(t) PROVE site' = site /\ opa' = opa
  <2>1. CASE \/ Unchecked(t) \/ Refresh(t) \/ LocalPolicy(t)
             \/ AuthoritativeRead(t) \/ AuthoritativeReread(t)
             \/ OpaValidate(t) \/ OpaGate(t) \/ PublishLocal(t)
             \/ GateRead(t) \/ GateCheck(t)
    BY <2>1 DEF Unchecked, Refresh, LocalPolicy, AuthoritativeRead, AuthoritativeReread,
                OpaValidate, OpaGate, PublishLocal, GateRead, GateCheck, Local
  <2>2. CASE \/ SubmitAdmit(t) \/ SubmitClaim(t) \/ SubmitValidate(t)
             \/ CommitCall(t) \/ ReleaseGuard(t) \/ Report(t) \/ ReportedEffect(t)
    BY <2>2 DEF SubmitAdmit, SubmitClaim, SubmitValidate, CommitCall, ReleaseGuard, Report,
                ReportedEffect, Served
  <2>3. CASE Cross(t) \/ Await(t) \/ ContextForward(t) \/ Inject(t)
    BY <2>3 DEF Cross, Await, ContextForward, Inject
  <2> QED BY <1>1, <2>1, <2>2, <2>3 DEF ThreadStep
<1>2. ASSUME \/ \E t \in Threads, i \in Intents, q \in site.queries : Request(t, i, q)
             \/ \E t \in Threads, p \in site.posted, v \in WrittenValues : ContextPost(t, p, v)
             \/ BridgeServed \/ CellStep \/ CellFault \/ Tick \/ XairRestart
             \/ \E i \in Intents : Revoke(i)
      PROVE  site' = site /\ opa' = opa
  BY <1>2 DEF Request, ContextPost, Local, BridgeServed, CellStep, CellFault, Tick, XairRestart,
              Revoke, Served, gatewayVars
<1>3. Replicate => site' = site /\ (opa' = opa \/ opa' = Snapshot)
  BY DEF Replicate
<1>4. UNCHANGED vars => site' = site /\ opa' = opa
  BY DEF vars, gatewayVars
<1> QED BY <1>1, <1>2, <1>3, <1>4 DEF Next

\* The adapter's cache, the injections and the count of faults.
LEMMA OtherSteps ==
  ASSUME GatewayTypes, [Next]_vars
  PROVE  /\ injecting' \subseteq Threads
         /\ cache' \in [Paths -> Int]
         /\ faults' \in {faults, faults + 1} /\ (faults' # faults => faults < MaxFaults)
<1> DEFINE Goal == /\ injecting' \subseteq Threads
                   /\ cache' \in [Paths -> Int]
                   /\ faults' \in {faults, faults + 1} /\ (faults' # faults => faults < MaxFaults)
<1>0. injecting \subseteq Threads /\ cache \in [Paths -> Int] /\ context \in [Paths -> Int]
  BY DEF GatewayTypes, GatewayTypeOK
<1>1. ASSUME NEW t \in Threads, ThreadStep(t) PROVE Goal
  <2>1. CASE \/ Unchecked(t) \/ LocalPolicy(t)
             \/ AuthoritativeRead(t) \/ AuthoritativeReread(t)
             \/ OpaValidate(t) \/ OpaGate(t) \/ PublishLocal(t)
             \/ GateRead(t) \/ GateCheck(t)
    BY <1>0, <2>1 DEF Unchecked, LocalPolicy, AuthoritativeRead, AuthoritativeReread,
                OpaValidate, OpaGate, PublishLocal, GateRead, GateCheck, Local, Fault
  <2>2. CASE Refresh(t)
    <3>1. cache' \in [Paths -> Int]
      BY <1>0, <2>2 DEF Refresh
    <3> QED BY <1>0, <2>2, <3>1 DEF Refresh, Local, Fault
  <2>3. CASE \/ SubmitAdmit(t) \/ SubmitClaim(t) \/ SubmitValidate(t)
             \/ CommitCall(t) \/ ReleaseGuard(t) \/ Report(t) \/ ReportedEffect(t)
    BY <1>0, <2>3 DEF SubmitAdmit, SubmitClaim, SubmitValidate, Injects, CommitCall, ReleaseGuard,
                Report, ReportedEffect, Served, Fault
  <2>4. CASE Cross(t) \/ Await(t) \/ ContextForward(t) \/ Inject(t)
    BY <1>0, <2>4 DEF Cross, Await, ContextForward, Inject, Fault
  <2> QED BY <1>1, <2>1, <2>2, <2>3, <2>4 DEF ThreadStep
<1>2. ASSUME \/ \E t \in Threads, i \in Intents, q \in site.queries : Request(t, i, q)
             \/ BridgeServed \/ Replicate \/ CellStep \/ CellFault \/ Tick \/ XairRestart
             \/ \E i \in Intents : Revoke(i)
      PROVE  Goal
  BY <1>0, <1>2 DEF Request, BridgeServed, Replicate, CellStep, CellFault, Tick, XairRestart,
              Revoke, Served, gatewayVars, Fault
<1>3. ASSUME NEW t \in Threads, NEW p \in site.posted, NEW v \in WrittenValues, ContextPost(t, p, v)
      PROVE  Goal
  <2>1. v \in Int
    BY GatewayAssumption
  <2> QED BY <1>0, <1>3, <2>1 DEF ContextPost, Local
<1>4. UNCHANGED vars => Goal
  BY <1>0 DEF vars, gatewayVars
<1> HIDE DEF Goal
<1>5. Goal
  BY <1>1, <1>2, <1>3, <1>4 DEF Next
<1> QED BY <1>5 DEF Goal

LEMMA GatewayTypesInit == Init => GatewayTypes
<1> SUFFICES ASSUME Init PROVE GatewayTypes
  OBVIOUS
<1>1. RuntimeTypeOK
  BY TypeInit DEF Init
<1>2. CellTypeOK
  <2>1. /\ [line |-> RUN, version |-> 1] \in Pairs
        /\ 1 \in 0..MaxCellVersion /\ RUN \in LineStates
    BY CellAssumption DEF Pairs, LineStates
  <2>2. /\ bridgeQ = <<[line |-> RUN, version |-> 1]>>
        /\ pending = <<>>
        /\ held = {[line |-> RUN, version |-> 1]}
        /\ published = [line |-> RUN, version |-> 1]
    BY DEF Init, CellInit
  <2>3. bridgeQ \in Seq(Pairs) /\ pending \in Seq(Command)
    BY <2>1, <2>2, EmptySeq
  <2>4. held \subseteq Pairs /\ published \in Pairs
    BY <2>1, <2>2
  <2>5. /\ deployment \in Deployments /\ now = 0 /\ line = RUN /\ cellVersion = 1 /\ persisted = 1
        /\ conveyor = FALSE /\ answer = [c \in Callers |-> "none"] /\ posting = NoPost
        /\ late = {} /\ effects = {}
    BY DEF Init, CellInit
  <2>6. answer \in [Callers -> Answers]
    BY <2>5 DEF Answers
  <2> QED BY <2>1, <2>3, <2>4, <2>5, <2>6 DEF CellTypeOK
<1>3. 0 \in Versions /\ 1 \in Versions
  BY RuntimeAssumption, GatewayAssumption DEF Versions
<1>4. /\ version \in Versions /\ context \in [Paths -> Int] /\ pathVersions \in [Paths -> Versions]
      /\ context[LineVersion] = Missing
  BY <1>3, GatewayAssumption DEF Init, Missing, OtherPaths
<1>5. gw = [t \in Threads |-> Idle]
  BY DEF Init
<1>6. gw \in [Threads -> Req]
  BY <1>5, IdleType
<1>7. \A t \in Threads :
        /\ gw[t].pc = "idle" /\ gw[t].ctx[LineVersion] = Missing /\ gw[t].witness = NoVersion
  BY <1>5, GatewayAssumption DEF Idle
<1>8. opa \in Documents
  BY <1>4 DEF Init, Snapshot, Documents
<1>9. /\ injecting = {} /\ cache = context /\ faults = 0 /\ site \in Sites
      /\ crossings = [i \in Intents |-> 0]
  BY DEF Init
<1>10. actuations \in Seq(Logged)
  BY EmptySeq DEF Init
<1>11. GatewayTypeOK
  <2>1. crossings \in [Intents -> Nat] /\ faults \in 0..MaxFaults
    BY <1>9, GatewayAssumption
  <2> QED BY <1>1, <1>2, <1>4, <1>6, <1>9, <2>1 DEF GatewayTypeOK, Req
<1> QED BY <1>4, <1>7, <1>8, <1>9, <1>10, <1>11 DEF GatewayTypes, LineVersions, At, Missing, NoVersion

LEMMA GatewayTypesStep == GatewayTypes /\ [Next]_vars => GatewayTypes'
<1> SUFFICES ASSUME GatewayTypes, [Next]_vars PROVE GatewayTypes'
  OBVIOUS
<1>1. RuntimeTypeOK'
  BY TypesGive, RuntimeSteps, TypeStep
<1>2. CellTypeOK'
  BY CellTypes
<1>3. gw' \in [Threads -> Req]
  BY ThreadMoves
<1>4. /\ version' \in Versions /\ context' \in [Paths -> Int]
      /\ pathVersions' \in [Paths -> Versions]
      /\ context'[LineVersion] \in LineVersions
  <2>1. CASE UNCHANGED <<documentVars, changes>>
    BY <2>1, TypesGive DEF documentVars, GatewayTypes
  <2>2. ASSUME NEW patch, Patch(patch), StorePatch(patch)
        PROVE  /\ version' \in Versions /\ context' \in [Paths -> Int]
               /\ pathVersions' \in [Paths -> Versions]
               /\ context'[LineVersion] \in LineVersions
    <3>1. /\ version < MaxVersion /\ version' = version + 1
          /\ context' = [p \in Paths |-> IF p \in DOMAIN patch THEN patch[p] ELSE context[p]]
          /\ pathVersions' = [p \in Paths |-> IF context'[p] # context[p] THEN version + 1
                                              ELSE pathVersions[p]]
      BY <2>2 DEF StorePatch, Apply, CanUpdate
    <3>2. version + 1 \in Versions
      BY <3>1, TypesGive, RuntimeAssumption DEF Versions
    <3>3. context' \in [Paths -> Int]
      BY <2>2, <3>1, TypesGive DEF Patch
    <3>4. pathVersions' \in [Paths -> Versions]
      BY <3>1, <3>2, TypesGive
    <3>5. context'[LineVersion] \in LineVersions
      BY <2>2, <3>1, GatewayAssumption DEF Patch, GatewayTypes, LineVersions
    <3> QED BY <3>1, <3>2, <3>3, <3>4, <3>5
  <2> QED BY <2>1, <2>2, DocumentSteps
<1>5. opa' \in Documents /\ site' \in Sites
  BY ReplicaSteps, TypesGive DEF Snapshot, Documents
<1>6. actuations' \in Seq(Logged)
  <2>1. \A t \in Threads, kind \in {"auth", "withheld"} :
          Append(actuations, [id |-> gw[t].id, kind |-> kind]) \in Seq(Logged)
    BY TypesGive, AppendProperties DEF GatewayTypes, Logged
  <2> QED BY <2>1, LogSteps DEF GatewayTypes, Claims, Commits, Withholds, logVars
<1>7. crossings' \in [Intents -> Nat]
  <2>1. crossings \in [Intents -> Nat]
    BY DEF GatewayTypes, GatewayTypeOK
  <2> QED BY <2>1, CrossingSteps, TypesGive DEF Counts
<1>8. /\ injecting' \subseteq Threads /\ cache' \in [Paths -> Int] /\ faults' \in 0..MaxFaults
  <2>1. faults \in 0..MaxFaults /\ MaxFaults \in Nat
    BY GatewayAssumption DEF GatewayTypes, GatewayTypeOK
  <2> QED BY <2>1, OtherSteps
<1>9. GatewayTypeOK'
  BY <1>1, <1>2, <1>3, <1>4, <1>7, <1>8 DEF GatewayTypeOK, Req
<1>10. ASSUME NEW t \in Threads
       PROVE  /\ gw'[t].pc = "effect" => gw'[t].effect # "NONE"
              /\ gw'[t].pc = "forward" => /\ gw'[t].ctx[LineState] = Missing
                                          /\ gw'[t].ctx[LineVersion] = Missing
              /\ gw'[t].ctx[LineVersion] \in LineVersions /\ gw'[t].witness \in LineVersions
  <2>1. Moves(t)
    BY ThreadMoves
  <2>2. /\ Idle.pc = "idle" /\ Idle.witness = NoVersion /\ Idle.ctx[LineVersion] = Missing
        /\ NoVersion \in LineVersions /\ Missing \in LineVersions
    BY GatewayAssumption DEF Idle, LineVersions, NoVersion, Missing
  <2>3. CASE gw'[t] = gw[t]
    BY <2>3 DEF GatewayTypes, At
  <2>4. CASE gw'[t] = Idle
    BY <2>2, <2>4
  <2>5. CASE Edge(gw[t], gw'[t])
    <3>1. /\ gw[t].ctx[LineVersion] \in LineVersions /\ gw[t].witness \in LineVersions
          /\ context[LineVersion] \in LineVersions
      BY DEF GatewayTypes
    <3>2. gw'[t].pc # "forward"
      BY <2>5 DEF Edge, Edges
    <3> QED BY <2>2, <2>5, <3>1, <3>2 DEF Edge
  <2>6. CASE Begins(gw'[t])
    BY <2>2, <2>6 DEF Begins, FirstSteps
  <2> QED BY <2>1, <2>3, <2>4, <2>5, <2>6 DEF Moves
<1> QED BY <1>3, <1>4, <1>5, <1>6, <1>9, <1>10 DEF GatewayTypes, At

LEMMA GatewayTypesHold == Spec => []GatewayTypes
BY GatewayTypesInit, GatewayTypesStep, PTL DEF Spec

\* In every reachable state the gateway's requests, the store, XAIR's records,
\* the controller and its replicas hold values of their types.
THEOREM GatewayTypeCorrect == Spec => []GatewayTypeOK
<1>1. GatewayTypes => GatewayTypeOK
  BY DEF GatewayTypes
<1> QED BY <1>1, GatewayTypesHold, PTL

\* Whatever its threads, the cell and the faults do, the gateway makes XAIR's
\* runtime take steps of its own specification only.
THEOREM GatewayRunsRuntime == Spec => RuntimeSpec
<1>1. Init => RuntimeInit
  BY DEF Init
<1> QED BY <1>1, GatewayTypesHold, RuntimeSteps, PTL DEF Spec, RuntimeSpec

-----------------------------------------------------------------------------
(* Modes *)

\* What the step of a request that moves is, by where it stands.
ActsAt(u) ==
  /\ At(u, "read") => AuthoritativeRead(u)
  /\ At(u, "reread") => AuthoritativeReread(u)
  /\ At(u, "opa_validate") => OpaValidate(u)
  /\ At(u, "opa_gate") => OpaGate(u)
  /\ At(u, "submit") => SubmitAdmit(u)
  /\ At(u, "claim") => SubmitClaim(u)
  /\ At(u, "validate") => SubmitValidate(u)
  /\ At(u, "gate_read") => GateRead(u)
  /\ At(u, "gate") => GateCheck(u)
  /\ At(u, "commit") => CommitCall(u)
  /\ At(u, "guard") => ReleaseGuard(u)
  /\ At(u, "cross") => Cross(u)
  /\ At(u, "await") => Await(u)
  /\ At(u, "report") => Report(u)
  /\ At(u, "effect") => ReportedEffect(u)

LEMMA Actor ==
  ASSUME GatewayTypes, NEW u \in Threads, ThreadStep(u), gw'[u] # gw[u]
  PROVE  ActsAt(u)
<1>1. ~Inject(u)
  BY DEF Inject
<1>2. CASE \/ Unchecked(u) \/ Refresh(u) \/ LocalPolicy(u)
           \/ AuthoritativeRead(u) \/ AuthoritativeReread(u)
           \/ OpaValidate(u) \/ OpaGate(u) \/ PublishLocal(u)
  BY <1>2 DEF ActsAt, At, Unchecked, Refresh, LocalPolicy, AuthoritativeRead, AuthoritativeReread,
              OpaValidate, OpaGate, PublishLocal
<1>3. CASE \/ SubmitAdmit(u) \/ SubmitClaim(u) \/ SubmitValidate(u)
           \/ GateRead(u) \/ GateCheck(u) \/ CommitCall(u) \/ ReleaseGuard(u)
  <2>1. /\ SubmitAdmit(u) => At(u, "submit")
        /\ SubmitClaim(u) => At(u, "claim")
        /\ SubmitValidate(u) => At(u, "validate")
        /\ GateRead(u) => At(u, "gate_read")
        /\ GateCheck(u) => At(u, "gate")
        /\ CommitCall(u) => At(u, "commit")
        /\ ReleaseGuard(u) => At(u, "guard")
    BY DEF SubmitAdmit, SubmitClaim, SubmitValidate, GateRead, GateCheck, CommitCall, ReleaseGuard
  <2> QED BY <1>3, <2>1 DEF ActsAt, At
<1>4. CASE Cross(u) \/ Await(u) \/ Report(u) \/ ReportedEffect(u) \/ ContextForward(u)
  <2>1. /\ Cross(u) => At(u, "cross")
        /\ Await(u) => At(u, "await")
        /\ Report(u) => At(u, "report")
        /\ ReportedEffect(u) => At(u, "effect")
        /\ ContextForward(u) => At(u, "forward")
    BY DEF Cross, Await, Report, ReportedEffect, ContextForward
  <2> QED BY <1>4, <2>1 DEF ActsAt, At
<1> QED BY <1>1, <1>2, <1>3, <1>4 DEF ThreadStep

XairSteps == {"submit", "claim", "validate", "gate_read", "gate", "commit", "guard", "cross",
              "await", "report", "effect"}

\* A request is where its mode leads: the XAIR modes alone reach XAIR's steps,
\* the optimistic one the gate and the atomic one the commit.  A request has an
\* effect status once its call of the middleware returned.
Placed(g) ==
  /\ g.pc \in XairSteps <=> g.mode \in XairModes
  /\ g.pc \in {"gate_read", "gate"} => g.mode = "xair"
  /\ g.pc \in {"commit", "guard"} => g.mode = "xair_atomic"
  /\ g.pc \in {"opa_validate", "opa_gate"} => g.mode \in {"opa", "opa_readset"}
  /\ g.pc \notin {"report", "effect"} => g.effect = "NONE"
  /\ g.pc \in FirstSteps => g.witness = NoVersion

ModesInv == \A t \in Threads : Placed(gw[t])

\* A validated request goes to the middleware if it is a stop, to the commit in
\* the atomic mode and to the gate in the other.
LEMMA ValidatedTo ==
  ASSUME GatewayTypes, NEW t \in Threads, SubmitValidate(t), gw'[t] # Idle
  PROVE  /\ gw'[t].pc = AfterValidation(t)
         /\ gw'[t].act = IF gw[t].id \in stopClass THEN "ros" ELSE gw[t].act
         /\ gw'[t].seen = version
         /\ gw'[t].expected = GateVersion(gw[t].scope, records'[gw[t].id].contextVersion,
                                          records'[gw[t].id].readSetVersion)
         /\ gw'[t].witness = IF LineVersion \in DOMAIN Admissible[gw[t].id]
                             THEN context[LineVersion] ELSE NoVersion
         /\ records'[gw[t].id].outcome = "EXECUTE"
<1>0. gw \in [Threads -> Req] /\ gw[t] \in Req
  BY TypesGive
<1>1. ~End(t)
  BY <1>0 DEF End
<1> DEFINE i == gw[t].id
           pc == AfterValidation(t)
           act == IF i \in stopClass THEN "ros" ELSE gw[t].act
           e == GateVersion(gw[t].scope, records'[i].contextVersion, records'[i].readSetVersion)
           w == IF LineVersion \in DOMAIN Admissible[i] THEN context[LineVersion] ELSE NoVersion
           h == [gw[t] EXCEPT !.pc = pc, !.act = act, !.seen = version, !.expected = e,
                              !.witness = w]
<1>2. gw' = [gw EXCEPT ![t] = h] /\ records'[i].outcome = "EXECUTE"
  BY <1>0, <1>1 DEF SubmitValidate
<1> HIDE DEF pc, act, e, w
<1>3. /\ gw'[t].pc = pc /\ gw'[t].act = act /\ gw'[t].seen = version
      /\ gw'[t].expected = e /\ gw'[t].witness = w
  BY <1>0, <1>2 DEF Req
<1> QED BY <1>2, <1>3 DEF pc, act, e, w

LEMMA ModesStep == GatewayTypes /\ ModesInv /\ [Next]_vars => ModesInv'
<1> SUFFICES ASSUME GatewayTypes, ModesInv, [Next]_vars, NEW t \in Threads
             PROVE  Placed(gw'[t])
  BY DEF ModesInv
<1>0. Moves(t) /\ Placed(gw[t]) /\ gw[t] \in Req /\ gw'[t] \in Req
  BY ThreadMoves, TypesGive DEF ModesInv
<1>1. CASE gw'[t] = gw[t]
  BY <1>0, <1>1
<1>2. CASE gw'[t] = Idle
  BY <1>2 DEF Idle, Placed, XairSteps, XairModes, FirstSteps
<1>3. CASE Begins(gw'[t])
  BY <1>3 DEF Begins, Placed, XairSteps, FirstSteps
<1>4. CASE ThreadStep(t) /\ Edge(gw[t], gw'[t]) /\ gw'[t] # gw[t] /\ gw'[t] # Idle
  <2> DEFINE g == gw[t]
             h == gw'[t]
  <2>1. h.pc \in XairSteps <=> h.mode \in XairModes
    BY <1>0, <1>4 DEF Edge, Edges, Placed, XairSteps
  <2>2. h.pc \notin {"report", "effect"} => h.effect = "NONE"
    BY <1>0, <1>4 DEF Edge, Edges, Placed
  <2>3. h.pc \in FirstSteps => h.witness = NoVersion
    BY <1>0, <1>4 DEF Edge, Edges, Placed, FirstSteps
  <2>4. CASE g.pc = "validate"
    <3>1. SubmitValidate(t)
      BY <1>4, <2>4, Actor DEF ActsAt, At
    <3>2. h.pc = AfterValidation(t)
      BY <1>4, <3>1, ValidatedTo
    <3>3. h.mode = g.mode /\ g.mode \in XairModes
      BY <1>0, <1>4, <2>4 DEF Edge, Placed, XairSteps
    <3> QED BY <2>1, <2>2, <2>3, <3>2, <3>3 DEF AfterValidation, Placed, XairModes
  <2>5. CASE g.pc # "validate"
    BY <1>0, <1>4, <2>1, <2>2, <2>3, <2>5 DEF Edge, Edges, Placed
  <2> QED BY <2>4, <2>5
<1> QED BY <1>0, <1>1, <1>2, <1>3, <1>4 DEF Moves

LEMMA ModesInit == Init => ModesInv
<1>1. Placed(Idle)
  BY DEF Idle, Placed, XairSteps, XairModes, FirstSteps
<1> QED BY <1>1 DEF Init, ModesInv

\* The XAIR modes count a crossing only when they make the middleware call.
LEMMA CountsCross ==
  ASSUME GatewayTypes, ModesInv, NEW t \in Threads, Counts(t)
  PROVE  /\ At(t, "cross")
         /\ gw'[t].pc \in {"await", "report"}
         /\ crossings' = [crossings EXCEPT ![gw[t].id] = @ + 1]
<1>1. Cross(t) /\ crossings' = [crossings EXCEPT ![gw[t].id] = @ + 1]
  BY DEF Counts, ModesInv, Placed, XairSteps, LocalReleases
<1>2. gw \in [Threads -> Req]
  BY TypesGive
<1>3. gw'[t].pc \in {"await", "report"}
  BY <1>1, <1>2 DEF Cross, Goto, Raised, Req
<1> QED BY <1>1, <1>3 DEF Cross

-----------------------------------------------------------------------------
(* Records *)

\* An admission of an id that XAIR knows changes nothing; another registers it.
LEMMA AdmitSteps ==
  ASSUME GatewayTypes, NEW i \in Intents, Admit(i, 0)
  PROVE  /\ IsDuplicate(i, 0) <=> Known(i)
         /\ Known(i) => UNCHANGED <<records, seen>>
         /\ ~Known(i) => /\ records' = [records EXCEPT ![i] = Created(i)]
                         /\ Range(seen) \cup {i} \subseteq Range(seen')
BY TypesGive, AdmitAtOnce

\* What a step may do to the record of intent i, and who does it.
RecordMoves(i) ==
  \/ records'[i] = records[i]
  \/ ~Known(i) /\ records'[i] = Created(i) /\ \E t \in Threads : gw[t].id = i /\ SubmitAdmit(t)
  \/ \E t \in Threads : gw[t].id = i /\ SubmitValidate(t)
  \/ "REVOKED" \in Allowed(records[i].state) /\ records'[i] = Revoked(records[i])
  \/ /\ records[i].state \in {"AUTHORIZED", "COMMITTED"}
     /\ \/ records'[i] \in {Withheld(records[i]), Released(records[i])}
        \/ \E seq : records'[i] = Committed(records[i], seq)
  \/ \E t \in Threads :
       /\ gw[t].id = i /\ ReportedEffect(t)
       /\ EffectState(gw[t].effect) \in Allowed(records[i].state)
       /\ records'[i] = Effected(records[i], gw[t].effect)
  \/ XairRestart /\ records'[i] = Absent

LEMMA RecordSteps ==
  ASSUME GatewayTypes, [Next]_vars
  PROVE  /\ \A i \in Intents : RecordMoves(i)
         /\ Range(seen) \subseteq Range(seen') \/ XairRestart
         /\ stopClass' = stopClass \/ XairRestart
<1> DEFINE Goal == /\ \A i \in Intents : RecordMoves(i)
                   /\ Range(seen) \subseteq Range(seen') \/ XairRestart
                   /\ stopClass' = stopClass \/ XairRestart
<1>0. records \in [Intents -> Record] /\ \A t \in Threads : gw[t].id \in Intents
  BY TypesGive DEF RuntimeTypeOK
<1>1. ASSUME UNCHANGED runtimeVars PROVE Goal
  BY <1>1 DEF runtimeVars, RecordMoves
<1>2. ASSUME NEW t \in Threads, SubmitAdmit(t) PROVE Goal
  <2> DEFINE i == gw[t].id
  <2>1. Admit(i, 0) \/ UNCHANGED runtimeVars
    BY <1>2 DEF SubmitAdmit
  <2>2. CASE Admit(i, 0)
    <3>1. /\ Known(i) => UNCHANGED <<records, seen>>
          /\ ~Known(i) => /\ records' = [records EXCEPT ![i] = Created(i)]
                          /\ Range(seen) \cup {i} \subseteq Range(seen')
      BY <1>0, <2>2, AdmitSteps
    <3>2. stopClass' = stopClass
      BY <2>2 DEF Admit
    <3>3. ASSUME NEW j \in Intents PROVE RecordMoves(j)
      BY <1>0, <1>2, <3>1 DEF RecordMoves
    <3> QED BY <3>1, <3>2, <3>3
  <2> QED BY <1>1, <2>1, <2>2
<1>3. ASSUME NEW i \in Intents, LifecycleRevoke(i) \/ SupervisoryRevoke(i) PROVE Goal
  <2>1. /\ UNCHANGED <<seen, stopClass>>
        /\ \/ records' = records
           \/ /\ "REVOKED" \in Allowed(records[i].state)
              /\ records' = [records EXCEPT ![i] = Revoked(@)]
    BY <1>3 DEF LifecycleRevoke, SupervisoryRevoke
  <2>2. ASSUME NEW j \in Intents PROVE RecordMoves(j)
    BY <1>0, <2>1 DEF RecordMoves
  <2> QED BY <2>1, <2>2
<1>4. ASSUME NEW t \in Threads, SubmitClaim(t) PROVE Goal
  <2>1. LifecycleRevoke(gw[t].id) \/ UNCHANGED runtimeVars
    BY <1>4 DEF SubmitClaim
  <2> QED BY <1>0, <1>1, <1>3, <2>1
<1>5. ASSUME NEW t \in Threads, SubmitValidate(t) PROVE Goal
  <2> DEFINE i == gw[t].id
  <2>1. ProcessIntent(i, Found(i))
    BY <1>5 DEF SubmitValidate
  <2>2. /\ UNCHANGED <<seen, stopClass>>
        /\ records' = records \/ \E r : records' = [records EXCEPT ![i] = r]
    BY <2>1 DEF ProcessIntent
  <2>3. ASSUME NEW j \in Intents PROVE RecordMoves(j)
    <3>1. CASE j = i
      BY <1>5, <3>1 DEF RecordMoves
    <3>2. CASE j # i
      <4>1. records'[j] = records[j]
        BY <1>0, <2>2, <3>2
      <4> QED BY <4>1 DEF RecordMoves
    <3> QED BY <3>1, <3>2
  <2> QED BY <2>2, <2>3
<1>6. ASSUME NEW i \in Intents, NEW ok, NEW seq, RecordCommit(i, ok, seq) PROVE Goal
  <2>1. /\ UNCHANGED <<seen, stopClass>>
        /\ \/ records' = records
           \/ /\ records[i].state = "AUTHORIZED"
              /\ \/ records' = [records EXCEPT ![i] = Committed(@, seq)]
                 \/ records' = [records EXCEPT ![i] = Withheld(@)]
    BY <1>6 DEF RecordCommit
  <2>2. ASSUME NEW j \in Intents PROVE RecordMoves(j)
    BY <1>0, <2>1 DEF RecordMoves
  <2> QED BY <2>1, <2>2
<1>7. ASSUME NEW t \in Threads, CommitCall(t) PROVE Goal
  <2>1. UNCHANGED runtimeVars \/ \E ok, seq : RecordCommit(gw[t].id, ok, seq)
    BY <1>7 DEF CommitCall
  <2> QED BY <1>0, <1>1, <1>6, <2>1
<1>8. ASSUME NEW i \in Intents, NEW released, NEW scope, NEW v, ReportRelease(i, released, scope, v)
      PROVE  Goal
  <2>1. /\ UNCHANGED <<seen, stopClass>>
        /\ \/ records' = records
           \/ /\ records[i].state \in {"AUTHORIZED", "COMMITTED"}
              /\ \/ records' = [records EXCEPT ![i] = Withheld(@)]
                 \/ records' = [records EXCEPT ![i] = Released(@)]
    BY <1>8 DEF ReportRelease, TakesReport
  <2>2. ASSUME NEW j \in Intents PROVE RecordMoves(j)
    BY <1>0, <2>1 DEF RecordMoves
  <2> QED BY <2>1, <2>2
<1>9. ASSUME NEW t \in Threads, ReleaseGuard(t) \/ Report(t) PROVE Goal
  <2>1. UNCHANGED runtimeVars \/ \E released, scope, v : ReportRelease(gw[t].id, released, scope, v)
    BY <1>9 DEF ReleaseGuard, Report
  <2> QED BY <1>0, <1>1, <1>8, <2>1
<1>10. ASSUME NEW t \in Threads, ReportedEffect(t) PROVE Goal
  <2> DEFINE i == gw[t].id
  <2>1. /\ UNCHANGED <<seen, stopClass>>
        /\ \/ records' = records
           \/ /\ EffectState(gw[t].effect) \in Allowed(records[i].state)
              /\ records' = [records EXCEPT ![i] = Effected(@, gw[t].effect)]
    BY <1>10 DEF ReportedEffect, ReportEffect
  <2>2. ASSUME NEW j \in Intents PROVE RecordMoves(j)
    <3>1. CASE records'[j] = records[j]
      BY <3>1 DEF RecordMoves
    <3>2. CASE records'[j] # records[j]
      <4>1. /\ j = i /\ EffectState(gw[t].effect) \in Allowed(records[i].state)
            /\ records'[i] = Effected(records[i], gw[t].effect)
        BY <1>0, <2>1, <3>2
      <4> QED BY <1>10, <4>1 DEF RecordMoves
    <3> QED BY <3>1, <3>2
  <2> QED BY <2>1, <2>2
<1>11. ASSUME NEW t \in Threads,
              \/ Unchecked(t) \/ Refresh(t) \/ LocalPolicy(t)
              \/ AuthoritativeRead(t) \/ AuthoritativeReread(t)
              \/ OpaValidate(t) \/ OpaGate(t) \/ PublishLocal(t)
              \/ GateRead(t) \/ GateCheck(t)
      PROVE  UNCHANGED runtimeVars
  BY <1>11 DEF Unchecked, Refresh, LocalPolicy, AuthoritativeRead, AuthoritativeReread,
               OpaValidate, OpaGate, PublishLocal, GateRead, GateCheck, Local
<1>12. ASSUME NEW t \in Threads, Cross(t) \/ Await(t) \/ ContextForward(t) \/ Inject(t)
      PROVE  UNCHANGED runtimeVars
  BY <1>12 DEF Cross, Await, ContextForward, Inject
<1>13. ASSUME \/ \E t \in Threads, i \in Intents, q \in site.queries : Request(t, i, q)
              \/ \E t \in Threads, p \in site.posted, v \in WrittenValues : ContextPost(t, p, v)
              \/ BridgeServed \/ Replicate \/ CellStep \/ CellFault \/ Tick
       PROVE  UNCHANGED runtimeVars
  BY <1>13 DEF Request, ContextPost, Local, BridgeServed, Replicate, CellStep, CellFault, Tick
<1>14. ASSUME NEW i \in Intents, Revoke(i) PROVE Goal
  BY <1>3, <1>14 DEF Revoke
<1>15. ASSUME XairRestart PROVE Goal
  <2>1. records' = [i \in Intents |-> Absent]
    BY <1>15 DEF XairRestart, RuntimeRestart
  <2> QED BY <1>15, <2>1 DEF RecordMoves
<1>16. UNCHANGED vars => UNCHANGED runtimeVars
  BY DEF vars
<1> HIDE DEF Goal
<1>17. ASSUME NEW t \in Threads, ThreadStep(t) PROVE Goal
  BY <1>17, <1>1, <1>2, <1>4, <1>5, <1>7, <1>9, <1>10, <1>11, <1>12 DEF ThreadStep
<1>18. Goal
  BY <1>1, <1>13, <1>14, <1>15, <1>16, <1>17 DEF Next
<1> QED BY <1>18 DEF Goal

-----------------------------------------------------------------------------
(* Admitted and not yet validated *)

Undecided(g) == g.pc \in {"claim", "validate"}

\* A request between its admission and its validation has a record that is as
\* it was registered, or revoked, and no other request has its id there: XAIR
\* takes a second request of the id for a duplicate.
AdmittedInv ==
  /\ \A t \in Threads : Undecided(gw[t]) =>
       /\ Known(gw[t].id)
       /\ records[gw[t].id].state \in {"CREATED", "REVOKED"}
  /\ \A t, u \in Threads :
       Undecided(gw[t]) /\ Undecided(gw[u]) /\ gw[t].id = gw[u].id => t = u

\* A validation always moves its request on.
LEMMA ValidateMoves ==
  ASSUME GatewayTypes, NEW t \in Threads, SubmitValidate(t)
  PROVE  ~Undecided(gw'[t])
<1>1. gw \in [Threads -> Req]
  BY TypesGive
<1>2. CASE gw'[t] = Idle
  BY <1>2 DEF Idle, Undecided
<1>3. CASE gw'[t] # Idle
  BY <1>3, ValidatedTo DEF AfterValidation, Undecided
<1> QED BY <1>2, <1>3

\* A request comes to be undecided by an admission that is no duplicate.
LEMMA AdmittedTo ==
  ASSUME GatewayTypes, [Next]_vars, NEW u \in Threads, Undecided(gw'[u]), ~Undecided(gw[u])
  PROVE  /\ gw'[u].id = gw[u].id
         /\ ~Known(gw[u].id)
         /\ Known(gw[u].id)'
         /\ records'[gw[u].id].state = "CREATED"
         /\ At(u, "submit") /\ SubmitAdmit(u)
<1>0. gw \in [Threads -> Req] /\ gw[u].id \in Intents /\ Moves(u)
  BY TypesGive, ThreadMoves
<1>1. ThreadStep(u) /\ Edge(gw[u], gw'[u]) /\ gw'[u] # gw[u] /\ gw'[u] # Idle
  BY <1>0 DEF Moves, Undecided, Idle, Begins, FirstSteps
<1>2. gw[u].pc = "submit" /\ gw'[u].id = gw[u].id
  BY <1>1 DEF Edge, Edges, Undecided
<1>3. SubmitAdmit(u)
  BY <1>1, <1>2, Actor DEF ActsAt, At
<1>4. ~End(u)
  BY <1>0, <1>1 DEF End
<1>5. Admit(gw[u].id, 0) /\ ~IsDuplicate(gw[u].id, 0)
  BY <1>3, <1>4 DEF SubmitAdmit
<1>6. /\ ~Known(gw[u].id)
      /\ records' = [records EXCEPT ![gw[u].id] = Created(gw[u].id)]
      /\ gw[u].id \in Range(seen')
  BY <1>0, <1>5, AdmitSteps
<1>7. records'[gw[u].id].state = "CREATED"
  BY <1>0, <1>6, TypesGive DEF RuntimeTypeOK, Created, Absent
<1> QED BY <1>2, <1>3, <1>6, <1>7 DEF Known, At

\* A claim leaves XAIR's records alone.
LEMMA ClaimedTo ==
  ASSUME GatewayTypes, [Next]_vars, NEW u \in Threads,
         gw[u].pc = "claim", gw'[u].pc = "validate"
  PROVE  Claims(u) /\ UNCHANGED runtimeVars /\ gw'[u].id = gw[u].id
<1>0. gw \in [Threads -> Req] /\ Moves(u)
  BY TypesGive, ThreadMoves
<1>1. ThreadStep(u) /\ Edge(gw[u], gw'[u]) /\ gw'[u] # gw[u] /\ gw'[u] # Idle
  BY <1>0 DEF Moves, Idle, Begins, FirstSteps
<1>2. SubmitClaim(u) /\ ~End(u)
  BY <1>0, <1>1, Actor DEF ActsAt, At, End
<1> QED BY <1>1, <1>2 DEF SubmitClaim, Claim, Claims, Edge, logVars

LEMMA AdmittedStep ==
  ASSUME GatewayTypes, AdmittedInv, [Next]_vars
  PROVE  AdmittedInv'
<1>0. gw \in [Threads -> Req] /\ \A t \in Threads : Moves(t) /\ gw[t].id \in Intents
  BY TypesGive, ThreadMoves
<1>1. ASSUME NEW u \in Threads, Undecided(gw'[u]), Undecided(gw[u])
      PROVE  /\ gw'[u].id = gw[u].id
             /\ Known(gw[u].id)'
             /\ records'[gw[u].id].state \in {"CREATED", "REVOKED"}
  <2> DEFINE i == gw[u].id
  <2>0. Known(i) /\ records[i].state \in {"CREATED", "REVOKED"} /\ i \in Intents
    BY <1>0, <1>1 DEF AdmittedInv
  <2>1. CASE gw'[u] # gw[u]
    <3>1. gw'[u] # Idle /\ ~Begins(gw'[u])
      BY <1>1 DEF Idle, Undecided, Begins, FirstSteps
    <3>2. Edge(gw[u], gw'[u])
      BY <1>0, <2>1, <3>1 DEF Moves
    <3>3. gw[u].pc = "claim" /\ gw'[u].pc = "validate"
      BY <1>1, <3>2 DEF Edge, Edges, Undecided
    <3>4. UNCHANGED runtimeVars /\ gw'[u].id = gw[u].id
      BY <3>3, ClaimedTo
    <3> QED BY <2>0, <3>4 DEF runtimeVars, Known
  <2>2. CASE gw'[u] = gw[u]
    <3>1. ~XairRestart
      <4>1. XairRestart => gw'[u] = Idle
        BY <1>1 DEF XairRestart, Undecided
      <4> QED BY <1>1, <4>1 DEF Idle, Undecided
    <3>2. RecordMoves(i) /\ Range(seen) \subseteq Range(seen')
      BY <2>0, <3>1, RecordSteps
    <3>3. ASSUME NEW t \in Threads, gw[t].id = i, SubmitValidate(t) PROVE FALSE
      <4>1. Undecided(gw[t])
        BY <3>3 DEF SubmitValidate, Undecided, At
      <4>2. t = u
        BY <1>1, <3>3, <4>1 DEF AdmittedInv
      <4> QED BY <1>1, <3>3, <4>2, ValidateMoves
    <3>4. ASSUME NEW status PROVE EffectState(status) \notin Allowed(records[i].state)
      BY <2>0 DEF EffectState, Allowed
    <3>5. records'[i].state \in {"CREATED", "REVOKED"}
      <4>1. records[i] \in Record
        BY <2>0, TypesGive DEF RuntimeTypeOK
      <4>2. Revoked(records[i]).state = "REVOKED"
        BY <4>1 DEF Revoked, Record
      <4> QED BY <2>0, <3>1, <3>2, <3>3, <3>4, <4>2 DEF RecordMoves
    <3> QED BY <2>0, <2>2, <3>2, <3>5 DEF Known
  <2> QED BY <2>1, <2>2
<1>2. ASSUME NEW t \in Threads, NEW u \in Threads, Undecided(gw'[t]), Undecided(gw'[u]),
             gw'[t].id = gw'[u].id
      PROVE  t = u
  <2>1. CASE Undecided(gw[t]) /\ Undecided(gw[u])
    BY <1>1, <1>2, <2>1 DEF AdmittedInv
  <2>2. ASSUME NEW x \in Threads, NEW y \in Threads, x # y,
               Undecided(gw'[x]), Undecided(gw'[y]), gw'[x].id = gw'[y].id, ~Undecided(gw[x])
        PROVE  FALSE
    <3>1. gw'[x].id = gw[x].id /\ ~Known(gw[x].id) /\ gw'[x] # gw[x] /\ gw'[x] # Idle
      BY <2>2, AdmittedTo DEF Undecided, Idle
    <3>2. gw'[y] = gw[y]
      BY <2>2, <3>1, ThreadMoves DEF Alone
    <3> QED BY <2>2, <3>1, <3>2 DEF AdmittedInv
  <2> QED BY <1>2, <2>1, <2>2
<1>3. ASSUME NEW u \in Threads, Undecided(gw'[u])
      PROVE  Known(gw[u].id)' /\ records'[gw'[u].id].state \in {"CREATED", "REVOKED"}
             /\ gw'[u].id = gw[u].id
  BY <1>1, <1>3, AdmittedTo
<1> QED BY <1>2, <1>3 DEF AdmittedInv, Known

LEMMA AdmittedInit == Init => AdmittedInv
BY DEF Init, AdmittedInv, Undecided, Idle

-----------------------------------------------------------------------------
(* The gate *)

\* The gate's request holds the snapshot it read, or is not trusted.
LEMMA GateReadTo ==
  ASSUME GatewayTypes, NEW t \in Threads, GateRead(t)
  PROVE  /\ gw'[t].pc = "gate"
         /\ gw'[t].trusted => /\ gw'[t].ctx = context /\ gw'[t].gate = version
                              /\ gw'[t].reads = ReadsOf(gw[t].id, pathVersions)
<1>0. gw \in [Threads -> Req] /\ gw[t] \in Req
  BY TypesGive
<1> DEFINE r == ReadsOf(gw[t].id, pathVersions)
           h1 == [gw[t] EXCEPT !.pc = "gate", !.ctx = context, !.gate = version, !.reads = r]
           h2 == [gw[t] EXCEPT !.pc = "gate", !.trusted = FALSE]
<1>1. gw'[t] = h1 \/ gw'[t] = h2
  BY <1>0 DEF GateRead
<1> HIDE DEF r
<1>2. /\ h1.pc = "gate" /\ h1.ctx = context /\ h1.gate = version /\ h1.reads = r
      /\ h2.pc = "gate" /\ ~h2.trusted
  BY <1>0 DEF Req
<1> QED BY <1>1, <1>2 DEF r

\* A request passes the gate only if its checks hold, with the controller's
\* version in its snapshot as the witness, if there is one.
LEMMA GateCheckTo ==
  ASSUME GatewayTypes, NEW t \in Threads, GateCheck(t)
  PROVE  /\ gw'[t].pc = IF Passes(gw[t]) THEN "cross" ELSE "report"
         /\ gw'[t].witness = IF gw[t].ctx[LineVersion] # Missing
                             THEN gw[t].ctx[LineVersion] ELSE gw[t].witness
<1>0. gw \in [Threads -> Req] /\ gw[t] \in Req
  BY TypesGive
<1> DEFINE pc == IF Passes(gw[t]) THEN "cross" ELSE "report"
           w == IF gw[t].ctx[LineVersion] # Missing THEN gw[t].ctx[LineVersion]
                ELSE gw[t].witness
           e == GateVersion(gw[t].scope, gw[t].gate, gw[t].reads)
           h == [gw[t] EXCEPT !.pc = pc, !.witness = w, !.expected = e,
                              !.ctx = Idle.ctx, !.reads = 0]
<1>1. gw'[t] = h
  BY <1>0 DEF GateCheck
<1> HIDE DEF pc, w, e
<1>2. h.pc = pc /\ h.witness = w
  BY <1>0 DEF Req
<1> QED BY <1>1, <1>2 DEF pc, w

-----------------------------------------------------------------------------
(* Fresh witnesses *)

RunAt(v) == [line |-> RUN, version |-> v] \in held
WitnessHeld(v) == v = NoVersion \/ RunAt(v)

\* a context that shows the line in RUN at a version shows a pair it held
ShowsHeld(ctx) == ctx[LineState] = RUN /\ ctx[LineVersion] # Missing => RunAt(ctx[LineVersion])

\* some policy classes the intent as other than a stop
Ordinary(i) == \E S \in StopPolicies : i \notin S

PairsHeld ==
  /\ \A n \in DOMAIN bridgeQ : bridgeQ[n] \in held
  /\ posting # NoPost => posting \in held
  /\ late \subseteq held

\* The witness of a request that may command the controller is the version of
\* a state in RUN, however old.
Witnessed(g) ==
  /\ g.pc = "gate" /\ g.trusted => ShowsHeld(g.ctx)
  /\ g.pc \in {"gate_read", "gate"} => Ordinary(g.id)
  /\ g.pc \in {"gate_read", "gate", "commit", "guard", "cross"} =>
       g.act = "ros" \/ WitnessHeld(g.witness)

CommandFresh(cmd) ==
  /\ cmd.guard = "version" => WitnessHeld(cmd.expected)
  /\ cmd.guard # "plain" => cmd.deadline = AgeBound

FreshInv ==
  /\ PairsHeld
  /\ ShowsHeld(context)
  /\ \A t \in Threads : Witnessed(gw[t])
  /\ \A n \in DOMAIN pending : CommandFresh(pending[n])
  /\ ConditionalFresh

\* The controller's history only grows.
LEMMA HeldGrows == ControllerMoves => held \subseteq held'
<1>1. ASSUME NEW value \in LineStates, SetState(value) PROVE held \subseteq held'
  BY <1>1 DEF SetState
<1> QED BY <1>1 DEF ControllerMoves, FastChange, CellRestart, heldVars

\* What the bridge posts is a pair the controller held.
LEMMA PairsStep ==
  ASSUME GatewayTypes, HeldInv, PairsHeld, [Next]_vars
  PROVE  PairsHeld'
<1>0. bridgeQ \in Seq(Pairs) /\ held \subseteq held' /\ Pair \in held
  BY TypesGive, ControllerSteps, HeldGrows DEF CellTypeOK, HeldInv
<1>1. ASSUME NEW new, new \in held', bridgeQ' = Append(bridgeQ, new), UNCHANGED <<posting, late>>
      PROVE  PairsHeld'
  <2>1. ASSUME NEW n \in DOMAIN bridgeQ' PROVE bridgeQ'[n] \in held'
    <3>1. n \in 1..(Len(bridgeQ) + 1) /\ Len(bridgeQ) \in Nat
      BY <1>0, <1>1, <2>1, LenProperties
    <3>2. CASE n \in 1..Len(bridgeQ)
      BY <1>0, <1>1, <3>2 DEF PairsHeld
    <3>3. CASE n = Len(bridgeQ) + 1
      BY <1>0, <1>1, <3>3
    <3> QED BY <3>1, <3>2, <3>3
  <2> QED BY <1>0, <1>1, <2>1 DEF PairsHeld
<1>2. ASSUME UNCHANGED <<bridgeQ, posting, late>> PROVE PairsHeld'
  BY <1>0, <1>2 DEF PairsHeld
<1>3. ASSUME NEW value \in LineStates, SetState(value) PROVE PairsHeld'
  <2>1. CASE value = line
    BY <1>2, <1>3, <2>1 DEF SetState
  <2>2. CASE value # line
    <3> DEFINE new == [line |-> value, version |-> cellVersion']
    <3>1. new \in held' /\ bridgeQ' = Append(bridgeQ, new) /\ UNCHANGED <<posting, late>>
      BY <1>3, <2>2 DEF SetState
    <3> QED BY <1>1, <3>1
  <2> QED BY <2>1, <2>2
<1>4. ASSUME FastChange PROVE PairsHeld'
  <2> DEFINE new == [line |-> line, version |-> cellVersion']
  <2>1. new \in held' /\ bridgeQ' = Append(bridgeQ, new) /\ UNCHANGED <<posting, late>>
    BY <1>4 DEF FastChange
  <2> QED BY <1>1, <2>1
<1>5. ASSUME Scan PROVE PairsHeld'
  <2>1. UNCHANGED <<bridgeQ, posting, late>>
    BY <1>5 DEF Scan, bridgeVars
  <2> QED BY <1>2, <2>1
<1>6. ASSUME BridgeTake PROVE PairsHeld'
  <2>1. late' = late
    BY <1>6 DEF BridgeTake
  <2>2. CASE bridgeQ # <<>> /\ posting' = Head(bridgeQ) /\ bridgeQ' = Tail(bridgeQ)
    <3>1. /\ Len(bridgeQ) \in Nat \ {0} /\ Head(bridgeQ) = bridgeQ[1] /\ 1 \in DOMAIN bridgeQ
      BY <1>0, <2>2, EmptySeq, LenProperties
    <3>2. \A n \in DOMAIN Tail(bridgeQ) :
            n + 1 \in DOMAIN bridgeQ /\ Tail(bridgeQ)[n] = bridgeQ[n + 1]
      BY <1>0, <2>2, <3>1, HeadTailProperties, LenProperties
    <3> QED BY <1>0, <2>1, <2>2, <3>1, <3>2 DEF PairsHeld
  <2>3. CASE bridgeQ # <<>> /\ posting' = Last(bridgeQ) /\ bridgeQ' = <<>>
    <3>1. Len(bridgeQ) \in DOMAIN bridgeQ /\ Last(bridgeQ) = bridgeQ[Len(bridgeQ)]
      BY <1>0, <2>3, EmptySeq, LenProperties DEF Last
    <3> QED BY <1>0, <2>1, <2>3, <3>1 DEF PairsHeld
  <2>4. CASE posting' = Pair /\ bridgeQ' = <<>>
    BY <1>0, <2>1, <2>4 DEF PairsHeld
  <2> QED BY <1>6, <2>2, <2>3, <2>4 DEF BridgeTake
<1>7. ASSUME BridgeRaise PROVE PairsHeld'
  BY <1>0, <1>7 DEF BridgeRaise, PairsHeld
<1>8. ASSUME NEW m \in late \cup {posting}, Serve(m) PROVE PairsHeld'
  BY <1>0, <1>8 DEF Serve, PairsHeld
<1>9. ASSUME CellRestart PROVE PairsHeld'
  <2> DEFINE new == [line |-> RUN, version |-> Booted]
  <2>1. /\ new \in held' /\ bridgeQ' = <<new>> /\ posting' = NoPost
        /\ late' = IF posting = NoPost THEN late ELSE late \cup {posting}
    BY <1>9 DEF CellRestart
  <2> HIDE DEF new
  <2> QED BY <1>0, <2>1 DEF PairsHeld
<1>10. ASSUME NEW t \in Threads, Enqueues(t) \/ Abandons(t) PROVE PairsHeld'
  BY <1>2, <1>10 DEF Enqueues, Abandons, bridgeVars
<1>11. ASSUME UNCHANGED cellVars PROVE PairsHeld'
  BY <1>2, <1>11 DEF cellVars, bridgeVars
<1> QED BY CellSteps, <1>3, <1>4, <1>5, <1>6, <1>7, <1>8, <1>9, <1>10, <1>11 DEF CellMoves

\* An ordinary request goes on from its validation only if its predicates held
\* on the context, and with the versions of that context.
LEMMA ValidatedOn ==
  ASSUME GatewayTypes, AdmittedInv, ReportsMatchState, NEW t \in Threads, SubmitValidate(t),
         gw'[t] # Idle, gw[t].id \notin stopClass
  PROVE  /\ Satisfied(gw[t].id, context)
         /\ records'[gw[t].id].readSetVersion = ReadsOf(gw[t].id, pathVersions)
         /\ records'[gw[t].id].contextVersion = version
         /\ gw'[t].pc \in {"gate_read", "commit"}
<1> DEFINE i == gw[t].id
           r == records[i]
           c == Found(i)
           o == Decide(r, i, c)
<1>1. /\ i \in Intents /\ r \in Record /\ r.state \in {"CREATED", "REVOKED"} /\ Consistent(r)
      /\ records \in [Intents -> Record] /\ c \in Checks
  <2>1. Undecided(gw[t])
    BY DEF SubmitValidate, Undecided, At
  <2> QED BY <2>1, TypesGive, FoundTypes DEF AdmittedInv, RuntimeTypeOK, ReportsMatchState
<1>2. ProcessIntent(i, c) /\ records'[i].outcome = "EXECUTE"
  BY ValidatedTo DEF SubmitValidate
<1>3. r.state \in ValidatableStates
  <2>1. CASE r.state = "REVOKED"
    <3>1. r.outcome = "REVOKE"
      BY <1>1, <2>1 DEF Consistent
    <3>2. records' = records
      BY <1>2, <2>1 DEF ProcessIntent, ValidatableStates
    <3> QED BY <1>2, <3>1, <3>2
  <2> QED BY <1>1, <2>1 DEF ValidatableStates
<1>4. \/ records' = [records EXCEPT ![i] = RevokeStale(r)]
      \/ records' = [records EXCEPT ![i] = Validated(r, o, c)]
  BY <1>1, <1>2, <1>3 DEF ProcessIntent
<1> HIDE DEF c, o
<1>5. RevokeStale(r).outcome = "REVOKE"
  BY <1>1 DEF RevokeStale, Record
<1>6. /\ Validated(r, o, c).outcome = o
      /\ Validated(r, o, c).readSetVersion = c.readSetVersion
      /\ Validated(r, o, c).contextVersion = c.version
  BY <1>1 DEF Validated, Record
<1>7. records'[i] = Validated(r, o, c) /\ o = "EXECUTE"
  BY <1>1, <1>2, <1>4, <1>5, <1>6
<1>8. c.contextOk
  BY <1>1, <1>7 DEF o, Decide, Checks
<1> QED BY <1>6, <1>7, <1>8, ValidatedTo DEF c, Found, AfterValidation

\* The context shows the line in RUN only at versions at which it was.
LEMMA ContextStep ==
  ASSUME GatewayTypes, HeldInv, FreshInv, [Next]_vars
  PROVE  ShowsHeld(context)'
<1>0. held \subseteq held' /\ LineState \in Paths /\ LineVersion \in Paths
  BY ControllerSteps, HeldGrows, GatewayAssumption
<1>1. CASE UNCHANGED <<documentVars, changes>>
  BY <1>0, <1>1 DEF documentVars, FreshInv, ShowsHeld, RunAt
<1>2. ASSUME NEW patch, Patch(patch), StorePatch(patch) PROVE ShowsHeld(context)'
  <2>1. context' = [p \in Paths |-> IF p \in DOMAIN patch THEN patch[p] ELSE context[p]]
    BY <1>2 DEF StorePatch, Apply
  <2>2. CASE LineVersion \in DOMAIN patch
    <3>1. /\ context'[LineState] = patch[LineState] /\ context'[LineVersion] = patch[LineVersion]
          /\ [line |-> patch[LineState], version |-> patch[LineVersion]] \in held
      BY <1>0, <1>2, <2>1, <2>2 DEF Patch, FreshInv, PairsHeld
    <3> QED BY <1>0, <3>1 DEF ShowsHeld, RunAt
  <2>3. CASE LineVersion \notin DOMAIN patch /\ LineState \in DOMAIN patch
    <3>1. context'[LineState] = PAUSED
      BY <1>0, <1>2, <2>1, <2>3 DEF Patch
    <3> QED BY <3>1 DEF ShowsHeld, PAUSED, RUN
  <2>4. CASE LineVersion \notin DOMAIN patch /\ LineState \notin DOMAIN patch
    <3>1. context'[LineState] = context[LineState] /\ context'[LineVersion] = context[LineVersion]
      BY <1>0, <2>1, <2>4
    <3> QED BY <1>0, <3>1 DEF FreshInv, ShowsHeld, RunAt
  <2> QED BY <2>2, <2>3, <2>4
<1> QED BY <1>1, <1>2, DocumentSteps

\* The predicates of an ordinary intent ask for the line in RUN.
LineGuarded ==
  \A i \in Intents : Ordinary(i) =>
    LineState \in DOMAIN Admissible[i] /\ Admissible[i][LineState] \subseteq {RUN}

LEMMA WitnessStep ==
  ASSUME GatewayTypes, HeldInv, AdmittedInv, ReportsMatchState, FreshInv, LineGuarded, [Next]_vars,
         NEW t \in Threads
  PROVE  Witnessed(gw[t])'
<1> DEFINE g == gw[t]
           h == gw'[t]
<1>0. /\ held \subseteq held' /\ Moves(t) /\ Witnessed(g) /\ ShowsHeld(context)
      /\ g.id \in Intents /\ g \in Req
  BY ControllerSteps, HeldGrows, ThreadMoves, TypesGive DEF FreshInv
<1>1. CASE h = g
  BY <1>0, <1>1 DEF Witnessed, ShowsHeld, WitnessHeld, RunAt
<1>2. CASE h = Idle \/ Begins(h)
  BY <1>2 DEF Witnessed, Idle, Begins, FirstSteps
<1>3. CASE ThreadStep(t) /\ Edge(g, h) /\ h # g /\ h # Idle
  <2>1. CASE g.pc = "validate"
    <3>1. SubmitValidate(t)
      BY <1>3, <2>1, Actor DEF ActsAt, At
    <3>2. CASE g.id \in stopClass
      BY <1>3, <3>1, <3>2, ValidatedTo DEF AfterValidation, Witnessed
    <3>3. CASE g.id \notin stopClass
      <4>1. Satisfied(g.id, context) /\ h.pc \in {"gate_read", "commit"}
        BY <1>3, <3>1, <3>3, ValidatedOn
      <4>2. Ordinary(g.id)
        BY <3>3, TypesGive DEF RuntimeTypeOK, Ordinary
      <4>3. context[LineState] = RUN
        BY <1>0, <4>1, <4>2 DEF LineGuarded, Satisfied
      <4>4. h.witness = NoVersion \/ h.witness = context[LineVersion]
        BY <1>3, <3>1, ValidatedTo
      <4>5. h.witness = NoVersion \/ [line |-> RUN, version |-> h.witness] \in held'
        BY <1>0, <4>3, <4>4 DEF ShowsHeld, RunAt, Missing, NoVersion
      <4>6. h.id = g.id
        BY <1>3 DEF Edge
      <4> QED BY <4>1, <4>2, <4>5, <4>6 DEF Witnessed, WitnessHeld, RunAt, Ordinary
    <3> QED BY <3>2, <3>3
  <2>2. CASE g.pc = "gate_read"
    <3>1. GateRead(t)
      BY <1>3, <2>2, Actor DEF ActsAt, At
    <3>2. h.pc = "gate" /\ (h.trusted => h.ctx = context)
      BY <3>1, GateReadTo
    <3>3. h.id = g.id /\ h.act = g.act /\ h.witness = g.witness
      BY <1>3, <2>2 DEF Edge
    <3> QED BY <1>0, <2>2, <3>2, <3>3 DEF Witnessed, ShowsHeld, WitnessHeld, RunAt, Ordinary
  <2>3. CASE g.pc = "gate"
    <3>1. GateCheck(t)
      BY <1>3, <2>3, Actor DEF ActsAt, At
    <3>2. CASE ~Passes(g)
      BY <3>1, <3>2, GateCheckTo DEF Witnessed
    <3>3. CASE Passes(g)
      <4>1. g.trusted /\ Satisfied(g.id, g.ctx)
        BY <3>3 DEF Passes, Validates
      <4>2. g.ctx[LineState] = RUN /\ ShowsHeld(g.ctx)
        BY <1>0, <2>3, <4>1 DEF LineGuarded, Satisfied, Witnessed
      <4>3. /\ h.pc = "cross" /\ h.act = g.act
            /\ h.witness = IF g.ctx[LineVersion] # Missing THEN g.ctx[LineVersion] ELSE g.witness
        BY <1>3, <2>3, <3>1, <3>3, GateCheckTo DEF Edge
      <4> QED BY <1>0, <2>3, <4>2, <4>3 DEF Witnessed, ShowsHeld, WitnessHeld, RunAt
    <3> QED BY <3>2, <3>3
  <2>4. CASE g.pc \notin {"validate", "gate_read", "gate"}
    <3>1. h.act = g.act /\ h.witness = g.witness /\ h.pc \notin {"gate_read", "gate"}
      BY <1>3, <2>4 DEF Edge, Edges
    <3>2. h.pc \in {"commit", "guard", "cross"} => g.pc \in {"commit", "guard", "cross"}
      BY <1>3, <2>4 DEF Edge, Edges
    <3> QED BY <1>0, <3>1, <3>2 DEF Witnessed, WitnessHeld, RunAt
  <2> QED BY <2>1, <2>2, <2>3, <2>4
<1> QED BY <1>0, <1>1, <1>2, <1>3 DEF Moves

\* What a step may do to the queued commands: one is appended, their callers
\* give them up, they are scanned, or they are lost in a restart.
LEMMA PendingSteps ==
  ASSUME [Next]_vars
  PROVE  \/ UNCHANGED commandVars
         \/ \E t \in Threads : Enqueues(t) \/ Abandons(t)
         \/ (Scan \/ CellRestart) /\ UNCHANGED <<gw, crossings>>
<1>1. ASSUME NEW t \in Threads, ThreadStep(t)
      PROVE  UNCHANGED commandVars \/ Enqueues(t) \/ Abandons(t)
  <2>1. CASE \/ Unchecked(t) \/ Refresh(t) \/ LocalPolicy(t)
             \/ AuthoritativeRead(t) \/ AuthoritativeReread(t)
             \/ OpaValidate(t) \/ OpaGate(t) \/ PublishLocal(t)
             \/ GateRead(t) \/ GateCheck(t)
    BY <2>1 DEF Unchecked, Refresh, LocalPolicy, AuthoritativeRead, AuthoritativeReread,
                OpaValidate, OpaGate, PublishLocal, GateRead, GateCheck, Local, cellVars
  <2>2. CASE \/ SubmitAdmit(t) \/ SubmitClaim(t) \/ SubmitValidate(t)
             \/ CommitCall(t) \/ ReleaseGuard(t) \/ Report(t) \/ ReportedEffect(t)
    BY <2>2 DEF SubmitAdmit, SubmitClaim, SubmitValidate, CommitCall, ReleaseGuard, Report,
                ReportedEffect, Served, cellVars
  <2>3. CASE Cross(t)
    BY <2>3 DEF Cross, Enqueues
  <2>4. CASE Await(t)
    BY <2>4 DEF Await, Abandons
  <2>5. CASE ContextForward(t) \/ Inject(t)
    BY <2>5 DEF ContextForward, Inject, cellVars
  <2> QED BY <1>1, <2>1, <2>2, <2>3, <2>4, <2>5 DEF ThreadStep
<1>2. ASSUME \/ \E t \in Threads, i \in Intents, q \in site.queries : Request(t, i, q)
             \/ \E t \in Threads, p \in site.posted, v \in WrittenValues : ContextPost(t, p, v)
             \/ Replicate \/ Tick \/ XairRestart \/ \E i \in Intents : Revoke(i)
      PROVE  UNCHANGED commandVars
  BY <1>2 DEF Request, ContextPost, Replicate, Tick, XairRestart, Revoke, Local, Served, cellVars
<1>3. BridgeServed => UNCHANGED commandVars
  BY DEF BridgeServed, Serve
<1>4. CellStep => UNCHANGED commandVars \/ (Scan /\ UNCHANGED <<gw, crossings>>)
  BY DEF CellStep, CellTasks, SetState, FastChange, BridgeTake, gatewayVars
<1>5. CellFault => UNCHANGED commandVars \/ (CellRestart /\ UNCHANGED <<gw, crossings>>)
  BY DEF CellFault, BridgeRaise
<1>6. UNCHANGED vars => UNCHANGED commandVars
  BY DEF vars, cellVars
<1> QED BY <1>1, <1>2, <1>3, <1>4, <1>5, <1>6 DEF Next

\* What a caller's command and an abandoned one are in the queue.
LEMMA QueueSteps ==
  ASSUME GatewayTypes, NEW t \in Threads
  PROVE  /\ Enqueues(t) =>
              /\ gw[t].act # "ros" /\ At(t, "cross")
              /\ DOMAIN pending' = 1..(Len(pending) + 1) /\ Len(pending) \in Nat
              /\ DOMAIN pending = 1..Len(pending)
              /\ \A n \in 1..Len(pending) : pending'[n] = pending[n]
              /\ pending'[Len(pending) + 1] = Queued(t)
              /\ answer' = [answer EXCEPT ![t] = "none"]
              /\ effects' = effects
         /\ Abandons(t) =>
              /\ At(t, "await")
              /\ DOMAIN pending' = DOMAIN pending
              /\ \A n \in DOMAIN pending :
                   /\ pending'[n].id = pending[n].id
                   /\ pending'[n].guard = pending[n].guard
                   /\ pending'[n].expected = pending[n].expected
                   /\ pending'[n].deadline = pending[n].deadline
                   /\ pending'[n].by = IF pending[n].by = t THEN NoCaller ELSE pending[n].by
              /\ answer' = [answer EXCEPT ![t] = "none"]
              /\ effects' = effects
<1>0. pending \in Seq(Command) /\ \A n \in DOMAIN pending : pending[n] \in Command
  BY TypesGive, ElementOfSeq, LenProperties DEF CellTypeOK
<1>1. ASSUME Enqueues(t)
      PROVE  /\ gw[t].act # "ros" /\ At(t, "cross")
             /\ DOMAIN pending' = 1..(Len(pending) + 1) /\ Len(pending) \in Nat
             /\ DOMAIN pending = 1..Len(pending)
             /\ \A n \in 1..Len(pending) : pending'[n] = pending[n]
             /\ pending'[Len(pending) + 1] = Queued(t)
             /\ answer' = [answer EXCEPT ![t] = "none"]
             /\ effects' = effects
  <2>1. /\ pending' = Append(pending, Queued(t))
        /\ answer' = [answer EXCEPT ![t] = "none"]
        /\ effects' = effects /\ gw[t].act # "ros" /\ At(t, "cross")
    BY <1>1 DEF Enqueues, Enqueue, Queued, Cross
  <2>2. Queued(t) \in Command
    BY <2>1, QueuedType
  <2> QED BY <1>0, <2>1, <2>2, AppendProperties, LenProperties
<1>2. ASSUME Abandons(t)
      PROVE  /\ At(t, "await")
             /\ DOMAIN pending' = DOMAIN pending
             /\ \A n \in DOMAIN pending :
                  /\ pending'[n].id = pending[n].id
                  /\ pending'[n].guard = pending[n].guard
                  /\ pending'[n].expected = pending[n].expected
                  /\ pending'[n].deadline = pending[n].deadline
                  /\ pending'[n].by = IF pending[n].by = t THEN NoCaller ELSE pending[n].by
             /\ answer' = [answer EXCEPT ![t] = "none"]
             /\ effects' = effects
  <2>1. /\ pending' = [n \in DOMAIN pending |->
                         IF pending[n].by = t THEN [pending[n] EXCEPT !.by = NoCaller]
                         ELSE pending[n]]
        /\ answer' = [answer EXCEPT ![t] = "none"]
        /\ effects' = effects /\ At(t, "await")
    BY <1>2 DEF Abandons, Abandon, Await
  <2>2. ASSUME NEW n \in DOMAIN pending
        PROVE  /\ pending'[n].id = pending[n].id
               /\ pending'[n].guard = pending[n].guard
               /\ pending'[n].expected = pending[n].expected
               /\ pending'[n].deadline = pending[n].deadline
               /\ pending'[n].by = IF pending[n].by = t THEN NoCaller ELSE pending[n].by
    BY <1>0, <2>1 DEF Command
  <2> QED BY <2>1, <2>2
<1> QED BY <1>1, <1>2

LEMMA CommandsStep ==
  ASSUME GatewayTypes, HeldInv, FreshInv, [Next]_vars
  PROVE  /\ \A n \in DOMAIN pending' : CommandFresh(pending[n])'
         /\ ConditionalFresh'
<1>0. /\ held \subseteq held'
      /\ \A n \in DOMAIN pending : CommandFresh(pending[n])
      /\ ConditionalFresh
      /\ \A n \in DOMAIN pending : pending[n] \in Command
  BY ControllerSteps, HeldGrows, TypesGive, ElementOfSeq, LenProperties DEF FreshInv, CellTypeOK
<1>1. CASE UNCHANGED commandVars
  BY <1>0, <1>1 DEF commandVars, CommandFresh, WitnessHeld, RunAt, ConditionalFresh
<1>2. ASSUME NEW t \in Threads, Enqueues(t)
      PROVE  /\ \A n \in DOMAIN pending' : CommandFresh(pending[n])'
             /\ ConditionalFresh'
  <2>1. /\ gw[t].act # "ros" /\ At(t, "cross")
        /\ DOMAIN pending' = 1..(Len(pending) + 1) /\ Len(pending) \in Nat
        /\ DOMAIN pending = 1..Len(pending)
        /\ \A n \in 1..Len(pending) : pending'[n] = pending[n]
        /\ pending'[Len(pending) + 1] = Queued(t)
        /\ effects' = effects
    BY <1>2, QueueSteps
  <2>2. WitnessHeld(gw[t].witness)
    BY <2>1 DEF FreshInv, Witnessed, At
  <2>3. CommandFresh(Queued(t))
    BY <2>2 DEF Queued, CommandFresh
  <2>4. ASSUME NEW n \in DOMAIN pending' PROVE CommandFresh(pending'[n])
    <3>1. n \in 1..Len(pending) \/ n = Len(pending) + 1
      BY <2>1
    <3> QED BY <1>0, <2>1, <2>3, <3>1
  <2>5. \A n \in DOMAIN pending' : CommandFresh(pending[n])'
    BY <1>0, <2>4 DEF CommandFresh, WitnessHeld, RunAt
  <2> QED BY <1>0, <2>1, <2>5 DEF ConditionalFresh
<1>3. ASSUME NEW t \in Threads, Abandons(t)
      PROVE  /\ \A n \in DOMAIN pending' : CommandFresh(pending[n])'
             /\ ConditionalFresh'
  BY <1>0, <1>3, QueueSteps DEF CommandFresh, WitnessHeld, RunAt, ConditionalFresh
<1>4. CASE Scan
  <2>1. pending' = <<>>
    BY <1>4 DEF Scan
  <2>2. \A n \in DOMAIN pending' : CommandFresh(pending[n])'
    BY <2>1
  <2>3. effects' = effects \cup {[id |-> pending[n].id, guard |-> pending[n].guard,
                                  line |-> line, at |-> now]
                                   : n \in {m \in DOMAIN pending : Executes(pending[m])}}
    BY <1>4 DEF Scan
  <2>4. ASSUME NEW n \in DOMAIN pending, Executes(pending[n]), pending[n].guard # "plain"
        PROVE  line = RUN /\ now <= AgeBound
    <3>1. pending[n].guard \in {"version", "predicate"} /\ CommandFresh(pending[n])
      BY <1>0, <2>4 DEF Command, Guards
    <3>2. now <= AgeBound
      BY <2>4, <3>1, GatewayAssumption DEF Executes, CommandFresh, NoDeadlineAt
    <3>3. CASE pending[n].guard = "predicate"
      BY <2>4, <3>2, <3>3 DEF Executes
    <3>4. CASE pending[n].guard = "version"
      <4>1. WitnessHeld(cellVersion)
        BY <2>4, <3>1, <3>4 DEF CommandFresh, Executes
      <4>2. cellVersion \in Nat
        BY TypesGive, CellAssumption DEF CellTypeOK
      <4>3. [line |-> RUN, version |-> cellVersion] \in held
        BY <4>1, <4>2 DEF WitnessHeld, RunAt, NoVersion
      <4>4. line = RUN
        BY <4>3 DEF HeldInv
      <4> QED BY <3>2, <4>4
    <3> QED BY <3>1, <3>3, <3>4
  <2>5. ASSUME NEW e \in effects', e.guard # "plain" PROVE e.line = RUN /\ e.at <= AgeBound
    <3>1. CASE e \in effects
      BY <1>0, <2>5, <3>1 DEF ConditionalFresh
    <3>2. CASE e \notin effects
      <4>1. PICK n \in DOMAIN pending :
              /\ Executes(pending[n])
              /\ e = [id |-> pending[n].id, guard |-> pending[n].guard, line |-> line, at |-> now]
        BY <2>3, <2>5, <3>2
      <4>2. e.guard = pending[n].guard /\ e.line = line /\ e.at = now
        BY <4>1
      <4> QED BY <2>4, <2>5, <4>1, <4>2
    <3> QED BY <3>1, <3>2
  <2> QED BY <2>2, <2>5 DEF ConditionalFresh
<1>5. CASE CellRestart
  <2>1. pending' = <<>> /\ effects' = effects
    BY <1>5 DEF CellRestart
  <2> QED BY <1>0, <2>1 DEF ConditionalFresh
<1> QED BY <1>1, <1>2, <1>3, <1>4, <1>5, PendingSteps

LEMMA FreshInit == Init => FreshInv
<1> SUFFICES ASSUME Init PROVE FreshInv
  OBVIOUS
<1>1. /\ bridgeQ = <<[line |-> RUN, version |-> 1]>> /\ posting = NoPost /\ late = {}
      /\ held = {[line |-> RUN, version |-> 1]} /\ pending = <<>> /\ effects = {}
  BY DEF Init, CellInit
<1>2. context[LineState] = Missing
  BY GatewayAssumption DEF Init, OtherPaths
<1>3. \A t \in Threads : gw[t].pc = "idle"
  BY DEF Init, Idle
<1>4. PairsHeld
  BY <1>1 DEF PairsHeld
<1> QED BY <1>1, <1>2, <1>3, <1>4 DEF FreshInv, ShowsHeld, Missing, RUN, Witnessed, ConditionalFresh

\* The invariant of the controller's pairs, the records and the modes.
BaseInv == GatewayTypes /\ CellShape /\ HeldInv /\ ModesInv /\ AdmittedInv /\ ReportsMatchState

LEMMA BaseInvariant == Spec => []BaseInv
<1>1. Init => BaseInv
  <2>1. Init => ReportsMatchState
    BY DEF Init, RuntimeInit, ReportsMatchState, Consistent, Absent, ReleasedStates
  <2> QED BY <2>1, GatewayTypesInit, HeldInit, ModesInit, AdmittedInit DEF BaseInv
<1>2. BaseInv /\ [Next]_vars => BaseInv'
  <2> SUFFICES ASSUME BaseInv, [Next]_vars PROVE BaseInv'
    OBVIOUS
  <2>1. GatewayTypes' /\ ModesInv' /\ AdmittedInv'
    BY GatewayTypesStep, ModesStep, AdmittedStep DEF BaseInv
  <2>2. CellShape' /\ HeldInv'
    BY ControllerSteps, HeldStep DEF BaseInv
  <2>3. ReportsMatchState'
    <3>1. RuntimeTypeOK /\ [RuntimeNext]_runtimeVars
      BY RuntimeSteps, TypesGive DEF BaseInv
    <3> QED BY <3>1, StepChanges, ChangeConsistent DEF BaseInv, ReportsMatchState, RuntimeTypeOK
  <2> QED BY <2>1, <2>2, <2>3 DEF BaseInv
<1> QED BY <1>1, <1>2, PTL DEF Spec

\* A version-conditional or interlocked command takes effect only on a running
\* line and within the deadline, wherever the intents' predicates ask for the
\* line in RUN: the witness a command carries is the version of a state in RUN,
\* and no other state has that version, whatever the replica shows by then.
THEOREM ConditionalsFresh ==
  ASSUME LineGuarded PROVE Spec => []ConditionalFresh
<1>1. BaseInv /\ FreshInv /\ [Next]_vars => FreshInv'
  <2> SUFFICES ASSUME BaseInv, FreshInv, [Next]_vars PROVE FreshInv'
    OBVIOUS
  <2>1. PairsHeld' /\ ShowsHeld(context)'
    BY PairsStep, ContextStep DEF BaseInv, FreshInv
  <2>2. \A t \in Threads : Witnessed(gw[t])'
    BY WitnessStep DEF BaseInv
  <2>3. (\A n \in DOMAIN pending' : CommandFresh(pending[n])') /\ ConditionalFresh'
    BY CommandsStep DEF BaseInv
  <2> QED BY <2>1, <2>2, <2>3 DEF FreshInv
<1>2. FreshInv => ConditionalFresh
  BY DEF FreshInv
<1> QED BY <1>1, <1>2, FreshInit, BaseInvariant, PTL DEF Spec

-----------------------------------------------------------------------------
(* Claims *)

Uncrossed == {"validate", "gate_read", "gate", "commit", "guard", "cross"}

\* The thread has claimed the id of its request in the store, for a crossing or
\* while it waits for the answer to one.
Claimer(t) == gw[t].pc \in Uncrossed \cup {"await"} /\ gw[t].id \notin stopClass

LEMMA StopsStay ==
  ASSUME OneStopPolicy, GatewayTypes, [Next]_vars
  PROVE  stopClass' = stopClass
<1>1. stopClass \in StopPolicies /\ stopClass' \in StopPolicies
  BY TypesGive, GatewayTypesStep DEF GatewayTypes, GatewayTypeOK, RuntimeTypeOK
<1> QED BY <1>1 DEF OneStopPolicy

\* A claimer was one already, or claims its id in this step.
LEMMA ClaimerMoves ==
  ASSUME OneStopPolicy, GatewayTypes, [Next]_vars, NEW t \in Threads, Claimer(t)'
  PROVE  /\ gw'[t].id = gw[t].id /\ gw[t].id \in Intents
         /\ \/ Claimer(t) /\ gw'[t] = gw[t]
            \/ Claimer(t) /\ ThreadStep(t) /\ Edge(gw[t], gw'[t]) /\ gw'[t] # gw[t] /\ gw'[t] # Idle
            \/ Claims(t) /\ gw'[t].pc = "validate" /\ gw'[t] # gw[t]
<1>0. /\ stopClass' = stopClass /\ Moves(t) /\ gw[t].id \in Intents
      /\ gw \in [Threads -> Req]
  BY StopsStay, ThreadMoves, TypesGive
<1>1. gw'[t].pc \in Uncrossed \cup {"await"} /\ gw'[t].id \notin stopClass
  BY <1>0 DEF Claimer
<1>2. CASE gw'[t] = gw[t]
  BY <1>0, <1>1, <1>2 DEF Claimer
<1>3. CASE gw'[t] # gw[t]
  <2>1. gw'[t] # Idle
    BY <1>1 DEF Idle, Uncrossed
  <2>2. ~Begins(gw'[t])
    BY <1>1 DEF Begins, FirstSteps, Uncrossed
  <2>3. ThreadStep(t) /\ Edge(gw[t], gw'[t])
    BY <1>0, <1>3, <2>1, <2>2 DEF Moves
  <2>4. /\ gw'[t].id = gw[t].id
        /\ \/ gw[t].pc \in Uncrossed
           \/ gw[t].pc \in {"submit", "claim"} /\ gw'[t].pc \in {"claim", "validate"}
    BY <1>1, <2>3 DEF Edge, Edges, Uncrossed
  <2>5. CASE gw[t].pc \in Uncrossed
    BY <1>0, <1>1, <1>3, <2>1, <2>3, <2>4, <2>5 DEF Claimer
  <2>6. CASE gw[t].pc = "claim" /\ gw'[t].pc = "validate"
    BY <1>0, <1>3, <2>4, <2>6, ClaimedTo
  <2>7. CASE gw[t].pc = "submit" /\ gw'[t].pc = "validate"
    <3>1. SubmitAdmit(t)
      BY <1>3, <2>3, <2>7, Actor DEF ActsAt, At
    <3>2. gw[t].id \in stopClass
      BY <1>0, <2>1, <2>7, <3>1 DEF SubmitAdmit, Goto, End, Req
    <3> QED BY <1>1, <2>4, <3>2
  <2> QED BY <1>1, <2>4, <2>5, <2>6, <2>7 DEF Uncrossed
<1> QED BY <1>2, <1>3

\* An id that is not a stop's is claimed before it crosses, by one thread, which
\* crosses with it once; the claim outlives XAIR's memory of the id.
ClaimInv ==
  /\ \A t \in Threads : Claimer(t) => gw[t].id \in claims
  /\ \A t, u \in Threads : Claimer(t) /\ Claimer(u) /\ gw[t].id = gw[u].id => t = u
  /\ \A t \in Threads : Claimer(t) /\ gw[t].pc \in Uncrossed => crossings[gw[t].id] = 0
  /\ \A i \in Intents \ stopClass : i \notin claims => crossings[i] = 0
  /\ ReleasedOnce

\* A counted crossing of an id that is not a stop's is its claimer's first.
LEMMA CountsOnce ==
  ASSUME OneStopPolicy, GatewayTypes, ModesInv, ClaimInv, [Next]_vars,
         NEW i \in Intents \ stopClass
  PROVE  \/ crossings'[i] = crossings[i]
         \/ \E v \in Threads : /\ Claimer(v) /\ gw[v].id = i /\ ~(gw'[v].pc \in Uncrossed)
                               /\ i \in claims /\ crossings[i] = 0 /\ crossings'[i] = 1
<1>1. ASSUME NEW v \in Threads, Counts(v), gw[v].id = i
      PROVE  /\ Claimer(v) /\ gw[v].id = i /\ ~(gw'[v].pc \in Uncrossed)
             /\ i \in claims /\ crossings[i] = 0 /\ crossings'[i] = 1
  <2>1. /\ At(v, "cross") /\ gw'[v].pc \in {"await", "report"}
        /\ crossings' = [crossings EXCEPT ![i] = @ + 1]
    BY <1>1, CountsCross
  <2>2. Claimer(v) /\ gw[v].pc \in Uncrossed
    BY <1>1, <2>1 DEF Claimer, Uncrossed, At
  <2>3. i \in claims /\ crossings[i] = 0
    BY <1>1, <2>2 DEF ClaimInv
  <2>4. crossings \in [Intents -> Nat]
    BY DEF GatewayTypes, GatewayTypeOK
  <2>5. crossings'[i] = 1
    BY <2>1, <2>3, <2>4
  <2>6. ~(gw'[v].pc \in Uncrossed)
    BY <2>1 DEF Uncrossed
  <2> QED BY <1>1, <2>2, <2>3, <2>5, <2>6
<1>2. ASSUME NEW v \in Threads, Counts(v), gw[v].id # i PROVE crossings'[i] = crossings[i]
  <2>1. crossings' = [crossings EXCEPT ![gw[v].id] = @ + 1]
    BY <1>2, CountsCross
  <2>2. crossings \in [Intents -> Nat]
    BY DEF GatewayTypes, GatewayTypeOK
  <2> QED BY <1>2, <2>1, <2>2
<1> QED BY <1>1, <1>2, CrossingSteps

LEMMA ClaimsGrow == [Next]_vars => claims \subseteq claims'
BY LogSteps DEF Claims, Commits, Withholds

LEMMA ClaimStep ==
  ASSUME OneStopPolicy, GatewayTypes, ModesInv, ClaimInv, [Next]_vars
  PROVE  ClaimInv'
<1>0. stopClass' = stopClass /\ claims \subseteq claims'
  BY StopsStay, ClaimsGrow
<1>1. ASSUME NEW t \in Threads, Claims(t)
      PROVE  gw[t].id \notin claims /\ gw[t].id \in claims'
  BY <1>1 DEF Claims
<1>2. ASSUME NEW t \in Threads, Claimer(t)' PROVE gw'[t].id \in claims'
  BY <1>0, <1>1, <1>2, ClaimerMoves DEF ClaimInv
<1>3. ASSUME NEW t \in Threads, NEW u \in Threads, Claimer(t)', Claimer(u)',
             gw'[t].id = gw'[u].id
      PROVE  t = u
  <2>1. CASE Claimer(t) /\ Claimer(u)
    BY <1>3, <2>1, ClaimerMoves DEF ClaimInv
  <2>2. ASSUME NEW x \in Threads, NEW y \in Threads, Claimer(x)', Claimer(y)', x # y,
               gw'[x].id = gw'[y].id, ~Claimer(x)
        PROVE  FALSE
    <3>1. Claims(x) /\ gw'[x].pc = "validate" /\ gw'[x].id = gw[x].id /\ gw'[x] # gw[x]
      BY <2>2, ClaimerMoves
    <3>2. gw'[x] # Idle
      BY <3>1 DEF Idle
    <3>3. gw'[y] = gw[y]
      BY <2>2, <3>1, <3>2, ThreadMoves DEF Alone
    <3>4. Claimer(y)
      BY <2>2, <3>3, ClaimerMoves
    <3> QED BY <1>1, <2>2, <3>1, <3>3, <3>4 DEF ClaimInv
  <2> QED BY <1>3, <2>1, <2>2
<1>4. ASSUME NEW t \in Threads, Claimer(t)', gw'[t].pc \in Uncrossed
      PROVE  crossings'[gw'[t].id] = 0
  <2> DEFINE i == gw[t].id
  <2>0. i \in Intents \ stopClass /\ gw'[t].id = i
    BY <1>0, <1>4, ClaimerMoves DEF Claimer
  <2>1. CASE Claimer(t)
    <3>1. gw[t].pc \in Uncrossed
      <4>1. ~Claims(t)
        BY <1>1, <2>1 DEF ClaimInv
      <4>2. gw'[t] = gw[t] \/ Edge(gw[t], gw'[t])
        BY <1>4, <4>1, ClaimerMoves
      <4>3. Edge(gw[t], gw'[t]) => gw[t].pc # "await"
        BY <1>4 DEF Edge, Edges, Uncrossed
      <4> QED BY <1>4, <2>1, <4>2, <4>3 DEF Claimer
    <3>2. crossings[i] = 0
      BY <2>1, <3>1 DEF ClaimInv
    <3>3. ASSUME NEW v \in Threads, Claimer(v), gw[v].id = i PROVE v = t
      BY <2>1, <3>3 DEF ClaimInv
    <3> QED BY <1>4, <2>0, <3>2, <3>3, CountsOnce
  <2>2. CASE ~Claimer(t)
    <3>1. i \notin claims
      BY <1>1, <1>4, <2>2, ClaimerMoves
    <3>2. crossings[i] = 0
      BY <2>0, <3>1 DEF ClaimInv
    <3> QED BY <2>0, <3>1, <3>2, CountsOnce
  <2> QED BY <2>1, <2>2
<1>5. ASSUME NEW i \in Intents \ stopClass, i \notin claims' PROVE crossings'[i] = 0
  BY <1>0, <1>5, CountsOnce DEF ClaimInv
<1>6. ASSUME NEW i \in Intents \ stopClass PROVE crossings'[i] <= 1
  <2>1. crossings[i] <= 1
    BY DEF ClaimInv, ReleasedOnce
  <2> QED BY <2>1, CountsOnce
<1> QED BY <1>0, <1>2, <1>3, <1>4, <1>5, <1>6 DEF ClaimInv, ReleasedOnce

LEMMA ClaimInit == Init => ClaimInv
BY DEF Init, ClaimInv, Claimer, ReleasedOnce, Idle, Uncrossed

LEMMA ClaimsInvariant == ASSUME OneStopPolicy PROVE Spec => []ClaimInv
<1>1. BaseInv /\ ClaimInv /\ [Next]_vars => ClaimInv'
  BY ClaimStep DEF BaseInv
<1> QED BY <1>1, ClaimInit, BaseInvariant, PTL DEF Spec

\* Through the XAIR modes an intent that is not a stop crosses at most once,
\* for any number of repeated requests, lost replies and restarts of XAIR,
\* unless a restart changes which intents are stops.
THEOREM ReleasesOnce ==
  ASSUME OneStopPolicy PROVE Spec => []ReleasedOnce
<1>1. ClaimInv => ReleasedOnce
  BY DEF ClaimInv
<1> QED BY <1>1, ClaimsInvariant, PTL

-----------------------------------------------------------------------------
(* Authorizations *)

InLog(i, kind) == \E n \in DOMAIN actuations : actuations[n] = [id |-> i, kind |-> kind]

\* The log grows by authorizations of commits and by tombstones.
LEMMA LogGrows ==
  ASSUME GatewayTypes, [Next]_vars, NEW i \in Intents, NEW kind
  PROVE  /\ InLog(i, kind) => InLog(i, kind)'
         /\ \/ InLog(i, kind)' => InLog(i, kind)
            \/ \E v \in Threads : Commits(v) /\ kind = "auth" /\ gw[v].id = i
            \/ \E v \in Threads : Withholds(v) /\ kind = "withheld" /\ gw[v].id = i
         /\ \A v \in Threads : Commits(v) /\ gw[v].id = i => InLog(i, "auth")'
<1>0. actuations \in Seq(Logged) /\ \A v \in Threads : gw[v].id \in Intents
  BY TypesGive DEF GatewayTypes
<1>1. ASSUME NEW e \in Logged, actuations' = Append(actuations, e)
      PROVE  /\ InLog(i, kind) => InLog(i, kind)'
             /\ InLog(i, kind)' => InLog(i, kind) \/ e = [id |-> i, kind |-> kind]
             /\ \E n \in DOMAIN actuations' : actuations'[n] = e
  <2>1. /\ DOMAIN actuations = 1..Len(actuations) /\ Len(actuations) \in Nat
        /\ DOMAIN actuations' = 1..(Len(actuations) + 1)
        /\ \A n \in 1..Len(actuations) : actuations'[n] = actuations[n]
        /\ actuations'[Len(actuations) + 1] = e
    BY <1>0, <1>1, AppendProperties, LenProperties
  <2>2. DOMAIN actuations \subseteq DOMAIN actuations'
    BY <2>1
  <2>3. Len(actuations) + 1 \in DOMAIN actuations'
    BY <2>1
  <2>4. \A n \in DOMAIN actuations' : n \in DOMAIN actuations \/ n = Len(actuations) + 1
    BY <2>1
  <2> QED BY <2>1, <2>2, <2>3, <2>4 DEF InLog
<1>2. ASSUME NEW v \in Threads, Commits(v)
      PROVE  /\ InLog(i, kind) => InLog(i, kind)'
             /\ (InLog(i, kind)' => InLog(i, kind)) \/ (kind = "auth" /\ gw[v].id = i)
             /\ gw[v].id = i => InLog(i, "auth")'
  <2> DEFINE e == [id |-> gw[v].id, kind |-> "auth"]
  <2>1. e \in Logged /\ actuations' = Append(actuations, e)
    BY <1>0, <1>2 DEF Commits, Logged
  <2>2. e = [id |-> i, kind |-> kind] => kind = "auth" /\ gw[v].id = i
    OBVIOUS
  <2>3. gw[v].id = i => e = [id |-> i, kind |-> "auth"]
    OBVIOUS
  <2> HIDE DEF e
  <2>4. gw[v].id = i => InLog(i, "auth")'
    BY <1>1, <2>1, <2>3 DEF InLog
  <2> QED BY <1>1, <2>1, <2>2, <2>4
<1>3. ASSUME NEW v \in Threads, Withholds(v)
      PROVE  /\ InLog(i, kind) => InLog(i, kind)'
             /\ (InLog(i, kind)' => InLog(i, kind)) \/ (kind = "withheld" /\ gw[v].id = i)
  <2> DEFINE e == [id |-> gw[v].id, kind |-> "withheld"]
  <2>1. e \in Logged /\ actuations' = Append(actuations, e)
    BY <1>0, <1>3 DEF Withholds, Logged
  <2>2. e = [id |-> i, kind |-> kind] => kind = "withheld" /\ gw[v].id = i
    OBVIOUS
  <2> HIDE DEF e
  <2> QED BY <1>1, <2>1, <2>2
<1>4. ASSUME UNCHANGED actuations
      PROVE  (InLog(i, kind) => InLog(i, kind)') /\ (InLog(i, kind)' => InLog(i, kind))
  BY <1>4 DEF InLog
<1>5. (\E v \in Threads : Claims(v)) \/ UNCHANGED <<logVars, claims>> => UNCHANGED actuations
  BY DEF Claims, logVars
<1>6. /\ InLog(i, kind) => InLog(i, kind)'
      /\ \/ InLog(i, kind)' => InLog(i, kind)
         \/ \E v \in Threads : Commits(v) /\ kind = "auth" /\ gw[v].id = i
         \/ \E v \in Threads : Withholds(v) /\ kind = "withheld" /\ gw[v].id = i
  BY <1>2, <1>3, <1>4, <1>5, LogSteps
<1> QED BY <1>2, <1>6

\* A commit lets its request go on only with the id among the committed ones.
LEMMA CommitTo ==
  ASSUME GatewayTypes, NEW t \in Threads, CommitCall(t), gw'[t] # Idle
  PROVE  /\ gw[t].id \in committed'
         /\ gw'[t].pc = IF gw[t].guard THEN "guard" ELSE "cross"
         /\ gw'[t].gate = version
         /\ gw'[t].seen = gw[t].seen
         /\ records[gw[t].id].state = "AUTHORIZED"
         /\ gw[t].id \in committed \/ ReadsOf(gw[t].id, pathVersions) = records[gw[t].id].readSetVersion
<1> DEFINE i == gw[t].id
           status == CommitStatus(i, DOMAIN Admissible[i], records[i].readSetVersion, now, AgeBound, 0)
           pc == IF gw[t].guard THEN "guard" ELSE "cross"
<1>1. gw \in [Threads -> Req] /\ gw[t] \in Req
  BY TypesGive
<1>2. /\ records[i].state = "AUTHORIZED"
      /\ Commit(i, status)
      /\ status \in {"committed", "duplicate"}
      /\ gw' = [gw EXCEPT ![t].pc = pc, ![t].gate = version]
  BY <1>1 DEF CommitCall, End
<1>3. i \in committed'
  BY <1>2 DEF Commit, CommitStatus, logVars
<1>4. i \in committed \/ ReadsOf(i, pathVersions) = records[i].readSetVersion
  BY <1>2 DEF CommitStatus, ReadsOf
<1> HIDE DEF status, pc
<1>5. gw'[t].pc = pc /\ gw'[t].gate = version /\ gw'[t].seen = gw[t].seen
  BY <1>1, <1>2 DEF Req
<1> QED BY <1>2, <1>3, <1>4, <1>5 DEF pc

\* Committed ids are authorized in the log, and no tombstone is there for an id
\* before it is claimed or while its claimer may still cross.
CommittedInv ==
  /\ \A i \in committed : i \in Intents /\ InLog(i, "auth")
  /\ \A i \in Intents \ stopClass : i \notin claims => ~InLog(i, "withheld")
  /\ \A t \in Threads : Claimer(t) /\ gw[t].pc \in Uncrossed => ~InLog(gw[t].id, "withheld")
  /\ \A t \in Threads :
       Claimer(t) /\ gw[t].pc \in {"guard", "cross"} /\ gw[t].mode = "xair_atomic"
         => InLog(gw[t].id, "auth")

LEMMA CommittedStep ==
  ASSUME OneStopPolicy, GatewayTypes, ModesInv, ClaimInv, CommittedInv, [Next]_vars
  PROVE  CommittedInv'
<1>0. stopClass' = stopClass /\ claims \subseteq claims'
  BY StopsStay, ClaimsGrow
<1>1. ASSUME NEW i \in committed' PROVE i \in Intents /\ InLog(i, "auth")'
  <2>1. CASE i \in committed
    BY <2>1, LogGrows DEF CommittedInv
  <2>2. CASE i \notin committed
    <3>1. PICK v \in Threads : Commits(v) /\ gw[v].id = i
      BY <1>1, <2>2, LogSteps DEF Claims, Commits, Withholds, logVars
    <3> QED BY <3>1, LogGrows, TypesGive
  <2> QED BY <2>1, <2>2
<1>2. ASSUME NEW v \in Threads, Withholds(v), gw[v].id \notin stopClass
      PROVE  Claimer(v) /\ gw'[v] = Idle
  <2>1. gw \in [Threads -> Req]
    BY TypesGive
  <2> QED BY <1>2, <2>1 DEF Withholds, ReleaseGuard, End, Claimer, Uncrossed, At
<1>3. ASSUME NEW i \in Intents \ stopClass, i \notin claims' PROVE ~InLog(i, "withheld")'
  <2>1. i \notin claims /\ ~InLog(i, "withheld")
    BY <1>0, <1>3 DEF CommittedInv
  <2>2. ASSUME NEW v \in Threads, Withholds(v), gw[v].id = i PROVE FALSE
    BY <1>2, <2>1, <2>2 DEF ClaimInv
  <2> QED BY <2>1, <2>2, LogGrows
<1>4. ASSUME NEW t \in Threads, Claimer(t)', gw'[t].pc \in Uncrossed
      PROVE  ~InLog(gw[t].id, "withheld")'
  <2> DEFINE i == gw[t].id
  <2>0. i \in Intents \ stopClass /\ gw'[t].id = i
    BY <1>0, <1>4, ClaimerMoves DEF Claimer
  <2>1. ASSUME NEW v \in Threads, Withholds(v), gw[v].id = i PROVE FALSE
    <3>1. Claimer(v) /\ gw'[v] = Idle
      BY <1>2, <2>0, <2>1
    <3>2. i \in claims
      BY <2>1, <3>1 DEF ClaimInv
    <3>3. Claimer(t)
      BY <1>4, <3>2, ClaimerMoves DEF Claims
    <3>4. v = t
      BY <2>1, <3>1, <3>3 DEF ClaimInv
    <3> QED BY <1>4, <3>1, <3>4 DEF Idle, Uncrossed
  <2>2. CASE Claimer(t)
    <3>1. gw[t].pc \in Uncrossed
      <4>1. ~Claims(t)
        BY <2>2 DEF ClaimInv, Claims
      <4>2. gw'[t] = gw[t] \/ Edge(gw[t], gw'[t])
        BY <1>4, <4>1, ClaimerMoves
      <4>3. Edge(gw[t], gw'[t]) => gw[t].pc # "await"
        BY <1>4 DEF Edge, Edges, Uncrossed
      <4> QED BY <1>4, <2>2, <4>2, <4>3 DEF Claimer
    <3>2. ~InLog(i, "withheld")'
      BY <2>0, <2>1, <2>2, <3>1, LogGrows DEF CommittedInv
    <3> QED BY <2>0, <3>2 DEF InLog
  <2>3. CASE ~Claimer(t)
    <3>1. i \notin claims
      BY <1>4, <2>3, ClaimerMoves DEF Claims
    <3>2. ~InLog(i, "withheld")'
      BY <2>0, <2>1, <3>1, LogGrows DEF CommittedInv
    <3> QED BY <2>0, <3>2 DEF InLog
  <2> QED BY <2>2, <2>3
<1>5. ASSUME NEW t \in Threads, Claimer(t)', gw'[t].pc \in {"guard", "cross"},
             gw'[t].mode = "xair_atomic"
      PROVE  InLog(gw[t].id, "auth")'
  <2> DEFINE i == gw[t].id
  <2>0. i \in Intents \ stopClass /\ gw'[t].id = i
    BY <1>0, <1>5, ClaimerMoves DEF Claimer
  <2>1. CASE gw'[t] = gw[t]
    <3>1. InLog(i, "auth")'
      BY <1>0, <1>5, <2>0, <2>1, LogGrows DEF CommittedInv, Claimer
    <3> QED BY <2>0, <3>1 DEF InLog
  <2>2. CASE gw'[t] # gw[t]
    <3>1. Claimer(t) /\ ThreadStep(t) /\ Edge(gw[t], gw'[t]) /\ gw'[t] # Idle
      BY <1>5, <2>2, ClaimerMoves
    <3>2. gw[t].pc \in {"validate", "gate", "commit", "guard"} /\ gw[t].mode = "xair_atomic"
      BY <1>5, <3>1 DEF Edge, Edges
    <3>3. CASE gw[t].pc = "validate"
      <4>1. SubmitValidate(t)
        BY <2>2, <3>1, <3>3, Actor DEF ActsAt, At
      <4> QED BY <1>5, <2>0, <3>1, <4>1, ValidatedTo DEF AfterValidation
    <3>4. CASE gw[t].pc = "gate"
      BY <3>2, <3>4 DEF ModesInv, Placed
    <3>5. CASE gw[t].pc = "commit"
      <4>1. CommitCall(t)
        BY <2>2, <3>1, <3>5, Actor DEF ActsAt, At
      <4>2. i \in committed'
        BY <3>1, <4>1, CommitTo
      <4> QED BY <1>1, <2>0, <4>2 DEF InLog
    <3>6. CASE gw[t].pc = "guard"
      <4>1. InLog(i, "auth")'
        BY <2>0, <3>1, <3>2, <3>6, LogGrows DEF CommittedInv
      <4> QED BY <2>0, <4>1 DEF InLog
    <3> QED BY <3>2, <3>3, <3>4, <3>5, <3>6
  <2> QED BY <2>1, <2>2
<1> QED BY <1>0, <1>1, <1>3, <1>4, <1>5 DEF CommittedInv

LEMMA CommittedInit == Init => CommittedInv
BY DEF Init, CommittedInv, Claimer, InLog, Idle, Uncrossed

\* In the atomic mode nothing crosses without an authorization in the log, nor
\* after the release guard left a tombstone: for any number of threads that
\* race for an id, and whatever XAIR forgets in a restart between the commit
\* and the crossing.
THEOREM AtomicsAuthorized ==
  ASSUME OneStopPolicy PROVE Spec => []AtomicAuthorized
<1>1. BaseInv /\ ClaimInv /\ CommittedInv /\ [Next]_vars => CommittedInv'
  BY CommittedStep DEF BaseInv
<1>2. CommittedInv => AtomicAuthorized
  BY DEF CommittedInv, AtomicAuthorized, Claimer, Uncrossed, InLog, At
<1> QED BY <1>1, <1>2, CommittedInit, ClaimsInvariant, BaseInvariant, PTL DEF Spec

-----------------------------------------------------------------------------
(* The document, its replica and its versions *)

Uncommitted == {"validate", "gate_read", "gate", "commit"}

\* An id is not committed before it is claimed or before its claimer commits it.
UncommittedInv ==
  /\ \A i \in Intents \ stopClass : i \notin claims => i \notin committed
  /\ \A t \in Threads : Claimer(t) /\ gw[t].pc \in Uncommitted => gw[t].id \notin committed

LEMMA UncommittedStep ==
  ASSUME OneStopPolicy, GatewayTypes, ClaimInv, UncommittedInv, [Next]_vars
  PROVE  UncommittedInv'
<1>0. stopClass' = stopClass /\ claims \subseteq claims'
  BY StopsStay, ClaimsGrow
<1>1. ASSUME NEW i \in Intents \ stopClass, i \in committed', i \notin committed
      PROVE  \E v \in Threads : /\ Claimer(v) /\ gw[v].id = i /\ i \in claims
                                /\ gw'[v].pc \notin Uncommitted
  <2>1. PICK v \in Threads : Commits(v) /\ gw[v].id = i
    BY <1>1, LogSteps DEF Claims, Commits, Withholds, logVars
  <2>2. CommitCall(v) /\ At(v, "commit")
    BY <2>1 DEF Commits, CommitCall
  <2>3. Claimer(v)
    BY <2>1, <2>2 DEF Claimer, Uncrossed, At
  <2>4. gw'[v].pc \notin Uncommitted
    BY <2>2, CommitTo DEF Idle, Uncommitted
  <2> QED BY <2>1, <2>3, <2>4 DEF ClaimInv
<1>2. ASSUME NEW i \in Intents \ stopClass, i \notin claims' PROVE i \notin committed'
  BY <1>0, <1>1, <1>2 DEF UncommittedInv
<1>3. ASSUME NEW t \in Threads, Claimer(t)', gw'[t].pc \in Uncommitted
      PROVE  gw'[t].id \notin committed'
  <2> DEFINE i == gw[t].id
  <2>0. i \in Intents \ stopClass /\ gw'[t].id = i
    BY <1>0, <1>3, ClaimerMoves DEF Claimer
  <2>1. CASE Claimer(t)
    <3>1. gw[t].pc \in Uncommitted
      <4>1. ~Claims(t)
        BY <2>1 DEF ClaimInv, Claims
      <4>2. gw'[t] = gw[t] \/ Edge(gw[t], gw'[t])
        BY <1>3, <4>1, ClaimerMoves
      <4>3. Edge(gw[t], gw'[t]) => gw[t].pc \notin {"guard", "cross", "await"}
        BY <1>3 DEF Edge, Edges, Uncommitted
      <4> QED BY <1>3, <2>1, <4>2, <4>3 DEF Claimer, Uncrossed, Uncommitted
    <3>2. i \notin committed
      BY <2>1, <3>1 DEF UncommittedInv
    <3> QED BY <1>1, <1>3, <2>0, <2>1, <3>2 DEF ClaimInv
  <2>2. CASE ~Claimer(t)
    <3>1. i \notin claims
      BY <1>3, <2>2, ClaimerMoves DEF Claims
    <3>2. i \notin committed
      BY <2>0, <3>1 DEF UncommittedInv
    <3> QED BY <1>1, <2>0, <3>1, <3>2
  <2> QED BY <2>1, <2>2
<1> QED BY <1>0, <1>2, <1>3 DEF UncommittedInv

LEMMA UncommittedInit == Init => UncommittedInv
BY DEF Init, UncommittedInv, Claimer, Idle, Uncrossed

\* Every change is at most as new as the version of its path, that version at
\* most as new as the document, and the policy engine's copy is the document as
\* it was at one of its versions.
ChangesInv ==
  /\ \A p \in Paths : pathVersions[p] <= version
  /\ \A p \in Paths, v \in Nat : <<p, v>> \in changes => v <= pathVersions[p]
  /\ opa.version <= version
  /\ \A p \in Paths : opa.pathVersions[p] <= opa.version
  /\ \A p \in Paths, v \in Nat :
       <<p, v>> \in changes => v <= opa.pathVersions[p] \/ v > opa.version

\* What an update does to the versions and to the history of changes.
LEMMA Updates ==
  ASSUME GatewayTypes, [Next]_vars
  PROVE  /\ version \in Nat /\ version' \in Nat /\ version <= version'
         /\ \A p \in Paths : /\ pathVersions[p] \in Nat /\ pathVersions'[p] \in Nat
                             /\ pathVersions'[p] \in {pathVersions[p], version'}
         /\ \A p \in Paths, v \in Nat : <<p, v>> \in changes' =>
              \/ <<p, v>> \in changes
              \/ v = version' /\ v > version /\ pathVersions'[p] = version'
         /\ version' = version => UNCHANGED pathVersions /\ changes' = changes
<1>0. /\ version \in Nat /\ version' \in Nat
      /\ \A p \in Paths : pathVersions[p] \in Nat /\ pathVersions'[p] \in Nat
  <2>1. GatewayTypes'
    BY GatewayTypesStep
  <2>2. /\ version \in Versions /\ version' \in Versions /\ Versions \subseteq Nat
        /\ pathVersions \in [Paths -> Versions] /\ pathVersions' \in [Paths -> Versions]
    BY <2>1, TypesGive DEF GatewayTypes, GatewayTypeOK
  <2> QED BY <2>2
<1>1. CASE UNCHANGED <<documentVars, changes>>
  BY <1>0, <1>1 DEF documentVars
<1>2. ASSUME NEW patch, StorePatch(patch)
      PROVE  /\ version' = version + 1
             /\ \A p \in Paths : pathVersions'[p] \in {pathVersions[p], version'}
             /\ \A p \in Paths, v \in Nat : <<p, v>> \in changes' =>
                  <<p, v>> \in changes \/ (v = version' /\ pathVersions'[p] = version')
  <2>1. /\ version' = version + 1
        /\ pathVersions' = [p \in Paths |-> IF context'[p] # context[p] THEN version + 1
                                            ELSE pathVersions[p]]
        /\ changes' = changes \cup {<<p, version'>> : p \in {q \in Paths : context'[q] # context[q]}}
    BY <1>2 DEF StorePatch, Apply
  <2>2. ASSUME NEW p \in Paths, NEW v \in Nat, <<p, v>> \in changes', <<p, v>> \notin changes
        PROVE  v = version' /\ pathVersions'[p] = version'
    <3>1. PICK q \in Paths : context'[q] # context[q] /\ <<p, v>> = <<q, version'>>
      BY <2>1, <2>2
    <3>2. p = q /\ v = version'
      BY <3>1
    <3> QED BY <2>1, <3>1, <3>2
  <2> QED BY <2>1, <2>2
<1> QED BY <1>0, <1>1, <1>2, DocumentSteps

LEMMA ChangesStep ==
  ASSUME GatewayTypes, ChangesInv, [Next]_vars
  PROVE  ChangesInv'
<1>0. /\ opa \in Documents /\ opa.version \in Nat
      /\ \A p \in Paths : opa.pathVersions[p] \in Nat
  BY TypesGive DEF Documents
<1>1. /\ \A p \in Paths : pathVersions'[p] <= version'
      /\ \A p \in Paths, v \in Nat : <<p, v>> \in changes' => v <= pathVersions'[p]
  BY Updates DEF ChangesInv
<1>2. CASE opa' = opa
  BY <1>0, <1>1, <1>2, Updates DEF ChangesInv
<1>3. CASE opa' = Snapshot
  <2>1. opa'.version = version /\ opa'.pathVersions = pathVersions
    BY <1>3 DEF Snapshot
  <2> QED BY <1>1, <2>1, Updates DEF ChangesInv
<1> QED BY <1>2, <1>3, ReplicaSteps

LEMMA ChangesInit == Init => ChangesInv
<1> SUFFICES ASSUME Init PROVE ChangesInv
  OBVIOUS
<1>1. /\ changes = {} /\ opa.version = version /\ opa.pathVersions = pathVersions
      /\ version = IF OtherPaths = {} THEN 0 ELSE 1
      /\ pathVersions = [p \in Paths |-> IF p \in OtherPaths THEN 1 ELSE 0]
  BY DEF Init, Snapshot
<1>2. \A p \in Paths : pathVersions[p] <= version
  BY <1>1
<1> QED BY <1>1, <1>2 DEF ChangesInv

\* Read set versions bound the changes of the paths read.
LEMMA ReadsBound ==
  ASSUME NEW i \in Intents, NEW pv \in [Paths -> Versions], NEW top \in Nat,
         \A p \in Paths : pv[p] <= top
  PROVE  /\ ReadsOf(i, pv) \in Nat /\ ReadsOf(i, pv) <= top
         /\ \A p \in DOMAIN Admissible[i] : p \in Paths /\ pv[p] \in Nat /\ pv[p] <= ReadsOf(i, pv)
<1> DEFINE reads == ReadsOf(i, pv)
           R == DOMAIN Admissible[i]
<1>1. Versions \subseteq Nat
  BY RuntimeAssumption DEF Versions
<1>2. /\ reads \in Versions
      /\ \A p \in R : p \in Paths /\ pv[p] <= reads
      /\ reads = 0 \/ \E p \in R : reads = pv[p]
  BY ReadsTypes
<1> HIDE DEF reads, R
<1>3. \A p \in R : p \in Paths /\ pv[p] \in Nat /\ pv[p] <= reads
  BY <1>1, <1>2
<1>4. reads \in Nat /\ reads <= top
  BY <1>1, <1>2
<1> QED BY <1>3, <1>4 DEF reads, R

\* The versions that the reads of the local modes leave in a request.
LEMMA LocalReadsTo ==
  ASSUME GatewayTypes, NEW t \in Threads, gw'[t] # Idle
  PROVE  /\ AuthoritativeRead(t) =>
              /\ gw'[t].pc = "reread" /\ gw'[t].seen = version
              /\ gw'[t].expected = GateVersion(gw[t].scope, version, ReadsOf(gw[t].id, pathVersions))
         /\ AuthoritativeReread(t) =>
              /\ gw'[t].pc = "publish" /\ gw'[t].gate = version
              /\ gw[t].expected = GateVersion(gw[t].scope, version, ReadsOf(gw[t].id, pathVersions))
         /\ OpaValidate(t) =>
              /\ gw'[t].pc = "opa_gate" /\ gw'[t].seen = opa.version
              /\ gw'[t].expected = ReadsOf(gw[t].id, opa.pathVersions)
         /\ OpaGate(t) =>
              /\ gw'[t].pc = "publish" /\ gw'[t].gate = opa.version
              /\ gw[t].mode = "opa_readset" => gw[t].expected = ReadsOf(gw[t].id, opa.pathVersions)
<1>0. gw \in [Threads -> Req] /\ gw[t] \in Req
  BY TypesGive
<1>1. ~End(t)
  BY <1>0 DEF End
<1>2. ASSUME AuthoritativeRead(t)
      PROVE  /\ gw'[t].pc = "reread" /\ gw'[t].seen = version
             /\ gw'[t].expected = GateVersion(gw[t].scope, version, ReadsOf(gw[t].id, pathVersions))
  <2> DEFINE e == GateVersion(gw[t].scope, version, ReadsOf(gw[t].id, pathVersions))
  <2>1. gw' = [gw EXCEPT ![t].pc = "reread", ![t].seen = version, ![t].expected = e]
    BY <1>1, <1>2 DEF AuthoritativeRead
  <2> HIDE DEF e
  <2>2. gw'[t].pc = "reread" /\ gw'[t].seen = version /\ gw'[t].expected = e
    BY <1>0, <2>1 DEF Req
  <2> QED BY <2>2 DEF e
<1>3. ASSUME AuthoritativeReread(t)
      PROVE  /\ gw'[t].pc = "publish" /\ gw'[t].gate = version
             /\ gw[t].expected = GateVersion(gw[t].scope, version, ReadsOf(gw[t].id, pathVersions))
  <2>1. /\ gw' = [gw EXCEPT ![t].pc = "publish", ![t].gate = version]
        /\ gw[t].expected = GateVersion(gw[t].scope, version, ReadsOf(gw[t].id, pathVersions))
    BY <1>1, <1>3 DEF AuthoritativeReread
  <2>2. gw'[t].pc = "publish" /\ gw'[t].gate = version
    BY <1>0, <2>1 DEF Req
  <2> QED BY <2>1, <2>2
<1>4. ASSUME OpaValidate(t)
      PROVE  /\ gw'[t].pc = "opa_gate" /\ gw'[t].seen = opa.version
             /\ gw'[t].expected = ReadsOf(gw[t].id, opa.pathVersions)
  <2> DEFINE e == ReadsOf(gw[t].id, opa.pathVersions)
  <2>1. gw' = [gw EXCEPT ![t].pc = "opa_gate", ![t].seen = opa.version, ![t].expected = e]
    BY <1>1, <1>4 DEF OpaValidate
  <2> HIDE DEF e
  <2>2. gw'[t].pc = "opa_gate" /\ gw'[t].seen = opa.version /\ gw'[t].expected = e
    BY <1>0, <2>1 DEF Req
  <2> QED BY <2>2 DEF e
<1>5. ASSUME OpaGate(t)
      PROVE  /\ gw'[t].pc = "publish" /\ gw'[t].gate = opa.version
             /\ gw[t].mode = "opa_readset" => gw[t].expected = ReadsOf(gw[t].id, opa.pathVersions)
  <2>1. /\ gw' = [gw EXCEPT ![t].pc = "publish", ![t].gate = opa.version]
        /\ gw[t].mode = "opa_readset" => gw[t].expected = ReadsOf(gw[t].id, opa.pathVersions)
    BY <1>1, <1>5 DEF OpaGate
  <2>2. gw'[t].pc = "publish" /\ gw'[t].gate = opa.version
    BY <1>0, <2>1 DEF Req
  <2> QED BY <2>1, <2>2
<1> QED BY <1>2, <1>3, <1>4, <1>5

\* Among the changes cs none is of a path that intent i reads and after version
\* "from", up to version "to".
NoChange(cs, i, from, to) ==
  \A p \in DOMAIN Admissible[i], v \in Nat : <<p, v>> \in cs => v <= from \/ v > to

\* a request whose last check compared versions
Rechecked(g) ==
  \/ g.pc = "publish" /\ g.mode \in VersionedModes
  \/ g.pc = "guard"
  \/ g.pc = "cross" /\ g.id \notin stopClass /\ (g.mode = "xair_atomic" \/ g.scope # "predicate")

\* What the checks of a request know of the versions: the one to compare is not
\* above the one of the validation; the read set version of a snapshot bounds
\* the changes it has seen; and a request that passed has missed no change.
Gated(g) ==
  /\ g.pc \in {"gate_read", "gate", "commit", "guard"} => g.id \notin stopClass
  /\ g.pc \in {"reread", "gate_read", "gate", "commit"} => g.seen <= version
  /\ g.pc \in {"reread", "gate_read", "gate"} => g.expected <= g.seen
  /\ g.pc = "opa_gate" => g.expected <= g.seen /\ g.seen <= opa.version
  /\ g.pc = "gate" /\ g.trusted => g.gate <= version /\ NoChange(changes, g.id, g.reads, g.gate)
  /\ g.pc = "commit" /\ records[g.id].state = "AUTHORIZED" => records[g.id].readSetVersion <= g.seen
  /\ Rechecked(g) => g.gate <= version /\ NoChange(changes, g.id, g.seen, g.gate)

GateInv == \A t \in Threads : Gated(gw[t])

LEMMA NoChangeStays ==
  ASSUME GatewayTypes, [Next]_vars, NEW i \in Intents, NEW from \in Nat, NEW to \in Nat,
         to <= version, NoChange(changes, i, from, to)
  PROVE  NoChange(changes', i, from, to)
<1>1. \A p \in DOMAIN Admissible[i] : p \in Paths
  BY GatewayAssumption
<1> QED BY <1>1, Updates DEF NoChange

\* A check on the store's own versions.
LEMMA StoreChecked ==
  ASSUME GatewayTypes, ChangesInv, NEW i \in Intents, NEW from \in Nat,
         ReadsOf(i, pathVersions) <= from
  PROVE  NoChange(changes, i, from, version)
<1>1. \A p \in DOMAIN Admissible[i] : /\ p \in Paths /\ pathVersions[p] \in Nat
                                      /\ pathVersions[p] <= ReadsOf(i, pathVersions)
  BY ReadsBound, TypesGive DEF ChangesInv
<1>2. ReadsOf(i, pathVersions) \in Nat
  BY ReadsBound, TypesGive DEF ChangesInv
<1> QED BY <1>1, <1>2 DEF NoChange, ChangesInv

\* A check on the policy engine's copy.
LEMMA ReplicaChecked ==
  ASSUME GatewayTypes, ChangesInv, NEW i \in Intents, NEW from \in Nat,
         ReadsOf(i, opa.pathVersions) <= from
  PROVE  NoChange(changes, i, from, opa.version)
<1>0. opa.pathVersions \in [Paths -> Versions] /\ opa.version \in Nat
  BY TypesGive DEF Documents
<1>1. \A p \in DOMAIN Admissible[i] : /\ p \in Paths /\ opa.pathVersions[p] \in Nat
                                      /\ opa.pathVersions[p] <= ReadsOf(i, opa.pathVersions)
  BY <1>0, ReadsBound DEF ChangesInv
<1>2. ReadsOf(i, opa.pathVersions) \in Nat
  BY <1>0, ReadsBound DEF ChangesInv
<1> QED BY <1>0, <1>1, <1>2 DEF NoChange, ChangesInv

\* The record of a request at its commit stays as it was validated, or is no
\* longer AUTHORIZED: no other request validates a claimed id.
LEMMA AuthorizedStays ==
  ASSUME OneStopPolicy, GatewayTypes, ClaimInv, [Next]_vars, NEW t \in Threads,
         At(t, "commit"), gw[t].id \notin stopClass, records'[gw[t].id].state = "AUTHORIZED"
  PROVE  records'[gw[t].id] = records[gw[t].id]
<1> DEFINE i == gw[t].id
           r == records[i]
<1>0. i \in Intents /\ r \in Record
  BY TypesGive DEF RuntimeTypeOK
<1>1. ASSUME NEW v \in Threads, gw[v].id = i, SubmitValidate(v) PROVE FALSE
  <2>1. Claimer(v) /\ Claimer(t) /\ v # t
    BY <1>1 DEF SubmitValidate, At, Claimer, Uncrossed
  <2> QED BY <1>1, <2>1 DEF ClaimInv
<1>2. /\ Created(i).state = "CREATED" /\ Revoked(r).state = "REVOKED"
      /\ Withheld(r).state = "WITHHELD" /\ Released(r).state = "RELEASED"
      /\ Absent.state = "ABSENT"
      /\ \A seq : Committed(r, seq).state = "COMMITTED"
      /\ \A status : Effected(r, status).state = EffectState(status)
  BY <1>0 DEF Created, Absent, Revoked, Withheld, Released, Committed, Effected, Record
<1>3. \A status : EffectState(status) # "AUTHORIZED"
  BY DEF EffectState
<1>4. RecordMoves(i)
  BY <1>0, RecordSteps
<1> QED BY <1>1, <1>2, <1>3, <1>4 DEF RecordMoves

\* The invariants that bear on versions.
VersionInv == ClaimInv /\ UncommittedInv /\ ChangesInv

\* A request that stays where it is stays checked.
LEMMA GatedStays ==
  ASSUME OneStopPolicy, BaseInv, VersionInv, [Next]_vars, NEW t \in Threads,
         Gated(gw[t]), gw'[t] = gw[t]
  PROVE  Gated(gw[t])'
<1> DEFINE g == gw[t]
<1>0. /\ GatewayTypes /\ stopClass' = stopClass
      /\ version \in Nat /\ version' \in Nat /\ version <= version'
      /\ g.id \in Intents /\ g.seen \in Nat /\ g.gate \in Nat /\ g.reads \in Nat /\ g.expected \in Nat
  <2>1. GatewayTypes
    BY DEF BaseInv
  <2>2. g \in Req /\ Versions \subseteq Nat
    BY <2>1, TypesGive
  <2>3. /\ g.id \in Intents /\ g.seen \in Nat /\ g.gate \in Nat
        /\ g.reads \in Nat /\ g.expected \in Nat
    BY <2>2 DEF Req
  <2> QED BY <2>1, <2>3, StopsStay, Updates
<1>1. g.pc = "opa_gate" => g.seen <= opa'.version
  <2>1. opa.version \in Nat /\ opa.version <= version
    BY <1>0, TypesGive DEF Documents, VersionInv, ChangesInv
  <2>2. opa' = opa \/ opa'.version = version
    BY ReplicaSteps DEF Snapshot
  <2> QED BY <1>0, <2>1, <2>2 DEF Gated
<1>2. g.pc = "gate" /\ g.trusted => g.gate <= version' /\ NoChange(changes', g.id, g.reads, g.gate)
  BY <1>0, NoChangeStays DEF Gated
<1>3. Rechecked(g) => g.gate <= version' /\ NoChange(changes', g.id, g.seen, g.gate)
  BY <1>0, NoChangeStays DEF Gated
<1>4. g.pc = "commit" /\ records'[g.id].state = "AUTHORIZED" => records'[g.id].readSetVersion <= g.seen
  BY <1>0, AuthorizedStays DEF Gated, VersionInv, At
<1>5. /\ g.pc \in {"gate_read", "gate", "commit", "guard"} => g.id \notin stopClass
      /\ g.pc \in {"reread", "gate_read", "gate", "commit"} => g.seen <= version'
      /\ g.pc \in {"reread", "gate_read", "gate"} => g.expected <= g.seen
      /\ g.pc = "opa_gate" => g.expected <= g.seen
  BY <1>0 DEF Gated
<1>6. Rechecked(gw[t])' <=> Rechecked(g)
  BY <1>0 DEF Rechecked
<1> HIDE DEF g
<1>7. gw'[t] = g
  BY DEF g
<1>8. Rechecked(gw[t])' => g.gate <= version' /\ NoChange(changes', g.id, g.seen, g.gate)
  BY <1>3, <1>6
<1> QED BY <1>0, <1>1, <1>2, <1>4, <1>5, <1>7, <1>8 DEF Gated

\* Every check of a request leaves it checked.
LEMMA GatedSteps ==
  ASSUME OneStopPolicy, BaseInv, VersionInv, [Next]_vars, NEW t \in Threads,
         Gated(gw[t]), ThreadStep(t), Edge(gw[t], gw'[t]), gw'[t] # gw[t], gw'[t] # Idle
  PROVE  Gated(gw[t])'
<1> DEFINE g == gw[t]
           h == gw'[t]
           i == gw[t].id
           reads == ReadsOf(i, pathVersions)
<1>0. GatewayTypes /\ ChangesInv /\ GatewayTypes'
  BY GatewayTypesStep DEF BaseInv, VersionInv
<1>1. /\ g \in Req /\ h \in Req /\ Versions \subseteq Nat /\ i \in Intents
      /\ version \in Nat /\ version' \in Nat /\ version <= version'
      /\ stopClass' = stopClass /\ ActsAt(t) /\ Placed(g)
  BY <1>0, TypesGive, ThreadMoves, StopsStay, Updates, Actor DEF BaseInv, ModesInv
<1>2. /\ g.seen \in Nat /\ g.gate \in Nat /\ g.reads \in Nat /\ g.expected \in Nat
      /\ h.seen \in Nat /\ h.gate \in Nat /\ h.reads \in Nat /\ h.expected \in Nat
      /\ g.scope \in Scopes /\ g.mode \in Modes
  BY <1>1 DEF Req
<1>3. h.id = i /\ h.mode = g.mode /\ h.scope = g.scope
  BY DEF Edge
<1>4. reads \in Nat /\ reads <= version
  BY <1>0, <1>1, TypesGive, ReadsBound DEF ChangesInv
<1> HIDE DEF reads
<1>5. ASSUME h.gate <= version, NoChange(changes, i, h.seen, h.gate)
      PROVE  h.gate <= version' /\ NoChange(changes', h.id, h.seen, h.gate)
  BY <1>0, <1>1, <1>2, <1>3, <1>5, NoChangeStays
<1>6. CASE g.pc = "read"
  <2>1. h.pc = "reread" /\ h.seen = version /\ h.expected = GateVersion(g.scope, version, reads)
    BY <1>0, <1>1, <1>6, LocalReadsTo DEF ActsAt, At, reads
  <2>2. h.expected <= h.seen
    BY <1>1, <1>4, <2>1 DEF GateVersion
  <2> QED BY <1>1, <2>1, <2>2 DEF Gated, Rechecked
<1>7. CASE g.pc = "reread"
  <2>1. h.pc = "publish" /\ h.gate = version /\ g.expected = GateVersion(g.scope, version, reads)
    BY <1>0, <1>1, <1>7, LocalReadsTo DEF ActsAt, At, reads
  <2>2. h.seen = g.seen /\ g.expected <= g.seen
    BY <1>7 DEF Edge, Gated
  <2>3. NoChange(changes, i, g.seen, version)
    <3>1. CASE g.scope = "global"
      <4>1. version <= g.seen
        BY <2>1, <2>2, <3>1 DEF GateVersion
      <4> QED BY <1>1, <1>2, <4>1 DEF NoChange
    <3>2. CASE g.scope # "global"
      <4>1. ReadsOf(i, pathVersions) <= g.seen
        BY <2>1, <2>2, <3>2 DEF GateVersion, reads
      <4> QED BY <1>0, <1>1, <1>2, <4>1, StoreChecked
    <3> QED BY <3>1, <3>2
  <2>4. h.gate <= version' /\ NoChange(changes', h.id, h.seen, h.gate)
    BY <1>1, <1>5, <2>1, <2>2, <2>3
  <2> QED BY <2>1, <2>4 DEF Gated
<1>8. CASE g.pc = "opa_validate"
  <2>1. h.pc = "opa_gate" /\ h.seen = opa.version /\ h.expected = ReadsOf(i, opa.pathVersions)
    BY <1>0, <1>1, <1>8, LocalReadsTo DEF ActsAt, At
  <2>2. opa.pathVersions \in [Paths -> Versions] /\ opa.version \in Nat /\ opa.version <= version
    BY <1>0, TypesGive DEF Documents, ChangesInv
  <2>3. h.expected <= h.seen
    BY <1>0, <1>1, <2>1, <2>2, ReadsBound DEF ChangesInv
  <2>4. h.seen <= opa'.version
    <3>1. opa' = opa \/ opa'.version = version
      BY ReplicaSteps DEF Snapshot
    <3> QED BY <2>1, <2>2, <3>1
  <2> QED BY <2>1, <2>3, <2>4 DEF Gated, Rechecked
<1>9. CASE g.pc = "opa_gate"
  <2>1. /\ h.pc = "publish" /\ h.gate = opa.version
        /\ g.mode = "opa_readset" => g.expected = ReadsOf(i, opa.pathVersions)
    BY <1>0, <1>1, <1>9, LocalReadsTo DEF ActsAt, At
  <2>2. h.seen = g.seen /\ g.expected <= g.seen /\ g.mode \in {"opa", "opa_readset"}
    BY <1>1, <1>9 DEF Edge, Gated, Placed
  <2>3. CASE g.mode = "opa_readset"
    <3>1. NoChange(changes, i, h.seen, h.gate)
      BY <1>0, <1>1, <1>2, <2>1, <2>2, <2>3, ReplicaChecked
    <3>2. h.gate <= version
      BY <1>0, <2>1 DEF ChangesInv
    <3>3. h.gate <= version' /\ NoChange(changes', h.id, h.seen, h.gate)
      BY <1>5, <3>1, <3>2
    <3> QED BY <2>1, <3>3 DEF Gated
  <2>4. CASE g.mode = "opa"
    BY <1>3, <2>1, <2>4 DEF Gated, Rechecked, VersionedModes
  <2> QED BY <2>2, <2>3, <2>4
<1>10. CASE g.pc = "validate"
  <2>1. SubmitValidate(t)
    BY <1>1, <1>10 DEF ActsAt, At
  <2>2. /\ h.pc = AfterValidation(t) /\ h.seen = version
        /\ h.expected = GateVersion(g.scope, records'[i].contextVersion, records'[i].readSetVersion)
    BY <1>0, <2>1, ValidatedTo
  <2>3. CASE i \in stopClass
    BY <1>1, <1>3, <2>2, <2>3 DEF AfterValidation, Gated, Rechecked
  <2>4. CASE i \notin stopClass
    <3>1. /\ records'[i].readSetVersion = reads /\ records'[i].contextVersion = version
          /\ h.pc \in {"gate_read", "commit"}
      BY <2>1, <2>4, ValidatedOn DEF BaseInv, reads
    <3>2. h.expected <= h.seen /\ records'[i].readSetVersion <= h.seen
      BY <1>1, <1>4, <2>2, <3>1 DEF GateVersion
    <3> QED BY <1>1, <1>3, <2>2, <2>4, <3>1, <3>2 DEF Gated, Rechecked
  <2> QED BY <2>3, <2>4
<1>11. CASE g.pc = "gate_read"
  <2>1. GateRead(t)
    BY <1>1, <1>11 DEF ActsAt, At
  <2>2. /\ h.pc = "gate"
        /\ h.trusted => h.gate = version /\ h.reads = ReadsOf(i, pathVersions)
    BY <1>0, <2>1, GateReadTo
  <2>3. /\ h.seen = g.seen /\ h.expected = g.expected /\ i \notin stopClass
        /\ g.seen <= version /\ g.expected <= g.seen
    BY <1>11 DEF Edge, Gated
  <2>4. ASSUME h.trusted PROVE h.gate <= version' /\ NoChange(changes', h.id, h.reads, h.gate)
    <3>1. NoChange(changes, i, h.reads, h.gate)
      BY <1>0, <1>1, <1>2, <2>2, <2>4, StoreChecked
    <3> QED BY <1>0, <1>1, <1>2, <1>3, <2>2, <2>4, <3>1, NoChangeStays
  <2> QED BY <1>1, <1>2, <1>3, <2>2, <2>3, <2>4 DEF Gated, Rechecked
<1>12. CASE g.pc = "gate"
  <2>1. GateCheck(t)
    BY <1>1, <1>12 DEF ActsAt, At
  <2>2. h.pc = IF Passes(g) THEN "cross" ELSE "report"
    BY <1>0, <2>1, GateCheckTo
  <2>3. h.seen = g.seen /\ h.gate = g.gate /\ g.expected <= g.seen /\ g.mode = "xair"
    BY <1>1, <1>12 DEF Edge, Gated, Placed
  <2>4. CASE Passes(g) /\ g.scope # "predicate"
    <3>1. /\ g.expected = GateVersion(g.scope, g.gate, g.reads)
          /\ g.gate <= version /\ NoChange(changes, i, g.reads, g.gate)
      BY <1>12, <2>4 DEF Passes, Gated
    <3>2. NoChange(changes, i, g.seen, g.gate)
      BY <1>2, <2>3, <3>1 DEF NoChange, GateVersion
    <3>3. h.gate <= version' /\ NoChange(changes', h.id, h.seen, h.gate)
      BY <1>5, <2>3, <3>1, <3>2
    <3> QED BY <2>2, <3>3 DEF Gated
  <2>5. CASE ~Passes(g) \/ g.scope = "predicate"
    BY <1>3, <2>2, <2>3, <2>5 DEF Gated, Rechecked
  <2> QED BY <2>4, <2>5
<1>13. CASE g.pc = "commit"
  <2>1. CommitCall(t)
    BY <1>1, <1>13 DEF ActsAt, At
  <2>2. /\ h.pc \in {"guard", "cross"} /\ h.gate = version /\ h.seen = g.seen
        /\ records[i].state = "AUTHORIZED"
        /\ i \in committed \/ ReadsOf(i, pathVersions) = records[i].readSetVersion
    BY <1>0, <2>1, CommitTo
  <2>3. i \notin stopClass /\ records[i].readSetVersion <= g.seen
    BY <1>13, <2>2 DEF Gated
  <2>4. i \notin committed
    <3>1. Claimer(t) /\ g.pc \in Uncommitted
      BY <1>13, <2>3 DEF Claimer, Uncrossed, Uncommitted
    <3> QED BY <3>1 DEF VersionInv, UncommittedInv
  <2>5. NoChange(changes, i, h.seen, h.gate)
    BY <1>0, <1>1, <1>2, <2>2, <2>3, <2>4, StoreChecked
  <2>6. h.gate <= version' /\ NoChange(changes', h.id, h.seen, h.gate)
    BY <1>1, <1>5, <2>2, <2>5
  <2> QED BY <1>1, <1>3, <2>2, <2>3, <2>6 DEF Gated
<1>14. CASE g.pc = "guard"
  <2>1. h.pc = "cross" /\ h.seen = g.seen /\ h.gate = g.gate
    BY <1>14 DEF Edge, Edges
  <2>2. g.gate <= version /\ NoChange(changes, i, g.seen, g.gate)
    BY <1>14 DEF Gated, Rechecked
  <2>3. h.gate <= version' /\ NoChange(changes', h.id, h.seen, h.gate)
    BY <1>5, <2>1, <2>2
  <2> QED BY <2>1, <2>3 DEF Gated
<1>15. CASE g.pc \notin {"read", "reread", "opa_validate", "opa_gate", "validate", "gate_read",
                         "gate", "commit", "guard"}
  <2>1. h.pc \in {"local", "claim", "validate", "await", "report", "effect"}
    BY <1>15 DEF Edge, Edges
  <2> QED BY <2>1 DEF Gated, Rechecked
<1> QED BY <1>6, <1>7, <1>8, <1>9, <1>10, <1>11, <1>12, <1>13, <1>14, <1>15

LEMMA GateStep ==
  ASSUME OneStopPolicy, BaseInv, VersionInv, GateInv, [Next]_vars
  PROVE  GateInv'
<1> SUFFICES ASSUME NEW t \in Threads PROVE Gated(gw[t])'
  BY DEF GateInv
<1>0. Moves(t) /\ Gated(gw[t])
  BY ThreadMoves DEF BaseInv, GateInv
<1>1. CASE gw'[t] = gw[t]
  BY <1>0, <1>1, GatedStays
<1>2. CASE gw'[t] = Idle \/ Begins(gw'[t])
  BY <1>2 DEF Idle, Begins, FirstSteps, Gated, Rechecked
<1>3. CASE ThreadStep(t) /\ Edge(gw[t], gw'[t]) /\ gw'[t] # gw[t] /\ gw'[t] # Idle
  BY <1>0, <1>3, GatedSteps
<1> QED BY <1>0, <1>1, <1>2, <1>3 DEF Moves

LEMMA GateInit == Init => GateInv
BY DEF Init, GateInv, Gated, Rechecked, Idle

\* A release whose last check compares versions has missed no change of a value
\* its predicates read, not even one that was undone: with any number of
\* producers, injected updates, lost replications, late posts of the bridge and
\* restarts between the validation and the check, for the recheck of the gate
\* and of local_authoritative, the atomic commit and the policy engine's copy.
THEOREM GatesSound ==
  ASSUME OneStopPolicy PROVE Spec => []GateSound
<1>1. BaseInv /\ ClaimInv /\ VersionInv /\ [Next]_vars => (UncommittedInv /\ ChangesInv)'
  BY UncommittedStep, ChangesStep DEF BaseInv, VersionInv
<1>2. BaseInv /\ VersionInv /\ GateInv /\ [Next]_vars => GateInv'
  BY GateStep
<1>3. BaseInv /\ GateInv => GateSound
  <2> SUFFICES ASSUME BaseInv, GateInv, NEW t \in Threads, Versioned(t),
                      NEW p \in DOMAIN Admissible[gw[t].id],
                      NEW v \in (gw[t].seen + 1)..gw[t].gate, <<p, v>> \in changes
               PROVE  FALSE
    BY DEF GateSound
  <2>1. gw[t].seen \in Nat /\ gw[t].gate \in Nat
    <3>1. gw[t] \in Req /\ Versions \subseteq Nat
      BY TypesGive DEF BaseInv
    <3> QED BY <3>1 DEF Req
  <2>2. NoChange(changes, gw[t].id, gw[t].seen, gw[t].gate)
    BY DEF GateInv, Gated, Versioned, Rechecked, At
  <2>3. v \in Nat /\ v > gw[t].seen /\ v <= gw[t].gate
    BY <2>1
  <2> QED BY <2>1, <2>2, <2>3 DEF NoChange
<1>4. ClaimInv /\ UncommittedInv /\ ChangesInv <=> VersionInv
  BY DEF VersionInv
<1> QED BY <1>1, <1>2, <1>3, <1>4, UncommittedInit, ChangesInit, GateInit, ClaimsInvariant,
           BaseInvariant, PTL DEF Spec

-----------------------------------------------------------------------------
(* Effects *)

\* es holds an effect, q a command, of intent i
Done(es, i) == \E e \in es : e.id = i
Waiting(q, i) == \E n \in DOMAIN q : q[n].id = i

\* A stop goes to the middleware topics and not to the controller.
StopPublishes(g) ==
  /\ g.pc \in {"gate_read", "gate", "commit", "guard"} => g.id \notin stopClass
  /\ g.pc = "cross" /\ g.id \in stopClass => g.act = "ros"

\* What the answer a request waits for says of its command.
Answered(t) ==
  /\ gw[t].id \notin stopClass /\ crossings[gw[t].id] > 0
  /\ answer[t] = "none" => \E n \in DOMAIN pending : pending[n].by = t
  /\ answer[t] = "executed" => Done(effects, gw[t].id)
  /\ answer[t] = "refused" => ~Done(effects, gw[t].id) /\ ~Waiting(pending, gw[t].id)

\* A status is settled when nothing can happen any more that it denies.
Settled(i, status) ==
  /\ status = "confirmed" => Done(effects, i)
  /\ status = "failed" => /\ ~Done(effects, i) /\ ~Waiting(pending, i)
                          /\ i \notin stopClass /\ crossings[i] > 0

\* Only a counted crossing brings a command of an intent to the controller, one
\* at a time, for the request that waits for its answer; and what was reported
\* of its effect, or is about to be, is settled.
EffectInv ==
  /\ \A t \in Threads : StopPublishes(gw[t])
  /\ \A i \in Intents :
       Done(effects, i) \/ Waiting(pending, i) => i \notin stopClass /\ crossings[i] > 0
  /\ \A m, n \in DOMAIN pending : pending[m].id = pending[n].id => m = n
  /\ \A i \in Intents : Done(effects, i) => ~Waiting(pending, i)
  /\ \A n \in DOMAIN pending : pending[n].by # NoCaller =>
       At(pending[n].by, "await") /\ gw[pending[n].by].id = pending[n].id
  /\ \A t \in Threads : At(t, "await") => Answered(t)
  /\ \A t \in Threads : gw[t].pc \in {"report", "effect"} => Settled(gw[t].id, gw[t].effect)
  /\ \A i \in Intents : Settled(i, records[i].effect)

\* How a request leaves its call of the controller or of the topics.
LEMMA CrossTo ==
  ASSUME GatewayTypes, NEW t \in Threads, Cross(t)
  PROVE  \/ Enqueues(t) /\ Publish(t) /\ gw'[t].pc = "await"
         \/ gw'[t].pc = "report" /\ gw'[t].effect \in {"unknown", "NONE"}
<1>0. gw \in [Threads -> Req]
  BY TypesGive
<1>1. CASE gw' = [gw EXCEPT ![t].pc = "report", ![t].released = TRUE, ![t].effect = "unknown"]
  BY <1>0, <1>1 DEF Req
<1>2. CASE gw' = Raised(t)
  BY <1>0, <1>2 DEF Raised, Req
<1>3. CASE /\ gw[t].act # "ros" /\ Goto(t, "await") /\ Publish(t)
           /\ Enqueue(t, gw[t].id, gw[t].act, gw[t].witness, AgeBound)
  <2>1. gw'[t].pc = "await"
    BY <1>0, <1>3 DEF Goto, Req
  <2> QED BY <1>3, <2>1 DEF Enqueues, Cross
<1> QED BY <1>1, <1>2, <1>3 DEF Cross

LEMMA AwaitTo ==
  ASSUME GatewayTypes, NEW t \in Threads, Await(t)
  PROVE  /\ Abandons(t) /\ Alone(t)
         /\ gw'[t].pc = "report" /\ gw'[t].id = gw[t].id
         /\ gw'[t].effect = "confirmed" => answer[t] = "executed"
         /\ gw'[t].effect = "failed" => answer[t] = "refused"
<1>0. gw \in [Threads -> Req]
  BY TypesGive
<1>1. Abandons(t)
  BY DEF Await, Abandons
<1>2. ASSUME gw' = Raised(t)
      PROVE  /\ Alone(t) /\ gw'[t].pc = "report" /\ gw'[t].id = gw[t].id
             /\ gw'[t].effect \in {"unknown", "NONE"}
  BY <1>0, <1>2 DEF Raised, Req, Alone
<1>3. ASSUME answer[t] \in {"executed", "refused"},
             gw' = [gw EXCEPT ![t].pc = "report", ![t].released = TRUE,
                              ![t].effect = IF answer[t] = "executed" THEN "confirmed" ELSE "failed"]
      PROVE  /\ Alone(t) /\ gw'[t].pc = "report" /\ gw'[t].id = gw[t].id
             /\ gw'[t].effect = "confirmed" => answer[t] = "executed"
             /\ gw'[t].effect = "failed" => answer[t] = "refused"
  BY <1>0, <1>3 DEF Req, Alone
<1> QED BY <1>1, <1>2, <1>3 DEF Await

\* A command that is queued is the first of its intent.
LEMMA EnqueueFirst ==
  ASSUME GatewayTypes, ModesInv, ClaimInv, EffectInv, NEW t \in Threads, Enqueues(t)
  PROVE  /\ gw[t].id \in Intents \ stopClass
         /\ crossings[gw[t].id] = 0 /\ crossings'[gw[t].id] = 1
         /\ ~Done(effects, gw[t].id) /\ ~Waiting(pending, gw[t].id)
         /\ At(t, "cross") /\ gw'[t].pc = "await" /\ gw'[t].id = gw[t].id /\ Alone(t)
<1> DEFINE i == gw[t].id
<1>0. gw \in [Threads -> Req] /\ i \in Intents /\ crossings \in [Intents -> Nat]
  BY TypesGive DEF GatewayTypes, GatewayTypeOK
<1>1. /\ At(t, "cross") /\ gw[t].act # "ros" /\ gw' = [gw EXCEPT ![t].pc = "await"]
      /\ Cross(t)
  BY DEF Enqueues, Cross, Goto
<1>2. gw'[t].pc = "await" /\ gw'[t].id = gw[t].id /\ Alone(t)
  BY <1>0, <1>1 DEF Req, Alone
<1>3. i \notin stopClass
  BY <1>1 DEF EffectInv, StopPublishes, At
<1>4. Claimer(t) /\ gw[t].pc \in Uncrossed
  BY <1>1, <1>3 DEF Claimer, Uncrossed, At
<1>5. crossings[i] = 0
  BY <1>4 DEF ClaimInv
<1>6. crossings'[i] = 1
  <2>1. Publish(t) /\ gw[t].mode \in XairModes
    BY <1>1, <1>2, CrossTo DEF ModesInv, Placed, XairSteps, At
  <2> QED BY <1>0, <1>5, <2>1 DEF Publish
<1>7. ~Done(effects, i) /\ ~Waiting(pending, i)
  BY <1>0, <1>5 DEF EffectInv
<1> QED BY <1>0, <1>1, <1>2, <1>3, <1>5, <1>6, <1>7

\* Effects stay, come from queued commands, and commands from callers.
LEMMA CommandFacts ==
  ASSUME GatewayTypes, [Next]_vars, NEW i \in Intents
  PROVE  /\ Done(effects, i) => Done(effects', i)
         /\ Done(effects', i) => Done(effects, i) \/ Waiting(pending, i)
         /\ Waiting(pending', i) =>
              Waiting(pending, i) \/ \E t \in Threads : Enqueues(t) /\ gw[t].id = i
<1>1. CASE UNCHANGED commandVars
  BY <1>1 DEF commandVars
<1>2. ASSUME NEW t \in Threads, Enqueues(t)
      PROVE  /\ effects' = effects
             /\ Waiting(pending', i) => Waiting(pending, i) \/ gw[t].id = i
  <2>1. /\ DOMAIN pending' = 1..(Len(pending) + 1) /\ Len(pending) \in Nat
        /\ DOMAIN pending = 1..Len(pending)
        /\ \A n \in 1..Len(pending) : pending'[n] = pending[n]
        /\ pending'[Len(pending) + 1] = Queued(t)
        /\ effects' = effects
    BY <1>2, QueueSteps
  <2>2. Queued(t).id = gw[t].id
    BY DEF Queued
  <2>3. \A n \in DOMAIN pending' : n \in DOMAIN pending \/ n = Len(pending) + 1
    BY <2>1
  <2> QED BY <2>1, <2>2, <2>3 DEF Waiting
<1>3. ASSUME NEW t \in Threads, Abandons(t)
      PROVE  effects' = effects /\ (Waiting(pending', i) => Waiting(pending, i))
  BY <1>3, QueueSteps DEF Waiting
<1>4. CASE Scan
  <2>1. /\ pending' = <<>>
        /\ effects' = effects \cup {[id |-> pending[n].id, guard |-> pending[n].guard,
                                     line |-> line, at |-> now]
                                      : n \in {m \in DOMAIN pending : Executes(pending[m])}}
    BY <1>4 DEF Scan
  <2>2. ~Waiting(pending', i)
    BY <2>1 DEF Waiting
  <2>3. Done(effects', i) => Done(effects, i) \/ Waiting(pending, i)
    BY <2>1 DEF Done, Waiting
  <2> QED BY <2>1, <2>2, <2>3 DEF Done
<1>5. CASE CellRestart
  BY <1>5 DEF CellRestart, Waiting
<1> QED BY <1>1, <1>2, <1>3, <1>4, <1>5, PendingSteps

\* What is recorded of an effect is what a request reports of it.
LEMMA EffectRecorded ==
  ASSUME GatewayTypes, AdmittedInv, [Next]_vars, NEW i \in Intents
  PROVE  \/ records'[i].effect \in {records[i].effect, "NONE"}
         \/ \E t \in Threads : At(t, "effect") /\ gw[t].id = i /\ records'[i].effect = gw[t].effect
<1> DEFINE r == records[i]
<1>0. r \in Record /\ records \in [Intents -> Record] /\ RecordMoves(i)
  BY TypesGive, RecordSteps DEF RuntimeTypeOK
<1>1. /\ Created(i).effect = "NONE" /\ Absent.effect = "NONE" /\ Revoked(r).effect = r.effect
      /\ Withheld(r).effect = r.effect /\ Released(r).effect = r.effect
      /\ \A seq : Committed(r, seq).effect = r.effect
      /\ \A status : Effected(r, status).effect = status
  BY <1>0 DEF Created, Absent, Revoked, Withheld, Released, Committed, Effected, Record
<1>2. ASSUME NEW t \in Threads, gw[t].id = i, SubmitValidate(t) PROVE records'[i].effect = r.effect
  <2>1. r.state # "ABSENT"
    BY <1>2 DEF AdmittedInv, Undecided, SubmitValidate, At
  <2> DEFINE c == Found(i)
             o == Decide(r, i, c)
  <2>2. \/ records' = records
        \/ records' = [records EXCEPT ![i] = AuthorizeStop(r)]
        \/ records' = [records EXCEPT ![i] = RevokeStale(r)]
        \/ records' = [records EXCEPT ![i] = Validated(r, o, c)]
    BY <1>2, <2>1 DEF SubmitValidate, ProcessIntent
  <2> HIDE DEF c, o
  <2>3. /\ AuthorizeStop(r).effect = r.effect /\ RevokeStale(r).effect = r.effect
        /\ Validated(r, o, c).effect = r.effect
    BY <1>0 DEF AuthorizeStop, RevokeStale, Validated, Record
  <2> QED BY <1>0, <2>2, <2>3
<1>3. ASSUME NEW t \in Threads, ReportedEffect(t) PROVE At(t, "effect")
  BY <1>3 DEF ReportedEffect
<1> QED BY <1>0, <1>1, <1>2, <1>3 DEF RecordMoves

\* The invariants the effects rest on.
CrossInv == GatewayTypes /\ ModesInv /\ AdmittedInv /\ ClaimInv /\ EffectInv

\* What is settled stays settled: no other command of the intent can come.
LEMMA SettledStays ==
  ASSUME OneStopPolicy, CrossInv, [Next]_vars, NEW i \in Intents, NEW status, Settled(i, status)
  PROVE  /\ status = "confirmed" => Done(effects', i)
         /\ status = "failed" => /\ ~Done(effects', i) /\ ~Waiting(pending', i)
                                 /\ i \notin stopClass' /\ crossings'[i] > 0
<1>0. GatewayTypes /\ ModesInv /\ ClaimInv /\ EffectInv /\ stopClass' = stopClass
  BY StopsStay DEF CrossInv
<1>1. status = "confirmed" => Done(effects', i)
  BY <1>0, CommandFacts DEF Settled
<1>2. ASSUME status = "failed"
      PROVE  /\ ~Done(effects', i) /\ ~Waiting(pending', i)
             /\ i \notin stopClass' /\ crossings'[i] > 0
  <2>1. ~Done(effects, i) /\ ~Waiting(pending, i) /\ i \notin stopClass /\ crossings[i] > 0
    BY <1>2 DEF Settled
  <2>2. ASSUME NEW t \in Threads, Enqueues(t), gw[t].id = i PROVE FALSE
    BY <1>0, <2>1, <2>2, EnqueueFirst
  <2>3. ~Done(effects', i) /\ ~Waiting(pending', i)
    BY <1>0, <2>1, <2>2, CommandFacts
  <2>4. crossings'[i] = crossings[i] \/ crossings'[i] = 1
    BY <1>0, <2>1, CountsOnce
  <2> QED BY <1>0, <2>1, <2>3, <2>4
<1> QED BY <1>1, <1>2

LEMMA StopPublishStep ==
  ASSUME OneStopPolicy, GatewayTypes, EffectInv, [Next]_vars, NEW t \in Threads
  PROVE  StopPublishes(gw[t])'
<1> DEFINE g == gw[t]
           h == gw'[t]
<1>0. stopClass' = stopClass /\ Moves(t) /\ StopPublishes(g)
  BY StopsStay, ThreadMoves DEF EffectInv
<1>1. CASE h = g
  BY <1>0, <1>1 DEF StopPublishes
<1>2. CASE h = Idle \/ Begins(h)
  BY <1>2 DEF StopPublishes, Idle, Begins, FirstSteps
<1>3. CASE ThreadStep(t) /\ Edge(g, h) /\ h # g /\ h # Idle
  <2>1. CASE g.pc = "validate"
    <3>1. SubmitValidate(t)
      BY <1>3, <2>1, Actor DEF ActsAt, At
    <3>2. /\ h.pc = AfterValidation(t) /\ h.id = g.id
          /\ g.id \in stopClass => h.act = "ros"
      BY <1>3, <3>1, ValidatedTo DEF Edge
    <3> QED BY <1>0, <3>2 DEF AfterValidation, StopPublishes
  <2>2. CASE g.pc # "validate"
    BY <1>0, <1>3, <2>2 DEF Edge, Edges, StopPublishes
  <2> QED BY <2>1, <2>2
<1> QED BY <1>0, <1>1, <1>2, <1>3 DEF Moves

\* One command of an intent at a time, and none after its effect.
LEMMA CommandOnceStep ==
  ASSUME OneStopPolicy, CrossInv, [Next]_vars
  PROVE  /\ \A i \in Intents :
              Done(effects', i) \/ Waiting(pending', i) => i \notin stopClass' /\ crossings'[i] > 0
         /\ \A m, n \in DOMAIN pending' : pending'[m].id = pending'[n].id => m = n
         /\ \A i \in Intents : Done(effects', i) => ~Waiting(pending', i)
<1>0. GatewayTypes /\ ModesInv /\ ClaimInv /\ EffectInv /\ stopClass' = stopClass
  BY StopsStay DEF CrossInv
<1>1. ASSUME NEW i \in Intents, Done(effects', i) \/ Waiting(pending', i)
      PROVE  i \notin stopClass' /\ crossings'[i] > 0
  <2>1. CASE \E t \in Threads : Enqueues(t) /\ gw[t].id = i
    BY <1>0, <2>1, EnqueueFirst
  <2>2. CASE Done(effects, i) \/ Waiting(pending, i)
    <3>1. i \notin stopClass /\ crossings[i] > 0
      BY <1>0, <2>2 DEF EffectInv
    <3>2. crossings'[i] = crossings[i] \/ crossings'[i] = 1
      BY <1>0, <3>1, CountsOnce
    <3> QED BY <1>0, <3>1, <3>2
  <2> QED BY <1>0, <1>1, <2>1, <2>2, CommandFacts
<1>2. CASE UNCHANGED commandVars
  <2>1. pending' = pending /\ effects' = effects
    BY <1>2 DEF commandVars
  <2> QED BY <1>0, <1>1, <2>1 DEF EffectInv
<1>3. ASSUME NEW t \in Threads, Enqueues(t)
      PROVE  /\ \A m, n \in DOMAIN pending' : pending'[m].id = pending'[n].id => m = n
             /\ \A i \in Intents : Done(effects', i) => ~Waiting(pending', i)
  <2>1. /\ DOMAIN pending' = 1..(Len(pending) + 1) /\ Len(pending) \in Nat
        /\ DOMAIN pending = 1..Len(pending)
        /\ \A n \in 1..Len(pending) : pending'[n] = pending[n]
        /\ pending'[Len(pending) + 1] = Queued(t)
        /\ effects' = effects
    BY <1>0, <1>3, QueueSteps
  <2>2. /\ Queued(t).id = gw[t].id /\ ~Waiting(pending, gw[t].id) /\ ~Done(effects, gw[t].id)
    BY <1>0, <1>3, EnqueueFirst DEF Queued
  <2>3. \A n \in DOMAIN pending' : n \in DOMAIN pending \/ n = Len(pending) + 1
    BY <2>1
  <2>4. \A n \in DOMAIN pending : pending'[n] = pending[n] /\ pending[n].id # gw[t].id
    BY <2>1, <2>2 DEF Waiting
  <2>5. \A m, n \in DOMAIN pending : pending[m].id = pending[n].id => m = n
    BY <1>0 DEF EffectInv
  <2>6. \A m, n \in DOMAIN pending' : pending'[m].id = pending'[n].id => m = n
    BY <2>1, <2>2, <2>3, <2>4, <2>5
  <2>7. ASSUME NEW i \in Intents, Done(effects, i), Waiting(pending', i) PROVE FALSE
    <3>1. Waiting(pending, i) \/ i = gw[t].id
      BY <2>1, <2>2, <2>3, <2>7 DEF Waiting
    <3> QED BY <1>0, <2>2, <2>7, <3>1 DEF EffectInv
  <2> QED BY <2>1, <2>6, <2>7
<1>4. ASSUME NEW t \in Threads, Abandons(t)
      PROVE  /\ \A m, n \in DOMAIN pending' : pending'[m].id = pending'[n].id => m = n
             /\ \A i \in Intents : Done(effects', i) => ~Waiting(pending', i)
  <2>1. /\ DOMAIN pending' = DOMAIN pending /\ effects' = effects
        /\ \A n \in DOMAIN pending : pending'[n].id = pending[n].id
    BY <1>0, <1>4, QueueSteps
  <2> QED BY <1>0, <2>1 DEF EffectInv, Waiting
<1>5. CASE Scan \/ CellRestart
  <2>1. pending' = <<>>
    BY <1>5 DEF Scan, CellRestart
  <2> QED BY <1>1, <2>1 DEF Waiting
<1> QED BY <1>1, <1>2, <1>3, <1>4, <1>5, PendingSteps

\* A request begins to wait by queueing a command and stops by giving it up.
LEMMA AwaitMoves ==
  ASSUME GatewayTypes, [Next]_vars, NEW u \in Threads
  PROVE  /\ At(u, "await")' => gw'[u] = gw[u] \/ Enqueues(u)
         /\ At(u, "await") => gw'[u] = gw[u] \/ Abandons(u)
<1>0. Moves(u)
  BY ThreadMoves
<1>1. ASSUME At(u, "await")', gw'[u] # gw[u] PROVE Enqueues(u)
  <2>1. gw'[u] # Idle /\ ~Begins(gw'[u])
    BY <1>1 DEF Idle, Begins, FirstSteps, At
  <2>2. ThreadStep(u) /\ Edge(gw[u], gw'[u])
    BY <1>0, <1>1, <2>1 DEF Moves
  <2>3. gw[u].pc = "cross"
    BY <1>1, <2>2 DEF Edge, Edges, At
  <2>4. Cross(u)
    BY <1>1, <2>2, <2>3, Actor DEF ActsAt, At
  <2> QED BY <1>1, <2>4, CrossTo DEF At
<1>2. ASSUME At(u, "await"), gw'[u] # gw[u] PROVE Abandons(u)
  <2>1. ThreadStep(u)
    BY <1>0, <1>2 DEF Moves, At, Cut
  <2>2. Await(u)
    BY <1>2, <2>1, Actor DEF ActsAt
  <2> QED BY <2>2, AwaitTo
<1> QED BY <1>1, <1>2

LEMMA CallersStep ==
  ASSUME OneStopPolicy, CrossInv, [Next]_vars
  PROVE  \A n \in DOMAIN pending' : pending'[n].by # NoCaller =>
           gw'[pending'[n].by].pc = "await" /\ gw'[pending'[n].by].id = pending'[n].id
<1>0. /\ GatewayTypes /\ ModesInv /\ ClaimInv /\ EffectInv
      /\ \A n \in DOMAIN pending : pending[n].by # NoCaller =>
           /\ pending[n].by \in Threads
           /\ gw[pending[n].by].pc = "await" /\ gw[pending[n].by].id = pending[n].id
  <2>1. GatewayTypes /\ ModesInv /\ ClaimInv /\ EffectInv
    BY DEF CrossInv
  <2>2. pending \in Seq(Command) /\ \A n \in DOMAIN pending : pending[n] \in Command
    BY <2>1, TypesGive, ElementOfSeq, LenProperties DEF CellTypeOK
  <2>3. \A n \in DOMAIN pending : pending[n].by \in Threads \cup {NoCaller}
    BY <2>2 DEF Command, Threads
  <2> QED BY <2>1, <2>3 DEF EffectInv, At
<1>1. ASSUME NEW t \in Threads, Enqueues(t), NEW n \in DOMAIN pending', pending'[n].by # NoCaller
      PROVE  gw'[pending'[n].by].pc = "await" /\ gw'[pending'[n].by].id = pending'[n].id
  <2>1. /\ DOMAIN pending' = 1..(Len(pending) + 1) /\ Len(pending) \in Nat
        /\ DOMAIN pending = 1..Len(pending)
        /\ \A k \in 1..Len(pending) : pending'[k] = pending[k]
        /\ pending'[Len(pending) + 1] = Queued(t)
    BY <1>0, <1>1, QueueSteps
  <2>2. /\ gw[t].pc = "cross" /\ gw'[t].pc = "await" /\ gw'[t].id = gw[t].id
        /\ \A u \in Threads : u # t => gw'[u] = gw[u]
    BY <1>0, <1>1, EnqueueFirst DEF Alone, At
  <2>3. CASE n = Len(pending) + 1
    <3>1. pending'[n].by = t /\ pending'[n].id = gw[t].id
      BY <2>1, <2>3 DEF Queued
    <3> QED BY <2>2, <3>1
  <2>4. CASE n \in DOMAIN pending
    <3>1. pending'[n] = pending[n]
      BY <2>1, <2>4
    <3>2. /\ pending[n].by \in Threads /\ pending[n].by # t
          /\ gw[pending[n].by].pc = "await" /\ gw[pending[n].by].id = pending[n].id
      BY <1>0, <1>1, <2>2, <2>4, <3>1
    <3> QED BY <2>2, <3>1, <3>2
  <2> QED BY <2>1, <2>3, <2>4
<1>2. ASSUME NEW t \in Threads, Abandons(t), NEW n \in DOMAIN pending', pending'[n].by # NoCaller
      PROVE  gw'[pending'[n].by].pc = "await" /\ gw'[pending'[n].by].id = pending'[n].id
  <2>1. /\ n \in DOMAIN pending /\ pending'[n].id = pending[n].id
        /\ pending'[n].by = IF pending[n].by = t THEN NoCaller ELSE pending[n].by
    BY <1>0, <1>2, QueueSteps
  <2>2. pending'[n].by = pending[n].by /\ pending[n].by # t /\ pending[n].by # NoCaller
    BY <1>2, <2>1
  <2>3. \A u \in Threads : u # t => gw'[u] = gw[u]
    BY <1>0, <1>2, AwaitTo DEF Abandons, Alone
  <2> QED BY <1>0, <2>1, <2>2, <2>3
<1>3. ASSUME UNCHANGED commandVars, \A t \in Threads : ~Abandons(t),
             NEW n \in DOMAIN pending', pending'[n].by # NoCaller
      PROVE  gw'[pending'[n].by].pc = "await" /\ gw'[pending'[n].by].id = pending'[n].id
  <2>1. pending' = pending
    BY <1>3 DEF commandVars
  <2>2. gw'[pending[n].by] = gw[pending[n].by]
    BY <1>0, <1>3, <2>1, AwaitMoves DEF At
  <2> QED BY <1>0, <1>3, <2>1, <2>2
<1>4. ASSUME Scan \/ CellRestart PROVE DOMAIN pending' = {}
  BY <1>4 DEF Scan, CellRestart
<1> QED BY <1>1, <1>2, <1>3, <1>4, PendingSteps

\* A request that goes on waiting with the same answer.
LEMMA AnswerStays ==
  ASSUME OneStopPolicy, CrossInv, [Next]_vars, NEW u \in Threads, At(u, "await"),
         gw'[u] = gw[u], answer'[u] = answer[u],
         answer[u] = "none" => \E n \in DOMAIN pending' : pending'[n].by = u
  PROVE  Answered(u)'
<1> DEFINE i == gw[u].id
<1>0. /\ GatewayTypes /\ ModesInv /\ ClaimInv /\ Answered(u) /\ stopClass' = stopClass
      /\ i \in Intents
  BY StopsStay, TypesGive DEF CrossInv, EffectInv
<1>1. i \notin stopClass' /\ crossings'[i] > 0
  <2>1. i \notin stopClass /\ crossings[i] > 0
    BY <1>0 DEF Answered
  <2>2. crossings'[i] = crossings[i] \/ crossings'[i] = 1
    BY <1>0, <2>1, CountsOnce
  <2> QED BY <1>0, <2>1, <2>2
<1>2. answer[u] = "executed" => Done(effects', i)
  BY <1>0, CommandFacts DEF Answered
<1>3. ASSUME answer[u] = "refused" PROVE ~Done(effects', i) /\ ~Waiting(pending', i)
  <2>1. Settled(i, "failed")
    BY <1>0, <1>3 DEF Answered, Settled
  <2> QED BY <1>0, <2>1, SettledStays
<1>4. gw'[u].id = i
  OBVIOUS
<1> HIDE DEF i
<1> QED BY <1>1, <1>2, <1>3, <1>4 DEF Answered

\* The answer of a scan is what it did with the command.
LEMMA ScanAnswers ==
  ASSUME OneStopPolicy, CrossInv, [Next]_vars, Scan, UNCHANGED gw, NEW u \in Threads, At(u, "await")
  PROVE  Answered(u)'
<1> DEFINE i == gw[u].id
           done == {n \in DOMAIN pending : Executes(pending[n])}
           mine == {n \in DOMAIN pending : pending[n].by = u}
<1>0. /\ GatewayTypes /\ ModesInv /\ ClaimInv /\ EffectInv /\ Answered(u) /\ stopClass' = stopClass
      /\ i \in Intents /\ gw'[u] = gw[u] /\ u \in Callers /\ u # NoCaller
  BY StopsStay, TypesGive, CellAssumption DEF CrossInv, EffectInv, Threads
<1>1. /\ pending' = <<>>
      /\ answer'[u] = IF mine = {} THEN answer[u]
                      ELSE IF mine \subseteq done THEN "executed" ELSE "refused"
      /\ effects' = effects \cup {[id |-> pending[n].id, guard |-> pending[n].guard,
                                   line |-> line, at |-> now] : n \in done}
  BY <1>0 DEF Scan
<1>2. CASE mine = {}
  <2>1. answer'[u] = answer[u] /\ answer[u] # "none"
    BY <1>0, <1>1, <1>2 DEF Answered
  <2> QED BY <1>0, <2>1, AnswerStays
<1>3. CASE mine # {}
  <2>1. PICK n \in DOMAIN pending : pending[n].by = u
    BY <1>3
  <2>2. pending[n].id = i
    BY <1>0, <2>1 DEF EffectInv
  <2>3. Waiting(pending, i) /\ ~Done(effects, i)
    BY <1>0, <2>2 DEF Waiting, EffectInv
  <2>4. \A m \in DOMAIN pending : pending[m].id = i => m = n
    BY <1>0, <2>2 DEF EffectInv
  <2>5. \A m \in mine : m = n
    BY <1>0, <2>4 DEF EffectInv
  <2>6. ~Waiting(pending', i)
    BY <1>1 DEF Waiting
  <2>7. n \in mine
    BY <2>1
  <2>8. Done(effects', i) <=> n \in done
    <3>1. ASSUME n \in done PROVE Done(effects', i)
      <4> DEFINE e == [id |-> pending[n].id, guard |-> pending[n].guard, line |-> line, at |-> now]
      <4>1. e \in effects' /\ e.id = i
        BY <1>1, <2>2, <3>1
      <4> HIDE DEF e
      <4> QED BY <4>1 DEF Done
    <3>2. ASSUME Done(effects', i) PROVE n \in done
      <4>1. PICK e \in effects' : e.id = i
        BY <3>2 DEF Done
      <4>2. e \notin effects
        BY <2>3, <4>1 DEF Done
      <4>3. PICK m \in done : e = [id |-> pending[m].id, guard |-> pending[m].guard,
                                   line |-> line, at |-> now]
        BY <1>1, <4>1, <4>2
      <4>4. pending[m].id = i
        BY <4>1, <4>3
      <4> QED BY <2>4, <4>3, <4>4
    <3> QED BY <3>1, <3>2
  <2>9. answer'[u] = IF n \in done THEN "executed" ELSE "refused"
    <3> HIDE DEF mine, done
    <3> QED BY <1>1, <1>3, <2>5, <2>7
  <2>10. i \notin stopClass' /\ crossings'[i] > 0
    <3>1. i \notin stopClass /\ crossings[i] > 0
      BY <1>0 DEF Answered
    <3>2. crossings'[i] = crossings[i] \/ crossings'[i] = 1
      BY <1>0, <3>1, CountsOnce
    <3> QED BY <1>0, <3>1, <3>2
  <2>11. gw'[u].id = i
    BY <1>0
  <2> HIDE DEF i, done
  <2> QED BY <2>6, <2>8, <2>9, <2>10, <2>11 DEF Answered
<1> QED BY <1>2, <1>3

LEMMA AnsweredStep ==
  ASSUME OneStopPolicy, CrossInv, [Next]_vars, NEW u \in Threads, At(u, "await")'
  PROVE  Answered(u)'
<1>0. /\ GatewayTypes /\ ModesInv /\ ClaimInv /\ EffectInv /\ stopClass' = stopClass
      /\ answer \in [Threads -> Answers]
      /\ At(u, "await") => Answered(u)
  BY StopsStay, TypesGive DEF CrossInv, EffectInv, CellTypeOK, Threads
<1>1. CASE Enqueues(u)
  <2>1. /\ gw'[u].id = gw[u].id /\ gw[u].id \notin stopClass /\ crossings'[gw[u].id] = 1
    BY <1>0, <1>1, EnqueueFirst
  <2>2. /\ DOMAIN pending' = 1..(Len(pending) + 1) /\ Len(pending) \in Nat
        /\ pending'[Len(pending) + 1] = Queued(u)
        /\ answer' = [answer EXCEPT ![u] = "none"]
    BY <1>0, <1>1, QueueSteps
  <2>3. Len(pending) + 1 \in DOMAIN pending' /\ Queued(u).by = u /\ answer'[u] = "none"
    BY <1>0, <2>2 DEF Queued
  <2>4. \E n \in DOMAIN pending' : pending'[n].by = u
    BY <2>2, <2>3
  <2> QED BY <1>0, <2>1, <2>3, <2>4 DEF Answered
<1>2. CASE ~Enqueues(u)
  <2>0. gw'[u] = gw[u] /\ At(u, "await")
    BY <1>0, <1>2, AwaitMoves DEF At
  <2>1. ASSUME NEW t \in Threads, Enqueues(t) PROVE Answered(u)'
    <3>1. t # u
      BY <1>2, <2>1
    <3>2. /\ DOMAIN pending' = 1..(Len(pending) + 1) /\ Len(pending) \in Nat
          /\ DOMAIN pending = 1..Len(pending)
          /\ \A n \in 1..Len(pending) : pending'[n] = pending[n]
          /\ answer' = [answer EXCEPT ![t] = "none"]
      BY <1>0, <2>1, QueueSteps
    <3>3. answer'[u] = answer[u] /\ DOMAIN pending \subseteq DOMAIN pending'
      BY <1>0, <3>1, <3>2
    <3>4. answer[u] = "none" => \E n \in DOMAIN pending' : pending'[n].by = u
      BY <1>0, <2>0, <3>2, <3>3 DEF Answered
    <3> QED BY <2>0, <3>3, <3>4, AnswerStays
  <2>2. ASSUME NEW t \in Threads, Abandons(t) PROVE Answered(u)'
    <3>1. t # u
      <4>1. gw'[t].pc = "report"
        BY <1>0, <2>2, AwaitTo DEF Abandons
      <4> QED BY <4>1 DEF At
    <3>2. /\ DOMAIN pending' = DOMAIN pending /\ answer' = [answer EXCEPT ![t] = "none"]
          /\ \A n \in DOMAIN pending :
               pending'[n].by = IF pending[n].by = t THEN NoCaller ELSE pending[n].by
      BY <1>0, <2>2, QueueSteps
    <3>3. answer'[u] = answer[u]
      BY <1>0, <3>1, <3>2
    <3>4. answer[u] = "none" => \E n \in DOMAIN pending' : pending'[n].by = u
      BY <1>0, <2>0, <3>1, <3>2 DEF Answered
    <3> QED BY <2>0, <3>3, <3>4, AnswerStays
  <2>3. CASE UNCHANGED commandVars
    <3>1. answer'[u] = answer[u] /\ pending' = pending
      BY <2>3 DEF commandVars
    <3>2. answer[u] = "none" => \E n \in DOMAIN pending' : pending'[n].by = u
      BY <1>0, <2>0, <3>1 DEF Answered
    <3> QED BY <2>0, <3>1, <3>2, AnswerStays
  <2>4. CASE Scan /\ UNCHANGED gw
    BY <2>0, <2>4, ScanAnswers
  <2>5. CASE CellRestart
    <3>1. /\ pending' = <<>> /\ effects' = effects
          /\ answer'[u] = IF \E n \in DOMAIN pending : pending[n].by = u THEN "error" ELSE answer[u]
      BY <2>5 DEF CellRestart, Threads
    <3>2. CASE answer'[u] = "error"
      <4>1. gw[u].id \notin stopClass /\ crossings[gw[u].id] > 0 /\ gw[u].id \in Intents
        BY <1>0, <2>0, TypesGive DEF Answered
      <4>2. crossings'[gw[u].id] = crossings[gw[u].id] \/ crossings'[gw[u].id] = 1
        BY <1>0, <4>1, CountsOnce
      <4> QED BY <1>0, <2>0, <3>2, <4>1, <4>2 DEF Answered
    <3>3. CASE answer'[u] # "error"
      <4>1. answer'[u] = answer[u] /\ answer[u] # "none"
        BY <1>0, <2>0, <3>1, <3>3 DEF Answered
      <4> QED BY <2>0, <4>1, AnswerStays
    <3> QED BY <3>2, <3>3
  <2> QED BY <2>1, <2>2, <2>3, <2>4, <2>5, PendingSteps
<1> QED BY <1>1, <1>2

\* A request reports a status that is settled by then.
LEMMA ReportSettled ==
  ASSUME OneStopPolicy, CrossInv, [Next]_vars, NEW t \in Threads, gw'[t].pc \in {"report", "effect"}
  PROVE  gw'[t].id = gw[t].id /\ Settled(gw[t].id, gw'[t].effect)
<1> DEFINE g == gw[t]
           h == gw'[t]
<1>0. GatewayTypes /\ ModesInv /\ EffectInv /\ Moves(t) /\ Placed(g)
  BY ThreadMoves DEF CrossInv, ModesInv
<1>1. CASE h = g
  BY <1>0, <1>1 DEF EffectInv
<1>2. CASE h # g
  <2>1. h # Idle /\ ~Begins(h)
    BY DEF Idle, Begins, FirstSteps
  <2>2. ThreadStep(t) /\ Edge(g, h) /\ ActsAt(t) /\ h.id = g.id
    BY <1>0, <1>2, <2>1, Actor DEF Moves, Edge
  <2>3. g.pc \in {"gate", "cross", "await", "report"}
    BY <2>2 DEF Edge, Edges
  <2>4. CASE g.pc = "gate"
    <3>1. h.effect = "NONE"
      BY <1>0, <2>2, <2>4 DEF Edge, Placed
    <3> QED BY <2>2, <3>1 DEF Settled
  <2>5. CASE g.pc = "cross"
    <3>1. h.effect \in {"unknown", "NONE"}
      BY <1>0, <2>2, <2>5, CrossTo DEF ActsAt, At
    <3> QED BY <2>2, <3>1 DEF Settled
  <2>6. CASE g.pc = "await"
    <3>1. Await(t) /\ Answered(t)
      BY <1>0, <2>2, <2>6 DEF ActsAt, At, EffectInv
    <3> QED BY <1>0, <2>2, <3>1, AwaitTo DEF Settled, Answered
  <2>7. CASE g.pc = "report"
    BY <1>0, <2>2, <2>7 DEF Edge, EffectInv
  <2> QED BY <2>3, <2>4, <2>5, <2>6, <2>7
<1> QED BY <1>1, <1>2

LEMMA EffectStep ==
  ASSUME OneStopPolicy, CrossInv, [Next]_vars
  PROVE  EffectInv'
<1>0. GatewayTypes /\ AdmittedInv /\ EffectInv
  BY DEF CrossInv
<1>1. \A t \in Threads : StopPublishes(gw[t])'
  BY <1>0, StopPublishStep
<1>2. \A t \in Threads : At(t, "await")' => Answered(t)'
  BY AnsweredStep
<1>3. ASSUME NEW t \in Threads, gw'[t].pc \in {"report", "effect"}
      PROVE  Settled(gw[t].id, gw[t].effect)'
  <2>1. gw'[t].id = gw[t].id /\ Settled(gw[t].id, gw'[t].effect) /\ gw[t].id \in Intents
    BY <1>0, <1>3, ReportSettled, TypesGive
  <2>2. /\ gw'[t].effect = "confirmed" => Done(effects', gw[t].id)
        /\ gw'[t].effect = "failed" =>
             /\ ~Done(effects', gw[t].id) /\ ~Waiting(pending', gw[t].id)
             /\ gw[t].id \notin stopClass' /\ crossings'[gw[t].id] > 0
    BY <2>1, SettledStays
  <2> QED BY <2>1, <2>2 DEF Settled
<1>4. ASSUME NEW i \in Intents PROVE Settled(i, records[i].effect)'
  <2>1. Settled(i, records'[i].effect)
    <3>1. CASE records'[i].effect \in {records[i].effect, "NONE"}
      BY <1>0, <3>1 DEF EffectInv, Settled
    <3>2. CASE \E t \in Threads : At(t, "effect") /\ gw[t].id = i /\ records'[i].effect = gw[t].effect
      BY <1>0, <3>2 DEF EffectInv, At
    <3> QED BY <1>0, <3>1, <3>2, EffectRecorded
  <2>2. /\ records'[i].effect = "confirmed" => Done(effects', i)
        /\ records'[i].effect = "failed" => /\ ~Done(effects', i) /\ ~Waiting(pending', i)
                                            /\ i \notin stopClass' /\ crossings'[i] > 0
    BY <2>1, SettledStays
  <2> QED BY <2>2 DEF Settled
<1>5. \A n \in DOMAIN pending' : pending'[n].by # NoCaller =>
        gw'[pending'[n].by].pc = "await" /\ gw'[pending'[n].by].id = pending'[n].id
  BY CallersStep
<1>6. /\ \A i \in Intents :
           Done(effects', i) \/ Waiting(pending', i) => i \notin stopClass' /\ crossings'[i] > 0
      /\ \A m, n \in DOMAIN pending' : pending'[m].id = pending'[n].id => m = n
      /\ \A i \in Intents : Done(effects', i) => ~Waiting(pending', i)
  BY CommandOnceStep
<1> QED BY <1>1, <1>2, <1>3, <1>4, <1>5, <1>6 DEF EffectInv, At

LEMMA EffectInit == Init => EffectInv
<1> SUFFICES ASSUME Init PROVE EffectInv
  OBVIOUS
<1>1. /\ pending = <<>> /\ effects = {} /\ \A t \in Threads : gw[t].pc = "idle"
      /\ \A i \in Intents : records[i].effect = "NONE"
  BY DEF Init, CellInit, RuntimeInit, Absent, Idle
<1> QED BY <1>1 DEF EffectInv, StopPublishes, Done, Waiting, Settled, At

\* What XAIR records of an effect is what the controller did: whatever calls
\* are given up, answers lost and processes restarted, a confirmed intent was
\* executed, and one recorded as FAILED has not been and no command of it waits.
THEOREM EffectsMatched ==
  ASSUME OneStopPolicy PROVE Spec => []EffectsMatch
<1>1. BaseInv /\ ClaimInv /\ EffectInv /\ [Next]_vars => EffectInv'
  BY EffectStep DEF BaseInv, CrossInv
<1>2. EffectInv => EffectsMatch
  BY DEF EffectInv, EffectsMatch, Settled, Done, Waiting, Executed
<1> QED BY <1>1, <1>2, EffectInit, ClaimsInvariant, BaseInvariant, PTL DEF Spec

=============================================================================
