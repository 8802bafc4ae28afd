-------------------------- MODULE XairServerProofs --------------------------
(***************************************************************************)
(* Proofs about the HTTP server, for any number of workers, intents, paths *)
(* and updates, with outages, lost replies and restarts: first about       *)
(* XairServer, which posts one intent at a time, then about BatchIngress,  *)
(* which posts batches (one winner per target and batch, and no target     *)
(* lock that nobody gives back).                                           *)
(***************************************************************************)
EXTENDS BatchIngress, XairRuntimeProofs

-----------------------------------------------------------------------------
(* Versions of read sets *)

\* What read_set_version returns: 0 or the version of a path that was read,
\* and none of these is later.
LEMMA ReadSetVersionFacts ==
  ASSUME NEW pv \in [Paths -> Versions], NEW R \in SUBSET Paths
  PROVE  /\ ReadSetVersion(pv, R) \in Versions
         /\ \A p \in R : pv[p] <= ReadSetVersion(pv, R)
         /\ ReadSetVersion(pv, R) = 0 \/ \E p \in R : ReadSetVersion(pv, R) = pv[p]
<1> DEFINE S == {0} \cup {pv[p] : p \in R}
<1>1. S \in SUBSET (0..MaxVersion) /\ S # {} /\ MaxVersion \in Nat
  BY RuntimeAssumption DEF Versions
<1>2. \E m \in S : \A x \in S : m >= x
  BY <1>1, BoundedMax
<1>3. Max(S) \in S /\ \A x \in S : Max(S) >= x
  BY <1>2 DEF Max
<1>4. ReadSetVersion(pv, R) = Max(S)
  BY DEF ReadSetVersion
<1> HIDE DEF S
<1>5. \A p \in R : pv[p] \in S
  BY DEF S
<1>6. \A x \in S : x \in Int
  BY <1>1
<1> QED BY <1>1, <1>3, <1>4, <1>5, <1>6 DEF S, Versions

-----------------------------------------------------------------------------
(* Read sets *)

\* The paths an intent reads are paths of the document.
LEMMA ReadSetPaths ==
  ASSUME NEW i \in Intents
  PROVE  /\ StopPathOf(i) \in Paths
         /\ \A fence \in BOOLEAN : ReadSet(i, fence) \in SUBSET Paths
BY RuntimeAssumption, ServerAssumption DEF StopPathOf, ReadSet, DataPaths

-----------------------------------------------------------------------------
(* Types *)

\* The state of a worker that serves nothing, and the snapshot of the store.
LEMMA FreeTypes == Free \in Service /\ EmptySnapshot \in Documents
<1>1. EmptySnapshot \in Documents
  BY RuntimeAssumption DEF EmptySnapshot, Documents, Versions, Missing
<1>2. AnyIntent \in Intents
  BY ServerAssumption DEF AnyIntent
<1>3. 0 \in Versions
  BY RuntimeAssumption DEF Versions
<1> QED BY <1>1, <1>2, <1>3 DEF Free, Service, Requests, Statuses

\* A snapshot the store returns is a document.
LEMMA SnapshotType == ServerTypeOK => Snapshot \in Documents
BY DEF ServerTypeOK, Snapshot, Documents

\* Every way a handler moves on leaves a worker's state.
LEMMA MoveTypes ==
  ASSUME ServerTypeOK, NEW w \in Workers, NEW pc \in Requests
  PROVE  /\ Goto(w, pc) => worker' \in [Workers -> Service]
         /\ Keep(w, pc) => worker' \in [Workers -> Service]
         /\ Take(w, pc) => worker' \in [Workers -> Service]
         /\ Done(w) => worker' \in [Workers -> Service]
<1>1. worker[w] \in Service
  BY DEF ServerTypeOK
<1>2. [Free EXCEPT !.pc = pc, !.id = worker[w].id] \in Service
  BY <1>1, FreeTypes DEF Service
<1>3. [worker[w] EXCEPT !.pc = pc] \in Service
  BY <1>1 DEF Service
<1>4. [worker[w] EXCEPT !.pc = pc, !.snapshot = Snapshot] \in Service
  BY <1>1, SnapshotType DEF Service
<1>5. Goto(w, pc) => worker' \in [Workers -> Service]
  BY <1>2 DEF Goto, ServerTypeOK
<1>6. Keep(w, pc) => worker' \in [Workers -> Service]
  BY <1>3 DEF Keep, ServerTypeOK
<1>7. Take(w, pc) => worker' \in [Workers -> Service]
  BY <1>4 DEF Take, ServerTypeOK
<1>8. Done(w) => worker' \in [Workers -> Service]
  BY FreeTypes DEF Done, ServerTypeOK
<1> QED BY <1>5, <1>6, <1>7, <1>8

\* What a validation pass finds on a worker's snapshot.
LEMMA CheckTypes ==
  ASSUME NEW w \in Workers, worker[w].snapshot \in Documents, NEW i \in Intents
  PROVE  CheckOn(w, i) \in Checks
<1> DEFINE s == worker[w].snapshot
           fence == i \in fenced
<1>1. /\ s.version \in Versions
      /\ s.pathVersions \in [Paths -> Versions]
  BY DEF Documents
<1>2. ReadSetVersion(s.pathVersions, ReadSet(i, fence)) \in Versions
  <2>1. fence \in BOOLEAN
    OBVIOUS
  <2> HIDE DEF fence, s
  <2>2. ReadSet(i, fence) \in SUBSET Paths
    BY <2>1, ReadSetPaths
  <2> QED BY <1>1, <2>2, ReadSetVersionFacts
<1>3. Temporal(i) \in {"ok", "obsolete", "deadline"}
  BY DEF Temporal
<1>4. Satisfied(i, s.context, fence) \in BOOLEAN
  BY DEF Satisfied
<1> QED BY <1>1, <1>2, <1>3, <1>4 DEF CheckOn, Checks

-----------------------------------------------------------------------------
(* Every step of the server is a step of the runtime *)

\* Whatever a handler, the clock, the store or a restart does, the runtime makes
\* one of its own steps or none.
LEMMA RuntimeSteps == ServerTypeOK /\ [Next]_vars => [RuntimeNext]_runtimeVars
<1> SUFFICES ASSUME ServerTypeOK, [Next]_vars PROVE [RuntimeNext]_runtimeVars
  OBVIOUS
<1>1. ASSUME NEW w \in Workers, NEW i \in Intents, SubmitAdmit(w, i)
      PROVE  RuntimeNext
  <2>1. 0 \in Lapses
    BY LenProperties DEF Lapses, ServerTypeOK, RuntimeTypeOK
  <2>2. Admit(i, 0)
    BY <1>1 DEF SubmitAdmit
  <2> QED BY <2>1, <2>2 DEF RuntimeNext
<1>2. ASSUME NEW w \in Workers, SubmitProcess(w) \/ StopProcess(w)
      PROVE  RuntimeNext
  <2> DEFINE i == worker[w].id
             c == CheckOn(w, i)
  <2>1. i \in Intents /\ worker[w].snapshot \in Documents
    BY DEF ServerTypeOK, Service
  <2>2. c \in Checks
    BY <2>1, CheckTypes
  <2>3. ProcessIntent(i, c)
    BY <1>2 DEF SubmitProcess, StopProcess
  <2> HIDE DEF i, c
  <2> QED BY <2>1, <2>2, <2>3 DEF RuntimeNext
<1>3. ASSUME NEW w \in Workers,
             SubmitFenceInstall(w) \/ SubmitInstall(w) \/ InstallBack(w)
      PROVE  RuntimeNext
  <2>1. worker[w].snapshot.version \in Versions
    BY DEF ServerTypeOK, Service, Documents
  <2>2. InstallSnapshot(worker[w].snapshot.version)
    BY <1>3 DEF SubmitFenceInstall, SubmitInstall, InstallBack
  <2> QED BY <2>1, <2>2 DEF RuntimeNext
<1>4. ASSUME NEW w \in Workers, SubmitClaim(w) \/ SubmitRegister(w)
      PROVE  [RuntimeNext]_runtimeVars
  <2>1. worker[w].id \in Intents
    BY DEF ServerTypeOK, Service
  <2>2. LifecycleRevoke(worker[w].id) \/ UNCHANGED runtimeVars
    BY <1>4 DEF SubmitClaim, SubmitRegister
  <2> QED BY <2>1, <2>2 DEF RuntimeNext
<1>5. ASSUME NEW w \in Workers, NEW i \in Intents, CommitStart(w, i)
      PROVE  [RuntimeNext]_runtimeVars
  <2>1. RecordCommit(i, FALSE, NoSeq) \/ UNCHANGED runtimeVars
    BY <1>5 DEF CommitStart
  <2> QED BY <2>1 DEF RuntimeNext
<1>6. ASSUME NEW w \in Workers, CommitRecord(w)
      PROVE  RuntimeNext
  <2> DEFINE i == worker[w].id
             seq == worker[w].seq
             ok == worker[w].status \in {"committed", "duplicate"}
  <2>1. i \in Intents /\ seq \in {NoSeq} \cup LogPositions /\ ok \in BOOLEAN
    BY DEF ServerTypeOK, Service
  <2>2. RecordCommit(i, ok, seq)
    BY <1>6 DEF CommitRecord
  <2> HIDE DEF i, seq, ok
  <2> QED BY <2>1, <2>2 DEF RuntimeNext
<1>7. ASSUME NEW w \in Workers, NEW i \in Intents, NEW released \in BOOLEAN,
             NEW scope \in {"none", "readset", "global"}, NEW v \in 0..version,
             NEW effect, ReleaseRequest(w, i, released, scope, v, effect)
      PROVE  RuntimeNext
  <2>1. v \in Versions
    BY RuntimeAssumption DEF ServerTypeOK, Versions
  <2> QED BY <1>7, <2>1 DEF ReleaseRequest, RuntimeNext
<1>8. ASSUME NEW w \in Workers, ReleaseEffect(w)
      PROVE  RuntimeNext
  <2>1. worker[w].id \in Intents /\ worker[w].effect \in Effects
    BY <1>8 DEF ServerTypeOK, Service, ReleaseEffect
  <2> QED BY <1>8, <2>1 DEF ReleaseEffect, RuntimeNext
<1>9. ASSUME NEW i \in Intents, NEW status \in Reported, EffectRequest(i, status)
      PROVE  RuntimeNext
  BY <1>9, ServerAssumption DEF EffectRequest, RuntimeNext
<1>10. ASSUME NEW i \in Intents, WithheldRequest(i) PROVE [RuntimeNext]_runtimeVars
  <2>1. 0 \in Versions
    BY RuntimeAssumption DEF Versions
  <2>2. ReportRelease(i, FALSE, "none", 0) \/ UNCHANGED runtimeVars
    BY <1>10 DEF WithheldRequest
  <2> QED BY <2>1, <2>2 DEF RuntimeNext
<1>11. ASSUME NEW i \in Intents, RevokeRequest(i) PROVE RuntimeNext
  BY <1>11 DEF RevokeRequest, RuntimeNext
<1>12. ASSUME Restart PROVE RuntimeNext
  BY <1>12 DEF Restart, RuntimeNext
<1>13. ASSUME NEW w \in Workers,
              \/ SubmitFence(w) \/ SubmitFenceInit(w) \/ SubmitReply(w) \/ StopUpdate(w)
              \/ StopLog(w) \/ ReadBack(w) \/ CommitStore(w) \/ GetSnapshot(w)
       PROVE  UNCHANGED runtimeVars
  BY <1>13 DEF SubmitFence, SubmitFenceInit, SubmitReply, StopUpdate, StopLog, ReadBack,
               CommitStore, GetSnapshot
<1>14. ASSUME NEW w \in Workers, NEW p \in DataPaths, NEW v \in WrittenValues, PostUpdate(w, p, v)
       PROVE  UNCHANGED runtimeVars
  BY <1>14 DEF PostUpdate
<1>15. ASSUME Tick \/ Outage PROVE UNCHANGED runtimeVars
  BY <1>15 DEF Tick, Outage
<1>16. ASSUME NEW w \in Workers, WorkerStep(w) PROVE [RuntimeNext]_runtimeVars
  BY <1>16, <1>2, <1>3, <1>4, <1>6, <1>8, <1>13 DEF WorkerStep
<1>17. ASSUME NEW w \in Workers, Request(w) PROVE [RuntimeNext]_runtimeVars
  <2>1. 0 \in 0..version
    BY DEF ServerTypeOK, Versions
  <2> QED BY <1>17, <2>1, <1>1, <1>5, <1>7, <1>13, <1>14 DEF Request
<1>18. UNCHANGED vars => UNCHANGED runtimeVars
  BY DEF vars
<1> QED BY <1>9, <1>10, <1>11, <1>12, <1>15, <1>16, <1>17, <1>18 DEF Next

-----------------------------------------------------------------------------
(* What a step may do to the store *)

\* One context update, or none.
LEMMA DocumentSteps ==
  ASSUME ServerTypeOK, [Next]_vars
  PROVE  \/ UNCHANGED documentVars
         \/ \E p \in Paths, v \in Nat : CanUpdate /\ Update(p, v)
<1> DEFINE Updated == \E p \in Paths, v \in Nat : CanUpdate /\ Update(p, v)
<1>0. ASSUME NEW p \in Paths, NEW v \in Nat, TryUpdate(p, v)
      PROVE  UNCHANGED documentVars \/ Updated
  BY <1>0 DEF TryUpdate, storeVars, documentVars
<1>1. ASSUME NEW w \in Workers, SubmitFenceInit(w) \/ StopUpdate(w)
      PROVE  UNCHANGED documentVars \/ Updated
  <2>1. worker[w].id \in Intents /\ now \in Nat /\ 0 \in Nat
    BY DEF ServerTypeOK, Service
  <2>2. StopPathOf(worker[w].id) \in Paths
    BY <2>1, ReadSetPaths
  <2>3. \/ UNCHANGED storeVars
        \/ TryUpdate(StopPathOf(worker[w].id), 0)
        \/ TryUpdate(StopPathOf(worker[w].id), now)
    BY <1>1 DEF SubmitFenceInit, StopUpdate
  <2>4. CASE UNCHANGED storeVars
    BY <2>4 DEF storeVars, documentVars
  <2> QED BY <2>1, <2>2, <2>3, <2>4, <1>0
<1>2. ASSUME NEW w \in Workers, NEW p \in DataPaths, NEW v \in WrittenValues, PostUpdate(w, p, v)
      PROVE  UNCHANGED documentVars \/ Updated
  <2>1. p \in Paths /\ v \in Nat
    BY ServerAssumption DEF DataPaths
  <2> QED BY <1>2, <2>1, <1>0 DEF PostUpdate
<1>3. ASSUME NEW w \in Workers,
             \/ SubmitClaim(w) \/ SubmitFence(w) \/ SubmitFenceInstall(w)
             \/ SubmitRegister(w) \/ SubmitInstall(w) \/ SubmitProcess(w) \/ SubmitReply(w)
             \/ StopProcess(w) \/ StopLog(w) \/ ReadBack(w) \/ InstallBack(w)
             \/ CommitStore(w) \/ CommitRecord(w) \/ ReleaseEffect(w) \/ GetSnapshot(w)
      PROVE  UNCHANGED documentVars
  BY <1>3 DEF SubmitClaim, Claim, SubmitFence, SubmitFenceInstall, SubmitRegister,
              SubmitInstall, SubmitProcess, SubmitReply, StopProcess, StopLog, AppendActuation,
              ReadBack, InstallBack, CommitStore, Commit, CommitRecord, ReleaseEffect,
              GetSnapshot, storeVars, documentVars
<1>4. ASSUME NEW w \in Workers, NEW i \in Intents,
             \/ SubmitAdmit(w, i) \/ CommitStart(w, i)
             \/ \E released, scope, v, effect : ReleaseRequest(w, i, released, scope, v, effect)
      PROVE  UNCHANGED documentVars
  BY <1>4 DEF SubmitAdmit, CommitStart, ReleaseRequest, storeVars, documentVars
<1>5. ASSUME NEW i \in Intents,
             \/ WithheldRequest(i) \/ RevokeRequest(i)
             \/ \E status : EffectRequest(i, status)
      PROVE  UNCHANGED documentVars
  BY <1>5 DEF WithheldRequest, AppendActuation, RevokeRequest, EffectRequest, storeVars, documentVars
<1>6. ASSUME Tick \/ Outage \/ Restart PROVE UNCHANGED documentVars
  BY <1>6 DEF Tick, Outage, StoreUp, StoreDown, Restart, storeVars, documentVars
<1>7. UNCHANGED vars => UNCHANGED documentVars
  BY DEF vars, storeVars, documentVars
<1> HIDE DEF Updated
<1>8. ASSUME NEW w \in Workers, WorkerStep(w) PROVE UNCHANGED documentVars \/ Updated
  BY <1>8, <1>1, <1>3 DEF WorkerStep
<1>9. ASSUME NEW w \in Workers, Request(w) PROVE UNCHANGED documentVars \/ Updated
  BY <1>9, <1>2, <1>3, <1>4 DEF Request
<1>10. UNCHANGED documentVars \/ Updated
  BY <1>5, <1>6, <1>7, <1>8, <1>9 DEF Next
<1> QED BY <1>10 DEF Updated

\* Worker w's call of the commit script appends the authorization.
Commits(w) ==
  LET i == worker[w].id IN
  /\ At(w, "commit")
  /\ CommitStatus(i, worker[w].reads, worker[w].expected, Age(i),
                  ReleaseBound(i) - Eps, Eps) = "committed"
  /\ actuations' = Append(actuations, [id |-> i, kind |-> "auth"])
  /\ committed' = committed \cup {i}

\* A stop is logged, or the tombstone of a COMMITTED intent.
Notes(i, kind) ==
  /\ kind = "stop" \/ (kind = "withheld" /\ records[i].state = "COMMITTED")
  /\ actuations' = Append(actuations, [id |-> i, kind |-> kind])
  /\ UNCHANGED committed

\* One record is appended to the log, or none.
Logs ==
  \/ UNCHANGED logVars
  \/ CanAppend /\ \E w \in Workers : Commits(w)
  \/ CanAppend /\ \E i \in Intents, kind \in {"stop", "withheld"} : Notes(i, kind)

\* So it is in every step of the server.
LEMMA LogSteps ==
  ASSUME ServerTypeOK, [Next]_vars
  PROVE  Logs
<1>1. ASSUME NEW w \in Workers, CommitStore(w) PROVE Logs
  <2>1. UNCHANGED logVars \/ (CanAppend /\ Commits(w))
    BY <1>1 DEF CommitStore, Commit, Commits, storeVars, logVars
  <2> QED BY <2>1 DEF Logs
<1>2. ASSUME NEW w \in Workers, StopLog(w) PROVE Logs
  <2>1. worker[w].id \in Intents
    BY DEF ServerTypeOK, Service
  <2>2. UNCHANGED logVars \/ (CanAppend /\ Notes(worker[w].id, "stop"))
    BY <1>2 DEF StopLog, AppendActuation, Notes, storeVars, logVars
  <2> QED BY <2>1, <2>2 DEF Logs
<1>3. ASSUME NEW i \in Intents, WithheldRequest(i) PROVE Logs
  <2>1. CanAppend /\ Notes(i, "withheld")
    BY <1>3 DEF WithheldRequest, AppendActuation, Notes
  <2> QED BY <2>1 DEF Logs
<1>4. ASSUME NEW w \in Workers,
             \/ SubmitClaim(w) \/ SubmitFence(w) \/ SubmitFenceInstall(w) \/ SubmitFenceInit(w)
             \/ SubmitRegister(w) \/ SubmitInstall(w) \/ SubmitProcess(w) \/ SubmitReply(w)
             \/ StopProcess(w) \/ StopUpdate(w) \/ ReadBack(w) \/ InstallBack(w)
             \/ CommitRecord(w) \/ ReleaseEffect(w) \/ GetSnapshot(w)
      PROVE  UNCHANGED logVars
  BY <1>4 DEF SubmitClaim, Claim, SubmitFence, SubmitFenceInstall, SubmitFenceInit,
              SubmitRegister, SubmitInstall, SubmitProcess, SubmitReply, StopProcess,
              StopUpdate, TryUpdate, Update, ReadBack, InstallBack, CommitRecord,
              ReleaseEffect, GetSnapshot, storeVars, logVars
<1>5. ASSUME NEW w \in Workers, NEW i \in Intents,
             \/ SubmitAdmit(w, i) \/ CommitStart(w, i)
             \/ \E released, scope, v, effect : ReleaseRequest(w, i, released, scope, v, effect)
      PROVE  UNCHANGED logVars
  BY <1>5 DEF SubmitAdmit, CommitStart, ReleaseRequest, storeVars, logVars
<1>6. ASSUME NEW i \in Intents, RevokeRequest(i) \/ \E status : EffectRequest(i, status)
      PROVE  UNCHANGED logVars
  BY <1>6 DEF RevokeRequest, EffectRequest, storeVars, logVars
<1>7. ASSUME NEW w \in Workers, NEW p, NEW v, PostUpdate(w, p, v) PROVE UNCHANGED logVars
  BY <1>7 DEF PostUpdate, TryUpdate, Update, storeVars, logVars
<1>8. ASSUME Tick \/ Outage \/ Restart PROVE UNCHANGED logVars
  BY <1>8 DEF Tick, Outage, StoreUp, StoreDown, Restart, storeVars, logVars
<1>9. UNCHANGED vars => UNCHANGED logVars
  BY DEF vars, storeVars, logVars
<1>10. UNCHANGED logVars => Logs
  BY DEF Logs
<1>11. ASSUME NEW w \in Workers, WorkerStep(w) PROVE Logs
  BY <1>11, <1>1, <1>2, <1>4, <1>10 DEF WorkerStep
<1>12. ASSUME NEW w \in Workers, Request(w) PROVE Logs
  BY <1>12, <1>4, <1>5, <1>7, <1>10 DEF Request
<1> QED BY <1>3, <1>6, <1>8, <1>9, <1>10, <1>11, <1>12 DEF Next

\* The types the arguments about the log need.
LogShape ==
  /\ actuations \in Seq(LogEntry)
  /\ DOMAIN worker = Workers
  /\ \A w \in Workers : worker[w].id \in Intents

LEMMA ServerLogShape == ServerTypeOK => LogShape
BY DEF ServerTypeOK, LogShape, Service

-----------------------------------------------------------------------------
(* What a step may do to the requests in progress *)

PostPoints == {"post_read", "post_got"}
LaterPoints == Requests \ {"idle", "stop_process", "commit", "record", "effect"}

\* worker w serves a request about an intent
Handling(w) == worker[w].pc \notin {"idle"} \cup PostPoints

\* w goes on with its request, or with a context request
Proceeds(w, pc) ==
  /\ pc \in PostPoints \/ Handling(w)
  /\ Goto(w, pc) \/ Keep(w, pc) \/ Take(w, pc)

\* w begins a request about intent i
Begins(w, i) ==
  \/ SubmitAdmit(w, i)
  \/ CommitStart(w, i)
  \/ \E effect \in Effects \cup {"NONE"} : \E released, scope, v :
        ReleaseRequest(w, i, released, scope, v, effect)

\* A worker proceeds, ends its request, begins one, or calls the commit script.
LEMMA WorkerSteps ==
  ASSUME ServerTypeOK, [Next]_vars
  PROVE  \/ UNCHANGED worker
         \/ Restart
         \/ \E w \in Workers :
              \/ Done(w)
              \/ CommitStore(w)
              \/ \E pc \in LaterPoints : Proceeds(w, pc)
              \/ \E i \in Intents : Begins(w, i)
<1> DEFINE Moves(w) == \/ Done(w)
                       \/ CommitStore(w)
                       \/ \E pc \in LaterPoints : Proceeds(w, pc)
                       \/ \E i \in Intents : Begins(w, i)
<1>1. ASSUME NEW w \in Workers,
             \/ SubmitFence(w) \/ SubmitFenceInstall(w) \/ SubmitFenceInit(w)
             \/ SubmitInstall(w) \/ SubmitProcess(w) \/ StopProcess(w) \/ StopUpdate(w)
             \/ StopLog(w)
      PROVE  \E pc \in LaterPoints : Proceeds(w, pc)
  <2>1. Handling(w)
    BY <1>1 DEF SubmitFence, SubmitFenceInstall, SubmitFenceInit, SubmitInstall,
                SubmitProcess, StopProcess, StopUpdate, StopLog, At, Handling, PostPoints
  <2>2. \E pc \in LaterPoints : Goto(w, pc) \/ Keep(w, pc) \/ Take(w, pc)
    BY <1>1 DEF SubmitFence, SubmitFenceInstall, SubmitFenceInit, SubmitInstall,
                SubmitProcess, StopProcess, StopUpdate, StopLog, LaterPoints, Requests
  <2> QED BY <2>1, <2>2 DEF Proceeds
<1>2. ASSUME NEW w \in Workers, ReadBack(w) \/ InstallBack(w) PROVE Moves(w)
  <2>1. CASE At(w, "post_read") \/ At(w, "post_got")
    <3>1. Done(w) \/ Take(w, "post_got")
      BY <1>2, <2>1 DEF ReadBack, InstallBack, Return, At
    <3> QED BY <3>1 DEF Proceeds, LaterPoints, Requests, PostPoints
  <2>2. CASE ~(At(w, "post_read") \/ At(w, "post_got"))
    <3>1. Handling(w)
      BY <1>2, <2>2 DEF ReadBack, InstallBack, Handling, PostPoints, At
    <3>2. \E pc \in {"fence_got", "stop_got", "register", "stop_log"} :
            Goto(w, pc) \/ Take(w, pc)
      BY <1>2, <2>2 DEF ReadBack, InstallBack, Return, At
    <3> QED BY <3>1, <3>2 DEF Proceeds, LaterPoints, Requests
  <2> QED BY <2>1, <2>2
<1>3. ASSUME NEW w \in Workers, SubmitClaim(w) \/ SubmitRegister(w) PROVE Moves(w)
  <2>1. Handling(w)
    BY <1>3 DEF SubmitClaim, SubmitRegister, At, Handling, PostPoints
  <2>2. Done(w) \/ Goto(w, "fence") \/ Take(w, "install")
    BY <1>3 DEF SubmitClaim, SubmitRegister
  <2> QED BY <2>1, <2>2 DEF Proceeds, LaterPoints, Requests
<1>4. ASSUME NEW w \in Workers, SubmitReply(w) \/ CommitRecord(w) \/ ReleaseEffect(w)
      PROVE  Done(w)
  BY <1>4 DEF SubmitReply, CommitRecord, ReleaseEffect
<1>5. ASSUME NEW w \in Workers, GetSnapshot(w) \/ \E p, v : PostUpdate(w, p, v)
      PROVE  \E pc \in LaterPoints : Proceeds(w, pc)
  BY <1>5 DEF GetSnapshot, PostUpdate, Proceeds, LaterPoints, Requests, PostPoints
<1>6. ASSUME NEW w \in Workers, NEW i \in Intents, NEW released \in BOOLEAN, NEW scope, NEW v,
             NEW effect \in Reported \cup {"NONE"}, ReleaseRequest(w, i, released, scope, v, effect)
      PROVE  Begins(w, i)
  BY <1>6, ServerAssumption DEF Begins
<1>7. ASSUME NEW w \in Workers, WorkerStep(w) PROVE Moves(w)
  BY <1>7, <1>1, <1>2, <1>3, <1>4 DEF WorkerStep
<1>8. ASSUME NEW w \in Workers, Request(w) PROVE Moves(w)
  BY <1>8, <1>5, <1>6 DEF Request, Begins
<1>9. ASSUME NEW i \in Intents,
             \/ WithheldRequest(i) \/ RevokeRequest(i)
             \/ \E status : EffectRequest(i, status)
      PROVE  UNCHANGED worker
  BY <1>9 DEF WithheldRequest, RevokeRequest, EffectRequest, serverVars
<1>10. Tick \/ Outage \/ UNCHANGED vars => UNCHANGED worker
  BY DEF Tick, Outage, vars, serverVars
<1> HIDE DEF Moves
<1>11. UNCHANGED worker \/ Restart \/ \E w \in Workers : Moves(w)
  BY <1>7, <1>8, <1>9, <1>10 DEF Next
<1> QED BY <1>11 DEF Moves

\* No step leaves a worker in a state that is none.
LEMMA WorkerTypes ==
  ASSUME ServerTypeOK, [Next]_vars
  PROVE  /\ worker' \in [Workers -> Service]
         /\ \A w \in Workers : worker'[w].pc = "effect" => worker'[w].effect \in Effects
<1> DEFINE Typed(r) == r \in Service /\ (r.pc = "effect" => r.effect \in Effects)
<1>0. /\ worker \in [Workers -> Service]
      /\ \A w \in Workers : Typed(worker[w])
  BY DEF ServerTypeOK, At
<1>1. Typed(Free)
  BY FreeTypes DEF Free
<1>2. CASE UNCHANGED worker
  BY <1>0, <1>2
<1>3. CASE Restart
  BY <1>1, <1>3 DEF Restart
<1>4. ASSUME NEW w \in Workers, NEW r, Typed(r), worker' = [worker EXCEPT ![w] = r]
      PROVE  /\ worker' \in [Workers -> Service]
             /\ \A u \in Workers : Typed(worker'[u])
  <2> HIDE DEF Typed
  <2>1. r \in Service
    BY <1>4 DEF Typed
  <2> QED BY <1>0, <1>4, <2>1
<1>5. ASSUME NEW w \in Workers, Done(w) PROVE \E r : Typed(r) /\ worker' = [worker EXCEPT ![w] = r]
  BY <1>1, <1>5 DEF Done
<1>6. ASSUME NEW w \in Workers, NEW pc \in LaterPoints, Proceeds(w, pc)
      PROVE  \E r : Typed(r) /\ worker' = [worker EXCEPT ![w] = r]
  <2>1. Typed([Free EXCEPT !.pc = pc, !.id = worker[w].id])
    BY <1>0, FreeTypes DEF Service, LaterPoints
  <2>2. Typed([worker[w] EXCEPT !.pc = pc])
    BY <1>0 DEF Service, LaterPoints
  <2>3. Typed([worker[w] EXCEPT !.pc = pc, !.snapshot = Snapshot])
    BY <1>0, SnapshotType DEF Service, LaterPoints
  <2> HIDE DEF Typed
  <2> QED BY <1>6, <2>1, <2>2, <2>3 DEF Proceeds, Goto, Keep, Take
<1>7. ASSUME NEW w \in Workers, CommitStore(w)
      PROVE  \E r : Typed(r) /\ worker' = [worker EXCEPT ![w] = r]
  <2> DEFINE i == worker[w].id
             st == CommitStatus(i, worker[w].reads, worker[w].expected, Age(i),
                                ReleaseBound(i) - Eps, Eps)
             Answer(status, seq) ==
               [Free EXCEPT !.pc = "record", !.id = i, !.status = status, !.seq = seq]
  <2>1. i \in Intents
    BY DEF ServerTypeOK, Service
  <2>2. st \in Statuses
    BY DEF CommitStatus, Statuses
  <2>3. ASSUME NEW status \in Statuses, NEW seq \in {NoSeq} \cup LogPositions
        PROVE  Typed(Answer(status, seq))
    BY <2>1, FreeTypes DEF Service, Requests
  <2>4. CanAppend => Len(actuations) + 1 \in LogPositions
    BY LenProperties, RuntimeAssumption DEF CanAppend, LogPositions, ServerTypeOK
  <2>5. \E status \in Statuses, seq \in {NoSeq} \cup LogPositions :
          worker' = [worker EXCEPT ![w] = Answer(status, seq)]
    <3>1. \/ /\ st = "committed" => CanAppend
             /\ worker' = [worker EXCEPT ![w] =
                  Answer(st, IF st = "committed" THEN Len(actuations) + 1 ELSE NoSeq)]
          \/ worker' = [worker EXCEPT ![w] = Answer("unavailable", NoSeq)]
      BY <1>7 DEF CommitStore
    <3>2. "unavailable" \in Statuses
      BY DEF Statuses
    <3> HIDE DEF Answer, st
    <3> QED BY <2>2, <2>4, <3>1, <3>2
  <2> HIDE DEF Typed, Answer
  <2> QED BY <2>3, <2>5
<1>8. ASSUME NEW w \in Workers, NEW i \in Intents, Begins(w, i)
      PROVE  \/ UNCHANGED worker
             \/ \E r : Typed(r) /\ worker' = [worker EXCEPT ![w] = r]
  <2>1. CASE SubmitAdmit(w, i)
    <3>1. \/ UNCHANGED worker
          \/ \E pc \in {"stop_process", "fence", "claim"} :
               worker' = [worker EXCEPT ![w] = [worker[w] EXCEPT !.pc = pc, !.id = i]]
      BY <1>0, <2>1 DEF SubmitAdmit
    <3>2. ASSUME NEW pc \in {"stop_process", "fence", "claim"}
          PROVE  Typed([worker[w] EXCEPT !.pc = pc, !.id = i])
      BY <1>0 DEF Service, Requests
    <3> HIDE DEF Typed
    <3> QED BY <3>1, <3>2
  <2>2. CASE CommitStart(w, i)
    <3>1. RecordedReadSet(i) \in SUBSET Paths
      <4>1. ReadSet(i, TRUE) \in SUBSET Paths /\ ReadSet(i, FALSE) \in SUBSET Paths
        BY ReadSetPaths
      <4>2. (i \in fenceRead) = TRUE \/ (i \in fenceRead) = FALSE
        OBVIOUS
      <4> QED BY <4>1, <4>2 DEF RecordedReadSet
    <3>2. records[i].readSetVersion \in Versions
      BY DEF ServerTypeOK, RuntimeTypeOK, Record
    <3> DEFINE r == [worker[w] EXCEPT !.pc = "commit", !.id = i, !.reads = RecordedReadSet(i),
                                      !.expected = records[i].readSetVersion]
    <3>3. Typed(r)
      BY <1>0, <3>1, <3>2 DEF Service, Requests
    <3>4. UNCHANGED worker \/ worker' = [worker EXCEPT ![w] = r]
      BY <1>0, <2>2 DEF CommitStart
    <3> HIDE DEF Typed, r
    <3> QED BY <3>3, <3>4
  <2>3. ASSUME NEW effect \in Effects \cup {"NONE"}, NEW released, NEW scope, NEW v,
               ReleaseRequest(w, i, released, scope, v, effect)
        PROVE  \/ UNCHANGED worker
               \/ \E r : Typed(r) /\ worker' = [worker EXCEPT ![w] = r]
    <3> DEFINE r == [worker[w] EXCEPT !.pc = "effect", !.id = i, !.effect = effect]
    <3>1. effect # "NONE" => Typed(r)
      BY <1>0 DEF Service, Requests
    <3>2. UNCHANGED worker \/ (effect # "NONE" /\ worker' = [worker EXCEPT ![w] = r])
      BY <1>0, <2>3 DEF ReleaseRequest
    <3> HIDE DEF Typed, r
    <3> QED BY <3>1, <3>2
  <2> HIDE DEF Typed
  <2> QED BY <1>8, <2>1, <2>2, <2>3 DEF Begins
<1> HIDE DEF Typed
<1>9. worker' \in [Workers -> Service] /\ \A u \in Workers : Typed(worker'[u])
  BY WorkerSteps, <1>0, <1>2, <1>3, <1>4, <1>5, <1>6, <1>7, <1>8 DEF Typed
<1> QED BY <1>9 DEF Typed

\* The store's variables and what the server keeps beside the requests.
LEMMA LogTypes ==
  ASSUME ServerTypeOK, [Next]_vars
  PROVE  /\ actuations' \in Seq(LogEntry)
         /\ Len(actuations') <= MaxLog
         /\ committed' \subseteq Intents
<1>1. CASE UNCHANGED logVars
  BY <1>1 DEF ServerTypeOK, logVars
<1>2. ASSUME CanAppend, NEW e \in LogEntry, actuations' = Append(actuations, e)
      PROVE  actuations' \in Seq(LogEntry) /\ Len(actuations') <= MaxLog
  BY <1>2, AppendProperties, LenProperties, RuntimeAssumption DEF ServerTypeOK, CanAppend
<1>3. ASSUME CanAppend, NEW w \in Workers, Commits(w)
      PROVE  /\ actuations' \in Seq(LogEntry) /\ Len(actuations') <= MaxLog
             /\ committed' \subseteq Intents
  <2>1. worker[w].id \in Intents
    BY DEF ServerTypeOK, Service
  <2>2. [id |-> worker[w].id, kind |-> "auth"] \in LogEntry
    BY <2>1 DEF LogEntry
  <2> QED BY <1>2, <1>3, <2>1, <2>2 DEF Commits, ServerTypeOK
<1>4. ASSUME CanAppend, NEW i \in Intents, NEW kind \in {"stop", "withheld"}, Notes(i, kind)
      PROVE  /\ actuations' \in Seq(LogEntry) /\ Len(actuations') <= MaxLog
             /\ committed' \subseteq Intents
  <2>1. [id |-> i, kind |-> kind] \in LogEntry
    BY DEF LogEntry
  <2> QED BY <1>2, <1>4, <2>1 DEF Notes, ServerTypeOK
<1> QED BY LogSteps, <1>1, <1>3, <1>4 DEF Logs

\* Updates keep the context and its versions typed, within the bound.
LEMMA DocumentTypes ==
  ASSUME ServerTypeOK, [Next]_vars
  PROVE  /\ context' \in [Paths -> Int]
         /\ version' \in Versions
         /\ pathVersions' \in [Paths -> Versions]
<1>1. CASE UNCHANGED documentVars
  BY <1>1 DEF ServerTypeOK, documentVars
<1>2. ASSUME NEW p \in Paths, NEW v \in Nat, CanUpdate, Update(p, v)
      PROVE  /\ context' \in [Paths -> Int]
             /\ version' \in Versions
             /\ pathVersions' \in [Paths -> Versions]
  <2>1. version + 1 \in Versions
    BY <1>2, RuntimeAssumption DEF ServerTypeOK, CanUpdate, Versions
  <2> QED BY <1>2, <2>1 DEF ServerTypeOK, Update
<1> QED BY DocumentSteps, <1>1, <1>2

\* The variables beside the requests, the records, the document and the log.
LEMMA OtherTypes ==
  ASSUME ServerTypeOK, [Next]_vars
  PROVE  /\ claims' \subseteq Intents /\ up' \in BOOLEAN /\ now' \in 0..MaxTime
         /\ stopLock' \in Workers \cup {NoWorker}
         /\ fenced' \subseteq Intents /\ fenceRead' \subseteq Intents
         /\ grants' \in [Intents -> 0..2]
<1> DEFINE Others == /\ claims' \subseteq Intents /\ up' \in BOOLEAN /\ now' \in 0..MaxTime
                     /\ stopLock' \in Workers \cup {NoWorker}
                     /\ fenced' \subseteq Intents /\ fenceRead' \subseteq Intents
                     /\ grants' \in [Intents -> 0..2]
           rest == <<claims, up, now, stopLock, fenced, fenceRead, grants>>
<1>0. ServerTypeOK /\ \A w \in Workers : worker[w].id \in Intents
  BY DEF ServerTypeOK, Service
<1>1. UNCHANGED rest => Others
  BY DEF ServerTypeOK
<1>2. ASSUME NEW w \in Workers,
             \/ SubmitClaim(w) \/ SubmitFence(w) \/ SubmitFenceInstall(w)
             \/ SubmitFenceInit(w) \/ StopUpdate(w)
      PROVE  Others
  BY <1>0, <1>2 DEF ServerTypeOK, SubmitClaim, Claim, SubmitFence, SubmitFenceInstall,
                    SubmitFenceInit, StopUpdate, TryUpdate, Update, storeVars
<1>3. ASSUME NEW w \in Workers, ReadBack(w) \/ InstallBack(w) PROVE Others
  BY <1>0, <1>3 DEF ServerTypeOK, ReadBack, InstallBack, Return, storeVars
<1>4. ASSUME NEW w \in Workers, SubmitReply(w) \/ SubmitProcess(w) PROVE Others
  <2>1. /\ claims' \subseteq Intents /\ up' \in BOOLEAN /\ now' \in 0..MaxTime
        /\ stopLock' \in Workers \cup {NoWorker} /\ fenced' \subseteq Intents
        /\ fenceRead' \subseteq Intents
    BY <1>0, <1>4 DEF ServerTypeOK, SubmitReply, SubmitProcess, storeVars
  <2>2. grants' \in [Intents -> 0..2]
    <3>1. ASSUME NEW i \in Intents, Grant(i) PROVE grants' \in [Intents -> 0..2]
      <4>1. grants \in [Intents -> 0..2]
        BY <1>0 DEF ServerTypeOK
      <4> QED BY <3>1, <4>1 DEF Grant
    <3> QED BY <1>0, <1>4, <3>1 DEF ServerTypeOK, SubmitReply, SubmitProcess
  <2> QED BY <2>1, <2>2
<1>5. ASSUME NEW w \in Workers,
             \/ SubmitRegister(w) \/ SubmitInstall(w) \/ StopProcess(w) \/ StopLog(w)
             \/ CommitStore(w) \/ CommitRecord(w) \/ ReleaseEffect(w) \/ GetSnapshot(w)
             \/ \E p, v : PostUpdate(w, p, v)
             \/ \E i \in Intents : CommitStart(w, i)
             \/ \E i, released, scope, v, effect : ReleaseRequest(w, i, released, scope, v, effect)
      PROVE  UNCHANGED rest
  BY <1>5 DEF SubmitRegister, SubmitInstall, StopProcess, StopLog, AppendActuation, CommitStore,
              Commit, CommitRecord, ReleaseEffect, GetSnapshot, PostUpdate, TryUpdate, Update,
              CommitStart, ReleaseRequest, storeVars
<1>6. ASSUME NEW w \in Workers, NEW i \in Intents, SubmitAdmit(w, i) PROVE Others
  BY <1>0, <1>6 DEF ServerTypeOK, SubmitAdmit, storeVars
<1>7. ASSUME NEW i \in Intents,
             \/ WithheldRequest(i) \/ RevokeRequest(i)
             \/ \E status : EffectRequest(i, status)
      PROVE  UNCHANGED rest
  BY <1>7 DEF WithheldRequest, AppendActuation, RevokeRequest, EffectRequest, storeVars, serverVars
<1>8. ASSUME Tick \/ Outage \/ Restart PROVE Others
  <2>1. CASE Tick
    <3>1. now' \in 0..MaxTime
      BY <2>1, ServerAssumption DEF ServerTypeOK, Tick
    <3> QED BY <1>0, <2>1, <3>1 DEF ServerTypeOK, Tick, storeVars
  <2>2. CASE Outage
    BY <1>0, <2>2 DEF ServerTypeOK, Outage, StoreUp, StoreDown, serverVars
  <2>3. CASE Restart
    BY <1>0, <2>3 DEF ServerTypeOK, Restart, storeVars
  <2> QED BY <1>8, <2>1, <2>2, <2>3
<1>9. UNCHANGED vars => UNCHANGED rest
  BY DEF vars, storeVars, serverVars
<1> HIDE DEF Others, rest
<1>10. ASSUME NEW w \in Workers, WorkerStep(w) PROVE Others
  BY <1>10, <1>1, <1>2, <1>3, <1>4, <1>5 DEF WorkerStep
<1>11. ASSUME NEW w \in Workers, Request(w) PROVE Others
  BY <1>11, <1>1, <1>5, <1>6 DEF Request
<1>12. Others
  BY <1>1, <1>7, <1>8, <1>9, <1>10, <1>11 DEF Next
<1> QED BY <1>12 DEF Others

\* The server starts in a state of the right type.
LEMMA ServerTypeInit == Init => ServerTypeOK
<1> SUFFICES ASSUME Init PROVE ServerTypeOK
  OBVIOUS
<1>1. RuntimeTypeOK
  BY TypeInit DEF Init
<1>2. /\ context \in [Paths -> Int]
      /\ version \in Versions
      /\ pathVersions \in [Paths -> Versions]
  <2>1. 0 \in Versions /\ 1 \in Versions
    BY RuntimeAssumption, ServerAssumption DEF Versions
  <2>2. WrittenValues \cup {Missing} \subseteq Int
    BY ServerAssumption DEF Missing
  <2>3. context \in [Paths -> WrittenValues \cup {Missing}]
    BY DEF Init, StoreInit
  <2>4. context \in [Paths -> Int]
    BY <2>2, <2>3
  <2>5. version \in Versions /\ pathVersions \in [Paths -> Versions]
    BY <2>1 DEF Init, StoreInit
  <2> QED BY <2>4, <2>5
<1>3. actuations \in Seq(LogEntry) /\ Len(actuations) <= MaxLog
  BY RuntimeAssumption, EmptySeq DEF Init, StoreInit
<1>4. /\ worker \in [Workers -> Service]
      /\ \A w \in Workers : At(w, "effect") => worker[w].effect \in Effects
  BY FreeTypes DEF Init, At, Free
<1> QED BY <1>1, <1>2, <1>3, <1>4, ServerAssumption DEF Init, StoreInit, ServerTypeOK

\* Every step of the server keeps the types.
LEMMA ServerTypeStep == ServerTypeOK /\ [Next]_vars => ServerTypeOK'
<1> SUFFICES ASSUME ServerTypeOK, [Next]_vars PROVE ServerTypeOK'
  OBVIOUS
<1>1. RuntimeTypeOK'
  BY RuntimeSteps, TypeStep DEF ServerTypeOK
<1> QED BY <1>1, WorkerTypes, LogTypes, DocumentTypes, OtherTypes DEF ServerTypeOK, At

\* Every variable of the server and of the store keeps its type.
THEOREM ServerTypeCorrect == Spec => []ServerTypeOK
BY ServerTypeInit, ServerTypeStep, PTL DEF Spec

\* The handlers use the runtime only as its specification allows: what is
\* proved of XairRuntime for arbitrary callers holds of the server.
THEOREM ServerRunsRuntime == Spec => RuntimeSpec
<1>1. Init => RuntimeInit
  BY DEF Init
<1> QED BY <1>1, RuntimeSteps, ServerTypeCorrect, PTL DEF Spec, RuntimeSpec

-----------------------------------------------------------------------------
(* Why a commit is valid *)

\* No path changed after the latest update, and one that never changed has
\* no value.
VersionsBound ==
  \A p \in Paths : /\ pathVersions[p] <= version
                   /\ pathVersions[p] = 0 => context[p] = Missing

\* The store has moved on from the document s: a path either is as in s or
\* has changed since s was read.
Follows(s) ==
  /\ s.version <= version
  /\ \A p \in Paths :
       /\ s.pathVersions[p] <= s.version
       /\ \/ s.pathVersions[p] = pathVersions[p] /\ s.context[p] = context[p]
          \/ pathVersions[p] > s.version

\* A validation of i that found its predicates true at read-set version v: as
\* long as that version is current, they are.
Stands(i, fence, v) ==
  /\ v <= version
  /\ ReadSetVersion(pathVersions, ReadSet(i, fence)) = v => Satisfied(i, context, fence)

\* What the commit handler took from the record still is what was validated.
Committing(w) ==
  LET i == worker[w].id
      fence == i \in fenceRead
  IN /\ records[i].state \notin ValidatableStates \cup {"ABSENT"}
     /\ records[i].class = "other" => /\ worker[w].reads = ReadSet(i, fence)
                                      /\ Stands(i, fence, worker[w].expected)

\* The inductive invariant behind CommitValid.
CommitInv ==
  /\ VersionsBound
  /\ \A w \in Workers : Follows(worker[w].snapshot)
  /\ \A i \in Intents : records[i].state # "ABSENT" => i \in Range(seen)
  /\ \A w \in Workers : Handling(w) => records[worker[w].id].state # "ABSENT"
  /\ \A w \in Workers : At(w, "stop_process") => worker[w].id \in stopClass
  /\ \A i \in Intents : records[i].state = "AUTHORIZED" /\ records[i].class = "other"
                          => Stands(i, i \in fenceRead, records[i].readSetVersion)
  /\ \A w \in Workers : At(w, "commit") => Committing(w)

\* The document changes by one update, or not at all.
Updates == UNCHANGED documentVars \/ \E p \in Paths, v \in Int : CanUpdate /\ Update(p, v)

\* So it does in every step of the server.
LEMMA DocumentUpdates ==
  ASSUME ServerTypeOK, [Next]_vars
  PROVE  Updates /\ Snapshot \in Documents
<1>1. Nat \subseteq Int
  OBVIOUS
<1> QED BY <1>1, DocumentSteps, SnapshotType DEF Updates

\* Updates keep all three relations between versions and values.
LEMMA VersionsStep ==
  ASSUME Snapshot \in Documents, VersionsBound, Updates
  PROVE  VersionsBound'
<1>0. context \in [Paths -> Int] /\ version \in Nat /\ pathVersions \in [Paths -> Nat]
  BY DEF Snapshot, Documents, Versions
<1>1. CASE UNCHANGED documentVars
  BY <1>1 DEF VersionsBound, documentVars
<1>2. ASSUME NEW p \in Paths, NEW v \in Int, Update(p, v) PROVE VersionsBound'
  BY <1>0, <1>2 DEF VersionsBound, Update
<1> QED BY <1>1, <1>2 DEF Updates

\* Follows(s) in the new state, where s is not primed.
FollowsNext(s) ==
  /\ s.version <= version'
  /\ \A p \in Paths :
       /\ s.pathVersions[p] <= s.version
       /\ \/ s.pathVersions[p] = pathVersions'[p] /\ s.context[p] = context'[p]
          \/ pathVersions'[p] > s.version

\* What a worker has read keeps being followed.
LEMMA FollowsStep ==
  ASSUME Snapshot \in Documents, VersionsBound, Updates, NEW s \in Documents, Follows(s)
  PROVE  FollowsNext(s)
<1>0. context \in [Paths -> Int] /\ version \in Nat /\ pathVersions \in [Paths -> Nat]
  BY DEF Snapshot, Documents, Versions
<1>1. CASE UNCHANGED documentVars
  BY <1>1 DEF Follows, FollowsNext, documentVars
<1>2. ASSUME NEW p \in Paths, NEW v \in Int, Update(p, v) PROVE FollowsNext(s)
  BY <1>0, <1>2 DEF Follows, FollowsNext, Update, Versions, Documents
<1> QED BY <1>1, <1>2 DEF Updates

\* A snapshot read now follows the store, and so does the empty one.
LEMMA SnapshotFollows ==
  ASSUME Snapshot \in Documents, VersionsBound
  PROVE  Follows(Snapshot) /\ Follows(EmptySnapshot)
<1>0. context \in [Paths -> Int] /\ version \in Nat /\ pathVersions \in [Paths -> Nat]
  BY DEF Snapshot, Documents, Versions
<1>1. Follows(Snapshot)
  BY <1>0 DEF Follows, Snapshot, VersionsBound
<1>2. Follows(EmptySnapshot)
  BY <1>0 DEF Follows, EmptySnapshot, VersionsBound
<1> QED BY <1>1, <1>2

\* Whether predicates hold depends on the values of the paths they read.
LEMMA SatisfiedLocal ==
  ASSUME NEW i \in Intents, NEW fence \in BOOLEAN, NEW c, NEW d,
         \A p \in ReadSet(i, fence) : c[p] = d[p]
  PROVE  Satisfied(i, c, fence) <=> Satisfied(i, d, fence)
BY DEF ReadSet, Satisfied

\* The version of a read set depends on the versions of its paths.
LEMMA ReadSetVersionLocal ==
  ASSUME NEW R, NEW c, NEW d, \A p \in R : c[p] = d[p]
  PROVE  ReadSetVersion(c, R) = ReadSetVersion(d, R)
<1>1. {c[p] : p \in R} = {d[p] : p \in R}
  OBVIOUS
<1> QED BY <1>1 DEF ReadSetVersion

\* Stands(i, fence, v) in the new state, where i, fence and v are not primed.
StandsNext(i, fence, v) ==
  /\ v <= version'
  /\ ReadSetVersion(pathVersions', ReadSet(i, fence)) = v => Satisfied(i, context', fence)

\* What stands keeps standing: an update that changes a value some predicate
\* reads advances the version of the read set past v.
LEMMA StandsStep ==
  ASSUME Snapshot \in Documents, VersionsBound, Updates, NEW i \in Intents, NEW fence \in BOOLEAN,
         NEW v \in Versions, Stands(i, fence, v)
  PROVE  StandsNext(i, fence, v)
<1> DEFINE R == ReadSet(i, fence)
<1>0. R \in SUBSET Paths
  BY ReadSetPaths
<1>10. context \in [Paths -> Int] /\ version \in Versions /\ pathVersions \in [Paths -> Versions]
  BY DEF Snapshot, Documents
<1>1. CASE UNCHANGED documentVars
  BY <1>1 DEF Stands, StandsNext, documentVars
<1>2. ASSUME NEW p \in Paths, NEW x \in Int, CanUpdate, Update(p, x) PROVE StandsNext(i, fence, v)
  <2>0. /\ pathVersions' \in [Paths -> Versions]
        /\ version \in Int /\ version' = version + 1 /\ v \in Int
    <3>1. version + 1 \in Versions
      BY <1>2, <1>10, RuntimeAssumption DEF CanUpdate, Versions
    <3> QED BY <1>2, <1>10, <3>1 DEF Update, Versions
  <2>1. v <= version'
    BY <2>0 DEF Stands
  <2>2. CASE p \in R /\ context[p] # x
    <3>1. pathVersions'[p] = version + 1
      BY <1>2, <1>10, <2>2 DEF Update
    <3>2. pathVersions'[p] <= ReadSetVersion(pathVersions', R) /\ ReadSetVersion(pathVersions', R) \in Versions
      BY <1>0, <2>0, <2>2, ReadSetVersionFacts
    <3>3. ReadSetVersion(pathVersions', R) # v
      BY <2>0, <3>1, <3>2 DEF Stands, Versions
    <3> QED BY <2>1, <3>3 DEF Stands, StandsNext
  <2>3. CASE ~(p \in R /\ context[p] # x)
    <3>1. \A q \in R : context'[q] = context[q] /\ pathVersions'[q] = pathVersions[q]
      BY <1>0, <1>2, <1>10, <2>3 DEF Update
    <3>2. ReadSetVersion(pathVersions', R) = ReadSetVersion(pathVersions, R)
      BY <3>1, ReadSetVersionLocal
    <3>3. Satisfied(i, context', fence) <=> Satisfied(i, context, fence)
      BY <3>1, SatisfiedLocal
    <3> QED BY <2>1, <3>2, <3>3 DEF Stands, StandsNext
  <2> QED BY <2>2, <2>3
<1> QED BY <1>1, <1>2 DEF Updates

\* A pass that finds the predicates true on a snapshot makes them stand, at the
\* version of their read set or any later one that the snapshot had.
LEMMA PassStandsAt ==
  ASSUME Snapshot \in Documents, NEW s \in Documents, Follows(s), NEW i \in Intents,
         NEW fence \in BOOLEAN, Satisfied(i, s.context, fence), NEW v \in Int, v <= s.version
  PROVE  Stands(i, fence, v)
<1> DEFINE R == ReadSet(i, fence)
           u == ReadSetVersion(pathVersions, R)
<1>0. /\ R \in SUBSET Paths
      /\ s.pathVersions \in [Paths -> Versions] /\ pathVersions \in [Paths -> Versions]
      /\ s.version \in Int /\ s.version >= 0 /\ version \in Int
  BY ReadSetPaths DEF Snapshot, Documents, Versions
<1>2. u \in Int /\ \A p \in R : pathVersions[p] <= u
  BY <1>0, ReadSetVersionFacts DEF Versions
<1> HIDE DEF u
<1>4. v <= version
  BY <1>0 DEF Follows
<1>5. ASSUME u = v PROVE Satisfied(i, context, fence)
  <2>1. \A p \in R : pathVersions[p] <= s.version
    BY <1>0, <1>2, <1>5 DEF Versions
  <2>2. \A p \in R : s.context[p] = context[p]
    BY <1>0, <2>1 DEF Follows, Versions
  <2> QED BY <2>2, SatisfiedLocal
<1> QED BY <1>4, <1>5 DEF Stands, u

\* The case of the version of the read set.
LEMMA PassStands ==
  ASSUME ServerTypeOK, NEW s \in Documents, Follows(s), NEW i \in Intents, NEW fence \in BOOLEAN,
         Satisfied(i, s.context, fence)
  PROVE  Stands(i, fence, ReadSetVersion(s.pathVersions, ReadSet(i, fence)))
<1> DEFINE R == ReadSet(i, fence)
           v == ReadSetVersion(s.pathVersions, R)
<1>0. /\ R \in SUBSET Paths
      /\ s.pathVersions \in [Paths -> Versions]
      /\ s.version \in Int /\ s.version >= 0
  BY ReadSetPaths DEF Documents, Versions
<1>1. v \in Int /\ (v = 0 \/ \E p \in R : v = s.pathVersions[p])
  BY <1>0, ReadSetVersionFacts DEF Versions
<1> HIDE DEF v
<1>3. v <= s.version
  BY <1>0, <1>1 DEF Follows
<1>4. Stands(i, fence, v)
  BY <1>1, <1>3, SnapshotType, PassStandsAt
<1> QED BY <1>4 DEF v

-----------------------------------------------------------------------------
(* What a step may do to one worker and to the records *)

\* One worker, across one step.
Turns(w) ==
  \/ worker'[w] = worker[w]
  \/ worker'[w].pc \in {"idle"} \cup PostPoints
  \/ /\ Handling(w)
     /\ worker'[w].id = worker[w].id
     /\ worker'[w].pc \notin {"commit", "stop_process"}
  \/ \E i \in Intents :
       /\ worker'[w].id = i
       /\ \/ /\ SubmitAdmit(w, i)
             /\ worker'[w].pc # "commit"
             /\ worker'[w].pc = "stop_process" => i \in stopClass
          \/ /\ worker'[w].pc = "commit"
             /\ records[i].state = "AUTHORIZED"
             /\ worker'[w].reads = RecordedReadSet(i)
             /\ worker'[w].expected = records[i].readSetVersion
             /\ UNCHANGED <<runtimeVars, fenceRead>>
          \/ worker'[w].pc = "effect" /\ records'[i].state = "RELEASED"

\* A step moves a worker in one of the ways of Turns, and the snapshot it then
\* holds is the one it had, the current one or the empty one.
LEMMA WorkerTurns ==
  ASSUME ServerTypeOK, [Next]_vars, NEW w \in Workers
  PROVE  /\ Turns(w)
         /\ worker'[w].snapshot \in {worker[w].snapshot, Snapshot, EmptySnapshot}
<1> DEFINE Goal == /\ Turns(w)
                   /\ worker'[w].snapshot \in {worker[w].snapshot, Snapshot, EmptySnapshot}
<1>0. worker \in [Workers -> Service] /\ worker[w] \in Service
  BY DEF ServerTypeOK
<1>1. Free.pc = "idle" /\ Free.snapshot = EmptySnapshot
  BY DEF Free
<1>2. ASSUME worker'[w] = worker[w] PROVE Goal
  BY <1>2 DEF Turns
<1>3. ASSUME worker'[w] = Free PROVE Goal
  BY <1>1, <1>3 DEF Turns
<1>4. ASSUME UNCHANGED worker PROVE Goal
  BY <1>2, <1>4
<1>5. ASSUME Restart PROVE Goal
  BY <1>3, <1>5 DEF Restart
<1>6. ASSUME NEW u \in Workers, Done(u) PROVE Goal
  BY <1>0, <1>2, <1>3, <1>6 DEF Done
<1>7. ASSUME NEW u \in Workers, NEW pc \in LaterPoints, Proceeds(u, pc) PROVE Goal
  <2>1. CASE u # w
    BY <1>0, <1>2, <1>7, <2>1 DEF Proceeds, Goto, Keep, Take
  <2>2. CASE u = w
    <3>1. worker'[w] \in {[Free EXCEPT !.pc = pc, !.id = worker[w].id],
                          [worker[w] EXCEPT !.pc = pc],
                          [worker[w] EXCEPT !.pc = pc, !.snapshot = Snapshot]}
      BY <1>0, <1>7, <2>2 DEF Proceeds, Goto, Keep, Take
    <3>2. /\ worker'[w].pc = pc /\ worker'[w].id = worker[w].id
          /\ worker'[w].snapshot \in {worker[w].snapshot, Snapshot, EmptySnapshot}
      BY <1>0, <3>1 DEF Service, Free
    <3>3. pc \in PostPoints \/ (Handling(w) /\ pc \notin {"commit", "stop_process"})
      BY <1>7, <2>2 DEF Proceeds, LaterPoints
    <3> QED BY <3>2, <3>3 DEF Turns
  <2> QED BY <2>1, <2>2
<1>8. ASSUME NEW u \in Workers, CommitStore(u) PROVE Goal
  <2>1. CASE u # w
    BY <1>0, <1>2, <1>8, <2>1 DEF CommitStore
  <2>2. CASE u = w
    <3> DEFINE Answered(st, seq) == worker' = [worker EXCEPT ![w] =
                 [Free EXCEPT !.pc = "record", !.id = worker[w].id, !.status = st, !.seq = seq]]
    <3>1. \E st, seq : Answered(st, seq)
      <4> DEFINE st == CommitStatus(worker[w].id, worker[w].reads, worker[w].expected,
                                    Age(worker[w].id), ReleaseBound(worker[w].id) - Eps, Eps)
                 seq == IF st = "committed" THEN Len(actuations) + 1 ELSE NoSeq
      <4>1. Answered(st, seq) \/ Answered("unavailable", NoSeq)
        BY <1>8, <2>2 DEF CommitStore
      <4> HIDE DEF Answered, st, seq
      <4> QED BY <4>1
    <3>2. ASSUME NEW st, NEW seq, Answered(st, seq)
          PROVE  /\ worker'[w].pc = "record" /\ worker'[w].id = worker[w].id
                 /\ worker'[w].snapshot = EmptySnapshot
      BY <1>0, <3>2 DEF Free
    <3> HIDE DEF Answered
    <3>3. Handling(w)
      BY <1>8, <2>2 DEF CommitStore, Handling, At, PostPoints
    <3> QED BY <3>1, <3>2, <3>3 DEF Turns
  <2> QED BY <2>1, <2>2
<1>9. ASSUME NEW u \in Workers, NEW i \in Intents, SubmitAdmit(u, i) PROVE Goal
  <2>1. CASE worker'[w] = worker[w]
    BY <1>2, <2>1
  <2>2. CASE worker'[w] # worker[w]
    <3>1. u = w
      BY <1>0, <1>9, <2>2 DEF SubmitAdmit
    <3>2. \E pc \in {"stop_process", "fence", "claim"} :
            /\ worker'[w] = [worker[w] EXCEPT !.pc = pc, !.id = i]
            /\ pc = "stop_process" => i \in stopClass
      BY <1>0, <1>9, <2>2, <3>1 DEF SubmitAdmit
    <3>3. /\ worker'[w].id = i /\ worker'[w].snapshot = worker[w].snapshot
          /\ worker'[w].pc # "commit" /\ (worker'[w].pc = "stop_process" => i \in stopClass)
      BY <1>0, <3>2 DEF Service
    <3> QED BY <1>9, <3>1, <3>3 DEF Turns
  <2> QED BY <2>1, <2>2
<1>10. ASSUME NEW u \in Workers, NEW i \in Intents, CommitStart(u, i) PROVE Goal
  <2>1. CASE worker'[w] = worker[w]
    BY <1>2, <2>1
  <2>2. CASE worker'[w] # worker[w]
    <3>1. u = w
      BY <1>0, <1>10, <2>2 DEF CommitStart
    <3>2. /\ worker'[w] = [worker[w] EXCEPT !.pc = "commit", !.id = i, !.reads = RecordedReadSet(i),
                                            !.expected = records[i].readSetVersion]
          /\ records[i].state = "AUTHORIZED"
          /\ UNCHANGED <<runtimeVars, fenceRead>>
      BY <1>0, <1>10, <2>2, <3>1 DEF CommitStart
    <3>3. /\ worker'[w].id = i /\ worker'[w].snapshot = worker[w].snapshot
          /\ worker'[w].pc = "commit" /\ worker'[w].reads = RecordedReadSet(i)
          /\ worker'[w].expected = records[i].readSetVersion
      BY <1>0, <3>2 DEF Service
    <3> QED BY <3>2, <3>3 DEF Turns
  <2> QED BY <2>1, <2>2
<1>11. ASSUME NEW u \in Workers, NEW i \in Intents, NEW released, NEW scope, NEW v, NEW effect,
              ReleaseRequest(u, i, released, scope, v, effect)
       PROVE  Goal
  <2>1. CASE worker'[w] = worker[w]
    BY <1>2, <2>1
  <2>2. CASE worker'[w] # worker[w]
    <3>1. u = w
      BY <1>0, <1>11, <2>2 DEF ReleaseRequest
    <3>2. /\ worker'[w] = [worker[w] EXCEPT !.pc = "effect", !.id = i, !.effect = effect]
          /\ records'[i].state = "RELEASED"
      BY <1>0, <1>11, <2>2, <3>1 DEF ReleaseRequest
    <3>3. /\ worker'[w].id = i /\ worker'[w].snapshot = worker[w].snapshot /\ worker'[w].pc = "effect"
      BY <1>0, <3>2 DEF Service
    <3> QED BY <3>2, <3>3 DEF Turns
  <2> QED BY <2>1, <2>2
<1> HIDE DEF Goal
<1>12. ASSUME NEW u \in Workers, NEW i \in Intents, Begins(u, i) PROVE Goal
  BY <1>9, <1>10, <1>11, <1>12 DEF Begins
<1>13. Goal
  BY WorkerSteps, <1>4, <1>5, <1>6, <1>7, <1>8, <1>12
<1> QED BY <1>13 DEF Goal

\* The record is unchanged, or left behind by a report or a revoke.
Settles(r, q) ==
  \/ q = r
  \/ /\ r.state # "ABSENT"
     /\ q.state \notin ValidatableStates \cup {"ABSENT", "AUTHORIZED"}
     /\ q.class = r.class

\* A revoke settles, and so does the recording of a commit.
LEMMA RevokesSettle ==
  ASSUME records \in [Intents -> Record], NEW i \in Intents, LifecycleRevoke(i) \/ SupervisoryRevoke(i)
  PROVE  /\ UNCHANGED <<seen, stopClass>>
         /\ \A j \in Intents : Settles(records[j], records'[j])
<1>1. "REVOKED" \in Allowed(records[i].state) => Settles(records[i], Revoked(records[i]))
  BY DEF Allowed, Settles, Revoked, Record, ValidatableStates
<1>2. /\ UNCHANGED <<seen, stopClass>>
      /\ \/ records' = records
         \/ /\ "REVOKED" \in Allowed(records[i].state)
            /\ records' = [records EXCEPT ![i] = Revoked(records[i])]
  BY DEF LifecycleRevoke, SupervisoryRevoke
<1> QED BY <1>1, <1>2 DEF Settles

LEMMA CommitsSettle ==
  ASSUME records \in [Intents -> Record], NEW i \in Intents, NEW ok, NEW seq, RecordCommit(i, ok, seq)
  PROVE  /\ UNCHANGED <<seen, stopClass>>
         /\ \A j \in Intents : Settles(records[j], records'[j])
<1>1. records[i].state = "AUTHORIZED" => /\ Settles(records[i], Committed(records[i], seq))
                                         /\ Settles(records[i], Withheld(records[i]))
  BY DEF Settles, Committed, Withheld, Record, ValidatableStates
<1>2. /\ UNCHANGED <<seen, stopClass>>
      /\ \/ records' = records
         \/ /\ records[i].state = "AUTHORIZED"
            /\ \/ records' = [records EXCEPT ![i] = Committed(records[i], seq)]
               \/ records' = [records EXCEPT ![i] = Withheld(records[i])]
  BY DEF RecordCommit
<1> QED BY <1>1, <1>2 DEF Settles

\* Beside a restart, only an admission and a validation pass do more to records
\* than settle them.
LEMMA RecordSteps ==
  ASSUME ServerTypeOK, [Next]_vars
  PROVE  \/ Restart
         \/ \E w \in Workers, i \in Intents : SubmitAdmit(w, i)
         \/ \E w \in Workers : SubmitProcess(w) \/ StopProcess(w)
         \/ /\ UNCHANGED <<seen, stopClass, fenceRead>>
            /\ \A j \in Intents : Settles(records[j], records'[j])
<1> DEFINE Quiet == /\ UNCHANGED <<seen, stopClass, fenceRead>>
                    /\ \A j \in Intents : Settles(records[j], records'[j])
<1>0. records \in [Intents -> Record] /\ \A w \in Workers : worker[w].id \in Intents
  BY DEF ServerTypeOK, RuntimeTypeOK, Service
<1>1. ASSUME UNCHANGED <<runtimeVars, fenceRead>> PROVE Quiet
  BY <1>1 DEF runtimeVars, Settles
<1>2. ASSUME UNCHANGED <<seen, stopClass, fenceRead>>, NEW i \in Intents, NEW q,
             records' = records \/ records' = [records EXCEPT ![i] = q],
             Settles(records[i], q)
      PROVE  Quiet
  BY <1>0, <1>2 DEF Settles
<1>3. ASSUME NEW i \in Intents, LifecycleRevoke(i) \/ SupervisoryRevoke(i), UNCHANGED fenceRead
      PROVE  Quiet
  BY <1>0, <1>3, RevokesSettle
<1>4. ASSUME NEW i \in Intents, NEW ok, NEW seq, RecordCommit(i, ok, seq), UNCHANGED fenceRead
      PROVE  Quiet
  BY <1>0, <1>4, CommitsSettle
<1>5. ASSUME NEW i \in Intents, NEW released, NEW scope, NEW v, ReportRelease(i, released, scope, v),
             UNCHANGED fenceRead
      PROVE  Quiet
  <2>1. TakesReport(records[i]) => /\ Settles(records[i], Released(records[i]))
                                   /\ Settles(records[i], Withheld(records[i]))
    BY <1>0 DEF TakesReport, Settles, Released, Withheld, Record, ValidatableStates
  <2>2. /\ UNCHANGED <<seen, stopClass, fenceRead>>
        /\ \/ records' = records
           \/ /\ TakesReport(records[i])
              /\ \/ records' = [records EXCEPT ![i] = Released(records[i])]
                 \/ records' = [records EXCEPT ![i] = Withheld(records[i])]
    BY <1>5 DEF ReportRelease
  <2>3. CASE records' = records
    BY <2>2, <2>3 DEF Settles
  <2> HIDE DEF Quiet
  <2> QED BY <1>2, <2>1, <2>2, <2>3
<1>6. ASSUME NEW i \in Intents, NEW status, ReportEffect(i, status), UNCHANGED fenceRead
      PROVE  Quiet
  <2>1. EffectState(status) \in Allowed(records[i].state)
          => Settles(records[i], Effected(records[i], status))
    BY <1>0 DEF EffectState, Allowed, Settles, Effected, Record, ValidatableStates
  <2>2. /\ UNCHANGED <<seen, stopClass, fenceRead>>
        /\ \/ records' = records
           \/ /\ EffectState(status) \in Allowed(records[i].state)
              /\ records' = [records EXCEPT ![i] = Effected(records[i], status)]
    BY <1>6 DEF ReportEffect
  <2>3. CASE records' = records
    BY <2>2, <2>3 DEF Settles
  <2> HIDE DEF Quiet
  <2> QED BY <1>2, <2>1, <2>2, <2>3
<1>7. ASSUME NEW i \in Intents, NEW v, InstallSnapshot(v), UNCHANGED fenceRead PROVE Quiet
  BY <1>7 DEF InstallSnapshot, Settles
<1> HIDE DEF Quiet
<1>8. ASSUME NEW w \in Workers,
             \/ SubmitClaim(w) \/ SubmitRegister(w) \/ CommitRecord(w) \/ ReleaseEffect(w)
             \/ SubmitFenceInstall(w) \/ SubmitInstall(w) \/ InstallBack(w)
             \/ SubmitFence(w) \/ SubmitFenceInit(w) \/ SubmitReply(w) \/ StopUpdate(w)
             \/ StopLog(w) \/ ReadBack(w) \/ CommitStore(w) \/ GetSnapshot(w)
             \/ \E p, v : PostUpdate(w, p, v)
      PROVE  Quiet
  BY <1>0, <1>1, <1>3, <1>4, <1>6, <1>7, <1>8
     DEF SubmitClaim, SubmitRegister, CommitRecord, ReleaseEffect, SubmitFenceInstall,
         SubmitInstall, InstallBack, SubmitFence, SubmitFenceInit, SubmitReply, StopUpdate,
         StopLog, ReadBack, CommitStore, GetSnapshot, PostUpdate
<1>9. ASSUME NEW w \in Workers, NEW i \in Intents,
             \/ CommitStart(w, i)
             \/ \E released, scope, v, effect : ReleaseRequest(w, i, released, scope, v, effect)
      PROVE  Quiet
  BY <1>1, <1>4, <1>5, <1>9 DEF CommitStart, ReleaseRequest
<1>10. ASSUME NEW i \in Intents,
              \/ WithheldRequest(i) \/ RevokeRequest(i)
              \/ \E status : EffectRequest(i, status)
       PROVE  Quiet
  BY <1>1, <1>3, <1>5, <1>6, <1>10 DEF WithheldRequest, RevokeRequest, EffectRequest, serverVars
<1>11. Tick \/ Outage \/ UNCHANGED vars => Quiet
  BY <1>1 DEF Tick, Outage, vars, serverVars
<1>12. ASSUME NEW w \in Workers, WorkerStep(w)
       PROVE  Quiet \/ SubmitProcess(w) \/ StopProcess(w)
  BY <1>8, <1>12 DEF WorkerStep
<1>13. ASSUME NEW w \in Workers, Request(w)
       PROVE  Quiet \/ \E i \in Intents : SubmitAdmit(w, i)
  BY <1>8, <1>9, <1>13 DEF Request
<1>14. \/ Restart \/ Quiet
       \/ \E w \in Workers, i \in Intents : SubmitAdmit(w, i)
       \/ \E w \in Workers : SubmitProcess(w) \/ StopProcess(w)
  BY <1>10, <1>11, <1>12, <1>13 DEF Next
<1> QED BY <1>14 DEF Quiet

\* What a submission's admission does to the records, no retention having
\* elapsed: nothing for a known id, and a fresh record otherwise.
LEMMA AdmitSteps ==
  ASSUME ServerTypeOK, NEW w \in Workers, NEW i \in Intents, SubmitAdmit(w, i)
  PROVE  /\ UNCHANGED stopClass
         /\ \/ /\ records[i].state # "ABSENT"
               /\ UNCHANGED <<records, seen, fenceRead>>
            \/ /\ ~(i \in Range(seen) /\ records[i].state # "ABSENT")
               /\ records' = [records EXCEPT ![i] = Created(i)]
               /\ Range(seen) \cup {i} \subseteq Range(seen')
               /\ fenceRead' = fenceRead \ {i}
<1>1. Admit(i, 0)
  BY DEF SubmitAdmit
<1>2. CASE Known(i)
  BY <1>1, <1>2, AdmitAtOnce DEF SubmitAdmit, ServerTypeOK, Known
<1>3. CASE ~Known(i)
  BY <1>1, <1>3, AdmitAtOnce DEF SubmitAdmit, ServerTypeOK, Known
<1> QED BY <1>2, <1>3

\* An authorized record of an ordinary intent rests on a validation that stands.
Authorizes(r, i, fence) ==
  r.state = "AUTHORIZED" /\ r.class = "other" => Stands(i, fence, r.readSetVersion)

\* A validation pass touches one record, known and not yet settled, and if it
\* authorizes an ordinary intent, then on predicates that stand.
PassRecords(i) ==
  /\ UNCHANGED <<seen, stopClass>>
  /\ \A j \in Intents \ {i} : records'[j] = records[j] /\ (j \in fenceRead' <=> j \in fenceRead)
  /\ \/ records'[i] = records[i] /\ (i \in fenceRead' <=> i \in fenceRead)
     \/ /\ records[i].state \in ValidatableStates
        /\ records'[i].state # "ABSENT"
        /\ Authorizes(records'[i], i, i \in fenceRead')

\* So does a pass that notes with the record whether it read the stop path.
LEMMA ProcessPasses ==
  ASSUME records \in [Intents -> Record], NEW i \in Intents, records[i].state # "ABSENT",
         NEW c, ProcessIntent(i, c), NEW fence \in BOOLEAN,
         c.contextOk => Stands(i, fence, c.readSetVersion),
         \A j \in Intents \ {i} : j \in fenceRead' <=> j \in fenceRead,
         ~(records[i].state \in ValidatableStates /\ ~(c.version < contextVersion))
            => fenceRead' = fenceRead,
         i \notin stopClass /\ records[i].state \in ValidatableStates /\ ~(c.version < contextVersion)
            => (i \in fenceRead' <=> fence)
  PROVE  PassRecords(i)
<1> DEFINE r == records[i]
           outcome == Decide(r, i, c)
           decided == r.state \in ValidatableStates /\ ~(c.version < contextVersion)
<1>1. /\ UNCHANGED <<seen, stopClass>>
      /\ \/ r.state \notin ValidatableStates /\ UNCHANGED records
         \/ /\ r.state \in ValidatableStates
            /\ \/ i \in stopClass /\ records' = [records EXCEPT ![i] = AuthorizeStop(r)]
               \/ c.version < contextVersion /\ records' = [records EXCEPT ![i] = RevokeStale(r)]
               \/ /\ i \notin stopClass
                  /\ ~(c.version < contextVersion)
                  /\ records' = [records EXCEPT ![i] = Validated(r, outcome, c)]
  BY DEF ProcessIntent
<1>2. Authorizes(AuthorizeStop(r), i, i \in fenceRead') /\ AuthorizeStop(r).state # "ABSENT"
  BY DEF Authorizes, AuthorizeStop, Record
<1>3. Authorizes(RevokeStale(r), i, i \in fenceRead') /\ RevokeStale(r).state # "ABSENT"
  BY DEF Authorizes, RevokeStale, Record
<1>4. /\ Validated(r, outcome, c).state = StateAfter(outcome, c)
      /\ Validated(r, outcome, c).readSetVersion = c.readSetVersion
  BY DEF Validated, Record
<1>5. Validated(r, outcome, c).state # "ABSENT"
  BY <1>4 DEF StateAfter
<1>6. ASSUME i \notin stopClass, decided
      PROVE  Authorizes(Validated(r, outcome, c), i, i \in fenceRead')
  <2> SUFFICES ASSUME StateAfter(outcome, c) = "AUTHORIZED"
               PROVE  Stands(i, i \in fenceRead', c.readSetVersion)
    BY <1>4 DEF Authorizes
  <2>1. outcome = "EXECUTE"
    BY DEF StateAfter
  <2>2. c.contextOk
    BY <2>1 DEF Decide
  <2>3. (i \in fenceRead') = fence
    BY <1>6
  <2> QED BY <2>2, <2>3
<1>7. \A j \in Intents \ {i} : records'[j] = records[j]
  BY <1>1
<1>8. CASE UNCHANGED records /\ ~decided
  BY <1>1, <1>7, <1>8 DEF PassRecords
<1>9. CASE r.state \in ValidatableStates /\ records'[i] \in {AuthorizeStop(r), RevokeStale(r)}
  BY <1>1, <1>2, <1>3, <1>7, <1>9 DEF PassRecords
<1>10. CASE /\ r.state \in ValidatableStates /\ i \notin stopClass /\ decided
            /\ records'[i] = Validated(r, outcome, c)
  BY <1>1, <1>5, <1>6, <1>7, <1>10 DEF PassRecords
<1> QED BY <1>1, <1>8, <1>9, <1>10

LEMMA PassSteps ==
  ASSUME ServerTypeOK, CommitInv, NEW w \in Workers, SubmitProcess(w) \/ StopProcess(w)
  PROVE  PassRecords(worker[w].id)
<1> DEFINE i == worker[w].id
           c == CheckOn(w, i)
           s == worker[w].snapshot
           fence == i \in fenced
<1>0. /\ i \in Intents /\ records \in [Intents -> Record]
      /\ s \in Documents /\ Follows(s) /\ fence \in BOOLEAN
  BY DEF ServerTypeOK, RuntimeTypeOK, Service, CommitInv
<1>1. records[i].state # "ABSENT" /\ ProcessIntent(i, c)
  BY DEF SubmitProcess, StopProcess, At, CommitInv, Handling, PostPoints
<1>2. /\ c.contextOk = Satisfied(i, s.context, fence)
      /\ c.readSetVersion = ReadSetVersion(s.pathVersions, ReadSet(i, fence))
  BY DEF CheckOn
<1>3. \A j \in Intents \ {i} : j \in fenceRead' <=> j \in fenceRead
  BY DEF SubmitProcess, StopProcess
<1>4. ~(records[i].state \in ValidatableStates /\ ~(c.version < contextVersion))
        => fenceRead' = fenceRead
  BY DEF SubmitProcess, StopProcess
<1>5. i \notin stopClass /\ records[i].state \in ValidatableStates /\ ~(c.version < contextVersion)
        => (i \in fenceRead' <=> fence)
  BY <1>0 DEF SubmitProcess, StopProcess, CommitInv
<1> HIDE DEF c, s, fence
<1>6. c.contextOk => Stands(i, fence, c.readSetVersion)
  BY <1>0, <1>2, PassStands
<1> HIDE DEF i
<1> QED
  <2>1. PassRecords(i)
    BY <1>0, <1>1, <1>3, <1>4, <1>5, <1>6, ProcessPasses
  <2> QED BY <2>1 DEF i

\* What a step does to the record of intent i.
Evolves(i) ==
  /\ i \in Range(seen) => i \in Range(seen')
  /\ \/ /\ Settles(records[i], records'[i])
        /\ i \in fenceRead' <=> i \in fenceRead
     \/ /\ records[i].state \in ValidatableStates \cup {"ABSENT"}
        /\ records'[i].state # "ABSENT"
        /\ i \in Range(seen')
        /\ Authorizes(records'[i], i, i \in fenceRead')

\* What an admission does to the records, no retention having elapsed.
AdmitRecords(i) ==
  \/ /\ records[i].state # "ABSENT"
     /\ UNCHANGED <<records, seen, fenceRead>>
  \/ /\ ~(i \in Range(seen) /\ records[i].state # "ABSENT")
     /\ records' = [records EXCEPT ![i] = Created(i)]
     /\ Range(seen) \cup {i} \subseteq Range(seen')
     /\ fenceRead' = fenceRead \ {i}

\* An admission, and a pass over a known record, let every record evolve.
LEMMA MethodsEvolve ==
  ASSUME records \in [Intents -> Record],
         \A i \in Intents : records[i].state # "ABSENT" => i \in Range(seen), NEW i \in Intents
  PROVE  /\ AdmitRecords(i) => \A j \in Intents : Evolves(j)
         /\ PassRecords(i) /\ records[i].state # "ABSENT" => \A j \in Intents : Evolves(j)
<1>1. ASSUME AdmitRecords(i) PROVE \A j \in Intents : Evolves(j)
  <2>1. CASE UNCHANGED <<records, seen, fenceRead>>
    BY <2>1 DEF Evolves, Settles
  <2>2. CASE /\ ~(i \in Range(seen) /\ records[i].state # "ABSENT")
             /\ records' = [records EXCEPT ![i] = Created(i)]
             /\ Range(seen) \cup {i} \subseteq Range(seen')
             /\ fenceRead' = fenceRead \ {i}
    <3>1. records[i].state = "ABSENT"
      BY <2>2
    <3>2. Created(i).state = "CREATED"
      BY DEF Created, Absent
    <3>3. Evolves(i)
      BY <2>2, <3>1, <3>2 DEF Evolves, Authorizes
    <3>4. ASSUME NEW j \in Intents, j # i PROVE Evolves(j)
      BY <2>2, <3>4 DEF Evolves, Settles
    <3> QED BY <3>3, <3>4
  <2> QED BY <1>1, <2>1, <2>2 DEF AdmitRecords
<1>2. ASSUME PassRecords(i), records[i].state # "ABSENT" PROVE \A j \in Intents : Evolves(j)
  BY <1>2 DEF PassRecords, Evolves, Settles
<1> QED BY <1>1, <1>2

\* A record that is past validation stays so: only a record that awaits
\* validation, or none, gives way to a new one.
LEMMA RecordEvolves ==
  ASSUME ServerTypeOK, CommitInv, [Next]_vars, ~Restart
  PROVE  UNCHANGED stopClass /\ \A i \in Intents : Evolves(i)
<1>0. /\ records \in [Intents -> Record]
      /\ \A i \in Intents : records[i].state # "ABSENT" => i \in Range(seen)
  BY DEF ServerTypeOK, RuntimeTypeOK, CommitInv
<1>1. ASSUME NEW w \in Workers, NEW i \in Intents, SubmitAdmit(w, i)
      PROVE  UNCHANGED stopClass /\ \A j \in Intents : Evolves(j)
  <2>1. UNCHANGED stopClass /\ AdmitRecords(i)
    BY <1>1, AdmitSteps DEF AdmitRecords
  <2> QED BY <1>0, <2>1, MethodsEvolve
<1>2. ASSUME NEW w \in Workers, SubmitProcess(w) \/ StopProcess(w)
      PROVE  UNCHANGED stopClass /\ \A j \in Intents : Evolves(j)
  <2>1. worker[w].id \in Intents /\ records[worker[w].id].state # "ABSENT"
    BY <1>2 DEF ServerTypeOK, Service, SubmitProcess, StopProcess, At, CommitInv,
                Handling, PostPoints
  <2>2. PassRecords(worker[w].id)
    BY <1>2, PassSteps
  <2>3. UNCHANGED stopClass
    BY <2>2 DEF PassRecords
  <2> QED BY <1>0, <2>1, <2>2, <2>3, MethodsEvolve
<1>3. CASE /\ UNCHANGED <<seen, stopClass, fenceRead>>
           /\ \A j \in Intents : Settles(records[j], records'[j])
  BY <1>3 DEF Evolves
<1> QED BY <1>1, <1>2, <1>3, RecordSteps

\* Initially nothing is recorded, and no worker serves a request.
LEMMA CommitInvInit == Init => CommitInv
<1> SUFFICES ASSUME Init PROVE CommitInv
  OBVIOUS
<1>1. \A p \in Paths : /\ pathVersions[p] \in {0, 1} /\ version \in {0, 1}
                       /\ pathVersions[p] = IF context[p] = Missing THEN 0 ELSE 1
                       /\ context[p] # Missing => version = 1
  BY DEF Init, StoreInit
<1>2. VersionsBound
  BY <1>1 DEF VersionsBound
<1>3. \A w \in Workers : worker[w].pc = "idle" /\ worker[w].snapshot = EmptySnapshot
  BY DEF Init, Free
<1>4. \A i \in Intents : records[i].state = "ABSENT"
  BY DEF Init, RuntimeInit, Absent
<1>5. Follows(EmptySnapshot)
  BY <1>2, ServerTypeInit, SnapshotType, SnapshotFollows
<1> QED BY <1>2, <1>3, <1>4, <1>5 DEF CommitInv, Handling, At

\* Worker w has begun a commit, or is about to call the script as before.
CommitTurn(w) ==
  LET i == worker'[w].id IN
  \/ worker'[w] = worker[w]
  \/ /\ records[i].state = "AUTHORIZED" /\ UNCHANGED <<runtimeVars, fenceRead>>
     /\ worker'[w].reads = RecordedReadSet(i)
     /\ worker'[w].expected = records[i].readSetVersion

\* An authorization stands after the step.
LEMMA AuthorizedStands ==
  ASSUME Snapshot \in Documents, VersionsBound, Updates, NEW i \in Intents, Evolves(i),
         records'[i].readSetVersion \in Versions,
         Authorizes(records[i], i, i \in fenceRead),
         records'[i].state = "AUTHORIZED", records'[i].class = "other"
  PROVE  StandsNext(i, i \in fenceRead', records'[i].readSetVersion)
<1>1. Stands(i, i \in fenceRead', records'[i].readSetVersion)
  <2>1. CASE Settles(records[i], records'[i]) /\ (i \in fenceRead' <=> i \in fenceRead)
    <3>1. records'[i] = records[i]
      BY <2>1 DEF Settles
    <3>2. Stands(i, i \in fenceRead, records[i].readSetVersion)
      BY <3>1 DEF Authorizes
    <3> QED BY <2>1, <3>1, <3>2
  <2>2. CASE Authorizes(records'[i], i, i \in fenceRead')
    BY <2>2 DEF Authorizes
  <2> QED BY <2>1, <2>2 DEF Evolves
<1> DEFINE fence == i \in fenceRead'
<1>2. fence \in BOOLEAN
  OBVIOUS
<1>3. Stands(i, fence, records'[i].readSetVersion)
  BY <1>1
<1> HIDE DEF fence
<1>4. StandsNext(i, fence, records'[i].readSetVersion)
  BY <1>2, <1>3, StandsStep
<1> QED BY <1>4 DEF fence

\* Committing(w) in the new state.
CommittingNext(w) ==
  LET i == worker'[w].id
      fence == i \in fenceRead'
  IN /\ records'[i].state \notin ValidatableStates \cup {"ABSENT"}
     /\ records'[i].class = "other" => /\ worker'[w].reads = ReadSet(i, fence)
                                       /\ StandsNext(i, fence, worker'[w].expected)

\* What the commit handler took from the record stays what was validated.
LEMMA CommittingStays ==
  ASSUME Snapshot \in Documents, VersionsBound, Updates, NEW w \in Workers,
         worker'[w].id \in Intents, worker'[w].expected \in Versions,
         Evolves(worker'[w].id), CommitTurn(w),
         worker'[w] = worker[w] => Committing(w),
         Authorizes(records[worker'[w].id], worker'[w].id, worker'[w].id \in fenceRead)
  PROVE  CommittingNext(w)
<1> DEFINE i == worker'[w].id
           fence == i \in fenceRead'
<1>0. i \in Intents
  OBVIOUS
<1>1. ASSUME worker'[w] = worker[w]
      PROVE  /\ records'[i].state \notin ValidatableStates \cup {"ABSENT"}
             /\ records'[i].class = "other" => /\ worker'[w].reads = ReadSet(i, fence)
                                               /\ Stands(i, fence, worker'[w].expected)
  <2>1. worker[w].id = i /\ Committing(w)
    BY <1>1
  <2>2. /\ records[i].state \notin ValidatableStates \cup {"ABSENT"}
        /\ Settles(records[i], records'[i]) /\ (fence <=> i \in fenceRead)
    BY <2>1 DEF Committing, Evolves
  <2>3. /\ records'[i].state \notin ValidatableStates \cup {"ABSENT"}
        /\ records'[i].class = records[i].class
    BY <2>2 DEF Settles, ValidatableStates
  <2>4. records[i].class = "other" => /\ worker[w].reads = ReadSet(i, fence)
                                      /\ Stands(i, fence, worker[w].expected)
    BY <2>1, <2>2 DEF Committing
  <2> HIDE DEF fence
  <2> QED BY <1>1, <2>3, <2>4
<1>2. ASSUME records[i].state = "AUTHORIZED", UNCHANGED <<runtimeVars, fenceRead>>,
             worker'[w].reads = RecordedReadSet(i),
             worker'[w].expected = records[i].readSetVersion
      PROVE  /\ records'[i].state \notin ValidatableStates \cup {"ABSENT"}
             /\ records'[i].class = "other" => /\ worker'[w].reads = ReadSet(i, fence)
                                               /\ Stands(i, fence, worker'[w].expected)
  <2>1. records' = records /\ fenceRead' = fenceRead
    BY <1>2 DEF runtimeVars
  <2>2. records[i].class = "other" => Stands(i, fence, records[i].readSetVersion)
    BY <1>2, <2>1 DEF Authorizes
  <2>3. records[i].class = "other" => RecordedReadSet(i) = ReadSet(i, fence)
    BY <2>1 DEF RecordedReadSet
  <2>4. records[i].state \notin ValidatableStates \cup {"ABSENT"}
    BY <1>2 DEF ValidatableStates
  <2> HIDE DEF fence
  <2> QED BY <1>2, <2>1, <2>2, <2>3, <2>4
<1>3. /\ records'[i].state \notin ValidatableStates \cup {"ABSENT"}
      /\ records'[i].class = "other" => /\ worker'[w].reads = ReadSet(i, fence)
                                        /\ Stands(i, fence, worker'[w].expected)
  <2> HIDE DEF fence
  <2> QED BY <1>1, <1>2 DEF CommitTurn
<1>4. fence \in BOOLEAN
  OBVIOUS
<1> HIDE DEF fence
<1>5. /\ records'[i].state \notin ValidatableStates \cup {"ABSENT"}
      /\ records'[i].class = "other" => /\ worker'[w].reads = ReadSet(i, fence)
                                        /\ StandsNext(i, fence, worker'[w].expected)
  BY <1>0, <1>3, <1>4, StandsStep
<1> QED BY <1>5 DEF fence, CommittingNext

\* Every step keeps CommitInv, conjunct by conjunct.
LEMMA CommitInvStep == ServerTypeOK /\ CommitInv /\ [Next]_vars => CommitInv'
<1> SUFFICES ASSUME ServerTypeOK, CommitInv, [Next]_vars PROVE CommitInv'
  OBVIOUS
<1>0. /\ ServerTypeOK' /\ VersionsBound'
      /\ \A w \in Workers : worker[w].id \in Intents /\ worker[w].snapshot \in Documents
                            /\ worker[w].expected \in Versions
      /\ \A i \in Intents : records[i].readSetVersion \in Versions
                            /\ records'[i].readSetVersion \in Versions
  BY ServerTypeStep, DocumentUpdates, VersionsStep
     DEF ServerTypeOK, RuntimeTypeOK, Service, Record, CommitInv
<1>1. \A w \in Workers : FollowsNext(worker'[w].snapshot)
  <2>1. ASSUME NEW w \in Workers
        PROVE  FollowsNext(worker[w].snapshot) /\ FollowsNext(Snapshot) /\ FollowsNext(EmptySnapshot)
    BY <1>0, DocumentUpdates, FollowsStep, SnapshotFollows, FreeTypes DEF CommitInv
  <2> QED BY <2>1, WorkerTurns
<1>2. CASE Restart
  <2>1. /\ \A w \in Workers : worker'[w].pc = "idle"
        /\ \A i \in Intents : records'[i].state = "ABSENT"
    BY <1>2 DEF Restart, RuntimeRestart, Free, Absent
  <2> QED BY <1>0, <1>1, <2>1 DEF CommitInv, Follows, FollowsNext, Handling, At
<1>3. CASE ~Restart
  <2>1. /\ stopClass' = stopClass
        /\ \A i \in Intents : Evolves(i)
    BY <1>3, RecordEvolves
  <2>2. ASSUME NEW i \in Intents, records[i].state # "ABSENT"
        PROVE  records'[i].state # "ABSENT"
    BY <2>1, <2>2 DEF Evolves, Settles
  <2>3. \A i \in Intents : records'[i].state # "ABSENT" => i \in Range(seen')
    BY <2>1 DEF Evolves, Settles, CommitInv
  <2>4. \A w \in Workers : Handling(w)' => records'[worker'[w].id].state # "ABSENT"
    <3> SUFFICES ASSUME NEW w \in Workers, Handling(w)' PROVE records'[worker'[w].id].state # "ABSENT"
      OBVIOUS
    <3>1. ASSUME NEW i \in Intents, SubmitAdmit(w, i) PROVE records'[i].state # "ABSENT"
      <4>1. Created(i).state = "CREATED" /\ records \in [Intents -> Record]
        BY DEF Created, Absent, ServerTypeOK, RuntimeTypeOK
      <4> QED BY <3>1, <4>1, AdmitSteps
    <3>2. CASE worker'[w] = worker[w]
      BY <1>0, <2>2, <3>2 DEF CommitInv, Handling
    <3>3. CASE Handling(w) /\ worker'[w].id = worker[w].id
      BY <1>0, <2>2, <3>3 DEF CommitInv
    <3>4. ASSUME NEW i \in Intents, UNCHANGED <<runtimeVars, fenceRead>>, records[i].state = "AUTHORIZED"
          PROVE  records'[i].state # "ABSENT"
      BY <2>2, <3>4
    <3> QED BY <3>1, <3>2, <3>3, <3>4, WorkerTurns DEF Turns, Handling
  <2>5. \A w \in Workers : worker'[w].pc = "stop_process" => worker'[w].id \in stopClass'
    <3>1. ASSUME NEW w \in Workers, worker'[w].pc = "stop_process"
          PROVE  worker'[w].id \in stopClass
      BY <3>1, WorkerTurns DEF Turns, PostPoints, CommitInv, At
    <3> QED BY <2>1, <3>1
  <2>6. ASSUME NEW i \in Intents, records'[i].state = "AUTHORIZED", records'[i].class = "other"
        PROVE  StandsNext(i, i \in fenceRead', records'[i].readSetVersion)
    <3>1. Authorizes(records[i], i, i \in fenceRead)
      BY DEF CommitInv, Authorizes
    <3> QED BY <1>0, <2>1, <2>6, <3>1, DocumentUpdates, AuthorizedStands DEF CommitInv
  <2>7. ASSUME NEW w \in Workers, worker'[w].pc = "commit" PROVE CommittingNext(w)
    <3> DEFINE i == worker'[w].id
    <3>1. i \in Intents /\ worker'[w].expected \in Versions
      BY <1>0 DEF ServerTypeOK, Service
    <3>2. CommitTurn(w)
      BY <2>7, WorkerTurns DEF Turns, PostPoints, CommitTurn
    <3>3. worker'[w] = worker[w] => Committing(w)
      BY <2>7 DEF CommitInv, At
    <3>4. Authorizes(records[i], i, i \in fenceRead)
      BY <3>1 DEF CommitInv, Authorizes
    <3> QED BY <2>1, <3>1, <3>2, <3>3, <3>4, DocumentUpdates, CommittingStays DEF CommitInv
  <2>8. (\A w \in Workers : Follows(worker[w].snapshot))'
    BY <1>1 DEF Follows, FollowsNext
  <2>9. (\A i \in Intents : records[i].state = "AUTHORIZED" /\ records[i].class = "other"
                              => Stands(i, i \in fenceRead, records[i].readSetVersion))'
    BY <2>6 DEF Stands, StandsNext
  <2>10. (\A w \in Workers : At(w, "commit") => Committing(w))'
    BY <2>7 DEF Committing, CommittingNext, Stands, StandsNext, At
  <2> QED BY <1>0, <2>3, <2>4, <2>5, <2>8, <2>9, <2>10 DEF CommitInv, At, Handling
<1> QED BY <1>2, <1>3

\* CommitInv, the inductive invariant, is one.
LEMMA CommitInvariant == Spec => []CommitInv
BY CommitInvInit, CommitInvStep, ServerTypeCorrect, PTL DEF Spec

\* A step that appends an authorization of intent i is a call of the commit
\* script by a worker that serves i.
LEMMA AuthIsCommit ==
  ASSUME LogShape, Logs, NEW i \in Intents, NewAuth(i)
  PROVE  \E w \in Workers : worker[w].id = i /\ Commits(w)
<1>1. ASSUME NEW e \in LogEntry, actuations' = Append(actuations, e)
      PROVE  e = [id |-> i, kind |-> "auth"]
  BY <1>1, AppendProperties, LenProperties DEF NewAuth, LogShape
<1>2. ~UNCHANGED logVars
  BY LenProperties DEF NewAuth, logVars, LogShape
<1>3. ASSUME NEW j \in Intents, NEW kind \in {"stop", "withheld"}, Notes(j, kind) PROVE FALSE
  <2>1. [id |-> j, kind |-> kind] \in LogEntry
    BY DEF LogEntry
  <2>2. [id |-> j, kind |-> kind] = [id |-> i, kind |-> "auth"]
    BY <1>1, <1>3, <2>1 DEF Notes
  <2> QED BY <2>2
<1>4. ASSUME NEW w \in Workers, Commits(w) PROVE worker[w].id = i
  <2>1. [id |-> worker[w].id, kind |-> "auth"] \in LogEntry
    BY DEF LogEntry, LogShape
  <2>2. [id |-> worker[w].id, kind |-> "auth"] = [id |-> i, kind |-> "auth"]
    BY <1>1, <1>4, <2>1 DEF Commits
  <2> QED BY <2>2
<1> QED BY <1>2, <1>3, <1>4 DEF Logs

\* The atomic commit: at the instant an authorization enters the log, the
\* predicates of its intent hold on the current context (the stop predicate
\* included if the validation read it) and the intent is young enough, for
\* any number of workers, intents, paths and updates and with all the faults.
THEOREM CommitsAreValid == Spec => CommitValid
<1> DEFINE Valid == \A i \in Intents : NewAuth(i) /\ records[i].class = "other" =>
                      /\ Satisfied(i, context, i \in fenceRead)
                      /\ Age(i) + Eps <= ReleaseBound(i)
<1>1. ServerTypeOK /\ CommitInv /\ [Next]_vars => Valid
  <2> SUFFICES ASSUME ServerTypeOK, CommitInv, [Next]_vars,
                      NEW i \in Intents, NewAuth(i), records[i].class = "other"
               PROVE  /\ Satisfied(i, context, i \in fenceRead)
                      /\ Age(i) + Eps <= ReleaseBound(i)
    OBVIOUS
  <2>1. PICK w \in Workers : worker[w].id = i /\ Commits(w)
    BY AuthIsCommit, LogSteps, ServerLogShape
  <2>2. /\ ~(Age(i) > ReleaseBound(i) - Eps)
        /\ ReadSetVersion(pathVersions, worker[w].reads) = worker[w].expected
    BY <2>1 DEF Commits, CommitStatus
  <2>3. Committing(w)
    BY <2>1 DEF Commits, CommitInv
  <2>4. Satisfied(i, context, i \in fenceRead)
    BY <2>1, <2>2, <2>3 DEF Committing, Stands
  <2>5. Age(i) \in Int /\ ReleaseBound(i) \in Int /\ Eps \in Int
    BY ServerAssumption DEF Age, ReleaseBound, ServerTypeOK, NoDeadline
  <2> QED BY <2>2, <2>4, <2>5
<1> HIDE DEF Valid
<1>2. [Next]_vars /\ ServerTypeOK /\ CommitInv => [Valid]_vars
  BY <1>1
<1>3. Spec => [][Valid]_vars
  BY <1>2, ServerTypeCorrect, CommitInvariant, PTL DEF Spec
<1> QED BY <1>3 DEF Valid, CommitValid

-----------------------------------------------------------------------------
(* Why an intent is authorized once *)

\* The committed set covers the log, so that the script's first check keeps a
\* second authorization out.
CommittedCovers ==
  \A n \in DOMAIN actuations : actuations[n].kind = "auth" => actuations[n].id \in committed

LogInv == LogUnique /\ CommittedCovers

\* Only Commits appends an authorization, of an id not committed before.
LEMMA LogInvStep ==
  ASSUME LogShape, LogInv, Logs
  PROVE  LogInv'
<1>1. CASE UNCHANGED logVars
  BY <1>1 DEF LogInv, LogUnique, CommittedCovers, logVars
<1>2. ASSUME NEW e \in LogEntry, actuations' = Append(actuations, e),
             committed \subseteq committed',
             e.kind = "auth" => e.id \notin committed /\ e.id \in committed'
      PROVE  LogInv'
  <2> DEFINE N == Len(actuations)
  <2>1. /\ N \in Nat /\ DOMAIN actuations = 1..N /\ DOMAIN actuations' = 1..(N + 1)
        /\ \A n \in 1..N : actuations'[n] = actuations[n]
        /\ actuations'[N + 1] = e
    BY <1>2, AppendProperties, LenProperties DEF LogShape
  <2> HIDE DEF N
  <2>2. \A n \in 1..(N + 1) : n \in 1..N \/ n = N + 1
    BY <2>1
  <2>3. CommittedCovers'
    BY <1>2, <2>1, <2>2 DEF LogInv, CommittedCovers
  <2>4. LogUnique'
    BY <1>2, <2>1, <2>2 DEF LogInv, LogUnique, CommittedCovers
  <2> QED BY <2>3, <2>4 DEF LogInv
<1>3. ASSUME NEW w \in Workers, Commits(w) PROVE LogInv'
  <2> DEFINE e == [id |-> worker[w].id, kind |-> "auth"]
  <2>1. e \in LogEntry
    BY DEF LogEntry, LogShape
  <2>2. worker[w].id \notin committed
    BY <1>3 DEF Commits, CommitStatus
  <2> QED BY <1>2, <1>3, <2>1, <2>2 DEF Commits
<1>4. ASSUME NEW i \in Intents, NEW kind \in {"stop", "withheld"}, Notes(i, kind) PROVE LogInv'
  <2>1. [id |-> i, kind |-> kind] \in LogEntry
    BY DEF LogEntry
  <2> QED BY <1>2, <1>4, <2>1 DEF Notes
<1> QED BY <1>1, <1>3, <1>4 DEF Logs

\* No intent is authorized twice in the log, however many commits of it race,
\* are retried after a lost reply, or follow a restart.
THEOREM AuthorizedOnce == Spec => []LogUnique
<1>1. Init => LogInv
  BY DEF Init, StoreInit, LogInv, LogUnique, CommittedCovers
<1>2. LogInv => LogUnique
  BY DEF LogInv
<1>3. ServerTypeOK /\ LogInv /\ [Next]_vars => LogInv'
  BY LogInvStep, LogSteps, ServerLogShape
<1> QED BY <1>1, <1>2, <1>3, ServerTypeCorrect, PTL DEF Spec
-----------------------------------------------------------------------------
(* Why the record, the committed set and the log agree *)

\* A committed id has its authorization in the log.
CommittedLogged == \A i \in committed : InLog(i, "auth")

\* What the commit script answered worker w is still so when w records it.
Answered(w) ==
  At(w, "record") =>
    /\ worker[w].status \in {"committed", "duplicate"} => worker[w].id \in committed
    /\ worker[w].seq # NoSeq => Logged(worker[w].id, "auth", worker[w].seq)

RecordInv ==
  /\ CommittedLogged
  /\ \A w \in Workers : Answered(w)
  /\ CommitLogged
  /\ TombstoneFollows

\* Record r becomes q without being committed or given another log position.
Unmarked(r, q) ==
  /\ q.state = "COMMITTED" => r.state = "COMMITTED"
  /\ q.commitSeq \in {NoSeq, r.commitSeq}

\* Worker w records the answer of the commit script.
Marks(w) ==
  /\ At(w, "record")
  /\ \A j \in Intents : \/ Unmarked(records[j], records'[j])
                        \/ /\ j = worker[w].id
                           /\ worker[w].status \in {"committed", "duplicate"}
                           /\ records'[j].commitSeq = worker[w].seq

\* Only the worker that has the script's answer marks a record as committed.
MarksOnce ==
  \/ \A j \in Intents : Unmarked(records[j], records'[j])
  \/ \E w \in Workers : Marks(w)

\* What the runtime's methods other than record_commit make of a record does not
\* commit it.
LEMMA UnmarkedItems ==
  ASSUME NEW i \in Intents, records[i] \in Record, NEW outcome, NEW c
  PROVE  /\ Unmarked(records[i], Withheld(records[i]))
         /\ Unmarked(records[i], Revoked(records[i]))
         /\ Unmarked(records[i], AuthorizeStop(records[i]))
         /\ Unmarked(records[i], RevokeStale(records[i]))
         /\ Unmarked(records[i], Created(i))
         /\ Unmarked(records[i], AuthorizeStop(Created(i)))
         /\ Unmarked(records[i], RevokeStale(Created(i)))
         /\ Unmarked(records[i], Validated(records[i], outcome, c))
         /\ Unmarked(records[i], Validated(Created(i), outcome, c))
<1>1. /\ Unmarked(records[i], Withheld(records[i]))
      /\ Unmarked(records[i], Revoked(records[i]))
      /\ Unmarked(records[i], AuthorizeStop(records[i]))
      /\ Unmarked(records[i], RevokeStale(records[i]))
      /\ Unmarked(records[i], Created(i))
      /\ Unmarked(records[i], AuthorizeStop(Created(i)))
      /\ Unmarked(records[i], RevokeStale(Created(i)))
  BY DEF Unmarked, Withheld, Revoked, AuthorizeStop, RevokeStale, Created, Absent, Record
<1>2. StateAfter(outcome, c) # "COMMITTED"
  BY DEF StateAfter
<1>3. /\ Unmarked(records[i], Validated(records[i], outcome, c))
      /\ Unmarked(records[i], Validated(Created(i), outcome, c))
  BY <1>2 DEF Unmarked, Validated, Created, Absent, Record
<1> QED BY <1>1, <1>3

\* The methods the single and the batch endpoint share, and the recording of
\* the script's answer.
LEMMA MethodMarks ==
  ASSUME records \in [Intents -> Record]
  PROVE  /\ UNCHANGED records => MarksOnce
         /\ \A i \in Intents : /\ LifecycleRevoke(i) \/ SupervisoryRevoke(i) => MarksOnce
                               /\ \A c : ProcessIntent(i, c) => MarksOnce
                               /\ records' = [records EXCEPT ![i] = Created(i)] => MarksOnce
                               /\ \A w \in Workers : CommitStart(w, i) => MarksOnce
         /\ \A w \in Workers : worker[w].id \in Intents /\ CommitRecord(w) => MarksOnce
<1> DEFINE Quiet == \A j \in Intents : Unmarked(records[j], records'[j])
<1>1. UNCHANGED records => Quiet
  BY DEF Unmarked
<1>2. ASSUME NEW i \in Intents, NEW q, records' = [records EXCEPT ![i] = q],
             Unmarked(records[i], q)
      PROVE  Quiet
  BY <1>2 DEF Unmarked
<1> HIDE DEF Quiet
<1>3. ASSUME NEW i \in Intents PROVE records[i] \in Record
  BY <1>3
<1>6. ASSUME NEW i \in Intents, LifecycleRevoke(i) \/ SupervisoryRevoke(i) PROVE Quiet
  <2>1. \/ UNCHANGED records
        \/ records' = [records EXCEPT ![i] = Revoked(records[i])]
    BY <1>6 DEF LifecycleRevoke, SupervisoryRevoke
  <2> QED BY <1>1, <1>2, <1>3, <2>1, UnmarkedItems
<1>9. ASSUME NEW i \in Intents, NEW c, ProcessIntent(i, c) PROVE Quiet
  <2> DEFINE r == IF records[i].state = "ABSENT" THEN Created(i) ELSE records[i]
  <2>1. \/ UNCHANGED records
        \/ records' = [records EXCEPT ![i] = AuthorizeStop(r)]
        \/ records' = [records EXCEPT ![i] = RevokeStale(r)]
        \/ \E outcome : records' = [records EXCEPT ![i] = Validated(r, outcome, c)]
    BY <1>9 DEF ProcessIntent
  <2>2. r = records[i] \/ r = Created(i)
    OBVIOUS
  <2> HIDE DEF r
  <2>3. CASE r = records[i]
    BY <1>1, <1>2, <1>3, <2>1, <2>3, UnmarkedItems
  <2>4. CASE r = Created(i)
    BY <1>1, <1>2, <1>3, <2>1, <2>4, UnmarkedItems
  <2> QED BY <2>2, <2>3, <2>4
<1>10. ASSUME NEW i \in Intents, records' = [records EXCEPT ![i] = Created(i)] PROVE Quiet
  BY <1>2, <1>3, <1>10, UnmarkedItems
<1>11. ASSUME NEW w \in Workers, NEW i \in Intents, CommitStart(w, i) PROVE Quiet
  <2>1. UNCHANGED records \/ records' = [records EXCEPT ![i] = Withheld(records[i])]
    BY <1>11 DEF CommitStart, RecordCommit, runtimeVars
  <2> QED BY <1>1, <1>2, <1>3, <2>1, UnmarkedItems
<1>13. ASSUME NEW w \in Workers, worker[w].id \in Intents, CommitRecord(w) PROVE Marks(w)
  <2> DEFINE i == worker[w].id
             ok == worker[w].status \in {"committed", "duplicate"}
  <2>1. /\ At(w, "record") /\ i \in Intents
        /\ \/ UNCHANGED records
           \/ ok /\ records' = [records EXCEPT ![i] = Committed(records[i], worker[w].seq)]
           \/ records' = [records EXCEPT ![i] = Withheld(records[i])]
    BY <1>13 DEF CommitRecord, RecordCommit
  <2>2. Quiet => Marks(w)
    BY <2>1 DEF Quiet, Marks
  <2>3. CASE ok /\ records' = [records EXCEPT ![i] = Committed(records[i], worker[w].seq)]
    <3>1. records[i] \in Record
      BY <1>3, <2>1
    <3>2. Committed(records[i], worker[w].seq).commitSeq = worker[w].seq
      BY <3>1 DEF Committed, Record
    <3>3. \A j \in Intents \ {i} : Unmarked(records[j], records'[j])
      BY <2>3 DEF Unmarked
    <3> QED BY <2>1, <2>3, <3>2, <3>3 DEF Marks
  <2> QED BY <1>1, <1>2, <1>3, <2>1, <2>2, <2>3, UnmarkedItems
<1>14. Quiet => MarksOnce
  BY DEF Quiet, MarksOnce
<1>15. \A w \in Workers : Marks(w) => MarksOnce
  BY DEF MarksOnce
<1> QED BY <1>1, <1>6, <1>9, <1>10, <1>11, <1>13, <1>14, <1>15

\* So it is in every step of the server.
LEMMA CommitMarks ==
  ASSUME ServerTypeOK, [Next]_vars
  PROVE  MarksOnce
<1>0. /\ records \in [Intents -> Record] /\ \A i \in Intents : records[i] \in Record
      /\ \A w \in Workers : worker[w].id \in Intents
  BY DEF ServerTypeOK, RuntimeTypeOK, Service
<1>1. ASSUME NEW i \in Intents, NEW q, records' = [records EXCEPT ![i] = q],
             Unmarked(records[i], q)
      PROVE  MarksOnce
  BY <1>0, <1>1 DEF Unmarked, MarksOnce
<1>2. ASSUME NEW i \in Intents, NEW released, NEW scope, NEW v, ReportRelease(i, released, scope, v)
      PROVE  MarksOnce
  <2>1. \/ UNCHANGED records
        \/ records' = [records EXCEPT ![i] = Released(records[i])]
        \/ records' = [records EXCEPT ![i] = Withheld(records[i])]
    BY <1>2 DEF ReportRelease
  <2>2. /\ Unmarked(records[i], Released(records[i]))
        /\ Unmarked(records[i], Withheld(records[i]))
    BY <1>0 DEF Unmarked, Released, Withheld, Record
  <2> QED BY <1>0, <1>1, <2>1, <2>2, MethodMarks
<1>3. ASSUME NEW i \in Intents, NEW status, ReportEffect(i, status) PROVE MarksOnce
  <2>1. \/ UNCHANGED records
        \/ records' = [records EXCEPT ![i] = Effected(records[i], status)]
    BY <1>3 DEF ReportEffect
  <2>2. EffectState(status) # "COMMITTED"
    BY DEF EffectState
  <2>3. Unmarked(records[i], Effected(records[i], status))
    BY <1>0, <2>2 DEF Unmarked, Effected, Record
  <2> QED BY <1>0, <1>1, <2>1, <2>3, MethodMarks
<1>4. ASSUME NEW w \in Workers, NEW i \in Intents, SubmitAdmit(w, i) PROVE MarksOnce
  BY <1>0, <1>4, AdmitSteps, MethodMarks
<1>5. ASSUME Restart PROVE MarksOnce
  <2>1. \A j \in Intents : records'[j] = Absent
    BY <1>5 DEF Restart, RuntimeRestart
  <2> QED BY <2>1 DEF MarksOnce, Unmarked, Absent
<1>6. ASSUME NEW w \in Workers, WorkerStep(w) PROVE MarksOnce
  <2>1. CASE \/ SubmitClaim(w) \/ SubmitRegister(w)
    BY <1>0, <2>1, MethodMarks DEF SubmitClaim, SubmitRegister, runtimeVars
  <2>2. CASE \/ SubmitProcess(w) \/ StopProcess(w)
    <3>1. \E c : ProcessIntent(worker[w].id, c)
      BY <2>2 DEF SubmitProcess, StopProcess
    <3> QED BY <1>0, <3>1, MethodMarks
  <2>3. CASE \/ SubmitFence(w) \/ SubmitFenceInstall(w) \/ SubmitFenceInit(w)
             \/ SubmitInstall(w) \/ SubmitReply(w) \/ StopUpdate(w) \/ StopLog(w)
             \/ ReadBack(w) \/ InstallBack(w) \/ CommitStore(w)
    <3>1. UNCHANGED records
      BY <2>3 DEF SubmitFence, SubmitFenceInstall, SubmitFenceInit, SubmitInstall,
                  SubmitReply, StopUpdate, StopLog, ReadBack, InstallBack, CommitStore,
                  InstallSnapshot, runtimeVars
    <3> QED BY <1>0, <3>1, MethodMarks
  <2>4. CASE ReleaseEffect(w)
    BY <1>0, <1>3, <2>4 DEF ReleaseEffect
  <2>5. CASE CommitRecord(w)
    BY <1>0, <2>5, MethodMarks
  <2> QED BY <1>6, <2>1, <2>2, <2>3, <2>4, <2>5 DEF WorkerStep
<1>7. ASSUME NEW w \in Workers, Request(w) PROVE MarksOnce
  <2>1. ASSUME GetSnapshot(w) \/ \E p, v : PostUpdate(w, p, v) PROVE MarksOnce
    <3>1. UNCHANGED records
      BY <2>1 DEF PostUpdate, GetSnapshot, runtimeVars
    <3> QED BY <1>0, <3>1, MethodMarks
  <2>2. ASSUME NEW i \in Intents, NEW released, NEW scope, NEW v, NEW effect,
               ReleaseRequest(w, i, released, scope, v, effect)
        PROVE  MarksOnce
    BY <1>2, <2>2 DEF ReleaseRequest
  <2>3. ASSUME NEW i \in Intents, CommitStart(w, i) PROVE MarksOnce
    BY <1>0, <2>3, MethodMarks
  <2> QED BY <1>4, <1>7, <2>1, <2>2, <2>3 DEF Request
<1>8. ASSUME NEW i \in Intents, \/ WithheldRequest(i) \/ RevokeRequest(i)
                                \/ \E status : EffectRequest(i, status)
       PROVE  MarksOnce
  BY <1>0, <1>2, <1>3, <1>8, MethodMarks
     DEF WithheldRequest, RevokeRequest, EffectRequest, runtimeVars
<1>9. ASSUME Tick \/ Outage \/ UNCHANGED vars PROVE MarksOnce
  BY <1>0, <1>9, MethodMarks DEF Tick, Outage, vars, runtimeVars
<1> QED BY <1>5, <1>6, <1>7, <1>8, <1>9 DEF Next

\* Log entry n names intent i after the step.
LoggedNext(i, kind, n) ==
  n \in DOMAIN actuations' /\ actuations'[n] = [id |-> i, kind |-> kind]

\* An entry that is appended keeps the others in place.
LEMMA LogAppends ==
  ASSUME actuations \in Seq(LogEntry), NEW e \in LogEntry, actuations' = Append(actuations, e)
  PROVE  /\ Len(actuations) \in Nat
         /\ DOMAIN actuations = 1..Len(actuations)
         /\ DOMAIN actuations' = 1..(Len(actuations) + 1)
         /\ \A n \in 1..Len(actuations) : actuations'[n] = actuations[n]
         /\ actuations'[Len(actuations) + 1] = e
BY AppendProperties, LenProperties

\* No step takes an entry from the log, nor an id from the committed set.
LEMMA LogGrows ==
  ASSUME LogShape, Logs
  PROVE  /\ committed \subseteq committed'
         /\ \A i, kind, n : Logged(i, kind, n) => LoggedNext(i, kind, n)
<1>1. CASE UNCHANGED logVars
  BY <1>1 DEF logVars, Logged, LoggedNext
<1>2. ASSUME NEW e \in LogEntry, actuations' = Append(actuations, e)
      PROVE  \A i, kind, n : Logged(i, kind, n) => LoggedNext(i, kind, n)
  <2>1. \A n \in 1..Len(actuations) : n \in 1..(Len(actuations) + 1)
    BY <1>2, LogAppends DEF LogShape
  <2> QED BY <1>2, <2>1, LogAppends DEF LogShape, Logged, LoggedNext
<1>3. ASSUME NEW w \in Workers, Commits(w)
      PROVE  /\ committed \subseteq committed'
             /\ \A i, kind, n : Logged(i, kind, n) => LoggedNext(i, kind, n)
  <2>1. [id |-> worker[w].id, kind |-> "auth"] \in LogEntry
    BY DEF LogEntry, LogShape
  <2> QED BY <1>2, <1>3, <2>1 DEF Commits
<1>4. ASSUME NEW j \in Intents, NEW k \in {"stop", "withheld"}, Notes(j, k)
      PROVE  /\ committed \subseteq committed'
             /\ \A i, kind, n : Logged(i, kind, n) => LoggedNext(i, kind, n)
  <2>1. [id |-> j, kind |-> k] \in LogEntry
    BY DEF LogEntry
  <2> QED BY <1>2, <1>4, <2>1 DEF Notes
<1> QED BY <1>1, <1>3, <1>4 DEF Logs

\* What the script answers worker w is true when it answers.
AnsweredNext(w) ==
  /\ worker'[w].status \in {"committed", "duplicate"} => worker'[w].id \in committed'
  /\ worker'[w].seq # NoSeq => LoggedNext(worker'[w].id, "auth", worker'[w].seq)

\* A worker reaches the point where it records an answer by the script alone.
AnswersTo(w) ==
  \/ worker'[w] = worker[w]
  \/ worker'[w].pc # "record"
  \/ AnsweredNext(w)

\* The script's answer is true.
LEMMA ScriptAnswers ==
  ASSUME LogShape, NEW u \in Workers, NEW w \in Workers, CommitStore(u)
  PROVE  AnswersTo(w)
<1> DEFINE i == worker[u].id
           status == CommitStatus(i, worker[u].reads, worker[u].expected, Age(i),
                                  ReleaseBound(i) - Eps, Eps)
           s(st, q) == [Free EXCEPT !.pc = "record", !.id = i, !.status = st, !.seq = q]
<1>0. i \in Intents
  BY DEF LogShape
<1>1. PICK st, q : /\ worker' = [worker EXCEPT ![u] = s(st, q)]
                   /\ \/ st = "unavailable" /\ q = NoSeq
                      \/ /\ st = status /\ Commit(i, status)
                         /\ q = IF status = "committed" THEN Len(actuations) + 1 ELSE NoSeq
  BY DEF CommitStore
<1>2. /\ s(st, q).status = st /\ s(st, q).seq = q /\ s(st, q).id = i
  BY DEF Free
<1> HIDE DEF s
<1>3. ASSUME st \in {"committed", "duplicate"} PROVE i \in committed'
  <2>1. st = status /\ Commit(i, status)
    BY <1>1, <1>3
  <2>2. status = "duplicate" => i \in committed
    BY DEF CommitStatus
  <2> HIDE DEF status
  <2> QED BY <1>3, <2>1, <2>2 DEF Commit, logVars
<1>4. ASSUME q # NoSeq PROVE LoggedNext(i, "auth", q)
  <2>1. Commit(i, "committed") /\ q = Len(actuations) + 1
    BY <1>1, <1>4
  <2>2. [id |-> i, kind |-> "auth"] \in LogEntry
    BY <1>0 DEF LogEntry
  <2>3. actuations' = Append(actuations, [id |-> i, kind |-> "auth"])
    BY <2>1 DEF Commit
  <2>4. Len(actuations) + 1 \in 1..(Len(actuations) + 1)
    BY LenProperties DEF LogShape
  <2> QED BY <2>1, <2>2, <2>3, <2>4, LogAppends DEF LogShape, LoggedNext
<1>5. CASE u = w
  <2>1. worker'[w] = s(st, q)
    BY <1>1, <1>5 DEF LogShape
  <2> QED BY <1>2, <1>3, <1>4, <2>1 DEF AnsweredNext, AnswersTo
<1>6. CASE u # w
  BY <1>1, <1>6 DEF LogShape, AnswersTo
<1> QED BY <1>5, <1>6

LEMMA AnswerTurns ==
  ASSUME ServerTypeOK, [Next]_vars, NEW w \in Workers
  PROVE  AnswersTo(w)
<1> DEFINE Goal == AnswersTo(w)
<1>0. worker \in [Workers -> Service] /\ worker[w] \in Service
  BY DEF ServerTypeOK
<1>1. ASSUME UNCHANGED worker PROVE Goal
  BY <1>1 DEF AnswersTo
<1>2. ASSUME Restart PROVE Goal
  BY <1>2 DEF Restart, Free, AnswersTo
<1>3. ASSUME NEW u \in Workers, Done(u) PROVE Goal
  BY <1>0, <1>3 DEF Done, Free, AnswersTo
<1>4. ASSUME NEW u \in Workers, NEW pc \in LaterPoints, Proceeds(u, pc) PROVE Goal
  <2>1. pc # "record"
    BY DEF LaterPoints
  <2>2. CASE u = w
    <3>1. CASE Goto(u, pc)
      BY <1>0, <2>1, <2>2, <3>1 DEF Goto, Free, AnswersTo
    <3>2. CASE Keep(u, pc) \/ Take(u, pc)
      <4>1. worker'[w].pc = pc
        BY <1>0, <2>2, <3>2 DEF Keep, Take, Service
      <4> QED BY <2>1, <4>1 DEF AnswersTo
    <3> QED BY <1>4, <3>1, <3>2 DEF Proceeds
  <2>3. CASE u # w
    BY <1>0, <1>4, <2>3 DEF Proceeds, Goto, Keep, Take, AnswersTo
  <2> QED BY <2>2, <2>3
<1>5. ASSUME NEW u \in Workers, NEW i \in Intents, Begins(u, i) PROVE Goal
  <2>1. \/ UNCHANGED worker
        \/ \E s \in Service : worker' = [worker EXCEPT ![u] = s] /\ s.pc # "record"
    <3>1. worker[u] \in Service
      BY <1>0
    <3>2. CASE SubmitAdmit(u, i)
      <4> DEFINE pc == CASE i \in stopClass -> "stop_process"
                         [] i \notin stopClass /\ IsDuplicate(i, 0) /\ records[i].state = "DELAYED" -> "fence"
                         [] OTHER -> "claim"
      <4>1. pc \in Requests /\ pc # "record"
        BY DEF Requests
      <4>2. \/ UNCHANGED worker
            \/ worker' = [worker EXCEPT ![u].pc = pc, ![u].id = i]
        BY <3>2 DEF SubmitAdmit
      <4> HIDE DEF pc
      <4>3. [worker[u] EXCEPT !.pc = pc, !.id = i] \in Service
        BY <3>1, <4>1 DEF Service
      <4>4. [worker[u] EXCEPT !.pc = pc, !.id = i].pc = pc
        BY <3>1 DEF Service
      <4> QED BY <1>0, <4>1, <4>2, <4>3, <4>4
    <3>3. CASE CommitStart(u, i)
      <4>1. RecordedReadSet(i) \in SUBSET Paths /\ records[i].readSetVersion \in Versions
        <5>1. (i \in fenceRead) \in BOOLEAN /\ records[i].readSetVersion \in Versions
          BY DEF ServerTypeOK, RuntimeTypeOK, Record
        <5>2. ReadSet(i, i \in fenceRead) \in SUBSET Paths
          BY <5>1, ReadSetPaths
        <5> QED BY <5>1, <5>2 DEF RecordedReadSet
      <4> DEFINE s == [worker[u] EXCEPT !.pc = "commit", !.id = i, !.reads = RecordedReadSet(i),
                                        !.expected = records[i].readSetVersion]
      <4>2. s \in Service /\ s.pc = "commit"
        BY <3>1, <4>1 DEF Service, Requests
      <4>3. UNCHANGED worker \/ worker' = [worker EXCEPT ![u] = s]
        BY <1>0, <3>3 DEF CommitStart
      <4> QED BY <4>2, <4>3
    <3>4. ASSUME NEW effect \in Effects \cup {"NONE"}, NEW released, NEW scope, NEW v,
                 ReleaseRequest(u, i, released, scope, v, effect)
          PROVE  \/ UNCHANGED worker
                 \/ \E s \in Service : worker' = [worker EXCEPT ![u] = s] /\ s.pc # "record"
      <4> DEFINE s == [worker[u] EXCEPT !.pc = "effect", !.id = i, !.effect = effect]
      <4>1. s \in Service /\ s.pc = "effect"
        BY <3>1 DEF Service, Requests
      <4>2. UNCHANGED worker \/ worker' = [worker EXCEPT ![u] = s]
        BY <1>0, <3>4 DEF ReleaseRequest
      <4> QED BY <4>1, <4>2
    <3> QED BY <1>5, <3>2, <3>3, <3>4 DEF Begins
  <2> QED BY <1>0, <2>1 DEF AnswersTo
<1>6. ASSUME NEW u \in Workers, CommitStore(u) PROVE Goal
  BY <1>6, ScriptAnswers, ServerLogShape
<1> HIDE DEF Goal
<1>7. Goal
  BY <1>1, <1>2, <1>3, <1>4, <1>5, <1>6, WorkerSteps
<1> QED BY <1>7 DEF Goal

\* Initially nothing is recorded or logged.
LEMMA RecordInvInit == Init => RecordInv
<1> SUFFICES ASSUME Init PROVE RecordInv
  OBVIOUS
<1>1. CommittedLogged /\ TombstoneFollows
  BY DEF Init, StoreInit, CommittedLogged, TombstoneFollows
<1>2. \A w \in Workers : Answered(w)
  BY DEF Init, Answered, At, Free
<1>3. CommitLogged
  BY DEF Init, RuntimeInit, Absent, CommitLogged
<1> QED BY <1>1, <1>2, <1>3 DEF RecordInv

\* Each part rests on the others: the script's answer on the log, the record on
\* the answer, and the tombstone on the record.
LEMMA RecordInvStep ==
  ASSUME LogShape, RecordInv, Logs, MarksOnce, \A w \in Workers : AnswersTo(w)
  PROVE  RecordInv'
<1>0. /\ CommittedLogged /\ CommitLogged /\ TombstoneFollows
      /\ \A w \in Workers : Answered(w)
  BY DEF RecordInv
<1>1. \A i : InLog(i, "auth") => InLog(i, "auth")'
  BY LogGrows DEF InLog, Logged, LoggedNext
<1>2. \A i, n : Logged(i, "auth", n) => Logged(i, "auth", n)'
  BY LogGrows DEF Logged, LoggedNext
<1>3. CommittedLogged'
  <2>1. CASE UNCHANGED committed
    BY <1>0, <1>1, <2>1 DEF CommittedLogged
  <2>2. ASSUME NEW w \in Workers, Commits(w) PROVE CommittedLogged'
    <3>0. PICK i \in Intents : i = worker[w].id
      BY DEF LogShape
    <3>1. [id |-> i, kind |-> "auth"] \in LogEntry
      BY DEF LogEntry
    <3>2. Len(actuations) + 1 \in 1..(Len(actuations) + 1)
      BY LenProperties DEF LogShape
    <3>3. InLog(i, "auth")'
      BY <2>2, <3>0, <3>1, <3>2, LogAppends DEF LogShape, Commits, InLog, Logged
    <3>4. committed' = committed \cup {i}
      BY <2>2, <3>0 DEF Commits
    <3> QED BY <1>0, <1>1, <3>3, <3>4 DEF CommittedLogged
  <2> QED BY <2>1, <2>2 DEF Logs, Notes, logVars
<1>4. ASSUME NEW w \in Workers PROVE Answered(w)'
  <2>1. CASE worker'[w] = worker[w]
    <3>1. worker[w].id \in committed => worker[w].id \in committed'
      BY LogGrows
    <3> QED BY <1>0, <1>2, <2>1, <3>1 DEF Answered, At, Logged
  <2>2. CASE worker'[w].pc # "record"
    BY <2>2 DEF Answered, At
  <2>3. CASE AnsweredNext(w)
    BY <2>3 DEF AnsweredNext, Answered, LoggedNext, Logged
  <2> QED BY <2>1, <2>2, <2>3 DEF AnswersTo
<1>5. CommitLogged'
  <2> SUFFICES ASSUME NEW i \in Intents
               PROVE  /\ records'[i].state = "COMMITTED" => InLog(i, "auth")'
                      /\ records'[i].commitSeq # NoSeq => LoggedNext(i, "auth", records'[i].commitSeq)
    BY DEF CommitLogged, Logged, LoggedNext
  <2>1. CASE Unmarked(records[i], records'[i])
    BY <1>0, <1>1, <2>1, LogGrows DEF Unmarked, CommitLogged
  <2>2. ASSUME NEW w \in Workers, Marks(w), ~Unmarked(records[i], records'[i])
        PROVE  /\ InLog(i, "auth")'
               /\ records'[i].commitSeq # NoSeq => LoggedNext(i, "auth", records'[i].commitSeq)
    <3>1. /\ i = worker[w].id /\ At(w, "record")
          /\ worker[w].status \in {"committed", "duplicate"}
          /\ records'[i].commitSeq = worker[w].seq
      BY <2>2 DEF Marks
    <3>2. i \in committed /\ (worker[w].seq # NoSeq => Logged(i, "auth", worker[w].seq))
      BY <1>0, <3>1 DEF Answered
    <3> QED BY <1>0, <1>1, <3>1, <3>2, LogGrows DEF CommittedLogged
  <2> QED BY <2>1, <2>2 DEF MarksOnce
<1>6. TombstoneFollows'
  <2>1. CASE UNCHANGED logVars
    BY <1>0, <2>1 DEF TombstoneFollows, Logged, logVars
  <2>2. ASSUME NEW e \in LogEntry, actuations' = Append(actuations, e),
               e.kind = "withheld" => InLog(e.id, "auth")
        PROVE  TombstoneFollows'
    <3> DEFINE N == Len(actuations)
    <3>1. /\ N \in Nat /\ DOMAIN actuations = 1..N /\ DOMAIN actuations' = 1..(N + 1)
          /\ \A n \in 1..N : actuations'[n] = actuations[n]
          /\ actuations'[N + 1] = e
      BY <2>2, LogAppends DEF LogShape
    <3> HIDE DEF N
    <3>2. \A n \in 1..(N + 1) : n \in 1..N \/ n = N + 1
      BY <3>1
    <3>3. ASSUME NEW n \in 1..N, actuations'[n].kind = "withheld"
          PROVE  \E m \in 1..(n - 1) : LoggedNext(actuations'[n].id, "auth", m)
      <4>1. actuations'[n] = actuations[n] /\ n \in DOMAIN actuations
        BY <3>1
      <4>2. PICK m \in 1..(n - 1) : Logged(actuations[n].id, "auth", m)
        BY <1>0, <3>3, <4>1 DEF TombstoneFollows
      <4> QED BY <4>1, <4>2, LogGrows
    <3>4. ASSUME e.kind = "withheld" PROVE \E m \in 1..N : LoggedNext(e.id, "auth", m)
      <4>1. PICK m \in 1..N : Logged(e.id, "auth", m)
        BY <2>2, <3>1, <3>4 DEF InLog
      <4> QED BY <4>1, LogGrows
    <3>5. (N + 1) - 1 = N
      BY <3>1
    <3>6. \A n \in 1..(N + 1) : actuations'[n].kind = "withheld"
            => \E m \in 1..(n - 1) : LoggedNext(actuations'[n].id, "auth", m)
      BY <3>1, <3>2, <3>3, <3>4, <3>5
    <3> QED BY <3>1, <3>6 DEF TombstoneFollows, LoggedNext, Logged
  <2>3. ASSUME NEW w \in Workers, Commits(w) PROVE TombstoneFollows'
    <3>1. [id |-> worker[w].id, kind |-> "auth"] \in LogEntry
      BY DEF LogEntry, LogShape
    <3> QED BY <2>2, <2>3, <3>1 DEF Commits
  <2>4. ASSUME NEW i \in Intents, NEW kind \in {"stop", "withheld"}, Notes(i, kind)
        PROVE  TombstoneFollows'
    <3>1. [id |-> i, kind |-> kind] \in LogEntry
      BY DEF LogEntry
    <3>2. kind = "withheld" => InLog(i, "auth")
      BY <1>0, <2>4 DEF Notes, CommitLogged
    <3> QED BY <2>2, <2>4, <3>1, <3>2 DEF Notes
  <2> QED BY <2>1, <2>3, <2>4 DEF Logs
<1> QED BY <1>3, <1>4, <1>5, <1>6 DEF RecordInv

LEMMA RecordInvariant == Spec => []RecordInv
<1>1. ServerTypeOK /\ RecordInv /\ [Next]_vars => RecordInv'
  BY RecordInvStep, LogSteps, ServerLogShape, CommitMarks, AnswerTurns
<1> QED BY <1>1, RecordInvInit, ServerTypeCorrect, PTL DEF Spec

\* A COMMITTED intent has its authorization in the log, at the position the
\* record names if it names one, although the answer travels through a worker
\* while other commits, tombstones, outages and restarts interleave.
THEOREM CommitsAreLogged == Spec => []CommitLogged
<1>1. RecordInv => CommitLogged
  BY DEF RecordInv
<1> QED BY <1>1, RecordInvariant, PTL

\* A tombstone never precedes the authorization it is about.
THEOREM TombstonesFollow == Spec => []TombstoneFollows
<1>1. RecordInv => TombstoneFollows
  BY DEF RecordInv
<1> QED BY <1>1, RecordInvariant, PTL
-----------------------------------------------------------------------------
(* Why a stop fences, and why a lock is covered, while the store answers *)

\* the points of a submission of an ordinary intent, and those past the fence
SubmitPoints == {"claim", "fence", "fence_install", "fence_init", "fence_read", "fence_got",
                 "register", "install", "process", "reprocess"}
FencedPoints == {"register", "install", "process", "reprocess"}

\* A stop epoch is missing or a time that has passed.
StopEpochs == \A p \in StopPaths : context[p] = Missing \/ context[p] \in 0..now

\* From its read of the snapshot to the initialization of a missing epoch, a
\* worker holds the stop lock and knows the epoch.
HoldsLock(w) ==
  /\ At(w, "fence_install") =>
       /\ stopLock = w
       /\ worker[w].snapshot.context[StopPathOf(worker[w].id)] = context[StopPathOf(worker[w].id)]
  /\ At(w, "fence_init") => stopLock = w /\ context[StopPathOf(worker[w].id)] = Missing

\* A worker that claims an id is the only one that submits it.
SoleClaim(w) ==
  At(w, "claim") =>
    /\ records[worker[w].id].state \notin {"AUTHORIZED", "DELAYED", "ABSENT"}
    /\ worker[w].id \notin stopClass
    /\ \A u \in Workers : u # w /\ worker[u].pc \in SubmitPoints => worker[u].id # worker[w].id

\* The inductive invariant behind StopFences and LockCovered.
FenceInv ==
  /\ up
  /\ StopEpochs
  /\ \A w \in Workers : HoldsLock(w)
  /\ \A w \in Workers : SoleClaim(w)
  /\ \A w \in Workers : worker[w].pc \in FencedPoints => worker[w].id \in fenced
  /\ \A i \in Intents : records[i].state = "AUTHORIZED" /\ records[i].class = "other"
                          => i \in fenceRead
  /\ \A w \in Workers : At(w, "commit") /\ records[worker[w].id].class = "other"
                          => worker[w].id \in fenceRead

\* What brings worker w to a point of a submission, the store being reachable.
Submits(w) ==
  \/ /\ worker[w].pc \in SubmitPoints
     /\ worker'[w].id = worker[w].id
     /\ worker'[w].pc # "claim"
     /\ worker'[w].pc = "fence_install" =>
          /\ stopLock' = w /\ worker'[w].snapshot = Snapshot
          /\ UNCHANGED storeVars
     /\ worker'[w].pc = "fence_init" =>
          /\ At(w, "fence_install")
          /\ worker[w].snapshot.context[StopPathOf(worker[w].id)] = Missing
          /\ UNCHANGED <<storeVars, stopLock>>
     /\ worker'[w].pc \in FencedPoints =>
          \/ worker[w].id \in fenced'
          \/ worker[w].pc \in FencedPoints /\ UNCHANGED fenced
  \/ \E i \in Intents :
       /\ SubmitAdmit(w, i)
       /\ worker'[w].id = i
       /\ \/ /\ worker'[w].pc = "claim" /\ ~IsDuplicate(i, 0) /\ i \notin stopClass
             /\ \A u \in Workers : u # w => worker'[u] = worker[u]
          \/ worker'[w].pc = "fence" /\ records[i].state = "DELAYED" /\ UNCHANGED records

\* A worker stays where it is, leaves the submission, or submits.
LEMMA SubmitTurns ==
  ASSUME ServerTypeOK, [Next]_vars, up, NEW w \in Workers
  PROVE  \/ worker'[w] = worker[w]
         \/ worker'[w].pc \notin SubmitPoints
         \/ Submits(w)
<1> DEFINE Goal == \/ worker'[w] = worker[w]
                   \/ worker'[w].pc \notin SubmitPoints
                   \/ Submits(w)
<1>0. worker \in [Workers -> Service] /\ worker[w] \in Service
  BY DEF ServerTypeOK
<1>1. ASSUME NEW u \in Workers, NEW s, worker' = [worker EXCEPT ![u] = s],
             u = w => s.pc \notin SubmitPoints
      PROVE  Goal
  <2>1. worker'[w] = IF u = w THEN s ELSE worker[w]
    BY <1>0, <1>1
  <2> QED BY <1>1, <2>1
<1>2. ASSUME NEW u \in Workers, Done(u) PROVE Goal
  <2>1. Free.pc \notin SubmitPoints
    BY DEF Free, SubmitPoints
  <2> QED BY <1>1, <1>2, <2>1 DEF Done
<1>3. ASSUME NEW pc, Goto(w, pc) \/ Keep(w, pc) \/ Take(w, pc)
      PROVE  /\ worker'[w].pc = pc /\ worker'[w].id = worker[w].id
             /\ Take(w, pc) => worker'[w].snapshot = Snapshot
  <2>1. CASE Goto(w, pc)
    <3>1. worker'[w] = [Free EXCEPT !.pc = pc, !.id = worker[w].id]
      BY <1>0, <2>1 DEF Goto
    <3>2. worker'[w].pc = pc /\ worker'[w].id = worker[w].id
      BY <3>1 DEF Free
    <3>3. ASSUME Take(w, pc) PROVE worker'[w].snapshot = Snapshot
      BY <1>0, <3>3 DEF Take, Service
    <3> QED BY <3>2, <3>3
  <2>2. CASE Keep(w, pc)
    <3>1. worker'[w].pc = pc /\ worker'[w].id = worker[w].id
      BY <1>0, <2>2 DEF Keep, Service
    <3>2. ASSUME Take(w, pc) PROVE worker'[w].snapshot = Snapshot
      BY <1>0, <3>2 DEF Take, Service
    <3> QED BY <3>1, <3>2
  <2>3. CASE Take(w, pc)
    BY <1>0, <2>3 DEF Take, Service
  <2> QED BY <1>3, <2>1, <2>2, <2>3
<1>4. ASSUME NEW u \in Workers, NEW pc, Goto(u, pc) \/ Keep(u, pc) \/ Take(u, pc),
             u # w \/ pc \notin SubmitPoints
      PROVE  Goal
  <2>1. CASE u # w
    <3>1. worker'[w] = worker[w]
      BY <1>0, <1>4, <2>1 DEF Goto, Keep, Take
    <3> QED BY <3>1
  <2>2. CASE u = w /\ pc \notin SubmitPoints
    <3>1. worker'[w].pc = pc
      BY <1>3, <1>4, <2>2
    <3> QED BY <2>2, <3>1
  <2> QED BY <1>4, <2>1, <2>2
<1>5. UNCHANGED worker => Goal
  OBVIOUS
<1> HIDE DEF Goal
<1>6. ASSUME NEW u \in Workers, SubmitClaim(u) \/ SubmitFence(u) \/ SubmitRegister(u)
      PROVE  Goal
  <2>1. Done(u) => Goal
    BY <1>2
  <2>2. CASE u # w
    <3>1. Done(u) \/ \E pc : Goto(u, pc) \/ Take(u, pc)
      BY <1>6 DEF SubmitClaim, SubmitFence, SubmitRegister
    <3> QED BY <1>4, <2>1, <2>2, <3>1
  <2>3. CASE u = w /\ SubmitClaim(w)
    <3>1. At(w, "claim") /\ (Goto(w, "fence") \/ Done(w))
      BY <2>3 DEF SubmitClaim
    <3>2. ASSUME Goto(w, "fence") PROVE Submits(w)
      BY <1>3, <3>1, <3>2 DEF Submits, SubmitPoints, FencedPoints, At
    <3> QED BY <2>1, <2>3, <3>1, <3>2 DEF Goal
  <2>4. CASE u = w /\ SubmitFence(w)
    <3>1. At(w, "fence") /\ Take(w, "fence_install") /\ stopLock' = w /\ UNCHANGED storeVars
      BY <2>4 DEF SubmitFence
    <3>2. Submits(w)
      BY <1>3, <3>1 DEF Submits, SubmitPoints, FencedPoints, At
    <3> QED BY <3>2 DEF Goal
  <2>5. CASE u = w /\ SubmitRegister(w)
    <3>1. At(w, "register") /\ Take(w, "install") /\ UNCHANGED fenced
      BY <2>5 DEF SubmitRegister
    <3>2. Submits(w)
      BY <1>3, <3>1 DEF Submits, SubmitPoints, FencedPoints, At
    <3> QED BY <3>2 DEF Goal
  <2> QED BY <1>6, <2>2, <2>3, <2>4, <2>5
<1>7. ASSUME NEW u \in Workers, SubmitFenceInstall(u) \/ SubmitFenceInit(u) PROVE Goal
  <2>1. CASE u # w
    <3>1. \E pc : Goto(u, pc)
      BY <1>7 DEF SubmitFenceInstall, SubmitFenceInit
    <3> QED BY <1>4, <2>1, <3>1
  <2>2. CASE u = w /\ SubmitFenceInstall(w)
    <3>1. /\ At(w, "fence_install") /\ UNCHANGED storeVars
          /\ \/ /\ Goto(w, "fence_init") /\ UNCHANGED stopLock
                /\ worker[w].snapshot.context[StopPathOf(worker[w].id)] = Missing
             \/ Goto(w, "register") /\ worker[w].id \in fenced'
      BY <2>2 DEF SubmitFenceInstall
    <3>2. Submits(w)
      BY <1>3, <3>1 DEF Submits, SubmitPoints, FencedPoints, At
    <3> QED BY <3>2 DEF Goal
  <2>3. CASE u = w /\ SubmitFenceInit(w)
    <3>1. At(w, "fence_init") /\ Goto(w, "fence_read")
      BY <2>3 DEF SubmitFenceInit
    <3>2. Submits(w)
      BY <1>3, <3>1 DEF Submits, SubmitPoints, FencedPoints, At
    <3> QED BY <3>2 DEF Goal
  <2> QED BY <1>7, <2>1, <2>2, <2>3
<1>8. ASSUME NEW u \in Workers, SubmitInstall(u) \/ SubmitProcess(u) PROVE Goal
  <2>1. CASE u # w
    <3>1. \E pc : Goto(u, pc) \/ Keep(u, pc)
      BY <1>8 DEF SubmitInstall, SubmitProcess
    <3> QED BY <1>4, <2>1, <3>1
  <2>2. CASE u = w
    <3>1. /\ worker[w].pc \in FencedPoints /\ UNCHANGED fenced
          /\ \/ \E pc \in {"process", "reprocess"} : Keep(w, pc)
             \/ Goto(w, "reply")
      BY <1>8, <2>2 DEF SubmitInstall, SubmitProcess, At, FencedPoints
    <3>2. ASSUME NEW pc \in {"process", "reprocess"}, Keep(w, pc) PROVE Submits(w)
      BY <1>3, <3>1, <3>2 DEF Submits, SubmitPoints, FencedPoints
    <3>3. "reply" \notin SubmitPoints
      BY DEF SubmitPoints
    <3> QED BY <1>4, <3>1, <3>2, <3>3 DEF Goal
  <2> QED BY <2>1, <2>2
<1>9. ASSUME NEW u \in Workers, ReadBack(u) \/ InstallBack(u) PROVE Goal
  <2>1. CASE u # w
    <3>1. Done(u) \/ \E pc : Goto(u, pc) \/ Take(u, pc)
      BY <1>9 DEF ReadBack, InstallBack, Return
    <3> QED BY <1>2, <1>4, <2>1, <3>1
  <2>2. CASE u = w
    <3>1. \/ Done(w)
          \/ \E pc \in {"post_got", "stop_got", "stop_log"} : Goto(w, pc) \/ Take(w, pc)
          \/ At(w, "fence_read") /\ Take(w, "fence_got")
          \/ At(w, "fence_got") /\ Goto(w, "register") /\ worker[w].id \in fenced'
      BY <1>9, <2>2 DEF ReadBack, InstallBack, Return, At
    <3>2. ASSUME \/ At(w, "fence_read") /\ Take(w, "fence_got")
                 \/ At(w, "fence_got") /\ Goto(w, "register") /\ worker[w].id \in fenced'
          PROVE  Submits(w)
      BY <1>3, <3>2 DEF Submits, SubmitPoints, FencedPoints, At
    <3>3. \A pc \in {"post_got", "stop_got", "stop_log"} : pc \notin SubmitPoints
      BY DEF SubmitPoints
    <3> QED BY <1>2, <1>4, <3>1, <3>2, <3>3 DEF Goal
  <2> QED BY <2>1, <2>2
<1>10. ASSUME NEW u \in Workers,
              \/ SubmitReply(u) \/ StopProcess(u) \/ StopUpdate(u) \/ StopLog(u)
              \/ CommitRecord(u) \/ ReleaseEffect(u) \/ GetSnapshot(u)
              \/ \E p, v : PostUpdate(u, p, v)
       PROVE  Goal
  <2>1. \/ Done(u)
        \/ \E pc \in {"stop_update", "stop_read", "reply", "post_got", "post_read"} :
             Goto(u, pc) \/ Take(u, pc)
    BY <1>10 DEF SubmitReply, StopProcess, StopUpdate, StopLog, CommitRecord, ReleaseEffect,
                 GetSnapshot, PostUpdate
  <2>2. \A pc \in {"stop_update", "stop_read", "reply", "post_got", "post_read"} :
          pc \notin SubmitPoints
    BY DEF SubmitPoints
  <2> QED BY <1>2, <1>4, <2>1, <2>2
<1>11. ASSUME NEW u \in Workers, CommitStore(u) PROVE Goal
  <2>1. \E st, q : worker' = [worker EXCEPT ![u] = [Free EXCEPT !.pc = "record",
                                !.id = worker[u].id, !.status = st, !.seq = q]]
    BY <1>11 DEF CommitStore
  <2>2. \A st, q : [Free EXCEPT !.pc = "record", !.id = worker[u].id, !.status = st,
                                !.seq = q].pc \notin SubmitPoints
    BY DEF Free, SubmitPoints
  <2> QED BY <1>1, <2>1, <2>2
<1>12. ASSUME NEW u \in Workers, NEW i \in Intents, SubmitAdmit(u, i) PROVE Goal
  <2>0. worker[u] \in Service
    BY <1>0
  <2> DEFINE duplicate == IsDuplicate(i, 0)
             revalidate == duplicate /\ records[i].state = "DELAYED"
             pc == CASE i \in stopClass -> "stop_process"
                     [] i \notin stopClass /\ revalidate -> "fence"
                     [] OTHER -> "claim"
             s == [worker[u] EXCEPT !.pc = pc, !.id = i]
  <2>1. \/ UNCHANGED worker
        \/ ~(duplicate /\ ~revalidate) /\ worker' = [worker EXCEPT ![u] = s]
    BY <1>0, <1>12 DEF SubmitAdmit
  <2>2. /\ pc \in {"stop_process", "fence", "claim"}
        /\ pc = "fence" => revalidate
        /\ pc = "claim" => ~revalidate /\ i \notin stopClass
    OBVIOUS
  <2>3. s.pc = pc /\ s.id = i
    BY <2>0 DEF Service
  <2>4. duplicate => UNCHANGED records
    <3>1. AfterExpiry(0) = records
      BY DEF AfterExpiry, ServerTypeOK, RuntimeTypeOK
    <3> QED BY <1>12, <3>1 DEF SubmitAdmit, Admit
  <2> HIDE DEF pc, s, duplicate
  <2>5. CASE u = w /\ worker' = [worker EXCEPT ![u] = s] /\ ~(duplicate /\ ~revalidate)
    <3>1. worker'[w] = s
      BY <1>0, <2>5
    <3>2. CASE pc = "stop_process"
      BY <2>3, <3>1, <3>2 DEF Goal, SubmitPoints
    <3>3. CASE pc \in {"fence", "claim"}
      <4>0. \A x \in Workers : x # w => worker'[x] = worker[x]
        BY <1>0, <2>5
      <4>1. Submits(w)
        BY <1>12, <2>2, <2>3, <2>4, <2>5, <3>1, <3>3, <4>0 DEF Submits, duplicate
      <4> QED BY <4>1 DEF Goal
    <3> QED BY <2>2, <3>2, <3>3
  <2>6. CASE u # w /\ worker' = [worker EXCEPT ![u] = s]
    BY <1>1, <2>6
  <2> QED BY <1>5, <2>1, <2>5, <2>6
<1>13. ASSUME NEW u \in Workers, NEW i \in Intents,
              \/ CommitStart(u, i)
              \/ \E released, scope, v, effect : ReleaseRequest(u, i, released, scope, v, effect)
       PROVE  Goal
  <2>0. worker[u] \in Service
    BY <1>0
  <2>1. CASE CommitStart(u, i)
    <3> DEFINE s == [worker[u] EXCEPT !.pc = "commit", !.id = i, !.reads = RecordedReadSet(i),
                                      !.expected = records[i].readSetVersion]
    <3>1. UNCHANGED worker \/ worker' = [worker EXCEPT ![u] = s]
      BY <1>0, <2>1 DEF CommitStart
    <3>2. s.pc \notin SubmitPoints
      BY <2>0 DEF Service, SubmitPoints
    <3> HIDE DEF s
    <3> QED BY <1>1, <1>5, <3>1, <3>2
  <2>2. ASSUME NEW released, NEW scope, NEW v, NEW effect,
               ReleaseRequest(u, i, released, scope, v, effect)
        PROVE  Goal
    <3> DEFINE s == [worker[u] EXCEPT !.pc = "effect", !.id = i, !.effect = effect]
    <3>1. UNCHANGED worker \/ worker' = [worker EXCEPT ![u] = s]
      BY <1>0, <2>2 DEF ReleaseRequest
    <3>2. s.pc \notin SubmitPoints
      BY <2>0 DEF Service, SubmitPoints
    <3> HIDE DEF s
    <3> QED BY <1>1, <1>5, <3>1, <3>2
  <2> QED BY <1>13, <2>1, <2>2
<1>14. ASSUME Restart PROVE Goal
  <2>1. worker'[w] = Free
    BY <1>14 DEF Restart
  <2>2. Free.pc \notin SubmitPoints
    BY DEF Free, SubmitPoints
  <2> QED BY <2>1, <2>2 DEF Goal
<1>15. ASSUME NEW i \in Intents, \/ WithheldRequest(i) \/ RevokeRequest(i)
                                 \/ \E status : EffectRequest(i, status)
       PROVE  Goal
  BY <1>5, <1>15 DEF WithheldRequest, RevokeRequest, EffectRequest, serverVars
<1>16. Tick \/ Outage \/ UNCHANGED vars => Goal
  BY <1>5 DEF Tick, Outage, vars, serverVars
<1>17. ASSUME NEW u \in Workers, WorkerStep(u) PROVE Goal
  BY <1>6, <1>7, <1>8, <1>9, <1>10, <1>11, <1>17 DEF WorkerStep
<1>18. ASSUME NEW u \in Workers, Request(u) PROVE Goal
  BY <1>10, <1>12, <1>13, <1>18 DEF Request
<1>19. Goal
  BY <1>14, <1>15, <1>16, <1>17, <1>18 DEF Next
<1> QED BY <1>19 DEF Goal

\* The stop paths are paths, and not those of producers.
LEMMA StopPathsApart ==
  /\ StopPaths \subseteq Paths
  /\ \A p \in DataPaths : p \notin StopPaths
  /\ \A i \in Intents : StopPathOf(i) \in StopPaths
BY RuntimeAssumption, ServerAssumption DEF StopPaths, DataPaths, StopPathOf

\* A stop epoch changes by an initialization or, the stop lock being free, by a
\* stop.
LEMMA EpochSteps ==
  ASSUME ServerTypeOK, [Next]_vars, NEW p \in StopPaths
  PROVE  \/ context'[p] = context[p]
         \/ \E w \in Workers : /\ SubmitFenceInit(w) /\ p = StopPathOf(worker[w].id)
                               /\ context'[p] = 0
         \/ stopLock = NoWorker /\ context'[p] = now
<1> DEFINE Initialized == \E w \in Workers : /\ SubmitFenceInit(w) /\ p = StopPathOf(worker[w].id)
                                             /\ context'[p] = 0
           Stopped == stopLock = NoWorker /\ context'[p] = now
           Goal == context'[p] = context[p] \/ Initialized \/ Stopped
<1>0. p \in Paths /\ context \in [Paths -> Int]
  BY StopPathsApart DEF ServerTypeOK
<1>1. ASSUME NEW q, NEW v, TryUpdate(q, v)
      PROVE  context'[p] = context[p] \/ (q = p /\ context'[p] = v)
  BY <1>0, <1>1 DEF TryUpdate, Update, storeVars
<1>2. ASSUME NEW w \in Workers, SubmitFenceInit(w) PROVE context'[p] = context[p] \/ Initialized
  <2>1. TryUpdate(StopPathOf(worker[w].id), 0)
    BY <1>2 DEF SubmitFenceInit
  <2> QED BY <1>1, <1>2, <2>1
<1>3. ASSUME NEW w \in Workers, StopUpdate(w) PROVE context'[p] = context[p] \/ Stopped
  <2>1. \/ UNCHANGED storeVars
        \/ stopLock = NoWorker /\ TryUpdate(StopPathOf(worker[w].id), now)
    BY <1>3 DEF StopUpdate
  <2>2. UNCHANGED storeVars => context'[p] = context[p]
    BY DEF storeVars
  <2> QED BY <1>1, <2>1, <2>2
<1>4. ASSUME NEW w \in Workers, NEW q \in DataPaths, NEW v, PostUpdate(w, q, v)
      PROVE  context'[p] = context[p]
  <2>1. TryUpdate(q, v) /\ q # p
    BY <1>4, StopPathsApart DEF PostUpdate
  <2> QED BY <1>1, <2>1
<1>5. ASSUME NEW w \in Workers, WorkerStep(w), ~SubmitFenceInit(w), ~StopUpdate(w)
      PROVE  UNCHANGED context
  BY <1>5 DEF WorkerStep, SubmitClaim, Claim, SubmitFence, SubmitFenceInstall, SubmitRegister,
              SubmitInstall, SubmitProcess, SubmitReply, StopProcess, StopLog, AppendActuation,
              ReadBack, InstallBack, CommitStore, Commit, CommitRecord, ReleaseEffect, storeVars
<1>6. ASSUME NEW w \in Workers, NEW i \in Intents,
             \/ SubmitAdmit(w, i) \/ CommitStart(w, i) \/ GetSnapshot(w)
             \/ \E released, scope, v, effect : ReleaseRequest(w, i, released, scope, v, effect)
      PROVE  UNCHANGED context
  BY <1>6 DEF SubmitAdmit, CommitStart, GetSnapshot, ReleaseRequest, storeVars
<1>7. ASSUME NEW i \in Intents, \/ WithheldRequest(i) \/ RevokeRequest(i)
                                \/ \E status : EffectRequest(i, status)
      PROVE  UNCHANGED context
  BY <1>7 DEF WithheldRequest, AppendActuation, RevokeRequest, EffectRequest, storeVars
<1>8. Tick \/ Outage \/ Restart \/ UNCHANGED vars => UNCHANGED context
  BY DEF Tick, Outage, StoreUp, StoreDown, Restart, vars, storeVars
<1>9. UNCHANGED context => Goal
  OBVIOUS
<1> HIDE DEF Initialized, Stopped
<1>10. ASSUME NEW w \in Workers, WorkerStep(w) PROVE Goal
  BY <1>2, <1>3, <1>5, <1>9, <1>10
<1>11. AnyIntent \in Intents
  BY ServerAssumption DEF AnyIntent
<1>12. ASSUME NEW w \in Workers, GetSnapshot(w) PROVE Goal
  BY <1>6, <1>9, <1>11, <1>12
<1>13. ASSUME NEW w \in Workers, Request(w) PROVE Goal
  BY <1>4, <1>6, <1>9, <1>12, <1>13 DEF Request
<1>14. Goal
  BY <1>7, <1>8, <1>9, <1>10, <1>13 DEF Next
<1> QED BY <1>14 DEF Goal, Initialized, Stopped

\* The stop lock is taken when free and given back by its holder, at the end of
\* what it does under the lock, or by a restart.
LEMMA StopLockSteps ==
  ASSUME ServerTypeOK, FenceInv, [Next]_vars
  PROVE  \/ stopLock' = stopLock
         \/ stopLock = NoWorker
         \/ Restart
         \/ \E w \in Workers : /\ stopLock = w
                               /\ SubmitFenceInstall(w) \/ ReadBack(w) \/ InstallBack(w)
<1> DEFINE GivenBack == \E w \in Workers : /\ stopLock = w
                                           /\ SubmitFenceInstall(w) \/ ReadBack(w) \/ InstallBack(w)
           Goal == stopLock' = stopLock \/ stopLock = NoWorker \/ Restart \/ GivenBack
<1>1. ASSUME NEW w \in Workers, ReadBack(w) \/ InstallBack(w) PROVE stopLock' = stopLock \/ GivenBack
  <2>1. stopLock' = stopLock \/ stopLock = w
    BY <1>1 DEF ReadBack, InstallBack, Return
  <2> QED BY <1>1, <2>1
<1>2. ASSUME NEW w \in Workers, SubmitFenceInstall(w) PROVE GivenBack
  <2>1. stopLock = w
    BY <1>2 DEF SubmitFenceInstall, FenceInv, HoldsLock
  <2> QED BY <1>2, <2>1
<1>3. ASSUME NEW w \in Workers, WorkerStep(w), ~ReadBack(w), ~InstallBack(w), ~SubmitFenceInstall(w)
      PROVE  stopLock' = stopLock \/ stopLock = NoWorker
  BY <1>3 DEF WorkerStep, SubmitClaim, SubmitFence, SubmitFenceInit, SubmitRegister, SubmitInstall,
              SubmitProcess, SubmitReply, StopProcess, StopUpdate, StopLog, CommitStore,
              CommitRecord, ReleaseEffect
<1>4. ASSUME NEW w \in Workers, Request(w) PROVE stopLock' = stopLock
  BY <1>4 DEF Request, SubmitAdmit, CommitStart, PostUpdate, ReleaseRequest, GetSnapshot
<1>5. ASSUME NEW i \in Intents, \/ WithheldRequest(i) \/ RevokeRequest(i)
                                \/ \E status : EffectRequest(i, status)
      PROVE  stopLock' = stopLock
  BY <1>5 DEF WithheldRequest, RevokeRequest, EffectRequest, serverVars
<1>6. Tick \/ Outage \/ UNCHANGED vars => stopLock' = stopLock
  BY DEF Tick, Outage, vars, serverVars
<1> HIDE DEF GivenBack
<1>7. Goal
  BY <1>1, <1>2, <1>3, <1>4, <1>5, <1>6 DEF Next
<1> QED BY <1>7 DEF Goal, GivenBack

\* An intent loses its stop predicate only when it is admitted anew.
LEMMA FencedSteps ==
  ASSUME ServerTypeOK, CommitInv, [Next]_vars, NEW i \in fenced
  PROVE  i \in fenced' \/ records[i].state = "ABSENT" \/ Restart
<1>0. i \in Intents
  BY DEF ServerTypeOK
<1>1. ASSUME NEW w \in Workers, NEW j \in Intents, SubmitAdmit(w, j)
      PROVE  i \in fenced' \/ records[i].state = "ABSENT"
  <2>1. CASE IsDuplicate(j, 0) \/ j # i
    BY <1>1, <2>1 DEF SubmitAdmit
  <2>2. CASE ~IsDuplicate(i, 0) /\ j = i
    <3>1. Retained(0) = seen /\ AfterExpiry(0) = records
      BY SubSeqFull DEF Retained, AfterExpiry, ServerTypeOK, RuntimeTypeOK
    <3> QED BY <1>0, <2>2, <3>1 DEF IsDuplicate, CommitInv
  <2> QED BY <2>1, <2>2
<1>2. ASSUME NEW w \in Workers, WorkerStep(w) PROVE i \in fenced'
  BY <1>2 DEF WorkerStep, SubmitClaim, SubmitFence, SubmitFenceInstall, SubmitFenceInit,
              SubmitRegister, SubmitInstall, SubmitProcess, SubmitReply, StopProcess, StopUpdate,
              StopLog, ReadBack, InstallBack, Return, CommitStore, CommitRecord, ReleaseEffect
<1>3. ASSUME NEW w \in Workers, Request(w)
      PROVE  i \in fenced' \/ \E j \in Intents : SubmitAdmit(w, j)
  BY <1>3 DEF Request, CommitStart, PostUpdate, ReleaseRequest, GetSnapshot
<1>4. ASSUME NEW j \in Intents, \/ WithheldRequest(j) \/ RevokeRequest(j)
                                \/ \E status : EffectRequest(j, status)
      PROVE  i \in fenced'
  BY <1>4 DEF WithheldRequest, RevokeRequest, EffectRequest, serverVars
<1>5. Tick \/ Outage \/ UNCHANGED vars => i \in fenced'
  BY DEF Tick, Outage, vars, serverVars
<1> QED BY <1>1, <1>2, <1>3, <1>4, <1>5 DEF Next

\* A validation pass that authorizes an ordinary intent has read the stop path.
LEMMA PassFences ==
  ASSUME ServerTypeOK, CommitInv, FenceInv, NEW w \in Workers, SubmitProcess(w) \/ StopProcess(w),
         records'[worker[w].id].state = "AUTHORIZED", records'[worker[w].id].class = "other"
  PROVE  worker[w].id \in fenceRead'
<1> DEFINE i == worker[w].id
           c == CheckOn(w, i)
           r == records[i]
           outcome == Decide(r, i, c)
<1>0. i \in Intents /\ records \in [Intents -> Record] /\ r \in Record
  BY DEF ServerTypeOK, RuntimeTypeOK, Service
<1>1. r.state # "ABSENT"
  BY DEF SubmitProcess, StopProcess, At, CommitInv, Handling, PostPoints
<1>2. ProcessIntent(i, c)
  BY DEF SubmitProcess, StopProcess
<1>3. \/ r.state \notin ValidatableStates /\ UNCHANGED records
      \/ i \in stopClass /\ records'[i] = AuthorizeStop(r)
      \/ records'[i] = RevokeStale(r)
      \/ /\ i \notin stopClass /\ r.state \in ValidatableStates /\ ~(c.version < contextVersion)
         /\ records'[i] = Validated(r, outcome, c)
  BY <1>0, <1>1, <1>2 DEF ProcessIntent
<1>4. CASE r.state \notin ValidatableStates /\ UNCHANGED records
  <2>1. i \in fenceRead
    BY <1>0, <1>4 DEF FenceInv
  <2>2. fenceRead' = fenceRead
    BY <1>4 DEF SubmitProcess, StopProcess
  <2> QED BY <2>1, <2>2
<1>5. AuthorizeStop(r).class = "stop" /\ RevokeStale(r).state = "REVOKED"
  BY <1>0 DEF AuthorizeStop, RevokeStale, Record
<1>6. CASE i \notin stopClass /\ r.state \in ValidatableStates /\ ~(c.version < contextVersion)
  <2>1. SubmitProcess(w)
    BY <1>6 DEF StopProcess, CommitInv
  <2>2. i \in fenced
    BY <2>1 DEF SubmitProcess, FenceInv, FencedPoints
  <2> QED BY <1>6, <2>1, <2>2 DEF SubmitProcess
<1> QED BY <1>3, <1>4, <1>5, <1>6

\* An id is a duplicate exactly if it has a record.
LEMMA DuplicateIs ==
  ASSUME ServerTypeOK, CommitInv, NEW i \in Intents
  PROVE  IsDuplicate(i, 0) <=> records[i].state # "ABSENT"
<1>1. Retained(0) = seen /\ AfterExpiry(0) = records
  BY SubSeqFull DEF Retained, AfterExpiry, ServerTypeOK, RuntimeTypeOK
<1> QED BY <1>1 DEF IsDuplicate, CommitInv

\* Initially nothing is submitted and no stop is recorded.
LEMMA FenceInvInit == Init => FenceInv
<1> SUFFICES ASSUME Init PROVE FenceInv
  OBVIOUS
<1>1. up /\ StopEpochs
  BY DEF Init, StoreInit, StopEpochs
<1>2. \A w \in Workers : worker[w].pc = "idle"
  BY DEF Init, Free
<1>3. \A i \in Intents : records[i].state = "ABSENT"
  BY DEF Init, RuntimeInit, Absent
<1> QED BY <1>1, <1>2, <1>3 DEF FenceInv, HoldsLock, SoleClaim, At, FencedPoints

\* The environment alone moves the clock, and brings the store down and up.
LEMMA EnvironmentSteps ==
  ASSUME [Next]_vars
  PROVE  UNCHANGED <<now, up>> \/ Tick \/ Outage
<1>1. ASSUME NEW w \in Workers, WorkerStep(w) PROVE UNCHANGED <<now, up>>
  <2>1. UNCHANGED now
    BY <1>1 DEF WorkerStep, SubmitClaim, SubmitFence, SubmitFenceInstall, SubmitFenceInit,
                SubmitRegister, SubmitInstall, SubmitProcess, SubmitReply, StopProcess,
                StopUpdate, StopLog, ReadBack, InstallBack, CommitStore, CommitRecord,
                ReleaseEffect
  <2>2. UNCHANGED up
    BY <1>1 DEF WorkerStep, SubmitClaim, Claim, SubmitFence, SubmitFenceInstall, SubmitFenceInit,
                TryUpdate, Update, SubmitRegister, SubmitInstall, SubmitProcess, SubmitReply,
                StopProcess, StopUpdate, StopLog, AppendActuation, ReadBack, InstallBack,
                CommitStore, Commit, CommitRecord, ReleaseEffect, storeVars
  <2> QED BY <2>1, <2>2
<1>2. ASSUME NEW w \in Workers, Request(w) PROVE UNCHANGED <<now, up>>
  BY <1>2 DEF Request, SubmitAdmit, CommitStart, PostUpdate, TryUpdate, Update, ReleaseRequest,
              GetSnapshot, storeVars
<1>3. ASSUME NEW i \in Intents, \/ WithheldRequest(i) \/ RevokeRequest(i)
                                \/ \E status : EffectRequest(i, status)
      PROVE  UNCHANGED <<now, up>>
  BY <1>3 DEF WithheldRequest, AppendActuation, RevokeRequest, EffectRequest, storeVars, serverVars
<1>4. Restart \/ UNCHANGED vars => UNCHANGED <<now, up>>
  BY DEF Restart, vars, storeVars, serverVars
<1> QED BY <1>1, <1>2, <1>3, <1>4 DEF Next

\* No step that a reachable store serves takes a stop epoch back.
LEMMA EpochsAdvance ==
  ASSUME ServerTypeOK, FenceInv, [Next]_vars
  PROVE  /\ StopEpochs'
         /\ \A p \in StopPaths : context[p] <= context'[p]
<1>1. now \in Nat /\ now' \in Nat /\ now <= now'
  <2>1. now \in Nat
    BY DEF ServerTypeOK
  <2>2. now' = now \/ now' = now + 1
    BY EnvironmentSteps DEF Tick, Outage, serverVars
  <2> QED BY <2>1, <2>2
<1>2. ASSUME NEW p \in StopPaths
      PROVE  /\ context'[p] = Missing \/ context'[p] \in 0..now'
             /\ context[p] <= context'[p]
  <2>1. context[p] = Missing \/ context[p] \in 0..now
    BY DEF FenceInv, StopEpochs
  <2>2. CASE context'[p] = context[p]
    BY <1>1, <2>1, <2>2 DEF Missing
  <2>3. ASSUME NEW w \in Workers, SubmitFenceInit(w), p = StopPathOf(worker[w].id), context'[p] = 0
        PROVE  context'[p] \in 0..now' /\ context[p] <= context'[p]
    <3>1. context[p] = Missing
      BY <2>3 DEF SubmitFenceInit, FenceInv, HoldsLock
    <3> QED BY <1>1, <2>3, <3>1 DEF Missing
  <2>4. CASE context'[p] = now
    BY <1>1, <2>1, <2>4 DEF Missing
  <2> QED BY <2>2, <2>3, <2>4, EpochSteps
<1> QED BY <1>2 DEF StopEpochs

\* Every step keeps FenceInv, conjunct by conjunct.
LEMMA FenceInvStep ==
  ASSUME ~Outages
  PROVE  ServerTypeOK /\ CommitInv /\ FenceInv /\ [Next]_vars => FenceInv'
<1> SUFFICES ASSUME ServerTypeOK, CommitInv, FenceInv, [Next]_vars PROVE FenceInv'
  OBVIOUS
<1>0. /\ \A w \in Workers : worker[w].id \in Intents /\ worker'[w].id \in Intents
      /\ records \in [Intents -> Record]
  BY ServerTypeStep DEF ServerTypeOK, RuntimeTypeOK, Service
<1>1. up'
  BY EnvironmentSteps DEF FenceInv, Outage, Tick, storeVars
<1>2. StopEpochs'
  BY EpochsAdvance
<1>3. ASSUME Restart PROVE FenceInv'
  <2>1. \A w \in Workers : worker'[w].pc = "idle"
    BY <1>3 DEF Restart, Free
  <2>2. \A i \in Intents : records'[i].state = "ABSENT"
    BY <1>3 DEF Restart, RuntimeRestart, Absent
  <2> QED BY <1>1, <1>2, <2>1, <2>2 DEF FenceInv, HoldsLock, SoleClaim, At, FencedPoints
<1>4. ASSUME ~Restart PROVE FenceInv'
  <2>1. ASSUME NEW w \in Workers
        PROVE  \/ worker'[w] = worker[w] \/ worker'[w].pc \notin SubmitPoints \/ Submits(w)
    BY SubmitTurns DEF FenceInv
  <2>2. ASSUME NEW w \in Workers PROVE HoldsLock(w)'
    <3>1. CASE worker'[w].pc \notin SubmitPoints
      BY <3>1 DEF HoldsLock, At, SubmitPoints
    <3>2. CASE Submits(w)
      <4> DEFINE p == StopPathOf(worker[w].id)
      <4>1. ASSUME worker'[w].pc = "fence_install"
            PROVE  /\ stopLock' = w /\ worker'[w].id = worker[w].id
                   /\ worker'[w].snapshot.context = context /\ context' = context
        BY <3>2, <4>1 DEF Submits, Snapshot, storeVars
      <4>2. ASSUME worker'[w].pc = "fence_init"
            PROVE  /\ stopLock' = w /\ worker'[w].id = worker[w].id /\ context'[p] = Missing
        <5>1. /\ At(w, "fence_install") /\ worker[w].snapshot.context[p] = Missing
              /\ UNCHANGED <<storeVars, stopLock>> /\ worker'[w].id = worker[w].id
          BY <3>2, <4>2 DEF Submits
        <5>2. stopLock = w /\ worker[w].snapshot.context[p] = context[p]
          BY <5>1 DEF FenceInv, HoldsLock
        <5> QED BY <5>1, <5>2 DEF storeVars
      <4> QED BY <4>1, <4>2 DEF HoldsLock, At, StopPathOf
    <3>3. CASE worker'[w] = worker[w] /\ worker[w].pc \in {"fence_install", "fence_init"}
      <4> DEFINE p == StopPathOf(worker[w].id)
      <4>1. stopLock = w /\ w # NoWorker
        BY <3>3, ServerAssumption DEF FenceInv, HoldsLock, At
      <4>2. ~SubmitFenceInstall(w) /\ ~SubmitFenceInit(w) /\ ~ReadBack(w) /\ ~InstallBack(w)
        <5>1. ASSUME SubmitFenceInstall(w) PROVE FALSE
          <6>1. worker[w].pc = "fence_install" /\ (Goto(w, "fence_init") \/ Goto(w, "register"))
            BY <5>1 DEF SubmitFenceInstall, At
          <6>2. worker'[w].pc \in {"fence_init", "register"}
            BY <6>1 DEF Goto, Free, ServerTypeOK
          <6> QED BY <3>3, <6>1, <6>2
        <5>2. ASSUME SubmitFenceInit(w) PROVE FALSE
          <6>1. worker[w].pc = "fence_init" /\ Goto(w, "fence_read")
            BY <5>2 DEF SubmitFenceInit, At
          <6>2. worker'[w].pc = "fence_read"
            BY <6>1 DEF Goto, Free, ServerTypeOK
          <6> QED BY <3>3, <6>1, <6>2
        <5> QED BY <3>3, <5>1, <5>2 DEF ReadBack, InstallBack
      <4>3. stopLock' = w
        BY <1>4, <4>1, <4>2, StopLockSteps
      <4>4. context'[p] = context[p]
        <5>1. p \in StopPaths
          BY <1>0, StopPathsApart
        <5>2. ASSUME NEW u \in Workers, SubmitFenceInit(u) PROVE u = w
          BY <4>1, <5>2 DEF SubmitFenceInit, FenceInv, HoldsLock
        <5> HIDE DEF p
        <5> QED BY <4>1, <4>2, <5>1, <5>2, EpochSteps
      <4>5. /\ At(w, "fence_install") => worker[w].snapshot.context[p] = context[p]
            /\ At(w, "fence_init") => context[p] = Missing
        BY DEF FenceInv, HoldsLock
      <4> QED BY <3>3, <4>3, <4>4, <4>5 DEF HoldsLock, At, StopPathOf
    <3> QED BY <2>1, <3>1, <3>2, <3>3 DEF HoldsLock, At
  <2>3. ASSUME NEW w \in Workers, worker'[w].pc = "claim"
        PROVE  /\ records'[worker'[w].id].state \notin {"AUTHORIZED", "DELAYED", "ABSENT"}
               /\ worker'[w].id \notin stopClass
               /\ \A u \in Workers : u # w /\ worker'[u].pc \in SubmitPoints
                                       => worker'[u].id # worker'[w].id
    <3>1. CASE worker'[w] = worker[w]
      <4> DEFINE i == worker[w].id
      <4>1. /\ At(w, "claim") /\ i \in Intents
            /\ records[i].state \notin {"AUTHORIZED", "DELAYED", "ABSENT"}
            /\ i \notin stopClass
            /\ \A u \in Workers : u # w /\ worker[u].pc \in SubmitPoints => worker[u].id # i
        BY <1>0, <2>3, <3>1 DEF FenceInv, SoleClaim, At
      <4>2. records'[i].state \notin {"AUTHORIZED", "DELAYED", "ABSENT"}
        <5>1. ASSUME NEW u \in Workers, NEW j \in Intents, SubmitAdmit(u, j)
              PROVE  records'[i] = records[i]
          <6>1. CASE j = i
            BY <4>1, <5>1, <6>1, AdmitSteps DEF CommitInv
          <6>2. CASE j # i
            BY <1>0, <4>1, <5>1, <6>2, AdmitSteps
          <6> QED BY <6>1, <6>2
        <5>2. ASSUME NEW u \in Workers, SubmitProcess(u) \/ StopProcess(u)
              PROVE  records'[i] = records[i]
          <6>1. worker[u].id # i
            <7>1. CASE SubmitProcess(u)
              BY <4>1, <7>1 DEF SubmitProcess, SubmitPoints, At
            <7>2. CASE StopProcess(u)
              BY <4>1, <7>2 DEF StopProcess, CommitInv
            <7> QED BY <5>2, <7>1, <7>2
          <6> QED BY <4>1, <5>2, <6>1, PassSteps DEF PassRecords
        <5>3. ASSUME Settles(records[i], records'[i])
              PROVE  records'[i].state \notin {"AUTHORIZED", "DELAYED", "ABSENT"}
          BY <4>1, <5>3 DEF Settles, ValidatableStates
        <5> QED BY <1>4, <4>1, <5>1, <5>2, <5>3, RecordSteps
      <4>3. ASSUME NEW u \in Workers, u # w, worker'[u].pc \in SubmitPoints
            PROVE  worker'[u].id # i
        <5>1. CASE worker'[u] = worker[u]
          BY <4>1, <4>3, <5>1
        <5>2. CASE Submits(u)
          <6>1. IsDuplicate(i, 0)
            BY <4>1, DuplicateIs
          <6> QED BY <4>1, <4>3, <5>2, <6>1 DEF Submits
        <5> QED BY <2>1, <4>3, <5>1, <5>2
      <4> HIDE DEF i
      <4> QED BY <3>1, <4>1, <4>2, <4>3 DEF i
    <3>2. CASE Submits(w)
      <4>1. PICK i \in Intents : /\ SubmitAdmit(w, i) /\ worker'[w].id = i
                                 /\ ~IsDuplicate(i, 0) /\ i \notin stopClass
                                 /\ \A u \in Workers : u # w => worker'[u] = worker[u]
        BY <2>3, <3>2 DEF Submits
      <4>2. records[i].state = "ABSENT"
        BY <4>1, DuplicateIs
      <4>3. records'[i].state = "CREATED"
        <5>1. records' = [records EXCEPT ![i] = Created(i)]
          BY <4>1, <4>2, AdmitSteps
        <5> QED BY <1>0, <5>1 DEF Created, Absent
      <4>4. ASSUME NEW u \in Workers, u # w, worker'[u].pc \in SubmitPoints
            PROVE  worker'[u].id # i
        BY <4>1, <4>2, <4>4 DEF CommitInv, Handling, PostPoints, SubmitPoints
      <4> QED BY <4>1, <4>3, <4>4
    <3> QED BY <2>1, <2>3, <3>1, <3>2 DEF SubmitPoints
  <2>4. \A w \in Workers : SoleClaim(w)'
    <3>1. stopClass' = stopClass
      BY <1>4, RecordEvolves
    <3> QED BY <2>3, <3>1 DEF SoleClaim, At
  <2>5. ASSUME NEW w \in Workers, worker'[w].pc \in FencedPoints PROVE worker'[w].id \in fenced'
    <3>1. ASSUME worker[w].pc \in FencedPoints PROVE worker[w].id \in fenced'
      <4>1. worker[w].id \in fenced /\ records[worker[w].id].state # "ABSENT"
        BY <3>1 DEF FenceInv, CommitInv, Handling, PostPoints, FencedPoints
      <4> QED BY <1>4, <4>1, FencedSteps
    <3>2. CASE worker'[w] = worker[w]
      BY <2>5, <3>1, <3>2
    <3>3. CASE Submits(w)
      BY <2>5, <3>1, <3>3 DEF Submits, FencedPoints
    <3> QED BY <2>1, <2>5, <3>2, <3>3 DEF FencedPoints, SubmitPoints
  <2>6. ASSUME NEW i \in Intents, records'[i].state = "AUTHORIZED", records'[i].class = "other"
        PROVE  i \in fenceRead'
    <3>0. records'[i] = records[i] => i \in fenceRead
      BY <2>6 DEF FenceInv
    <3>1. ASSUME NEW u \in Workers, NEW j \in Intents, SubmitAdmit(u, j) PROVE i \in fenceRead'
      <4>1. CASE UNCHANGED <<records, seen, fenceRead>>
        BY <3>0, <4>1
      <4>2. CASE records' = [records EXCEPT ![j] = Created(j)] /\ fenceRead' = fenceRead \ {j}
        <5>1. i # j
          BY <1>0, <2>6, <4>2 DEF Created, Absent
        <5> QED BY <1>0, <3>0, <4>2, <5>1
      <4> QED BY <3>1, <4>1, <4>2, AdmitSteps
    <3>2. ASSUME NEW u \in Workers, SubmitProcess(u) \/ StopProcess(u) PROVE i \in fenceRead'
      <4>1. CASE worker[u].id = i
        BY <2>6, <3>2, <4>1, PassFences
      <4>2. CASE worker[u].id # i
        BY <3>0, <3>2, <4>2, PassSteps DEF PassRecords
      <4> QED BY <4>1, <4>2
    <3>3. ASSUME Settles(records[i], records'[i]), UNCHANGED fenceRead PROVE i \in fenceRead'
      BY <2>6, <3>0, <3>3 DEF Settles
    <3> QED BY <1>4, <3>1, <3>2, <3>3, RecordSteps
  <2>7. ASSUME NEW w \in Workers, worker'[w].pc = "commit",
               records'[worker'[w].id].class = "other"
        PROVE  worker'[w].id \in fenceRead'
    <3>1. CASE worker'[w] = worker[w]
      <4> DEFINE i == worker[w].id
      <4>1. /\ At(w, "commit") /\ i \in Intents
            /\ records[i].state \notin ValidatableStates \cup {"ABSENT"}
        BY <1>0, <2>7, <3>1 DEF CommitInv, Committing, At
      <4>2. Settles(records[i], records'[i]) /\ (i \in fenceRead' <=> i \in fenceRead)
        <5>1. Evolves(i)
          BY <1>4, <4>1, RecordEvolves
        <5> QED BY <4>1, <5>1 DEF Evolves
      <4>3. records[i].class = "other"
        BY <2>7, <3>1, <4>2 DEF Settles
      <4> QED BY <3>1, <4>1, <4>2, <4>3 DEF FenceInv
    <3>2. CASE \E i \in Intents : /\ worker'[w].id = i /\ records[i].state = "AUTHORIZED"
                                  /\ UNCHANGED <<runtimeVars, fenceRead>>
      BY <2>7, <3>2 DEF FenceInv, runtimeVars
    <3> QED BY <2>7, <3>1, <3>2, WorkerTurns DEF Turns, PostPoints
  <2> QED BY <1>1, <1>2, <2>2, <2>4, <2>5, <2>6, <2>7 DEF FenceInv, At
<1> QED BY <1>3, <1>4

\* While the store answers, what is authorized is fenced, across lost replies
\* and restarts.
LEMMA FenceInvariant ==
  ASSUME ~Outages
  PROVE  Spec => []FenceInv
BY FenceInvInit, FenceInvStep, ServerTypeCorrect, CommitInvariant, PTL DEF Spec

\* While the store answers, a stop keeps what was decided before it out of the
\* log, whichever first-sight initializations and stops run concurrently and
\* wherever replies are lost or the process restarts.
THEOREM StopsFence ==
  ASSUME ~Outages
  PROVE  Spec => StopFences
<1> DEFINE Fences == /\ \A p \in StopPaths : context[p] <= context'[p]
                     /\ \A i \in Intents : NewAuth(i) /\ records[i].class = "other" =>
                          context[StopPathOf(i)] \in 0..(Decision[i] - Eps)
<1>1. ServerTypeOK /\ CommitInv /\ FenceInv /\ [Next]_vars => Fences
  <2> SUFFICES ASSUME ServerTypeOK, CommitInv, FenceInv, [Next]_vars PROVE Fences
    OBVIOUS
  <2>1. ASSUME NEW i \in Intents, NewAuth(i), records[i].class = "other"
        PROVE  context[StopPathOf(i)] \in 0..(Decision[i] - Eps)
    <3>1. PICK w \in Workers : worker[w].id = i /\ Commits(w)
      BY <2>1, AuthIsCommit, LogSteps, ServerLogShape
    <3>2. i \in fenceRead
      BY <2>1, <3>1 DEF Commits, FenceInv
    <3>3. /\ ReadSetVersion(pathVersions, worker[w].reads) = worker[w].expected
          /\ Committing(w)
      BY <3>1 DEF Commits, CommitStatus, CommitInv
    <3>4. Satisfied(i, context, i \in fenceRead)
      BY <2>1, <3>1, <3>3 DEF Committing, Stands
    <3>5. /\ context[StopPathOf(i)] # Missing
          /\ context[StopPathOf(i)] <= Decision[i] - Eps
      BY <3>2, <3>4 DEF Satisfied
    <3>6. context[StopPathOf(i)] \in 0..now
      BY <3>5, StopPathsApart DEF FenceInv, StopEpochs
    <3>7. now \in Nat /\ Decision[i] - Eps \in Int
      BY ServerAssumption DEF ServerTypeOK
    <3> QED BY <3>5, <3>6, <3>7
  <2> QED BY <2>1, EpochsAdvance
<1> HIDE DEF Fences
<1>2. ServerTypeOK /\ CommitInv /\ FenceInv /\ [Next]_vars => [Fences]_vars
  BY <1>1
<1>3. Spec => [][Fences]_vars
  BY <1>2, ServerTypeCorrect, CommitInvariant, FenceInvariant, PTL DEF Spec
<1> QED BY <1>3 DEF Fences, StopFences

\* What a step other than a restart does to the target locks: nothing, or it
\* gives back or takes the lock of the one intent whose record it changes.
Locks(i) ==
  /\ \A j \in Intents : j # i => records'[j] = records[j]
  /\ \/ activeTargets' = activeTargets \ {TargetOf[i]}
     \/ /\ UNCHANGED activeTargets
        /\ records'[i] = records[i] \/ records[i].state # "AUTHORIZED"
     \/ /\ activeTargets' = activeTargets \cup {TargetOf[i]}
        /\ records[i].state # "AUTHORIZED"
        /\ records'[i].state = "AUTHORIZED" /\ records'[i].class = "other"

\* No step of a server that reaches the store drops an AUTHORIZED record and
\* keeps its lock.
LEMMA LockSteps ==
  ASSUME ServerTypeOK, CommitInv, FenceInv, [Next]_vars
  PROVE  Restart \/ \E i \in Intents : Locks(i)
<1> DEFINE Goal == \E i \in Intents : Locks(i)
<1>0. /\ records \in [Intents -> Record]
      /\ \A w \in Workers : worker[w].id \in Intents
      /\ up
  BY DEF ServerTypeOK, RuntimeTypeOK, Service, FenceInv
<1>1. ASSUME UNCHANGED <<records, activeTargets>> PROVE Goal
  <2>1. AnyIntent \in Intents
    BY ServerAssumption DEF AnyIntent
  <2>2. Locks(AnyIntent)
    BY <1>1 DEF Locks
  <2> QED BY <2>1, <2>2
<1>2. ASSUME NEW i \in Intents, NEW q, records' = [records EXCEPT ![i] = q],
             \/ activeTargets' = activeTargets \ {TargetOf[i]}
             \/ UNCHANGED activeTargets /\ records[i].state # "AUTHORIZED"
      PROVE  Goal
  <2>1. Locks(i)
    BY <1>0, <1>2 DEF Locks
  <2> QED BY <2>1
<1> HIDE DEF Goal
<1>3. ASSUME NEW i \in Intents, \/ SupervisoryRevoke(i)
                                \/ \E ok, seq : RecordCommit(i, ok, seq)
                                \/ \E released, scope, v : ReportRelease(i, released, scope, v)
      PROVE  Goal
  <2>1. \/ UNCHANGED <<records, activeTargets>>
        \/ /\ \E q : records' = [records EXCEPT ![i] = q]
           /\ activeTargets' = activeTargets \ {TargetOf[i]}
    BY <1>3 DEF SupervisoryRevoke, RecordCommit, ReportRelease, ReleaseTarget
  <2> QED BY <1>1, <1>2, <2>1
<1>4. ASSUME NEW i \in Intents, NEW status, ReportEffect(i, status) PROVE Goal
  <2>1. EffectState(status) \in Allowed(records[i].state) => records[i].state # "AUTHORIZED"
    BY DEF EffectState, Allowed
  <2>2. /\ UNCHANGED activeTargets
        /\ \/ UNCHANGED records
           \/ /\ \E q : records' = [records EXCEPT ![i] = q]
              /\ EffectState(status) \in Allowed(records[i].state)
    BY <1>4 DEF ReportEffect
  <2> QED BY <1>1, <1>2, <2>1, <2>2
<1>5. ASSUME NEW i \in Intents, LifecycleRevoke(i), records[i].state # "AUTHORIZED" PROVE Goal
  <2>1. /\ UNCHANGED activeTargets
        /\ UNCHANGED records \/ \E q : records' = [records EXCEPT ![i] = q]
    BY <1>5 DEF LifecycleRevoke
  <2> QED BY <1>1, <1>2, <1>5, <2>1
<1>6. ASSUME NEW w \in Workers, SubmitProcess(w) \/ StopProcess(w) PROVE Goal
  <2> DEFINE i == worker[w].id
             c == CheckOn(w, i)
             r == records[i]
             outcome == Decide(r, i, c)
  <2>1. i \in Intents /\ r.state # "ABSENT" /\ r \in Record
    BY <1>0, <1>6 DEF SubmitProcess, StopProcess, At, CommitInv, Handling, PostPoints
  <2>2. ProcessIntent(i, c)
    BY <1>6 DEF SubmitProcess, StopProcess
  <2>3. \/ UNCHANGED <<records, activeTargets>>
        \/ /\ r.state \in ValidatableStates /\ UNCHANGED activeTargets
           /\ \E q : records' = [records EXCEPT ![i] = q]
        \/ /\ r.state \in ValidatableStates /\ outcome = "EXECUTE"
           /\ activeTargets' = activeTargets \cup {TargetOf[i]}
           /\ records' = [records EXCEPT ![i] = Validated(r, outcome, c)]
    BY <2>1, <2>2 DEF ProcessIntent
  <2>4. "AUTHORIZED" \notin ValidatableStates
    BY DEF ValidatableStates
  <2>5. CASE /\ r.state \in ValidatableStates /\ outcome = "EXECUTE"
             /\ activeTargets' = activeTargets \cup {TargetOf[i]}
             /\ records' = [records EXCEPT ![i] = Validated(r, outcome, c)]
    <3>1. Validated(r, "EXECUTE", c).state = "AUTHORIZED" /\ Validated(r, "EXECUTE", c).class = "other"
      BY <2>1 DEF Validated, StateAfter, Record
    <3>2. Locks(i)
      BY <1>0, <2>1, <2>4, <2>5, <3>1 DEF Locks
    <3> QED BY <2>1, <3>2 DEF Goal
  <2> QED BY <1>1, <1>2, <2>1, <2>3, <2>4, <2>5
<1>7. ASSUME NEW w \in Workers, NEW i \in Intents, SubmitAdmit(w, i) PROVE Goal
  <2>1. UNCHANGED activeTargets
    BY <1>7 DEF SubmitAdmit, Admit
  <2>2. \/ UNCHANGED records
        \/ records[i].state = "ABSENT" /\ records' = [records EXCEPT ![i] = Created(i)]
    BY <1>7, AdmitSteps DEF CommitInv
  <2> QED BY <1>1, <1>2, <2>1, <2>2
<1>8. ASSUME NEW w \in Workers, SubmitClaim(w) PROVE Goal
  <2>1. records[worker[w].id].state # "AUTHORIZED"
    BY <1>8 DEF SubmitClaim, FenceInv, SoleClaim
  <2>2. UNCHANGED runtimeVars \/ LifecycleRevoke(worker[w].id)
    BY <1>8 DEF SubmitClaim
  <2> QED BY <1>0, <1>1, <1>5, <2>1, <2>2 DEF runtimeVars
<1>9. ASSUME NEW w \in Workers, WorkerStep(w) PROVE Goal
  <2>1. CASE CommitRecord(w) \/ ReleaseEffect(w)
    BY <1>0, <1>3, <1>4, <2>1 DEF CommitRecord, ReleaseEffect
  <2>2. CASE \/ SubmitFence(w) \/ SubmitFenceInstall(w) \/ SubmitFenceInit(w) \/ SubmitRegister(w)
             \/ SubmitInstall(w) \/ SubmitReply(w) \/ StopUpdate(w) \/ StopLog(w)
             \/ ReadBack(w) \/ InstallBack(w) \/ CommitStore(w)
    BY <1>0, <1>1, <2>2 DEF SubmitFence, SubmitFenceInstall, SubmitFenceInit, SubmitRegister,
                      SubmitInstall, SubmitReply, StopUpdate, StopLog, ReadBack, InstallBack,
                      CommitStore, InstallSnapshot, runtimeVars
  <2> QED BY <1>6, <1>8, <1>9, <2>1, <2>2 DEF WorkerStep
<1>10. ASSUME NEW w \in Workers, Request(w) PROVE Goal
  <2>1. ASSUME NEW i \in Intents, NEW released, NEW scope, NEW v, NEW effect,
               ReleaseRequest(w, i, released, scope, v, effect)
        PROVE  Goal
    BY <1>3, <2>1 DEF ReleaseRequest
  <2>2. ASSUME NEW i \in Intents, CommitStart(w, i) PROVE Goal
    BY <1>1, <1>3, <2>2 DEF CommitStart, runtimeVars
  <2>3. CASE GetSnapshot(w) \/ \E p, v : PostUpdate(w, p, v)
    BY <1>1, <2>3 DEF GetSnapshot, PostUpdate, runtimeVars
  <2> QED BY <1>7, <1>10, <2>1, <2>2, <2>3 DEF Request
<1>11. ASSUME NEW i \in Intents, \/ WithheldRequest(i) \/ RevokeRequest(i)
                                 \/ \E status : EffectRequest(i, status)
       PROVE  Goal
  BY <1>1, <1>3, <1>4, <1>11 DEF WithheldRequest, RevokeRequest, EffectRequest, runtimeVars
<1>12. Tick \/ Outage \/ UNCHANGED vars => Goal
  BY <1>1 DEF Tick, Outage, vars, runtimeVars
<1>13. Restart \/ Goal
  BY <1>9, <1>10, <1>11, <1>12 DEF Next
<1> QED BY <1>13 DEF Goal

\* While the store answers, no target stays locked without an intent whose
\* report or revoke gives the lock back, for any number of intents that
\* contend for it and across restarts.
THEOREM LocksCovered ==
  ASSUME ~Outages
  PROVE  Spec => []LockCovered
<1>1. Init => LockCovered
  BY DEF Init, RuntimeInit, LockCovered
<1>2. ServerTypeOK /\ CommitInv /\ FenceInv /\ LockCovered /\ [Next]_vars => LockCovered'
  <2> SUFFICES ASSUME ServerTypeOK, CommitInv, FenceInv, LockCovered, [Next]_vars
               PROVE  LockCovered'
    OBVIOUS
  <2>1. CASE Restart
    BY <2>1 DEF Restart, RuntimeRestart, LockCovered
  <2>2. ASSUME NEW i \in Intents, Locks(i) PROVE LockCovered'
    <3> SUFFICES ASSUME NEW x \in activeTargets'
                 PROVE  \E j \in Intents : /\ TargetOf[j] = x /\ records'[j].state = "AUTHORIZED"
                                           /\ records'[j].class = "other"
      BY DEF LockCovered
    <3>1. CASE x \in activeTargets
      <4>1. PICK j \in Intents : /\ TargetOf[j] = x /\ records[j].state = "AUTHORIZED"
                                 /\ records[j].class = "other"
        BY <3>1 DEF LockCovered
      <4>2. CASE j # i
        BY <2>2, <4>1, <4>2 DEF Locks
      <4>3. CASE j = i
        BY <2>2, <4>1, <4>3 DEF Locks
      <4> QED BY <4>2, <4>3
    <3>2. CASE x \notin activeTargets
      BY <2>2, <3>2 DEF Locks
    <3> QED BY <3>1, <3>2
  <2> QED BY <2>1, <2>2, LockSteps
<1> QED BY <1>1, <1>2, ServerTypeCorrect, CommitInvariant, FenceInvariant, PTL DEF Spec

-----------------------------------------------------------------------------
(* Grants *)

\* Intents that are not stops do not contend for a target.
OwnTargets ==
  \A S \in StopPolicies : \A i, j \in Intents \ S : TargetOf[i] = TargetOf[j] => i = j

\* The points of a submission: past the claim, all, and those of a stop.
ClaimedPoints == {"fence", "fence_install", "fence_init", "fence_read", "fence_got",
                  "register", "install", "process", "reprocess", "reply"}
AskPoints == {"claim"} \cup ClaimedPoints
HaltPoints == {"stop_process", "stop_update", "stop_read", "stop_got", "stop_log"}

\* Worker w submits an intent that is not a stop.
Asks(w) == worker[w].pc \in AskPoints /\ worker[w].id \notin stopClass

\* The intent cannot find its own target locked, and never did.
Unlocked(i) ==
  /\ TargetOf[i] \in activeTargets => records[i].state \notin ValidatableStates \cup {"ABSENT"}
  /\ records[i].state # "DELAYED"

\* The inductive invariant behind GrantOnce: a locked target's intent is past
\* validation, so none finds its own target taken; who is past the claim has the
\* claim and no grant yet, and submits alone; a grant rests on a claim.
GrantInv ==
  /\ \A i \in Intents \ stopClass :
       /\ Unlocked(i)
       /\ grants[i] # 0 => grants[i] = 1 /\ i \in claims
  /\ \A w \in Workers : Asks(w) /\ worker[w].pc # "claim" =>
       worker[w].id \in claims /\ grants[worker[w].id] = 0
  /\ \A u, w \in Workers : Asks(u) /\ Asks(w) /\ worker[u].id = worker[w].id => u = w
  /\ \A w \in Workers : worker[w].pc \in HaltPoints => worker[w].id \in stopClass

\* What the one worker that moves does.
AskTurn(w) ==
  \/ worker'[w].pc \notin AskPoints \cup HaltPoints
  \/ /\ worker[w].pc \in AskPoints /\ worker'[w].pc \in ClaimedPoints
     /\ worker'[w].id = worker[w].id
     /\ At(w, "claim") => worker[w].id \notin claims /\ worker[w].id \in claims'
  \/ /\ worker[w].pc \in HaltPoints /\ worker'[w].pc \in HaltPoints \cup {"reply"}
     /\ worker'[w].id = worker[w].id
  \/ \E i \in Intents :
       /\ SubmitAdmit(w, i) /\ worker'[w].id = i
       /\ \/ worker'[w].pc = "claim" /\ ~IsDuplicate(i, 0)
          \/ worker'[w].pc = "fence" /\ i \notin stopClass /\ records[i].state = "DELAYED"
          \/ worker'[w].pc = "stop_process" /\ i \in stopClass

\* A step moves one worker at most, unless it is a restart.
LEMMA AskTurns ==
  ASSUME ServerTypeOK, [Next]_vars
  PROVE  \/ UNCHANGED worker
         \/ Restart
         \/ \E w \in Workers : /\ AskTurn(w)
                               /\ \A u \in Workers : u # w => worker'[u] = worker[u]
<1> DEFINE Only(w) == \A u \in Workers : u # w => worker'[u] = worker[u]
           Goal == \/ UNCHANGED worker
                   \/ Restart
                   \/ \E w \in Workers : AskTurn(w) /\ Only(w)
<1>0. worker \in [Workers -> Service]
  BY DEF ServerTypeOK
<1>1. ASSUME NEW w \in Workers, NEW s, worker' = [worker EXCEPT ![w] = s]
      PROVE  Only(w) /\ worker'[w] = s
  BY <1>0, <1>1
<1>2. ASSUME NEW w \in Workers, NEW s, worker' = [worker EXCEPT ![w] = s],
             s.pc \notin AskPoints \cup HaltPoints
      PROVE  Goal
  <2>1. AskTurn(w)
    BY <1>1, <1>2 DEF AskTurn
  <2> QED BY <1>1, <1>2, <2>1
<1>3. ASSUME NEW w \in Workers, NEW pc, Goto(w, pc) \/ Keep(w, pc) \/ Take(w, pc)
      PROVE  worker'[w].pc = pc /\ worker'[w].id = worker[w].id /\ Only(w)
  <2>0. worker[w] \in Service
    BY <1>0
  <2>1. CASE Goto(w, pc)
    <3>1. worker'[w] = [Free EXCEPT !.pc = pc, !.id = worker[w].id] /\ Only(w)
      BY <1>0, <2>1 DEF Goto
    <3> QED BY <3>1 DEF Free
  <2>2. CASE Keep(w, pc)
    BY <1>0, <2>0, <2>2 DEF Keep, Service
  <2>3. CASE Take(w, pc)
    BY <1>0, <2>0, <2>3 DEF Take, Service
  <2> QED BY <1>3, <2>1, <2>2, <2>3
<1> HIDE DEF Only
<1>4. ASSUME NEW w \in Workers, NEW pc, Goto(w, pc) \/ Keep(w, pc) \/ Take(w, pc),
             \/ pc \notin AskPoints \cup HaltPoints
             \/ /\ worker[w].pc \in AskPoints /\ pc \in ClaimedPoints
                /\ At(w, "claim") => worker[w].id \notin claims /\ worker[w].id \in claims'
             \/ worker[w].pc \in HaltPoints /\ pc \in HaltPoints \cup {"reply"}
      PROVE  Goal
  <2>1. AskTurn(w)
    BY <1>3, <1>4 DEF AskTurn
  <2> QED BY <1>3, <1>4, <2>1
<1>5. ASSUME NEW w \in Workers, Done(w) PROVE Goal
  <2>1. Free.pc \notin AskPoints \cup HaltPoints
    BY DEF Free, AskPoints, ClaimedPoints, HaltPoints
  <2> QED BY <1>2, <1>5, <2>1 DEF Done
<1> HIDE DEF Goal
<1>6. ASSUME NEW w \in Workers, SubmitClaim(w) PROVE Goal
  <2>1. \/ Done(w)
        \/ /\ At(w, "claim") /\ Goto(w, "fence")
           /\ worker[w].id \notin claims /\ worker[w].id \in claims'
    BY <1>6 DEF SubmitClaim, Claim
  <2> QED BY <1>4, <1>5, <2>1 DEF At, AskPoints, ClaimedPoints
<1>7. ASSUME NEW w \in Workers, \/ SubmitFence(w) \/ SubmitFenceInstall(w) \/ SubmitFenceInit(w)
                                \/ SubmitRegister(w) \/ SubmitInstall(w) \/ SubmitProcess(w)
      PROVE  Goal
  <2>1. \/ Done(w)
        \/ /\ worker[w].pc \in ClaimedPoints
           /\ \E pc \in ClaimedPoints : Goto(w, pc) \/ Keep(w, pc) \/ Take(w, pc)
    BY <1>7 DEF SubmitFence, SubmitFenceInstall, SubmitFenceInit, SubmitRegister, SubmitInstall,
                SubmitProcess, At, ClaimedPoints
  <2>2. worker[w].pc \in ClaimedPoints => worker[w].pc \in AskPoints /\ ~At(w, "claim")
    BY DEF ClaimedPoints, AskPoints, At
  <2> QED BY <1>4, <1>5, <2>1, <2>2
<1>8. ASSUME NEW w \in Workers, StopProcess(w) \/ StopUpdate(w) \/ StopLog(w) PROVE Goal
  <2>1. /\ worker[w].pc \in HaltPoints
        /\ \E pc \in HaltPoints \cup {"reply"} : Goto(w, pc)
    BY <1>8 DEF StopProcess, StopUpdate, StopLog, At, HaltPoints
  <2> QED BY <1>4, <2>1
<1>9. ASSUME NEW w \in Workers, ReadBack(w) \/ InstallBack(w) PROVE Goal
  <2>1. \/ Done(w)
        \/ Take(w, "post_got")
        \/ At(w, "fence_read") /\ Take(w, "fence_got")
        \/ worker[w].pc \in {"fence_read", "fence_got"} /\ Goto(w, "register")
        \/ At(w, "stop_read") /\ Take(w, "stop_got")
        \/ worker[w].pc \in {"stop_read", "stop_got"} /\ Goto(w, "stop_log")
    BY <1>9 DEF ReadBack, InstallBack, Return, At
  <2> QED BY <1>4, <1>5, <2>1 DEF At, AskPoints, ClaimedPoints, HaltPoints
<1>10. ASSUME NEW w \in Workers, \/ SubmitReply(w) \/ CommitRecord(w) \/ ReleaseEffect(w)
                                 \/ GetSnapshot(w) \/ \E p, v : PostUpdate(w, p, v)
       PROVE  Goal
  <2>1. Done(w) \/ Take(w, "post_got") \/ Goto(w, "post_read")
    BY <1>10 DEF SubmitReply, CommitRecord, ReleaseEffect, GetSnapshot, PostUpdate
  <2>2. {"post_got", "post_read"} \cap (AskPoints \cup HaltPoints) = {}
    BY DEF AskPoints, ClaimedPoints, HaltPoints
  <2> QED BY <1>4, <1>5, <2>1, <2>2
<1>11. ASSUME NEW w \in Workers, CommitStore(w) PROVE Goal
  <2>1. \E st, q : worker' = [worker EXCEPT ![w] = [Free EXCEPT !.pc = "record",
                                !.id = worker[w].id, !.status = st, !.seq = q]]
    BY <1>11 DEF CommitStore
  <2>2. \A st, q : [Free EXCEPT !.pc = "record", !.id = worker[w].id, !.status = st,
                                !.seq = q].pc \notin AskPoints \cup HaltPoints
    BY DEF Free, AskPoints, ClaimedPoints, HaltPoints
  <2> QED BY <1>2, <2>1, <2>2
<1>12. ASSUME NEW w \in Workers, NEW i \in Intents, SubmitAdmit(w, i) PROVE Goal
  <2>0. worker[w] \in Service
    BY <1>0
  <2> DEFINE duplicate == IsDuplicate(i, 0)
             revalidate == duplicate /\ records[i].state = "DELAYED"
             pc == CASE i \in stopClass -> "stop_process"
                     [] i \notin stopClass /\ revalidate -> "fence"
                     [] OTHER -> "claim"
             s == [worker[w] EXCEPT !.pc = pc, !.id = i]
  <2>1. \/ UNCHANGED worker
        \/ ~(duplicate /\ ~revalidate) /\ worker' = [worker EXCEPT ![w] = s]
    BY <1>0, <1>12 DEF SubmitAdmit
  <2>2. \/ pc = "stop_process" /\ i \in stopClass
        \/ pc = "fence" /\ i \notin stopClass /\ revalidate
        \/ pc = "claim" /\ ~revalidate
    OBVIOUS
  <2>3. s.pc = pc /\ s.id = i
    BY <2>0 DEF Service
  <2> HIDE DEF pc, s, duplicate
  <2>4. ASSUME ~(duplicate /\ ~revalidate), worker' = [worker EXCEPT ![w] = s] PROVE Goal
    <3>1. worker'[w].pc = pc /\ worker'[w].id = i /\ Only(w)
      BY <1>1, <2>3, <2>4
    <3>2. AskTurn(w)
      BY <1>12, <2>2, <2>4, <3>1 DEF AskTurn, duplicate
    <3> QED BY <3>1, <3>2 DEF Goal
  <2> QED BY <2>1, <2>4 DEF Goal
<1>13. ASSUME NEW w \in Workers, NEW i \in Intents, CommitStart(w, i) PROVE Goal
  <2> DEFINE s == [worker[w] EXCEPT !.pc = "commit", !.id = i, !.reads = RecordedReadSet(i),
                                    !.expected = records[i].readSetVersion]
  <2>1. UNCHANGED worker \/ worker' = [worker EXCEPT ![w] = s]
    BY <1>0, <1>13 DEF CommitStart
  <2>2. s.pc \notin AskPoints \cup HaltPoints
    BY <1>0 DEF Service, AskPoints, ClaimedPoints, HaltPoints
  <2> HIDE DEF s
  <2> QED BY <1>2, <2>1, <2>2 DEF Goal
<1>14. ASSUME NEW w \in Workers, NEW i \in Intents, NEW released, NEW scope, NEW v, NEW effect,
              ReleaseRequest(w, i, released, scope, v, effect)
       PROVE  Goal
  <2> DEFINE s == [worker[w] EXCEPT !.pc = "effect", !.id = i, !.effect = effect]
  <2>1. UNCHANGED worker \/ worker' = [worker EXCEPT ![w] = s]
    BY <1>0, <1>14 DEF ReleaseRequest
  <2>2. s.pc \notin AskPoints \cup HaltPoints
    BY <1>0 DEF Service, AskPoints, ClaimedPoints, HaltPoints
  <2> HIDE DEF s
  <2> QED BY <1>2, <2>1, <2>2 DEF Goal
<1>15. ASSUME NEW w \in Workers, WorkerStep(w) \/ Request(w) PROVE Goal
  <2>1. WorkerStep(w) => Goal
    BY <1>6, <1>7, <1>8, <1>9, <1>10, <1>11 DEF WorkerStep
  <2>2. Request(w) => Goal
    BY <1>10, <1>12, <1>13, <1>14 DEF Request
  <2> QED BY <1>15, <2>1, <2>2
<1>16. ASSUME NEW i \in Intents, \/ WithheldRequest(i) \/ RevokeRequest(i)
                                 \/ \E status : EffectRequest(i, status)
       PROVE  UNCHANGED worker
  BY <1>16 DEF WithheldRequest, RevokeRequest, EffectRequest, serverVars
<1>17. Tick \/ Outage \/ UNCHANGED vars => UNCHANGED worker
  BY DEF Tick, Outage, vars, serverVars
<1>18. Goal
  BY <1>15, <1>16, <1>17 DEF Next, Goal
<1> QED BY <1>18 DEF Goal, Only

\* Claims stay, and a grant is made by the reply of one worker.
LEMMA GrantSteps ==
  ASSUME ServerTypeOK, [Next]_vars
  PROVE  /\ claims \subseteq claims'
         /\ \/ UNCHANGED grants
            \/ \E w \in Workers : At(w, "reply") /\ Done(w) /\ Grant(worker[w].id)
<1> DEFINE Goal == /\ claims \subseteq claims'
                   /\ \/ UNCHANGED grants
                      \/ \E w \in Workers : At(w, "reply") /\ Done(w) /\ Grant(worker[w].id)
<1>1. ASSUME UNCHANGED <<storeVars, grants>> PROVE Goal
  BY <1>1 DEF storeVars
<1>2. ASSUME UNCHANGED <<claims, grants>> PROVE Goal
  BY <1>2
<1>3. \A p, v : TryUpdate(p, v) => UNCHANGED claims
  BY DEF TryUpdate, Update, storeVars
<1>4. ASSUME NEW w \in Workers, SubmitReply(w) PROVE Goal
  BY <1>4 DEF SubmitReply, storeVars
<1>5. ASSUME NEW w \in Workers, SubmitClaim(w) PROVE Goal
  BY <1>5 DEF SubmitClaim, Claim, storeVars
<1> HIDE DEF Goal
<1>6. ASSUME NEW w \in Workers, \/ SubmitFenceInit(w) \/ StopUpdate(w) \/ \E p, v : PostUpdate(w, p, v)
      PROVE  Goal
  <2>1. UNCHANGED <<claims, grants>>
    BY <1>3, <1>6 DEF SubmitFenceInit, StopUpdate, PostUpdate, storeVars
  <2> QED BY <1>2, <2>1
<1>7. ASSUME NEW w \in Workers, StopLog(w) \/ CommitStore(w) PROVE Goal
  <2>1. UNCHANGED <<claims, grants>>
    BY <1>7 DEF StopLog, CommitStore, AppendActuation, Commit, storeVars, logVars
  <2> QED BY <1>2, <2>1
<1>8. ASSUME NEW w \in Workers,
             \/ SubmitFence(w) \/ SubmitFenceInstall(w) \/ SubmitRegister(w) \/ SubmitInstall(w)
             \/ SubmitProcess(w) \/ StopProcess(w) \/ ReadBack(w) \/ InstallBack(w)
             \/ CommitRecord(w) \/ ReleaseEffect(w) \/ GetSnapshot(w)
             \/ \E i : SubmitAdmit(w, i) \/ CommitStart(w, i)
             \/ \E i, released, scope, v, effect : ReleaseRequest(w, i, released, scope, v, effect)
      PROVE  Goal
  <2>1. UNCHANGED <<storeVars, grants>>
    BY <1>8 DEF SubmitFence, SubmitFenceInstall, SubmitRegister, SubmitInstall, SubmitProcess,
                StopProcess, ReadBack, InstallBack, CommitRecord, ReleaseEffect, GetSnapshot,
                SubmitAdmit, CommitStart, ReleaseRequest
  <2> QED BY <1>1, <2>1
<1>9. ASSUME NEW i \in Intents, \/ WithheldRequest(i) \/ RevokeRequest(i)
                                \/ \E status : EffectRequest(i, status)
      PROVE  Goal
  <2>1. UNCHANGED <<claims, grants>>
    BY <1>9 DEF WithheldRequest, RevokeRequest, EffectRequest, AppendActuation, serverVars, storeVars
  <2> QED BY <1>2, <2>1
<1>10. ASSUME Tick \/ Outage \/ Restart \/ UNCHANGED vars PROVE Goal
  <2>1. UNCHANGED <<claims, grants>>
    BY <1>10 DEF Tick, Outage, StoreDown, StoreUp, Restart, vars, serverVars, storeVars
  <2> QED BY <1>2, <2>1
<1>11. ASSUME NEW w \in Workers, WorkerStep(w) \/ Request(w) PROVE Goal
  <2>1. WorkerStep(w) => Goal
    BY <1>4, <1>5, <1>6, <1>7, <1>8 DEF WorkerStep
  <2>2. Request(w) => Goal
    BY <1>6, <1>8 DEF Request
  <2> QED BY <1>11, <2>1, <2>2
<1>12. Goal
  BY <1>9, <1>10, <1>11 DEF Next
<1> QED BY <1>12 DEF Goal

\* Only a validation pass locks a target.
LEMMA LocksTaken ==
  ASSUME [Next]_vars, \A w \in Workers : ~SubmitProcess(w) /\ ~StopProcess(w)
  PROVE  activeTargets' \subseteq activeTargets
<1> DEFINE Goal == activeTargets' \subseteq activeTargets
<1>1. UNCHANGED runtimeVars => Goal
  BY DEF runtimeVars
<1>2. \A i : \/ LifecycleRevoke(i) \/ SupervisoryRevoke(i) \/ \E ok, q : RecordCommit(i, ok, q)
             \/ \E released, scope, v : ReportRelease(i, released, scope, v)
             \/ \E status : ReportEffect(i, status)
             => Goal
  BY DEF LifecycleRevoke, SupervisoryRevoke, RecordCommit, ReportRelease, ReportEffect, ReleaseTarget
<1>3. \A v : InstallSnapshot(v) => Goal
  BY DEF InstallSnapshot
<1>4. \A i : Admit(i, 0) => Goal
  BY DEF Admit
<1>5. RuntimeRestart => Goal
  BY DEF RuntimeRestart
<1> HIDE DEF Goal
<1>6. ASSUME NEW w \in Workers, WorkerStep(w) PROVE Goal
  BY <1>1, <1>2, <1>3, <1>6
     DEF WorkerStep, SubmitClaim, SubmitFence, SubmitFenceInstall, SubmitFenceInit, SubmitRegister,
         SubmitInstall, SubmitReply, StopUpdate, StopLog, ReadBack, InstallBack, CommitStore,
         CommitRecord, ReleaseEffect
<1>7. ASSUME NEW w \in Workers, Request(w) PROVE Goal
  BY <1>1, <1>2, <1>4, <1>7 DEF Request, SubmitAdmit, CommitStart, PostUpdate, ReleaseRequest, GetSnapshot
<1>8. ASSUME NEW i \in Intents, \/ WithheldRequest(i) \/ RevokeRequest(i)
                                \/ \E status : EffectRequest(i, status)
      PROVE  Goal
  BY <1>1, <1>2, <1>8 DEF WithheldRequest, RevokeRequest, EffectRequest
<1>9. Tick \/ Outage \/ Restart \/ UNCHANGED vars => Goal
  BY <1>1, <1>5 DEF Tick, Outage, Restart, vars
<1>10. Goal
  BY <1>6, <1>7, <1>8, <1>9 DEF Next
<1> QED BY <1>10 DEF Goal

\* No intent finds its own target locked.
LEMMA UnlockedStep ==
  ASSUME OwnTargets, ServerTypeOK, CommitInv, \A i \in Intents \ stopClass : Unlocked(i),
         [Next]_vars, ~Restart
  PROVE  \A i \in Intents \ stopClass : Unlocked(i)'
<1>0. /\ records \in [Intents -> Record] /\ stopClass \in StopPolicies
      /\ \A w \in Workers : worker[w].id \in Intents
  BY DEF ServerTypeOK, RuntimeTypeOK, Service
<1> SUFFICES ASSUME NEW i \in Intents \ stopClass PROVE Unlocked(i)'
  OBVIOUS
<1>1. ASSUME activeTargets' \subseteq activeTargets, records'[i] = records[i] PROVE Unlocked(i)'
  BY <1>1 DEF Unlocked
<1>2. ASSUME NEW w \in Workers, SubmitProcess(w) \/ StopProcess(w) PROVE Unlocked(i)'
  <2> DEFINE j == worker[w].id
             c == CheckOn(w, j)
             r == records[j]
             outcome == Decide(r, j, c)
  <2>1. j \in Intents /\ r.state # "ABSENT" /\ r \in Record
    BY <1>0, <1>2 DEF SubmitProcess, StopProcess, At, CommitInv, Handling, PostPoints
  <2>2. ProcessIntent(j, c)
    BY <1>2 DEF SubmitProcess, StopProcess
  <2>3. \/ UNCHANGED <<records, activeTargets>>
        \/ /\ j \in stopClass /\ UNCHANGED activeTargets
           /\ records' = [records EXCEPT ![j] = AuthorizeStop(r)]
        \/ UNCHANGED activeTargets /\ records' = [records EXCEPT ![j] = RevokeStale(r)]
        \/ /\ j \notin stopClass /\ r.state \in ValidatableStates
           /\ records' = [records EXCEPT ![j] = Validated(r, outcome, c)]
           /\ activeTargets' = IF outcome = "EXECUTE" THEN activeTargets \cup {TargetOf[j]}
                                                      ELSE activeTargets
    BY <2>1, <2>2 DEF ProcessIntent
  <2> HIDE DEF c
  <2>4. CASE UNCHANGED <<records, activeTargets>>
    BY <1>1, <2>4
  <2>5. CASE /\ j \in stopClass /\ UNCHANGED activeTargets
             /\ records' = [records EXCEPT ![j] = AuthorizeStop(r)]
    BY <1>0, <1>1, <2>5
  <2>6. CASE UNCHANGED activeTargets /\ records' = [records EXCEPT ![j] = RevokeStale(r)]
    <3>1. RevokeStale(r).state = "REVOKED"
      BY <2>1 DEF RevokeStale, Record
    <3>2. CASE i = j
      BY <1>0, <2>6, <3>1, <3>2 DEF Unlocked, ValidatableStates
    <3>3. CASE i # j
      BY <1>0, <1>1, <2>6, <3>3
    <3> QED BY <3>2, <3>3
  <2>7. CASE /\ j \notin stopClass /\ r.state \in ValidatableStates
             /\ records' = [records EXCEPT ![j] = Validated(r, outcome, c)]
             /\ activeTargets' = IF outcome = "EXECUTE" THEN activeTargets \cup {TargetOf[j]}
                                                        ELSE activeTargets
    <3>1. TargetOf[j] \notin activeTargets
      BY <2>1, <2>7 DEF Unlocked
    <3>2. outcome \in {"REVOKE", "DEGRADE", "EXECUTE"}
      BY <3>1 DEF Decide
    <3>3. /\ Validated(r, outcome, c).state = StateAfter(outcome, c)
          /\ StateAfter(outcome, c) # "DELAYED"
          /\ outcome = "EXECUTE" => StateAfter(outcome, c) = "AUTHORIZED"
      BY <2>1, <3>2 DEF Validated, StateAfter, Record
    <3> HIDE DEF outcome
    <3>4. CASE i = j
      <4>1. records'[i].state = StateAfter(outcome, c)
        BY <1>0, <2>7, <3>3, <3>4
      <4> QED BY <2>7, <3>1, <3>3, <3>4, <4>1 DEF Unlocked, ValidatableStates
    <3>5. CASE i # j
      <4>1. TargetOf[i] # TargetOf[j] /\ records'[i] = records[i]
        BY <1>0, <2>1, <2>7, <3>5 DEF OwnTargets
      <4> QED BY <2>7, <4>1 DEF Unlocked
    <3> QED BY <3>4, <3>5
  <2> QED BY <2>3, <2>4, <2>5, <2>6, <2>7
<1>3. CASE \A w \in Workers : ~SubmitProcess(w) /\ ~StopProcess(w)
  <2>1. activeTargets' \subseteq activeTargets
    BY <1>3, LocksTaken
  <2>2. ASSUME NEW w \in Workers, NEW j \in Intents, SubmitAdmit(w, j) PROVE Unlocked(i)'
    <3>1. \/ UNCHANGED records
          \/ records[j].state = "ABSENT" /\ records' = [records EXCEPT ![j] = Created(j)]
      BY <2>2, AdmitSteps DEF CommitInv
    <3>2. Created(j).state = "CREATED"
      BY DEF Created, Absent
    <3> QED BY <1>0, <1>1, <2>1, <3>1, <3>2 DEF Unlocked
  <2>3. ASSUME Settles(records[i], records'[i]) PROVE Unlocked(i)'
    BY <1>1, <2>1, <2>3 DEF Settles, Unlocked, ValidatableStates
  <2> QED BY <1>3, <2>2, <2>3, RecordSteps
<1> QED BY <1>2, <1>3

LEMMA GrantInvStep ==
  ASSUME OneStopPolicy, OwnTargets, ServerTypeOK, CommitInv, GrantInv, [Next]_vars
  PROVE  GrantInv'
<1>0. /\ worker \in [Workers -> Service] /\ \A w \in Workers : worker[w].id \in Intents
      /\ grants \in [Intents -> 0..2] /\ stopClass \in StopPolicies
  BY DEF ServerTypeOK, RuntimeTypeOK, Service
<1>1. CASE Restart
  <2>1. /\ records' = [i \in Intents |-> Absent] /\ activeTargets' = {} /\ stopClass' \in StopPolicies
        /\ worker' = [w \in Workers |-> Free] /\ UNCHANGED <<claims, grants>>
    BY <1>1 DEF Restart, RuntimeRestart, storeVars
  <2>2. stopClass' = stopClass
    BY <1>0, <2>1 DEF OneStopPolicy
  <2>3. Free.pc \notin AskPoints \cup HaltPoints
    BY DEF Free, AskPoints, ClaimedPoints, HaltPoints
  <2>4. \A w \in Workers : ~Asks(w)' /\ worker'[w].pc \notin HaltPoints
    BY <2>1, <2>3 DEF Asks
  <2>5. \A i \in Intents : Unlocked(i)'
    BY <2>1 DEF Unlocked, Absent
  <2> QED BY <2>1, <2>2, <2>4, <2>5 DEF GrantInv
<1>2. CASE ~Restart
  <2>1. stopClass' = stopClass /\ claims \subseteq claims'
    BY <1>2, RecordEvolves, GrantSteps
  <2>2. \A i \in Intents \ stopClass : Unlocked(i)'
    BY <1>2, UnlockedStep DEF GrantInv
  <2>3. ASSUME NEW w \in Workers, worker'[w].pc \in HaltPoints
        PROVE  worker'[w].id \in stopClass
    <3>1. CASE worker'[w] = worker[w]
      BY <2>3, <3>1 DEF GrantInv
    <3>2. CASE AskTurn(w)
      BY <2>3, <3>2 DEF AskTurn, GrantInv, AskPoints, ClaimedPoints, HaltPoints
    <3> QED BY <1>2, <3>1, <3>2, AskTurns
  \* a worker that newly asks does so for an id without a record
  <2>4. ASSUME NEW w \in Workers, Asks(w)'
        PROVE  \/ Asks(w) /\ worker'[w].id = worker[w].id
               \/ /\ worker'[w].pc = "claim" /\ records[worker'[w].id].state = "ABSENT"
                  /\ \A u \in Workers : u # w => worker'[u] = worker[u]
    <3>0. worker'[w].pc \in AskPoints /\ worker'[w].id \notin stopClass
      BY <2>1, <2>4 DEF Asks
    <3>1. CASE worker'[w] = worker[w]
      BY <3>0, <3>1 DEF Asks
    <3>2. CASE AskTurn(w) /\ \A u \in Workers : u # w => worker'[u] = worker[u]
      <4>1. CASE /\ worker[w].pc \in AskPoints /\ worker'[w].id = worker[w].id
        BY <3>0, <4>1 DEF Asks
      <4>2. ~(worker[w].pc \in HaltPoints /\ worker'[w].id = worker[w].id)
        BY <3>0 DEF GrantInv
      <4>3. ASSUME NEW i \in Intents, SubmitAdmit(w, i), worker'[w].id = i,
                   \/ worker'[w].pc = "claim" /\ ~IsDuplicate(i, 0)
                   \/ worker'[w].pc = "fence" /\ i \notin stopClass /\ records[i].state = "DELAYED"
                   \/ worker'[w].pc = "stop_process" /\ i \in stopClass
            PROVE  worker'[w].pc = "claim" /\ records[i].state = "ABSENT"
        <5>1. worker'[w].pc = "claim" /\ ~IsDuplicate(i, 0)
          BY <3>0, <4>3 DEF GrantInv, Unlocked
        <5>2. Admit(i, 0)
          BY <4>3 DEF SubmitAdmit
        <5>3. ~Known(i)
          BY <5>1, <5>2, AdmitAtOnce DEF ServerTypeOK
        <5> QED BY <5>1, <5>3 DEF Known, CommitInv
      <4> QED BY <3>0, <3>2, <4>1, <4>2, <4>3 DEF AskTurn
    <3> QED BY <1>2, <3>1, <3>2, AskTurns
  <2>5. ASSUME NEW w \in Workers, Asks(w) PROVE records[worker[w].id].state # "ABSENT"
    BY <2>5 DEF Asks, CommitInv, Handling, AskPoints, ClaimedPoints, PostPoints
  <2>6. ASSUME NEW u \in Workers, NEW w \in Workers, Asks(u)', Asks(w)',
               worker'[u].id = worker'[w].id
        PROVE  u = w
    <3>1. CASE Asks(u) /\ worker'[u].id = worker[u].id /\ Asks(w) /\ worker'[w].id = worker[w].id
      BY <2>6, <3>1 DEF GrantInv
    <3>2. ASSUME NEW x \in Workers, NEW y \in Workers, x # y, Asks(y)', worker'[y].id = worker'[x].id,
                 records[worker'[x].id].state = "ABSENT", worker'[y] = worker[y]
          PROVE  FALSE
      <4>1. Asks(y)
        BY <2>1, <3>2 DEF Asks
      <4> QED BY <2>5, <3>2, <4>1
    <3>3. (Asks(u) /\ worker'[u].id = worker[u].id) \/ u = w
      BY <2>4, <2>6, <3>2
    <3>4. (Asks(w) /\ worker'[w].id = worker[w].id) \/ u = w
      BY <2>4, <2>6, <3>2
    <3> QED BY <3>1, <3>3, <3>4
  \* past the claim, the claim is there and no grant was made
  <2>7. ASSUME NEW w \in Workers, Asks(w)', worker'[w].pc # "claim"
        PROVE  worker'[w].id \in claims' /\ grants[worker'[w].id] = 0
    <3>1. Asks(w) /\ worker'[w].id = worker[w].id
      BY <2>4, <2>7
    <3>2. CASE worker[w].pc # "claim"
      BY <2>1, <3>1, <3>2 DEF GrantInv
    <3>3. CASE worker[w].pc = "claim"
      <4>1. worker'[w] # worker[w] /\ worker[w].pc \in AskPoints
        BY <2>7, <3>1, <3>3 DEF Asks
      <4>2. AskTurn(w)
        BY <1>2, <4>1, AskTurns
      <4>3. worker'[w].pc \in AskPoints /\ worker[w].pc \notin HaltPoints /\ ~(\E i \in Intents : SubmitAdmit(w, i))
        BY <2>7, <3>3 DEF Asks, HaltPoints, SubmitAdmit, At
      <4>4. worker[w].id \notin claims /\ worker[w].id \in claims'
        BY <3>3, <4>2, <4>3 DEF AskTurn, At
      <4>5. worker[w].id \in Intents \ stopClass
        BY <1>0, <3>1 DEF Asks
      <4> QED BY <3>1, <4>4, <4>5 DEF GrantInv
    <3> QED BY <3>2, <3>3
  <2>8. CASE UNCHANGED grants
    <3>1. \A i \in Intents \ stopClass : grants'[i] # 0 => grants'[i] = 1 /\ i \in claims'
      BY <2>1, <2>8 DEF GrantInv
    <3> QED BY <2>1, <2>2, <2>3, <2>6, <2>7, <2>8, <3>1 DEF GrantInv
  <2>9. ASSUME NEW w \in Workers, At(w, "reply"), Done(w), Grant(worker[w].id) PROVE GrantInv'
    <3> DEFINE j == worker[w].id
    <3>1. /\ \A i \in Intents : i # j => grants'[i] = grants[i]
          /\ grants[j] = 0 => grants'[j] = 1
      BY <1>0, <2>9 DEF Grant
    <3>2. worker'[w] = Free /\ Free.pc \notin AskPoints
      BY <1>0, <2>9 DEF Done, Free, AskPoints, ClaimedPoints
    <3>3. j \notin stopClass => j \in claims /\ grants[j] = 0 /\ Asks(w)
      BY <2>9 DEF At, Asks, AskPoints, ClaimedPoints, GrantInv
    <3> HIDE DEF j
    <3>4. \A i \in Intents \ stopClass : grants'[i] # 0 => grants'[i] = 1 /\ i \in claims'
      <4> SUFFICES ASSUME NEW i \in Intents \ stopClass
                   PROVE  grants'[i] # 0 => grants'[i] = 1 /\ i \in claims'
        OBVIOUS
      <4>1. CASE i = j
        BY <2>1, <3>1, <3>3, <4>1
      <4>2. CASE i # j
        BY <2>1, <3>1, <4>2 DEF GrantInv
      <4> QED BY <4>1, <4>2
    <3>5. ASSUME NEW u \in Workers, Asks(u)', worker'[u].pc # "claim"
          PROVE  worker'[u].id \in claims' /\ grants'[worker'[u].id] = 0
      <4>1. u # w
        BY <3>2, <3>5 DEF Asks
      <4>2. Asks(u) /\ worker'[u].id = worker[u].id
        BY <2>4, <3>5
      <4>3. worker[u].id # j
        BY <3>3, <4>1, <4>2 DEF GrantInv, Asks, j
      <4> QED BY <1>0, <2>7, <3>1, <3>5, <4>2, <4>3
    <3> QED BY <2>1, <2>2, <2>3, <2>6, <3>4, <3>5 DEF GrantInv
  <2> QED BY <2>8, <2>9, GrantSteps
<1> QED BY <1>1, <1>2

\* Where no two intents contend for a target, a producer is told at most once to
\* act on an intent, for any number of concurrent submissions of its id, outages,
\* lost answers to the claim and restarts that forget every record.
THEOREM GrantsOnce ==
  ASSUME OneStopPolicy, OwnTargets
  PROVE  Spec => []GrantOnce
<1>1. Init => GrantInv
  <2> SUFFICES ASSUME Init PROVE GrantInv
    OBVIOUS
  <2>1. /\ records = [i \in Intents |-> Absent] /\ activeTargets = {}
        /\ worker = [w \in Workers |-> Free] /\ grants = [i \in Intents |-> 0]
    BY DEF Init, RuntimeInit
  <2>2. Free.pc \notin AskPoints \cup HaltPoints
    BY DEF Free, AskPoints, ClaimedPoints, HaltPoints
  <2>3. \A i \in Intents : Unlocked(i)
    BY <2>1 DEF Unlocked, Absent
  <2>4. \A w \in Workers : ~Asks(w) /\ worker[w].pc \notin HaltPoints
    BY <2>1, <2>2 DEF Asks
  <2>5. \A i \in Intents : grants[i] = 0
    BY <2>1
  <2> QED BY <2>3, <2>4, <2>5 DEF GrantInv
<1>2. GrantInv => GrantOnce
  BY DEF GrantInv, GrantOnce
<1>3. GrantInv /\ ServerTypeOK /\ CommitInv /\ [Next]_vars => GrantInv'
  BY GrantInvStep
<1> QED BY <1>1, <1>2, <1>3, ServerTypeCorrect, CommitInvariant, PTL DEF Spec

-----------------------------------------------------------------------------
(* Batches: types *)

FencePoints == {"fence", "fence_install", "fence_init", "fence_read", "fence_got",
                "register", "install", "process", "reprocess"}
StopPoints == {"stop_process", "stop_update", "stop_read", "stop_got", "stop_log"}
CommitPoints == {"idle", "commit", "record"}
BatchPoints == FencePoints \cup StopPoints \cup CommitPoints \cup {"batch", "revoke", "reply"}

\* the request a worker serves, and what is left of its batch
Call ==
  [pc: BatchPoints, id: Intents, snapshot: Documents, reads: SUBSET Paths,
   expected: Versions, status: Statuses, seq: {NoSeq} \cup LogPositions,
   effect: Effects \cup {"NONE"}]

Portions ==
  [open: BOOLEAN, install: BOOLEAN, stops: SUBSET Intents, refuse: SUBSET Intents,
   win: SUBSET Intents, mine: SUBSET Intents, halted: SUBSET Targets, trusted: BOOLEAN]

BatchTypes ==
  /\ RuntimeTypeOK
  /\ Snapshot \in Documents
  /\ actuations \in Seq(LogEntry) /\ Len(actuations) <= MaxLog
  /\ up \in BOOLEAN
  /\ now \in Nat
  /\ worker \in [Workers -> Call]
  /\ stopLock \in Workers \cup {NoWorker}
  /\ batch \in [Workers -> Portions]
  /\ \A w \in Workers : Serving(w) <=> worker[w].pc \notin CommitPoints
  /\ local \in Documents

\* Worker w moves to a call of the right type, the others stay.
Moved(w) ==
  /\ worker' \in [Workers -> Call]
  /\ \A u \in Workers \ {w} : worker'[u] = worker[u]

\* The ways a handler goes on.
LEMMA BatchMoves ==
  ASSUME worker \in [Workers -> Call], Snapshot \in Documents, NEW w \in Workers,
         NEW pc \in BatchPoints
  PROVE  /\ Goto(w, pc) => Moved(w) /\ worker'[w].pc = pc /\ worker'[w].id = worker[w].id
         /\ Keep(w, pc) => Moved(w) /\ worker'[w].pc = pc /\ worker'[w].id = worker[w].id
         /\ Take(w, pc) => Moved(w) /\ worker'[w].pc = pc /\ worker'[w].id = worker[w].id
         /\ Done(w) => Moved(w) /\ worker'[w].pc = "idle"
         /\ Resume(w) => Moved(w) /\ worker'[w].pc = "batch"
         /\ \A i \in Intents : worker' = [worker EXCEPT ![w] = [Free EXCEPT !.pc = pc, !.id = i]]
              => Moved(w) /\ worker'[w].pc = pc /\ worker'[w].id = i
         /\ \A s \in Documents :
              worker' = [worker EXCEPT ![w] = [Free EXCEPT !.pc = pc, !.snapshot = s]]
              => Moved(w) /\ worker'[w].pc = pc
<1>1. Free \in Call /\ Free.pc = "idle"
  <2>1. Free \in Service
    BY FreeTypes
  <2>2. Free.pc = "idle"
    BY DEF Free
  <2> QED BY <2>1, <2>2 DEF Service, Call, BatchPoints, CommitPoints
<1>2. worker[w] \in Call /\ "batch" \in BatchPoints
  BY DEF BatchPoints
<1>3. ASSUME NEW s \in Call, worker' = [worker EXCEPT ![w] = s]
      PROVE  Moved(w) /\ worker'[w] = s
  BY <1>3 DEF Moved
<1>4. ASSUME NEW q \in BatchPoints, NEW i \in Intents
      PROVE  LET s == [Free EXCEPT !.pc = q, !.id = i] IN s \in Call /\ s.pc = q /\ s.id = i
  BY <1>1 DEF Call
<1>5. ASSUME NEW q \in BatchPoints
      PROVE  LET s == [Free EXCEPT !.pc = q] IN s \in Call /\ s.pc = q
  BY <1>1 DEF Call
<1>6. ASSUME NEW q \in BatchPoints, NEW d \in Documents
      PROVE  LET s == [Free EXCEPT !.pc = q, !.snapshot = d] IN s \in Call /\ s.pc = q
  BY <1>1 DEF Call
<1>7. LET s == [worker[w] EXCEPT !.pc = pc] IN s \in Call /\ s.pc = pc /\ s.id = worker[w].id
  BY <1>2 DEF Call
<1>8. LET s == [worker[w] EXCEPT !.pc = pc, !.snapshot = Snapshot]
      IN s \in Call /\ s.pc = pc /\ s.id = worker[w].id
  BY <1>2 DEF Call
<1>9. worker[w].id \in Intents
  BY <1>2 DEF Call
<1>10. Goto(w, pc) => Moved(w) /\ worker'[w].pc = pc /\ worker'[w].id = worker[w].id
  <2> DEFINE s == [Free EXCEPT !.pc = pc, !.id = worker[w].id]
  <2>1. s \in Call /\ s.pc = pc /\ s.id = worker[w].id
    BY <1>4, <1>9
  <2>2. Goto(w, pc) => worker' = [worker EXCEPT ![w] = s]
    BY DEF Goto
  <2> HIDE DEF s
  <2> QED BY <1>3, <2>1, <2>2
<1>11. Keep(w, pc) => Moved(w) /\ worker'[w].pc = pc /\ worker'[w].id = worker[w].id
  BY <1>3, <1>7 DEF Keep
<1>12. Take(w, pc) => Moved(w) /\ worker'[w].pc = pc /\ worker'[w].id = worker[w].id
  BY <1>3, <1>8 DEF Take
<1>13. Done(w) => Moved(w) /\ worker'[w].pc = "idle"
  BY <1>3, <1>1 DEF Done
<1>14. Resume(w) => Moved(w) /\ worker'[w].pc = "batch"
  BY <1>3, <1>2, <1>5 DEF Resume
<1>15. ASSUME NEW i \in Intents, worker' = [worker EXCEPT ![w] = [Free EXCEPT !.pc = pc, !.id = i]]
       PROVE  Moved(w) /\ worker'[w].pc = pc /\ worker'[w].id = i
  BY <1>3, <1>4, <1>15
<1>16. ASSUME NEW s \in Documents,
              worker' = [worker EXCEPT ![w] = [Free EXCEPT !.pc = pc, !.snapshot = s]]
       PROVE  Moved(w) /\ worker'[w].pc = pc
  BY <1>3, <1>6, <1>16
<1> QED BY <1>10, <1>11, <1>12, <1>13, <1>14, <1>15, <1>16

\* The ways the rest of a batch changes.
LEMMA PortionMoves ==
  ASSUME batch \in [Workers -> Portions], NEW w \in Workers
  PROVE  /\ NoBatch \in Portions /\ NoBatch.mine = {} /\ NoBatch.win = {} /\ ~NoBatch.open
         /\ NoBatch.stops = {} /\ NoBatch.refuse = {}
         /\ batch' = [batch EXCEPT ![w] = NoBatch] =>
              /\ batch' \in [Workers -> Portions] /\ batch'[w] = NoBatch
              /\ \A u \in Workers \ {w} : batch'[u] = batch[u]
<1>1. NoBatch \in Portions
  BY DEF NoBatch, Portions
<1>2. /\ NoBatch.mine = {} /\ NoBatch.win = {} /\ ~NoBatch.open
      /\ NoBatch.stops = {} /\ NoBatch.refuse = {}
  BY DEF NoBatch
<1> QED BY <1>1, <1>2


-----------------------------------------------------------------------------
(* Batches: what a step may do *)

\* Only worker w and its batch move.
Alone(w) ==
  /\ Moved(w)
  /\ batch' \in [Workers -> Portions]
  /\ \A u \in Workers \ {w} : batch'[u] = batch[u]

SameIntents == UNCHANGED <<records, seen, activeTargets>>
SamePortion(w) ==
  /\ batch'[w].open = batch[w].open
  /\ batch'[w].stops = batch[w].stops
  /\ batch'[w].refuse = batch[w].refuse
  /\ batch'[w].win = batch[w].win
  /\ batch'[w].mine = batch[w].mine
  /\ batch'[w].halted = batch[w].halted

\* A batch arrives and is sorted.
Arrives(w) ==
  /\ Alone(w) /\ SameIntents
  /\ At(w, "idle") /\ worker'[w].pc = "batch"
  /\ batch'[w].open /\ batch'[w].mine = {}
  /\ batch'[w].stops \subseteq stopClass
  /\ batch'[w].refuse \cap stopClass = {} /\ batch'[w].win \cap stopClass = {}
  /\ \A i \in batch'[w].win : TargetOf[i] \notin batch'[w].halted
  /\ \A i, j \in batch'[w].win : TargetOf[i] = TargetOf[j] => i = j

\* One of its intents is admitted, and served next if it is this batch's.
Admits(w, i) ==
  /\ Alone(w) /\ Admit(i, 0)
  /\ At(w, "batch") /\ worker'[w].id = i
  /\ batch'[w].open = batch[w].open
  /\ batch'[w].stops \subseteq batch[w].stops
  /\ batch'[w].refuse \subseteq batch[w].refuse
  /\ batch'[w].win \subseteq batch[w].win
  /\ batch'[w].halted = batch[w].halted
  /\ batch'[w].mine = IF Known(i) THEN batch[w].mine ELSE batch[w].mine \cup {i}
  /\ \/ worker'[w].pc = "batch" /\ Known(i)
     \/ worker'[w].pc = "stop_process" /\ i \in batch[w].stops
     \/ worker'[w].pc = "revoke" /\ ~Known(i) /\ i \in batch[w].refuse
     \/ worker'[w].pc = "fence" /\ ~Known(i) /\ i \in batch[w].win

\* A call goes on and leaves the intents alone.
GoesOn(w) ==
  /\ Alone(w) /\ SameIntents /\ SamePortion(w)
  /\ \/ At(w, "batch") /\ worker'[w].pc = "batch"
     \/ /\ worker[w].pc \in FencePoints /\ worker'[w].pc \in FencePoints
        /\ worker'[w].id = worker[w].id
     \/ /\ worker[w].pc \in StopPoints /\ worker'[w].pc \in StopPoints \cup {"reply"}
        /\ worker'[w].id = worker[w].id
     \/ worker[w].pc \in CommitPoints /\ worker'[w].pc \in CommitPoints

\* Its intent is validated.
Validates(w) ==
  /\ Alone(w) /\ SamePortion(w)
  /\ \E c \in Checks : ProcessIntent(worker[w].id, c)
  /\ worker'[w].id = worker[w].id
  /\ \/ At(w, "stop_process") /\ worker'[w].pc = "stop_update"
     \/ /\ At(w, "process") /\ worker'[w].pc = "reprocess"
        /\ records'[worker[w].id].state = "DEGRADED"
     \/ worker[w].pc \in {"process", "reprocess"} /\ worker'[w].pc = "reply"

\* A commit is recorded, or refused before the store is asked.
RecordsCommit(w) ==
  /\ Alone(w) /\ SamePortion(w)
  /\ worker[w].pc \in CommitPoints /\ worker'[w].pc = "idle"
  /\ \E i \in Intents, done \in BOOLEAN, n \in {NoSeq} \cup LogPositions : RecordCommit(i, done, n)

\* A refused intent is revoked; if it was before, the batch ends.
Refuses(w) ==
  /\ Alone(w)
  /\ At(w, "revoke") /\ LifecycleRevoke(worker[w].id)
  /\ \/ /\ "REVOKED" \in Allowed(records[worker[w].id].state)
        /\ worker'[w].pc = "batch" /\ SamePortion(w)
     \/ worker'[w].pc = "idle" /\ batch'[w] = NoBatch

\* The lock of an authorized winner is given back.
GivesBack(w) ==
  /\ Alone(w) /\ SamePortion(w) /\ UNCHANGED <<records, seen>>
  /\ At(w, "reply") /\ worker'[w].pc = "batch"
  /\ activeTargets' = IF worker[w].id \notin stopClass /\ records[worker[w].id].state = "AUTHORIZED"
                      THEN activeTargets \ {TargetOf[worker[w].id]} ELSE activeTargets

\* The batch is answered.
Answers(w) ==
  /\ Alone(w) /\ SameIntents
  /\ At(w, "batch") /\ worker'[w].pc = "idle" /\ batch'[w] = NoBatch

\* No worker moves: a revoke, a write of another process, an outage.
Outside ==
  /\ UNCHANGED <<worker, batch>>
  /\ SameIntents \/ \E i \in Intents : SupervisoryRevoke(i)

Kinds(w) ==
  \/ Arrives(w)
  \/ \E i \in Intents : Admits(w, i)
  \/ GoesOn(w)
  \/ Validates(w)
  \/ RecordsCommit(w)
  \/ Refuses(w)
  \/ GivesBack(w)
  \/ Answers(w)

LEMMA ArriveSteps ==
  ASSUME BatchTypes, NEW w \in Workers, NEW B \in Batches, NEW win \in SUBSET B,
         BatchStart(w, B, win)
  PROVE  Arrives(w)
<1> DEFINE stops == B \cap stopClass
           halted == {TargetOf[s] : s \in stops}
           others == IF up THEN B \ stopClass ELSE {}
           free == {i \in others : TargetOf[i] \notin halted}
           b == [NoBatch EXCEPT !.open = TRUE, !.install = up, !.stops = stops,
                                !.refuse = others \ win, !.win = win, !.halted = halted]
           d == IF up THEN Snapshot ELSE EmptySnapshot
<1>1. B \subseteq Intents /\ TargetOf \in [Intents -> Targets] /\ up \in BOOLEAN
      /\ worker \in [Workers -> Call] /\ batch \in [Workers -> Portions] /\ Snapshot \in Documents
  BY BatchAssumption, RuntimeAssumption DEF BatchTypes
<1>2. /\ At(w, "idle") /\ Resolves(win, free)
      /\ worker' = [worker EXCEPT ![w] = [Free EXCEPT !.pc = "batch", !.snapshot = d]]
      /\ batch' = [batch EXCEPT ![w] = b]
      /\ SameIntents
  BY DEF BatchStart, runtimeVars, SameIntents
<1>3. d \in Documents /\ "batch" \in BatchPoints
  BY <1>1, FreeTypes DEF BatchPoints
<1>4. Moved(w) /\ worker'[w].pc = "batch"
  BY <1>1, <1>2, <1>3, BatchMoves
<1>5. /\ win \subseteq free
      /\ \A i, j \in win : TargetOf[i] = TargetOf[j] => i = j
  BY <1>2 DEF Resolves
<1>6. halted \subseteq Targets /\ free \subseteq B \ stopClass /\ others \ win \subseteq B \ stopClass
  BY <1>1
<1>7. \A i \in win : TargetOf[i] \notin halted
  BY <1>5
<1>8. NoBatch \in Portions /\ NoBatch.mine = {}
  BY <1>1, PortionMoves
<1>9. /\ b \in Portions /\ b.open /\ b.mine = {} /\ b.stops = stops
      /\ b.refuse = others \ win /\ b.win = win /\ b.halted = halted
  <2>1. stops \in SUBSET Intents /\ others \ win \in SUBSET Intents /\ win \in SUBSET Intents
        /\ halted \in SUBSET Targets
    BY <1>1, <1>5, <1>6
  <2> HIDE DEF stops, others, halted
  <2> QED BY <1>1, <1>8, <2>1 DEF Portions
<1> HIDE DEF b
<1>10. batch' \in [Workers -> Portions] /\ batch'[w] = b /\ \A u \in Workers \ {w} : batch'[u] = batch[u]
  BY <1>1, <1>2, <1>9
<1> QED BY <1>2, <1>4, <1>5, <1>6, <1>7, <1>9, <1>10 DEF Arrives, Alone


LEMMA AdmitBatch ==
  ASSUME BatchTypes, NEW w \in Workers, BatchStop(w) \/ BatchRefuse(w) \/ BatchWin(w)
  PROVE  \E i \in Intents : Admits(w, i)
<1>0. /\ worker \in [Workers -> Call] /\ batch \in [Workers -> Portions] /\ Snapshot \in Documents
      /\ RuntimeTypeOK /\ batch[w] \in Portions
  BY DEF BatchTypes
<1>1. ASSUME NEW i \in Intents, NEW loop \in {"stops", "refuse", "win"}, NEW pc \in BatchPoints,
             BatchAdmit(w, i, loop, pc), At(w, "batch"),
             \/ pc = "batch" /\ IsDuplicate(i, 0)
             \/ pc = "stop_process" /\ i \in batch[w].stops
             \/ pc = "revoke" /\ ~IsDuplicate(i, 0) /\ i \in batch[w].refuse
             \/ pc = "fence" /\ ~IsDuplicate(i, 0) /\ i \in batch[w].win
      PROVE  Admits(w, i)
  <2> DEFINE b == [batch[w] EXCEPT ![loop] = @ \ {i},
                     !.mine = IF ~IsDuplicate(i, 0) THEN @ \cup {i} ELSE @]
  <2>0. batch' = [batch EXCEPT ![w] = b]
    BY <1>0, <1>1, Zenon DEF BatchAdmit
  <2>1. /\ Admit(i, 0) /\ batch' = [batch EXCEPT ![w] = b]
        /\ worker' = [worker EXCEPT ![w] = [Free EXCEPT !.pc = pc, !.id = i]]
    BY <1>1, <2>0, Zenon DEF BatchAdmit
  <2>2. IsDuplicate(i, 0) <=> Known(i)
    BY <1>0, <2>1, AdmitAtOnce
  <2>3. Moved(w) /\ worker'[w].pc = pc /\ worker'[w].id = i
    BY <1>0, <1>1, <2>1, BatchMoves, Zenon
  <2>4. /\ b \in Portions /\ b.open = batch[w].open /\ b.stops \subseteq batch[w].stops
        /\ b.refuse \subseteq batch[w].refuse /\ b.win \subseteq batch[w].win
        /\ b.halted = batch[w].halted
        /\ b.mine = IF Known(i) THEN batch[w].mine ELSE batch[w].mine \cup {i}
    <3>1. CASE loop = "stops"
      BY <1>0, <2>2, <3>1 DEF Portions
    <3>2. CASE loop = "refuse"
      BY <1>0, <2>2, <3>2 DEF Portions
    <3>3. CASE loop = "win"
      BY <1>0, <2>2, <3>3 DEF Portions
    <3> QED BY <3>1, <3>2, <3>3
  <2> HIDE DEF b
  <2>5. /\ batch' \in [Workers -> Portions] /\ batch'[w] = b
        /\ \A u \in Workers \ {w} : batch'[u] = batch[u]
    BY <1>0, <2>1, <2>4
  <2> QED BY <1>1, <2>1, <2>2, <2>3, <2>4, <2>5 DEF Admits, Alone
<1>2. {"batch", "stop_process", "revoke", "fence"} \subseteq BatchPoints
  BY DEF BatchPoints, StopPoints, FencePoints
<1>3. CASE BatchStop(w)
  <2>1. PICK s \in batch[w].stops :
          BatchAdmit(w, s, "stops", IF ~IsDuplicate(s, 0) \/ records[s].state = "CREATED"
                                    THEN "stop_process" ELSE "batch")
    BY <1>3 DEF BatchStop
  <2>2. s \in Intents /\ At(w, "batch")
    BY <1>0, <1>3 DEF Portions, BatchStop, Between
  <2>3. CASE ~IsDuplicate(s, 0) \/ records[s].state = "CREATED"
    BY <1>1, <1>2, <2>1, <2>2, <2>3
  <2>4. CASE ~(~IsDuplicate(s, 0) \/ records[s].state = "CREATED")
    BY <1>1, <1>2, <2>1, <2>2, <2>4
  <2> QED BY <2>3, <2>4
<1>4. CASE BatchRefuse(w)
  <2>1. PICK i \in batch[w].refuse :
          BatchAdmit(w, i, "refuse", IF IsDuplicate(i, 0) THEN "batch" ELSE "revoke")
    BY <1>4 DEF BatchRefuse
  <2>2. i \in Intents /\ At(w, "batch")
    BY <1>0, <1>4 DEF Portions, BatchRefuse, Between
  <2>3. CASE IsDuplicate(i, 0)
    BY <1>1, <1>2, <2>1, <2>2, <2>3
  <2>4. CASE ~IsDuplicate(i, 0)
    BY <1>1, <1>2, <2>1, <2>2, <2>4
  <2> QED BY <2>3, <2>4
<1>5. CASE BatchWin(w)
  <2>1. PICK i \in batch[w].win :
          BatchAdmit(w, i, "win", IF IsDuplicate(i, 0) THEN "batch" ELSE "fence")
    BY <1>5 DEF BatchWin
  <2>2. i \in Intents /\ At(w, "batch")
    BY <1>0, <1>5 DEF Portions, BatchWin, Between
  <2>3. CASE IsDuplicate(i, 0)
    BY <1>1, <1>2, <2>1, <2>2, <2>3
  <2>4. CASE ~IsDuplicate(i, 0)
    BY <1>1, <1>2, <2>1, <2>2, <2>4
  <2> QED BY <2>3, <2>4
<1> QED BY <1>3, <1>4, <1>5

\* A step that leaves the batch as it is.
LEMMA SameBatch ==
  ASSUME batch \in [Workers -> Portions], NEW w \in Workers, Moved(w), UNCHANGED batch
  PROVE  Alone(w) /\ SamePortion(w)
BY DEF Alone, SamePortion

LEMMA FenceGoesOn ==
  ASSUME BatchTypes, NEW w \in Workers,
         \/ /\ SubmitFence(w) \/ SubmitFenceInstall(w) \/ SubmitFenceInit(w) \/ SubmitInstall(w)
            /\ UNCHANGED batch
         \/ BatchRegister(w)
  PROVE  GoesOn(w)
<1>0. /\ worker \in [Workers -> Call] /\ batch \in [Workers -> Portions] /\ Snapshot \in Documents
      /\ FencePoints \subseteq BatchPoints /\ up \in BOOLEAN /\ local \in Documents
      /\ worker[w] \in Call /\ batch[w] \in Portions
  BY DEF BatchTypes, BatchPoints
<1>1. SameIntents
  BY DEF SubmitFence, SubmitFenceInstall, SubmitFenceInit, SubmitInstall, BatchRegister,
         InstallSnapshot, runtimeVars, SameIntents
<1>2. CASE SubmitFence(w) /\ UNCHANGED batch
  <2>1. At(w, "fence") /\ (Take(w, "fence_install") \/ Goto(w, "register"))
    BY <1>2 DEF SubmitFence
  <2> QED BY <1>0, <1>1, <1>2, <2>1, BatchMoves, SameBatch DEF GoesOn, FencePoints, At
<1>3. CASE SubmitFenceInstall(w) /\ UNCHANGED batch
  <2>1. At(w, "fence_install") /\ (Goto(w, "fence_init") \/ Goto(w, "register"))
    BY <1>3 DEF SubmitFenceInstall
  <2> QED BY <1>0, <1>1, <1>3, <2>1, BatchMoves, SameBatch DEF GoesOn, FencePoints, At
<1>4. CASE SubmitFenceInit(w) /\ UNCHANGED batch
  <2>1. At(w, "fence_init") /\ Goto(w, "fence_read")
    BY <1>4 DEF SubmitFenceInit
  <2> QED BY <1>0, <1>1, <1>4, <2>1, BatchMoves, SameBatch DEF GoesOn, FencePoints, At
<1>5. CASE SubmitInstall(w) /\ UNCHANGED batch
  <2>1. At(w, "install") /\ Keep(w, "process")
    BY <1>5 DEF SubmitInstall
  <2> QED BY <1>0, <1>1, <1>5, <2>1, BatchMoves, SameBatch DEF GoesOn, FencePoints, At
<1>6. CASE BatchRegister(w)
  <2>1. /\ At(w, "register") /\ batch' = [batch EXCEPT ![w].trusted = up]
        /\ \/ Take(w, "install")
           \/ worker' = [worker EXCEPT ![w].pc = "process", ![w].snapshot = local]
    BY <1>6 DEF BatchRegister
  <2>2. [batch[w] EXCEPT !.trusted = up] \in Portions
    BY <1>0 DEF Portions
  <2>3. /\ batch' \in [Workers -> Portions] /\ \A u \in Workers \ {w} : batch'[u] = batch[u]
        /\ batch'[w] = [batch[w] EXCEPT !.trusted = up]
    BY <1>0, <2>1, <2>2
  <2>4. SamePortion(w)
    BY <1>0, <2>3 DEF SamePortion, Portions
  <2>5. CASE Take(w, "install")
    BY <1>0, <1>1, <2>1, <2>3, <2>4, <2>5, BatchMoves DEF GoesOn, FencePoints, At, Alone
  <2>6. CASE worker' = [worker EXCEPT ![w].pc = "process", ![w].snapshot = local]
    <3>1. "process" \in BatchPoints
      BY DEF BatchPoints, FencePoints
    <3>2. LET s == [worker[w] EXCEPT !.pc = "process", !.snapshot = local]
          IN s \in Call /\ s.pc = "process" /\ s.id = worker[w].id
      BY <1>0, <3>1 DEF Call
    <3>3. Moved(w) /\ worker'[w].pc = "process" /\ worker'[w].id = worker[w].id
      BY <1>0, <2>6, <3>2 DEF Moved
    <3> QED BY <1>1, <2>1, <2>3, <2>4, <3>3 DEF GoesOn, FencePoints, At, Alone
  <2> QED BY <2>1, <2>5, <2>6
<1> QED BY <1>2, <1>3, <1>4, <1>5, <1>6


LEMMA ReadBackGoesOn ==
  ASSUME BatchTypes, NEW w \in Workers, ReadBack(w) \/ InstallBack(w), UNCHANGED batch
  PROVE  GoesOn(w)
<1>0. /\ worker \in [Workers -> Call] /\ batch \in [Workers -> Portions] /\ Snapshot \in Documents
      /\ FencePoints \subseteq BatchPoints /\ StopPoints \subseteq BatchPoints
  BY DEF BatchTypes, BatchPoints
<1>1. SameIntents
  BY DEF ReadBack, InstallBack, InstallSnapshot, runtimeVars, SameIntents
<1>2. worker[w].pc \in BatchPoints
  BY <1>0 DEF Call
<1>3. worker[w].pc \in {"fence_read", "fence_got", "stop_read", "stop_got"}
  BY <1>2 DEF ReadBack, InstallBack, BatchPoints, FencePoints, StopPoints, CommitPoints
<1>4. CASE worker[w].pc \in {"fence_read", "fence_got"}
  <2>1. Take(w, "fence_got") \/ Goto(w, "register")
    BY <1>4 DEF ReadBack, InstallBack, Return, At
  <2> QED BY <1>0, <1>1, <1>4, <2>1, BatchMoves, SameBatch DEF GoesOn, FencePoints
<1>5. CASE worker[w].pc \in {"stop_read", "stop_got"}
  <2>1. Take(w, "stop_got") \/ Goto(w, "stop_log")
    BY <1>5 DEF ReadBack, InstallBack, Return, At
  <2> QED BY <1>0, <1>1, <1>5, <2>1, BatchMoves, SameBatch DEF GoesOn, StopPoints
<1> QED BY <1>3, <1>4, <1>5

LEMMA StopGoesOn ==
  ASSUME BatchTypes, NEW w \in Workers, StopUpdate(w) \/ StopLog(w), UNCHANGED batch
  PROVE  GoesOn(w)
<1>0. /\ worker \in [Workers -> Call] /\ batch \in [Workers -> Portions] /\ Snapshot \in Documents
      /\ "reply" \in BatchPoints /\ StopPoints \subseteq BatchPoints
  BY DEF BatchTypes, BatchPoints
<1>1. SameIntents
  BY DEF StopUpdate, StopLog, runtimeVars, SameIntents
<1>2. /\ worker[w].pc \in {"stop_update", "stop_log"}
      /\ Goto(w, "stop_read") \/ Goto(w, "reply")
  BY DEF StopUpdate, StopLog, At
<1> QED BY <1>0, <1>1, <1>2, BatchMoves, SameBatch DEF GoesOn, StopPoints

\* What the commit handler takes from the record, and what it brings back.
LEMMA CommitCalls ==
  ASSUME BatchTypes, NEW w \in Workers,
         CommitStore(w) \/ \E i \in Intents : CommitStart(w, i) /\ ~UNCHANGED worker
  PROVE  Moved(w) /\ worker'[w].pc \in CommitPoints /\ worker[w].pc \in CommitPoints /\ SameIntents
<1>0. /\ worker \in [Workers -> Call] /\ worker[w] \in Call /\ records \in [Intents -> Record]
      /\ {"commit", "record"} \subseteq BatchPoints
  BY DEF BatchTypes, RuntimeTypeOK, BatchPoints, CommitPoints
<1>1. ASSUME NEW s \in Call, worker' = [worker EXCEPT ![w] = s]
      PROVE  Moved(w) /\ worker'[w] = s
  BY <1>0, <1>1 DEF Moved
<1>2. CASE CommitStore(w)
  <2>1. PICK st \in Statuses, n \in {NoSeq} \cup LogPositions :
          worker' = [worker EXCEPT ![w] =
            [Free EXCEPT !.pc = "record", !.id = worker[w].id, !.status = st, !.seq = n]]
    <3> DEFINE i == worker[w].id
               status == CommitStatus(i, worker[w].reads, worker[w].expected, Age(i),
                                      ReleaseBound(i) - Eps, Eps)
    <3>1. status \in Statuses /\ "unavailable" \in Statuses
      BY DEF CommitStatus, Statuses
    <3>2. CanAppend => Len(actuations) + 1 \in LogPositions
      BY RuntimeAssumption, LenProperties DEF CanAppend, LogPositions, BatchTypes
    <3> HIDE DEF status
    <3> QED BY <1>2, <3>1, <3>2 DEF CommitStore, status
  <2>2. LET s == [Free EXCEPT !.pc = "record", !.id = worker[w].id, !.status = st, !.seq = n]
        IN s \in Call /\ s.pc = "record"
    BY <1>0, <2>1, FreeTypes DEF Call, Service
  <2>3. SameIntents /\ worker[w].pc = "commit"
    BY <1>2 DEF CommitStore, runtimeVars, SameIntents, At
  <2> QED BY <1>1, <2>1, <2>2, <2>3 DEF CommitPoints
<1>3. ASSUME NEW i \in Intents, CommitStart(w, i), ~UNCHANGED worker
      PROVE  Moved(w) /\ worker'[w].pc \in CommitPoints /\ worker[w].pc \in CommitPoints /\ SameIntents
  <2> DEFINE s == [worker[w] EXCEPT !.pc = "commit", !.id = i, !.reads = RecordedReadSet(i),
                                    !.expected = records[i].readSetVersion]
  <2>1. /\ worker' = [worker EXCEPT ![w].pc = "commit", ![w].id = i,
                                    ![w].reads = RecordedReadSet(i),
                                    ![w].expected = records[i].readSetVersion]
        /\ SameIntents /\ worker[w].pc = "idle"
    BY <1>3 DEF CommitStart, runtimeVars, SameIntents, At
  <2>2. worker' = [worker EXCEPT ![w] = s]
    BY <1>0, <2>1
  <2>3. RecordedReadSet(i) \in SUBSET Paths
    <3>1. (i \in fenceRead) \in BOOLEAN
      OBVIOUS
    <3> QED BY <3>1, ReadSetPaths DEF RecordedReadSet
  <2>4. records[i].readSetVersion \in Versions
    BY <1>0 DEF Record
  <2>5. s \in Call /\ s.pc = "commit"
    BY <1>0, <2>3, <2>4 DEF Call
  <2> HIDE DEF s
  <2> QED BY <1>1, <2>1, <2>2, <2>5 DEF CommitPoints
<1> QED BY <1>2, <1>3


LEMMA ValidateSteps ==
  ASSUME BatchTypes, NEW w \in Workers,
         BatchProcess(w) \/ (StopProcess(w) /\ UNCHANGED batch)
  PROVE  Validates(w)
<1>0. /\ worker \in [Workers -> Call] /\ batch \in [Workers -> Portions] /\ Snapshot \in Documents
      /\ worker[w].id \in Intents /\ worker[w].snapshot \in Documents
      /\ {"reprocess", "reply", "stop_update"} \subseteq BatchPoints
  BY DEF BatchTypes, Call, BatchPoints, FencePoints, StopPoints
<1>1. CheckOn(w, worker[w].id) \in Checks
  BY <1>0, CheckTypes
<1>2. CASE BatchProcess(w)
  <2> DEFINE c == [CheckOn(w, worker[w].id) EXCEPT !.readSetVersion = worker[w].snapshot.version]
  <2>1. c \in Checks
    BY <1>0, <1>1 DEF Checks, Documents
  <2>2. /\ ProcessIntent(worker[w].id, c)
        /\ worker[w].pc \in {"process", "reprocess"} /\ UNCHANGED batch
        /\ \/ At(w, "process") /\ records'[worker[w].id].state = "DEGRADED" /\ Keep(w, "reprocess")
           \/ Goto(w, "reply")
    BY <1>2 DEF BatchProcess
  <2> HIDE DEF c
  <2>3. Moved(w) /\ worker'[w].id = worker[w].id
    BY <1>0, <2>2, BatchMoves
  <2>4. \/ At(w, "process") /\ records'[worker[w].id].state = "DEGRADED" /\ worker'[w].pc = "reprocess"
        \/ worker'[w].pc = "reply"
    BY <1>0, <2>2, BatchMoves
  <2> QED BY <1>0, <2>1, <2>2, <2>3, <2>4, SameBatch DEF Validates
<1>3. CASE StopProcess(w) /\ UNCHANGED batch
  <2>1. /\ ProcessIntent(worker[w].id, CheckOn(w, worker[w].id)) /\ At(w, "stop_process")
        /\ Goto(w, "stop_update")
    BY <1>3 DEF StopProcess
  <2> QED BY <1>0, <1>1, <1>3, <2>1, BatchMoves, SameBatch DEF Validates
<1> QED BY <1>2, <1>3

LEMMA CommitSteps ==
  ASSUME BatchTypes, NEW w \in Workers, UNCHANGED batch,
         CommitRecord(w) \/ CommitStore(w) \/ \E i \in Intents : CommitStart(w, i)
  PROVE  RecordsCommit(w) \/ GoesOn(w)
<1>0. /\ worker \in [Workers -> Call] /\ batch \in [Workers -> Portions] /\ Snapshot \in Documents
      /\ worker[w] \in Call /\ "idle" \in BatchPoints
  BY DEF BatchTypes, BatchPoints, CommitPoints
<1>1. CASE CommitStore(w)
  BY <1>0, <1>1, CommitCalls, SameBatch DEF GoesOn
<1>2. CASE \E i \in Intents : CommitStart(w, i) /\ ~UNCHANGED worker
  BY <1>0, <1>2, CommitCalls, SameBatch DEF GoesOn
<1>3. ASSUME NEW i \in Intents, CommitStart(w, i), UNCHANGED worker
      PROVE  RecordsCommit(w) \/ GoesOn(w)
  <2>1. Moved(w) /\ worker[w].pc = "idle" /\ worker'[w].pc = "idle"
    BY <1>0, <1>3 DEF Moved, CommitStart, At
  <2>2. RecordCommit(i, FALSE, NoSeq) \/ UNCHANGED runtimeVars
    BY <1>3 DEF CommitStart
  <2>3. CASE RecordCommit(i, FALSE, NoSeq)
    BY <1>0, <2>1, <2>3, SameBatch DEF RecordsCommit, CommitPoints
  <2>4. CASE UNCHANGED runtimeVars
    BY <1>0, <2>1, <2>4, SameBatch DEF GoesOn, CommitPoints, SameIntents, runtimeVars
  <2> QED BY <2>2, <2>3, <2>4
<1>4. CASE CommitRecord(w)
  <2> DEFINE done == worker[w].status \in {"committed", "duplicate"}
  <2>1. worker[w].id \in Intents /\ worker[w].seq \in {NoSeq} \cup LogPositions /\ done \in BOOLEAN
    BY <1>0 DEF Call
  <2>2. RecordCommit(worker[w].id, done, worker[w].seq) /\ Done(w) /\ worker[w].pc = "record"
    BY <1>4 DEF CommitRecord, At
  <2> HIDE DEF done
  <2>3. Moved(w) /\ worker'[w].pc = "idle"
    BY <1>0, <2>2, BatchMoves
  <2> QED BY <1>0, <2>1, <2>2, <2>3, SameBatch DEF RecordsCommit, CommitPoints
<1> QED BY <1>1, <1>2, <1>3, <1>4

\* Every step of a worker is of one of the kinds.
LEMMA BatchKinds ==
  ASSUME BatchTypes, NEW w \in Workers, BatchStep(w) \/ InnerStep(w)
  PROVE  Kinds(w)
<1>0. /\ worker \in [Workers -> Call] /\ batch \in [Workers -> Portions] /\ Snapshot \in Documents
      /\ batch[w] \in Portions /\ "batch" \in BatchPoints
  BY DEF BatchTypes, BatchPoints
<1>1. CASE BatchInstall(w)
  <2>1. /\ At(w, "batch") /\ Resume(w) /\ batch' = [batch EXCEPT ![w].install = FALSE]
        /\ SameIntents
    BY <1>1 DEF BatchInstall, Between, InstallSnapshot, SameIntents
  <2>2. [batch[w] EXCEPT !.install = FALSE] \in Portions
    BY <1>0 DEF Portions
  <2>3. /\ batch' \in [Workers -> Portions] /\ \A u \in Workers \ {w} : batch'[u] = batch[u]
        /\ batch'[w] = [batch[w] EXCEPT !.install = FALSE]
    BY <1>0, <2>1, <2>2
  <2>4. SamePortion(w)
    BY <1>0, <2>3 DEF SamePortion, Portions
  <2>5. GoesOn(w)
    BY <1>0, <2>1, <2>3, <2>4, BatchMoves DEF GoesOn, Alone
  <2> QED BY <2>5 DEF Kinds
<1>2. CASE BatchRevoke(w)
  <2>1. /\ At(w, "revoke") /\ LifecycleRevoke(worker[w].id)
        /\ \/ "REVOKED" \in Allowed(records[worker[w].id].state) /\ Resume(w) /\ UNCHANGED batch
           \/ Done(w) /\ batch' = [batch EXCEPT ![w] = NoBatch]
    BY <1>2 DEF BatchRevoke, Abort
  <2>2. Refuses(w)
    <3>1. CASE "REVOKED" \in Allowed(records[worker[w].id].state) /\ Resume(w) /\ UNCHANGED batch
      BY <1>0, <2>1, <3>1, BatchMoves, SameBatch DEF Refuses
    <3>2. CASE Done(w) /\ batch' = [batch EXCEPT ![w] = NoBatch]
      BY <1>0, <2>1, <3>2, BatchMoves, PortionMoves DEF Refuses, Alone
    <3> QED BY <2>1, <3>1, <3>2
  <2> QED BY <2>2 DEF Kinds
<1>3. CASE BatchSettle(w)
  <2>1. /\ At(w, "reply") /\ Resume(w) /\ UNCHANGED <<records, seen, batch>>
        /\ activeTargets' = IF worker[w].id \notin stopClass /\ records[worker[w].id].state = "AUTHORIZED"
                            THEN activeTargets \ {TargetOf[worker[w].id]} ELSE activeTargets
    BY <1>3 DEF BatchSettle, ReleaseTarget
  <2>2. GivesBack(w)
    BY <1>0, <2>1, BatchMoves, SameBatch DEF GivesBack
  <2> QED BY <2>2 DEF Kinds
<1>4. CASE BatchReply(w)
  <2>1. /\ At(w, "batch") /\ Done(w) /\ batch' = [batch EXCEPT ![w] = NoBatch] /\ SameIntents
    BY <1>4 DEF BatchReply, Between, Abort, SameIntents, runtimeVars
  <2>2. Answers(w)
    BY <1>0, <2>1, BatchMoves, PortionMoves DEF Answers, Alone
  <2> QED BY <2>2 DEF Kinds
<1>5. CASE BatchStop(w) \/ BatchRefuse(w) \/ BatchWin(w)
  BY <1>5, AdmitBatch DEF Kinds
<1>6. CASE BatchProcess(w) \/ (StopProcess(w) /\ UNCHANGED batch)
  BY <1>6, ValidateSteps DEF Kinds
<1>7. CASE BatchRegister(w)
  BY <1>7, FenceGoesOn DEF Kinds
<1>8. CASE InnerStep(w) /\ ~StopProcess(w)
  <2>1. GoesOn(w) \/ RecordsCommit(w)
    BY <1>8, FenceGoesOn, ReadBackGoesOn, StopGoesOn, CommitSteps DEF InnerStep
  <2> QED BY <2>1 DEF Kinds
<1>9. InnerStep(w) => UNCHANGED batch
  BY DEF InnerStep
<1> QED BY <1>1, <1>2, <1>3, <1>4, <1>5, <1>6, <1>7, <1>8, <1>9 DEF BatchStep

LEMMA BatchSteps ==
  ASSUME BatchTypes, [BatchNext]_batchVars
  PROVE  /\ stopClass' = stopClass
         /\ Outside \/ \E w \in Workers : Kinds(w)
<1>1. ASSUME NEW w \in Workers,
             \/ \E B \in Batches : \E win \in SUBSET B : BatchStart(w, B, win)
             \/ BatchStep(w) \/ InnerStep(w)
      PROVE  Kinds(w)
  BY <1>1, ArriveSteps, BatchKinds DEF Kinds
<1>2. ASSUME NEW w \in Workers, InnerStep(w) PROVE stopClass' = stopClass
  BY <1>2 DEF InnerStep, StopProcess, StopUpdate, StopLog, SubmitFence, SubmitFenceInstall,
              SubmitFenceInit, SubmitInstall, ReadBack, InstallBack, CommitStart, CommitStore,
              CommitRecord, InstallSnapshot, ProcessIntent, RecordCommit, runtimeVars
<1>3. ASSUME NEW w \in Workers, BatchStep(w) PROVE stopClass' = stopClass
  BY <1>3 DEF BatchStep, BatchInstall, BatchStop, BatchRefuse, BatchWin, BatchAdmit, BatchRevoke,
              BatchRegister, BatchProcess, BatchSettle, BatchReply, InstallSnapshot, Admit,
              LifecycleRevoke, ProcessIntent, runtimeVars
<1>4. ASSUME NEW w \in Workers, NEW B, NEW win, BatchStart(w, B, win) PROVE stopClass' = stopClass
  BY <1>4 DEF BatchStart, runtimeVars
<1>5. ASSUME NEW i \in Intents, RevokeRequest(i), UNCHANGED <<batch, local>>
      PROVE  stopClass' = stopClass /\ Outside
  BY <1>5 DEF RevokeRequest, SupervisoryRevoke, serverVars, Outside
<1>6. ASSUME NEW p \in DataPaths, NEW v \in WrittenValues, OtherWrite(p, v)
      PROVE  stopClass' = stopClass /\ Outside
  BY <1>6 DEF OtherWrite, serverVars, runtimeVars, Outside, SameIntents
<1>7. ASSUME Outage, UNCHANGED <<batch, local>> PROVE stopClass' = stopClass /\ Outside
  BY <1>7 DEF Outage, serverVars, runtimeVars, Outside, SameIntents
<1>8. ASSUME UNCHANGED batchVars PROVE stopClass' = stopClass /\ Outside
  BY <1>8 DEF batchVars, vars, serverVars, runtimeVars, Outside, SameIntents
<1> QED BY <1>1, <1>2, <1>3, <1>4, <1>5, <1>6, <1>7, <1>8 DEF BatchNext


-----------------------------------------------------------------------------
(* Batches: the runtime's steps, and the types *)

\* The handler gives a lock back without the runtime: coordinator.release.
GivenBack ==
  /\ UNCHANGED <<records, seen, contextVersion, stopClass>>
  /\ activeTargets' \subseteq activeTargets

\* Every other step is one of the runtime's methods, or leaves it alone.
LEMMA BatchRuntimeSteps ==
  ASSUME BatchTypes, [BatchNext]_batchVars
  PROVE  [RuntimeNext]_runtimeVars \/ GivenBack
<1>0. RuntimeTypeOK /\ \A w \in Workers : worker[w] \in Call /\ worker[w].snapshot.version \in Versions
  BY DEF BatchTypes, Call, Documents
<1>1. ASSUME NEW w \in Workers,
             BatchInstall(w) \/ SubmitFenceInstall(w) \/ SubmitInstall(w) \/ InstallBack(w)
      PROVE  RuntimeNext
  <2>1. InstallSnapshot(worker[w].snapshot.version)
    BY <1>1 DEF BatchInstall, SubmitFenceInstall, SubmitInstall, InstallBack
  <2> QED BY <1>0, <2>1 DEF RuntimeNext
<1>2. ASSUME NEW w \in Workers, BatchStop(w) \/ BatchRefuse(w) \/ BatchWin(w) PROVE RuntimeNext
  <2>1. PICK i \in Intents : Admit(i, 0)
    BY <1>2, AdmitBatch DEF Admits
  <2>2. 0 \in Lapses
    BY <1>0, LenProperties DEF Lapses, RuntimeTypeOK
  <2> QED BY <2>1, <2>2 DEF RuntimeNext
<1>3. ASSUME NEW w \in Workers, BatchRevoke(w) PROVE RuntimeNext
  <2>1. worker[w].id \in Intents /\ LifecycleRevoke(worker[w].id)
    BY <1>0, <1>3 DEF Call, BatchRevoke
  <2> QED BY <2>1 DEF RuntimeNext
<1>4. ASSUME NEW w \in Workers, BatchProcess(w) \/ (StopProcess(w) /\ UNCHANGED batch)
      PROVE  RuntimeNext
  <2>1. PICK c \in Checks : ProcessIntent(worker[w].id, c)
    BY <1>4, ValidateSteps DEF Validates
  <2>2. worker[w].id \in Intents
    BY <1>0 DEF Call
  <2> QED BY <2>1, <2>2 DEF RuntimeNext
<1>5. ASSUME NEW w \in Workers, UNCHANGED batch,
             CommitRecord(w) \/ CommitStore(w) \/ \E i \in Intents : CommitStart(w, i)
      PROVE  [RuntimeNext]_runtimeVars
  <2>1. \/ UNCHANGED runtimeVars
        \/ \E i \in Intents, done \in BOOLEAN, n \in {NoSeq} \cup LogPositions : RecordCommit(i, done, n)
    <3>1. CASE CommitStore(w)
      BY <3>1 DEF CommitStore
    <3>2. CASE \E i \in Intents : CommitStart(w, i)
      BY <3>2 DEF CommitStart
    <3>3. CASE CommitRecord(w)
      <4> DEFINE done == worker[w].status \in {"committed", "duplicate"}
      <4>1. worker[w].id \in Intents /\ worker[w].seq \in {NoSeq} \cup LogPositions /\ done \in BOOLEAN
        BY <1>0 DEF Call
      <4>2. RecordCommit(worker[w].id, done, worker[w].seq)
        BY <3>3 DEF CommitRecord
      <4> HIDE DEF done
      <4> QED BY <4>1, <4>2
    <3> QED BY <1>5, <3>1, <3>2, <3>3
  <2> QED BY <2>1 DEF RuntimeNext
<1>6. ASSUME NEW w \in Workers, BatchSettle(w) PROVE GivenBack
  BY <1>6 DEF BatchSettle, ReleaseTarget, GivenBack
<1>7. ASSUME NEW w \in Workers,
             \/ \E B, win : BatchStart(w, B, win)
             \/ BatchRegister(w) \/ BatchReply(w) \/ SubmitFence(w) \/ SubmitFenceInit(w)
             \/ StopUpdate(w) \/ StopLog(w) \/ ReadBack(w)
      PROVE  UNCHANGED runtimeVars
  BY <1>7 DEF BatchStart, BatchRegister, BatchReply, SubmitFence, SubmitFenceInit, StopUpdate,
              StopLog, ReadBack
<1>8. ASSUME NEW i \in Intents, RevokeRequest(i) PROVE RuntimeNext
  BY <1>8 DEF RevokeRequest, RuntimeNext
<1>9. ASSUME NEW p, NEW v, OtherWrite(p, v) PROVE UNCHANGED runtimeVars
  BY <1>9 DEF OtherWrite
<1>10. Outage \/ UNCHANGED batchVars => UNCHANGED runtimeVars
  BY DEF Outage, batchVars, vars
<1>11. ASSUME NEW w \in Workers, BatchStep(w) PROVE [RuntimeNext]_runtimeVars \/ GivenBack
  BY <1>11, <1>1, <1>2, <1>3, <1>4, <1>6, <1>7 DEF BatchStep
<1>12. ASSUME NEW w \in Workers, InnerStep(w) PROVE [RuntimeNext]_runtimeVars
  BY <1>12, <1>1, <1>4, <1>5, <1>7 DEF InnerStep
<1> QED BY <1>7, <1>8, <1>9, <1>10, <1>11, <1>12 DEF BatchNext

\* What a step may do to the store.
LEMMA BatchStore ==
  ASSUME BatchTypes, [BatchNext]_batchVars
  PROVE  /\ Snapshot' \in Documents
         /\ actuations' \in Seq(LogEntry) /\ Len(actuations') <= MaxLog
         /\ up' \in BOOLEAN
         /\ now' = now
<1> DEFINE Same == UNCHANGED storeVars
           Written == \E p \in Paths, v \in Int : CanUpdate /\ Update(p, v)
           Appended == \E i \in Intents, kind \in {"auth", "stop"} :
                         /\ CanAppend /\ actuations' = Append(actuations, [id |-> i, kind |-> kind])
                         /\ UNCHANGED <<context, version, pathVersions, up>>
           Switched == up' \in BOOLEAN /\ UNCHANGED <<context, version, pathVersions, actuations>>
<1>0. /\ \A w \in Workers : worker[w].id \in Intents
      /\ \A i \in Intents : StopPathOf(i) \in Paths
      /\ now \in Nat /\ Nat \subseteq Int /\ up \in BOOLEAN
  BY ReadSetPaths DEF BatchTypes, Call
<1>1. ASSUME NEW p \in Paths, NEW v \in Int, TryUpdate(p, v) PROVE Same \/ Written
  BY <1>1 DEF TryUpdate
<1>2. ASSUME NEW w \in Workers, SubmitFenceInit(w) \/ StopUpdate(w)
      PROVE  (Same \/ Written) /\ UNCHANGED now
  <2>1. /\ UNCHANGED now
        /\ \/ UNCHANGED storeVars
           \/ TryUpdate(StopPathOf(worker[w].id), 0)
           \/ TryUpdate(StopPathOf(worker[w].id), now)
    BY <1>2 DEF SubmitFenceInit, StopUpdate
  <2>2. 0 \in Int /\ now \in Int
    BY <1>0
  <2> QED BY <1>0, <1>1, <2>1, <2>2
<1>3. ASSUME NEW w \in Workers, StopLog(w) \/ CommitStore(w)
      PROVE  (Same \/ Appended) /\ UNCHANGED now
  <2>1. CASE StopLog(w)
    BY <1>0, <2>1 DEF StopLog, AppendActuation
  <2>2. CASE CommitStore(w)
    <3>1. \/ UNCHANGED storeVars
          \/ /\ CanAppend /\ actuations' = Append(actuations, [id |-> worker[w].id, kind |-> "auth"])
             /\ UNCHANGED <<context, version, pathVersions, up>>
          \/ UNCHANGED <<context, version, pathVersions, claims, up>> /\ UNCHANGED logVars
      BY <2>2 DEF CommitStore, Commit
    <3>2. UNCHANGED now
      BY <2>2 DEF CommitStore
    <3>3. CASE UNCHANGED <<context, version, pathVersions, claims, up>> /\ UNCHANGED logVars
      BY <3>2, <3>3 DEF storeVars, logVars
    <3> QED BY <1>0, <3>1, <3>2, <3>3
  <2> QED BY <1>3, <2>1, <2>2
<1>4. ASSUME NEW w \in Workers,
             \/ \E B, win : BatchStart(w, B, win)
             \/ BatchInstall(w) \/ BatchStop(w) \/ BatchRefuse(w) \/ BatchRevoke(w) \/ BatchWin(w)
             \/ BatchRegister(w) \/ BatchProcess(w) \/ BatchSettle(w) \/ BatchReply(w)
             \/ StopProcess(w) \/ SubmitFence(w) \/ SubmitFenceInstall(w) \/ SubmitInstall(w)
             \/ ReadBack(w) \/ InstallBack(w) \/ CommitRecord(w)
             \/ \E i : CommitStart(w, i)
      PROVE  Same /\ UNCHANGED now
  BY <1>4 DEF BatchStart, BatchInstall, BatchStop, BatchRefuse, BatchRevoke, BatchWin, BatchAdmit,
              BatchRegister, BatchProcess, BatchSettle, BatchReply, StopProcess, SubmitFence,
              SubmitFenceInstall, SubmitInstall, ReadBack, InstallBack, CommitRecord, CommitStart
<1>5. ASSUME NEW i, RevokeRequest(i) PROVE Same /\ UNCHANGED now
  BY <1>5 DEF RevokeRequest, serverVars
<1>6. ASSUME NEW p \in DataPaths, NEW v \in WrittenValues, OtherWrite(p, v)
      PROVE  Written /\ UNCHANGED now
  <2>1. p \in Paths /\ v \in Int
    BY ServerAssumption DEF DataPaths
  <2> QED BY <1>6, <2>1 DEF OtherWrite, serverVars
<1>7. Outage => Switched /\ UNCHANGED now
  BY DEF Outage, StoreDown, StoreUp, serverVars
<1>8. UNCHANGED batchVars => Same /\ UNCHANGED now
  BY DEF batchVars, vars, serverVars
<1> HIDE DEF Same, Written, Appended, Switched
<1>9. (Same \/ Written \/ Appended \/ Switched) /\ UNCHANGED now
  BY <1>2, <1>3, <1>4, <1>5, <1>6, <1>7, <1>8 DEF BatchNext, BatchStep, InnerStep
<1>10. CASE Same
  BY <1>9, <1>10 DEF Same, storeVars, Snapshot, BatchTypes
<1>11. CASE Written
  <2>1. PICK p \in Paths, v \in Int : CanUpdate /\ Update(p, v)
    BY <1>11 DEF Written
  <2>2. context \in [Paths -> Int] /\ pathVersions \in [Paths -> Versions] /\ version \in Versions
    BY DEF BatchTypes, Snapshot, Documents
  <2>3. version + 1 \in Versions
    BY <2>1, <2>2, RuntimeAssumption DEF CanUpdate, Versions
  <2>4. context' \in [Paths -> Int] /\ pathVersions' \in [Paths -> Versions] /\ version' \in Versions
    BY <2>1, <2>2, <2>3 DEF Update
  <2>5. UNCHANGED <<actuations, up>>
    BY <2>1 DEF Update
  <2> QED BY <1>9, <2>4, <2>5 DEF Snapshot, Documents, BatchTypes
<1>12. CASE Appended
  <2>1. PICK i \in Intents, kind \in {"auth", "stop"} :
          /\ CanAppend /\ actuations' = Append(actuations, [id |-> i, kind |-> kind])
          /\ UNCHANGED <<context, version, pathVersions, up>>
    BY <1>12 DEF Appended
  <2>2. [id |-> i, kind |-> kind] \in LogEntry
    BY DEF LogEntry
  <2>3. actuations' \in Seq(LogEntry) /\ Len(actuations') = Len(actuations) + 1
    BY <2>1, <2>2, AppendProperties DEF BatchTypes
  <2>4. Len(actuations') <= MaxLog
    BY <2>1, <2>3, LenProperties, RuntimeAssumption DEF CanAppend, BatchTypes
  <2> QED BY <1>9, <2>1, <2>3, <2>4 DEF Snapshot, BatchTypes
<1>13. CASE Switched
  BY <1>9, <1>13 DEF Switched, Snapshot, BatchTypes
<1> QED BY <1>9, <1>10, <1>11, <1>12, <1>13


\* The stop lock is free or a worker's, and the client remembers documents.
LEMMA BatchClient ==
  ASSUME BatchTypes, [BatchNext]_batchVars
  PROVE  stopLock' \in Workers \cup {NoWorker} /\ local' \in Documents
<1>0. Snapshot' \in Documents /\ Snapshot \in Documents /\ local \in Documents
      /\ stopLock \in Workers \cup {NoWorker}
  BY BatchStore DEF BatchTypes
<1>1. Remember => local' \in Documents
  BY <1>0 DEF Remember
<1>2. ASSUME NEW w \in Workers, BatchStep(w) \/ InnerStep(w) \/ \E B, win : BatchStart(w, B, win)
      PROVE  stopLock' \in Workers \cup {NoWorker}
  <2>1. CASE BatchStep(w) \/ \E B, win : BatchStart(w, B, win)
    BY <1>0, <2>1 DEF BatchStep, BatchStart, BatchInstall, BatchStop, BatchRefuse, BatchRevoke,
                      BatchWin, BatchAdmit, BatchRegister, BatchProcess, BatchSettle, BatchReply
  <2>2. CASE InnerStep(w)
    BY <1>0, <2>2 DEF InnerStep, StopProcess, StopUpdate, StopLog, SubmitFence, SubmitFenceInstall,
                      SubmitFenceInit, SubmitInstall, ReadBack, InstallBack, Return, CommitStart,
                      CommitStore, CommitRecord
  <2> QED BY <1>2, <2>1, <2>2
<1>3. ASSUME NEW i, RevokeRequest(i) PROVE UNCHANGED stopLock
  BY <1>3 DEF RevokeRequest, serverVars
<1>4. ASSUME NEW p, NEW v, OtherWrite(p, v) PROVE UNCHANGED <<stopLock, local>>
  BY <1>4 DEF OtherWrite, serverVars
<1>5. Outage => UNCHANGED stopLock
  BY DEF Outage, serverVars
<1>6. UNCHANGED batchVars => UNCHANGED <<stopLock, local>>
  BY DEF batchVars, vars, serverVars
<1> QED BY <1>0, <1>1, <1>2, <1>3, <1>4, <1>5, <1>6 DEF BatchNext

\* A worker serves a batch between its arrival and its answer.
LEMMA ServingStep ==
  ASSUME BatchTypes, [BatchNext]_batchVars
  PROVE  /\ worker' \in [Workers -> Call]
         /\ batch' \in [Workers -> Portions]
         /\ \A w \in Workers : Serving(w)' <=> worker'[w].pc \notin CommitPoints
<1>0. /\ worker \in [Workers -> Call] /\ batch \in [Workers -> Portions]
      /\ \A w \in Workers : batch[w].open <=> worker[w].pc \notin CommitPoints
  BY DEF BatchTypes, Serving
<1>1. CASE Outside
  BY <1>0, <1>1 DEF Outside, Serving
<1>2. ASSUME NEW w \in Workers, Kinds(w)
      PROVE  /\ Alone(w)
             /\ batch'[w].open <=> worker'[w].pc \notin CommitPoints
  <2>0. ~NoBatch.open
    BY DEF NoBatch
  <2>1. CASE Arrives(w)
    BY <2>1 DEF Arrives, CommitPoints
  <2>2. CASE \E i \in Intents : Admits(w, i)
    BY <1>0, <2>2 DEF Admits, CommitPoints, At
  <2>3. CASE GoesOn(w)
    BY <1>0, <2>3 DEF GoesOn, SamePortion, CommitPoints, FencePoints, StopPoints, At
  <2>4. CASE Validates(w)
    BY <1>0, <2>4 DEF Validates, SamePortion, CommitPoints, At
  <2>5. CASE RecordsCommit(w)
    BY <1>0, <2>5 DEF RecordsCommit, SamePortion, CommitPoints
  <2>6. CASE Refuses(w)
    BY <1>0, <2>0, <2>6 DEF Refuses, SamePortion, CommitPoints, At
  <2>7. CASE GivesBack(w)
    BY <1>0, <2>7 DEF GivesBack, SamePortion, CommitPoints, At
  <2>8. CASE Answers(w)
    BY <2>0, <2>8 DEF Answers, CommitPoints
  <2> QED BY <1>2, <2>1, <2>2, <2>3, <2>4, <2>5, <2>6, <2>7, <2>8 DEF Kinds
<1>3. ASSUME NEW w \in Workers, Kinds(w)
      PROVE  /\ worker' \in [Workers -> Call]
             /\ batch' \in [Workers -> Portions]
             /\ \A u \in Workers : Serving(u)' <=> worker'[u].pc \notin CommitPoints
  <2>1. \A u \in Workers : batch'[u].open <=> worker'[u].pc \notin CommitPoints
    BY <1>0, <1>2, <1>3 DEF Alone, Moved
  <2> QED BY <1>2, <1>3, <2>1 DEF Alone, Moved, Serving
<1> QED BY <1>1, <1>3, BatchSteps

LEMMA BatchTypesStep == BatchTypes /\ [BatchNext]_batchVars => BatchTypes'
<1> SUFFICES ASSUME BatchTypes, [BatchNext]_batchVars PROVE BatchTypes'
  OBVIOUS
<1>1. RuntimeTypeOK'
  <2>1. RuntimeTypeOK
    BY DEF BatchTypes
  <2>2. CASE [RuntimeNext]_runtimeVars
    BY <2>1, <2>2, TypeStep
  <2>3. CASE GivenBack
    BY <2>1, <2>3 DEF GivenBack, RuntimeTypeOK
  <2> QED BY <2>2, <2>3, BatchRuntimeSteps
<1>2. now' \in Nat
  BY BatchStore DEF BatchTypes
<1> QED BY <1>1, <1>2, BatchStore, BatchClient, ServingStep DEF BatchTypes

LEMMA BatchTypesInit == BatchInit => BatchTypes
<1> SUFFICES ASSUME BatchInit PROVE BatchTypes
  OBVIOUS
<1>1. RuntimeTypeOK
  BY TypeInit DEF BatchInit, Init
<1>2. /\ context \in [Paths -> Int] /\ version \in Versions /\ pathVersions \in [Paths -> Versions]
      /\ actuations = <<>> /\ up = TRUE /\ now = 0
  <2>1. StoreInit /\ now = 0
    BY DEF BatchInit, Init
  <2>2. context \in [Paths -> Int]
    <3>1. WrittenValues \subseteq Nat
      BY ServerAssumption
    <3>2. WrittenValues \cup {Missing} \subseteq Int
      BY <3>1 DEF Missing
    <3> QED BY <2>1, <3>2 DEF StoreInit
  <2>3. 0 \in Versions /\ 1 \in Versions
    BY RuntimeAssumption, ServerAssumption DEF Versions
  <2>4. version \in Versions /\ pathVersions \in [Paths -> Versions]
    BY <2>1, <2>3 DEF StoreInit
  <2>5. actuations = <<>> /\ up = TRUE
    BY <2>1 DEF StoreInit
  <2> QED BY <2>1, <2>2, <2>4, <2>5
<1>3. Snapshot \in Documents
  BY <1>2 DEF Snapshot, Documents
<1>4. Free \in Call /\ Free.pc = "idle"
  <2>1. Free \in Service /\ Free.pc = "idle"
    BY FreeTypes DEF Free
  <2> QED BY <2>1 DEF Service, Call, BatchPoints, CommitPoints
<1>5. NoBatch \in Portions /\ ~NoBatch.open
  BY DEF NoBatch, Portions
<1>6. /\ worker = [w \in Workers |-> Free] /\ stopLock = NoWorker
      /\ batch = [w \in Workers |-> NoBatch] /\ local = Snapshot
  BY DEF BatchInit, Init
<1>7. actuations \in Seq(LogEntry) /\ Len(actuations) <= MaxLog
  BY <1>2, RuntimeAssumption
<1>8. \A w \in Workers : Serving(w) <=> worker[w].pc \notin CommitPoints
  BY <1>4, <1>5, <1>6 DEF Serving, CommitPoints
<1> QED BY <1>1, <1>2, <1>3, <1>4, <1>5, <1>6, <1>7, <1>8 DEF BatchTypes

LEMMA BatchTypesHold == BatchSpec => []BatchTypes
BY BatchTypesInit, BatchTypesStep, PTL DEF BatchSpec

\* Whatever batches, commits, revokes, writers and outages do, the runtime, the
\* stop lock and the portions of the batches keep their types, and a worker has
\* a batch open exactly while it serves one.
THEOREM BatchTypeCorrect == BatchSpec => []BatchTypeOK
<1>1. BatchTypes => BatchTypeOK
  <2> SUFFICES ASSUME BatchTypes PROVE BatchTypeOK
    OBVIOUS
  <2>1. local.version \in Versions
    BY DEF BatchTypes, Documents
  <2>2. \A w \in Workers :
          /\ batch[w].stops \cup batch[w].refuse \cup batch[w].win \cup batch[w].mine \subseteq Intents
          /\ Serving(w) <=> worker[w].pc \notin {"idle", "commit", "record"}
    BY DEF BatchTypes, Portions, CommitPoints
  <2> QED BY <2>1, <2>2 DEF BatchTypes, BatchTypeOK
<1> QED BY <1>1, BatchTypesHold, PTL

\* The items of every record agree also under the batch endpoint, which gives
\* locks back and revokes without the runtime's lock.
THEOREM BatchReportsAgree == BatchSpec => []ReportsMatchState
<1>1. BatchInit => ReportsMatchState
  BY DEF BatchInit, Init, RuntimeInit, ReportsMatchState, Consistent, Absent, ReleasedStates
<1>2. BatchTypes /\ ReportsMatchState /\ [BatchNext]_batchVars => ReportsMatchState'
  <2> SUFFICES ASSUME BatchTypes, ReportsMatchState, [BatchNext]_batchVars PROVE ReportsMatchState'
    OBVIOUS
  <2>1. CASE [RuntimeNext]_runtimeVars
    BY <2>1, StepChanges, ChangeConsistent DEF ReportsMatchState, RuntimeTypeOK, BatchTypes
  <2>2. CASE GivenBack
    BY <2>2 DEF GivenBack, ReportsMatchState
  <2> QED BY <2>1, <2>2, BatchRuntimeSteps
<1> QED BY <1>1, <1>2, BatchTypesHold, PTL DEF BatchSpec


-----------------------------------------------------------------------------
(* Batches: whose intents one serves *)

\* The intents a batch was the first to admit are known to the runtime, and no
\* other batch's.  What a worker fences, validates or revokes is one of them,
\* and not a stop; the stops of a batch are stops.
MineInv ==
  /\ \A w \in Workers, i \in Intents : i \in batch[w].mine => Known(i)
  /\ \A u, w \in Workers, i \in Intents : i \in batch[u].mine /\ i \in batch[w].mine => u = w
  /\ \A w \in Workers : /\ batch[w].stops \subseteq stopClass
                        /\ batch[w].refuse \cap stopClass = {}
                        /\ batch[w].win \cap stopClass = {}
  /\ \A w \in Workers : worker[w].pc \in FencePoints \cup {"revoke"} =>
       worker[w].id \in batch[w].mine \ stopClass
  /\ \A w \in Workers : worker[w].pc \in StopPoints => worker[w].id \in stopClass

\* A known id stays known, and a revoked or expired one stays that.
LEMMA KnownStays ==
  ASSUME BatchTypes, [BatchNext]_batchVars, NEW i \in Intents, Known(i)
  PROVE  /\ Known(i)'
         /\ records[i].state \in {"REVOKED", "EXPIRED"} => records'[i].state = records[i].state
<1>0. RuntimeTypeOK /\ records \in [Intents -> Record] /\ records[i] \in Record
      /\ \A w \in Workers : worker[w].id \in Intents
  BY DEF BatchTypes, RuntimeTypeOK, Call
<1>1. CASE UNCHANGED <<records, seen>>
  BY <1>1 DEF Known
<1>2. ASSUME NEW j \in Intents, Admit(j, 0)
      PROVE  /\ records'[i] = records[i] /\ Range(seen) \subseteq Range(seen')
  <2>1. CASE Known(j)
    BY <1>0, <1>2, <2>1, AdmitAtOnce
  <2>2. CASE ~Known(j)
    BY <1>0, <1>2, <2>2, AdmitAtOnce
  <2> QED BY <2>1, <2>2
<1>3. ASSUME NEW r \in Record, r.state # "ABSENT", NEW q, NEW c \in Checks,
             \/ q = AuthorizeStop(r) \/ q = RevokeStale(r) \/ q = Validated(r, Decide(r, i, c), c)
             \/ q = Withheld(r) \/ q = Revoked(r) \/ \E n : q = Committed(r, n)
      PROVE  q.state # "ABSENT"
  BY <1>3 DEF Record, AuthorizeStop, RevokeStale, Validated, StateAfter, Withheld, Revoked, Committed
<1>4. ASSUME NEW j \in Intents, NEW c \in Checks, ProcessIntent(j, c)
      PROVE  /\ records'[i].state # "ABSENT" /\ UNCHANGED seen
             /\ records[i].state \in {"REVOKED", "EXPIRED"} => records'[i].state = records[i].state
  <2>1. records'[i] = records[i] \/ (i = j /\ records[i].state \in ValidatableStates)
    BY <1>0, <1>4 DEF ProcessIntent, Known
  <2>2. \/ records'[i] = records[i]
        \/ records'[i] = AuthorizeStop(records[i]) \/ records'[i] = RevokeStale(records[i])
        \/ records'[i] = Validated(records[i], Decide(records[i], i, c), c)
    BY <1>0, <1>4, <2>1 DEF ProcessIntent, Known
  <2>3. UNCHANGED seen
    BY <1>4 DEF ProcessIntent
  <2>4. records'[i].state # "ABSENT"
    BY <1>0, <1>3, <1>4, <2>2 DEF Known
  <2> QED BY <2>1, <2>3, <2>4 DEF ValidatableStates
<1>5. ASSUME NEW j \in Intents, NEW done \in BOOLEAN, NEW n, RecordCommit(j, done, n)
      PROVE  /\ records'[i].state # "ABSENT" /\ UNCHANGED seen
             /\ records[i].state \in {"REVOKED", "EXPIRED"} => records'[i].state = records[i].state
  <2>1. /\ UNCHANGED seen
        /\ \/ records'[i] = records[i]
           \/ /\ i = j /\ records[i].state = "AUTHORIZED"
              /\ records'[i] = Committed(records[i], n) \/ records'[i] = Withheld(records[i])
    BY <1>0, <1>5 DEF RecordCommit
  <2> QED BY <1>0, <2>1 DEF Known, Record, Committed, Withheld
<1>6. ASSUME NEW j \in Intents, LifecycleRevoke(j) \/ SupervisoryRevoke(j)
      PROVE  /\ records'[i].state # "ABSENT" /\ UNCHANGED seen
             /\ records[i].state \in {"REVOKED", "EXPIRED"} => records'[i].state = records[i].state
  <2>1. /\ UNCHANGED seen
        /\ \/ records'[i] = records[i]
           \/ "REVOKED" \in Allowed(records[i].state) /\ records'[i] = Revoked(records[i])
    BY <1>0, <1>6 DEF LifecycleRevoke, SupervisoryRevoke
  <2>2. records[i].state \in {"REVOKED", "EXPIRED"} => "REVOKED" \notin Allowed(records[i].state)
    BY DEF Allowed
  <2> QED BY <1>0, <2>1, <2>2 DEF Known, Record, Revoked
<1>7. CASE Outside
  BY <1>1, <1>6, <1>7 DEF Outside, SameIntents, Known
<1>8. ASSUME NEW w \in Workers, Kinds(w)
      PROVE  \/ UNCHANGED <<records, seen>>
             \/ \E j \in Intents : Admit(j, 0) \/ LifecycleRevoke(j)
             \/ \E j \in Intents, c \in Checks : ProcessIntent(j, c)
             \/ \E j \in Intents, done \in BOOLEAN, n \in {NoSeq} \cup LogPositions : RecordCommit(j, done, n)
  BY <1>0, <1>8 DEF Kinds, Arrives, Admits, GoesOn, Validates, RecordsCommit, Refuses, GivesBack,
                    Answers, SameIntents
<1>9. ASSUME NEW w \in Workers, Kinds(w)
      PROVE  /\ Known(i)'
             /\ records[i].state \in {"REVOKED", "EXPIRED"} => records'[i].state = records[i].state
  BY <1>1, <1>2, <1>4, <1>5, <1>6, <1>8, <1>9 DEF Known
<1> QED BY <1>7, <1>9, BatchSteps


LEMMA MineStep ==
  ASSUME BatchTypes, MineInv, [BatchNext]_batchVars
  PROVE  MineInv'
<1>0. /\ worker \in [Workers -> Call] /\ batch \in [Workers -> Portions] /\ RuntimeTypeOK
      /\ stopClass' = stopClass
  BY BatchSteps DEF BatchTypes
<1>1. \A i \in Intents : Known(i) => Known(i)'
  BY KnownStays
<1>2. CASE Outside
  BY <1>0, <1>1, <1>2 DEF Outside, MineInv
<1>3. ASSUME NEW w \in Workers, Alone(w),
             \A i \in Intents : i \in batch'[w].mine \ batch[w].mine => ~Known(i) /\ Known(i)',
             /\ batch'[w].stops \subseteq stopClass
             /\ batch'[w].refuse \cap stopClass = {}
             /\ batch'[w].win \cap stopClass = {},
             worker'[w].pc \in FencePoints \cup {"revoke"} => worker'[w].id \in batch'[w].mine \ stopClass,
             worker'[w].pc \in StopPoints => worker'[w].id \in stopClass
      PROVE  MineInv'
  <2>1. ASSUME NEW u \in Workers, NEW i \in Intents, i \in batch'[u].mine PROVE Known(i)'
    BY <1>1, <1>3, <2>1 DEF Alone, MineInv
  <2>2. ASSUME NEW u \in Workers, NEW v \in Workers, NEW i \in Intents,
               i \in batch'[u].mine, i \in batch'[v].mine
        PROVE  u = v
    <3>1. \A x \in Workers : i \in batch[x].mine => Known(i)
      BY DEF MineInv
    <3>2. CASE i \in batch'[w].mine \ batch[w].mine
      BY <1>3, <2>2, <3>1, <3>2 DEF Alone
    <3>3. CASE i \notin batch'[w].mine \ batch[w].mine
      BY <1>3, <2>2, <3>3 DEF Alone, MineInv
    <3> QED BY <3>2, <3>3
  <2>3. ASSUME NEW u \in Workers
        PROVE  /\ batch'[u].stops \subseteq stopClass
               /\ batch'[u].refuse \cap stopClass = {}
               /\ batch'[u].win \cap stopClass = {}
    BY <1>3 DEF Alone, MineInv
  <2>4. ASSUME NEW u \in Workers
        PROVE  /\ worker'[u].pc \in FencePoints \cup {"revoke"} =>
                    worker'[u].id \in batch'[u].mine \ stopClass
               /\ worker'[u].pc \in StopPoints => worker'[u].id \in stopClass
    BY <1>3 DEF Alone, Moved, MineInv
  <2> QED BY <1>0, <2>1, <2>2, <2>3, <2>4 DEF MineInv
<1>4. ASSUME NEW w \in Workers, Kinds(w) PROVE MineInv'
  <2>0. /\ batch[w].stops \subseteq stopClass
        /\ batch[w].refuse \cap stopClass = {} /\ batch[w].win \cap stopClass = {}
        /\ worker[w].pc \in FencePoints \cup {"revoke"} => worker[w].id \in batch[w].mine \ stopClass
        /\ worker[w].pc \in StopPoints => worker[w].id \in stopClass
    BY DEF MineInv
  <2>1. CASE Arrives(w)
    BY <1>3, <2>1 DEF Arrives, FencePoints, StopPoints
  <2>2. ASSUME NEW i \in Intents, Admits(w, i) PROVE MineInv'
    <3>1. ~Known(i) => Known(i)'
      <4>1. ~Known(i) => records' = [records EXCEPT ![i] = Created(i)] /\ i \in Range(seen')
        BY <1>0, <2>2, AdmitAtOnce DEF Admits
      <4>2. records \in [Intents -> Record] /\ Created(i).state # "ABSENT"
        BY <1>0 DEF RuntimeTypeOK, Created, Absent
      <4> QED BY <4>1, <4>2 DEF Known
    <3>2. \A j \in Intents : j \in batch'[w].mine \ batch[w].mine => ~Known(j) /\ Known(j)'
      BY <2>2, <3>1 DEF Admits
    <3>3. /\ batch'[w].stops \subseteq stopClass
          /\ batch'[w].refuse \cap stopClass = {} /\ batch'[w].win \cap stopClass = {}
      BY <2>0, <2>2 DEF Admits
    <3>4. worker'[w].pc \in FencePoints \cup {"revoke"} => worker'[w].id \in batch'[w].mine \ stopClass
      BY <2>0, <2>2 DEF Admits, FencePoints
    <3>5. worker'[w].pc \in StopPoints => worker'[w].id \in stopClass
      BY <2>0, <2>2 DEF Admits, StopPoints
    <3> QED BY <1>3, <2>2, <3>2, <3>3, <3>4, <3>5 DEF Admits
  <2>3. ASSUME Alone(w), SamePortion(w),
               \/ worker'[w].pc \notin FencePoints \cup StopPoints \cup {"revoke"}
               \/ /\ worker'[w].id = worker[w].id
                  /\ \/ worker[w].pc \in FencePoints /\ worker'[w].pc \in FencePoints
                     \/ worker[w].pc \in StopPoints /\ worker'[w].pc \in StopPoints
        PROVE  MineInv'
    <3>1. FencePoints \cap StopPoints = {} /\ "revoke" \notin StopPoints
      BY DEF FencePoints, StopPoints
    <3> QED BY <1>3, <2>0, <2>3, <3>1 DEF SamePortion
  <2>4. CASE GoesOn(w)
    BY <2>3, <2>4 DEF GoesOn, FencePoints, StopPoints, CommitPoints
  <2>5. CASE Validates(w)
    BY <2>3, <2>5 DEF Validates, FencePoints, StopPoints, At
  <2>6. CASE RecordsCommit(w)
    BY <2>3, <2>6 DEF RecordsCommit, FencePoints, StopPoints
  <2>7. CASE GivesBack(w)
    BY <2>3, <2>7 DEF GivesBack, FencePoints, StopPoints
  <2>8. ASSUME Alone(w), batch'[w] = NoBatch, worker'[w].pc = "idle" PROVE MineInv'
    <3>1. NoBatch.mine = {} /\ NoBatch.stops = {} /\ NoBatch.refuse = {} /\ NoBatch.win = {}
      BY DEF NoBatch
    <3>2. "idle" \notin FencePoints \cup StopPoints \cup {"revoke"}
      BY DEF FencePoints, StopPoints
    <3> QED BY <1>3, <2>8, <3>1, <3>2
  <2>9. CASE Refuses(w)
    BY <2>3, <2>8, <2>9 DEF Refuses, FencePoints, StopPoints
  <2>10. CASE Answers(w)
    BY <2>8, <2>10 DEF Answers
  <2> QED BY <1>4, <2>1, <2>2, <2>4, <2>5, <2>6, <2>7, <2>9, <2>10 DEF Kinds
<1> QED BY <1>2, <1>4, BatchSteps

LEMMA MineInit == BatchInit => MineInv
<1> SUFFICES ASSUME BatchInit PROVE MineInv
  OBVIOUS
<1>1. /\ worker = [w \in Workers |-> Free] /\ batch = [w \in Workers |-> NoBatch]
      /\ Free.pc = "idle" /\ NoBatch.mine = {} /\ NoBatch.stops = {} /\ NoBatch.refuse = {}
      /\ NoBatch.win = {}
  BY DEF BatchInit, Init, Free, NoBatch
<1> QED BY <1>1 DEF MineInv, FencePoints, StopPoints

LEMMA MineHolds == BatchSpec => []MineInv
BY MineInit, MineStep, BatchTypesHold, PTL DEF BatchSpec

-----------------------------------------------------------------------------
(* Batches: refused intents *)

\* The intent a worker is about to revoke has not been validated: the record is
\* as the batch registered it, or revoked meanwhile.
RefusedInv ==
  \A w \in Workers : At(w, "revoke") =>
    /\ records[worker[w].id].state \in {"CREATED", "REVOKED"}
    /\ records[worker[w].id].outcome # "EXECUTE"

\* Only the worker that owns an intent validates it, and a revoke is all that
\* others can do to one that is not AUTHORIZED.
LEMMA UnownedSteps ==
  ASSUME BatchTypes, MineInv, [BatchNext]_batchVars, NEW w \in Workers, NEW i \in Intents,
         i \in batch[w].mine, i \notin stopClass, worker'[w] = worker[w],
         records[i].state # "AUTHORIZED"
  PROVE  \/ records'[i] = records[i]
         \/ "REVOKED" \in Allowed(records[i].state) /\ records'[i] = Revoked(records[i])
         \/ Validates(w)
<1>0. /\ worker \in [Workers -> Call] /\ RuntimeTypeOK /\ records \in [Intents -> Record]
      /\ Known(i) /\ \A u \in Workers : worker[u].id \in Intents
  BY DEF BatchTypes, RuntimeTypeOK, MineInv, Call
<1>1. ASSUME NEW j \in Intents, LifecycleRevoke(j) \/ SupervisoryRevoke(j)
      PROVE  \/ records'[i] = records[i]
             \/ "REVOKED" \in Allowed(records[i].state) /\ records'[i] = Revoked(records[i])
  BY <1>0, <1>1 DEF LifecycleRevoke, SupervisoryRevoke
<1>2. CASE Outside
  BY <1>1, <1>2 DEF Outside, SameIntents
<1>3. ASSUME NEW u \in Workers, Kinds(u)
      PROVE  \/ records'[i] = records[i]
             \/ "REVOKED" \in Allowed(records[i].state) /\ records'[i] = Revoked(records[i])
             \/ Validates(w)
  <2>1. CASE Arrives(u) \/ GoesOn(u) \/ GivesBack(u) \/ Answers(u)
    BY <2>1 DEF Arrives, GoesOn, GivesBack, Answers, SameIntents
  <2>2. ASSUME NEW j \in Intents, Admits(u, j) PROVE records'[i] = records[i]
    <3>1. CASE Known(j)
      BY <1>0, <2>2, <3>1, AdmitAtOnce DEF Admits
    <3>2. CASE ~Known(j)
      BY <1>0, <2>2, <3>2, AdmitAtOnce DEF Admits
    <3> QED BY <3>1, <3>2
  <2>3. CASE Validates(u)
    <3>1. worker[u].pc \in {"stop_process", "process", "reprocess"}
          /\ \E c \in Checks : ProcessIntent(worker[u].id, c)
      BY <2>3 DEF Validates, At
    <3>2. worker[u].id # i => records'[i] = records[i]
      BY <1>0, <3>1 DEF ProcessIntent
    <3>3. worker[u].id = i => u = w
      BY <3>1 DEF MineInv, FencePoints, StopPoints
    <3> QED BY <2>3, <3>2, <3>3
  <2>4. CASE RecordsCommit(u)
    BY <1>0, <2>4 DEF RecordsCommit, RecordCommit
  <2>5. CASE Refuses(u)
    BY <1>0, <1>1, <2>5 DEF Refuses
  <2> QED BY <1>3, <2>1, <2>2, <2>3, <2>4, <2>5 DEF Kinds
<1> QED BY <1>2, <1>3, BatchSteps


LEMMA RefusedStep ==
  ASSUME BatchTypes, MineInv, RefusedInv, [BatchNext]_batchVars
  PROVE  RefusedInv'
<1> SUFFICES ASSUME NEW w \in Workers, worker'[w].pc = "revoke"
             PROVE  /\ records'[worker'[w].id].state \in {"CREATED", "REVOKED"}
                    /\ records'[worker'[w].id].outcome # "EXECUTE"
  BY DEF RefusedInv, At
<1>0. RuntimeTypeOK /\ records \in [Intents -> Record] /\ worker[w].id \in Intents
  BY DEF BatchTypes, RuntimeTypeOK, Call
<1>1. CASE worker'[w] = worker[w]
  <2> DEFINE i == worker[w].id
  <2>1. /\ i \in batch[w].mine \ stopClass /\ i \in Intents
        /\ records[i].state \in {"CREATED", "REVOKED"} /\ records[i].outcome # "EXECUTE"
    BY <1>0, <1>1 DEF MineInv, RefusedInv, At
  <2>2. ~Validates(w)
    BY <1>1 DEF Validates, At
  <2>3. \/ records'[i] = records[i]
        \/ "REVOKED" \in Allowed(records[i].state) /\ records'[i] = Revoked(records[i])
    BY <1>1, <2>1, <2>2, UnownedSteps
  <2>4. Revoked(records[i]).state = "REVOKED" /\ Revoked(records[i]).outcome = "REVOKE"
    BY <1>0, <2>1 DEF Revoked, Record
  <2> QED BY <1>1, <2>1, <2>3, <2>4
<1>2. ASSUME NEW i \in Intents, Admits(w, i)
      PROVE  /\ records'[worker'[w].id].state \in {"CREATED", "REVOKED"}
             /\ records'[worker'[w].id].outcome # "EXECUTE"
  <2>1. worker'[w].id = i /\ ~Known(i) /\ Admit(i, 0)
    BY <1>2 DEF Admits
  <2>2. records' = [records EXCEPT ![i] = Created(i)]
    BY <1>0, <2>1, AdmitAtOnce
  <2>3. Created(i).state = "CREATED" /\ Created(i).outcome = "NONE"
    BY DEF Created, Absent
  <2> QED BY <1>0, <2>1, <2>2, <2>3
<1>3. CASE Kinds(w)
  <2>1. ~Arrives(w) /\ ~GoesOn(w) /\ ~Validates(w) /\ ~RecordsCommit(w) /\ ~Refuses(w)
        /\ ~GivesBack(w) /\ ~Answers(w)
    BY DEF Arrives, GoesOn, Validates, RecordsCommit, Refuses, GivesBack, Answers, FencePoints,
           StopPoints, CommitPoints
  <2> QED BY <1>2, <1>3, <2>1 DEF Kinds
<1>4. ASSUME NEW u \in Workers, Kinds(u), u # w PROVE worker'[w] = worker[w]
  BY <1>4 DEF Kinds, Arrives, Admits, GoesOn, Validates, RecordsCommit, Refuses, GivesBack, Answers,
              Alone, Moved
<1>5. Outside => worker'[w] = worker[w]
  BY DEF Outside
<1> QED BY <1>1, <1>3, <1>4, <1>5, BatchSteps

LEMMA RefusedHolds == BatchSpec => []RefusedInv
<1>1. BatchInit => RefusedInv
  <2> SUFFICES ASSUME BatchInit PROVE RefusedInv
    OBVIOUS
  <2>1. worker = [w \in Workers |-> Free] /\ Free.pc = "idle"
    BY DEF BatchInit, Init, Free
  <2> QED BY <2>1 DEF RefusedInv, At
<1> QED BY <1>1, RefusedStep, BatchTypesHold, MineHolds, PTL DEF BatchSpec

-----------------------------------------------------------------------------
(* Batches: one winner per target *)

\* The intents of worker w's batch that it may still authorize or has authorized:
\* the winners it has not come to, and the ones it admitted, less those that are
\* revoked or expired or that it is about to revoke.
Contenders(w) ==
  batch[w].win \cup
  {i \in batch[w].mine \ stopClass : /\ records[i].state \notin {"REVOKED", "EXPIRED"}
                                     /\ ~(At(w, "revoke") /\ worker[w].id = i)}

\* They act on different targets, none of which a stop of the batch halted.
WinnerInv ==
  \A w \in Workers :
    /\ \A i \in Contenders(w) : TargetOf[i] \notin batch[w].halted
    /\ \A i, j \in Contenders(w) : TargetOf[i] = TargetOf[j] => i = j

LEMMA ContendersShrink ==
  ASSUME BatchTypes, MineInv, [BatchNext]_batchVars, NEW u \in Workers
  PROVE  \/ Contenders(u)' \subseteq Contenders(u) /\ batch'[u].halted = batch[u].halted
         \/ Contenders(u)' = {}
         \/ Arrives(u)
<1> DEFINE Shrinks == Contenders(u)' \subseteq Contenders(u) /\ batch'[u].halted = batch[u].halted
<1>0. /\ stopClass' = stopClass /\ batch[u] \in Portions /\ RuntimeTypeOK
      /\ records \in [Intents -> Record] /\ worker[u].id \in Intents
      /\ batch[u].mine \subseteq Intents
  BY BatchSteps DEF BatchTypes, RuntimeTypeOK, Call, Portions
<1>1. \A i \in batch[u].mine :
        records[i].state \in {"REVOKED", "EXPIRED"} => records'[i].state \in {"REVOKED", "EXPIRED"}
  BY <1>0, KnownStays DEF MineInv
<1>2. CASE worker'[u] = worker[u] /\ batch'[u] = batch[u]
  BY <1>0, <1>1, <1>2 DEF Contenders, At
<1>3. CASE SamePortion(u) /\ ~At(u, "revoke")
  BY <1>0, <1>1, <1>3 DEF Contenders, SamePortion
<1>4. CASE batch'[u] = NoBatch
  BY <1>4 DEF Contenders, NoBatch
<1>5. ASSUME NEW i \in Intents, Admits(u, i) PROVE Shrinks
  <2>1. /\ ~At(u, "revoke") /\ batch'[u].win \subseteq batch[u].win /\ batch'[u].halted = batch[u].halted
        /\ worker'[u].id = i
    BY <1>5 DEF Admits, At
  <2>2. ASSUME NEW j \in batch'[u].mine \ stopClass, records'[j].state \notin {"REVOKED", "EXPIRED"},
               ~(worker'[u].pc = "revoke" /\ worker'[u].id = j)
        PROVE  j \in Contenders(u)
    <3>1. CASE j \in batch[u].mine
      BY <1>1, <2>1, <2>2, <3>1 DEF Contenders
    <3>2. CASE j \notin batch[u].mine
      <4>1. j = i /\ ~Known(i)
        BY <1>5, <2>2, <3>2 DEF Admits
      <4>2. worker'[u].pc # "stop_process" \/ i \notin batch[u].stops
        BY <2>2, <4>1 DEF MineInv
      <4>3. i \in batch[u].win
        BY <1>5, <2>1, <2>2, <4>1, <4>2 DEF Admits
      <4> QED BY <4>1, <4>3 DEF Contenders
    <3> QED BY <3>1, <3>2
  <2> QED BY <1>0, <2>1, <2>2 DEF Contenders, At
<1>6. CASE Refuses(u) /\ SamePortion(u) /\ "REVOKED" \in Allowed(records[worker[u].id].state)
  <2>1. records'[worker[u].id].state = "REVOKED"
    <3>1. records' = [records EXCEPT ![worker[u].id] = Revoked(records[worker[u].id])]
      BY <1>6 DEF Refuses, LifecycleRevoke
    <3> QED BY <1>0, <3>1 DEF Revoked, Record
  <2> QED BY <1>0, <1>1, <1>6, <2>1 DEF Contenders, SamePortion
<1> HIDE DEF Shrinks
<1>7. CASE Kinds(u)
  <2>1. CASE GoesOn(u)
    BY <1>3, <2>1 DEF GoesOn, At, FencePoints, StopPoints, CommitPoints, Shrinks
  <2>2. CASE Validates(u)
    BY <1>3, <2>2 DEF Validates, At, Shrinks
  <2>3. CASE RecordsCommit(u)
    BY <1>3, <2>3 DEF RecordsCommit, At, CommitPoints, Shrinks
  <2>4. CASE GivesBack(u)
    BY <1>3, <2>4 DEF GivesBack, At, Shrinks
  <2>5. CASE Refuses(u)
    BY <1>4, <1>6, <2>5 DEF Refuses, Shrinks
  <2>6. CASE Answers(u)
    BY <1>4, <2>6 DEF Answers, Shrinks
  <2> QED BY <1>5, <1>7, <2>1, <2>2, <2>3, <2>4, <2>5, <2>6 DEF Kinds, Shrinks
<1>8. ASSUME NEW w \in Workers, Kinds(w), w # u
      PROVE  worker'[u] = worker[u] /\ batch'[u] = batch[u]
  BY <1>8 DEF Kinds, Arrives, Admits, GoesOn, Validates, RecordsCommit, Refuses, GivesBack, Answers,
              Alone, Moved
<1>9. Outside => worker'[u] = worker[u] /\ batch'[u] = batch[u]
  BY DEF Outside
<1> QED BY <1>2, <1>7, <1>8, <1>9, BatchSteps

LEMMA WinnerStep ==
  ASSUME BatchTypes, MineInv, WinnerInv, [BatchNext]_batchVars
  PROVE  WinnerInv'
<1> SUFFICES ASSUME NEW u \in Workers
             PROVE  (/\ \A i \in Contenders(u) : TargetOf[i] \notin batch[u].halted
                     /\ \A i, j \in Contenders(u) : TargetOf[i] = TargetOf[j] => i = j)'
  BY DEF WinnerInv
<1>1. CASE Arrives(u)
  <2>1. Contenders(u)' = batch'[u].win
    BY <1>1 DEF Arrives, Contenders
  <2> QED BY <1>1, <2>1 DEF Arrives
<1>2. CASE Contenders(u)' \subseteq Contenders(u) /\ batch'[u].halted = batch[u].halted
  BY <1>2 DEF WinnerInv
<1>3. CASE Contenders(u)' = {}
  BY <1>3
<1> QED BY <1>1, <1>2, <1>3, ContendersShrink

\* Of the intents a batch is the first to admit at most one per target is
\* authorized, and none on a target that one of its stops halted, for any number
\* of batches served at once, overlapping batches, commits, revokes and outages.
THEOREM BatchOneWinner == BatchSpec => []OneWinner
<1>1. BatchInit => WinnerInv
  <2> SUFFICES ASSUME BatchInit PROVE WinnerInv
    OBVIOUS
  <2>1. /\ batch = [w \in Workers |-> NoBatch] /\ NoBatch.win = {} /\ NoBatch.mine = {}
    BY DEF BatchInit, NoBatch
  <2> QED BY <2>1 DEF WinnerInv, Contenders
<1>2. RefusedInv /\ WinnerInv /\ ReportsMatchState /\ BatchTypes => OneWinner
  <2> SUFFICES ASSUME RefusedInv, WinnerInv, ReportsMatchState, BatchTypes, NEW w \in Workers
               PROVE  \A i, j \in batch[w].mine \ stopClass :
                        records[i].outcome = "EXECUTE" =>
                          /\ TargetOf[i] \notin batch[w].halted
                          /\ records[j].outcome = "EXECUTE" /\ TargetOf[i] = TargetOf[j] => i = j
    BY DEF OneWinner
  <2>1. ASSUME NEW i \in batch[w].mine \ stopClass, records[i].outcome = "EXECUTE"
        PROVE  i \in Contenders(w)
    <3>1. i \in Intents
      BY DEF BatchTypes, Portions
    <3>2. records[i].state \notin {"REVOKED", "EXPIRED"}
      BY <2>1, <3>1 DEF ReportsMatchState, Consistent
    <3> QED BY <2>1, <3>2 DEF Contenders, RefusedInv
  <2> QED BY <2>1 DEF WinnerInv
<1> QED BY <1>1, <1>2, WinnerStep, BatchTypesHold, MineHolds, RefusedHolds, BatchReportsAgree, PTL
        DEF BatchSpec

-----------------------------------------------------------------------------
(* Batches: no lock is left *)

\* A locked target is about to be given back: a worker at the end of a batch's
\* winner holds it, and that winner is still AUTHORIZED.
Holds(w, x) ==
  /\ At(w, "reply")
  /\ worker[w].id \in batch[w].mine \ stopClass
  /\ TargetOf[worker[w].id] = x
  /\ records[worker[w].id].state = "AUTHORIZED"

LockInv == \A x \in activeTargets : \E w \in Workers : Holds(w, x)

\* A held target stays held or is unlocked: only w's own next step, a commit or a
\* revoke moves the winner on, and each of them unlocks.
LEMMA HoldsOn ==
  ASSUME BatchTypes, MineInv, RefusedInv, [BatchNext]_batchVars, NEW w \in Workers, NEW x,
         Holds(w, x)
  PROVE  Holds(w, x)' \/ x \notin activeTargets'
<1> DEFINE i == worker[w].id
<1>0. /\ RuntimeTypeOK /\ records \in [Intents -> Record] /\ i \in Intents
      /\ \A u \in Workers : worker[u].id \in Intents
      /\ stopClass' = stopClass /\ TargetOf[i] = x /\ records[i].state = "AUTHORIZED"
      /\ At(w, "reply") /\ i \in batch[w].mine \ stopClass /\ Known(i)
  BY BatchSteps DEF BatchTypes, RuntimeTypeOK, MineInv, Call, Holds
<1> HIDE DEF i
<1>1. ASSUME worker'[w] = worker[w], batch'[w] = batch[w], records'[i] = records[i]
      PROVE  Holds(w, x)'
  BY <1>0, <1>1 DEF Holds, At, i
<1>2. ASSUME NEW j \in Intents,
             \/ SupervisoryRevoke(j)
             \/ \E done \in BOOLEAN, n \in {NoSeq} \cup LogPositions : RecordCommit(j, done, n)
      PROVE  records'[i] = records[i] \/ x \notin activeTargets'
  BY <1>0, <1>2 DEF SupervisoryRevoke, RecordCommit, ReleaseTarget
<1>3. CASE Outside
  <2>1. worker'[w] = worker[w] /\ batch'[w] = batch[w]
    BY <1>3 DEF Outside
  <2>2. records'[i] = records[i] \/ x \notin activeTargets'
    BY <1>2, <1>3 DEF Outside, SameIntents
  <2> QED BY <1>1, <2>1, <2>2
<1>4. ASSUME NEW u \in Workers, Kinds(u), u # w
      PROVE  Holds(w, x)' \/ x \notin activeTargets'
  <2>1. worker'[w] = worker[w] /\ batch'[w] = batch[w]
    BY <1>4 DEF Kinds, Arrives, Admits, GoesOn, Validates, RecordsCommit, Refuses, GivesBack, Answers,
                Alone, Moved
  <2>2. CASE Arrives(u) \/ GoesOn(u) \/ GivesBack(u) \/ Answers(u)
    BY <1>1, <2>1, <2>2 DEF Arrives, GoesOn, GivesBack, Answers, SameIntents
  <2>3. ASSUME NEW j \in Intents, Admits(u, j) PROVE records'[i] = records[i]
    <3>1. Admit(j, 0)
      BY <2>3 DEF Admits
    <3>2. CASE Known(j)
      BY <1>0, <3>1, <3>2, AdmitAtOnce
    <3>3. CASE ~Known(j)
      BY <1>0, <3>1, <3>3, AdmitAtOnce
    <3> QED BY <3>2, <3>3
  <2>4. CASE Validates(u)
    <3>1. PICK c \in Checks : ProcessIntent(worker[u].id, c)
      BY <2>4 DEF Validates
    <3>2. records'[i] = records[i]
      BY <1>0, <3>1 DEF ProcessIntent, ValidatableStates
    <3> QED BY <1>1, <2>1, <3>2
  <2>5. CASE RecordsCommit(u)
    BY <1>1, <1>2, <2>1, <2>5 DEF RecordsCommit
  <2>6. CASE Refuses(u)
    <3>1. worker[u].id # i
      BY <1>0, <2>6 DEF Refuses, RefusedInv
    <3>2. records'[i] = records[i]
      BY <1>0, <2>6, <3>1 DEF Refuses, LifecycleRevoke
    <3> QED BY <1>1, <2>1, <3>2
  <2> QED BY <1>1, <1>4, <2>1, <2>2, <2>3, <2>4, <2>5, <2>6 DEF Kinds
<1>5. CASE Kinds(w)
  <2>1. ~Arrives(w) /\ ~GoesOn(w) /\ ~Validates(w) /\ ~RecordsCommit(w) /\ ~Refuses(w) /\ ~Answers(w)
        /\ \A j \in Intents : ~Admits(w, j)
    BY <1>0 DEF Arrives, Admits, GoesOn, Validates, RecordsCommit, Refuses, Answers, At, FencePoints,
           StopPoints, CommitPoints
  <2>2. GivesBack(w)
    BY <1>5, <2>1 DEF Kinds
  <2> QED BY <1>0, <2>2 DEF GivesBack, i
<1> QED BY <1>3, <1>4, <1>5, BatchSteps

\* A target is locked by the validation of a winner, which ends its call.
LEMMA HoldsNew ==
  ASSUME BatchTypes, MineInv, [BatchNext]_batchVars, NEW x \in activeTargets', x \notin activeTargets
  PROVE  \E w \in Workers : Holds(w, x)'
<1>0. /\ RuntimeTypeOK /\ records \in [Intents -> Record] /\ stopClass' = stopClass
      /\ \A u \in Workers : worker[u].id \in Intents
  BY BatchSteps DEF BatchTypes, RuntimeTypeOK, Call
<1>1. ~Outside
  BY DEF Outside, SameIntents, SupervisoryRevoke, ReleaseTarget
<1>2. PICK w \in Workers : Kinds(w)
  BY <1>1, BatchSteps
<1>3. Validates(w)
  <2>1. /\ ~Arrives(w) /\ ~GoesOn(w) /\ ~RecordsCommit(w) /\ ~Refuses(w) /\ ~GivesBack(w) /\ ~Answers(w)
    BY DEF Arrives, GoesOn, RecordsCommit, RecordCommit, ReleaseTarget, Refuses, LifecycleRevoke,
           GivesBack, Answers, SameIntents
  <2>2. \A j \in Intents : ~Admits(w, j)
    BY <1>0, AdmitAtOnce DEF Admits
  <2> QED BY <1>2, <2>1, <2>2 DEF Kinds
<1> DEFINE i == worker[w].id
<1>4. PICK c \in Checks : ProcessIntent(i, c)
  BY <1>3 DEF Validates
<1>5. i \notin stopClass /\ TargetOf[i] = x /\ records'[i].state = "AUTHORIZED"
  <2> DEFINE r == IF records[i].state = "ABSENT" THEN Created(i) ELSE records[i]
  <2>1. /\ i \notin stopClass /\ TargetOf[i] = x /\ Decide(r, i, c) = "EXECUTE"
        /\ records' = [records EXCEPT ![i] = Validated(r, Decide(r, i, c), c)]
    BY <1>4 DEF ProcessIntent
  <2>2. r \in Record
    BY <1>0, FreshTypes
  <2>3. Validated(r, "EXECUTE", c).state = "AUTHORIZED"
    BY <2>2 DEF Validated, StateAfter, Record
  <2> HIDE DEF r
  <2> QED BY <1>0, <2>1, <2>3
<1>6. ~At(w, "stop_process")
  BY <1>5 DEF MineInv, At, StopPoints
<1>7. /\ worker'[w].pc = "reply" /\ worker'[w].id = i /\ batch'[w].mine = batch[w].mine
      /\ worker[w].pc \in {"process", "reprocess"}
  BY <1>3, <1>5, <1>6 DEF Validates, SamePortion
<1>8. i \in batch[w].mine
  BY <1>7 DEF MineInv, FencePoints
<1> QED BY <1>0, <1>5, <1>7, <1>8 DEF Holds, At

LEMMA LockStep ==
  ASSUME BatchTypes, MineInv, RefusedInv, LockInv, [BatchNext]_batchVars
  PROVE  LockInv'
<1> SUFFICES ASSUME NEW x \in activeTargets' PROVE \E w \in Workers : Holds(w, x)'
  BY DEF LockInv
<1>1. CASE x \in activeTargets
  <2>1. PICK w \in Workers : Holds(w, x)
    BY <1>1 DEF LockInv
  <2> QED BY <2>1, HoldsOn
<1>2. CASE x \notin activeTargets
  BY <1>2, HoldsNew
<1> QED BY <1>1, <1>2

\* Once nothing is being served no target is locked: the batch gives back every
\* lock it takes, whatever revokes, commits and other batches do between the
\* authorization and the release.
THEOREM BatchLocksReturned == BatchSpec => []LocksReturned
<1>1. BatchInit => LockInv
  BY DEF BatchInit, Init, RuntimeInit, LockInv
<1>2. LockInv => LocksReturned
  BY DEF LockInv, LocksReturned, Holds, At
<1> QED BY <1>1, <1>2, LockStep, BatchTypesHold, MineHolds, RefusedHolds, PTL DEF BatchSpec


-----------------------------------------------------------------------------
(* Batches: commits *)

LEMMA BatchLogShape == BatchTypes => LogShape
BY DEF BatchTypes, LogShape, Call

\* As on the single endpoint, a step updates the document once or appends one
\* entry to the log, or does neither.
LEMMA BatchWrites ==
  ASSUME BatchTypes, [BatchNext]_batchVars
  PROVE  Updates /\ Logs
<1>0. /\ \A w \in Workers : worker[w].id \in Intents
      /\ \A i \in Intents : StopPathOf(i) \in Paths
      /\ now \in Int
  BY ReadSetPaths DEF BatchTypes, Call
<1>1. ASSUME UNCHANGED documentVars, UNCHANGED logVars PROVE Updates /\ Logs
  BY <1>1 DEF Updates, Logs
<1>2. ASSUME UNCHANGED storeVars PROVE Updates /\ Logs
  BY <1>1, <1>2 DEF storeVars, documentVars, logVars
<1>3. ASSUME NEW p \in Paths, NEW v \in Int, CanUpdate, Update(p, v) PROVE Updates /\ Logs
  BY <1>3 DEF Updates, Logs, Update, logVars
<1>4. ASSUME NEW w \in Workers, SubmitFenceInit(w) \/ StopUpdate(w) PROVE Updates /\ Logs
  <2>1. \/ UNCHANGED storeVars
        \/ TryUpdate(StopPathOf(worker[w].id), 0)
        \/ TryUpdate(StopPathOf(worker[w].id), now)
    BY <1>4 DEF SubmitFenceInit, StopUpdate
  <2>2. 0 \in Int
    OBVIOUS
  <2> QED BY <1>0, <1>2, <1>3, <2>1, <2>2 DEF TryUpdate
<1>5. ASSUME NEW w \in Workers, StopLog(w) PROVE Updates /\ Logs
  <2>1. \/ UNCHANGED storeVars
        \/ CanAppend /\ Notes(worker[w].id, "stop") /\ UNCHANGED documentVars
    BY <1>5 DEF StopLog, AppendActuation, Notes, documentVars
  <2> QED BY <1>0, <1>2, <2>1 DEF Updates, Logs
<1>6. ASSUME NEW w \in Workers, CommitStore(w) PROVE Updates /\ Logs
  <2>1. /\ UNCHANGED documentVars
        /\ UNCHANGED logVars \/ (CanAppend /\ Commits(w))
    BY <1>6 DEF CommitStore, Commit, Commits, storeVars, documentVars, logVars
  <2> QED BY <2>1 DEF Updates, Logs
<1>7. ASSUME NEW w \in Workers,
             \/ \E B, win : BatchStart(w, B, win)
             \/ BatchInstall(w) \/ BatchStop(w) \/ BatchRefuse(w) \/ BatchRevoke(w) \/ BatchWin(w)
             \/ BatchRegister(w) \/ BatchProcess(w) \/ BatchSettle(w) \/ BatchReply(w)
             \/ StopProcess(w) \/ SubmitFence(w) \/ SubmitFenceInstall(w) \/ SubmitInstall(w)
             \/ ReadBack(w) \/ InstallBack(w) \/ CommitRecord(w)
             \/ \E i : CommitStart(w, i)
      PROVE  UNCHANGED storeVars
  BY <1>7 DEF BatchStart, BatchInstall, BatchStop, BatchRefuse, BatchRevoke, BatchWin, BatchAdmit,
              BatchRegister, BatchProcess, BatchSettle, BatchReply, StopProcess, SubmitFence,
              SubmitFenceInstall, SubmitInstall, ReadBack, InstallBack, CommitRecord, CommitStart
<1>8. ASSUME NEW i, RevokeRequest(i) PROVE UNCHANGED storeVars
  BY <1>8 DEF RevokeRequest
<1>9. ASSUME NEW p \in DataPaths, NEW v \in WrittenValues, OtherWrite(p, v) PROVE Updates /\ Logs
  <2>1. p \in Paths /\ v \in Int
    BY ServerAssumption DEF DataPaths
  <2> QED BY <1>3, <1>9, <2>1 DEF OtherWrite
<1>10. Outage => Updates /\ Logs
  BY <1>1 DEF Outage, StoreDown, StoreUp, documentVars, logVars
<1>11. UNCHANGED batchVars => UNCHANGED storeVars
  BY DEF batchVars, vars
<1> QED BY <1>2, <1>4, <1>5, <1>6, <1>7, <1>8, <1>9, <1>10, <1>11 DEF BatchNext, BatchStep, InnerStep

\* No intent is authorized twice in the log, whichever batches, retries and
\* supervisors race its commits.
THEOREM BatchAuthorizedOnce == BatchSpec => []LogUnique
<1>1. BatchInit => LogInv
  BY DEF BatchInit, Init, StoreInit, LogInv, LogUnique, CommittedCovers
<1>2. LogInv => LogUnique
  BY DEF LogInv
<1>3. BatchTypes /\ LogInv /\ [BatchNext]_batchVars => LogInv'
  BY LogInvStep, BatchWrites, BatchLogShape
<1> QED BY <1>1, <1>2, <1>3, BatchTypesHold, PTL DEF BatchSpec

\* A worker that neither begins a commit nor gets the script's answer ends at
\* another point of its request, on the snapshot it had, a new one, or the
\* client's copy.
Carries(w) ==
  /\ worker'[w].snapshot \in {worker[w].snapshot, Snapshot, EmptySnapshot, local}
  /\ \/ worker'[w] = worker[w]
     \/ worker'[w].pc \notin {"commit", "record"}
     \/ CommitStore(w)
     \/ worker'[w].pc = "commit" /\ CommitTurn(w)

\* Worker w moves to s.
LEMMA MoveCarries ==
  ASSUME DOMAIN worker = Workers, NEW w \in Workers, NEW s, worker' = [worker EXCEPT ![w] = s],
         s.snapshot \in {worker[w].snapshot, Snapshot, EmptySnapshot, local},
         s.pc \notin {"commit", "record"}
  PROVE  \A v \in Workers : Carries(v)
BY DEF Carries

LEMMA BatchTurns ==
  ASSUME BatchTypes, [BatchNext]_batchVars
  PROVE  \A v \in Workers : Carries(v)
<1> DEFINE Goal == \A v \in Workers : Carries(v)
<1>0. worker \in [Workers -> Call] /\ DOMAIN worker = Workers
  BY DEF BatchTypes
<1>1. UNCHANGED worker => Goal
  BY DEF Carries
<1>2. ASSUME NEW w \in Workers, NEW pc, pc \notin {"commit", "record"}
      PROVE  Goto(w, pc) \/ Keep(w, pc) \/ Take(w, pc) => Goal
  <2>1. worker[w] \in Call
    BY <1>0
  <2>2. Goto(w, pc) => Goal
    <3> DEFINE s == [Free EXCEPT !.pc = pc, !.id = worker[w].id]
    <3>1. s.snapshot = EmptySnapshot /\ s.pc = pc
      BY DEF Free
    <3> HIDE DEF s
    <3>2. Goto(w, pc) => worker' = [worker EXCEPT ![w] = s]
      BY DEF Goto, s
    <3> QED BY <1>0, <1>2, <3>1, <3>2, MoveCarries
  <2>3. Keep(w, pc) => Goal
    <3> DEFINE s == [worker[w] EXCEPT !.pc = pc]
    <3>1. s.snapshot = worker[w].snapshot /\ s.pc = pc
      BY <2>1 DEF Call
    <3>2. Keep(w, pc) => worker' = [worker EXCEPT ![w] = s]
      BY <1>0 DEF Keep
    <3> HIDE DEF s
    <3> QED BY <1>0, <1>2, <3>1, <3>2, MoveCarries
  <2>4. Take(w, pc) => Goal
    <3> DEFINE s == [worker[w] EXCEPT !.pc = pc, !.snapshot = Snapshot]
    <3>1. s.snapshot = Snapshot /\ s.pc = pc
      BY <2>1 DEF Call
    <3>2. Take(w, pc) => worker' = [worker EXCEPT ![w] = s]
      BY <1>0 DEF Take
    <3> HIDE DEF s
    <3> QED BY <1>0, <1>2, <3>1, <3>2, MoveCarries
  <2> QED BY <2>2, <2>3, <2>4
<1>3. ASSUME NEW w \in Workers PROVE Done(w) \/ Resume(w) => Goal
  <2>1. Done(w) => Goal
    <3>1. Free.snapshot = EmptySnapshot /\ Free.pc = "idle"
      BY DEF Free
    <3>2. Done(w) => worker' = [worker EXCEPT ![w] = Free]
      BY DEF Done
    <3> QED BY <1>0, <3>1, <3>2, MoveCarries
  <2>2. Resume(w) => Goal
    <3> DEFINE s == [Free EXCEPT !.pc = "batch"]
    <3>1. s.snapshot = EmptySnapshot /\ s.pc = "batch"
      BY DEF Free
    <3>2. Resume(w) => worker' = [worker EXCEPT ![w] = s]
      BY DEF Resume
    <3> HIDE DEF s
    <3> QED BY <1>0, <3>1, <3>2, MoveCarries
  <2> QED BY <2>1, <2>2
<1>4. ASSUME NEW w \in Workers, NEW B, NEW win, BatchStart(w, B, win) PROVE Goal
  <2> DEFINE d == IF up THEN Snapshot ELSE EmptySnapshot
             s == [Free EXCEPT !.pc = "batch", !.snapshot = d]
  <2>1. s.snapshot = d /\ s.pc = "batch"
    BY DEF Free
  <2>2. worker' = [worker EXCEPT ![w] = s]
    BY <1>4 DEF BatchStart
  <2> HIDE DEF s
  <2> QED BY <1>0, <2>1, <2>2, MoveCarries
<1>5. ASSUME NEW w \in Workers, NEW i, NEW loop, NEW pc, pc \notin {"commit", "record"},
             BatchAdmit(w, i, loop, pc)
      PROVE  Goal
  <2> DEFINE s == [Free EXCEPT !.pc = pc, !.id = i]
  <2>1. s.snapshot = EmptySnapshot /\ s.pc = pc
    BY DEF Free
  <2>2. worker' = [worker EXCEPT ![w] = s]
    BY <1>5 DEF BatchAdmit
  <2> HIDE DEF s
  <2> QED BY <1>0, <1>5, <2>1, <2>2, MoveCarries
<1>6. ASSUME NEW w \in Workers, BatchRegister(w) PROVE Goal
  <2> DEFINE s == [worker[w] EXCEPT !.pc = "process", !.snapshot = local]
  <2>1. s.snapshot = local /\ s.pc = "process"
    <3>1. worker[w] \in Call
      BY <1>0
    <3> QED BY <3>1 DEF Call
  <2>2. Take(w, "install") \/ worker' = [worker EXCEPT ![w] = s]
    BY <1>0, <1>6 DEF BatchRegister
  <2> HIDE DEF s
  <2> QED BY <1>0, <1>2, <2>1, <2>2, MoveCarries
<1>7. ASSUME NEW w \in Workers, NEW i \in Intents, CommitStart(w, i) PROVE Goal
  <2>1. CASE UNCHANGED worker
    BY <1>1, <2>1
  <2>2. CASE ~UNCHANGED worker
    <3> DEFINE s == [worker[w] EXCEPT !.pc = "commit", !.id = i, !.reads = RecordedReadSet(i),
                                      !.expected = records[i].readSetVersion]
    <3>1. worker' = [worker EXCEPT ![w] = s] /\ UNCHANGED <<runtimeVars, fenceRead>>
          /\ records[i].state = "AUTHORIZED"
      BY <1>0, <1>7, <2>2 DEF CommitStart
    <3>2. /\ s.snapshot = worker[w].snapshot /\ s.pc = "commit" /\ s.id = i
          /\ s.reads = RecordedReadSet(i) /\ s.expected = records[i].readSetVersion
      <4>1. worker[w] \in Call
        BY <1>0
      <4> QED BY <4>1 DEF Call
    <3> HIDE DEF s
    <3>3. worker'[w] = s /\ \A v \in Workers \ {w} : worker'[v] = worker[v]
      BY <1>0, <3>1
    <3> QED BY <3>1, <3>2, <3>3 DEF Carries, CommitTurn
  <2> QED BY <2>1, <2>2
<1>8. ASSUME NEW w \in Workers, CommitStore(w) PROVE Goal
  <2>1. \E st, seq : worker' = [worker EXCEPT ![w] =
          [Free EXCEPT !.pc = "record", !.id = worker[w].id, !.status = st, !.seq = seq]]
    BY <1>8 DEF CommitStore
  <2>2. worker'[w].snapshot = EmptySnapshot /\ \A v \in Workers \ {w} : worker'[v] = worker[v]
    BY <1>0, <2>1 DEF Free
  <2> QED BY <1>8, <2>2 DEF Carries
<1> HIDE DEF Goal
<1>9. ASSUME NEW w \in Workers, BatchStop(w) \/ BatchRefuse(w) \/ BatchWin(w) PROVE Goal
  <2>1. \E i, loop : \E pc \in {"stop_process", "batch", "revoke", "fence"} : BatchAdmit(w, i, loop, pc)
    BY <1>9 DEF BatchStop, BatchRefuse, BatchWin
  <2> QED BY <1>5, <2>1
<1>10. ASSUME NEW w \in Workers,
              BatchInstall(w) \/ BatchRevoke(w) \/ BatchProcess(w) \/ BatchSettle(w) \/ BatchReply(w)
       PROVE  Goal
  <2>1. \/ Resume(w) \/ Done(w)
        \/ Keep(w, "reprocess") \/ Goto(w, "reply")
    BY <1>10 DEF BatchInstall, BatchRevoke, BatchProcess, BatchSettle, BatchReply, Abort
  <2> QED BY <1>2, <1>3, <2>1
<1>11. ASSUME NEW w \in Workers,
              \/ StopProcess(w) \/ StopUpdate(w) \/ StopLog(w)
              \/ SubmitFence(w) \/ SubmitFenceInstall(w) \/ SubmitFenceInit(w)
              \/ SubmitInstall(w) \/ ReadBack(w) \/ InstallBack(w) \/ CommitRecord(w)
       PROVE  Goal
  <2>1. \/ Done(w)
        \/ \E pc : /\ pc \notin {"commit", "record"}
                   /\ Keep(w, pc) \/ Goto(w, pc) \/ Take(w, pc)
    <3>1. CASE \/ StopProcess(w) \/ StopUpdate(w) \/ StopLog(w)
               \/ SubmitFence(w) \/ SubmitFenceInstall(w) \/ SubmitFenceInit(w)
               \/ SubmitInstall(w) \/ CommitRecord(w)
      BY <3>1 DEF StopProcess, StopUpdate, StopLog, SubmitFence, SubmitFenceInstall,
                  SubmitFenceInit, SubmitInstall, CommitRecord
    <3>2. CASE ReadBack(w) \/ InstallBack(w)
      BY <3>2 DEF ReadBack, InstallBack, Return, At
    <3> QED BY <1>11, <3>1, <3>2
  <2> QED BY <1>2, <1>3, <2>1
<1>12. ASSUME \/ \E i : RevokeRequest(i)
              \/ \E p, v : OtherWrite(p, v)
              \/ Outage \/ UNCHANGED batchVars
       PROVE  UNCHANGED worker
  BY <1>12 DEF RevokeRequest, OtherWrite, Outage, batchVars, vars, serverVars
<1>13. Goal
  BY <1>1, <1>4, <1>6, <1>7, <1>8, <1>9, <1>10, <1>11, <1>12 DEF BatchNext, BatchStep, InnerStep
<1> QED BY <1>13 DEF Goal

\* Only the worker that has the script's answer marks a record as committed.
LEMMA BatchMarks ==
  ASSUME BatchTypes, [BatchNext]_batchVars
  PROVE  MarksOnce
<1>0. /\ RuntimeTypeOK /\ records \in [Intents -> Record]
      /\ \A w \in Workers : worker[w].id \in Intents
  BY DEF BatchTypes, RuntimeTypeOK, Call
<1>1. UNCHANGED records => MarksOnce
  BY <1>0, MethodMarks
<1>2. ASSUME NEW w \in Workers, BatchStop(w) \/ BatchRefuse(w) \/ BatchWin(w) PROVE MarksOnce
  <2>1. PICK i \in Intents : Admit(i, 0)
    BY <1>2, AdmitBatch DEF Admits
  <2>2. UNCHANGED records \/ records' = [records EXCEPT ![i] = Created(i)]
    BY <1>0, <2>1, AdmitAtOnce
  <2> QED BY <1>0, <2>2, MethodMarks
<1>3. ASSUME NEW w \in Workers, BatchProcess(w) \/ StopProcess(w) PROVE MarksOnce
  <2>1. \E c : ProcessIntent(worker[w].id, c)
    BY <1>3 DEF BatchProcess, StopProcess
  <2> QED BY <1>0, <2>1, MethodMarks
<1>4. ASSUME NEW w \in Workers, BatchRevoke(w) PROVE MarksOnce
  <2>1. LifecycleRevoke(worker[w].id)
    BY <1>4 DEF BatchRevoke
  <2> QED BY <1>0, <2>1, MethodMarks
<1>5. ASSUME NEW i \in Intents, RevokeRequest(i) PROVE MarksOnce
  BY <1>0, <1>5, MethodMarks DEF RevokeRequest
<1>6. ASSUME NEW w \in Workers, CommitRecord(w) \/ \E i \in Intents : CommitStart(w, i) PROVE MarksOnce
  BY <1>0, <1>6, MethodMarks
<1>7. ASSUME NEW w \in Workers,
             \/ \E B, win : BatchStart(w, B, win)
             \/ BatchInstall(w) \/ BatchRegister(w) \/ BatchSettle(w) \/ BatchReply(w)
             \/ SubmitFence(w) \/ SubmitFenceInstall(w) \/ SubmitFenceInit(w) \/ SubmitInstall(w)
             \/ StopUpdate(w) \/ StopLog(w) \/ ReadBack(w) \/ InstallBack(w) \/ CommitStore(w)
      PROVE  UNCHANGED records
  BY <1>7 DEF BatchStart, BatchInstall, BatchRegister, BatchSettle, BatchReply, SubmitFence,
              SubmitFenceInstall, SubmitFenceInit, SubmitInstall, StopUpdate, StopLog, ReadBack,
              InstallBack, CommitStore, InstallSnapshot, runtimeVars
<1>8. ASSUME (\E p, v : OtherWrite(p, v)) \/ Outage \/ UNCHANGED batchVars PROVE UNCHANGED records
  BY <1>8 DEF OtherWrite, Outage, batchVars, vars, runtimeVars
<1>9. ASSUME NEW w \in Workers, BatchStep(w) \/ InnerStep(w) PROVE MarksOnce
  BY <1>1, <1>2, <1>3, <1>4, <1>6, <1>7, <1>9 DEF BatchStep, InnerStep
<1> QED BY <1>1, <1>5, <1>7, <1>8, <1>9 DEF BatchNext

\* What a commit of a batch's intent leaves in the record is in the log: a
\* COMMITTED intent has its authorization there, at the recorded position.
THEOREM BatchCommitsLogged == BatchSpec => []CommitLogged
<1>1. BatchInit => RecordInv
  BY RecordInvInit DEF BatchInit
<1>2. RecordInv => CommitLogged
  BY DEF RecordInv
<1>3. BatchTypes /\ RecordInv /\ [BatchNext]_batchVars => RecordInv'
  <2> SUFFICES ASSUME BatchTypes, RecordInv, [BatchNext]_batchVars PROVE RecordInv'
    OBVIOUS
  <2>1. \A w \in Workers : AnswersTo(w)
    <3>1. ASSUME NEW w \in Workers, CommitStore(w) PROVE AnswersTo(w)
      BY <3>1, BatchLogShape, ScriptAnswers
    <3>2. ASSUME NEW w \in Workers PROVE AnswersTo(w)
      BY <3>1, BatchTurns DEF Carries, AnswersTo
    <3> QED BY <3>2
  <2> QED BY <2>1, BatchLogShape, BatchWrites, BatchMarks, RecordInvStep
<1> QED BY <1>1, <1>2, <1>3, BatchTypesHold, PTL DEF BatchSpec

\* The stop a worker authorizes or records is known to the runtime.
StopKnown == \A w \in Workers : worker[w].pc \in StopPoints => Known(worker[w].id)

\* Known(i) in the new state, where i is not primed.
KnownNext(i) == i \in Range(seen') /\ records'[i].state # "ABSENT"

LEMMA StopKnownStep ==
  ASSUME BatchTypes, StopKnown, [BatchNext]_batchVars
  PROVE  StopKnown'
<1>0. RuntimeTypeOK /\ \A w \in Workers : worker[w].id \in Intents
  BY DEF BatchTypes, Call
<1>1. \A i \in Intents : Known(i) => KnownNext(i)
  BY KnownStays DEF Known, KnownNext
<1>2. ASSUME NEW w \in Workers, worker'[w] = worker[w], worker[w].pc \in StopPoints
      PROVE  KnownNext(worker'[w].id)
  BY <1>0, <1>1, <1>2 DEF StopKnown
<1>3. CASE Outside
  BY <1>2, <1>3 DEF Outside, StopKnown, Known, KnownNext
<1>4. ASSUME NEW i \in Intents, Admit(i, 0) PROVE KnownNext(i)
  <2>1. CASE Known(i)
    BY <1>1, <2>1
  <2>2. CASE ~Known(i)
    <3>1. records' = [records EXCEPT ![i] = Created(i)] /\ i \in Range(seen')
      BY <1>0, <1>4, <2>2, AdmitAtOnce
    <3>2. records \in [Intents -> Record] /\ Created(i).state # "ABSENT"
      BY <1>0 DEF RuntimeTypeOK, Created, Absent
    <3> QED BY <3>1, <3>2 DEF KnownNext
  <2> QED BY <2>1, <2>2
<1>5. ASSUME NEW w \in Workers, Kinds(w), worker'[w].pc \in StopPoints PROVE KnownNext(worker'[w].id)
  <2>1. CASE \E i \in Intents : Admits(w, i)
    BY <1>4, <2>1 DEF Admits
  <2>2. CASE GoesOn(w) \/ Validates(w)
    <3>1. worker'[w].id = worker[w].id /\ worker[w].pc \in StopPoints
      BY <1>5, <2>2 DEF GoesOn, Validates, StopPoints, FencePoints, CommitPoints, At
    <3> QED BY <1>0, <1>1, <3>1 DEF StopKnown
  <2>3. CASE Arrives(w) \/ RecordsCommit(w) \/ Refuses(w) \/ GivesBack(w) \/ Answers(w)
    BY <1>5, <2>3 DEF Arrives, RecordsCommit, Refuses, GivesBack, Answers, StopPoints
  <2> QED BY <1>5, <2>1, <2>2, <2>3 DEF Kinds
<1>6. ASSUME NEW w \in Workers, Kinds(w) PROVE StopKnown'
  <2>1. \A v \in Workers \ {w} : worker'[v] = worker[v]
    BY <1>6 DEF Kinds, Arrives, Admits, GoesOn, Validates, RecordsCommit, Refuses, GivesBack,
                Answers, Alone, Moved
  <2> QED BY <1>2, <1>5, <1>6, <2>1 DEF StopKnown, Known, KnownNext
<1> QED BY <1>3, <1>6, BatchSteps

LEMMA StopKnownHolds == BatchSpec => []StopKnown
<1>1. BatchInit => StopKnown
  <2>1. Free.pc = "idle"
    BY DEF Free
  <2> QED BY <2>1 DEF BatchInit, Init, StopKnown, StopPoints
<1> QED BY <1>1, StopKnownStep, BatchTypesHold, PTL DEF BatchSpec

\* The inductive invariant behind CommitValid for batches: the client's copy is
\* followed like the snapshots, since an untrusted read returns it.
BatchCommitInv ==
  /\ VersionsBound
  /\ \A w \in Workers : Follows(worker[w].snapshot)
  /\ Follows(local)
  /\ \A i \in Intents : records[i].state # "ABSENT" => i \in Range(seen)
  /\ \A i \in Intents : Authorizes(records[i], i, i \in fenceRead)
  /\ \A w \in Workers : At(w, "commit") => Committing(w)

\* Also here a record that is past validation stays so, and what a pass
\* authorizes stands, although it carries the version of the whole snapshot.
LEMMA BatchEvolves ==
  ASSUME BatchTypes, MineInv, StopKnown, BatchCommitInv, [BatchNext]_batchVars, NEW j \in Intents
  PROVE  Evolves(j)
<1> DEFINE Goal == \A k \in Intents : Evolves(k)
<1>0. /\ RuntimeTypeOK /\ records \in [Intents -> Record] /\ Snapshot \in Documents
      /\ \A i \in Intents : records[i].state # "ABSENT" => i \in Range(seen)
      /\ \A w \in Workers : worker[w].id \in Intents /\ worker[w].snapshot \in Documents
                            /\ Follows(worker[w].snapshot)
  BY DEF BatchTypes, RuntimeTypeOK, Call, BatchCommitInv
<1>1. ASSUME UNCHANGED <<seen, fenceRead>>, \A k \in Intents : Settles(records[k], records'[k])
      PROVE  Goal
  BY <1>1 DEF Evolves
<1>2. ASSUME UNCHANGED <<records, seen, fenceRead>> PROVE Goal
  BY <1>1, <1>2 DEF Settles
<1> HIDE DEF Goal
<1>3. ASSUME NEW w \in Workers, NEW i \in Intents, NEW loop, NEW pc, BatchAdmit(w, i, loop, pc)
      PROVE  Goal
  <2>1. /\ Admit(i, 0)
        /\ fenceRead' = IF ~IsDuplicate(i, 0) THEN fenceRead \ {i} ELSE fenceRead
    BY <1>3 DEF BatchAdmit
  <2>2. CASE Known(i)
    <3>1. UNCHANGED <<records, seen, fenceRead>>
      BY <1>0, <2>1, <2>2, AdmitAtOnce
    <3> QED BY <1>2, <3>1
  <2>3. CASE ~Known(i)
    <3>1. AdmitRecords(i)
      BY <1>0, <2>1, <2>3, AdmitAtOnce DEF AdmitRecords, Known
    <3> QED BY <1>0, <3>1, MethodsEvolve DEF Goal
  <2> QED BY <2>2, <2>3
<1>4. ASSUME NEW w \in Workers, BatchStop(w) \/ BatchRefuse(w) \/ BatchWin(w) PROVE Goal
  <2>1. batch[w].stops \subseteq Intents /\ batch[w].refuse \subseteq Intents /\ batch[w].win \subseteq Intents
    BY DEF BatchTypes, Portions
  <2>2. \E i \in Intents : \E loop, pc : BatchAdmit(w, i, loop, pc)
    BY <1>4, <2>1 DEF BatchStop, BatchRefuse, BatchWin
  <2> QED BY <1>3, <2>2
<1>5. ASSUME NEW w \in Workers, BatchProcess(w) PROVE Goal
  <2> DEFINE i == worker[w].id
             s == worker[w].snapshot
             c == [CheckOn(w, i) EXCEPT !.readSetVersion = s.version]
             fence == i \in fenced
  <2>0. i \in Intents /\ s \in Documents /\ Follows(s) /\ fence \in BOOLEAN /\ s.version \in Int
    BY <1>0 DEF Documents, Versions
  <2>1. records[i].state # "ABSENT"
    BY <1>5, <2>0 DEF BatchProcess, MineInv, FencePoints, Known
  <2>2. /\ c.contextOk = Satisfied(i, s.context, fence)
        /\ c.readSetVersion = s.version /\ c.version = s.version
    BY DEF CheckOn
  <2>3. ProcessIntent(i, c)
    BY <1>5 DEF BatchProcess
  <2>4. fenceRead' = IF ~(records[i].state \in ValidatableStates /\ ~(c.version < contextVersion))
                     THEN fenceRead
                     ELSE IF fence THEN fenceRead \cup {i} ELSE fenceRead \ {i}
    BY <1>5 DEF BatchProcess
  <2> HIDE DEF c, s, fence
  <2>5. c.contextOk => Stands(i, fence, c.readSetVersion)
    <3>1. s.version <= s.version
      BY <2>0
    <3> QED BY <1>0, <2>0, <2>2, <3>1, PassStandsAt
  <2> HIDE DEF i
  <2>6. \A k \in Intents \ {i} : k \in fenceRead' <=> k \in fenceRead
    BY <2>4
  <2>7. i \notin stopClass /\ records[i].state \in ValidatableStates /\ ~(c.version < contextVersion)
          => (i \in fenceRead' <=> fence)
    BY <2>4
  <2>8. PassRecords(i)
    BY <1>0, <2>0, <2>1, <2>3, <2>4, <2>5, <2>6, <2>7, ProcessPasses
  <2> QED BY <1>0, <2>0, <2>1, <2>8, MethodsEvolve DEF Goal
<1>6. ASSUME NEW w \in Workers, StopProcess(w) PROVE Goal
  <2> DEFINE i == worker[w].id
             c == [CheckOn(w, i) EXCEPT !.contextOk = FALSE]
  <2>0. /\ i \in Intents /\ i \in stopClass /\ records[i].state # "ABSENT"
        /\ ProcessIntent(i, CheckOn(w, i)) /\ UNCHANGED fenceRead
    BY <1>0, <1>6 DEF StopProcess, MineInv, StopKnown, Known, StopPoints, At
  <2>1. ProcessIntent(i, c)
    BY <2>0 DEF ProcessIntent
  <2>2. ~c.contextOk
    BY DEF CheckOn
  <2> HIDE DEF c
  <2>3. PassRecords(i)
    BY <1>0, <2>0, <2>1, <2>2, ProcessPasses
  <2> QED BY <1>0, <2>0, <2>3, MethodsEvolve DEF Goal
<1>7. ASSUME NEW w \in Workers, BatchRevoke(w) PROVE Goal
  <2>1. LifecycleRevoke(worker[w].id) /\ UNCHANGED fenceRead
    BY <1>7 DEF BatchRevoke
  <2> QED BY <1>0, <1>1, <2>1, RevokesSettle
<1>8. ASSUME NEW i \in Intents, RevokeRequest(i) PROVE Goal
  <2>1. SupervisoryRevoke(i) /\ UNCHANGED fenceRead
    BY <1>8 DEF RevokeRequest, serverVars
  <2> QED BY <1>0, <1>1, <2>1, RevokesSettle
<1>9. ASSUME NEW w \in Workers, CommitRecord(w) PROVE Goal
  <2>1. /\ \E ok, seq : RecordCommit(worker[w].id, ok, seq)
        /\ UNCHANGED fenceRead
    BY <1>9 DEF CommitRecord
  <2> QED BY <1>0, <1>1, <2>1, CommitsSettle
<1>10. ASSUME NEW w \in Workers, NEW i \in Intents, CommitStart(w, i) PROVE Goal
  <2>1. /\ UNCHANGED runtimeVars \/ \E ok, seq : RecordCommit(i, ok, seq)
        /\ UNCHANGED fenceRead
    BY <1>10 DEF CommitStart
  <2>2. CASE UNCHANGED runtimeVars
    BY <1>2, <2>1, <2>2 DEF runtimeVars
  <2> QED BY <1>0, <1>1, <2>1, <2>2, CommitsSettle
<1>11. ASSUME NEW w \in Workers,
             \/ \E B, win : BatchStart(w, B, win)
             \/ BatchInstall(w) \/ BatchRegister(w) \/ BatchSettle(w) \/ BatchReply(w)
             \/ SubmitFence(w) \/ SubmitFenceInstall(w) \/ SubmitFenceInit(w) \/ SubmitInstall(w)
             \/ StopUpdate(w) \/ StopLog(w) \/ ReadBack(w) \/ InstallBack(w) \/ CommitStore(w)
      PROVE  UNCHANGED <<records, seen, fenceRead>>
  BY <1>11 DEF BatchStart, BatchInstall, BatchRegister, BatchSettle, BatchReply, SubmitFence,
               SubmitFenceInstall, SubmitFenceInit, SubmitInstall, StopUpdate, StopLog, ReadBack,
               InstallBack, CommitStore, InstallSnapshot, runtimeVars
<1>12. ASSUME (\E p, v : OtherWrite(p, v)) \/ Outage \/ UNCHANGED batchVars
       PROVE  UNCHANGED <<records, seen, fenceRead>>
  BY <1>12 DEF OtherWrite, Outage, batchVars, vars, serverVars, runtimeVars
<1>13. ASSUME NEW w \in Workers, BatchStep(w) \/ InnerStep(w) PROVE Goal
  BY <1>2, <1>4, <1>5, <1>6, <1>7, <1>9, <1>10, <1>11, <1>13 DEF BatchStep, InnerStep
<1>14. Goal
  BY <1>2, <1>8, <1>11, <1>12, <1>13 DEF BatchNext
<1> QED BY <1>14 DEF Goal

\* The client's copy stays, or is a document the store had or has.
LEMMA CopyFollows ==
  ASSUME BatchTypes, VersionsBound, Follows(local), [BatchNext]_batchVars
  PROVE  Follows(local)'
<1>1. local' \in {local, Snapshot, Snapshot'}
  <2>1. Remember => local' \in {local, Snapshot, Snapshot'}
    BY DEF Remember
  <2>2. ASSUME NEW p, NEW v, OtherWrite(p, v) PROVE local' = local
    BY <2>2 DEF OtherWrite
  <2>3. UNCHANGED batchVars => local' = local
    BY DEF batchVars
  <2> QED BY <2>1, <2>2, <2>3 DEF BatchNext
<1>2. Snapshot \in Documents /\ local \in Documents /\ Updates
  BY BatchWrites DEF BatchTypes
<1>3. VersionsBound' /\ Snapshot' \in Documents
  BY <1>2, VersionsStep, BatchStore
<1>4. FollowsNext(local) /\ FollowsNext(Snapshot)
  BY <1>2, FollowsStep, SnapshotFollows
<1>5. FollowsNext(Snapshot')
  <2>1. /\ context' \in [Paths -> Int] /\ version' \in Nat /\ pathVersions' \in [Paths -> Nat]
    BY <1>3 DEF Snapshot, Documents, Versions
  <2> QED BY <1>3, <2>1 DEF FollowsNext, Snapshot, VersionsBound
<1>6. FollowsNext(local')
  BY <1>1, <1>4, <1>5
<1> QED BY <1>6 DEF Follows, FollowsNext

LEMMA BatchCommitInvStep ==
  ASSUME BatchTypes, MineInv, StopKnown, BatchCommitInv, [BatchNext]_batchVars
  PROVE  BatchCommitInv'
<1>0. /\ BatchTypes' /\ Updates /\ Snapshot \in Documents /\ VersionsBound /\ Follows(local)
      /\ local \in Documents /\ EmptySnapshot \in Documents
  BY BatchTypesStep, BatchWrites, FreeTypes DEF BatchTypes, BatchCommitInv
<1>1. VersionsBound' /\ Follows(local)'
  BY <1>0, VersionsStep, CopyFollows
<1>2. \A i \in Intents : Evolves(i)
  BY BatchEvolves
<1>3. \A i \in Intents : records'[i].state # "ABSENT" => i \in Range(seen')
  BY <1>2 DEF Evolves, Settles, BatchCommitInv
<1>4. \A w \in Workers : FollowsNext(worker'[w].snapshot)
  <2> SUFFICES ASSUME NEW w \in Workers PROVE FollowsNext(worker'[w].snapshot)
    OBVIOUS
  <2>1. worker[w].snapshot \in Documents /\ Follows(worker[w].snapshot)
    BY DEF BatchTypes, Call, BatchCommitInv
  <2>2. /\ FollowsNext(worker[w].snapshot) /\ FollowsNext(local)
        /\ FollowsNext(Snapshot) /\ FollowsNext(EmptySnapshot)
    BY <1>0, <2>1, FollowsStep, SnapshotFollows
  <2>3. worker'[w].snapshot \in {worker[w].snapshot, Snapshot, EmptySnapshot, local}
    BY BatchTurns DEF Carries
  <2> QED BY <2>2, <2>3
<1>5. ASSUME NEW i \in Intents, records'[i].state = "AUTHORIZED", records'[i].class = "other"
      PROVE  StandsNext(i, i \in fenceRead', records'[i].readSetVersion)
  <2>1. Authorizes(records[i], i, i \in fenceRead) /\ records'[i].readSetVersion \in Versions
    BY <1>0 DEF BatchCommitInv, BatchTypes, RuntimeTypeOK, Record
  <2> QED BY <1>0, <1>2, <1>5, <2>1, AuthorizedStands
<1>6. ASSUME NEW w \in Workers, worker'[w].pc = "commit" PROVE CommittingNext(w)
  <2> DEFINE i == worker'[w].id
  <2>1. i \in Intents /\ worker'[w].expected \in Versions
    BY <1>0 DEF BatchTypes, Call
  <2>2. CommitTurn(w)
    <3>1. ~CommitStore(w)
      <4>1. CommitStore(w) => \E st, seq : worker' = [worker EXCEPT ![w] =
              [Free EXCEPT !.pc = "record", !.id = worker[w].id, !.status = st, !.seq = seq]]
        BY DEF CommitStore
      <4>2. worker \in [Workers -> Call]
        BY DEF BatchTypes
      <4> QED BY <1>6, <4>1, <4>2 DEF Free
    <3> QED BY <1>6, <3>1, BatchTurns DEF Carries, CommitTurn
  <2>3. worker'[w] = worker[w] => Committing(w)
    BY <1>6 DEF BatchCommitInv, At
  <2>4. Authorizes(records[i], i, i \in fenceRead)
    BY <2>1 DEF BatchCommitInv
  <2> QED BY <1>0, <1>2, <2>1, <2>2, <2>3, <2>4, CommittingStays
<1>7. (\A w \in Workers : Follows(worker[w].snapshot))'
  BY <1>4 DEF Follows, FollowsNext
<1>8. (\A i \in Intents : Authorizes(records[i], i, i \in fenceRead))'
  BY <1>5 DEF Authorizes, Stands, StandsNext
<1>9. (\A w \in Workers : At(w, "commit") => Committing(w))'
  BY <1>6 DEF Committing, CommittingNext, Stands, StandsNext, At
<1> QED BY <1>1, <1>3, <1>7, <1>8, <1>9 DEF BatchCommitInv

LEMMA BatchCommitInvHolds == BatchSpec => []BatchCommitInv
<1>1. BatchInit => BatchCommitInv
  <2> SUFFICES ASSUME BatchInit PROVE BatchCommitInv
    OBVIOUS
  <2>1. Init /\ local = Snapshot
    BY DEF BatchInit
  <2>2. CommitInv /\ ServerTypeOK
    BY <2>1, CommitInvInit, ServerTypeInit
  <2>3. Follows(local)
    BY <2>1, <2>2, SnapshotType, SnapshotFollows DEF CommitInv
  <2> QED BY <2>2, <2>3 DEF CommitInv, BatchCommitInv, Authorizes
<1>2. /\ BatchCommitInv /\ BatchTypes /\ MineInv /\ StopKnown /\ [BatchNext]_batchVars
      => BatchCommitInv'
  BY BatchCommitInvStep
<1> QED BY <1>1, <1>2, BatchTypesHold, MineHolds, StopKnownHolds, PTL DEF BatchSpec

\* The atomic commit protects the batch endpoint too: although a batch validates
\* its winners on the version of the whole document, ignores whether its second
\* read was trusted and then serves the client's copy, an authorization enters
\* the log only while its predicates hold on the current context and it is
\* young enough, whatever other batches and writers do meanwhile.
THEOREM BatchCommitsValid == BatchSpec => CommitValid
<1> DEFINE Valid == \A i \in Intents : NewAuth(i) /\ records[i].class = "other" =>
                      /\ Satisfied(i, context, i \in fenceRead)
                      /\ Age(i) + Eps <= ReleaseBound(i)
<1>1. BatchTypes /\ BatchCommitInv /\ [BatchNext]_batchVars => Valid
  <2> SUFFICES ASSUME BatchTypes, BatchCommitInv, [BatchNext]_batchVars,
                      NEW i \in Intents, NewAuth(i), records[i].class = "other"
               PROVE  /\ Satisfied(i, context, i \in fenceRead)
                      /\ Age(i) + Eps <= ReleaseBound(i)
    OBVIOUS
  <2>1. PICK w \in Workers : worker[w].id = i /\ Commits(w)
    BY AuthIsCommit, BatchWrites, BatchLogShape
  <2>2. /\ ~(Age(i) > ReleaseBound(i) - Eps)
        /\ ReadSetVersion(pathVersions, worker[w].reads) = worker[w].expected
    BY <2>1 DEF Commits, CommitStatus
  <2>3. Committing(w)
    BY <2>1 DEF Commits, BatchCommitInv
  <2>4. Satisfied(i, context, i \in fenceRead)
    BY <2>1, <2>2, <2>3 DEF Committing, Stands
  <2>5. Age(i) \in Int /\ ReleaseBound(i) \in Int /\ Eps \in Int
    BY ServerAssumption DEF Age, ReleaseBound, BatchTypes, NoDeadline
  <2> QED BY <2>2, <2>4, <2>5
<1> HIDE DEF Valid
<1>2. [BatchNext]_batchVars /\ BatchTypes /\ BatchCommitInv => [Valid]_vars
  BY <1>1
<1>3. BatchSpec => [][Valid]_vars
  BY <1>2, BatchTypesHold, BatchCommitInvHolds, PTL DEF BatchSpec
<1> QED BY <1>3 DEF Valid, CommitValid
=============================================================================
