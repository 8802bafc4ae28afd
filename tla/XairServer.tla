------------------------------ MODULE XairServer ------------------------------
(***************************************************************************)
(* XAIR's HTTP server (xair/adapters/http_server.py, runtime_state.py):    *)
(* worker threads that serve intent submissions, commits, release, effect  *)
(* and withholding reports, revokes and context updates over one           *)
(* XairRuntime and one AtomicStore.                                        *)
(*                                                                         *)
(* A handler is a sequence of steps, each of which takes the runtime's     *)
(* lock once or calls the store once; between two steps of a handler any   *)
(* other worker may run.  The store may be unreachable, may execute a call *)
(* whose reply is lost, and the process may restart at any point.          *)
(* Idempotency retention (an hour) does not elapse here.                   *)
(***************************************************************************)
EXTENDS XairRuntime, AtomicStore

CONSTANTS
  Workers,         \* threads of the HTTP server
  NoWorker,        \* the stop lock is free
  Admissible,      \* per intent: the paths its predicates read (those of the
                   \* policy included), with the values that satisfy them
  StopPath,        \* per target: the path stop.<bucket> (_stop_key)
  Decision,        \* timestamp_decision of each intent
  Freshness,       \* freshness_window_ms of each intent
  Deadline,        \* deadline_ms of each intent, or NoDeadline
  Eps,             \* clock_uncertainty_ms
  MaxFutureSkew,   \* max_future_skew_ms
  MaxTime,         \* bound on the clock
  MaxPosted,       \* bound on the version that updates of producers reach
  Reported,        \* the effect statuses that are reported
  Outages,         \* may the store become unreachable?
  LostReplies,     \* may a store call take effect and still raise?
  Restarts         \* may the process restart?

NoDeadline == -1
StopPaths == {StopPath[t] : t \in Targets}
DataPaths == Paths \ StopPaths

ASSUME ServerAssumption ==
  /\ Intents # {}
  /\ MaxVersion > 0
  /\ NoWorker \notin Workers
  /\ StopPath \in [Targets -> Paths]
  /\ \A i \in Intents : /\ DOMAIN Admissible[i] \subseteq DataPaths
                        /\ \A p \in DOMAIN Admissible[i] : Missing \notin Admissible[i][p]
  /\ WrittenValues \subseteq Nat
  /\ Decision \in [Intents -> Nat]
  /\ Freshness \in [Intents -> Nat]
  /\ Deadline \in [Intents -> Nat \cup {NoDeadline}]
  /\ Eps \in Nat /\ MaxFutureSkew \in Nat /\ MaxTime \in Nat /\ MaxPosted \in Nat
  /\ Reported \subseteq Effects
  /\ \A i \in Intents : Decision[i] >= Eps
  /\ <<Outages, LostReplies, Restarts>> \in BOOLEAN \X BOOLEAN \X BOOLEAN

VARIABLES
  now,             \* the clock of the server and of the store
  worker,          \* the request each worker serves
  stopLock,        \* holder of _STOP_LOCK
  fenced,          \* intents whose preconditions carry the stop predicate
  fenceRead,       \* intents whose recorded read set holds the stop path
  grants           \* replies per intent that say EXECUTE and not duplicate

serverVars == <<now, worker, stopLock, fenced, fenceRead, grants>>
vars == <<runtimeVars, storeVars, serverVars>>

EmptySnapshot ==
  [version |-> 0, context |-> [p \in Paths |-> Missing],
   pathVersions |-> [p \in Paths |-> 0]]

\* A worker that serves nothing.  "reads" and "expected" are the read set and
\* its version as the commit handler took them from the record, "effect" is
\* the effect status that came with a release report.
AnyIntent == CHOOSE i \in Intents : TRUE
Free ==
  [pc |-> "idle", id |-> AnyIntent, snapshot |-> EmptySnapshot, reads |-> {},
   expected |-> 0, status |-> "", seq |-> NoSeq, effect |-> "NONE"]

Init ==
  /\ RuntimeInit
  /\ StoreInit
  /\ \A p \in StopPaths : context[p] = Missing
  /\ now = 0
  /\ worker = [w \in Workers |-> Free]
  /\ stopLock = NoWorker
  /\ fenced = {}
  /\ fenceRead = {}
  /\ grants = [i \in Intents |-> 0]

-----------------------------------------------------------------------------
(* Steps of a handler *)

At(w, pc) == worker[w].pc = pc
\* a handler goes on to pc with the intent and, for Keep, the snapshot it has
Goto(w, pc) == worker' = [worker EXCEPT ![w] = [Free EXCEPT !.pc = pc, !.id = worker[w].id]]
Keep(w, pc) == worker' = [worker EXCEPT ![w].pc = pc]
Done(w) == worker' = [worker EXCEPT ![w] = Free]

\* a reply that says EXECUTE and not duplicate; the count saturates at two
Grant(i) == grants' = [grants EXCEPT ![i] = IF @ < 2 THEN @ + 1 ELSE @]

StopPathOf(i) == StopPath[TargetOf[i]]

\* the paths an intent's predicates read, with or without the stop predicate
ReadSet(i, withFence) ==
  DOMAIN Admissible[i] \cup (IF withFence THEN {StopPathOf(i)} ELSE {})

\* evaluate_predicates on a context; a missing path fails closed, also in the
\* fence predicate  stop.<key> <= t_d - eps  that _fence_intent appends
Satisfied(i, ctx, withFence) ==
  /\ \A p \in DOMAIN Admissible[i] : ctx[p] \in Admissible[i][p]
  /\ withFence => /\ ctx[StopPathOf(i)] # Missing
                  /\ ctx[StopPathOf(i)] <= Decision[i] - Eps

\* TemporalValidator
Age(i) == now - Decision[i]
ReleaseBound(i) == IF Deadline[i] # NoDeadline THEN Deadline[i] ELSE Freshness[i]
Temporal(i) ==
  IF Age(i) < -MaxFutureSkew \/ Age(i) + Eps > Freshness[i] THEN "obsolete"
  ELSE IF Deadline[i] # NoDeadline /\ Age(i) + Eps > Deadline[i] THEN "deadline"
  ELSE "ok"

\* what process_intent finds on the snapshot worker w has read
CheckOn(w, i) ==
  LET s == worker[w].snapshot
      fence == i \in fenced
  IN [version |-> s.version,
      readSetVersion |-> ReadSetVersion(s.pathVersions, ReadSet(i, fence)),
      temporal |-> Temporal(i),
      contextOk |-> Satisfied(i, s.context, fence)]

\* store.snapshot_timed, or the document register_and_snapshot returns
Take(w, pc) ==
  worker' = [worker EXCEPT ![w].pc = pc, ![w].snapshot = Snapshot]

CanUpdate == version < MaxVersion       \* bound on context updates, stop epochs included
CanAppend == Len(actuations) < MaxLog   \* bound on the actuation log

\* update_context_store up to its read back: an update the store does not get
\* is dropped silently (_update_locked)
TryUpdate(p, v) == IF up THEN CanUpdate /\ Update(p, v) ELSE UNCHANGED storeVars

-----------------------------------------------------------------------------
(* POST /v1/intents *)

\* admit: a duplicate is answered with the retained record at once, except
\* that the id of a DELAYED intent is validated again
SubmitAdmit(w, i) ==
  LET duplicate == IsDuplicate(i, 0)
      revalidate == duplicate /\ records[i].state = "DELAYED"
      pc == CASE i \in stopClass -> "stop_process"
              [] i \notin stopClass /\ revalidate -> "fence"
              [] OTHER -> "claim"
  IN /\ At(w, "idle")
     /\ Admit(i, 0)
     /\ worker' = IF duplicate /\ ~revalidate THEN worker
                  ELSE [worker EXCEPT ![w].pc = pc, ![w].id = i]
     /\ fenced' = IF duplicate THEN fenced ELSE fenced \ {i}
     /\ fenceRead' = IF duplicate THEN fenceRead ELSE fenceRead \ {i}
     /\ UNCHANGED <<storeVars, now, stopLock, grants>>

\* claim_intent; a failed claim revokes the intent (duplicate_after_restart)
SubmitClaim(w) ==
  LET i == worker[w].id IN
  /\ At(w, "claim")
  /\ \/ /\ up /\ i \notin claims
        /\ Claim(i)
        /\ Goto(w, "fence")
        /\ UNCHANGED runtimeVars
     \/ /\ ~up \/ i \in claims
        /\ LifecycleRevoke(i)
        /\ Done(w)
        /\ UNCHANGED storeVars
     \/ /\ LostReplies /\ up /\ i \notin claims
        /\ Claim(i)
        /\ LifecycleRevoke(i)
        /\ Done(w)
  /\ UNCHANGED <<now, stopLock, fenced, fenceRead, grants>>

\* mutant of SubmitFence: _STOP_LOCK is not taken
SubmitFenceUnlocked(w) ==
  /\ At(w, "fence")
  /\ IF up THEN Take(w, "fence_install") ELSE Goto(w, "register")
  /\ UNCHANGED <<runtimeVars, storeVars, now, stopLock, fenced, fenceRead, grants>>

\* _fence_intent: read the snapshot under the stop lock; an untrusted one
\* leaves the intent without the stop predicate
SubmitFence(w) ==
  /\ At(w, "fence")
  /\ stopLock = NoWorker
  /\ IF up THEN Take(w, "fence_install") /\ stopLock' = w
           ELSE Goto(w, "register") /\ UNCHANGED stopLock
  /\ UNCHANGED <<runtimeVars, storeVars, now, fenced, fenceRead, grants>>

\* ... install it, and add the predicate unless its path has no value yet
SubmitFenceInstall(w) ==
  LET i == worker[w].id IN
  /\ At(w, "fence_install")
  /\ InstallSnapshot(worker[w].snapshot.version)
  /\ IF worker[w].snapshot.context[StopPathOf(i)] = Missing
     THEN Goto(w, "fence_init") /\ UNCHANGED <<stopLock, fenced>>
     ELSE /\ Goto(w, "register")
          /\ stopLock' = NoWorker
          /\ fenced' = fenced \cup {i}
  /\ UNCHANGED <<storeVars, now, fenceRead, grants>>

\* ... in which case it is given one first
SubmitFenceInit(w) ==
  /\ At(w, "fence_init")
  /\ TryUpdate(StopPathOf(worker[w].id), 0)
  /\ Goto(w, "fence_read")
  /\ UNCHANGED <<runtimeVars, now, stopLock, fenced, fenceRead, grants>>

\* register_and_snapshot; an untrusted snapshot revokes the intent
SubmitRegister(w) ==
  /\ At(w, "register")
  /\ IF up
     THEN Take(w, "install") /\ UNCHANGED runtimeVars
     ELSE /\ LifecycleRevoke(worker[w].id)
          /\ Done(w)
  /\ UNCHANGED <<storeVars, now, stopLock, fenced, fenceRead, grants>>

\* install_context_snapshot
SubmitInstall(w) ==
  /\ At(w, "install")
  /\ InstallSnapshot(worker[w].snapshot.version)
  /\ Keep(w, "process")
  /\ UNCHANGED <<storeVars, now, stopLock, fenced, fenceRead, grants>>

\* _validate_now: one pass, and a second one for a degraded intent
SubmitProcess(w) ==
  LET i == worker[w].id
      c == CheckOn(w, i)
      decided == records[i].state \in ValidatableStates /\ ~(c.version < contextVersion)
  IN /\ worker[w].pc \in {"process", "reprocess"}
     /\ ProcessIntent(i, c)
     /\ IF At(w, "process") /\ records'[i].state = "DEGRADED"
        THEN Keep(w, "reprocess") ELSE Goto(w, "reply")
     /\ fenceRead' = IF ~decided THEN fenceRead
                     ELSE IF i \in fenced THEN fenceRead \cup {i} ELSE fenceRead \ {i}
     /\ UNCHANGED <<storeVars, now, stopLock, fenced, grants>>

\* the response of a submission that was not answered as a duplicate
SubmitReply(w) ==
  /\ At(w, "reply")
  /\ IF records[worker[w].id].outcome = "EXECUTE"
     THEN Grant(worker[w].id) ELSE UNCHANGED grants
  /\ Done(w)
  /\ UNCHANGED <<runtimeVars, storeVars, now, stopLock, fenced, fenceRead>>

-----------------------------------------------------------------------------
(* The stop path of POST /v1/intents: no claim, no snapshot *)

StopProcess(w) ==
  /\ At(w, "stop_process")
  /\ ProcessIntent(worker[w].id, CheckOn(w, worker[w].id))
  /\ Goto(w, "stop_update")
  /\ UNCHANGED <<storeVars, now, stopLock, fenced, fenceRead, grants>>

\* _record_stop: advance the target's stop epoch under the stop lock
StopUpdate(w) ==
  LET i == worker[w].id IN
  /\ At(w, "stop_update")
  /\ IF records[i].state = "AUTHORIZED"
     THEN /\ stopLock = NoWorker
          /\ stopLock' = w
          /\ TryUpdate(StopPathOf(i), now)
          /\ Goto(w, "stop_read")
     ELSE /\ Goto(w, "reply")
          /\ UNCHANGED <<storeVars, stopLock>>
  /\ UNCHANGED <<runtimeVars, now, fenced, fenceRead, grants>>

\* ... and append the stop to the log; a failure of either is swallowed
StopLog(w) ==
  /\ At(w, "stop_log")
  /\ IF up THEN CanAppend /\ AppendActuation(worker[w].id, "stop")
           ELSE UNCHANGED storeVars
  /\ Goto(w, "reply")
  /\ UNCHANGED <<runtimeVars, now, stopLock, fenced, fenceRead, grants>>

-----------------------------------------------------------------------------
(* Context: POST and GET /v1/context/snapshot *)

PostUpdate(w, p, v) ==
  /\ At(w, "idle")
  /\ version < MaxPosted
  /\ TryUpdate(p, v)
  /\ Goto(w, "post_read")
  /\ UNCHANGED <<runtimeVars, now, stopLock, fenced, fenceRead, grants>>

\* mutant of Return: _STOP_LOCK is kept
ReturnLocked(w) ==
  /\ UNCHANGED stopLock
  /\ IF worker[w].pc \in {"fence_read", "fence_got"}
     THEN fenced' = fenced \cup {worker[w].id} /\ Goto(w, "register")
     ELSE /\ UNCHANGED fenced
          /\ IF worker[w].pc \in {"stop_read", "stop_got"} THEN Goto(w, "stop_log")
                                                          ELSE Done(w)

\* what update_context_store returns to: the end of the request, or under the
\* stop lock the rest of _fence_intent or of _record_stop
Return(w) ==
  /\ stopLock' = IF stopLock = w THEN NoWorker ELSE stopLock
  /\ IF worker[w].pc \in {"fence_read", "fence_got"}
     THEN fenced' = fenced \cup {worker[w].id} /\ Goto(w, "register")
     ELSE /\ UNCHANGED fenced
          /\ IF worker[w].pc \in {"stop_read", "stop_got"} THEN Goto(w, "stop_log")
                                                          ELSE Done(w)

\* update_context_store ends with read_snapshot: read the snapshot back ...
ReadBack(w) ==
  /\ worker[w].pc \in {"post_read", "fence_read", "stop_read"}
  /\ IF up THEN /\ Take(w, CASE At(w, "post_read")  -> "post_got"
                             [] At(w, "fence_read") -> "fence_got"
                             [] At(w, "stop_read")  -> "stop_got")
                /\ UNCHANGED <<stopLock, fenced>>
           ELSE Return(w)
  /\ UNCHANGED <<runtimeVars, storeVars, now, fenceRead, grants>>

\* ... and install it, if it is trusted
InstallBack(w) ==
  /\ worker[w].pc \in {"post_got", "fence_got", "stop_got"}
  /\ InstallSnapshot(worker[w].snapshot.version)
  /\ Return(w)
  /\ UNCHANGED <<storeVars, now, fenceRead, grants>>

\* GET: the read; InstallBack is the rest
GetSnapshot(w) ==
  /\ At(w, "idle")
  /\ up
  /\ Take(w, "post_got")
  /\ UNCHANGED <<runtimeVars, storeVars, now, stopLock, fenced, fenceRead, grants>>
-----------------------------------------------------------------------------
(* POST /v1/intents/{id}/commit *)

\* read_set as the validation recorded it: a stop reads nothing
RecordedReadSet(i) == IF records[i].class = "stop" THEN {} ELSE ReadSet(i, i \in fenceRead)

\* the state check, without the runtime's lock; an intent that is not
\* AUTHORIZED is refused (404, 409) and one decided too far ahead is withheld
CommitStart(w, i) ==
  /\ At(w, "idle")
  /\ records[i].state = "AUTHORIZED"
  /\ IF Age(i) < -MaxFutureSkew
     THEN /\ RecordCommit(i, FALSE, NoSeq)
          /\ UNCHANGED worker
     ELSE /\ worker' = [worker EXCEPT ![w].pc = "commit", ![w].id = i,
                                      ![w].reads = RecordedReadSet(i),
                                      ![w].expected = records[i].readSetVersion]
          /\ UNCHANGED runtimeVars
  /\ UNCHANGED <<storeVars, now, stopLock, fenced, fenceRead, grants>>

\* store.commit_authorization, scope "readset"; a call that raises reports
\* "unavailable", whether or not the script ran
CommitStore(w) ==
  LET i == worker[w].id
      status == CommitStatus(i, worker[w].reads, worker[w].expected, Age(i),
                             ReleaseBound(i) - Eps, Eps)
      Answer(st, seq) == worker' = [worker EXCEPT ![w] =
        [Free EXCEPT !.pc = "record", !.id = i, !.status = st, !.seq = seq]]
  IN /\ At(w, "commit")
     /\ \/ /\ up /\ (status = "committed" => CanAppend)
           /\ Commit(i, status)
           /\ Answer(status, IF status = "committed" THEN Len(actuations) + 1 ELSE NoSeq)
        \/ /\ ~up
           /\ Answer("unavailable", NoSeq)
           /\ UNCHANGED storeVars
        \/ /\ LostReplies /\ up /\ status = "committed" /\ CanAppend
           /\ Commit(i, status)
           /\ Answer("unavailable", NoSeq)
     /\ UNCHANGED <<runtimeVars, now, stopLock, fenced, fenceRead, grants>>

\* mutant of CommitRecord: an unavailable store is taken for success
CommitRecordOptimist(w) ==
  /\ At(w, "record")
  /\ RecordCommit(worker[w].id,
                  worker[w].status \in {"committed", "duplicate", "unavailable"},
                  worker[w].seq)
  /\ Done(w)
  /\ UNCHANGED <<storeVars, now, stopLock, fenced, fenceRead, grants>>

\* record_commit: "duplicate" means the authorization is already in the log
CommitRecord(w) ==
  /\ At(w, "record")
  /\ RecordCommit(worker[w].id, worker[w].status \in {"committed", "duplicate"},
                  worker[w].seq)
  /\ Done(w)
  /\ UNCHANGED <<storeVars, now, stopLock, fenced, fenceRead, grants>>

-----------------------------------------------------------------------------
(* Reports and revokes *)

\* POST .../release, with the effect status the report may carry
ReleaseRequest(w, i, released, scope, v, effect) ==
  /\ At(w, "idle")
  /\ ReportRelease(i, released, scope, v)
  /\ worker' = IF effect # "NONE" /\ records'[i].state = "RELEASED"
               THEN [worker EXCEPT ![w].pc = "effect", ![w].id = i, ![w].effect = effect]
               ELSE worker
  /\ UNCHANGED <<storeVars, now, stopLock, fenced, fenceRead, grants>>

ReleaseEffect(w) ==
  /\ At(w, "effect")
  /\ ReportEffect(worker[w].id, worker[w].effect)
  /\ Done(w)
  /\ UNCHANGED <<storeVars, now, stopLock, fenced, fenceRead, grants>>

\* POST .../effect
EffectRequest(i, status) ==
  /\ ReportEffect(i, status)
  /\ UNCHANGED <<storeVars, serverVars>>

\* mutant of WithheldRequest: an intent that never was committed is accepted
WithheldRequestEarly(i) ==
  /\ records[i].state \in {"AUTHORIZED", "COMMITTED"}
  /\ up /\ CanAppend
  /\ AppendActuation(i, "withheld")
  /\ ReportRelease(i, FALSE, "none", 0)
  /\ UNCHANGED serverVars

\* POST .../withheld, under the runtime's lock throughout: the tombstone, then
\* the report; an append that raises ends the request
WithheldRequest(i) ==
  /\ records[i].state = "COMMITTED"
  /\ up /\ CanAppend
  /\ AppendActuation(i, "withheld")
  /\ \/ ReportRelease(i, FALSE, "none", 0)
     \/ LostReplies /\ UNCHANGED runtimeVars
  /\ UNCHANGED serverVars

\* DELETE /v1/intents/{id}
RevokeRequest(i) ==
  /\ SupervisoryRevoke(i)
  /\ UNCHANGED <<storeVars, serverVars>>

-----------------------------------------------------------------------------
(* Environment *)

Tick ==
  /\ now < MaxTime
  /\ now' = now + 1
  /\ UNCHANGED <<runtimeVars, storeVars, worker, stopLock, fenced, fenceRead, grants>>

Outage ==
  /\ Outages
  /\ StoreDown \/ StoreUp
  /\ UNCHANGED <<runtimeVars, serverVars>>

Restart ==
  /\ Restarts
  /\ RuntimeRestart
  /\ worker' = [w \in Workers |-> Free]
  /\ stopLock' = NoWorker
  /\ fenced' = {}
  /\ fenceRead' = {}
  /\ UNCHANGED <<storeVars, now, grants>>

-----------------------------------------------------------------------------
\* the next step of the request worker w serves
WorkerStep(w) ==
  \/ SubmitClaim(w)
  \/ SubmitFence(w)
  \/ SubmitFenceInstall(w)
  \/ SubmitFenceInit(w)
  \/ SubmitRegister(w)
  \/ SubmitInstall(w)
  \/ SubmitProcess(w)
  \/ SubmitReply(w)
  \/ StopProcess(w)
  \/ StopUpdate(w)
  \/ StopLog(w)
  \/ ReadBack(w)
  \/ InstallBack(w)
  \/ CommitStore(w)
  \/ CommitRecord(w)
  \/ ReleaseEffect(w)

\* a request arrives and its first step runs
Request(w) ==
  \/ \E i \in Intents : SubmitAdmit(w, i)
  \/ \E i \in Intents : CommitStart(w, i)
  \/ \E p \in DataPaths, v \in WrittenValues : PostUpdate(w, p, v)
  \/ \E i \in Intents, v \in 0..version, scope \in {"none", "readset", "global"},
        effect \in Reported \cup {"NONE"} : ReleaseRequest(w, i, TRUE, scope, v, effect)
  \/ \E i \in Intents : ReleaseRequest(w, i, FALSE, "none", 0, "NONE")
  \/ GetSnapshot(w)

Next ==
  \/ \E w \in Workers : WorkerStep(w) \/ Request(w)
  \/ \E i \in Intents : WithheldRequest(i) \/ RevokeRequest(i)
  \/ \E i \in Intents, status \in Reported : EffectRequest(i, status)
  \/ Tick
  \/ Outage
  \/ Restart

Spec == Init /\ [][Next]_vars
-----------------------------------------------------------------------------
(* Properties *)

Requests == {"idle", "claim", "fence", "fence_install", "fence_init",
             "fence_read", "fence_got", "register", "install", "process",
             "reprocess", "reply", "stop_process", "stop_update", "stop_read",
             "stop_got", "stop_log", "post_read", "post_got", "commit", "record",
             "effect"}

Statuses == {"", "committed", "changed", "expired", "duplicate", "future_skew",
             "unavailable"}

Documents == [version: Versions, context: [Paths -> Int], pathVersions: [Paths -> Versions]]

\* the request a worker serves
Service ==
  [pc: Requests, id: Intents, snapshot: Documents, reads: SUBSET Paths,
   expected: Versions, status: Statuses, seq: {NoSeq} \cup LogPositions,
   effect: Effects \cup {"NONE"}]

LogEntry == [id: Intents, kind: {"auth", "withheld", "stop"}]

ServerTypeOK ==
  /\ RuntimeTypeOK
  /\ context \in [Paths -> Int]
  /\ version \in Versions
  /\ pathVersions \in [Paths -> Versions]
  /\ actuations \in Seq(LogEntry)
  /\ Len(actuations) <= MaxLog
  /\ committed \subseteq Intents
  /\ claims \subseteq Intents
  /\ up \in BOOLEAN
  /\ now \in 0..MaxTime
  /\ worker \in [Workers -> Service]
  /\ \A w \in Workers : At(w, "effect") => worker[w].effect \in Effects
  /\ stopLock \in Workers \cup {NoWorker}
  /\ fenced \subseteq Intents
  /\ fenceRead \subseteq Intents
  /\ grants \in [Intents -> 0..2]

Logged(i, kind, n) == n \in DOMAIN actuations /\ actuations[n] = [id |-> i, kind |-> kind]
InLog(i, kind) == \E n \in DOMAIN actuations : Logged(i, kind, n)

\* the step appends an authorization of i to the actuation log
NewAuth(i) == /\ Len(actuations') = Len(actuations) + 1
              /\ actuations'[Len(actuations')] = [id |-> i, kind |-> "auth"]

\* The atomic commit (t_c): whatever happened between the validation at t_v
\* and the commit (context updates, stops, revalidations by other workers,
\* outages, lost replies), at the instant an authorization enters the log the
\* predicates of the intent hold on the current context, the stop predicate
\* included if its validation read it, and its age is within its bound.
CommitValid ==
  [][\A i \in Intents : NewAuth(i) /\ records[i].class = "other" =>
       /\ Satisfied(i, context, i \in fenceRead)
       /\ Age(i) + Eps <= ReleaseBound(i)]_vars

\* An intent is authorized at most once in the log, however many commits of
\* it race, are retried after a lost reply, or follow a restart.
LogUnique ==
  \A m, n \in DOMAIN actuations :
    /\ actuations[m].kind = "auth" /\ actuations[n].kind = "auth"
    /\ actuations[m].id = actuations[n].id
    => m = n

\* What the record says of a commit is in the log: a COMMITTED intent has its
\* authorization there, at the recorded position if there is one.
CommitLogged ==
  \A i \in Intents :
    /\ records[i].state = "COMMITTED" => InLog(i, "auth")
    /\ records[i].commitSeq # NoSeq => Logged(i, "auth", records[i].commitSeq)

\* A tombstone follows the authorization it is about (docstring of
\* POST .../withheld).
TombstoneFollows ==
  \A n \in DOMAIN actuations :
    actuations[n].kind = "withheld"
      => \E m \in 1..(n - 1) : Logged(actuations[n].id, "auth", m)

\* While the store answers, a stop recorded after the decision of an intent
\* keeps it out of the log for good: the stop epoch of a target never goes
\* back, whichever of first-sight initializations and stops run concurrently,
\* and nothing is authorized that was decided at or before it.
StopFences ==
  [][/\ \A p \in StopPaths : context[p] <= context'[p]
     /\ \A i \in Intents : NewAuth(i) /\ records[i].class = "other" =>
          context[StopPathOf(i)] \in 0..(Decision[i] - Eps)]_vars

\* A target lock is held on behalf of an intent that is still AUTHORIZED, so
\* that a report on that intent, or its revoke, gives it back.
LockCovered ==
  \A x \in activeTargets : \E i \in Intents :
    TargetOf[i] = x /\ records[i].state = "AUTHORIZED" /\ records[i].class = "other"

\* docs/AIS.md on id: a producer or gateway is told at most once to act on an
\* intent (EXECUTE and not a duplicate), also across restarts.
GrantOnce == \A i \in Intents \ stopClass : grants[i] <= 1

\* Every request is answered: no worker waits for _STOP_LOCK for ever.
HandlersReturn == \A w \in Workers : []<>At(w, "idle")

FairSpec == Spec /\ \A w \in Workers : WF_vars(WorkerStep(w))
=============================================================================
