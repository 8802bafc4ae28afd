---------------------------- MODULE BatchIngress ----------------------------
(***************************************************************************)
(* POST /v1/intents/batch (submit_intent_batch in xair/adapters/           *)
(* http_server.py with DistributedCoordinator.resolve): one request        *)
(* carries several intents.  Its stops are authorized first and preempt    *)
(* the other intents on their targets, every other target has one winner,  *)
(* and the winners are validated one after the other.                      *)
(*                                                                         *)
(* The handler's inner calls (_fence_intent, _record_stop, _validate_now)  *)
(* are the steps of XairServer.  Several workers serve batches at once,    *)
(* while supervisors revoke, gateways commit and another process writes    *)
(* the context.  An untrusted read returns what this process read last.    *)
(***************************************************************************)
EXTENDS XairServer

CONSTANTS
  Priority,        \* priority of each intent
  Batches,         \* the sets of intents a batch may carry
  FromXr           \* the intents whose source is "xr"

ASSUME BatchAssumption ==
  /\ Priority \in [Intents -> Nat]
  /\ Batches \subseteq SUBSET Intents
  /\ FromXr \subseteq Intents

VARIABLES
  batch,           \* per worker: the part of its batch that is still to be served
  local            \* the store client's copy: _memory, _version, _path_versions

batchVars == <<vars, batch, local>>

\* "mine" are the ids this batch was the first to admit, "trusted" the flag of
\* the read its current winner is validated on
NoBatch ==
  [open |-> FALSE, install |-> FALSE, stops |-> {}, refuse |-> {}, win |-> {},
   mine |-> {}, halted |-> {}, trusted |-> TRUE]

BatchInit ==
  /\ Init
  /\ batch = [w \in Workers |-> NoBatch]
  /\ local = Snapshot

-----------------------------------------------------------------------------
(* Classification *)

\* the sort key of resolve
Outranks(i, j) ==
  \/ Priority[i] > Priority[j]
  \/ Priority[i] = Priority[j] /\ i \in FromXr /\ j \notin FromXr

\* mutant of Resolves: every intent of the group wins
ResolvesAll(win, group) ==
  \A x \in Targets : {i \in win : TargetOf[i] = x} = {i \in group : TargetOf[i] = x}

\* resolve, for every target of a group of intents: one of the best, which one
\* of several equals depends on their order in the body
Resolves(win, group) ==
  /\ win \subseteq group
  /\ \A i \in group : \E v \in win : TargetOf[v] = TargetOf[i] /\ ~Outranks(i, v)
  /\ \A i, j \in win : TargetOf[i] = TargetOf[j] => i = j

-----------------------------------------------------------------------------
(* Steps of the handler *)

Serving(w) == batch[w].open
\* between two inner calls
Between(w) == Serving(w) /\ At(w, "batch")
Resume(w) == worker' = [worker EXCEPT ![w] = [Free EXCEPT !.pc = "batch"]]
Abort(w) == Done(w) /\ batch' = [batch EXCEPT ![w] = NoBatch]

\* read_snapshot and the sorting of the body: on an untrusted read everything
\* but the stops is rejected
BatchStart(w, B, win) ==
  LET stops == B \cap stopClass
      halted == {TargetOf[s] : s \in stops}
      others == IF up THEN B \ stopClass ELSE {}
      free == {i \in others : TargetOf[i] \notin halted}
  IN /\ At(w, "idle")
     /\ Resolves(win, free)
     /\ worker' = [worker EXCEPT ![w] = [Free EXCEPT !.pc = "batch",
                     !.snapshot = IF up THEN Snapshot ELSE EmptySnapshot]]
     /\ batch' = [batch EXCEPT ![w] =
          [NoBatch EXCEPT !.open = TRUE, !.install = up, !.stops = stops,
                          !.refuse = others \ win, !.win = win, !.halted = halted]]
     /\ UNCHANGED <<runtimeVars, storeVars, now, stopLock, fenced, fenceRead, grants>>

BatchInstall(w) ==
  /\ Between(w) /\ batch[w].install
  /\ InstallSnapshot(worker[w].snapshot.version)
  /\ Resume(w)
  /\ batch' = [batch EXCEPT ![w].install = FALSE]
  /\ UNCHANGED <<storeVars, now, stopLock, fenced, fenceRead, grants>>

\* admit, from one of the three loops; a new object carries no stop predicate
BatchAdmit(w, i, loop, pc) ==
  LET first == ~IsDuplicate(i, 0) IN
  /\ Admit(i, 0)
  /\ batch' = [batch EXCEPT ![w] = [batch[w] EXCEPT ![loop] = @ \ {i},
                 !.mine = IF first THEN @ \cup {i} ELSE @]]
  /\ worker' = [worker EXCEPT ![w] = [Free EXCEPT !.pc = pc, !.id = i]]
  /\ fenced' = IF first THEN fenced \ {i} ELSE fenced
  /\ fenceRead' = IF first THEN fenceRead \ {i} ELSE fenceRead
  /\ UNCHANGED <<storeVars, now, stopLock, grants>>

\* a stop is validated if its record is new, or still CREATED
BatchStop(w) ==
  /\ Between(w) /\ ~batch[w].install
  /\ \E s \in batch[w].stops :
       BatchAdmit(w, s, "stops",
                  IF ~IsDuplicate(s, 0) \/ records[s].state = "CREATED"
                  THEN "stop_process" ELSE "batch")

\* an intent preempted by a stop of the batch, or the loser of its target
BatchRefuse(w) ==
  /\ Between(w) /\ ~batch[w].install /\ batch[w].stops = {}
  /\ \E i \in batch[w].refuse :
       BatchAdmit(w, i, "refuse", IF IsDuplicate(i, 0) THEN "batch" ELSE "revoke")

\* ... is revoked, without the runtime's lock: a revoke in between makes the
\* transition raise, which ends the request
BatchRevoke(w) ==
  LET i == worker[w].id IN
  /\ Serving(w) /\ At(w, "revoke")
  /\ LifecycleRevoke(i)
  /\ IF "REVOKED" \in Allowed(records[i].state) THEN Resume(w) /\ UNCHANGED batch ELSE Abort(w)
  /\ UNCHANGED <<storeVars, now, stopLock, fenced, fenceRead, grants>>

\* a winner: _fence_intent comes next, unless it is a duplicate
BatchWin(w) ==
  /\ Between(w) /\ ~batch[w].install /\ batch[w].stops = {} /\ batch[w].refuse = {}
  /\ \E i \in batch[w].win :
       BatchAdmit(w, i, "win", IF IsDuplicate(i, 0) THEN "batch" ELSE "fence")

\* the second read_snapshot, whose trust is ignored
BatchRegister(w) ==
  /\ Serving(w) /\ At(w, "register")
  /\ IF up THEN Take(w, "install")
           ELSE worker' = [worker EXCEPT ![w].pc = "process", ![w].snapshot = local]
  /\ batch' = [batch EXCEPT ![w].trusted = up]
  /\ UNCHANGED <<runtimeVars, storeVars, now, stopLock, fenced, fenceRead, grants>>

\* _validate_now without path versions: the global version stands for the
\* read set's
BatchProcess(w) ==
  LET i == worker[w].id
      c == [CheckOn(w, i) EXCEPT !.readSetVersion = worker[w].snapshot.version]
      decided == records[i].state \in ValidatableStates /\ ~(c.version < contextVersion)
  IN /\ Serving(w) /\ worker[w].pc \in {"process", "reprocess"}
     /\ ProcessIntent(i, c)
     /\ IF At(w, "process") /\ records'[i].state = "DEGRADED"
        THEN Keep(w, "reprocess") ELSE Goto(w, "reply")
     /\ fenceRead' = IF ~decided THEN fenceRead
                     ELSE IF i \in fenced THEN fenceRead \cup {i} ELSE fenceRead \ {i}
     /\ UNCHANGED <<batch, storeVars, now, stopLock, fenced, grants>>

\* mutant of BatchSettle: the lock is left to a release report
BatchSettleLocked(w) ==
  /\ Serving(w) /\ At(w, "reply")
  /\ Resume(w)
  /\ UNCHANGED <<runtimeVars, batch, storeVars, now, stopLock, fenced, fenceRead, grants>>

\* the lock of an authorized winner is given back at once
BatchSettle(w) ==
  LET i == worker[w].id IN
  /\ Serving(w) /\ At(w, "reply")
  /\ IF i \notin stopClass /\ records[i].state = "AUTHORIZED"
     THEN ReleaseTarget(i) ELSE UNCHANGED activeTargets
  /\ Resume(w)
  /\ UNCHANGED <<records, seen, contextVersion, stopClass, batch, storeVars, now,
                 stopLock, fenced, fenceRead, grants>>

BatchReply(w) ==
  /\ Between(w) /\ ~batch[w].install
  /\ batch[w].stops \cup batch[w].refuse \cup batch[w].win = {}
  /\ Abort(w)
  /\ UNCHANGED <<runtimeVars, storeVars, now, stopLock, fenced, fenceRead, grants>>

BatchStep(w) ==
  \/ BatchInstall(w)
  \/ BatchStop(w)
  \/ BatchRefuse(w)
  \/ BatchRevoke(w)
  \/ BatchWin(w)
  \/ BatchRegister(w)
  \/ BatchProcess(w)
  \/ BatchSettle(w)
  \/ BatchReply(w)

\* the inner calls, and the commit of an intent a batch authorized
InnerStep(w) ==
  /\ \/ StopProcess(w) \/ StopUpdate(w) \/ StopLog(w)
     \/ SubmitFence(w) \/ SubmitFenceInstall(w) \/ SubmitFenceInit(w)
     \/ SubmitInstall(w)
     \/ ReadBack(w) \/ InstallBack(w)
     \/ \E i \in Intents : CommitStart(w, i)
     \/ CommitStore(w) \/ CommitRecord(w)
  /\ UNCHANGED batch

-----------------------------------------------------------------------------
\* a successful update leaves the new document in the client, a read what it read
Remember ==
  local' = IF version' # version THEN Snapshot'
           ELSE IF \E w \in Workers : worker'[w].snapshot \notin {EmptySnapshot, worker[w].snapshot, local}
           THEN Snapshot ELSE local

\* another XAIR process writes the context
OtherWrite(p, v) ==
  /\ up /\ CanUpdate
  /\ Update(p, v)
  /\ UNCHANGED <<runtimeVars, serverVars, batch, local>>

BatchNext ==
  \/ /\ \E w \in Workers :
          \/ \E B \in Batches : \E win \in SUBSET B : BatchStart(w, B, win)
          \/ BatchStep(w)
          \/ InnerStep(w)
     /\ Remember
  \/ \E i \in Intents : RevokeRequest(i) /\ UNCHANGED <<batch, local>>
  \/ \E p \in DataPaths, v \in WrittenValues : OtherWrite(p, v)
  \/ Outage /\ UNCHANGED <<batch, local>>

BatchSpec == BatchInit /\ [][BatchNext]_batchVars
-----------------------------------------------------------------------------
(* Properties *)

BatchTypeOK ==
  /\ RuntimeTypeOK
  /\ stopLock \in Workers \cup {NoWorker}
  /\ \A w \in Workers :
       /\ batch[w].stops \cup batch[w].refuse \cup batch[w].win \cup batch[w].mine \subseteq Intents
       /\ Serving(w) <=> worker[w].pc \notin {"idle", "commit", "record"}
  /\ local.version \in Versions

\* Of the intents a batch is the first to admit, at most one is authorized per
\* target, and none on the target of one of its stops ("cv" in the response
\* stays 0), whatever other batches, commits and revokes do meanwhile.
OneWinner ==
  \A w \in Workers : \A i, j \in batch[w].mine \ stopClass :
    records[i].outcome = "EXECUTE" =>
      /\ TargetOf[i] \notin batch[w].halted
      /\ records[j].outcome = "EXECUTE" /\ TargetOf[i] = TargetOf[j] => i = j

\* The batch reads the context twice and releases its locks itself: no
\* interleaving of batches, revokes and commits leaves a target locked once
\* nothing is being served.
LocksReturned == (\A w \in Workers : At(w, "idle")) => activeTargets = {}

\* docstring of _snapshot_locked: on an untrusted read a caller revokes rather
\* than authorizes on a stale local copy.
TrustedOnly ==
  [][\A w \in Workers, i \in Intents :
       /\ Serving(w) /\ worker[w].pc = "process" /\ worker[w].id = i
       /\ records[i].state # "AUTHORIZED" /\ records'[i].state = "AUTHORIZED"
       => batch[w].trusted]_batchVars
=============================================================================
