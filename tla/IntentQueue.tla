----------------------------- MODULE IntentQueue -----------------------------
(***************************************************************************)
(* The runtime's in-process interface: submit_intent puts an intent on the *)
(* receiver's priority queue (xair/core/intent_receiver.py), process_next  *)
(* and process_all take intents off it, and a pass that ends DELAYED or    *)
(* DEGRADED puts the intent back.  The operator's policy (set_policy) and  *)
(* the installed context may change between two passes of one intent.      *)
(*                                                                         *)
(* The queue holds ActionIntent objects, which a pass changes: it clears   *)
(* the degradation policy and adds the predicates the policy mandates.     *)
(* After the retention window two objects of one id may be queued.         *)
(***************************************************************************)
EXTENDS XairRuntime

CONSTANTS
  Priority,        \* priority of each intent
  Predicates,      \* predicate expressions
  Declared,        \* those an intent's producer declared
  Mandates,        \* what policies may mandate, per intent (of its action type
                   \* and its class)
  Reported,        \* the effect statuses that are reported
  MaxLapses        \* bound on the ids whose retention elapses

ASSUME QueueAssumption ==
  /\ Priority \in [Intents -> Nat]
  /\ Declared \in [Intents -> SUBSET Predicates]
  /\ Mandates \subseteq [Intents -> SUBSET Predicates]
  /\ Reported \subseteq Effects
  /\ MaxLapses \in Nat

VARIABLES
  queue,           \* IntentReceiver._heap, in the order it is popped
  mandated,        \* predicates the policy in force makes mandatory per intent
  holds,           \* the predicates that hold on the installed context
  lapses,          \* ids whose retention has elapsed so far
  standing,        \* per intent: what every policy since its submission mandates
  disowned         \* ids revoked or expired and not submitted since

queueVars == <<queue, mandated, holds, lapses, standing, disowned>>
vars == <<runtimeVars, queueVars>>

NotApplied == [applied |-> FALSE, preds |-> {}]

\* an ActionIntent: the age check a pass would make of it, the degradation
\* policy of its payload, and policy_added
Submitted(i) ==
  [id |-> i, age |-> "ok", policy |-> Created(i).policy, added |-> NotApplied]

QueueInit ==
  /\ RuntimeInit
  /\ queue = <<>>
  /\ mandated = [i \in Intents |-> {}]
  /\ holds \in SUBSET Predicates
  /\ lapses = 0
  /\ standing = [i \in Intents |-> {}]
  /\ disowned = {}

Queued(i) == \E n \in DOMAIN queue : queue[n].id = i

\* IntentReceiver.submit: by priority, then in order of submission
Insert(q, o) ==
  LET n == Cardinality({k \in DOMAIN q : Priority[q[k].id] >= Priority[o.id]})
  IN SubSeq(q, 1, n) \o <<o>> \o SubSeq(q, n + 1, Len(q))

-----------------------------------------------------------------------------
(* A validation pass *)

\* mutant of ApplyPolicy: policy_added starts as the empty list, not None
ApplyPolicyNever(o) == [applied |-> TRUE, preds |-> {}]

\* _apply_policy: once per object
ApplyPolicy(o) ==
  IF o.added.applied THEN o.added
  ELSE [applied |-> TRUE, preds |-> mandated[o.id] \ Declared[o.id]]

\* mutant of Validates: no early return
ValidatesAny(r) == TRUE

\* the early return of process_intent: a settled or authorized record is left
Validates(r) == r.state \in ValidatableStates

\* mutant of PutBack: a degraded intent is not put back
PutBackDelayed(o, outcome, added) ==
  IF outcome = "DELAY" THEN << [o EXCEPT !.added = added] >> ELSE <<>>

\* the object a pass puts back on the queue, _apply_degradation included
PutBack(o, outcome, added) ==
  CASE outcome = "DELAY"   -> << [o EXCEPT !.added = added] >>
    [] outcome = "DEGRADE" -> << [o EXCEPT !.added = added, !.policy = "none"] >>
    [] OTHER -> <<>>

\* process_intent with requeue=True on the installed context: the record it
\* leaves of o's id, and the object it puts back, if any.  r is the record it
\* finds, version and H the context, stale says that the caller named an older
\* context version.
Pass(o, r, version, H, stale) ==
  LET carried == [r EXCEPT !.policy = o.policy]
      added == ApplyPolicy(o)
      c == [version |-> version, readSetVersion |-> version, temporal |-> o.age,
            contextOk |-> Declared[o.id] \cup added.preds \subseteq H]
      outcome == Decide(carried, o.id, c)
  IN IF ~Validates(r)
     THEN [record |-> r, back |-> <<>>]
     ELSE IF o.id \in stopClass
     THEN [record |-> [AuthorizeStop(r) EXCEPT !.contextVersion = version], back |-> <<>>]
     ELSE IF stale
     THEN [record |-> RevokeStale(r), back |-> <<>>]
     ELSE [record |-> Validated(carried, outcome, c), back |-> PutBack(o, outcome, added)]

\* the pass's effect, on the records and the queue it starts from
Take(o, recs, q, pass) ==
  LET was == recs[o.id]
      acquired == /\ pass.record.state = "AUTHORIZED" /\ pass.record.class = "other"
                  /\ was.state # "AUTHORIZED"
  IN /\ records' = [recs EXCEPT ![o.id] = pass.record]
     /\ queue' = IF pass.back = <<>> THEN q ELSE Insert(q, pass.back[1])
     /\ activeTargets' = IF acquired THEN activeTargets \cup {TargetOf[o.id]}
                         ELSE activeTargets

\* the record process_intent finds, or registers
Found(recs, i) == IF recs[i].state = "ABSENT" THEN Created(i) ELSE recs[i]

\* ids the step leaves revoked or expired join the disowned
Disown(ids) ==
  disowned' = (disowned \ ids) \cup
              {i \in Intents : records'[i].state \in {"REVOKED", "EXPIRED"}}

-----------------------------------------------------------------------------
(* Operations *)

\* the retention of the k oldest ids may have elapsed: not before the windows
\* of what they still have queued
MayLapse(k) ==
  /\ k \in Lapses
  /\ lapses + k <= MaxLapses
  /\ \A n \in DOMAIN queue : (\E m \in 1..k : seen[m] = queue[n].id) => queue[n].age # "ok"

Expire(k) == lapses' = lapses + k

\* submit_intent: admit, and enqueue unless a duplicate
SubmitIntent(i, k) ==
  /\ MayLapse(k)
  /\ Admit(i, k)
  /\ Expire(k)
  /\ IF IsDuplicate(i, k)
     THEN UNCHANGED <<queue, standing>> /\ Disown({})
     ELSE /\ queue' = Insert(queue, Submitted(i))
          /\ standing' = [standing EXCEPT ![i] = mandated[i]]
          /\ Disown({i})
  /\ UNCHANGED <<mandated, holds>>

\* submit_and_process: install the caller's snapshot unless it is old, admit,
\* and make a pass at once
SubmitAndProcess(i, k, v, H) ==
  LET installed == IF v < contextVersion THEN contextVersion ELSE v
      now == IF v < contextVersion THEN holds ELSE H
      pass == Pass(Submitted(i), Created(i), installed, now, v < installed)
  IN /\ MayLapse(k)
     /\ Expire(k)
     /\ contextVersion' = installed
     /\ holds' = now
     /\ seen' = IF i \in Range(Retained(k)) THEN Retained(k) ELSE Append(Retained(k), i)
     /\ IF IsDuplicate(i, k)
        THEN /\ records' = AfterExpiry(k)
             /\ UNCHANGED <<activeTargets, queue, standing>>
             /\ Disown({})
        ELSE /\ Take(Submitted(i), [AfterExpiry(k) EXCEPT ![i] = Created(i)], queue, pass)
             /\ standing' = [standing EXCEPT ![i] = mandated[i]]
             /\ Disown({i})
     /\ UNCHANGED <<stopClass, mandated>>

\* process_next: the first intent of the queue, on the installed context
ProcessNext ==
  /\ queue # <<>>
  /\ LET o == Head(queue)
     IN Take(o, [records EXCEPT ![o.id] = Found(records, o.id)], Tail(queue),
             Pass(o, Found(records, o.id), contextVersion, holds, FALSE))
  /\ Disown({})
  /\ UNCHANGED <<seen, contextVersion, stopClass, mandated, holds, lapses, standing>>

\* set_policy: refused as a whole if a stop carries mandatory predicates
InstallPolicy(S, m) ==
  /\ \A i \in S : m[i] = {}
  /\ SetPolicy(S)
  /\ mandated' = m
  /\ standing' = [i \in Intents |-> standing[i] \cap m[i]]
  /\ UNCHANGED <<queue, holds, lapses, disowned>>

\* install_context_snapshot, and update_context, which names no version
InstallContext(v, H) ==
  /\ InstallSnapshot(v)
  /\ holds' = IF v < contextVersion THEN holds ELSE H
  /\ UNCHANGED <<queue, mandated, lapses, standing, disowned>>

\* time passes: a queued intent leaves its freshness window or its deadline
Elapse(n, age) ==
  /\ n \in DOMAIN queue /\ queue[n].age = "ok"
  /\ queue' = [queue EXCEPT ![n].age = age]
  /\ UNCHANGED <<runtimeVars, mandated, holds, lapses, standing, disowned>>

\* reports and revokes of the runtime leave the queue alone
Report(i) ==
  /\ \/ \E committed \in BOOLEAN : RecordCommit(i, committed, NoSeq)
     \/ \E released \in BOOLEAN : ReportRelease(i, released, "none", 0)
     \/ \E status \in Reported : ReportEffect(i, status)
     \/ SupervisoryRevoke(i)
  /\ Disown({})
  /\ UNCHANGED <<queue, mandated, holds, lapses, standing>>

QueueNext ==
  \/ \E i \in Intents, k \in Lapses : SubmitIntent(i, k)
  \/ \E i \in Intents, k \in Lapses, v \in Versions, H \in SUBSET Predicates :
       SubmitAndProcess(i, k, v, H)
  \/ ProcessNext
  \/ \E S \in StopPolicies, m \in Mandates : InstallPolicy(S, m)
  \/ \E v \in Versions, H \in SUBSET Predicates : InstallContext(v, H)
  \/ \E n \in DOMAIN queue, age \in {"obsolete", "deadline"} : Elapse(n, age)
  \/ \E i \in Intents : Report(i)

QueueSpec == QueueInit /\ [][QueueNext]_vars

\* process_all pops until the queue is empty, and every window is finite
FairQueueSpec ==
  /\ QueueSpec
  /\ WF_vars(ProcessNext)
  /\ WF_vars(\E n \in DOMAIN queue, age \in {"obsolete", "deadline"} : Elapse(n, age))
-----------------------------------------------------------------------------
(* Properties *)

QueueTypeOK ==
  /\ RuntimeTypeOK
  /\ \A n \in DOMAIN queue :
       queue[n] \in [id: Intents, age: {"ok", "obsolete", "deadline"},
                     policy: {"none", "reduce_speed"},
                     added: [applied: BOOLEAN, preds: SUBSET Predicates]]
  /\ mandated \in [Intents -> SUBSET Predicates]
  /\ holds \subseteq Predicates
  /\ lapses \in 0..MaxLapses
  /\ standing \in [Intents -> SUBSET Predicates]
  /\ disowned \subseteq Intents

\* An intent that still waits for a validation is on the queue: neither a
\* requeue, a resubmission after the retention window, nor two queued objects
\* of one id leaves a record behind that no process_next will ever look at.
NoneStranded == \A i \in Intents : records[i].state \in ValidatableStates => Queued(i)

\* A revoked or expired intent is not authorized by what is left of it on the
\* queue, not even once the retention window has dropped its record and
\* process_next registers the id again: only a new submission can (a stop,
\* which no age revokes, excepted).
RevokedStays ==
  \A i \in disowned : records[i].outcome = "EXECUTE" => records[i].class = "stop"

\* Whatever its producer declared and however often it was delayed or degraded
\* in between, an intent is authorized only on a context that satisfies what it
\* declared and what every policy installed since its submission mandates.  (A
\* predicate mandated only after its first pass is not applied to it.)
PolicyHeld ==
  [][\A i \in Intents :
       /\ records'[i].state = "AUTHORIZED" /\ records'[i].class = "other"
       /\ records[i].state # "AUTHORIZED"
       => Declared[i] \cup standing'[i] \subseteq holds']_vars

\* process_all comes to an end: although an intent whose target is locked is put
\* back again and again, before every intent of lower priority, its window
\* closes and the queue becomes empty.
QueueDrains == []<>(queue = <<>>)
=============================================================================
