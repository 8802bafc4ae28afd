-------------------------- MODULE ActuationConsumer --------------------------
(***************************************************************************)
(* The consumer of the actuation log (xair/adapters/                       *)
(* actuation_consumer.py), over AtomicStore: processes that read the       *)
(* records after a durable offset, check each against the context, apply   *)
(* it and save the offset.                                                 *)
(*                                                                         *)
(* A process may crash between any two store calls, the store may be       *)
(* unreachable for some of them, and a process that was given up may still *)
(* run beside its successor.  The actuator, a device with a memory of its  *)
(* own (IdempotentActuator, SqliteActuator), survives.                     *)
(***************************************************************************)
EXTENDS AtomicStore

CONSTANTS
  Intents,         \* identifiers of intents that may be authorized
  Stops,           \* identifiers of stop intents
  Consumers,       \* processes that run a consumer of one name
  Reads,           \* per intent: the paths its predicates read
  Bounded,         \* the intents whose record carries a release bound
  Rechecks,        \* the values recheck_at_apply may have
  MaxVersion,      \* bound on context versions
  MaxLog,          \* bound on the actuation log
  MaxFaults        \* bound on crashes, outages and lost replies

ASSUME ConsumerAssumption ==
  /\ Reads \in [Intents -> SUBSET Paths]
  /\ Bounded \subseteq Intents
  /\ Rechecks \subseteq BOOLEAN
  /\ {MaxVersion, MaxLog, MaxFaults} \subseteq Nat

VARIABLES
  recheck,         \* recheck_at_apply
  recorded,        \* read_set_version in the log record of each intent
  late,            \* intents whose release bound has passed
  offset,          \* the durable offset
  consumer,        \* the poll of each process
  effects,         \* what the actuator did, in order; its memory of done ids
  withheld,        \* ids the recheck withheld
  faults           \* faults so far

envVars == <<recorded, late>>
vars == <<storeVars, recheck, envVars, offset, consumer, effects, withheld, faults>>

\* A poll that read "start" and the log up to "end" is at record "at".
Idle == [pc |-> "idle", start |-> 0, end |-> 0, at |-> 0, moved |-> FALSE]

Init ==
  /\ StoreInit
  /\ recheck \in Rechecks
  /\ recorded = [i \in Intents |-> 0]
  /\ late = {}
  /\ offset = 0
  /\ consumer = [c \in Consumers |-> Idle]
  /\ effects = <<>>
  /\ withheld = {}
  /\ faults = 0

Done == {effects[n] : n \in DOMAIN effects}
Fault == faults < MaxFaults /\ faults' = faults + 1

-----------------------------------------------------------------------------
(* The log's writers *)

\* the commit script appends the record with the version it compared
Authorize(i) ==
  /\ up /\ i \notin committed
  /\ Len(actuations) < MaxLog
  /\ Commit(i, "committed")
  /\ recorded' = [recorded EXCEPT ![i] = ReadSetVersion(pathVersions, Reads[i])]
  /\ UNCHANGED <<recheck, late, offset, consumer, effects, withheld, faults>>

\* the tombstone of an authorization that was not released, or a stop
AppendOther(i, kind) ==
  /\ up
  /\ Len(actuations) < MaxLog
  /\ kind = IF i \in Stops THEN "stop" ELSE "withheld"
  /\ kind = "withheld" => i \in committed
  /\ [id |-> i, kind |-> kind] \notin {actuations[n] : n \in DOMAIN actuations}
  /\ AppendActuation(i, kind)
  /\ UNCHANGED <<recheck, envVars, offset, consumer, effects, withheld, faults>>

\* a context write, which without the recheck is only reported
ContextUpdate(p, v) ==
  /\ up
  /\ version < MaxVersion
  /\ recheck
  /\ Update(p, v)
  /\ UNCHANGED <<recheck, envVars, offset, consumer, effects, withheld, faults>>

\* time passes the release bound of i; without the recheck it is only reported
Expire(i) ==
  /\ recheck /\ i \in committed \ late
  /\ late' = late \cup {i}
  /\ UNCHANGED <<storeVars, recheck, recorded, offset, consumer, effects, withheld, faults>>

-----------------------------------------------------------------------------
(* poll *)

At(c, pc) == consumer[c].pc = pc
Record(c) == actuations[consumer[c].at]
\* poll raises or its process crashes; main polls again
Raise(c) == consumer' = [consumer EXCEPT ![c] = Idle]
\* the loop of poll goes on to the next record it read
Advance(c) ==
  consumer' = [consumer EXCEPT ![c] =
    IF @.at = @.end THEN Idle
    ELSE [@ EXCEPT !.pc = "record", !.at = consumer[c].at + 1, !.moved = FALSE]]

\* kv_get; while it raises, main retries
ReadOffset(c) ==
  /\ At(c, "idle") /\ up
  /\ consumer' = [consumer EXCEPT ![c].pc = "log", ![c].start = offset]
  /\ UNCHANGED <<storeVars, recheck, envVars, offset, effects, withheld, faults>>

\* actuation_log, empty when the store is unreachable
ReadLog(c) ==
  /\ At(c, "log")
  /\ consumer' = [consumer EXCEPT ![c] =
       IF up /\ @.start < Len(actuations)
       THEN [@ EXCEPT !.pc = "record", !.start = 0, !.at = consumer[c].start + 1,
                      !.end = Len(actuations)] ELSE Idle]
  /\ UNCHANGED <<storeVars, recheck, envVars, offset, effects, withheld, faults>>

\* the version comparison of an authorization; an untrusted snapshot counts as
\* a change.  Without recheck_at_apply a change is only reported.
Check(c) ==
  LET i == Record(c).id IN
  /\ At(c, "record")
  /\ Record(c).kind = "auth"
  /\ consumer' = [consumer EXCEPT ![c].pc = "apply",
       ![c].moved = recheck /\ (~up \/ ReadSetVersion(pathVersions, Reads[i]) # recorded[i] \/ i \in late)]
  /\ UNCHANGED <<storeVars, recheck, envVars, offset, effects, withheld, faults>>

\* mutant of ApplyRecord: the actuator does not remember
ApplyForgetful(c) ==
  LET i == Record(c).id IN
  /\ At(c, "apply")
  /\ effects' = Append(effects, i)
  /\ consumer' = [consumer EXCEPT ![c].pc = "save"]
  /\ UNCHANGED <<storeVars, recheck, envVars, offset, withheld, faults>>

\* withhold, or have the actuator apply it; the actuator refuses a repeat
ApplyRecord(c) ==
  LET i == Record(c).id IN
  /\ At(c, "apply")
  /\ IF consumer[c].moved
     THEN withheld' = withheld \cup {i} /\ UNCHANGED effects
     ELSE /\ effects' = IF i \in Done THEN effects ELSE Append(effects, i)
          /\ UNCHANGED withheld
  /\ consumer' = [consumer EXCEPT ![c].pc = "save"]
  /\ UNCHANGED <<storeVars, recheck, envVars, offset, faults>>

\* mutant of SaveOffset: the offset jumps to the end of what was read
SaveOffsetEnd(c) ==
  /\ At(c, "save") \/ (At(c, "record") /\ Record(c).kind # "auth")
  /\ up
  /\ offset' = consumer[c].end
  /\ Advance(c)
  /\ UNCHANGED <<storeVars, recheck, envVars, effects, withheld, faults>>

\* mutant of SaveOffset: the loop continues past a tombstone without saving
SaveOffsetAuth(c) ==
  /\ At(c, "save") \/ (At(c, "record") /\ Record(c).kind # "auth")
  /\ \/ up /\ At(c, "save") /\ offset' = consumer[c].at /\ Advance(c) /\ UNCHANGED faults
     \/ At(c, "record") /\ Advance(c) /\ UNCHANGED <<offset, faults>>
     \/ ~up /\ Raise(c) /\ UNCHANGED <<offset, faults>>
  /\ UNCHANGED <<storeVars, recheck, envVars, effects, withheld>>

\* kv_set, after an authorization was dealt with or at once for another record;
\* it raises when the store is unreachable, and may raise having taken effect
SaveOffset(c) ==
  /\ At(c, "save") \/ (At(c, "record") /\ Record(c).kind # "auth")
  /\ \/ up /\ offset' = consumer[c].at /\ Advance(c) /\ UNCHANGED faults
     \/ ~up /\ Raise(c) /\ UNCHANGED <<offset, faults>>
     \/ up /\ Fault /\ offset' = consumer[c].at /\ Raise(c)
  /\ UNCHANGED <<storeVars, recheck, envVars, effects, withheld>>

Crash(c) ==
  /\ Fault
  /\ ~At(c, "idle")
  /\ Raise(c)
  /\ UNCHANGED <<storeVars, recheck, envVars, offset, effects, withheld>>

Outage ==
  /\ \/ StoreDown /\ Fault
     \/ StoreUp /\ UNCHANGED faults
  /\ UNCHANGED <<recheck, envVars, offset, consumer, effects, withheld>>

-----------------------------------------------------------------------------
ConsumerStep(c) == ReadOffset(c) \/ ReadLog(c) \/ Check(c) \/ ApplyRecord(c) \/ SaveOffset(c)

Next ==
  \/ \E c \in Consumers : ConsumerStep(c) \/ Crash(c)
  \/ \E i \in Intents : Authorize(i)
  \/ \E i \in Bounded : Expire(i)
  \/ \E i \in Intents \cup Stops, kind \in {"withheld", "stop"} : AppendOther(i, kind)
  \/ \E p \in Paths, v \in WrittenValues : ContextUpdate(p, v)
  \/ Outage

Spec == Init /\ [][Next]_vars
FairSpec == /\ Spec
            /\ \A c \in Consumers : WF_vars(ConsumerStep(c))
            /\ WF_vars(Outage /\ up')
-----------------------------------------------------------------------------
(* Properties *)

Positions == 0..MaxLog

ConsumerTypeOK ==
  /\ recheck \in BOOLEAN
  /\ actuations \in Seq([id: Intents \cup Stops, kind: {"auth", "withheld", "stop"}])
  /\ Len(actuations) <= MaxLog
  /\ up \in BOOLEAN
  /\ offset \in Positions
  /\ consumer \in [Consumers -> [pc: {"idle", "log", "record", "apply", "save"}, start: Positions,
                                 end: Positions, at: Positions, moved: BOOLEAN]]
  /\ effects \in Seq(Intents)
  /\ withheld \subseteq Intents
  /\ faults \in Nat

\* No authorization is lost: everything before the durable offset has been
\* applied, or withheld by the recheck, wherever a process crashed and
\* whichever of two overlapping processes saved its offset last.
NothingSkipped ==
  \A n \in 1..offset : actuations[n].kind = "auth" =>
    actuations[n].id \in Done \cup withheld

\* the authorization of i stands before that of j in the log
Before(i, j) ==
  \E m, n \in DOMAIN actuations :
    /\ m < n
    /\ actuations[m] = [id |-> i, kind |-> "auth"]
    /\ actuations[n] = [id |-> j, kind |-> "auth"]

\* Each committed authorization has at most one effect (module docstring), and
\* effects happen in commit order, also when crashes, lost replies or an
\* overlapping process replay a record; only a record the recheck had once
\* withheld may be applied by a replay after later ones.
InOrder ==
  \A m, n \in DOMAIN effects : m < n =>
    /\ effects[m] # effects[n]
    /\ Before(effects[m], effects[n]) \/ effects[n] \in withheld

\* The consumer catches up with the log again and again, once faults cease: no
\* crash, lost reply or regressed offset leaves a record behind for ever.
CatchesUp == []<>(offset = Len(actuations))
=============================================================================
