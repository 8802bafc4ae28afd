-------------------------- MODULE XairRuntimeProofs --------------------------
(***************************************************************************)
(* Proofs about XairRuntime, for any intents, targets, policies and bounds *)
(* and for callers that call its methods in any order.                     *)
(***************************************************************************)
EXTENDS XairRuntime, SequenceTheorems, WellFoundedInduction, TLAPS

-----------------------------------------------------------------------------
(* Greatest elements *)

\* A bounded, nonempty set of naturals has a greatest element.
LEMMA BoundedMax ==
  ASSUME NEW n \in Nat, NEW S \in SUBSET (0..n), S # {}
  PROVE  \E m \in S : \A x \in S : m >= x
<1> DEFINE U == {u \in Nat : \A x \in S : u >= x}
<1>1. n \in U
  OBVIOUS
<1>2. U \subseteq Nat /\ U # {}
  BY <1>1
<1>3. PICK m \in U : \A y \in U : ~(<<y, m>> \in OpToRel(<, Nat))
  BY <1>2, NatLessThanWellFounded, WFMin
<1>4. \A y \in U : ~(y < m)
  BY <1>3 DEF OpToRel
<1>5. m \in S
  <2> SUFFICES ASSUME m \notin S PROVE FALSE
    OBVIOUS
  <2>1. \A x \in S : x < m
    OBVIOUS
  <2>2. m - 1 \in Nat
    <3>1. PICK x \in S : TRUE
      OBVIOUS
    <3> QED BY <2>1, <3>1
  <2>3. \A x \in S : m - 1 >= x
    BY <2>1
  <2> QED BY <2>2, <2>3, <1>4
<1> QED BY <1>5

-----------------------------------------------------------------------------
(* Types of the values the methods store *)

\* The records a registration or a removal leaves are records.
LEMMA FreshTypes ==
  /\ Absent \in Record
  /\ \A i \in Intents : Created(i) \in Record
<1>1. 0 \in Versions
  BY RuntimeAssumption DEF Versions
<1>2. Absent \in Record
  BY <1>1 DEF Absent, Record, Outcomes, Decisions, NoSeq
<1>3. ASSUME NEW i \in Intents PROVE Created(i) \in Record
  BY <1>2 DEF Created, Record, States
<1> QED BY <1>2, <1>3

\* Every outcome of a validation pass leaves a record.
LEMMA PassTypes ==
  ASSUME NEW r \in Record, NEW i \in Intents, NEW c \in Checks, contextVersion \in Versions
  PROVE  /\ AuthorizeStop(r) \in Record
         /\ RevokeStale(r) \in Record
         /\ Validated(r, Decide(r, i, c), c) \in Record
<1>0. 0 \in Versions
  BY RuntimeAssumption DEF Versions
<1>1. AuthorizeStop(r) \in Record
  BY <1>0 DEF AuthorizeStop, Record, States, Outcomes
<1>2. RevokeStale(r) \in Record
  BY DEF RevokeStale, Record, States, Outcomes, Versions
<1>3. Decide(r, i, c) \in Outcomes
  BY DEF Decide, Outcomes
<1>4. StateAfter(Decide(r, i, c), c) \in States
  BY DEF StateAfter, States
<1>5. Validated(r, Decide(r, i, c), c) \in Record
  BY <1>3, <1>4 DEF Validated, Record, Checks
<1> QED BY <1>1, <1>2, <1>5

\* So does every report that is taken up.
LEMMA ReportTypes ==
  ASSUME NEW r \in Record
  PROVE  /\ \A seq \in {NoSeq} \cup LogPositions : Committed(r, seq) \in Record
         /\ Withheld(r) \in Record
         /\ Released(r) \in Record
         /\ Revoked(r) \in Record
         /\ \A status \in Effects : Effected(r, status) \in Record
<1>1. ASSUME NEW seq \in {NoSeq} \cup LogPositions PROVE Committed(r, seq) \in Record
  BY DEF Committed, Record, States
<1>2. Withheld(r) \in Record
  BY DEF Withheld, Record, States, Decisions
<1>3. Released(r) \in Record
  BY DEF Released, Record, States, Decisions
<1>4. Revoked(r) \in Record
  BY DEF Revoked, Record, States, Outcomes
<1>5. ASSUME NEW status \in Effects PROVE Effected(r, status) \in Record
  <2>1. EffectState(status) \in States
    BY DEF EffectState, States
  <2> QED BY <2>1 DEF Effected, Record
<1> QED BY <1>1, <1>2, <1>3, <1>4, <1>5

\* Dropping the oldest ids leaves a sequence of ids, and records.
LEMMA ExpiryTypes ==
  ASSUME RuntimeTypeOK, NEW k \in Lapses
  PROVE  /\ Retained(k) \in Seq(Intents)
         /\ AfterExpiry(k) \in [Intents -> Record]
<1>1. k \in 0..Len(seen)
  BY DEF Lapses, RuntimeTypeOK
<1>2. Retained(k) \in Seq(Intents)
  BY <1>1, SubSeqProperties DEF Retained, RuntimeTypeOK
<1>3. AfterExpiry(k) \in [Intents -> Record]
  BY FreshTypes DEF AfterExpiry, RuntimeTypeOK
<1> QED BY <1>2, <1>3

-----------------------------------------------------------------------------
(* Type correctness *)

\* Initially, and after every method, every variable has its type.
LEMMA TypeInit == RuntimeInit => RuntimeTypeOK
BY FreshTypes, RuntimeAssumption DEF RuntimeInit, RuntimeTypeOK, Versions

\* Every call keeps the types.
LEMMA TypeStep == RuntimeTypeOK /\ [RuntimeNext]_runtimeVars => RuntimeTypeOK'
<1> SUFFICES ASSUME RuntimeTypeOK, [RuntimeNext]_runtimeVars PROVE RuntimeTypeOK'
  OBVIOUS
<1> USE DEF RuntimeTypeOK
<1>1. ASSUME NEW S \in StopPolicies, SetPolicy(S) PROVE RuntimeTypeOK'
  BY <1>1 DEF SetPolicy
<1>2. ASSUME NEW v \in Versions, InstallSnapshot(v) PROVE RuntimeTypeOK'
  BY <1>2 DEF InstallSnapshot
<1>3. ASSUME NEW i \in Intents, NEW k \in Lapses, Admit(i, k) PROVE RuntimeTypeOK'
  <2>1. seen' \in Seq(Intents)
    <3>1. Append(Retained(k), i) \in Seq(Intents)
      BY ExpiryTypes, AppendProperties
    <3> QED BY <1>3, <3>1, ExpiryTypes DEF Admit
  <2>2. records' \in [Intents -> Record]
    BY <1>3, ExpiryTypes, FreshTypes DEF Admit
  <2> QED BY <1>3, <2>1, <2>2 DEF Admit
<1>4. ASSUME NEW i \in Intents, NEW c \in Checks, ProcessIntent(i, c)
      PROVE  RuntimeTypeOK'
  <2> DEFINE r == IF records[i].state = "ABSENT" THEN Created(i) ELSE records[i]
  <2>1. r \in Record
    BY FreshTypes
  <2>2. /\ AuthorizeStop(r) \in Record
        /\ RevokeStale(r) \in Record
        /\ Validated(r, Decide(r, i, c), c) \in Record
    BY <2>1, PassTypes
  <2> HIDE DEF r
  <2>4. records' \in {records, [records EXCEPT ![i] = AuthorizeStop(r)],
                      [records EXCEPT ![i] = RevokeStale(r)],
                      [records EXCEPT ![i] = Validated(r, Decide(r, i, c), c)]}
    BY <1>4 DEF ProcessIntent, r
  <2>3. activeTargets' \subseteq Targets
    BY <1>4, RuntimeAssumption DEF ProcessIntent
  <2> QED BY <1>4, <2>2, <2>3, <2>4 DEF ProcessIntent
<1>5. ASSUME NEW i \in Intents, NEW committed \in BOOLEAN,
             NEW seq \in {NoSeq} \cup LogPositions, RecordCommit(i, committed, seq)
      PROVE  RuntimeTypeOK'
  <2>1. /\ Committed(records[i], seq) \in Record
        /\ Withheld(records[i]) \in Record
    BY ReportTypes
  <2>2. records' \in {records, [records EXCEPT ![i] = Committed(records[i], seq)],
                      [records EXCEPT ![i] = Withheld(records[i])]}
    BY <1>5 DEF RecordCommit
  <2> QED BY <1>5, <2>1, <2>2 DEF RecordCommit, ReleaseTarget
<1>6. ASSUME NEW i \in Intents, NEW released \in BOOLEAN,
             NEW scope \in {"none", "readset", "global"}, NEW v \in Versions,
             ReportRelease(i, released, scope, v)
      PROVE  RuntimeTypeOK'
  <2>1. records' \in [Intents -> Record]
    BY <1>6, ReportTypes DEF ReportRelease
  <2> QED BY <1>6, <2>1 DEF ReportRelease, ReleaseTarget
<1>7. ASSUME NEW i \in Intents, NEW status \in Effects, ReportEffect(i, status)
      PROVE  RuntimeTypeOK'
  BY <1>7, ReportTypes DEF ReportEffect
<1>8. ASSUME NEW i \in Intents, SupervisoryRevoke(i) \/ LifecycleRevoke(i)
      PROVE  RuntimeTypeOK'
  <2>1. records' \in [Intents -> Record]
    BY <1>8, ReportTypes DEF SupervisoryRevoke, LifecycleRevoke
  <2> QED BY <1>8, <2>1 DEF SupervisoryRevoke, LifecycleRevoke, ReleaseTarget
<1>9. CASE RuntimeRestart
  BY <1>9, FreshTypes, RuntimeAssumption DEF RuntimeRestart, Versions
<1>10. CASE UNCHANGED runtimeVars
  BY <1>10 DEF runtimeVars
<1> QED BY <1>1, <1>2, <1>3, <1>4, <1>5, <1>6, <1>7, <1>8, <1>9, <1>10 DEF RuntimeNext

\* Every variable of the runtime keeps its type.
THEOREM TypeCorrect == RuntimeSpec => []RuntimeTypeOK
BY TypeInit, TypeStep, PTL DEF RuntimeSpec

-----------------------------------------------------------------------------
(* What one step may do to one record *)

Validations(i) ==
  LET From(r) == {AuthorizeStop(r), RevokeStale(r)}
                   \cup {Validated(r, Decide(r, i, c), c) : c \in Checks}
  IN [r \in Record |-> From(r)]

\* The changes a step may make to the record r of intent i: none, removal or
\* registration, a validation pass, or a report.
Change(i, r, q) ==
  \/ q \in {r, Absent, Created(i)}
  \/ r.state = "ABSENT" /\ q \in Validations(i)[Created(i)]
  \/ r.state \in ValidatableStates /\ q \in Validations(i)[r]
  \/ /\ r.state = "AUTHORIZED"
     /\ q = Withheld(r) \/ \E seq \in {NoSeq} \cup LogPositions : q = Committed(r, seq)
  \/ TakesReport(r) /\ q \in {Withheld(r), Released(r)}
  \/ \E status \in Effects :
       EffectState(status) \in Allowed(r.state) /\ q = Effected(r, status)
  \/ "REVOKED" \in Allowed(r.state) /\ q = Revoked(r)

\* Every method changes each record in one of those ways.
LEMMA StepChanges ==
  ASSUME RuntimeTypeOK, [RuntimeNext]_runtimeVars, NEW j \in Intents
  PROVE  Change(j, records[j], records'[j])
<1> USE DEF RuntimeTypeOK
<1>1. ASSUME NEW S \in StopPolicies, SetPolicy(S) PROVE Change(j, records[j], records'[j])
  BY <1>1 DEF SetPolicy, Change
<1>2. ASSUME NEW v \in Versions, InstallSnapshot(v) PROVE Change(j, records[j], records'[j])
  BY <1>2 DEF InstallSnapshot, Change
<1>3. ASSUME NEW i \in Intents, NEW k \in Lapses, Admit(i, k)
      PROVE  Change(j, records[j], records'[j])
  <2>1. AfterExpiry(k)[j] \in {records[j], Absent}
    BY DEF AfterExpiry
  <2>2. AfterExpiry(k) \in [Intents -> Record]
    BY ExpiryTypes
  <2>3. records'[j] \in {AfterExpiry(k)[j], Created(j)}
    BY <1>3, <2>2 DEF Admit
  <2> QED BY <2>1, <2>3 DEF Change
<1>4. ASSUME NEW i \in Intents, NEW c \in Checks, ProcessIntent(i, c)
      PROVE  Change(j, records[j], records'[j])
  <2> DEFINE r == IF records[i].state = "ABSENT" THEN Created(i) ELSE records[i]
  <2>1. r \in Record
    BY FreshTypes
  <2>2. \/ records' = records
        \/ /\ r.state \in ValidatableStates
           /\ records' \in {[records EXCEPT ![i] = AuthorizeStop(r)],
                            [records EXCEPT ![i] = RevokeStale(r)],
                            [records EXCEPT ![i] = Validated(r, Decide(r, i, c), c)]}
    BY <1>4 DEF ProcessIntent
  <2>3. CASE records' = records
    BY <2>3 DEF Change
  <2>4. CASE /\ r.state \in ValidatableStates
             /\ records' \in {[records EXCEPT ![i] = AuthorizeStop(r)],
                              [records EXCEPT ![i] = RevokeStale(r)],
                              [records EXCEPT ![i] = Validated(r, Decide(r, i, c), c)]}
    <3> HIDE DEF r
    <3>1. records'[j] = records[j] \/ (j = i /\ records'[i] \in Validations(i)[r])
      BY <2>1, <2>4 DEF Validations
    <3> QED BY <2>4, <3>1 DEF Change, r
  <2> QED BY <2>2, <2>3, <2>4
<1>5. ASSUME NEW i \in Intents, NEW committed \in BOOLEAN,
             NEW seq \in {NoSeq} \cup LogPositions, RecordCommit(i, committed, seq)
      PROVE  Change(j, records[j], records'[j])
  <2>1. \/ records' = records
        \/ /\ records[i].state = "AUTHORIZED"
           /\ records' \in {[records EXCEPT ![i] = Committed(records[i], seq)],
                            [records EXCEPT ![i] = Withheld(records[i])]}
    BY <1>5 DEF RecordCommit
  <2> QED BY <2>1 DEF Change
<1>6. ASSUME NEW i \in Intents, NEW released \in BOOLEAN,
             NEW scope \in {"none", "readset", "global"}, NEW v \in Versions,
             ReportRelease(i, released, scope, v)
      PROVE  Change(j, records[j], records'[j])
  <2>1. \/ records' = records
        \/ /\ TakesReport(records[i])
           /\ records' \in {[records EXCEPT ![i] = Released(records[i])],
                            [records EXCEPT ![i] = Withheld(records[i])]}
    BY <1>6 DEF ReportRelease
  <2> QED BY <2>1 DEF Change
<1>7. ASSUME NEW i \in Intents, NEW status \in Effects, ReportEffect(i, status)
      PROVE  Change(j, records[j], records'[j])
  BY <1>7 DEF ReportEffect, Change
<1>8. ASSUME NEW i \in Intents, SupervisoryRevoke(i) \/ LifecycleRevoke(i)
      PROVE  Change(j, records[j], records'[j])
  BY <1>8 DEF SupervisoryRevoke, LifecycleRevoke, Change
<1>9. CASE RuntimeRestart
  BY <1>9 DEF RuntimeRestart, Change
<1>10. CASE UNCHANGED runtimeVars
  BY <1>10 DEF runtimeVars, Change
<1> QED BY <1>1, <1>2, <1>3, <1>4, <1>5, <1>6, <1>7, <1>8, <1>9, <1>10 DEF RuntimeNext

-----------------------------------------------------------------------------
(* The items of a record agree *)

\* A pass over a consistent record that may be validated ends consistent.
LEMMA PassConsistent ==
  ASSUME NEW i \in Intents, NEW r \in Record, r.state \in ValidatableStates,
         Consistent(r), NEW q \in Validations(i)[r]
  PROVE  Consistent(q)
<1>1. /\ r.decision = "NONE" /\ r.effect = "NONE" /\ r.commitSeq = NoSeq
  BY DEF Consistent, ValidatableStates, ReleasedStates, Record, Decisions
<1>2. Consistent(AuthorizeStop(r)) /\ Consistent(RevokeStale(r))
  BY <1>1 DEF AuthorizeStop, RevokeStale, Consistent, ReleasedStates, Record
<1>3. ASSUME NEW c \in Checks PROVE Consistent(Validated(r, Decide(r, i, c), c))
  <2> DEFINE o == Decide(r, i, c)
             v == Validated(r, o, c)
  <2>1. o \in {"EXECUTE", "DELAY", "DEGRADE", "REVOKE"}
    BY DEF Decide
  <2>2. /\ o = "EXECUTE" => StateAfter(o, c) = "AUTHORIZED"
        /\ o = "DELAY"   => StateAfter(o, c) = "DELAYED"
        /\ o = "DEGRADE" => StateAfter(o, c) = "DEGRADED"
        /\ o = "REVOKE"  => StateAfter(o, c) \in {"EXPIRED", "REVOKED"}
    BY DEF StateAfter
  <2> HIDE DEF o
  <2>3. /\ v.state = StateAfter(o, c) /\ v.outcome = o
        /\ v.decision = "NONE" /\ v.effect = "NONE" /\ v.commitSeq = NoSeq
    BY <1>1 DEF Validated, Record
  <2> HIDE DEF v
  <2>4. Consistent(v)
    BY <2>1, <2>2, <2>3 DEF Consistent, ReleasedStates
  <2> QED BY <2>4 DEF v, o
<1> QED BY <1>2, <1>3 DEF Validations

\* No change of a record makes its items disagree.
LEMMA ChangeConsistent ==
  ASSUME NEW i \in Intents, NEW r \in Record, Consistent(r), NEW q, Change(i, r, q)
  PROVE  Consistent(q)
<1>1. Consistent(Absent) /\ Consistent(Created(i)) /\ Created(i).state = "CREATED"
  BY DEF Absent, Created, Consistent, ReleasedStates
<1>2. CASE q \in {r, Absent, Created(i)}
  BY <1>1, <1>2
<1>3. CASE r.state = "ABSENT" /\ q \in Validations(i)[Created(i)]
  BY <1>1, <1>3, FreshTypes, PassConsistent DEF ValidatableStates
<1>4. CASE r.state \in ValidatableStates /\ q \in Validations(i)[r]
  BY <1>4, PassConsistent
<1>5. CASE TakesReport(r) /\ q \in {Withheld(r), Released(r)}
  BY <1>5 DEF TakesReport, Withheld, Released, Consistent, ReleasedStates, Record
<1>6. CASE r.state = "AUTHORIZED" /\ q = Withheld(r)
  BY <1>6 DEF Withheld, Consistent, ReleasedStates, Record
<1>7. ASSUME NEW seq \in {NoSeq} \cup LogPositions, r.state = "AUTHORIZED",
             q = Committed(r, seq)
      PROVE  Consistent(q)
  BY <1>7 DEF Committed, Consistent, ReleasedStates, Record
<1>8. ASSUME NEW status \in Effects, EffectState(status) \in Allowed(r.state),
             q = Effected(r, status)
      PROVE  Consistent(q)
  <2>1. r.state \in {"RELEASED", "UNKNOWN_EFFECT"}
    BY <1>8 DEF EffectState, Allowed, Effects
  <2>2. EffectState(status) \in {"EFFECT_CONFIRMED", "FAILED", "UNKNOWN_EFFECT"}
    BY DEF EffectState
  <2>3. status # "NONE"
    BY DEF Effects
  <2> QED BY <1>8, <2>1, <2>2, <2>3 DEF Effected, Consistent, ReleasedStates, Record
<1>9. CASE "REVOKED" \in Allowed(r.state) /\ q = Revoked(r)
  <2>1. r.state \in {"CREATED", "PENDING", "VALIDATING", "DELAYED", "DEGRADED", "AUTHORIZED"}
    BY <1>9 DEF Allowed
  <2> QED BY <1>9, <2>1 DEF Revoked, Consistent, ReleasedStates, Record
<1> QED BY <1>2, <1>3, <1>4, <1>5, <1>6, <1>7, <1>8, <1>9 DEF Change

\* For any callers, in any order: the outcome, state, release decision, effect
\* and log position of every record agree.
THEOREM ReportsAgree == RuntimeSpec => []ReportsMatchState
<1>1. RuntimeInit => ReportsMatchState
  BY DEF RuntimeInit, ReportsMatchState, Consistent, Absent, ReleasedStates
<1>2. RuntimeTypeOK /\ ReportsMatchState /\ [RuntimeNext]_runtimeVars => ReportsMatchState'
  BY StepChanges, ChangeConsistent DEF ReportsMatchState, RuntimeTypeOK
<1> QED BY <1>1, <1>2, TypeCorrect, PTL DEF RuntimeSpec

\* A recorded release decision survives every step that keeps the record.
THEOREM DecisionsLast == RuntimeSpec => DecisionFinal
<1> DEFINE Final == \A i \in Intents : \/ records[i].decision = "NONE"
                                       \/ records'[i].decision = records[i].decision
                                       \/ records'[i] \in {Absent, Created(i)}
<1>1. ASSUME RuntimeTypeOK, ReportsMatchState, [RuntimeNext]_runtimeVars PROVE Final
  <2> SUFFICES ASSUME NEW i \in Intents, records[i].decision # "NONE"
               PROVE  \/ records'[i].decision = records[i].decision
                      \/ records'[i] \in {Absent, Created(i)}
    OBVIOUS
  <2> DEFINE r == records[i]
             q == records'[i]
  <2>1. r \in Record /\ Consistent(r) /\ Change(i, r, q)
    BY <1>1, StepChanges DEF RuntimeTypeOK, ReportsMatchState
  <2> HIDE DEF r, q
  <2>2. r.state \in ReleasedStates \cup {"WITHHELD"}
    BY <2>1 DEF r, Consistent, Record, Decisions
  <2>3. \/ q \in {r, Absent, Created(i)}
        \/ \E status \in Effects : q = Effected(r, status)
    BY <2>1, <2>2 DEF Change, ReleasedStates, ValidatableStates, TakesReport, Allowed
  <2>4. ASSUME NEW status \in Effects, q = Effected(r, status)
        PROVE  q.decision = r.decision
    BY <2>1, <2>4 DEF Effected, Record
  <2> QED BY <2>3, <2>4 DEF r, q
<1>2. RuntimeTypeOK /\ ReportsMatchState /\ [RuntimeNext]_runtimeVars => [Final]_runtimeVars
  BY <1>1
<1> QED BY <1>2, TypeCorrect, ReportsAgree, PTL DEF RuntimeSpec, DecisionFinal

-----------------------------------------------------------------------------
(* Stops and admission *)

\* The policy file a restart loads classes the same intents as stops.
OneStopPolicy == \A S, T \in StopPolicies : S = T

\* admit answers a call with this id from the record it has
Known(i) == i \in Range(seen) /\ records[i].state # "ABSENT"

\* Where no retention has elapsed, the admission of a known id changes nothing and
\* another one registers the id; its class and the targets stay as they are.
LEMMA AdmitAtOnce ==
  ASSUME RuntimeTypeOK, NEW i \in Intents, Admit(i, 0)
  PROVE  /\ IsDuplicate(i, 0) <=> Known(i)
         /\ Known(i) => UNCHANGED <<records, seen>>
         /\ ~Known(i) => /\ records' = [records EXCEPT ![i] = Created(i)]
                         /\ Range(seen) \cup {i} \subseteq Range(seen')
         /\ UNCHANGED <<activeTargets, stopClass>>
<1>0. records \in [Intents -> Record] /\ seen \in Seq(Intents)
  BY DEF RuntimeTypeOK
<1>1. Retained(0) = seen
  BY <1>0, SubSeqFull DEF Retained
<1>2. AfterExpiry(0) = records
  BY <1>0 DEF AfterExpiry
<1>3. IsDuplicate(i, 0) <=> Known(i)
  BY <1>1, <1>2 DEF IsDuplicate, Known
<1>4. Range(seen) \cup {i} \subseteq Range(Append(seen, i))
  <2>1. /\ DOMAIN seen = 1..Len(seen) /\ Len(seen) \in Nat
        /\ DOMAIN Append(seen, i) = 1..(Len(seen) + 1)
        /\ \A n \in 1..Len(seen) : Append(seen, i)[n] = seen[n]
        /\ Append(seen, i)[Len(seen) + 1] = i
    BY <1>0, AppendProperties, LenProperties
  <2>2. \A n \in 1..Len(seen) : n \in 1..(Len(seen) + 1)
    BY <2>1
  <2>3. Len(seen) + 1 \in 1..(Len(seen) + 1)
    BY <2>1
  <2> QED BY <2>1, <2>2, <2>3 DEF Range
<1>5. CASE Known(i)
  BY <1>1, <1>2, <1>3, <1>5 DEF Admit
<1>6. CASE ~Known(i)
  BY <1>1, <1>2, <1>3, <1>4, <1>6 DEF Admit
<1> QED BY <1>3, <1>5, <1>6 DEF Admit
=============================================================================
