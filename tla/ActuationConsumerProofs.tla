----------------------- MODULE ActuationConsumerProofs -----------------------
(***************************************************************************)
(* Proofs about ActuationConsumer, for any number of processes, intents,   *)
(* records and faults: no authorization is skipped, and effects happen     *)
(* once and in commit order.                                               *)
(***************************************************************************)
EXTENDS ActuationConsumer, SequenceTheorems, TLAPS

-----------------------------------------------------------------------------
(* Types *)

LogRecords == [id: Intents \cup Stops, kind: {"auth", "withheld", "stop"}]

Polls == [pc: {"idle", "log", "record", "apply", "save"}, start: Positions,
          end: Positions, at: Positions, moved: BOOLEAN]

\* A process is in the loop of poll, at a record it has read.
Within(c) ==
  /\ consumer[c].at >= 1
  /\ consumer[c].at <= consumer[c].end
  /\ consumer[c].end <= Len(actuations)

\* Every position a process or the store remembers is one of the log.
InLog ==
  /\ offset <= Len(actuations)
  /\ \A c \in Consumers :
       /\ At(c, "log") => consumer[c].start <= Len(actuations)
       /\ consumer[c].pc \in {"record", "apply", "save"} => Within(c)
       /\ At(c, "apply") => Record(c).kind = "auth"

\* An authorization is of an intent, and its id is in the committed set.
CommittedLog ==
  \A n \in DOMAIN actuations : actuations[n].kind = "auth" =>
    actuations[n].id \in Intents /\ actuations[n].id \in committed

LEMMA IdleType == Idle \in Polls
BY ConsumerAssumption DEF Idle, Polls, Positions

\* What a step may do to the log: it appends one record, or nothing.
Extends(r) ==
  /\ actuations' = Append(actuations, r)
  /\ committed' = IF r.kind = "auth" THEN committed \cup {r.id} ELSE committed
  /\ Len(actuations) < MaxLog
  /\ r.kind = "auth" => r.id \in Intents \ committed
  /\ UNCHANGED <<offset, consumer, effects, withheld, recheck>>

LEMMA LogStep ==
  ASSUME [Next]_vars
  PROVE  UNCHANGED logVars \/ \E r \in LogRecords : Extends(r)
<1>1. ASSUME NEW i \in Intents, Authorize(i)
      PROVE  \E r \in LogRecords : Extends(r)
  <2> DEFINE r == [id |-> i, kind |-> "auth"]
  <2>1. r \in LogRecords
    BY DEF LogRecords
  <2>2. Extends(r)
    BY <1>1 DEF Authorize, Commit, Extends
  <2> QED BY <2>1, <2>2
<1>2. ASSUME NEW i \in Intents \cup Stops, NEW kind \in {"withheld", "stop"},
             AppendOther(i, kind)
      PROVE  \E r \in LogRecords : Extends(r)
  <2> DEFINE r == [id |-> i, kind |-> kind]
  <2>1. r \in LogRecords
    BY DEF LogRecords
  <2>2. Extends(r)
    BY <1>2 DEF AppendOther, AppendActuation, Extends
  <2> QED BY <2>1, <2>2
<1>3. CASE \E c \in Consumers : ConsumerStep(c) \/ Crash(c)
  BY <1>3 DEF ConsumerStep, ReadOffset, ReadLog, Check, ApplyRecord, SaveOffset, Crash,
              storeVars, logVars
<1>4. CASE \E i \in Bounded : Expire(i)
  BY <1>4 DEF Expire, storeVars, logVars
<1>5. CASE \E p \in Paths, v \in WrittenValues : ContextUpdate(p, v)
  BY <1>5 DEF ContextUpdate, Update, logVars
<1>6. CASE Outage
  BY <1>6 DEF Outage, StoreDown, StoreUp, logVars
<1>7. CASE UNCHANGED vars
  BY <1>7 DEF vars, storeVars, logVars
<1> QED BY <1>1, <1>2, <1>3, <1>4, <1>5, <1>6, <1>7 DEF Next

-----------------------------------------------------------------------------
(* The moves of a poll *)

\* A record has been dealt with: it was applied or withheld, or is no
\* authorization.
Settled(c) == At(c, "save") \/ (At(c, "record") /\ Record(c).kind # "auth")

\* The state s that a step gives process c, and the offset it leaves.
Move(c, s) ==
  LET o == consumer[c] IN
  /\ consumer' = [consumer EXCEPT ![c] = s]
  /\ \/ s.pc = "idle" /\ offset' = offset
     \/ s.pc = "idle" /\ offset' = o.at /\ Settled(c)
     \/ s.pc = "log" /\ s.start = offset /\ offset' = offset
     \/ /\ s.pc = "record" /\ At(c, "log") /\ offset' = offset
        /\ s.at = o.start + 1 /\ s.end = Len(actuations) /\ o.start < Len(actuations)
     \/ /\ s.pc = "record" /\ Settled(c) /\ offset' = o.at
        /\ s.at = o.at + 1 /\ s.end = o.end /\ o.at # o.end
     \/ /\ s.pc = "apply" /\ At(c, "record") /\ offset' = offset
        /\ s.at = o.at /\ s.end = o.end /\ Record(c).kind = "auth"
     \/ /\ s.pc = "save" /\ At(c, "apply") /\ offset' = offset
        /\ s.at = o.at /\ s.end = o.end

\* Every step of a process is such a move.
LEMMA PollMoves ==
  ASSUME ConsumerTypeOK, InLog, NEW c \in Consumers, ConsumerStep(c) \/ Crash(c)
  PROVE  \E s \in Polls : Move(c, s)
<1> DEFINE o == consumer[c]
<1>1. o \in Polls
  BY DEF ConsumerTypeOK, Polls
<1>a. Len(actuations) \in Nat /\ Len(actuations) <= MaxLog /\ MaxLog \in Nat
  BY ConsumerAssumption, LenProperties DEF ConsumerTypeOK
<1>b. offset \in Positions
  BY DEF ConsumerTypeOK
<1>c. Idle \in Polls /\ Idle.pc = "idle"
  BY IdleType DEF Idle
<1>2. CASE ReadOffset(c)
  <2> DEFINE s == [o EXCEPT !.pc = "log", !.start = offset]
  <2>1. s \in Polls /\ s.pc = "log" /\ s.start = offset
    BY <1>1, <1>b DEF Polls
  <2>2. consumer' = [consumer EXCEPT ![c] = s] /\ offset' = offset
    BY <1>2 DEF ReadOffset
  <2> QED BY <2>1, <2>2 DEF Move
<1>3. CASE ReadLog(c)
  <2>1. CASE up /\ o.start < Len(actuations)
    <3> DEFINE s == [o EXCEPT !.pc = "record", !.start = 0, !.at = o.start + 1,
                              !.end = Len(actuations)]
    <3>1. o.start \in Nat /\ o.start + 1 \in Positions /\ 0 \in Positions
          /\ Len(actuations) \in Positions
      BY <1>1, <1>a, <2>1 DEF Polls, Positions
    <3>2. s \in Polls /\ s.pc = "record" /\ s.at = o.start + 1 /\ s.end = Len(actuations)
      BY <1>1, <3>1 DEF Polls
    <3>3. consumer' = [consumer EXCEPT ![c] = s] /\ offset' = offset /\ At(c, "log")
      BY <1>3, <2>1 DEF ReadLog
    <3> QED BY <2>1, <3>2, <3>3 DEF Move
  <2>2. CASE ~(up /\ o.start < Len(actuations))
    BY <1>3, <2>2, <1>c DEF ReadLog, Move
  <2> QED BY <2>1, <2>2
<1>4. CASE Check(c)
  <2>1. PICK m \in BOOLEAN :
          consumer' = [consumer EXCEPT ![c].pc = "apply", ![c].moved = m]
    BY <1>4 DEF Check, ConsumerTypeOK
  <2> DEFINE s == [o EXCEPT !.pc = "apply", !.moved = m]
  <2>2. s \in Polls /\ s.pc = "apply" /\ s.at = o.at /\ s.end = o.end
    BY <1>1 DEF Polls
  <2>3. consumer' = [consumer EXCEPT ![c] = s]
    BY <2>1
  <2>4. offset' = offset /\ At(c, "record") /\ Record(c).kind = "auth"
    BY <1>4 DEF Check
  <2> QED BY <2>2, <2>3, <2>4 DEF Move
<1>5. CASE ApplyRecord(c)
  <2> DEFINE s == [o EXCEPT !.pc = "save"]
  <2>2. s \in Polls /\ s.pc = "save" /\ s.at = o.at /\ s.end = o.end
    BY <1>1 DEF Polls
  <2>3. consumer' = [consumer EXCEPT ![c] = s] /\ offset' = offset /\ At(c, "apply")
    BY <1>5 DEF ApplyRecord
  <2> QED BY <2>2, <2>3 DEF Move
<1>6. CASE SaveOffset(c)
  <2>1. Settled(c)
    BY <1>6 DEF SaveOffset, Settled
  <2>2. CASE Raise(c) /\ (offset' = offset \/ offset' = o.at)
    BY <2>1, <2>2, <1>c DEF Raise, Move
  <2>3. CASE Advance(c) /\ offset' = o.at
    <3>1. CASE o.at = o.end
      BY <2>1, <2>3, <3>1, <1>c DEF Advance, Move
    <3>2. CASE o.at # o.end
      <4> DEFINE s == [o EXCEPT !.pc = "record", !.at = @ + 1, !.moved = FALSE]
      <4>1. o.at + 1 \in Positions
        <5>1. Within(c)
          BY <2>1 DEF InLog, Settled, At
        <5> QED BY <5>1, <3>2, <1>1, <1>a DEF Within, Polls, Positions
      <4>2. s \in Polls /\ s.pc = "record" /\ s.at = o.at + 1 /\ s.end = o.end
        BY <1>1, <4>1 DEF Polls
      <4>3. consumer' = [consumer EXCEPT ![c] = s]
        BY <2>3, <3>2 DEF Advance
      <4> QED BY <4>2, <4>3, <3>2, <2>1, <2>3 DEF Move
    <3> QED BY <3>1, <3>2
  <2> QED BY <1>6, <2>2, <2>3 DEF SaveOffset
<1>7. CASE Crash(c)
  BY <1>7, <1>c DEF Crash, Raise, Move
<1> QED BY <1>2, <1>3, <1>4, <1>5, <1>6, <1>7 DEF ConsumerStep

\* A step that is none of a process leaves the polls and the offset alone.
LEMMA OtherSteps ==
  ASSUME [Next]_vars
  PROVE  \/ \E c \in Consumers : ConsumerStep(c) \/ Crash(c)
         \/ UNCHANGED <<consumer, offset, effects, withheld, recheck>>
BY DEF Next, Authorize, Expire, AppendOther, ContextUpdate, Outage, vars

\* What a step does to the actuator and to the withheld ids.
LEMMA EffectSteps ==
  ASSUME [Next]_vars
  PROVE  \/ UNCHANGED <<effects, withheld>>
         \/ \E c \in Consumers : ApplyRecord(c)
BY OtherSteps DEF ConsumerStep, ReadOffset, ReadLog, Check, SaveOffset, Crash

\* The log only grows; a new record is the last one, and a new authorization
\* is of an intent that was not committed before.
LEMMA LogGrows ==
  ASSUME ConsumerTypeOK, [Next]_vars
  PROVE  /\ actuations' \in Seq(LogRecords)
         /\ Len(actuations) \in Nat /\ Len(actuations') \in Nat
         /\ Len(actuations) <= Len(actuations') /\ Len(actuations') <= MaxLog
         /\ DOMAIN actuations = 1..Len(actuations)
         /\ DOMAIN actuations' = 1..Len(actuations')
         /\ \A n \in 1..Len(actuations) : actuations'[n] = actuations[n]
         /\ committed \subseteq committed'
         /\ \/ Len(actuations') = Len(actuations)
            \/ /\ Len(actuations') = Len(actuations) + 1
               /\ UNCHANGED <<offset, consumer, effects, withheld>>
               /\ LET r == actuations'[Len(actuations')] IN
                    r.kind = "auth" => r.id \in Intents \ committed /\ r.id \in committed'
<1>1. /\ actuations \in Seq(LogRecords) /\ Len(actuations) <= MaxLog
      /\ Len(actuations) \in Nat /\ DOMAIN actuations = 1..Len(actuations)
  BY LenProperties DEF ConsumerTypeOK, LogRecords
<1>2. CASE UNCHANGED logVars
  BY <1>1, <1>2 DEF logVars
<1>3. ASSUME NEW r \in LogRecords, Extends(r)
      PROVE  /\ actuations' \in Seq(LogRecords)
             /\ Len(actuations') = Len(actuations) + 1 /\ Len(actuations') <= MaxLog
             /\ DOMAIN actuations' = 1..Len(actuations')
             /\ \A n \in 1..Len(actuations) : actuations'[n] = actuations[n]
             /\ actuations'[Len(actuations')] = r
             /\ committed \subseteq committed'
             /\ UNCHANGED <<offset, consumer, effects, withheld>>
             /\ r.kind = "auth" => r.id \in Intents \ committed /\ r.id \in committed'
  <2>1. actuations' = Append(actuations, r)
    BY <1>3 DEF Extends
  <2>2. /\ actuations' \in Seq(LogRecords)
        /\ Len(actuations') = Len(actuations) + 1
        /\ \A n \in 1..Len(actuations) : actuations'[n] = actuations[n]
        /\ actuations'[Len(actuations) + 1] = r
    BY <1>1, <2>1, AppendProperties
  <2>3. DOMAIN actuations' = 1..Len(actuations')
    BY <2>2, LenProperties
  <2>4. Len(actuations') <= MaxLog
    BY <1>1, <1>3, <2>2, ConsumerAssumption DEF Extends
  <2>5. /\ committed \subseteq committed' /\ UNCHANGED <<offset, consumer, effects, withheld>>
        /\ r.kind = "auth" => r.id \in Intents \ committed /\ r.id \in committed'
    BY <1>3 DEF Extends
  <2> QED BY <2>2, <2>3, <2>4, <2>5
<1> QED BY <1>1, <1>2, <1>3, LogStep

-----------------------------------------------------------------------------
(* Type correctness *)

LEMMA ConsumerTypeInit == Init => ConsumerTypeOK /\ InLog /\ CommittedLog
<1> SUFFICES ASSUME Init PROVE ConsumerTypeOK /\ InLog /\ CommittedLog
  OBVIOUS
<1>1. actuations = <<>> /\ Len(actuations) = 0 /\ effects = <<>>
  BY EmptySeq DEF Init, StoreInit
<1>2. Idle \in Polls /\ Idle.pc = "idle" /\ 0 \in Positions
  BY IdleType, ConsumerAssumption DEF Idle, Positions
<1>3. consumer \in [Consumers -> Polls] /\ \A c \in Consumers : consumer[c].pc = "idle"
  BY <1>2 DEF Init
<1>4. ConsumerTypeOK
  <2>1. recheck \in BOOLEAN /\ up \in BOOLEAN /\ faults \in Nat /\ offset = 0 /\ withheld = {}
    BY ConsumerAssumption DEF Init, StoreInit
  <2>2. 0 <= MaxLog
    BY ConsumerAssumption
  <2> QED BY <1>1, <1>2, <1>3, <2>1, <2>2, EmptySeq DEF ConsumerTypeOK, Polls
<1>5. InLog
  BY <1>1, <1>3 DEF Init, InLog, At
<1>6. CommittedLog
  BY <1>1 DEF CommittedLog
<1> QED BY <1>4, <1>5, <1>6

LEMMA EffectTypes ==
  ASSUME ConsumerTypeOK, InLog, CommittedLog, NEW c \in Consumers, ApplyRecord(c)
  PROVE  /\ Record(c).id \in Intents
         /\ consumer[c].at \in DOMAIN actuations
         /\ actuations[consumer[c].at] = [id |-> Record(c).id, kind |-> "auth"]
         /\ effects' \in Seq(Intents) /\ withheld' \subseteq Intents
<1>1. Within(c) /\ Record(c).kind = "auth"
  BY DEF ApplyRecord, InLog, At
<1>2. consumer[c].at \in DOMAIN actuations
  <2>1. consumer[c].at \in Nat /\ consumer[c].end \in Nat
    BY DEF ConsumerTypeOK, Positions
  <2>2. Len(actuations) \in Nat /\ DOMAIN actuations = 1..Len(actuations)
    BY LenProperties DEF ConsumerTypeOK
  <2> QED BY <1>1, <2>1, <2>2 DEF Within
<1>3. Record(c).id \in Intents
  BY <1>1, <1>2 DEF CommittedLog, Record
<1>4. actuations[consumer[c].at] \in LogRecords
  <2>1. actuations \in Seq(LogRecords)
    BY DEF ConsumerTypeOK, LogRecords
  <2> QED BY <1>2, <2>1, LenProperties, ElementOfSeq
<1>5. actuations[consumer[c].at] = [id |-> Record(c).id, kind |-> "auth"]
  BY <1>1, <1>4 DEF Record, LogRecords
<1>6. effects \in Seq(Intents) /\ withheld \subseteq Intents
  BY DEF ConsumerTypeOK
<1>7. effects' \in {effects, Append(effects, Record(c).id)}
      /\ withheld' \in {withheld, withheld \cup {Record(c).id}}
  BY DEF ApplyRecord
<1>8. Append(effects, Record(c).id) \in Seq(Intents)
  BY <1>3, <1>6, AppendProperties
<1>9. effects' \in Seq(Intents) /\ withheld' \subseteq Intents
  BY <1>3, <1>6, <1>7, <1>8
<1> QED BY <1>2, <1>3, <1>5, <1>9

LEMMA ConsumerTypeStep ==
  ConsumerTypeOK /\ InLog /\ CommittedLog /\ [Next]_vars
    => ConsumerTypeOK' /\ InLog' /\ CommittedLog'
<1> SUFFICES ASSUME ConsumerTypeOK, InLog, CommittedLog, [Next]_vars
             PROVE  ConsumerTypeOK' /\ InLog' /\ CommittedLog'
  OBVIOUS
<1>1. /\ Len(actuations) \in Nat /\ Len(actuations') \in Nat
      /\ Len(actuations) <= Len(actuations') /\ Len(actuations') <= MaxLog
      /\ DOMAIN actuations = 1..Len(actuations)
      /\ DOMAIN actuations' = 1..Len(actuations')
      /\ \A n \in 1..Len(actuations) : actuations'[n] = actuations[n]
      /\ actuations' \in Seq(LogRecords)
  BY LogGrows
<1>2. consumer \in [Consumers -> Polls] /\ offset \in Positions
  BY DEF ConsumerTypeOK, Polls
<1>3. /\ consumer' \in [Consumers -> Polls] /\ offset' \in Positions
  <2>1. CASE UNCHANGED <<consumer, offset>>
    BY <1>2, <2>1
  <2>2. ASSUME NEW c \in Consumers, NEW s \in Polls, Move(c, s)
        PROVE  consumer' \in [Consumers -> Polls] /\ offset' \in Positions
    BY <1>2, <2>2 DEF Move, Polls
  <2> QED BY <2>1, <2>2, OtherSteps, PollMoves
<1>4. effects' \in Seq(Intents) /\ withheld' \subseteq Intents
  BY EffectTypes, EffectSteps DEF ConsumerTypeOK
<1>5. /\ recheck' = recheck
      /\ up' = up \/ up' = TRUE \/ up' = FALSE
      /\ faults' = faults \/ faults' = faults + 1
  <2>1. CASE \E c \in Consumers : ConsumerStep(c) \/ Crash(c)
    BY <2>1 DEF storeVars, ConsumerStep, ReadOffset, ReadLog, Check, ApplyRecord, SaveOffset,
                Crash, Fault
  <2>2. CASE \E i \in Intents : Authorize(i)
    BY <2>2 DEF Authorize, Commit
  <2>3. CASE \E i \in Bounded : Expire(i)
    BY <2>3 DEF Expire, storeVars
  <2>4. CASE \E i \in Intents \cup Stops, kind \in {"withheld", "stop"} : AppendOther(i, kind)
    BY <2>4 DEF AppendOther, AppendActuation
  <2>5. CASE \E p \in Paths, v \in WrittenValues : ContextUpdate(p, v)
    BY <2>5 DEF ContextUpdate, Update
  <2>6. CASE Outage
    BY <2>6 DEF Outage, StoreUp, StoreDown, Fault
  <2>7. CASE UNCHANGED vars
    BY <2>7 DEF vars, storeVars
  <2> QED BY <2>1, <2>2, <2>3, <2>4, <2>5, <2>6, <2>7 DEF Next
<1>5a. recheck' \in BOOLEAN /\ up' \in BOOLEAN /\ faults' \in Nat
  <2>1. recheck \in BOOLEAN /\ up \in BOOLEAN /\ faults \in Nat
    BY DEF ConsumerTypeOK
  <2>2. faults' \in Nat
    BY <1>5, <2>1
  <2> QED BY <1>5, <2>1, <2>2, Zenon
<1>6. ConsumerTypeOK'
  BY <1>1, <1>3, <1>4, <1>5a DEF ConsumerTypeOK, Polls, LogRecords, Positions
<1>7. InLog'
  <2> SUFFICES /\ offset' <= Len(actuations')
               /\ \A d \in Consumers :
                    /\ consumer'[d].pc = "log" => consumer'[d].start <= Len(actuations')
                    /\ consumer'[d].pc \in {"record", "apply", "save"} =>
                         /\ consumer'[d].at >= 1
                         /\ consumer'[d].at <= consumer'[d].end
                         /\ consumer'[d].end <= Len(actuations')
                    /\ consumer'[d].pc = "apply" => actuations'[consumer'[d].at].kind = "auth"
    BY DEF InLog, Within, Record, At
  <2>1. \A d \in Consumers : consumer[d].at \in Nat /\ consumer[d].end \in Nat
                              /\ consumer[d].start \in Nat
    BY <1>2 DEF Polls, Positions
  <2>2. offset \in Nat
    BY <1>2 DEF Positions
  <2>3. ASSUME NEW d \in Consumers, consumer'[d] = consumer[d]
        PROVE  /\ consumer'[d].pc = "log" => consumer'[d].start <= Len(actuations')
               /\ consumer'[d].pc \in {"record", "apply", "save"} =>
                    /\ consumer'[d].at >= 1
                    /\ consumer'[d].at <= consumer'[d].end
                    /\ consumer'[d].end <= Len(actuations')
               /\ consumer'[d].pc = "apply" => actuations'[consumer'[d].at].kind = "auth"
    BY <1>1, <2>1, <2>3 DEF InLog, At, Within, Record
  <2>4. CASE UNCHANGED <<consumer, offset>>
    BY <1>1, <2>2, <2>3, <2>4 DEF InLog
  <2>5. ASSUME NEW c \in Consumers, NEW s \in Polls, Move(c, s)
        PROVE  /\ offset' <= Len(actuations')
               /\ \A d \in Consumers : d # c => consumer'[d] = consumer[d]
               /\ consumer'[c].pc = "log" => consumer'[c].start <= Len(actuations')
               /\ consumer'[c].pc \in {"record", "apply", "save"} =>
                    /\ consumer'[c].at >= 1
                    /\ consumer'[c].at <= consumer'[c].end
                    /\ consumer'[c].end <= Len(actuations')
               /\ consumer'[c].pc = "apply" => actuations'[consumer'[c].at].kind = "auth"
    <3>1. consumer'[c] = s /\ \A d \in Consumers : d # c => consumer'[d] = consumer[d]
      BY <1>2, <2>5 DEF Move
    <3>2. offset <= Len(actuations)
      BY DEF InLog
    <3>3. /\ consumer[c].pc \in {"record", "apply", "save"} => Within(c)
          /\ Settled(c) => Within(c)
      BY DEF InLog, Settled, At
    <3>4. offset' <= Len(actuations')
      BY <2>5, <1>1, <2>1, <2>2, <3>2, <3>3 DEF Move, Within
    <3>5. s.pc = "log" => s.start <= Len(actuations')
      BY <2>5, <1>1, <2>2, <3>2 DEF Move
    <3>6. s.pc \in {"record", "apply", "save"} =>
            s.at >= 1 /\ s.at <= s.end /\ s.end <= Len(actuations')
      BY <2>5, <1>1, <2>1, <3>3 DEF Move, Within, At
    <3>7. s.pc = "apply" => actuations'[s.at].kind = "auth"
      BY <2>5, <1>1, <2>1, <3>3 DEF Move, Within, At, Record
    <3> QED BY <3>1, <3>4, <3>5, <3>6, <3>7
  <2> QED BY <2>3, <2>4, <2>5, OtherSteps, PollMoves
<1>8. CommittedLog'
  <2> SUFFICES ASSUME NEW n \in DOMAIN actuations', actuations'[n].kind = "auth"
               PROVE  actuations'[n].id \in Intents /\ actuations'[n].id \in committed'
    BY DEF CommittedLog
  <2>1. CASE n \in DOMAIN actuations
    BY <1>1, <2>1, LogGrows DEF CommittedLog
  <2>2. CASE n \notin DOMAIN actuations
    <3> DEFINE k == Len(actuations)
               l == Len(actuations')
    <3>a. l = k \/ l = k + 1
      BY LogGrows
    <3>b. k \in Nat /\ n \in 1..l /\ n \notin 1..k
      BY <1>1, <2>2
    <3>1. n = l /\ l # k
      <4> HIDE DEF k, l
      <4> QED BY <3>a, <3>b
    <3> QED BY <3>1, LogGrows
  <2> QED BY <2>1, <2>2
<1> QED BY <1>6, <1>7, <1>8

\* The state of the consumer has its types: the offset and the cursors of every
\* process stay within the bounds of the log, through crashes and outages.
THEOREM ConsumerTypeCorrect == Spec => []ConsumerTypeOK
<1>1. Spec => [](ConsumerTypeOK /\ InLog /\ CommittedLog)
  BY ConsumerTypeInit, ConsumerTypeStep, PTL DEF Spec
<1> QED BY <1>1, PTL

-----------------------------------------------------------------------------
(* The inductive invariant *)

\* Every authorization up to position n was applied or withheld.
HandledTo(n) ==
  \A k \in DOMAIN actuations : k <= n /\ actuations[k].kind = "auth" =>
    actuations[k].id \in Done \cup withheld

\* What was read before it, or passed by the loop, is handled when a process
\* reaches a record: its start for one that has read the offset only.
CursorsHandled ==
  \A c \in Consumers :
    /\ At(c, "log") => HandledTo(consumer[c].start)
    /\ consumer[c].pc \in {"record", "apply"} => HandledTo(consumer[c].at - 1)
    /\ At(c, "save") => HandledTo(consumer[c].at)

\* An id has one authorization in the log.
LogUnique ==
  \A m, n \in DOMAIN actuations :
    /\ actuations[m].kind = "auth" /\ actuations[n].kind = "auth"
    /\ actuations[m].id = actuations[n].id
    => m = n

\* What the actuator did was authorized, and everything authorized before it
\* was handled by then.
EffectsFollow ==
  /\ \A n \in DOMAIN effects : \E k \in DOMAIN actuations :
       actuations[k] = [id |-> effects[n], kind |-> "auth"]
  /\ \A k \in DOMAIN actuations :
       actuations[k].kind = "auth" /\ actuations[k].id \in Done => HandledTo(k - 1)

ConsumerInv ==
  /\ ConsumerTypeOK /\ InLog /\ CommittedLog
  /\ HandledTo(offset) /\ CursorsHandled
  /\ LogUnique /\ EffectsFollow /\ InOrder

\* HandledTo(n) of the next state.
HandledNext(n) ==
  \A k \in DOMAIN actuations' : k <= n /\ actuations'[k].kind = "auth" =>
    actuations'[k].id \in Done' \cup withheld'

\* The actuator refuses a repeat and forgets nothing.
LEMMA ApplyEffects ==
  ASSUME ConsumerTypeOK, InLog, CommittedLog, NEW c \in Consumers, ApplyRecord(c)
  PROVE  LET i == Record(c).id IN
         /\ Done \subseteq Done' /\ withheld \subseteq withheld'
         /\ i \in Done' \cup withheld'
         /\ Len(effects) \in Nat /\ DOMAIN effects = 1..Len(effects)
         /\ DOMAIN effects' = 1..Len(effects')
         /\ \/ effects' = effects
            \/ /\ i \notin Done /\ withheld' = withheld
               /\ Done' = Done \cup {i}
               /\ Len(effects') = Len(effects) + 1
               /\ \A n \in 1..Len(effects) : effects'[n] = effects[n]
               /\ effects'[Len(effects) + 1] = i
<1> DEFINE i == Record(c).id
<1>1. effects \in Seq(Intents) /\ i \in Intents /\ effects' \in Seq(Intents)
  BY EffectTypes DEF ConsumerTypeOK
<1>2. /\ Len(effects) \in Nat /\ DOMAIN effects = 1..Len(effects)
      /\ DOMAIN effects' = 1..Len(effects')
  BY <1>1, LenProperties
<1>3. CASE effects' = effects
  <2>1. Done' = Done
    BY <1>3 DEF Done
  <2>2. i \in Done \/ i \in withheld'
    <3>1. CASE consumer[c].moved
      BY <3>1 DEF ApplyRecord
    <3>2. CASE ~consumer[c].moved
      <4>1. CASE i \in Done
        BY <4>1
      <4>2. CASE i \notin Done
        <5>1. effects' = Append(effects, i)
          BY <3>2, <4>2 DEF ApplyRecord
        <5>2. Len(effects') = Len(effects) + 1
          BY <5>1, <1>1, AppendProperties
        <5> QED BY <5>2, <1>2, <1>3
      <4> QED BY <4>1, <4>2
    <3> QED BY <3>1, <3>2
  <2> QED BY <1>2, <1>3, <2>1, <2>2 DEF ApplyRecord
<1>4. CASE effects' # effects
  <2>1. i \notin Done /\ withheld' = withheld /\ effects' = Append(effects, i)
    BY <1>4 DEF ApplyRecord
  <2>2. /\ Len(effects') = Len(effects) + 1
        /\ \A n \in 1..Len(effects) : effects'[n] = effects[n]
        /\ effects'[Len(effects) + 1] = i
    BY <2>1, <1>1, AppendProperties
  <2>3. Done' = Done \cup {i}
    <3>1. ASSUME NEW n \in DOMAIN effects' PROVE effects'[n] \in Done \cup {i}
      <4>1. n \in 1..Len(effects) \/ n = Len(effects) + 1
        BY <1>2, <2>2
      <4> QED BY <1>2, <2>2, <4>1 DEF Done
    <3>2. ASSUME NEW n \in DOMAIN effects PROVE effects[n] \in Done'
      <4>1. n \in DOMAIN effects' /\ effects'[n] = effects[n]
        BY <1>2, <2>2
      <4> QED BY <4>1 DEF Done
    <3>3. i \in Done'
      <4>1. Len(effects) + 1 \in DOMAIN effects'
        BY <1>2, <2>2
      <4> QED BY <4>1, <2>2 DEF Done
    <3>4. Done' \subseteq Done \cup {i}
      BY <3>1 DEF Done
    <3>5. Done \subseteq Done'
      BY <3>2 DEF Done
    <3> QED BY <3>3, <3>4, <3>5
  <2> QED BY <1>2, <2>1, <2>2, <2>3
<1> QED BY <1>3, <1>4

\* What is done or withheld stays so.
LEMMA HandledStays ==
  ASSUME ConsumerTypeOK, InLog, CommittedLog, [Next]_vars
  PROVE  Done \subseteq Done' /\ withheld \subseteq withheld'
<1>1. CASE UNCHANGED <<effects, withheld>>
  BY <1>1 DEF Done
<1>2. CASE \E c \in Consumers : ApplyRecord(c)
  BY <1>2, ApplyEffects
<1> QED BY <1>1, <1>2, EffectSteps

LEMMA HandledGrows ==
  ASSUME ConsumerTypeOK, InLog, CommittedLog, [Next]_vars,
         NEW n \in Int, n <= Len(actuations), HandledTo(n)
  PROVE  HandledNext(n)
<1> SUFFICES ASSUME NEW k \in DOMAIN actuations', k <= n, actuations'[k].kind = "auth"
             PROVE  actuations'[k].id \in Done' \cup withheld'
  BY DEF HandledNext
<1>1. k \in DOMAIN actuations /\ actuations'[k] = actuations[k]
  BY LogGrows
<1>2. actuations[k].id \in Done \cup withheld
  BY <1>1 DEF HandledTo
<1> QED BY <1>1, <1>2, HandledStays

LEMMA ConsumerInvInit == Init => ConsumerInv
<1> SUFFICES ASSUME Init PROVE ConsumerInv
  OBVIOUS
<1>1. actuations = <<>> /\ effects = <<>> /\ DOMAIN actuations = {} /\ DOMAIN effects = {}
  BY DEF Init, StoreInit
<1>2. \A n : HandledTo(n)
  BY <1>1 DEF HandledTo
<1> QED BY <1>1, <1>2, ConsumerTypeInit DEF ConsumerInv, CursorsHandled, LogUnique, EffectsFollow, InOrder

\* A process that goes on, or saves the offset, has dealt with its record.
LEMMA SettledHandled ==
  ASSUME ConsumerInv, NEW c \in Consumers, Settled(c)
  PROVE  HandledTo(consumer[c].at) /\ Within(c)
<1>1. Within(c)
  BY DEF ConsumerInv, InLog, Settled, At
<1>2. CASE At(c, "save")
  BY <1>1, <1>2 DEF ConsumerInv, CursorsHandled
<1>3. CASE At(c, "record") /\ Record(c).kind # "auth"
  <2>1. HandledTo(consumer[c].at - 1)
    BY <1>3 DEF ConsumerInv, CursorsHandled, At
  <2>2. consumer[c].at \in Nat /\ DOMAIN actuations \subseteq Nat
    BY LenProperties DEF ConsumerInv, ConsumerTypeOK, Positions
  <2>3. \A k \in DOMAIN actuations : k <= consumer[c].at => k <= consumer[c].at - 1 \/ k = consumer[c].at
    BY <2>2
  <2> QED BY <1>1, <1>3, <2>1, <2>3 DEF HandledTo, Record
<1> QED BY <1>2, <1>3 DEF Settled

\* A record is handled once its process has applied or withheld it.
LEMMA AppliedHandled ==
  ASSUME ConsumerInv, [Next]_vars, NEW c \in Consumers, ApplyRecord(c)
  PROVE  HandledNext(consumer[c].at)
<1> DEFINE a == consumer[c].at
<1>0. ConsumerTypeOK /\ InLog /\ CommittedLog
  BY DEF ConsumerInv
<1>1. a \in Nat /\ Within(c) /\ consumer[c].end \in Nat /\ Len(actuations) \in Nat
  BY <1>0, LenProperties DEF ConsumerTypeOK, InLog, ApplyRecord, At, Positions
<1>2. HandledTo(a - 1)
  BY DEF ConsumerInv, CursorsHandled, ApplyRecord, At
<1>3. HandledNext(a - 1)
  BY <1>0, <1>1, <1>2, HandledGrows DEF Within
<1>4. UNCHANGED actuations
  BY DEF ApplyRecord, storeVars
<1>5. Record(c).id \in Done' \cup withheld'
  BY <1>0, ApplyEffects
<1>6. DOMAIN actuations \subseteq Nat
  BY <1>0, LenProperties DEF ConsumerTypeOK
<1>7. \A k \in DOMAIN actuations : k <= a => k <= a - 1 \/ k = a
  BY <1>1, <1>6
<1> QED BY <1>3, <1>4, <1>5, <1>7 DEF HandledNext, Record

LEMMA CursorsStep ==
  ASSUME ConsumerInv, [Next]_vars
  PROVE  HandledTo(offset)' /\ CursorsHandled'
<1> USE DEF ConsumerInv
<1> SUFFICES /\ HandledNext(offset')
             /\ \A d \in Consumers :
                  /\ consumer'[d].pc = "log" => HandledNext(consumer'[d].start)
                  /\ consumer'[d].pc \in {"record", "apply"} => HandledNext(consumer'[d].at - 1)
                  /\ consumer'[d].pc = "save" => HandledNext(consumer'[d].at)
  BY DEF HandledTo, HandledNext, CursorsHandled, At
<1>1. consumer \in [Consumers -> Polls] /\ offset \in Nat /\ Len(actuations) \in Nat
  BY LenProperties DEF ConsumerTypeOK, Polls, Positions
<1>2. \A d \in Consumers : consumer[d].at \in Nat /\ consumer[d].end \in Nat
                            /\ consumer[d].start \in Nat
  BY <1>1 DEF Polls, Positions
<1>3. HandledNext(offset)
  BY <1>1, HandledGrows DEF InLog
<1>4. ASSUME NEW d \in Consumers, consumer'[d] = consumer[d]
      PROVE  /\ consumer'[d].pc = "log" => HandledNext(consumer'[d].start)
             /\ consumer'[d].pc \in {"record", "apply"} => HandledNext(consumer'[d].at - 1)
             /\ consumer'[d].pc = "save" => HandledNext(consumer'[d].at)
  <2>1. CASE consumer[d].pc = "log"
    BY <1>1, <1>2, <1>4, <2>1, HandledGrows DEF InLog, CursorsHandled, At
  <2>2. CASE consumer[d].pc \in {"record", "apply"}
    <3>1. HandledTo(consumer[d].at - 1) /\ Within(d)
      BY <2>2 DEF InLog, CursorsHandled, At
    <3> QED BY <1>1, <1>2, <1>4, <2>2, <3>1, HandledGrows DEF Within
  <2>3. CASE consumer[d].pc = "save"
    <3>1. HandledTo(consumer[d].at) /\ Within(d)
      BY <2>3 DEF InLog, CursorsHandled, At
    <3> QED BY <1>1, <1>2, <1>4, <2>3, <3>1, HandledGrows DEF Within
  <2> QED BY <1>4, <2>1, <2>2, <2>3
<1>5. CASE UNCHANGED <<consumer, offset>>
  BY <1>3, <1>4, <1>5
<1>6. ASSUME NEW c \in Consumers, ConsumerStep(c) \/ Crash(c)
      PROVE  /\ HandledNext(offset')
             /\ \A d \in Consumers : d # c => consumer'[d] = consumer[d]
             /\ consumer'[c].pc = "log" => HandledNext(consumer'[c].start)
             /\ consumer'[c].pc \in {"record", "apply"} => HandledNext(consumer'[c].at - 1)
             /\ consumer'[c].pc = "save" => HandledNext(consumer'[c].at)
  <2>1. PICK s \in Polls : Move(c, s)
    BY <1>6, PollMoves
  <2>2. consumer'[c] = s /\ \A d \in Consumers : d # c => consumer'[d] = consumer[d]
    BY <1>1, <2>1 DEF Move
  <2>3. Settled(c) => HandledNext(consumer[c].at)
    BY <1>1, <1>2, SettledHandled, HandledGrows DEF Within
  <2>4. At(c, "log") => HandledNext(consumer[c].start)
    BY <1>1, <1>2, HandledGrows DEF InLog, CursorsHandled
  <2>5. At(c, "record") => HandledNext(consumer[c].at - 1)
    <3>1. At(c, "record") => HandledTo(consumer[c].at - 1) /\ Within(c)
      BY DEF InLog, CursorsHandled, At
    <3> QED BY <1>1, <1>2, <3>1, HandledGrows DEF Within
  <2>6. At(c, "apply") /\ s.pc = "save" => HandledNext(consumer[c].at)
    <3>1. At(c, "apply") /\ s.pc = "save" => ApplyRecord(c)
      BY <1>6, <1>1, <2>2 DEF ConsumerStep, ReadOffset, ReadLog, Check, SaveOffset, Crash,
                              Raise, Idle, At
    <3> QED BY <3>1, AppliedHandled
  <2>7. s.pc = "record" => \/ At(c, "log") /\ s.at - 1 = consumer[c].start
                           \/ Settled(c) /\ s.at - 1 = consumer[c].at
    BY <1>2, <2>1 DEF Move
  <2>8. HandledNext(offset')
    BY <1>3, <2>1, <2>3 DEF Move
  <2>9. /\ s.pc = "log" => HandledNext(s.start)
        /\ s.pc \in {"record", "apply"} => HandledNext(s.at - 1)
        /\ s.pc = "save" => HandledNext(s.at)
    <3>1. s.pc = "log" => s.start = offset
      BY <2>1 DEF Move
    <3>2. s.pc = "apply" => At(c, "record") /\ s.at = consumer[c].at
      BY <2>1 DEF Move
    <3>3. s.pc = "save" => At(c, "apply") /\ s.at = consumer[c].at
      BY <2>1 DEF Move
    <3>4. s.pc = "record" => HandledNext(s.at - 1)
      <4>1. CASE At(c, "log") /\ s.at - 1 = consumer[c].start
        BY <2>4, <4>1, Zenon
      <4>2. CASE Settled(c) /\ s.at - 1 = consumer[c].at
        BY <2>3, <4>2, Zenon
      <4> QED BY <2>7, <4>1, <4>2
    <3>5. s.pc = "apply" => HandledNext(s.at - 1)
      BY <2>5, <3>2
    <3> QED BY <1>3, <2>6, <3>1, <3>3, <3>4, <3>5
  <2> QED BY <2>2, <2>8, <2>9
<1>7. CASE \E c \in Consumers : ConsumerStep(c) \/ Crash(c)
  BY <1>4, <1>6, <1>7
<1> QED BY <1>5, <1>7, OtherSteps

LEMMA LogUniqueStep ==
  ASSUME ConsumerInv, [Next]_vars
  PROVE  LogUnique'
<1> USE DEF ConsumerInv
<1> SUFFICES ASSUME NEW m \in DOMAIN actuations', NEW n \in DOMAIN actuations',
                    actuations'[m].kind = "auth", actuations'[n].kind = "auth",
                    actuations'[m].id = actuations'[n].id, m < n
             PROVE  FALSE
  <2>1. DOMAIN actuations' \subseteq Nat
    BY LogGrows
  <2>2. \A m, n \in DOMAIN actuations' : m # n => m < n \/ n < m
    BY <2>1
  <2> QED BY <2>2 DEF LogUnique
<1> DEFINE k == Len(actuations)
           l == Len(actuations')
<1>1. k \in Nat /\ m \in 1..l /\ n \in 1..l /\ (l = k \/ l = k + 1)
  BY LogGrows
<1>2. m \in 1..k
  <2> HIDE DEF k, l
  <2> QED BY <1>1
<1>3. m \in DOMAIN actuations /\ actuations'[m] = actuations[m]
  BY <1>2, LogGrows
<1>4. CASE n \in DOMAIN actuations
  <2>1. actuations'[n] = actuations[n]
    BY <1>4, LogGrows
  <2>2. m = n
    BY <1>3, <1>4, <2>1 DEF LogUnique
  <2> QED BY <1>1, <2>2
<1>5. CASE n \notin DOMAIN actuations
  <2>1. n \notin 1..k
    BY <1>5, LogGrows
  <2>2. n = l /\ l # k
    <3> HIDE DEF k, l
    <3> QED BY <1>1, <2>1
  <2>3. actuations'[n].id \notin committed
    BY <2>2, LogGrows
  <2>4. actuations[m].id \in committed
    BY <1>3 DEF CommittedLog
  <2> QED BY <1>3, <2>3, <2>4
<1> QED BY <1>4, <1>5

LEMMA EffectsFollowStep ==
  ASSUME ConsumerInv, [Next]_vars
  PROVE  EffectsFollow'
<1> USE DEF ConsumerInv
<1>1. /\ Len(actuations) \in Nat /\ DOMAIN actuations = 1..Len(actuations)
      /\ DOMAIN actuations' = 1..Len(actuations') /\ Len(actuations) <= Len(actuations')
      /\ Len(actuations') \in Nat
      /\ \A n \in 1..Len(actuations) : actuations'[n] = actuations[n]
  BY LogGrows
<1>2. \A k \in DOMAIN actuations : k \in DOMAIN actuations' /\ actuations'[k] = actuations[k]
  BY <1>1
<1>3. \A k \in DOMAIN actuations : HandledTo(k - 1) => HandledNext(k - 1)
  BY <1>1, HandledGrows
<1>4. ASSUME NEW i, NEW k \in DOMAIN actuations, NEW j \in DOMAIN actuations',
             actuations[k] = [id |-> i, kind |-> "auth"],
             actuations'[j].kind = "auth", actuations'[j].id = i
      PROVE  j = k
  <2>1. LogUnique'
    BY LogUniqueStep
  <2>2. actuations'[k].kind = "auth" /\ actuations'[k].id = i /\ k \in DOMAIN actuations'
    BY <1>2, <1>4
  <2> QED BY <1>4, <2>1, <2>2 DEF LogUnique
\* everything done before the step was authorized then
<1>5. ASSUME NEW j \in DOMAIN actuations', actuations'[j].kind = "auth", actuations'[j].id \in Done
      PROVE  HandledNext(j - 1)
  <2>1. PICK n \in DOMAIN effects : effects[n] = actuations'[j].id
    BY <1>5 DEF Done
  <2>2. PICK k \in DOMAIN actuations : actuations[k] = [id |-> effects[n], kind |-> "auth"]
    BY DEF EffectsFollow
  <2>3. j = k
    BY <1>4, <1>5, <2>1, <2>2
  <2>4. actuations[k].kind = "auth" /\ actuations[k].id \in Done
    BY <1>5, <2>1, <2>2
  <2>5. HandledTo(k - 1)
    BY <2>4 DEF EffectsFollow
  <2> QED BY <1>3, <2>3, <2>5
<1>6. CASE UNCHANGED <<effects, withheld>>
  <2>1. Done' = Done
    BY <1>6 DEF Done
  <2>2. ASSUME NEW n \in DOMAIN effects'
        PROVE  \E k \in DOMAIN actuations' : actuations'[k] = [id |-> effects'[n], kind |-> "auth"]
    <3>1. PICK k \in DOMAIN actuations : actuations[k] = [id |-> effects[n], kind |-> "auth"]
      BY <1>6 DEF EffectsFollow
    <3> QED BY <1>2, <1>6, <3>1
  <2> QED BY <1>5, <2>1, <2>2 DEF EffectsFollow, HandledNext, HandledTo
<1>7. ASSUME NEW c \in Consumers, ApplyRecord(c)
      PROVE  EffectsFollow'
  <2> DEFINE i == Record(c).id
             a == consumer[c].at
  <2>1. a \in DOMAIN actuations /\ actuations[a] = [id |-> i, kind |-> "auth"]
    BY <1>7, EffectTypes
  <2>2. CASE effects' = effects
    <3>1. Done' = Done
      BY <2>2 DEF Done
    <3>2. ASSUME NEW n \in DOMAIN effects'
          PROVE  \E k \in DOMAIN actuations' : actuations'[k] = [id |-> effects'[n], kind |-> "auth"]
      <4>1. PICK k \in DOMAIN actuations : actuations[k] = [id |-> effects[n], kind |-> "auth"]
        BY <2>2 DEF EffectsFollow
      <4> QED BY <1>2, <2>2, <4>1
    <3> QED BY <1>5, <3>1, <3>2 DEF EffectsFollow, HandledNext, HandledTo
  <2>3. CASE effects' # effects
    <3>1. /\ Done' = Done \cup {i} /\ Len(effects) \in Nat
          /\ DOMAIN effects = 1..Len(effects) /\ DOMAIN effects' = 1..Len(effects')
          /\ Len(effects') = Len(effects) + 1
          /\ \A n \in 1..Len(effects) : effects'[n] = effects[n]
          /\ effects'[Len(effects) + 1] = i
      BY <1>7, <2>3, ApplyEffects
    <3>2. ASSUME NEW n \in DOMAIN effects'
          PROVE  \E k \in DOMAIN actuations' : actuations'[k] = [id |-> effects'[n], kind |-> "auth"]
      <4>1. n \in DOMAIN effects \/ n = Len(effects) + 1
        BY <3>1
      <4>2. CASE n \in DOMAIN effects
        <5>1. PICK k \in DOMAIN actuations : actuations[k] = [id |-> effects[n], kind |-> "auth"]
          BY <4>2 DEF EffectsFollow
        <5>2. effects'[n] = effects[n]
          BY <3>1, <4>2
        <5> QED BY <1>2, <5>1, <5>2
      <4>3. CASE n = Len(effects) + 1
        BY <1>2, <2>1, <3>1, <4>3
      <4> QED BY <4>1, <4>2, <4>3
    <3>3. ASSUME NEW j \in DOMAIN actuations', actuations'[j].kind = "auth",
                 actuations'[j].id = i
          PROVE  HandledNext(j - 1)
      <4>1. j = a
        BY <1>4, <2>1, <3>3
      <4>2. HandledTo(a - 1)
        BY <1>7 DEF CursorsHandled, ApplyRecord, At
      <4> QED BY <1>3, <2>1, <4>1, <4>2
    <3> QED BY <1>5, <3>1, <3>2, <3>3 DEF EffectsFollow, HandledNext, HandledTo
  <2> QED BY <2>2, <2>3
<1> QED BY <1>6, <1>7, EffectSteps

\* the authorization of i stands before that of j in the next log
BeforeNext(i, j) ==
  \E m, n \in DOMAIN actuations' :
    /\ m < n
    /\ actuations'[m] = [id |-> i, kind |-> "auth"]
    /\ actuations'[n] = [id |-> j, kind |-> "auth"]

LEMMA InOrderStep ==
  ASSUME ConsumerInv, [Next]_vars
  PROVE  InOrder'
<1> USE DEF ConsumerInv
<1> SUFFICES ASSUME NEW m \in DOMAIN effects', NEW n \in DOMAIN effects', m < n
             PROVE  /\ effects'[m] # effects'[n]
                    /\ BeforeNext(effects'[m], effects'[n]) \/ effects'[n] \in withheld'
  BY DEF InOrder, Before, BeforeNext
<1>1. \A k \in DOMAIN actuations : k \in DOMAIN actuations' /\ actuations'[k] = actuations[k]
  BY LogGrows
<1>2. \A i, j : Before(i, j) => BeforeNext(i, j)
  BY <1>1 DEF Before, BeforeNext
<1>3. withheld \subseteq withheld'
  BY HandledStays
<1>4. ASSUME m \in DOMAIN effects, n \in DOMAIN effects,
             effects'[m] = effects[m], effects'[n] = effects[n]
      PROVE  /\ effects'[m] # effects'[n]
             /\ BeforeNext(effects'[m], effects'[n]) \/ effects'[n] \in withheld'
  BY <1>2, <1>3, <1>4 DEF InOrder
<1>5. CASE effects' = effects
  BY <1>4, <1>5
<1>6. ASSUME NEW c \in Consumers, ApplyRecord(c), effects' # effects
      PROVE  /\ effects'[m] # effects'[n]
             /\ BeforeNext(effects'[m], effects'[n]) \/ effects'[n] \in withheld'
  <2> DEFINE i == Record(c).id
             a == consumer[c].at
  <2>1. a \in DOMAIN actuations /\ actuations[a] = [id |-> i, kind |-> "auth"]
    BY <1>6, EffectTypes
  <2>2. /\ i \notin Done /\ withheld' = withheld /\ Len(effects) \in Nat
        /\ DOMAIN effects = 1..Len(effects) /\ DOMAIN effects' = 1..Len(effects')
        /\ Len(effects') = Len(effects) + 1
        /\ \A k \in 1..Len(effects) : effects'[k] = effects[k]
        /\ effects'[Len(effects) + 1] = i
    BY <1>6, ApplyEffects
  <2>3. m \in DOMAIN effects /\ effects'[m] = effects[m]
    BY <2>2
  <2>4. CASE n \in DOMAIN effects
    BY <1>4, <2>2, <2>3, <2>4
  <2>5. CASE n \notin DOMAIN effects
    <3>1. n = Len(effects) + 1 /\ effects'[n] = i
      BY <2>2, <2>5
    <3>2. effects[m] \in Done
      BY <2>3 DEF Done
    <3>3. PICK k \in DOMAIN actuations : actuations[k] = [id |-> effects[m], kind |-> "auth"]
      BY <2>3 DEF EffectsFollow
    <3>4. k # a
      BY <2>1, <2>2, <3>2, <3>3
    <3>5. DOMAIN actuations \subseteq Nat
      BY LogGrows
    <3>6. CASE k < a
      BY <1>2, <2>1, <2>3, <3>1, <3>2, <2>2, <3>3, <3>6 DEF Before
    <3>7. CASE a < k
      <4>1. HandledTo(k - 1)
        BY <3>2, <3>3 DEF EffectsFollow
      <4>2. a <= k - 1
        BY <2>1, <3>5, <3>7
      <4>3. i \in Done \cup withheld
        BY <2>1, <4>1, <4>2 DEF HandledTo
      <4> QED BY <2>2, <2>3, <3>1, <3>2, <4>3
    <3> QED BY <2>1, <3>4, <3>5, <3>6, <3>7
  <2> QED BY <2>4, <2>5
<1> QED BY <1>5, <1>6, EffectSteps

LEMMA ConsumerInvariant == Spec => []ConsumerInv
<1>1. ConsumerInv /\ [Next]_vars => ConsumerInv'
  <2> SUFFICES ASSUME ConsumerInv, [Next]_vars PROVE ConsumerInv'
    OBVIOUS
  <2>1. ConsumerTypeOK' /\ InLog' /\ CommittedLog'
    BY ConsumerTypeStep DEF ConsumerInv
  <2>2. HandledTo(offset)' /\ CursorsHandled' /\ LogUnique' /\ EffectsFollow' /\ InOrder'
    BY CursorsStep, LogUniqueStep, EffectsFollowStep, InOrderStep
  <2> QED BY <2>1, <2>2 DEF ConsumerInv
<1> QED BY ConsumerInvInit, <1>1, PTL DEF Spec

\* No authorization is lost: whatever stands before the durable offset was
\* applied or withheld by the recheck, wherever processes crashed, replies were
\* lost and overlapping processes moved the offset (poll, kv_set).
THEOREM NoneSkipped == Spec => []NothingSkipped
<1>1. ConsumerInv => NothingSkipped
  <2> SUFFICES ASSUME ConsumerInv, NEW n \in 1..offset, actuations[n].kind = "auth"
               PROVE  actuations[n].id \in Done \cup withheld
    BY DEF NothingSkipped
  <2>1. offset \in Nat /\ offset <= Len(actuations) /\ Len(actuations) \in Nat
        /\ DOMAIN actuations = 1..Len(actuations)
    BY LenProperties DEF ConsumerInv, ConsumerTypeOK, InLog, Positions
  <2>2. n \in DOMAIN actuations /\ n <= offset
    BY <2>1
  <2> QED BY <2>2 DEF ConsumerInv, HandledTo
<1> QED BY ConsumerInvariant, <1>1, PTL

\* Effects are unique and in commit order (the docstring of
\* actuation_consumer.py); only what the recheck had withheld may be applied by
\* a replay after later records.
THEOREM EffectsInOrder == Spec => []InOrder
<1>1. ConsumerInv => InOrder
  BY DEF ConsumerInv
<1> QED BY ConsumerInvariant, <1>1, PTL
=============================================================================
