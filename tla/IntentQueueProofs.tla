-------------------------- MODULE IntentQueueProofs --------------------------
(***************************************************************************)
(* Proofs about IntentQueue, for any intents, priorities, predicates,      *)
(* policies and contexts, with retention windows that elapse.              *)
(***************************************************************************)
EXTENDS IntentQueue, XairRuntimeProofs, FiniteSetTheorems

Ages == {"ok", "obsolete", "deadline"}
AddedOf == [applied: BOOLEAN, preds: SUBSET Predicates]
Object ==
  [id: Intents, age: Ages, policy: {"none", "reduce_speed"}, added: AddedOf]

QueueTypes ==
  /\ RuntimeTypeOK
  /\ queue \in Seq(Object)
  /\ mandated \in [Intents -> SUBSET Predicates]
  /\ holds \in SUBSET Predicates
  /\ lapses \in 0..MaxLapses
  /\ standing \in [Intents -> SUBSET Predicates]
  /\ disowned \in SUBSET Intents

-----------------------------------------------------------------------------
(* The priority queue *)

\* IntentReceiver.submit loses nothing, adds the intent and nothing else,
\* wherever its priority puts it.
LEMMA InsertKeeps ==
  ASSUME NEW q \in Seq(Object), NEW o \in Object
  PROVE  /\ Insert(q, o) \in Seq(Object)
         /\ \A m \in DOMAIN Insert(q, o) :
              Insert(q, o)[m] = o \/ \E k \in DOMAIN q : Insert(q, o)[m] = q[k]
         /\ \E m \in DOMAIN Insert(q, o) : Insert(q, o)[m] = o
         /\ \A k \in DOMAIN q : \E m \in DOMAIN Insert(q, o) : Insert(q, o)[m] = q[k]
<1> DEFINE L == Len(q)
           before == {k \in DOMAIN q : Priority[q[k].id] >= Priority[o.id]}
           n == Cardinality(before)
           s1 == SubSeq(q, 1, n)
           s2 == SubSeq(q, n + 1, L)
           s3 == s1 \o <<o>>
           s == s3 \o s2
<1>1. L \in Nat /\ DOMAIN q = 1..L /\ \A k \in 1..L : q[k] \in Object
  BY LenProperties, ElementOfSeq
<1>2. n \in 0..L
  <2>1. IsFiniteSet(1..L) /\ Cardinality(1..L) = IF 1 > L THEN 0 ELSE L - 1 + 1
    <3>1. 1 \in Int /\ L \in Int
      BY <1>1
    <3> HIDE DEF L
    <3> QED BY <3>1, FS_Interval
  <2>2. before \in SUBSET (1..L)
    BY <1>1
  <2> HIDE DEF before
  <2>3. IsFiniteSet(before) /\ n <= Cardinality(1..L)
    BY <2>1, <2>2, FS_Subset
  <2>4. n \in Nat
    BY <2>3, FS_CardinalityType
  <2> QED BY <1>1, <2>1, <2>3, <2>4
<1> HIDE DEF n, L
<1>3. s1 \in Seq(Object) /\ Len(s1) = n /\ \A k \in 1..n : s1[k] = q[k]
  <2>1. \A k \in 1..n : q[k] \in Object
    BY <1>1, <1>2
  <2>2. /\ s1 \in Seq(Object)
        /\ Len(s1) = IF 1 <= n THEN n - 1 + 1 ELSE 0
        /\ \A k \in 1..n - 1 + 1 : s1[k] = q[1 + k - 1]
    BY <1>1, <1>2, <2>1, SubSeqProperties
  <2> QED BY <1>2, <2>2
<1>4. s2 \in Seq(Object) /\ Len(s2) = L - n /\ \A k \in 1..L - n : s2[k] = q[n + k]
  <2>1. \A k \in n + 1..L : q[k] \in Object
    BY <1>1, <1>2
  <2>2. /\ s2 \in Seq(Object)
        /\ Len(s2) = IF n + 1 <= L THEN L - (n + 1) + 1 ELSE 0
        /\ \A k \in 1..L - (n + 1) + 1 : s2[k] = q[n + 1 + k - 1]
    BY <1>1, <1>2, <2>1, SubSeqProperties
  <2> QED BY <1>1, <1>2, <2>2
<1> HIDE DEF s1, s2
<1>5. s3 \in Seq(Object) /\ Len(s3) = n + 1 /\ s3[n + 1] = o /\ \A k \in 1..n : s3[k] = q[k]
  <2>1. <<o>> \in Seq(Object) /\ Len(<<o>>) = 1 /\ <<o>>[1] = o
    OBVIOUS
  <2>2. /\ s3 \in Seq(Object) /\ Len(s3) = Len(s1) + Len(<<o>>)
        /\ \A k \in 1..Len(s1) + Len(<<o>>) :
             s3[k] = IF k <= Len(s1) THEN s1[k] ELSE <<o>>[k - Len(s1)]
    BY <1>3, <2>1, ConcatProperties
  <2> QED BY <1>2, <1>3, <2>1, <2>2
<1> HIDE DEF s3
<1>6. /\ s \in Seq(Object) /\ Len(s) = L + 1 /\ s[n + 1] = o
      /\ \A k \in 1..n : s[k] = q[k]
      /\ \A k \in n + 1..L : s[k + 1] = q[k]
  <2>1. /\ s \in Seq(Object) /\ Len(s) = Len(s3) + Len(s2)
        /\ \A k \in 1..Len(s3) + Len(s2) :
             s[k] = IF k <= Len(s3) THEN s3[k] ELSE s2[k - Len(s3)]
    BY <1>4, <1>5, ConcatProperties
  <2>2. \A k \in n + 1..L : s[k + 1] = q[k]
    <3> TAKE k \in n + 1..L
    <3>1. /\ k + 1 \in 1..Len(s3) + Len(s2) /\ ~(k + 1 <= Len(s3))
          /\ (k + 1) - Len(s3) = k - n /\ k - n \in 1..L - n /\ n + (k - n) = k
      BY <1>1, <1>2, <1>4, <1>5
    <3>2. s[k + 1] = s2[k - n]
      BY <2>1, <3>1
    <3> QED BY <1>4, <3>1, <3>2
  <2> QED BY <1>1, <1>2, <1>4, <1>5, <2>1, <2>2
<1>7. Insert(q, o) = s
  BY DEF Insert, s, s1, s2, s3, n, L
<1> HIDE DEF s
<1>8. DOMAIN s = 1..L + 1
  BY <1>6, LenProperties
<1>9. \A m \in 1..L + 1 : s[m] = o \/ \E k \in 1..L : s[m] = q[k]
  <2> TAKE m \in 1..L + 1
  <2>1. CASE m \in 1..n
    BY <1>1, <1>2, <1>6, <2>1
  <2>2. CASE m = n + 1
    BY <1>6, <2>2
  <2>3. CASE m > n + 1
    <3>1. m - 1 \in n + 1..L /\ m - 1 \in 1..L /\ (m - 1) + 1 = m
      BY <1>1, <1>2, <2>3
    <3> QED BY <1>6, <3>1
  <2> QED BY <1>1, <1>2, <2>1, <2>2, <2>3
<1>10. \A k \in 1..L : \E m \in 1..L + 1 : s[m] = q[k]
  <2> TAKE k \in 1..L
  <2>1. CASE k \in 1..n
    BY <1>1, <1>2, <1>6, <2>1
  <2>2. CASE k \in n + 1..L
    BY <1>1, <1>2, <1>6, <2>2
  <2> QED BY <1>1, <1>2, <2>1, <2>2
<1>11. \E m \in 1..L + 1 : s[m] = o
  BY <1>1, <1>2, <1>6
<1>12. DOMAIN Insert(q, o) = 1..L + 1 /\ DOMAIN q = 1..L
  BY <1>1, <1>7, <1>8
<1>13. \A m \in DOMAIN Insert(q, o) :
         Insert(q, o)[m] = o \/ \E k \in DOMAIN q : Insert(q, o)[m] = q[k]
  BY <1>7, <1>9, <1>12
<1>14. /\ \E m \in DOMAIN Insert(q, o) : Insert(q, o)[m] = o
       /\ \A k \in DOMAIN q : \E m \in DOMAIN Insert(q, o) : Insert(q, o)[m] = q[k]
  BY <1>7, <1>10, <1>11, <1>12
<1> QED BY <1>6, <1>7, <1>13, <1>14

\* The same of the receiver's queue.
LEMMA QueueGrows ==
  ASSUME queue \in Seq(Object), NEW o, o \in Object, queue' = Insert(queue, o)
  PROVE  /\ queue' \in Seq(Object)
         /\ \A m \in DOMAIN queue' : queue'[m] = o \/ \E n \in DOMAIN queue : queue'[m] = queue[n]
         /\ \E m \in DOMAIN queue' : queue'[m] = o
         /\ \A n \in DOMAIN queue : \E m \in DOMAIN queue' : queue'[m] = queue[n]
<1>1. ASSUME NEW q \in Seq(Object), NEW z, z = Insert(q, o)
      PROVE  /\ z \in Seq(Object)
             /\ \A m \in DOMAIN z : z[m] = o \/ \E n \in DOMAIN q : z[m] = q[n]
             /\ \E m \in DOMAIN z : z[m] = o
             /\ \A n \in DOMAIN q : \E m \in DOMAIN z : z[m] = q[n]
  BY <1>1, InsertKeeps, Zenon
<1> QED BY <1>1

\* Popping the queue leaves the other elements.
LEMMA TailKeeps ==
  ASSUME NEW q \in Seq(Object), q # <<>>
  PROVE  /\ Head(q) \in Object /\ Tail(q) \in Seq(Object)
         /\ \E k \in DOMAIN q : Head(q) = q[k]
         /\ \A m \in DOMAIN Tail(q) : \E k \in DOMAIN q : Tail(q)[m] = q[k]
         /\ \A k \in DOMAIN q : q[k] = Head(q) \/ \E m \in DOMAIN Tail(q) : Tail(q)[m] = q[k]
<1>1. /\ Len(q) \in Nat \ {0} /\ DOMAIN q = 1..Len(q)
  BY LenProperties, EmptySeq
<1>2. /\ Head(q) \in Object /\ Tail(q) \in Seq(Object)
      /\ Len(Tail(q)) = Len(q) - 1
      /\ \A k \in 1..Len(Tail(q)) : Tail(q)[k] = q[k + 1]
  BY HeadTailProperties
<1>3. DOMAIN Tail(q) = 1..Len(q) - 1
  BY <1>1, <1>2, LenProperties
<1>4. Head(q) = q[1]
  OBVIOUS
<1>5. \A k \in 1..Len(q) : k = 1 \/ (k - 1 \in 1..Len(q) - 1 /\ (k - 1) + 1 = k)
  BY <1>1
<1>6. \A m \in 1..Len(q) - 1 : m + 1 \in 1..Len(q)
  BY <1>1
<1>7. \A m \in DOMAIN Tail(q) : \E k \in DOMAIN q : Tail(q)[m] = q[k]
  <2> TAKE m \in DOMAIN Tail(q)
  <2>1. Tail(q)[m] = q[m + 1]
    BY <1>1, <1>2, <1>3
  <2> QED BY <1>1, <1>3, <1>6, <2>1
<1>8. \A k \in DOMAIN q : q[k] = Head(q) \/ \E m \in DOMAIN Tail(q) : Tail(q)[m] = q[k]
  <2> TAKE k \in DOMAIN q
  <2>1. CASE k = 1
    BY <1>4, <2>1
  <2>2. CASE k # 1
    <3>1. k - 1 \in 1..Len(q) - 1 /\ (k - 1) + 1 = k
      BY <1>1, <1>5, <2>2
    <3>2. Tail(q)[k - 1] = q[k]
      BY <1>1, <1>2, <3>1
    <3> QED BY <1>3, <3>1, <3>2
  <2> QED BY <2>1, <2>2
<1>9. \E k \in DOMAIN q : Head(q) = q[k]
  BY <1>1, <1>4
<1> QED BY <1>2, <1>7, <1>8, <1>9

-----------------------------------------------------------------------------
(* One validation pass *)

\* the record and the object a pass leaves, if any
Leaves(o, r, H, pass) ==
  /\ pass.record \in Record /\ Consistent(pass.record)
  /\ \/ pass.back = <<>>
     \/ \E x \in Object : /\ pass.back = <<x>> /\ x.id = o.id /\ x.age = o.age
                          /\ x.added = ApplyPolicy(o)
  /\ pass.record.state \in ValidatableStates => pass.back # <<>>
  /\ \/ r.state \notin ValidatableStates /\ pass.record = r
     \/ pass.record.class = "stop"
     \/ pass.record.state \in {"REVOKED", "EXPIRED"}
     \/ o.age = "ok"
  /\ \/ r.state \notin ValidatableStates /\ pass.record = r
     \/ pass.record.state # "AUTHORIZED"
     \/ pass.record.class = "stop"
     \/ Declared[o.id] \cup ApplyPolicy(o).preds \subseteq H
  /\ pass.record.state # "ABSENT" \/ pass.record = r

\* What a pass over the object o and the record r leaves: a consistent record;
\* o on the queue again whenever the record still waits for a validation; an
\* authorization, other than of a stop, only within o's window and on a
\* context that satisfies what o declares and carries.
LEMMA PassLeaves ==
  ASSUME QueueTypes, NEW o \in Object, NEW r \in Record, Consistent(r),
         NEW version \in Versions, NEW H \in SUBSET Predicates, NEW stale \in BOOLEAN,
         NEW pass, pass = Pass(o, r, version, H, stale)
  PROVE  Leaves(o, r, H, pass)
<1> DEFINE carried == [r EXCEPT !.policy = o.policy]
           added == ApplyPolicy(o)
           c == [version |-> version, readSetVersion |-> version, temporal |-> o.age,
                 contextOk |-> Declared[o.id] \cup added.preds \subseteq H]
           outcome == Decide(carried, o.id, c)
           back == PutBack(o, outcome, added)
           stop == [AuthorizeStop(r) EXCEPT !.contextVersion = version]
<1> USE DEF QueueTypes, RuntimeTypeOK
<1>1. o.id \in Intents /\ o.age \in Ages /\ o.policy \in {"none", "reduce_speed"} /\ o.added \in AddedOf
  BY DEF Object
<1>2. added \in AddedOf
  BY <1>1 DEF ApplyPolicy, AddedOf
<1>3. c \in Checks
  BY <1>1 DEF Checks, Ages
<1>4. carried \in Record /\ carried.state = r.state /\ Consistent(carried)
  BY <1>1 DEF Record, Consistent
<1>5. outcome \in {"EXECUTE", "DELAY", "DEGRADE", "REVOKE"}
  BY DEF Decide
<1>6. outcome # "REVOKE" => o.age = "ok" /\ Declared[o.id] \cup added.preds \subseteq H
  BY DEF Decide
<1>7. /\ outcome = "EXECUTE" => StateAfter(outcome, c) = "AUTHORIZED"
      /\ outcome = "DELAY"   => StateAfter(outcome, c) = "DELAYED"
      /\ outcome = "DEGRADE" => StateAfter(outcome, c) = "DEGRADED"
      /\ outcome = "REVOKE"  => StateAfter(outcome, c) \in {"EXPIRED", "REVOKED"}
  BY DEF StateAfter
<1>8. \/ outcome \in {"DELAY", "DEGRADE"} /\ \E x \in Object : /\ back = <<x>> /\ x.id = o.id
                                                           /\ x.age = o.age /\ x.added = added
      \/ outcome \in {"EXECUTE", "REVOKE"} /\ back = <<>>
  <2>1. CASE outcome = "DELAY"
    <3> DEFINE x == [o EXCEPT !.added = added]
    <3>1. x \in Object /\ x.id = o.id /\ x.age = o.age /\ x.added = added
      BY <1>2 DEF Object
    <3>2. back = <<x>>
      BY <2>1 DEF PutBack
    <3> QED BY <2>1, <3>1, <3>2
  <2>2. CASE outcome = "DEGRADE"
    <3> DEFINE x == [o EXCEPT !.added = added, !.policy = "none"]
    <3>1. x \in Object /\ x.id = o.id /\ x.age = o.age /\ x.added = added
      BY <1>2 DEF Object
    <3>2. back = <<x>>
      BY <2>2 DEF PutBack
    <3> QED BY <2>2, <3>1, <3>2
  <2>3. CASE outcome \in {"EXECUTE", "REVOKE"}
    BY <2>3 DEF PutBack
  <2> QED BY <1>5, <2>1, <2>2, <2>3
<1>9. pass = IF ~Validates(r) THEN [record |-> r, back |-> <<>>]
             ELSE IF o.id \in stopClass THEN [record |-> stop, back |-> <<>>]
             ELSE IF stale THEN [record |-> RevokeStale(r), back |-> <<>>]
             ELSE [record |-> Validated(carried, outcome, c), back |-> back]
  BY DEF Pass
<1>10. /\ AuthorizeStop(r) \in Record /\ RevokeStale(r) \in Record
       /\ Validated(carried, outcome, c) \in Record
  BY <1>1, <1>3, <1>4, PassTypes
<1>11. r.state \in ValidatableStates =>
         Consistent(AuthorizeStop(r)) /\ Consistent(RevokeStale(r))
  BY <1>1, PassConsistent DEF Validations
<1>12. r.state \in ValidatableStates => Consistent(Validated(carried, outcome, c))
  <2> SUFFICES ASSUME r.state \in ValidatableStates PROVE Consistent(Validated(carried, outcome, c))
    OBVIOUS
  <2>1. Validated(carried, outcome, c) \in Validations(o.id)[carried]
    BY <1>3, <1>4 DEF Validations
  <2> HIDE DEF c, carried, outcome
  <2> QED BY <1>1, <1>4, <2>1, PassConsistent
<1>13. r.state \in ValidatableStates => stop \in Record /\ Consistent(stop)
  <2>1. ASSUME NEW x \in Record, Consistent(x)
        PROVE  LET y == [x EXCEPT !.contextVersion = version] IN y \in Record /\ Consistent(y)
    BY <2>1 DEF Record, Consistent
  <2> QED BY <1>10, <1>11, <2>1
<1>14. /\ stop.state = "AUTHORIZED" /\ stop.class = "stop"
       /\ RevokeStale(r).state = "REVOKED"
       /\ Validated(carried, outcome, c).state = StateAfter(outcome, c)
  BY <1>4 DEF AuthorizeStop, RevokeStale, Validated, Record
<1> HIDE DEF carried, added, c, outcome, back, stop
<1>15. CASE ~Validates(r)
  <2>1. pass.record = r /\ pass.back = <<>> /\ r.state \notin ValidatableStates
    BY <1>9, <1>15 DEF Validates
  <2> QED BY <2>1 DEF Leaves
<1>16. CASE Validates(r) /\ o.id \in stopClass
  <2>1. pass.record = stop /\ pass.back = <<>>
    BY <1>9, <1>16
  <2> QED BY <1>13, <1>14, <1>16, <2>1 DEF Validates, ValidatableStates, Leaves
<1>17. CASE Validates(r) /\ o.id \notin stopClass /\ stale
  <2>1. pass.record = RevokeStale(r) /\ pass.back = <<>>
    BY <1>9, <1>17
  <2> QED BY <1>10, <1>11, <1>14, <1>17, <2>1 DEF Validates, ValidatableStates, Leaves
<1>18. CASE Validates(r) /\ o.id \notin stopClass /\ ~stale
  <2>1. pass.record = Validated(carried, outcome, c) /\ pass.back = back
    BY <1>9, <1>18
  <2>2. r.state \in ValidatableStates
    BY <1>18 DEF Validates
  <2>3. pass.record.state = StateAfter(outcome, c) /\ pass.record.state # "ABSENT"
    BY <1>5, <1>7, <1>14, <2>1
  <2>4. pass.record \in Record /\ Consistent(pass.record)
    BY <1>10, <1>12, <2>1, <2>2
  <2>5. \/ pass.back = <<>>
        \/ \E x \in Object : pass.back = <<x>> /\ x.id = o.id /\ x.age = o.age /\ x.added = added
    BY <1>8, <2>1
  <2>6. pass.record.state \in ValidatableStates => pass.back # <<>>
    <3>1. \A x \in Object : <<x>> # <<>>
      OBVIOUS
    <3>2. outcome \in {"DELAY", "DEGRADE"} => back # <<>>
      BY <1>8, <3>1
    <3>3. pass.record.state \in ValidatableStates => outcome \in {"DELAY", "DEGRADE"}
      BY <1>5, <1>7, <2>3 DEF ValidatableStates
    <3> QED BY <2>1, <3>2, <3>3
  <2>7. o.age = "ok" \/ pass.record.state \in {"REVOKED", "EXPIRED"}
    BY <1>6, <1>7, <2>3
  <2>8. pass.record.state # "AUTHORIZED" \/ Declared[o.id] \cup added.preds \subseteq H
    BY <1>6, <1>7, <2>3
  <2> QED BY <2>3, <2>4, <2>5, <2>6, <2>7, <2>8 DEF added, Leaves
<1> QED BY <1>15, <1>16, <1>17, <1>18

\* What the handler's whole step leaves of the records and the queue: the
\* elements of the queue it starts from, and perhaps the object of the pass.
LEMMA TakeLeaves ==
  ASSUME QueueTypes, NEW o \in Object, NEW recs \in [Intents -> Record],
         Consistent(recs[o.id]), NEW q \in Seq(Object), NEW version \in Versions,
         NEW H \in SUBSET Predicates, NEW stale \in BOOLEAN,
         Take(o, recs, q, Pass(o, recs[o.id], version, H, stale))
  PROVE  /\ records' \in [Intents -> Record] /\ queue' \in Seq(Object)
         /\ activeTargets' \in SUBSET Targets
         /\ \A i \in Intents \ {o.id} : records'[i] = recs[i]
         /\ Consistent(records'[o.id])
         /\ \A m \in DOMAIN queue' :
              \/ \E k \in DOMAIN q : queue'[m] = q[k]
              \/ queue'[m].id = o.id /\ queue'[m].age = o.age /\ queue'[m].added = ApplyPolicy(o)
         /\ \A k \in DOMAIN q : \E m \in DOMAIN queue' : queue'[m] = q[k]
         /\ records'[o.id].state \in ValidatableStates
              => \E m \in DOMAIN queue' : queue'[m].id = o.id
         /\ \/ recs[o.id].state \notin ValidatableStates /\ records'[o.id] = recs[o.id]
            \/ records'[o.id].class = "stop"
            \/ records'[o.id].state \in {"REVOKED", "EXPIRED"}
            \/ o.age = "ok"
         /\ \/ recs[o.id].state \notin ValidatableStates /\ records'[o.id] = recs[o.id]
            \/ records'[o.id].state # "AUTHORIZED"
            \/ records'[o.id].class = "stop"
            \/ Declared[o.id] \cup ApplyPolicy(o).preds \subseteq H
         /\ records'[o.id].state # "ABSENT" \/ records'[o.id] = recs[o.id]
<1>0. o.id \in Intents
  BY DEF Object
<1>1. PICK pass : pass = Pass(o, recs[o.id], version, H, stale)
  OBVIOUS
<1>2. recs[o.id] \in Record
  BY <1>0
<1>3. Leaves(o, recs[o.id], H, pass)
  BY <1>1, <1>2, PassLeaves
<1>4. /\ records' = [recs EXCEPT ![o.id] = pass.record]
      /\ queue' = IF pass.back = <<>> THEN q ELSE Insert(q, pass.back[1])
      /\ activeTargets' \in {activeTargets, activeTargets \cup {TargetOf[o.id]}}
  BY <1>1 DEF Take
<1>5. activeTargets' \in SUBSET Targets
  <2>1. TargetOf[o.id] \in Targets
    BY <1>0, RuntimeAssumption
  <2>2. activeTargets \in SUBSET Targets
    BY DEF QueueTypes, RuntimeTypeOK
  <2> QED BY <1>4, <2>1, <2>2
<1>6. /\ records' \in [Intents -> Record] /\ records'[o.id] = pass.record
      /\ \A i \in Intents \ {o.id} : records'[i] = recs[i]
  BY <1>0, <1>3, <1>4 DEF Leaves
<1>7. CASE pass.back = <<>>
  <2>1. queue' = q
    BY <1>4, <1>7
  <2> QED BY <1>3, <1>5, <1>6, <1>7, <2>1 DEF Leaves
<1>8. ASSUME NEW x \in Object, pass.back = <<x>>, x.id = o.id, x.age = o.age,
             x.added = ApplyPolicy(o)
      PROVE  /\ queue' \in Seq(Object)
             /\ \A m \in DOMAIN queue' :
                  \/ \E k \in DOMAIN q : queue'[m] = q[k]
                  \/ /\ queue'[m].id = o.id /\ queue'[m].age = o.age
                     /\ queue'[m].added = ApplyPolicy(o)
             /\ \A k \in DOMAIN q : \E m \in DOMAIN queue' : queue'[m] = q[k]
             /\ \E m \in DOMAIN queue' : queue'[m].id = o.id
  <2>1. <<x>> # <<>> /\ <<x>>[1] = x
    OBVIOUS
  <2>2. queue' = Insert(q, x)
    BY <1>4, <1>8, <2>1
  <2>3. /\ queue' \in Seq(Object)
        /\ \A m \in DOMAIN queue' : queue'[m] = x \/ \E k \in DOMAIN q : queue'[m] = q[k]
        /\ \E m \in DOMAIN queue' : queue'[m] = x
        /\ \A k \in DOMAIN q : \E m \in DOMAIN queue' : queue'[m] = q[k]
    BY <2>2, InsertKeeps, Zenon
  <2> QED BY <1>8, <2>3
<1> QED BY <1>3, <1>5, <1>6, <1>7, <1>8 DEF Leaves

\* The objects and the records a pass starts from are well formed.
LEMMA StartsWellFormed ==
  ASSUME QueueTypes, ReportsMatchState, NEW i \in Intents
  PROVE  /\ Submitted(i) \in Object /\ Submitted(i).id = i /\ Submitted(i).age = "ok"
         /\ ~Submitted(i).added.applied
         /\ Created(i) \in Record /\ Consistent(Created(i)) /\ Created(i).state = "CREATED"
         /\ Found(records, i) \in Record /\ Consistent(Found(records, i))
         /\ Consistent(Absent)
<1>1. Created(i) \in Record /\ Absent \in Record
  BY FreshTypes
<1>2. Consistent(Created(i)) /\ Created(i).state = "CREATED" /\ Consistent(Absent)
  BY DEF Created, Absent, Consistent, ReleasedStates
<1>3. Created(i).policy \in {"none", "reduce_speed"}
  BY DEF Created, Absent
<1>4. /\ Submitted(i) \in Object /\ Submitted(i).id = i /\ Submitted(i).age = "ok"
      /\ ~Submitted(i).added.applied
  BY <1>3 DEF Submitted, Object, Ages, AddedOf, NotApplied
<1>5. Found(records, i) \in Record /\ Consistent(Found(records, i))
  BY <1>1, <1>2 DEF Found, QueueTypes, RuntimeTypeOK, ReportsMatchState
<1> QED BY <1>1, <1>2, <1>4, <1>5

-----------------------------------------------------------------------------
(* The inductive invariant *)

\* an id is in the idempotency table once, and has a record while it is
SeenOnce == \A m, n \in DOMAIN seen : seen[m] = seen[n] => m = n
SeenKept == \A i \in Range(seen) : records[i].state # "ABSENT"

\* an object whose window is open belongs to an id the table still holds
WindowsRetained == \A n \in DOMAIN queue : queue[n].age = "ok" => queue[n].id \in Range(seen)

\* what stood since the submission is mandated now, and an object that got its
\* predicates in an earlier pass, and whose window is open, carries it
StandingMandated == \A i \in Intents : standing[i] \subseteq mandated[i]
StandingCarried ==
  \A n \in DOMAIN queue :
    queue[n].age = "ok" /\ queue[n].added.applied
      => standing[queue[n].id] \ Declared[queue[n].id] \subseteq queue[n].added.preds

\* RevokedStays, and no disowned record waits for a validation
DisownedSettled ==
  \A i \in disowned : /\ records[i].state \notin ValidatableStates
                      /\ records[i].outcome = "EXECUTE" => records[i].class = "stop"

QueueInv ==
  /\ QueueTypes
  /\ ReportsMatchState
  /\ NoneStranded
  /\ SeenOnce
  /\ SeenKept
  /\ WindowsRetained
  /\ StandingMandated
  /\ StandingCarried
  /\ DisownedSettled

\* the step PolicyHeld allows
PolicyStep ==
  \A i \in Intents :
    /\ records'[i].state = "AUTHORIZED" /\ records'[i].class = "other"
    /\ records[i].state # "AUTHORIZED"
    => Declared[i] \cup standing'[i] \subseteq holds'

\* Initially the queue is empty and no id is known.
LEMMA QueueInvInit == QueueInit => QueueInv
<1> SUFFICES ASSUME QueueInit PROVE QueueInv
  OBVIOUS
<1>1. RuntimeTypeOK
  BY TypeInit DEF QueueInit
<1>2. seen = <<>> /\ queue = <<>> /\ DOMAIN seen = {} /\ DOMAIN queue = {}
  BY DEF QueueInit, RuntimeInit
<1>3. QueueTypes
  BY <1>1, QueueAssumption, EmptySeq DEF QueueInit, QueueTypes
<1>4. ReportsMatchState /\ NoneStranded
  BY DEF QueueInit, RuntimeInit, ReportsMatchState, NoneStranded, Absent, Consistent,
         ReleasedStates, ValidatableStates
<1>5. SeenOnce /\ SeenKept /\ WindowsRetained /\ StandingCarried
  BY <1>2 DEF SeenOnce, SeenKept, WindowsRetained, StandingCarried, Range
<1>6. StandingMandated /\ DisownedSettled
  BY DEF QueueInit, StandingMandated, DisownedSettled
<1> QED BY <1>3, <1>4, <1>5, <1>6 DEF QueueInv

\* Dropping the ids whose retention has elapsed keeps the table without
\* repetitions, the records of the ids it still holds, and the ids of every
\* object whose window is open; so an id is a duplicate exactly if it is left.
LEMMA ExpiryKeeps ==
  ASSUME QueueInv, NEW k \in Lapses, MayLapse(k)
  PROVE  /\ Retained(k) \in Seq(Intents)
         /\ \A m, n \in DOMAIN Retained(k) : Retained(k)[m] = Retained(k)[n] => m = n
         /\ AfterExpiry(k) \in [Intents -> Record]
         /\ \A i \in Intents :
              AfterExpiry(k)[i] = records[i] \/ (AfterExpiry(k)[i] = Absent /\ i \notin Range(Retained(k)))
         /\ \A i \in Range(Retained(k)) : i \in Intents /\ AfterExpiry(k)[i].state # "ABSENT"
         /\ \A n \in DOMAIN queue : queue[n].age = "ok" => queue[n].id \in Range(Retained(k))
         /\ \A i \in Intents : IsDuplicate(i, k) <=> i \in Range(Retained(k))
         /\ lapses + k \in 0..MaxLapses
<1> DEFINE R == Retained(k)
           L == Len(seen)
<1> USE DEF QueueInv
<1>1. RuntimeTypeOK /\ seen \in Seq(Intents) /\ L \in Nat /\ DOMAIN seen = 1..L /\ k \in 0..L
  BY LenProperties DEF QueueTypes, RuntimeTypeOK, Lapses
<1>2. R \in Seq(Intents) /\ AfterExpiry(k) \in [Intents -> Record]
  BY <1>1, ExpiryTypes
<1>3. Len(R) = L - k /\ \A n \in 1..L - k : R[n] = seen[k + n]
  <2>1. \A n \in k + 1..L : seen[n] \in Intents
    BY <1>1, ElementOfSeq
  <2>2. /\ Len(R) = IF k + 1 <= L THEN L - (k + 1) + 1 ELSE 0
        /\ \A n \in 1..L - (k + 1) + 1 : R[n] = seen[k + 1 + n - 1]
    BY <1>1, <2>1, SubSeqProperties DEF Retained
  <2> HIDE DEF R, L
  <2>3. L - (k + 1) + 1 = L - k /\ \A n \in 1..L - k : k + 1 + n - 1 = k + n
    BY <1>1
  <2>4. Len(R) = L - k
    BY <1>1, <2>2
  <2> QED BY <2>2, <2>3, <2>4
<1>4. DOMAIN R = 1..L - k
  BY <1>2, <1>3, LenProperties
<1> HIDE DEF R, L
<1>5. \A m, n \in DOMAIN R : R[m] = R[n] => m = n
  <2> TAKE m, n \in DOMAIN R
  <2> HAVE R[m] = R[n]
  <2>1. k + m \in 1..L /\ k + n \in 1..L /\ m \in Int /\ n \in Int /\ k \in Int
    BY <1>1, <1>4
  <2>2. seen[k + m] = seen[k + n]
    BY <1>3, <1>4
  <2>3. k + m = k + n
    BY <1>1, <2>1, <2>2 DEF SeenOnce
  <2> QED BY <2>1, <2>3
<1>6. \A i \in Range(R) : /\ i \in Range(seen) /\ i \in Intents
                          /\ ~\E n \in 1..k : seen[n] = i
  <2> TAKE i \in Range(R)
  <2>1. PICK m \in DOMAIN R : R[m] = i
    BY DEF Range
  <2>2. k + m \in 1..L /\ seen[k + m] = i
    BY <1>1, <1>3, <1>4, <2>1
  <2>3. ASSUME NEW n \in 1..k, seen[n] = i PROVE FALSE
    <3>1. n \in 1..L /\ n # k + m
      BY <1>1, <1>4
    <3> QED BY <1>1, <2>2, <2>3, <3>1 DEF SeenOnce
  <2>4. i \in Intents
    BY <1>1, <2>2, ElementOfSeq DEF L
  <2> QED BY <1>1, <2>2, <2>3, <2>4 DEF Range
<1>7. \A i \in Intents : AfterExpiry(k)[i] = records[i] \/ (AfterExpiry(k)[i] = Absent /\ i \notin Range(R))
  BY <1>6 DEF AfterExpiry
<1>8. \A i \in Range(R) : i \in Intents /\ AfterExpiry(k)[i].state # "ABSENT"
  BY <1>6, <1>7 DEF SeenKept
<1>9. \A n \in DOMAIN queue : queue[n].age = "ok" => queue[n].id \in Range(R)
  <2> TAKE n \in DOMAIN queue
  <2> HAVE queue[n].age = "ok"
  <2>1. PICK m \in DOMAIN seen : seen[m] = queue[n].id
    BY DEF WindowsRetained, Range
  <2>2. ~(m \in 1..k)
    BY <2>1 DEF MayLapse
  <2>3. m - k \in 1..L - k /\ k + (m - k) = m
    BY <1>1, <2>2
  <2>4. R[m - k] = queue[n].id
    BY <1>3, <2>1, <2>3
  <2> QED BY <1>4, <2>3, <2>4 DEF Range
<1>10. \A i \in Intents : IsDuplicate(i, k) <=> i \in Range(R)
  BY <1>8 DEF IsDuplicate, R
<1>11. lapses + k \in 0..MaxLapses
  BY <1>1, QueueAssumption DEF MayLapse, QueueTypes
<1> QED BY <1>2, <1>5, <1>7, <1>8, <1>9, <1>10, <1>11 DEF R

\* What an admission makes of the idempotency table.
LEMMA SeenAfter ==
  ASSUME NEW R \in Seq(Intents), \A m, n \in DOMAIN R : R[m] = R[n] => m = n,
         NEW i \in Intents, NEW s, s = IF i \in Range(R) THEN R ELSE Append(R, i)
  PROVE  /\ s \in Seq(Intents) /\ Range(s) = Range(R) \cup {i}
         /\ \A m, n \in DOMAIN s : s[m] = s[n] => m = n
<1>1. CASE i \in Range(R)
  BY <1>1
<1>2. CASE i \notin Range(R)
  <2> DEFINE L == Len(R)
  <2>1. L \in Nat /\ DOMAIN R = 1..L
    BY LenProperties
  <2>2. /\ s \in Seq(Intents) /\ Len(s) = L + 1 /\ s[L + 1] = i
        /\ \A n \in 1..L : s[n] = R[n]
    BY <1>2, AppendProperties
  <2>3. DOMAIN s = 1..L + 1
    BY <2>2, LenProperties
  <2> HIDE DEF L
  <2>4. Range(s) = Range(R) \cup {i}
    <3>1. \A n \in 1..L + 1 : n \in 1..L \/ n = L + 1
      BY <2>1
    <3>2. L + 1 \in 1..L + 1 /\ \A n \in 1..L : n \in 1..L + 1
      BY <2>1
    <3> QED BY <2>1, <2>2, <2>3, <3>1, <3>2 DEF Range
  <2>5. \A n \in 1..L : s[n] # i
    BY <1>2, <2>1, <2>2 DEF Range
  <2>6. \A m, n \in DOMAIN s : s[m] = s[n] => m = n
    BY <2>1, <2>2, <2>3, <2>5
  <2> QED BY <2>2, <2>4, <2>6
<1> QED BY <1>1, <1>2

-----------------------------------------------------------------------------
(* Every operation keeps the invariant *)

\* A disowned id is one before the step that was not submitted in it, or one
\* the step leaves revoked or expired.
LEMMA DisownKeeps ==
  ASSUME disowned \in SUBSET Intents, NEW ids, Disown(ids), ReportsMatchState',
         \A i \in disowned \ ids : /\ records'[i].state \notin ValidatableStates
                                   /\ records'[i].outcome = "EXECUTE" => records'[i].class = "stop"
  PROVE  disowned' \in SUBSET Intents /\ DisownedSettled'
<1>1. disowned' = (disowned \ ids) \cup {i \in Intents : records'[i].state \in {"REVOKED", "EXPIRED"}}
  BY DEF Disown
<1>2. \A i \in Intents : records'[i].state \in {"REVOKED", "EXPIRED"} => records'[i].outcome = "REVOKE"
  BY DEF ReportsMatchState, Consistent
<1> QED BY <1>1, <1>2 DEF DisownedSettled, ValidatableStates

\* submit_intent
LEMMA SubmitKeeps ==
  ASSUME QueueInv, NEW i \in Intents, NEW k \in Lapses, SubmitIntent(i, k)
  PROVE  QueueInv' /\ PolicyStep
<1> USE DEF QueueInv
<1> DEFINE R == Retained(k)
           E == AfterExpiry(k)
<1>1. /\ R \in Seq(Intents) /\ E \in [Intents -> Record]
      /\ \A m, n \in DOMAIN R : R[m] = R[n] => m = n
      /\ \A j \in Intents : E[j] = records[j] \/ (E[j] = Absent /\ j \notin Range(R))
      /\ \A j \in Range(R) : j \in Intents /\ E[j].state # "ABSENT"
      /\ \A n \in DOMAIN queue : queue[n].age = "ok" => queue[n].id \in Range(R)
      /\ IsDuplicate(i, k) <=> i \in Range(R)
      /\ lapses + k \in 0..MaxLapses
  BY ExpiryKeeps DEF SubmitIntent
<1>2. /\ Submitted(i) \in Object /\ Submitted(i).id = i /\ Submitted(i).age = "ok"
      /\ ~Submitted(i).added.applied
      /\ Created(i) \in Record /\ Consistent(Created(i)) /\ Created(i).state = "CREATED"
      /\ Consistent(Absent)
  BY StartsWellFormed
<1>3. /\ seen' = (IF i \in Range(R) THEN R ELSE Append(R, i))
      /\ records' = (IF i \in Range(R) THEN E ELSE [E EXCEPT ![i] = Created(i)])
      /\ UNCHANGED <<activeTargets, contextVersion, stopClass, mandated, holds>>
      /\ lapses' = lapses + k
      /\ i \in Range(R) => UNCHANGED <<queue, standing>> /\ Disown({})
      /\ i \notin Range(R) => /\ queue' = Insert(queue, Submitted(i))
                              /\ standing' = [standing EXCEPT ![i] = mandated[i]]
                              /\ Disown({i})
  BY <1>1 DEF SubmitIntent, Admit, Expire
<1> HIDE DEF R, E
<1>4. seen' \in Seq(Intents) /\ Range(seen') = Range(R) \cup {i} /\ SeenOnce'
  BY <1>1, <1>3, SeenAfter DEF SeenOnce
<1>5. /\ records' \in [Intents -> Record]
      /\ \A j \in Intents : \/ records'[j] = records[j]
                            \/ records'[j] = Absent /\ j \notin Range(R)
                            \/ j = i /\ i \notin Range(R) /\ records'[j] = Created(i)
      /\ i \notin Range(R) => records'[i] = Created(i)
      /\ \A j \in Range(R) : records'[j].state # "ABSENT"
  BY <1>1, <1>2, <1>3
<1>6. ReportsMatchState'
  BY <1>2, <1>5 DEF ReportsMatchState
<1>7. /\ queue' \in Seq(Object)
      /\ i \in Range(R) => queue' = queue
      /\ \A m \in DOMAIN queue' :
           (\E n \in DOMAIN queue : queue'[m] = queue[n]) \/ (i \notin Range(R) /\ queue'[m] = Submitted(i))
      /\ \A n \in DOMAIN queue : \E m \in DOMAIN queue' : queue'[m] = queue[n]
      /\ i \notin Range(R) => \E m \in DOMAIN queue' : queue'[m] = Submitted(i)
  <2>1. queue \in Seq(Object)
    BY DEF QueueTypes
  <2>2. CASE i \in Range(R)
    BY <1>3, <2>1, <2>2
  <2>3. CASE i \notin Range(R)
    <3>1. queue' = Insert(queue, Submitted(i))
      BY <1>3, <2>3
    <3> QED BY <1>2, <2>1, <2>3, <3>1, QueueGrows
  <2> QED BY <2>2, <2>3
<1>8. NoneStranded'
  <2> SUFFICES ASSUME NEW j \in Intents, records'[j].state \in ValidatableStates
               PROVE  \E m \in DOMAIN queue' : queue'[m].id = j
    BY DEF NoneStranded, Queued
  <2>1. CASE records'[j] = records[j]
    <3>1. PICK n \in DOMAIN queue : queue[n].id = j
      BY <2>1 DEF NoneStranded, Queued
    <3>2. PICK m \in DOMAIN queue' : queue'[m] = queue[n]
      BY <1>7
    <3> QED BY <3>1, <3>2
  <2>2. CASE j = i /\ i \notin Range(R)
    BY <1>2, <1>7, <2>2
  <2> QED BY <1>5, <2>1, <2>2 DEF Absent, ValidatableStates
<1>9. SeenKept'
  BY <1>2, <1>4, <1>5 DEF SeenKept
<1>10. WindowsRetained'
  <2> SUFFICES ASSUME NEW m \in DOMAIN queue', queue'[m].age = "ok"
               PROVE  queue'[m].id \in Range(seen')
    BY DEF WindowsRetained
  <2>1. CASE queue'[m] = Submitted(i)
    BY <1>2, <1>4, <2>1
  <2>2. CASE \E n \in DOMAIN queue : queue'[m] = queue[n]
    BY <1>1, <1>4, <2>2
  <2> QED BY <1>7, <2>1, <2>2
<1>11. /\ standing' \in [Intents -> SUBSET Predicates] /\ StandingMandated'
       /\ \A j \in Intents : j # i \/ i \in Range(R) => standing'[j] = standing[j]
  BY <1>3 DEF QueueTypes, StandingMandated
<1>12. StandingCarried'
  <2> SUFFICES ASSUME NEW m \in DOMAIN queue', queue'[m].age = "ok", queue'[m].added.applied
               PROVE  standing'[queue'[m].id] \ Declared[queue'[m].id] \subseteq queue'[m].added.preds
    BY DEF StandingCarried
  <2>1. PICK n \in DOMAIN queue : queue'[m] = queue[n]
    BY <1>2, <1>7
  <2>2. queue[n].id \in Range(R) /\ queue[n].id \in Intents
    BY <1>1, <2>1
  <2>3. standing'[queue[n].id] = standing[queue[n].id]
    BY <1>11, <2>2
  <2> QED BY <2>1, <2>3 DEF StandingCarried
<1>13. disowned' \in SUBSET Intents /\ DisownedSettled'
  <2>1. CASE i \in Range(R)
    <3>1. \A j \in disowned \ {} : /\ records'[j].state \notin ValidatableStates
                                   /\ records'[j].outcome = "EXECUTE" => records'[j].class = "stop"
      BY <1>5, <2>1 DEF QueueTypes, DisownedSettled, Absent, ValidatableStates
    <3>2. PICK ids : ids = {}
      OBVIOUS
    <3>3. Disown(ids) /\ disowned \in SUBSET Intents
      BY <1>3, <2>1, <3>2 DEF QueueTypes
    <3>4. \A j \in disowned \ ids : /\ records'[j].state \notin ValidatableStates
                                    /\ records'[j].outcome = "EXECUTE" => records'[j].class = "stop"
      BY <3>1, <3>2
    <3> QED BY <1>6, <3>3, <3>4, DisownKeeps
  <2>2. CASE i \notin Range(R)
    <3>1. \A j \in disowned \ {i} : /\ records'[j].state \notin ValidatableStates
                                    /\ records'[j].outcome = "EXECUTE" => records'[j].class = "stop"
      BY <1>5 DEF QueueTypes, DisownedSettled, Absent, ValidatableStates
    <3>2. PICK ids : ids = {i}
      OBVIOUS
    <3>3. Disown(ids) /\ disowned \in SUBSET Intents
      BY <1>3, <2>2, <3>2 DEF QueueTypes
    <3>4. \A j \in disowned \ ids : /\ records'[j].state \notin ValidatableStates
                                    /\ records'[j].outcome = "EXECUTE" => records'[j].class = "stop"
      BY <3>1, <3>2
    <3> QED BY <1>6, <3>3, <3>4, DisownKeeps
  <2> QED BY <2>1, <2>2
<1>14. QueueTypes'
  BY <1>1, <1>3, <1>4, <1>5, <1>7, <1>11, <1>13 DEF QueueTypes, RuntimeTypeOK
<1>15. PolicyStep
  BY <1>2, <1>5 DEF PolicyStep, Absent
<1> QED BY <1>4, <1>6, <1>8, <1>9, <1>10, <1>11, <1>12, <1>13, <1>14, <1>15

\* What ApplyPolicy carries covers what stood since the submission.
LEMMA StandingApplied ==
  ASSUME NEW o, \/ o.added.applied /\ standing[o.id] \ Declared[o.id] \subseteq o.added.preds
                \/ ~o.added.applied /\ standing[o.id] \subseteq mandated[o.id]
  PROVE  standing[o.id] \ Declared[o.id] \subseteq ApplyPolicy(o).preds
BY DEF ApplyPolicy

\* submit_and_process
LEMMA SubmitProcessKeeps ==
  ASSUME QueueInv, NEW i \in Intents, NEW k \in Lapses, NEW v \in Versions,
         NEW H \in SUBSET Predicates, SubmitAndProcess(i, k, v, H)
  PROVE  QueueInv' /\ PolicyStep
<1> USE DEF QueueInv
<1> DEFINE R == Retained(k)
           E == AfterExpiry(k)
           installed == IF v < contextVersion THEN contextVersion ELSE v
           now == IF v < contextVersion THEN holds ELSE H
           base == [E EXCEPT ![i] = Created(i)]
           o == Submitted(i)
           stale == v < installed
<1>1. /\ R \in Seq(Intents) /\ E \in [Intents -> Record]
      /\ \A m, n \in DOMAIN R : R[m] = R[n] => m = n
      /\ \A j \in Intents : E[j] = records[j] \/ (E[j] = Absent /\ j \notin Range(R))
      /\ \A j \in Range(R) : j \in Intents /\ E[j].state # "ABSENT"
      /\ \A n \in DOMAIN queue : queue[n].age = "ok" => queue[n].id \in Range(R)
      /\ IsDuplicate(i, k) <=> i \in Range(R)
      /\ lapses + k \in 0..MaxLapses
  BY ExpiryKeeps DEF SubmitAndProcess
<1>2. /\ o \in Object /\ o.id = i /\ o.age = "ok" /\ ~o.added.applied
      /\ Created(i) \in Record /\ Consistent(Created(i)) /\ Created(i).state = "CREATED"
      /\ Consistent(Absent)
  BY StartsWellFormed
<1>3. /\ seen' = (IF i \in Range(R) THEN R ELSE Append(R, i))
      /\ UNCHANGED <<stopClass, mandated>>
      /\ lapses' = lapses + k /\ contextVersion' = installed /\ holds' = now
      /\ i \in Range(R) => /\ records' = E /\ UNCHANGED <<activeTargets, queue, standing>>
                           /\ Disown({})
      /\ i \notin Range(R) => /\ Take(o, base, queue, Pass(o, Created(i), installed, now, stale))
                              /\ standing' = [standing EXCEPT ![i] = mandated[i]]
                              /\ Disown({i})
  BY <1>1 DEF SubmitAndProcess, Expire
<1>4. /\ installed \in Versions /\ now \in SUBSET Predicates /\ stale \in BOOLEAN
      /\ base \in [Intents -> Record] /\ base[i] = Created(i)
      /\ \A j \in Intents \ {i} : base[j] = E[j]
  BY <1>1, <1>2 DEF QueueTypes, RuntimeTypeOK
<1> HIDE DEF R, E, installed, now, base, o, stale
<1>5. seen' \in Seq(Intents) /\ Range(seen') = Range(R) \cup {i} /\ SeenOnce'
  BY <1>1, <1>3, SeenAfter DEF SeenOnce
<1>6. i \notin Range(R) =>
         /\ records' \in [Intents -> Record] /\ queue' \in Seq(Object)
         /\ activeTargets' \in SUBSET Targets
         /\ \A j \in Intents \ {i} : records'[j] = E[j]
         /\ Consistent(records'[i])
         /\ \A m \in DOMAIN queue' : \/ \E n \in DOMAIN queue : queue'[m] = queue[n]
                                     \/ queue'[m].id = i /\ queue'[m].added = ApplyPolicy(o)
         /\ \A n \in DOMAIN queue : \E m \in DOMAIN queue' : queue'[m] = queue[n]
         /\ records'[i].state \in ValidatableStates => \E m \in DOMAIN queue' : queue'[m].id = i
         /\ \/ records'[i].state # "AUTHORIZED"
            \/ records'[i].class = "stop"
            \/ Declared[i] \cup ApplyPolicy(o).preds \subseteq now
         /\ records'[i].state # "ABSENT"
  <2> HAVE i \notin Range(R)
  <2>1. Consistent(base[o.id]) /\ base[o.id] = Created(i) /\ base[o.id].state \in ValidatableStates
        /\ base[o.id].state # "ABSENT"
    BY <1>2, <1>4 DEF ValidatableStates
  <2>2. Take(o, base, queue, Pass(o, base[o.id], installed, now, stale))
    BY <1>3, <2>1
  <2>3. QueueTypes /\ queue \in Seq(Object)
    BY DEF QueueTypes
  <2>4. /\ records' \in [Intents -> Record] /\ queue' \in Seq(Object)
        /\ activeTargets' \in SUBSET Targets
        /\ \A j \in Intents \ {o.id} : records'[j] = base[j]
        /\ Consistent(records'[o.id])
        /\ \A m \in DOMAIN queue' :
             \/ \E n \in DOMAIN queue : queue'[m] = queue[n]
             \/ queue'[m].id = o.id /\ queue'[m].age = o.age /\ queue'[m].added = ApplyPolicy(o)
        /\ \A n \in DOMAIN queue : \E m \in DOMAIN queue' : queue'[m] = queue[n]
        /\ records'[o.id].state \in ValidatableStates
             => \E m \in DOMAIN queue' : queue'[m].id = o.id
        /\ \/ base[o.id].state \notin ValidatableStates /\ records'[o.id] = base[o.id]
           \/ records'[o.id].state # "AUTHORIZED"
           \/ records'[o.id].class = "stop"
           \/ Declared[o.id] \cup ApplyPolicy(o).preds \subseteq now
        /\ records'[o.id].state # "ABSENT" \/ records'[o.id] = base[o.id]
    BY <1>2, <1>4, <2>1, <2>2, <2>3, TakeLeaves
  <2> QED BY <1>2, <1>4, <2>1, <2>4
<1>7. /\ records' \in [Intents -> Record] /\ queue' \in Seq(Object)
      /\ activeTargets' \in SUBSET Targets
      /\ \A j \in Intents : \/ records'[j] = records[j]
                            \/ records'[j] = Absent /\ j \notin Range(R)
                            \/ j = i /\ i \notin Range(R)
      /\ \A j \in Range(R) : records'[j].state # "ABSENT"
      /\ records'[i].state # "ABSENT"
      /\ \A m \in DOMAIN queue' :
           \/ \E n \in DOMAIN queue : queue'[m] = queue[n]
           \/ i \notin Range(R) /\ queue'[m].id = i /\ queue'[m].added = ApplyPolicy(o)
      /\ \A n \in DOMAIN queue : \E m \in DOMAIN queue' : queue'[m] = queue[n]
  <2>1. CASE i \in Range(R)
    BY <1>1, <1>3, <2>1 DEF QueueTypes, RuntimeTypeOK
  <2>2. CASE i \notin Range(R)
    BY <1>1, <1>6, <2>2
  <2> QED BY <2>1, <2>2
<1>8. ReportsMatchState'
  BY <1>2, <1>6, <1>7 DEF ReportsMatchState
<1>9. NoneStranded'
  <2> SUFFICES ASSUME NEW j \in Intents, records'[j].state \in ValidatableStates
               PROVE  \E m \in DOMAIN queue' : queue'[m].id = j
    BY DEF NoneStranded, Queued
  <2>1. CASE records'[j] = records[j]
    <3>1. PICK n \in DOMAIN queue : queue[n].id = j
      BY <2>1 DEF NoneStranded, Queued
    <3>2. PICK m \in DOMAIN queue' : queue'[m] = queue[n]
      BY <1>7
    <3> QED BY <3>1, <3>2
  <2>2. CASE j = i /\ i \notin Range(R)
    BY <1>6, <2>2
  <2> QED BY <1>7, <2>1, <2>2 DEF Absent, ValidatableStates
<1>10. SeenKept'
  BY <1>5, <1>7 DEF SeenKept
<1>11. WindowsRetained'
  BY <1>1, <1>5, <1>7 DEF WindowsRetained
<1>12. /\ standing' \in [Intents -> SUBSET Predicates] /\ StandingMandated'
       /\ \A j \in Intents : j # i \/ i \in Range(R) => standing'[j] = standing[j]
       /\ i \notin Range(R) => standing'[i] = mandated[i]
  BY <1>3 DEF QueueTypes, StandingMandated
<1>13. ApplyPolicy(o).preds = mandated[i] \ Declared[i]
  BY <1>2 DEF ApplyPolicy
<1>14. StandingCarried'
  <2> SUFFICES ASSUME NEW m \in DOMAIN queue', queue'[m].age = "ok", queue'[m].added.applied
               PROVE  standing'[queue'[m].id] \ Declared[queue'[m].id] \subseteq queue'[m].added.preds
    BY DEF StandingCarried
  <2>1. ASSUME NEW n \in DOMAIN queue, queue'[m] = queue[n]
        PROVE  standing'[queue'[m].id] \ Declared[queue'[m].id] \subseteq queue'[m].added.preds
    <3>1. queue[n].id \in Range(R) /\ queue[n].id \in Intents
      BY <1>1, <2>1
    <3>2. standing'[queue[n].id] = standing[queue[n].id]
      BY <1>12, <3>1
    <3> QED BY <2>1, <3>2 DEF StandingCarried
  <2>2. CASE i \notin Range(R) /\ queue'[m].id = i /\ queue'[m].added = ApplyPolicy(o)
    BY <1>12, <1>13, <2>2
  <2> QED BY <1>7, <2>1, <2>2
<1>15. disowned' \in SUBSET Intents /\ DisownedSettled'
  <2>1. PICK ids : ids = IF i \in Range(R) THEN {} ELSE {i}
    OBVIOUS
  <2>2. Disown(ids) /\ disowned \in SUBSET Intents
    BY <1>3, <2>1 DEF QueueTypes
  <2>3. \A j \in disowned \ ids : /\ records'[j].state \notin ValidatableStates
                                  /\ records'[j].outcome = "EXECUTE" => records'[j].class = "stop"
    <3> TAKE j \in disowned \ ids
    <3>1. j \in Intents /\ ~(j = i /\ i \notin Range(R))
      BY <2>1, <2>2
    <3>2. records'[j] = records[j] \/ records'[j] = Absent
      BY <1>7, <3>1
    <3> QED BY <3>2 DEF DisownedSettled, Absent, ValidatableStates
  <2> QED BY <1>8, <2>2, <2>3, DisownKeeps
<1>16. QueueTypes'
  BY <1>1, <1>3, <1>4, <1>5, <1>7, <1>12, <1>15 DEF QueueTypes, RuntimeTypeOK
<1>17. PolicyStep
  <2> SUFFICES ASSUME NEW j \in Intents, records'[j].state = "AUTHORIZED",
                      records'[j].class = "other", records[j].state # "AUTHORIZED"
               PROVE  Declared[j] \cup standing'[j] \subseteq holds'
    BY DEF PolicyStep
  <2>1. j = i /\ i \notin Range(R)
    BY <1>7 DEF Absent
  <2> QED BY <1>3, <1>6, <1>12, <1>13, <2>1
<1> QED BY <1>5, <1>8, <1>9, <1>10, <1>11, <1>12, <1>14, <1>15, <1>16, <1>17

\* process_next
LEMMA ProcessKeeps ==
  ASSUME QueueInv, ProcessNext
  PROVE  QueueInv' /\ PolicyStep
<1> USE DEF QueueInv
<1>1. PICK q : q = queue /\ q \in Seq(Object) /\ q # <<>>
  BY DEF QueueTypes, ProcessNext
<1> DEFINE rest == Tail(q)
<1>2. PICK o : o = Head(q) /\ o \in Object
  BY <1>1, TailKeeps
<1>3. /\ rest \in Seq(Object)
      /\ \E n \in DOMAIN queue : o = queue[n]
      /\ \A m \in DOMAIN rest : \E n \in DOMAIN queue : rest[m] = queue[n]
      /\ \A n \in DOMAIN queue : queue[n] = o \/ \E m \in DOMAIN rest : rest[m] = queue[n]
  BY <1>1, <1>2, TailKeeps
<1>4. PICK i \in Intents : i = o.id
  BY <1>2 DEF Object
<1> DEFINE base == [records EXCEPT ![i] = Found(records, i)]
<1>5. /\ base \in [Intents -> Record] /\ base[i] = Found(records, i) /\ Consistent(base[i])
      /\ \A j \in Intents \ {i} : base[j] = records[j]
      /\ base[i].state # "ABSENT"
      /\ records[i].state # "ABSENT" => base[i] = records[i]
      /\ records[i].state = "ABSENT" => base[i].state \in ValidatableStates
  <2>1. Found(records, i) \in Record /\ Consistent(Found(records, i)) /\ Created(i).state = "CREATED"
    BY StartsWellFormed
  <2>2. records \in [Intents -> Record]
    BY DEF QueueTypes, RuntimeTypeOK
  <2> QED BY <2>1, <2>2 DEF Found, ValidatableStates
<1>6. /\ Take(o, base, rest, Pass(o, base[i], contextVersion, holds, FALSE))
      /\ Disown({})
      /\ UNCHANGED <<seen, contextVersion, stopClass, mandated, holds, lapses, standing>>
  BY <1>1, <1>2, <1>4, <1>5 DEF ProcessNext
<1> HIDE DEF rest, base
<1>7. /\ records' \in [Intents -> Record] /\ queue' \in Seq(Object)
      /\ activeTargets' \in SUBSET Targets
      /\ \A j \in Intents \ {i} : records'[j] = base[j]
      /\ Consistent(records'[i])
      /\ \A m \in DOMAIN queue' :
           \/ \E n \in DOMAIN rest : queue'[m] = rest[n]
           \/ queue'[m].id = i /\ queue'[m].age = o.age /\ queue'[m].added = ApplyPolicy(o)
      /\ \A n \in DOMAIN rest : \E m \in DOMAIN queue' : queue'[m] = rest[n]
      /\ records'[i].state \in ValidatableStates => \E m \in DOMAIN queue' : queue'[m].id = i
      /\ \/ base[i].state \notin ValidatableStates /\ records'[i] = base[i]
         \/ records'[i].class = "stop"
         \/ records'[i].state \in {"REVOKED", "EXPIRED"}
         \/ o.age = "ok"
      /\ \/ base[i].state \notin ValidatableStates /\ records'[i] = base[i]
         \/ records'[i].state # "AUTHORIZED"
         \/ records'[i].class = "stop"
         \/ Declared[i] \cup ApplyPolicy(o).preds \subseteq holds
      /\ records'[i].state # "ABSENT"
  <2>1. QueueTypes /\ contextVersion \in Versions /\ holds \in SUBSET Predicates /\ FALSE \in BOOLEAN
    BY DEF QueueTypes, RuntimeTypeOK
  <2>2. Consistent(base[o.id]) /\ Take(o, base, rest, Pass(o, base[o.id], contextVersion, holds, FALSE))
    BY <1>4, <1>5, <1>6
  <2>3. /\ records' \in [Intents -> Record] /\ queue' \in Seq(Object)
        /\ activeTargets' \in SUBSET Targets
        /\ \A j \in Intents \ {o.id} : records'[j] = base[j]
        /\ Consistent(records'[o.id])
        /\ \A m \in DOMAIN queue' :
             \/ \E n \in DOMAIN rest : queue'[m] = rest[n]
             \/ queue'[m].id = o.id /\ queue'[m].age = o.age /\ queue'[m].added = ApplyPolicy(o)
        /\ \A n \in DOMAIN rest : \E m \in DOMAIN queue' : queue'[m] = rest[n]
        /\ records'[o.id].state \in ValidatableStates
             => \E m \in DOMAIN queue' : queue'[m].id = o.id
        /\ \/ base[o.id].state \notin ValidatableStates /\ records'[o.id] = base[o.id]
           \/ records'[o.id].class = "stop"
           \/ records'[o.id].state \in {"REVOKED", "EXPIRED"}
           \/ o.age = "ok"
        /\ \/ base[o.id].state \notin ValidatableStates /\ records'[o.id] = base[o.id]
           \/ records'[o.id].state # "AUTHORIZED"
           \/ records'[o.id].class = "stop"
           \/ Declared[o.id] \cup ApplyPolicy(o).preds \subseteq holds
        /\ records'[o.id].state # "ABSENT" \/ records'[o.id] = base[o.id]
    BY <1>2, <1>3, <1>5, <2>1, <2>2, TakeLeaves
  <2> QED BY <1>4, <1>5, <2>3
<1>8. /\ o.age = "ok" => i \in Range(seen)
      /\ o.age = "ok" => standing[i] \ Declared[i] \subseteq ApplyPolicy(o).preds
  <2>1. PICK n \in DOMAIN queue : o = queue[n]
    BY <1>3
  <2>2. o.age = "ok" => i \in Range(seen)
    BY <1>4, <2>1 DEF WindowsRetained
  <2>3. o.age = "ok" /\ o.added.applied => standing[o.id] \ Declared[o.id] \subseteq o.added.preds
    BY <2>1 DEF StandingCarried
  <2>4. standing[o.id] \subseteq mandated[o.id]
    BY <1>4 DEF StandingMandated
  <2>5. o.added.applied \in BOOLEAN
    BY <1>2 DEF Object, AddedOf
  <2>6. o.age = "ok" => standing[o.id] \ Declared[o.id] \subseteq ApplyPolicy(o).preds
    BY <2>3, <2>4, <2>5, StandingApplied
  <2> QED BY <1>4, <2>2, <2>6
<1>9. ReportsMatchState'
  BY <1>5, <1>7 DEF ReportsMatchState
<1>10. NoneStranded'
  <2> SUFFICES ASSUME NEW j \in Intents, records'[j].state \in ValidatableStates
               PROVE  \E m \in DOMAIN queue' : queue'[m].id = j
    BY DEF NoneStranded, Queued
  <2>1. CASE j = i
    BY <1>7, <2>1
  <2>2. CASE j # i
    <3>1. records'[j] = records[j]
      BY <1>5, <1>7, <2>2
    <3>2. PICK n \in DOMAIN queue : queue[n].id = j
      BY <3>1 DEF NoneStranded, Queued
    <3>3. PICK l \in DOMAIN rest : rest[l] = queue[n]
      BY <1>3, <1>4, <2>2, <3>2
    <3>4. PICK m \in DOMAIN queue' : queue'[m] = rest[l]
      BY <1>7
    <3> QED BY <3>2, <3>3, <3>4
  <2> QED BY <2>1, <2>2
<1>11. SeenOnce'
  BY <1>6 DEF SeenOnce
<1>12. SeenKept'
  <2>1. \A j \in Range(seen) : j \in Intents
    BY LenProperties, ElementOfSeq DEF Range, QueueTypes, RuntimeTypeOK
  <2>2. seen' = seen
    BY <1>6
  <2> QED BY <1>5, <1>7, <2>1, <2>2 DEF SeenKept
<1>13. WindowsRetained'
  <2> SUFFICES ASSUME NEW m \in DOMAIN queue', queue'[m].age = "ok"
               PROVE  queue'[m].id \in Range(seen)
    BY <1>6 DEF WindowsRetained
  <2>1. CASE queue'[m].id = i /\ queue'[m].age = o.age
    BY <1>8, <2>1
  <2>2. ASSUME NEW l \in DOMAIN rest, queue'[m] = rest[l] PROVE queue'[m].id \in Range(seen)
    <3>1. PICK n \in DOMAIN queue : rest[l] = queue[n]
      BY <1>3
    <3> QED BY <2>2, <3>1 DEF WindowsRetained
  <2> QED BY <1>7, <2>1, <2>2
<1>14. StandingMandated'
  BY <1>6 DEF StandingMandated
<1>15. StandingCarried'
  <2> SUFFICES ASSUME NEW m \in DOMAIN queue', queue'[m].age = "ok", queue'[m].added.applied
               PROVE  standing[queue'[m].id] \ Declared[queue'[m].id] \subseteq queue'[m].added.preds
    BY <1>6 DEF StandingCarried
  <2>1. CASE queue'[m].id = i /\ queue'[m].age = o.age /\ queue'[m].added = ApplyPolicy(o)
    BY <1>8, <2>1
  <2>2. ASSUME NEW l \in DOMAIN rest, queue'[m] = rest[l]
        PROVE  standing[queue'[m].id] \ Declared[queue'[m].id] \subseteq queue'[m].added.preds
    <3>1. PICK n \in DOMAIN queue : rest[l] = queue[n]
      BY <1>3
    <3> QED BY <2>2, <3>1 DEF StandingCarried
  <2> QED BY <1>7, <2>1, <2>2
<1>16. disowned' \in SUBSET Intents /\ DisownedSettled'
  <2>1. PICK ids : ids = {}
    OBVIOUS
  <2>2. Disown(ids) /\ disowned \in SUBSET Intents
    BY <1>6, <2>1 DEF QueueTypes
  <2>3. \A j \in disowned \ ids : /\ records'[j].state \notin ValidatableStates
                                  /\ records'[j].outcome = "EXECUTE" => records'[j].class = "stop"
    <3> TAKE j \in disowned \ ids
    <3>1. j \in Intents /\ j \in disowned
      BY <2>2
    <3>2. /\ records[j].state \notin ValidatableStates
          /\ records[j].outcome = "EXECUTE" => records[j].class = "stop"
      BY <3>1 DEF DisownedSettled
    <3>3. CASE j # i
      <4>1. records'[j] = records[j]
        BY <1>5, <1>7, <3>1, <3>3
      <4> QED BY <3>2, <4>1
    <3>4. CASE j = i /\ records[i].state # "ABSENT"
      <4>1. base[i] = records[i] /\ base[i].state \notin ValidatableStates
        BY <1>5, <3>2, <3>4
      <4>2. Validates(base[i]) = FALSE
        BY <4>1 DEF Validates
      <4>3. records'[i] = base[i]
        <5>1. Pass(o, base[i], contextVersion, holds, FALSE) = [record |-> base[i], back |-> <<>>]
          BY <4>2 DEF Pass
        <5>2. PICK pass : /\ pass = [record |-> base[i], back |-> <<>>]
                          /\ Take(o, base, rest, pass)
          BY <1>6, <5>1
        <5>3. records' = [base EXCEPT ![o.id] = pass.record] /\ pass.record = base[i]
          BY <5>2 DEF Take
        <5> QED BY <1>4, <1>5, <5>3
      <4> QED BY <3>2, <3>4, <4>1, <4>3
    <3>5. CASE j = i /\ records[i].state = "ABSENT"
      <4>1. o.age # "ok" /\ base[i].state \in ValidatableStates
        BY <1>5, <1>8, <3>5 DEF SeenKept
      <4>2. records'[i].class = "stop" \/ records'[i].state \in {"REVOKED", "EXPIRED"}
        BY <1>7, <4>1
      <4>3. CASE records'[i].state \in {"REVOKED", "EXPIRED"}
        BY <1>7, <3>5, <4>3 DEF Consistent, ValidatableStates
      <4>4. CASE records'[i].class = "stop" /\ records'[i].state \notin {"REVOKED", "EXPIRED"}
        <5>1. records'[i].state \notin ValidatableStates
          <6>1. Validates(base[i])
            BY <4>1 DEF Validates
          <6> DEFINE p == Pass(o, base[i], contextVersion, holds, FALSE)
          <6>2. records'[i] = p.record
            BY <1>4, <1>5, <1>6 DEF Take
          <6>3. CASE i \in stopClass
            <7>1. p.record = [AuthorizeStop(base[i]) EXCEPT !.contextVersion = contextVersion]
              BY <1>4, <6>1, <6>3 DEF Pass
            <7> HIDE DEF p
            <7>2. p.record.state = "AUTHORIZED"
              BY <1>5, <7>1 DEF AuthorizeStop, Record
            <7> QED BY <6>2, <7>2 DEF ValidatableStates
          <6>4. CASE i \notin stopClass
            <7>1. PICK r, outcome, c : p.record = Validated(r, outcome, c) /\ r = [base[i] EXCEPT !.policy = o.policy]
              BY <1>4, <6>1, <6>4 DEF Pass
            <7> HIDE DEF p
            <7>2. r \in Record
              BY <1>2, <1>5, <7>1 DEF Record, Object
            <7>3. p.record.class = "other"
              BY <7>1, <7>2 DEF Validated, Record
            <7> QED BY <4>4, <6>2, <7>3
          <6> QED BY <6>3, <6>4
        <5> QED BY <3>5, <4>4, <5>1
      <4> QED BY <4>2, <4>3, <4>4
    <3> QED BY <3>3, <3>4, <3>5
  <2> QED BY <1>9, <2>2, <2>3, DisownKeeps
<1>17. QueueTypes'
  BY <1>6, <1>7, <1>16 DEF QueueTypes, RuntimeTypeOK
<1>18. PolicyStep
  <2> SUFFICES ASSUME NEW j \in Intents, records'[j].state = "AUTHORIZED",
                      records'[j].class = "other", records[j].state # "AUTHORIZED"
               PROVE  Declared[j] \cup standing[j] \subseteq holds
    BY <1>6 DEF PolicyStep
  <2>1. j = i
    BY <1>5, <1>7
  <2>2. ~(base[i].state \notin ValidatableStates /\ records'[i] = base[i])
    BY <1>5, <2>1
  <2>3. Declared[i] \cup ApplyPolicy(o).preds \subseteq holds
    BY <1>7, <2>1, <2>2
  <2>4. o.age = "ok"
    BY <1>7, <2>1, <2>2
  <2> QED BY <1>8, <2>1, <2>3, <2>4
<1> QED BY <1>9, <1>10, <1>11, <1>12, <1>13, <1>14, <1>15, <1>16, <1>17, <1>18

\* set_policy: what it stops mandating no longer stands.
LEMMA PolicyKeeps ==
  ASSUME QueueInv, NEW S \in StopPolicies, NEW m \in Mandates, InstallPolicy(S, m)
  PROVE  QueueInv' /\ PolicyStep
<1> USE DEF QueueInv
<1>1. m \in [Intents -> SUBSET Predicates]
  BY QueueAssumption
<1>2. /\ stopClass' = S /\ UNCHANGED <<records, seen, activeTargets, contextVersion>>
      /\ mandated' = m /\ standing' = [i \in Intents |-> standing[i] \cap m[i]]
      /\ UNCHANGED <<queue, holds, lapses, disowned>>
  BY DEF InstallPolicy, SetPolicy
<1>3. QueueTypes'
  BY <1>1, <1>2 DEF QueueTypes, RuntimeTypeOK
<1>4. ReportsMatchState' /\ NoneStranded' /\ SeenOnce' /\ SeenKept' /\ WindowsRetained' /\ DisownedSettled'
  BY <1>2 DEF ReportsMatchState, NoneStranded, Queued, SeenOnce, SeenKept, WindowsRetained, DisownedSettled
<1>5. StandingMandated'
  BY <1>2 DEF StandingMandated
<1>6. \A n \in DOMAIN queue : queue[n].id \in Intents
  <2>1. queue \in Seq(Object)
    BY DEF QueueTypes
  <2>2. DOMAIN queue = 1..Len(queue)
    BY <2>1, LenProperties
  <2>3. \A n \in DOMAIN queue : queue[n] \in Object
    BY <2>1, <2>2, ElementOfSeq
  <2> QED BY <2>3 DEF Object
<1>7. \A i \in Intents : standing'[i] \subseteq standing[i]
  BY <1>2
<1>8. StandingCarried'
  <2> SUFFICES ASSUME NEW n \in DOMAIN queue, queue[n].age = "ok", queue[n].added.applied
               PROVE  standing'[queue[n].id] \ Declared[queue[n].id] \subseteq queue[n].added.preds
    BY <1>2 DEF StandingCarried
  <2>1. standing[queue[n].id] \ Declared[queue[n].id] \subseteq queue[n].added.preds
    BY DEF StandingCarried
  <2> QED BY <1>6, <1>7, <2>1
<1>9. PolicyStep
  BY <1>2 DEF PolicyStep
<1> QED BY <1>3, <1>4, <1>5, <1>8, <1>9

\* install_context_snapshot and update_context
LEMMA ContextKeeps ==
  ASSUME QueueInv, NEW v \in Versions, NEW H \in SUBSET Predicates, InstallContext(v, H)
  PROVE  QueueInv' /\ PolicyStep
<1> USE DEF QueueInv
<1>1. /\ contextVersion' = (IF v < contextVersion THEN contextVersion ELSE v)
      /\ holds' = (IF v < contextVersion THEN holds ELSE H)
      /\ UNCHANGED <<records, seen, activeTargets, stopClass, queue, mandated, lapses, standing, disowned>>
  BY DEF InstallContext, InstallSnapshot
<1>2. QueueTypes'
  BY <1>1 DEF QueueTypes, RuntimeTypeOK
<1>3. ReportsMatchState' /\ NoneStranded' /\ SeenOnce' /\ SeenKept' /\ WindowsRetained' /\ DisownedSettled'
  BY <1>1 DEF ReportsMatchState, NoneStranded, Queued, SeenOnce, SeenKept, WindowsRetained, DisownedSettled
<1>4. StandingMandated' /\ StandingCarried'
  BY <1>1 DEF StandingMandated, StandingCarried
<1>5. PolicyStep
  BY <1>1 DEF PolicyStep
<1> QED BY <1>2, <1>3, <1>4, <1>5

\* A window closes.
LEMMA ElapseKeeps ==
  ASSUME QueueInv, NEW n \in DOMAIN queue, NEW age \in {"obsolete", "deadline"}, Elapse(n, age)
  PROVE  QueueInv' /\ PolicyStep
<1> USE DEF QueueInv
<1>1. /\ queue' = [queue EXCEPT ![n].age = age]
      /\ UNCHANGED <<records, seen, activeTargets, contextVersion, stopClass>>
      /\ UNCHANGED <<mandated, holds, lapses, standing, disowned>>
  BY DEF Elapse, runtimeVars
<1>2. queue \in Seq(Object) /\ n \in 1..Len(queue) /\ queue[n] \in Object
  BY LenProperties, ElementOfSeq DEF QueueTypes
<1>3. PICK x : x = [queue[n] EXCEPT !.age = age]
  OBVIOUS
<1>4. x \in Object /\ x.id = queue[n].id /\ x.age # "ok"
  BY <1>2, <1>3 DEF Object, Ages
<1>5. queue' = [queue EXCEPT ![n] = x]
  BY <1>1, <1>3
<1>6. queue' \in Seq(Object)
  BY <1>2, <1>4, <1>5, ExceptSeq
<1>7. DOMAIN queue' = DOMAIN queue /\ queue'[n] = x /\ \A m \in DOMAIN queue : m # n => queue'[m] = queue[m]
  BY <1>5
<1>8. QueueTypes'
  BY <1>1, <1>6 DEF QueueTypes, RuntimeTypeOK
<1>9. ReportsMatchState' /\ SeenOnce' /\ SeenKept' /\ StandingMandated' /\ DisownedSettled'
  BY <1>1 DEF ReportsMatchState, SeenOnce, SeenKept, StandingMandated, DisownedSettled
<1>10. NoneStranded'
  <2>1. \A m \in DOMAIN queue : queue'[m].id = queue[m].id
    BY <1>4, <1>7
  <2> QED BY <1>1, <1>7, <2>1 DEF NoneStranded, Queued
<1>11. WindowsRetained'
  BY <1>1, <1>4, <1>7 DEF WindowsRetained
<1>12. StandingCarried'
  BY <1>1, <1>4, <1>7 DEF StandingCarried
<1>13. PolicyStep
  BY <1>1 DEF PolicyStep
<1> QED BY <1>8, <1>9, <1>10, <1>11, <1>12, <1>13

\* A report or a revoke changes no record that waits for a validation into
\* another that does, and authorizes nothing.
LEMMA ReportKeeps ==
  ASSUME QueueInv, NEW i \in Intents, Report(i)
  PROVE  QueueInv' /\ PolicyStep
<1> USE DEF QueueInv
<1>1. /\ UNCHANGED <<seen, contextVersion, stopClass>>
      /\ UNCHANGED <<queue, mandated, holds, lapses, standing>>
      /\ Disown({})
  BY DEF Report, RecordCommit, ReportRelease, ReportEffect, SupervisoryRevoke
<1>2. RuntimeNext
  <2>1. 0 \in Versions /\ NoSeq \in {NoSeq} \cup LogPositions
    BY RuntimeAssumption DEF Versions
  <2>2. ASSUME NEW committed \in BOOLEAN, RecordCommit(i, committed, NoSeq) PROVE RuntimeNext
    BY <2>1, <2>2 DEF RuntimeNext
  <2>3. ASSUME NEW released \in BOOLEAN, ReportRelease(i, released, "none", 0) PROVE RuntimeNext
    BY <2>1, <2>3 DEF RuntimeNext
  <2>4. ASSUME NEW status \in Reported, ReportEffect(i, status) PROVE RuntimeNext
    BY <2>4, QueueAssumption DEF RuntimeNext
  <2>5. ASSUME SupervisoryRevoke(i) PROVE RuntimeNext
    BY <2>5 DEF RuntimeNext
  <2> QED BY <2>2, <2>3, <2>4, <2>5 DEF Report
<1>3. RuntimeTypeOK'
  BY <1>2, TypeStep DEF QueueTypes
<1>4. ReportsMatchState'
  BY <1>2, StepChanges, ChangeConsistent DEF ReportsMatchState, QueueTypes, RuntimeTypeOK
<1>5. records \in [Intents -> Record]
  BY DEF QueueTypes, RuntimeTypeOK
<1>6. /\ \A j \in Intents \ {i} : records'[j] = records[j]
      /\ \/ records'[i] = records[i]
         \/ /\ records[i].state \in {"AUTHORIZED", "COMMITTED", "RELEASED", "UNKNOWN_EFFECT"}
            /\ records'[i].outcome = records[i].outcome /\ records'[i].class = records[i].class
            /\ records'[i].state \in {"COMMITTED", "WITHHELD", "RELEASED", "EFFECT_CONFIRMED",
                                      "FAILED", "UNKNOWN_EFFECT"}
         \/ /\ records[i].state # "ABSENT"
            /\ records'[i].state = "REVOKED" /\ records'[i].outcome = "REVOKE"
  <2>1. ASSUME NEW committed \in BOOLEAN, RecordCommit(i, committed, NoSeq)
        PROVE  /\ \A j \in Intents \ {i} : records'[j] = records[j]
               /\ \/ records'[i] = records[i]
                  \/ /\ records[i].state = "AUTHORIZED"
                     /\ records'[i].outcome = records[i].outcome /\ records'[i].class = records[i].class
                     /\ records'[i].state \in {"COMMITTED", "WITHHELD"}
    <3>1. \/ records' = records
          \/ /\ records[i].state = "AUTHORIZED"
             /\ records' \in {[records EXCEPT ![i] = Committed(records[i], NoSeq)],
                              [records EXCEPT ![i] = Withheld(records[i])]}
      BY <2>1 DEF RecordCommit
    <3>2. /\ Committed(records[i], NoSeq).state = "COMMITTED" /\ Withheld(records[i]).state = "WITHHELD"
          /\ \A q \in {Committed(records[i], NoSeq), Withheld(records[i])} :
               q.outcome = records[i].outcome /\ q.class = records[i].class
      BY <1>5 DEF Committed, Withheld, Record
    <3> QED BY <1>5, <3>1, <3>2
  <2>2. ASSUME NEW released \in BOOLEAN, ReportRelease(i, released, "none", 0)
        PROVE  /\ \A j \in Intents \ {i} : records'[j] = records[j]
               /\ \/ records'[i] = records[i]
                  \/ /\ records[i].state \in {"AUTHORIZED", "COMMITTED"}
                     /\ records'[i].outcome = records[i].outcome /\ records'[i].class = records[i].class
                     /\ records'[i].state \in {"WITHHELD", "RELEASED"}
    <3>1. \/ records' = records
          \/ /\ records[i].state \in {"AUTHORIZED", "COMMITTED"}
             /\ records' \in {[records EXCEPT ![i] = Released(records[i])],
                              [records EXCEPT ![i] = Withheld(records[i])]}
      BY <2>2 DEF ReportRelease, TakesReport
    <3>2. /\ Released(records[i]).state = "RELEASED" /\ Withheld(records[i]).state = "WITHHELD"
          /\ \A q \in {Released(records[i]), Withheld(records[i])} :
               q.outcome = records[i].outcome /\ q.class = records[i].class
      BY <1>5 DEF Released, Withheld, Record
    <3> QED BY <1>5, <3>1, <3>2
  <2>3. ASSUME NEW status \in Reported, ReportEffect(i, status)
        PROVE  /\ \A j \in Intents \ {i} : records'[j] = records[j]
               /\ \/ records'[i] = records[i]
                  \/ /\ records[i].state \in {"RELEASED", "UNKNOWN_EFFECT"}
                     /\ records'[i].outcome = records[i].outcome /\ records'[i].class = records[i].class
                     /\ records'[i].state \in {"EFFECT_CONFIRMED", "FAILED", "UNKNOWN_EFFECT"}
    <3>1. EffectState(status) \in {"EFFECT_CONFIRMED", "FAILED", "UNKNOWN_EFFECT"}
      BY DEF EffectState
    <3>2. EffectState(status) \in Allowed(records[i].state)
            => records[i].state \in {"RELEASED", "UNKNOWN_EFFECT"}
      BY <3>1 DEF Allowed
    <3> HIDE DEF EffectState
    <3> QED BY <1>5, <2>3, <3>1, <3>2 DEF ReportEffect, Effected, Record
  <2>4. ASSUME SupervisoryRevoke(i)
        PROVE  /\ \A j \in Intents \ {i} : records'[j] = records[j]
               /\ \/ records'[i] = records[i]
                  \/ /\ records[i].state # "ABSENT"
                     /\ records'[i].state = "REVOKED" /\ records'[i].outcome = "REVOKE"
    <3>1. "REVOKED" \in Allowed(records[i].state) => records[i].state # "ABSENT"
      BY DEF Allowed
    <3> QED BY <1>5, <2>4, <3>1 DEF SupervisoryRevoke, Revoked, Record
  <2> QED BY <2>1, <2>2, <2>3, <2>4 DEF Report
<1>7. NoneStranded'
  BY <1>1, <1>6 DEF NoneStranded, Queued, ValidatableStates
<1>8. SeenOnce' /\ WindowsRetained' /\ StandingMandated' /\ StandingCarried'
  BY <1>1 DEF SeenOnce, WindowsRetained, StandingMandated, StandingCarried
<1>9. SeenKept'
  <2>1. \A j \in Range(seen) : j \in Intents
    BY LenProperties, ElementOfSeq DEF Range, QueueTypes, RuntimeTypeOK
  <2> QED BY <1>1, <1>6, <2>1 DEF SeenKept
<1>10. disowned' \in SUBSET Intents /\ DisownedSettled'
  <2>1. PICK ids : ids = {}
    OBVIOUS
  <2>2. Disown(ids) /\ disowned \in SUBSET Intents
    BY <1>1, <2>1 DEF QueueTypes
  <2>3. \A j \in disowned \ ids : /\ records'[j].state \notin ValidatableStates
                                  /\ records'[j].outcome = "EXECUTE" => records'[j].class = "stop"
    <3> TAKE j \in disowned \ ids
    <3>1. j \in Intents /\ /\ records[j].state \notin ValidatableStates
                           /\ records[j].outcome = "EXECUTE" => records[j].class = "stop"
      BY <2>2 DEF DisownedSettled
    <3> QED BY <1>6, <3>1 DEF ValidatableStates
  <2> QED BY <1>4, <2>2, <2>3, DisownKeeps
<1>11. QueueTypes'
  BY <1>1, <1>3, <1>10 DEF QueueTypes
<1>12. PolicyStep
  BY <1>6 DEF PolicyStep
<1> QED BY <1>4, <1>7, <1>8, <1>9, <1>10, <1>11, <1>12

\* Every step keeps the invariant and is one PolicyHeld allows.
LEMMA QueueInvStep == QueueInv /\ QueueNext => QueueInv' /\ PolicyStep
<1> SUFFICES ASSUME QueueInv, QueueNext PROVE QueueInv' /\ PolicyStep
  OBVIOUS
<1>1. CASE \E i \in Intents, k \in Lapses : SubmitIntent(i, k)
  BY <1>1, SubmitKeeps
<1>2. CASE \E i \in Intents, k \in Lapses, v \in Versions, H \in SUBSET Predicates :
             SubmitAndProcess(i, k, v, H)
  BY <1>2, SubmitProcessKeeps
<1>3. CASE ProcessNext
  BY <1>3, ProcessKeeps
<1>4. CASE \E S \in StopPolicies, m \in Mandates : InstallPolicy(S, m)
  BY <1>4, PolicyKeeps
<1>5. CASE \E v \in Versions, H \in SUBSET Predicates : InstallContext(v, H)
  BY <1>5, ContextKeeps
<1>6. CASE \E n \in DOMAIN queue, age \in {"obsolete", "deadline"} : Elapse(n, age)
  BY <1>6, ElapseKeeps
<1>7. CASE \E i \in Intents : Report(i)
  BY <1>7, ReportKeeps
<1> QED BY <1>1, <1>2, <1>3, <1>4, <1>5, <1>6, <1>7 DEF QueueNext

\* A step that changes no variable keeps it too.
LEMMA QueueInvStutter == QueueInv /\ UNCHANGED vars => QueueInv'
<1> SUFFICES ASSUME QueueInv, UNCHANGED vars PROVE QueueInv'
  OBVIOUS
<1>1. /\ UNCHANGED <<records, seen, activeTargets, contextVersion, stopClass>>
      /\ UNCHANGED <<queue, mandated, holds, lapses, standing, disowned>>
  BY DEF vars, runtimeVars, queueVars
<1> QED BY <1>1 DEF QueueInv, QueueTypes, RuntimeTypeOK, ReportsMatchState, NoneStranded, Queued,
             SeenOnce, SeenKept, WindowsRetained, StandingMandated, StandingCarried, DisownedSettled

-----------------------------------------------------------------------------
(* The theorems *)

\* The invariant holds in every reachable state.
LEMMA QueueInvariant == QueueSpec => []QueueInv
<1>1. QueueInv /\ [QueueNext]_vars => QueueInv'
  BY QueueInvStep, QueueInvStutter
<1> QED BY QueueInvInit, <1>1, PTL DEF QueueSpec

\* Every variable of the runtime, its queue and its policy keeps its type.
THEOREM QueueTypeCorrect == QueueSpec => []QueueTypeOK
<1>1. QueueInv => QueueTypeOK
  <2> SUFFICES ASSUME QueueInv PROVE QueueTypeOK
    OBVIOUS
  <2>1. queue \in Seq(Object)
    BY DEF QueueInv, QueueTypes
  <2>2. DOMAIN queue = 1..Len(queue)
    BY <2>1, LenProperties
  <2>3. \A n \in DOMAIN queue : queue[n] \in Object
    BY <2>1, <2>2, ElementOfSeq
  <2> QED BY <2>3 DEF QueueInv, QueueTypes, QueueTypeOK, Object, AddedOf, Ages
<1> QED BY QueueInvariant, <1>1, PTL

\* The items of every record agree, whatever passes, requeues, reports and
\* revokes do to it.
THEOREM QueueReportsAgree == QueueSpec => []ReportsMatchState
<1>1. QueueInv => ReportsMatchState
  BY DEF QueueInv
<1> QED BY QueueInvariant, <1>1, PTL

\* Every record that waits for a validation has an object on the queue.
THEOREM QueueNoneStranded == QueueSpec => []NoneStranded
<1>1. QueueInv => NoneStranded
  BY DEF QueueInv
<1> QED BY QueueInvariant, <1>1, PTL

\* A revoked or expired intent stays unauthorized until it is submitted again.
THEOREM QueueRevokedStays == QueueSpec => []RevokedStays
<1>1. QueueInv => RevokedStays
  BY DEF QueueInv, DisownedSettled, RevokedStays
<1> QED BY QueueInvariant, <1>1, PTL

\* No pass authorizes an intent without what every policy since its submission
\* mandates.
THEOREM QueuePolicyHeld == QueueSpec => PolicyHeld
<1>1. QueueInv /\ [QueueNext]_vars => [PolicyStep]_vars
  BY QueueInvStep
<1> QED BY QueueInvariant, <1>1, PTL DEF QueueSpec, PolicyHeld, PolicyStep

=============================================================================
