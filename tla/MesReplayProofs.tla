--------------------------- MODULE MesReplayProofs ---------------------------
(***************************************************************************)
(* Proofs about MesReplay, for any machines, logs, gates and decisions and *)
(* any pace of the replay against them: the timeline built from a log says *)
(* what the log says, the replay loses no change of it, and the labels and *)
(* the paired summary are sound.                                           *)
(***************************************************************************)
EXTENDS MesReplay, FiniteSetTheorems, TLAPS

-----------------------------------------------------------------------------
(* Greatest and least elements *)

\* A nonempty set of naturals has a least element, and Min is it.
LEMMA LeastNatural ==
  ASSUME NEW S \in SUBSET Nat, S # {}
  PROVE  Min(S) \in S /\ \A x \in S : Min(S) <= x
<1>1. PICK m \in S : \A y \in S : ~(<<y, m>> \in OpToRel(<, Nat))
  BY NatLessThanWellFounded, WFMin
<1>2. \A y \in S : ~(y < m)
  BY <1>1 DEF OpToRel
<1>3. \A y \in S : y \in Nat
  OBVIOUS
<1>4. \A y \in S : m <= y
  BY <1>2, <1>3
<1> QED BY <1>4 DEF Min

\* A nonempty bounded set of naturals has a greatest element, and Max is it.
LEMMA GreatestNatural ==
  ASSUME NEW n \in Nat, NEW S \in SUBSET (0..n), S # {}
  PROVE  Max(S) \in S /\ \A x \in S : x <= Max(S)
<1> DEFINE T == {n - x : x \in S}
<1>1. T \in SUBSET Nat /\ T # {}
  <2>1. \A x \in S : x \in Int /\ 0 <= x /\ x <= n
    OBVIOUS
  <2>2. \A x \in S : n - x \in Nat
    BY <2>1
  <2> QED BY <2>2
<1>2. \A y : y \in T <=> \E x \in S : y = n - x
  OBVIOUS
<1> HIDE DEF T
<1>3. Min(T) \in T /\ \A y \in T : Min(T) <= y
  BY <1>1, LeastNatural
<1>4. PICK m \in S : Min(T) = n - m
  BY <1>2, <1>3
<1>5. \A x \in S : m >= x
  BY <1>2, <1>3, <1>4
<1> QED BY <1>5 DEF Max

-----------------------------------------------------------------------------
(* The state of a machine *)

\* the steps of a machine, as a log has them
Steps == {s \in SUBSET Step : IsFiniteSet(s)}

\* a step is under way at t
UnderWay(x, t) == x.start <= t /\ t < x.end

\* Starts less ends up to t is positive exactly while a step is under way,
\* however steps overlap, touch or have no length.
LEMMA ActiveCount ==
  ASSUME NEW steps \in Steps, NEW t \in Int
  PROVE  /\ Active(steps, t) \in Int
         /\ Active(steps, t) <= 0 <=> \A x \in steps : ~UnderWay(x, t)
<1> DEFINE S == {x \in steps : x.start <= t}
           E == {x \in steps : x.end <= t}
<1>1. IsFiniteSet(steps) /\ steps \subseteq Step
  BY DEF Steps
<1>2. \A x \in steps : x.start \in Int /\ x.end \in Int /\ x.start <= x.end
  BY <1>1, TraceAssumption DEF Step, Instants
<1>3. S \in SUBSET steps /\ E \in SUBSET S
  BY <1>2
<1>4. \A x : x \in S \ E <=> x \in steps /\ UnderWay(x, t)
  BY <1>2 DEF UnderWay
<1>5. Active(steps, t) = Cardinality(S) - Cardinality(E)
  BY DEF Active
<1> HIDE DEF S, E
<1>6. IsFiniteSet(S)
  BY <1>1, <1>3, FS_Subset
<1>7. /\ IsFiniteSet(E)
      /\ Cardinality(E) <= Cardinality(S)
      /\ Cardinality(S) = Cardinality(E) => S = E
  BY <1>3, <1>6, FS_Subset
<1>8. Cardinality(S) \in Nat /\ Cardinality(E) \in Nat
  BY <1>6, <1>7, FS_CardinalityType
<1>9. Active(steps, t) <= 0 <=> S = E
  BY <1>5, <1>7, <1>8
<1>10. S = E <=> \A x \in steps : ~UnderWay(x, t)
  BY <1>3, <1>4
<1> QED BY <1>5, <1>8, <1>9, <1>10

\* The state at t by counting boundaries is that of the steps under way.
LEMMA LevelFacts ==
  ASSUME NEW steps \in Steps, NEW t \in Int
  PROVE  Level(steps, t) = IF \A x \in steps : ~UnderWay(x, t) THEN "IDLE"
                           ELSE IF \E x \in steps : x.kind = "S" /\ UnderWay(x, t) THEN "SETUP"
                           ELSE "BUSY"
<1> DEFINE setups == {x \in steps : x.kind = "S"}
<1>1. setups \in SUBSET steps /\ IsFiniteSet(steps) /\ steps \subseteq Step
  BY DEF Steps
<1>2. setups \in Steps
  BY <1>1, FS_Subset DEF Steps
<1>3. (\A x \in setups : ~UnderWay(x, t)) <=> ~\E x \in steps : x.kind = "S" /\ UnderWay(x, t)
  OBVIOUS
<1>4. Level(steps, t) = IF Active(steps, t) <= 0 THEN "IDLE"
                        ELSE IF Active(setups, t) > 0 THEN "SETUP" ELSE "BUSY"
  BY DEF Level
<1> HIDE DEF setups
<1>5. /\ Active(steps, t) <= 0 <=> \A x \in steps : ~UnderWay(x, t)
      /\ Active(setups, t) \in Int
      /\ Active(setups, t) <= 0 <=> \A x \in setups : ~UnderWay(x, t)
  BY <1>2, ActiveCount
<1> QED BY <1>3, <1>4, <1>5

\* Between two boundaries the state stays.
LEMMA LevelStays ==
  ASSUME NEW steps \in Steps, NEW s \in Int, NEW t \in Int, s <= t,
         \A u \in Boundaries(steps) : u <= s \/ t < u
  PROVE  Level(steps, s) = Level(steps, t)
<1>1. \A x \in steps : /\ x.start \in Int /\ x.end \in Int
                       /\ x.start \in Boundaries(steps) /\ x.end \in Boundaries(steps)
  BY TraceAssumption DEF Steps, Step, Instants, Boundaries
<1>2. \A x \in steps : UnderWay(x, s) <=> UnderWay(x, t)
  BY <1>1 DEF UnderWay
<1> QED BY <1>2, LevelFacts

\* Before the first boundary a machine is IDLE.
LEMMA LevelBefore ==
  ASSUME NEW steps \in Steps, NEW t \in Int, \A u \in Boundaries(steps) : t < u
  PROVE  Level(steps, t) = "IDLE"
<1>1. \A x \in steps : x.start \in Int /\ x.start \in Boundaries(steps)
  BY TraceAssumption DEF Steps, Step, Instants, Boundaries
<1>2. \A x \in steps : ~UnderWay(x, t)
  BY <1>1 DEF UnderWay
<1> QED BY <1>2, LevelFacts

\* The state before a boundary is that of the instant before it.
LEMMA BeforeIsLevel ==
  ASSUME NEW steps \in Steps, NEW t \in Instants
  PROVE  Before(steps, t) = Level(steps, t - 1)
<1> DEFINE earlier == {u \in Boundaries(steps) : u < t}
<1>1. Boundaries(steps) \subseteq Instants /\ MaxTrace \in Nat
  BY TraceAssumption DEF Steps, Step, Boundaries
<1>2. earlier \in SUBSET (0..MaxTrace)
  BY <1>1 DEF Instants
<1>3. \A u \in Boundaries(steps) : u \in Int /\ (u \in earlier <=> u <= t - 1)
  BY <1>1 DEF Instants
<1>4. Before(steps, t) = IF earlier = {} THEN "IDLE" ELSE Level(steps, Max(earlier))
  BY DEF Before
<1>5. t \in Int
  BY <1>1 DEF Instants
<1>6. earlier \subseteq Boundaries(steps)
  OBVIOUS
<1> HIDE DEF earlier
<1>7. CASE earlier = {}
  <2>1. \A u \in Boundaries(steps) : t - 1 < u
    BY <1>3, <1>5, <1>7
  <2> QED BY <1>4, <1>5, <1>7, <2>1, LevelBefore
<1>8. CASE earlier # {}
  <2>1. Max(earlier) \in earlier /\ \A x \in earlier : x <= Max(earlier)
    BY <1>1, <1>2, <1>8, GreatestNatural
  <2>2. Max(earlier) \in Int /\ Max(earlier) <= t - 1
    BY <1>3, <1>6, <2>1
  <2>3. \A u \in Boundaries(steps) : u <= Max(earlier) \/ t - 1 < u
    BY <1>3, <1>5, <2>1
  <2>4. Level(steps, Max(earlier)) = Level(steps, t - 1)
    BY <1>5, <2>2, <2>3, LevelStays
  <2> QED BY <1>4, <1>8, <2>4
<1> QED BY <1>7, <1>8

-----------------------------------------------------------------------------
(* The timeline of a log *)

LogOK == log \in [Machines -> Steps]

\* The changes of a machine are the instants at which its state is another one
\* than at the instant before, with the new state.
LEMMA ChangeTimes ==
  ASSUME LogOK, NEW m \in Machines
  PROVE  /\ \A c \in changes(m) :
              /\ c.time \in Instants
              /\ c.state = Level(log[m], c.time)
              /\ c.state # Level(log[m], c.time - 1)
         /\ \A t \in Instants : Level(log[m], t) # Level(log[m], t - 1) =>
              [time |-> t, state |-> Level(log[m], t)] \in changes(m)
<1> DEFINE steps == log[m]
<1>1. steps \in Steps
  BY DEF LogOK
<1>2. changes(m) = {[time |-> t, state |-> Level(steps, t)] :
                      t \in {u \in Boundaries(steps) : Level(steps, u) # Before(steps, u)}}
  BY DEF changes
<1> HIDE DEF steps
<1>3. Boundaries(steps) \subseteq Instants /\ MaxTrace \in Nat
  BY <1>1, TraceAssumption DEF Steps, Step, Boundaries
<1>4. \A t \in Boundaries(steps) : Before(steps, t) = Level(steps, t - 1)
  BY <1>1, <1>3, BeforeIsLevel
<1>5. \A c \in changes(m) : /\ c.time \in Instants
                            /\ c.state = Level(steps, c.time)
                            /\ c.state # Level(steps, c.time - 1)
  BY <1>2, <1>3, <1>4
<1>6. ASSUME NEW t \in Instants, Level(steps, t) # Level(steps, t - 1)
      PROVE  [time |-> t, state |-> Level(steps, t)] \in changes(m)
  <2>1. t \in Int /\ \A u \in Boundaries(steps) : u \in Int
    BY <1>3 DEF Instants
  <2>2. CASE t \notin Boundaries(steps)
    <3>1. \A u \in Boundaries(steps) : u <= t - 1 \/ t < u
      BY <2>1, <2>2
    <3>2. Level(steps, t - 1) = Level(steps, t)
      BY <1>1, <2>1, <3>1, LevelStays
    <3> QED BY <1>6, <3>2
  <2>3. CASE t \in Boundaries(steps)
    BY <1>2, <1>4, <1>6, <2>3
  <2> QED BY <2>2, <2>3
<1> QED BY <1>5, <1>6 DEF steps

\* The state at t is that of the last change up to then.
LEMMA StateOfLast ==
  ASSUME LogOK, NEW m \in Machines, NEW t \in Int, NEW c \in changes(m), c.time <= t,
         \A b \in changes(m) : b.time <= t => b.time <= c.time
  PROVE  state(m, t) = c.state
<1> DEFINE past == {b \in changes(m) : b.time <= t}
           last == CHOOSE d \in past : \A b \in past : b.time <= d.time
<1>1. c \in past /\ \A b \in past : b.time <= c.time
  OBVIOUS
<1>2. past # {} /\ state(m, t) = last.state
  BY <1>1 DEF state
<1>3. last \in past /\ \A b \in past : b.time <= last.time
  BY <1>1
<1>4. past \subseteq changes(m)
  OBVIOUS
<1> HIDE DEF past, last
<1>5. last.time \in Int /\ c.time \in Int
  BY <1>3, <1>4, ChangeTimes, TraceAssumption DEF Instants
<1>6. last.time = c.time
  BY <1>1, <1>3, <1>5
<1>7. last.state = Level(log[m], last.time) /\ c.state = Level(log[m], c.time)
  BY <1>3, <1>4, ChangeTimes
<1> QED BY <1>2, <1>6, <1>7

\* A machine is IDLE before its first change.
LEMMA StateBefore ==
  ASSUME NEW m \in Machines, NEW t \in Int, \A b \in changes(m) : ~(b.time <= t)
  PROVE  state(m, t) = "IDLE"
BY DEF state

\* Between two changes the state stays.
LEMMA StateStays ==
  ASSUME LogOK, NEW m \in Machines, NEW s \in Int, NEW t \in Int, s <= t,
         \A b \in changes(m) : b.time <= s \/ t < b.time
  PROVE  state(m, s) = state(m, t)
<1>1. \A b \in changes(m) : b.time \in Int
  BY ChangeTimes, TraceAssumption DEF Instants
<1>2. {b \in changes(m) : b.time <= s} = {b \in changes(m) : b.time <= t}
  BY <1>1
<1> DEFINE Of(past) == IF past = {} THEN "IDLE"
                       ELSE (CHOOSE c \in past : \A b \in past : b.time <= c.time).state
<1>3. \A u : state(m, u) = Of({b \in changes(m) : b.time <= u})
  BY DEF state
<1> HIDE DEF Of
<1> QED BY <1>2, <1>3

\* The step function gives, at every instant, the state by counting boundaries.
LEMMA StateIsLevel ==
  ASSUME LogOK, NEW m \in Machines
  PROVE  \A t \in Instants : state(m, t) = Level(log[m], t)
<1> DEFINE Wrong == {t \in Instants : state(m, t) # Level(log[m], t)}
<1> SUFFICES ASSUME Wrong # {} PROVE FALSE
  OBVIOUS
<1>1. Wrong \in SUBSET Nat /\ MaxTrace \in Nat
  BY TraceAssumption DEF Instants
<1> DEFINE t == Min(Wrong)
<1>2. t \in Wrong /\ \A u \in Wrong : t <= u
  <2> HIDE DEF Wrong
  <2> QED BY <1>1, LeastNatural
<1> HIDE DEF t
<1>3. t \in Instants /\ t \in Nat /\ state(m, t) # Level(log[m], t)
  BY <1>2 DEF Instants
<1>4. log[m] \in Steps
  BY DEF LogOK
<1>5. \A b \in changes(m) : /\ b.time \in Int
                            /\ b.state = Level(log[m], b.time)
                            /\ b.state # Level(log[m], b.time - 1)
  BY ChangeTimes, TraceAssumption DEF Instants
<1>6. CASE Level(log[m], t) # Level(log[m], t - 1)
  <2> DEFINE c == [time |-> t, state |-> Level(log[m], t)]
  <2>1. c \in changes(m)
    BY <1>3, <1>6, ChangeTimes
  <2>2. c.time = t /\ c.state = Level(log[m], t)
    OBVIOUS
  <2> HIDE DEF c
  <2>3. state(m, t) = c.state
    BY <1>3, <2>1, <2>2, StateOfLast
  <2> QED BY <1>3, <2>2, <2>3
<1>7. CASE Level(log[m], t) = Level(log[m], t - 1)
  <2>1. \A b \in changes(m) : b.time # t
    BY <1>5, <1>7
  <2>2. CASE t = 0
    <3>1. \A b \in changes(m) : b.time \in Instants
      BY ChangeTimes
    <3>2. \A b \in changes(m) : ~(b.time <= 0)
      BY <1>5, <2>1, <2>2, <3>1 DEF Instants
    <3>3. state(m, 0) = "IDLE"
      BY <3>2, StateBefore
    <3>4. \A u \in Boundaries(log[m]) : -1 < u
      BY <1>4, TraceAssumption DEF Steps, Step, Boundaries, Instants
    <3>5. Level(log[m], -1) = "IDLE"
      BY <1>4, <3>4, LevelBefore
    <3> QED BY <1>3, <1>7, <2>2, <3>3, <3>5
  <2>3. CASE t # 0
    <3>1. t - 1 \in Int /\ t - 1 \in Instants /\ t - 1 \notin Wrong
      BY <1>1, <1>2, <1>3, <2>3 DEF Instants
    <3>2. \A b \in changes(m) : b.time <= t - 1 \/ t < b.time
      BY <1>3, <1>5, <2>1
    <3>3. state(m, t - 1) = state(m, t)
      BY <1>3, <3>1, <3>2, StateStays
    <3>4. state(m, t - 1) = Level(log[m], t - 1)
      BY <3>1
    <3> QED BY <1>3, <1>7, <3>3, <3>4
  <2> QED BY <2>2, <2>3
<1> QED BY <1>6, <1>7

\* The step function agrees with the log.
LEMMA StateAgrees ==
  ASSUME LogOK, NEW m \in Machines, NEW t \in Instants
  PROVE  state(m, t) = StateAt[m][t]
<1> DEFINE active == {x \in log[m] : x.start <= t /\ t < x.end}
<1>1. log[m] \in Steps /\ t \in Int
  BY TraceAssumption DEF LogOK, Instants
<1>2. /\ active = {} <=> \A x \in log[m] : ~UnderWay(x, t)
      /\ (\E x \in active : x.kind = "S") <=> \E x \in log[m] : x.kind = "S" /\ UnderWay(x, t)
  BY DEF UnderWay
<1>3. StateAt[m][t] = IF active = {} THEN "IDLE"
                      ELSE IF \E x \in active : x.kind = "S" THEN "SETUP" ELSE "BUSY"
  BY DEF StateAt
<1> HIDE DEF active
<1>4. state(m, t) = Level(log[m], t)
  BY StateIsLevel
<1> QED BY <1>1, <1>2, <1>3, <1>4, LevelFacts

\* The next change is the first later instant with another state.
LEMMA NextAgrees ==
  ASSUME LogOK, NEW m \in Machines, NEW t \in Instants
  PROVE  next_change(m, t) = Min({Forever} \cup {u \in (t + 1)..MaxTrace : state(m, u) # state(m, t)})
<1> DEFINE C == {Forever} \cup {c.time : c \in {b \in changes(m) : b.time > t}}
           U == {Forever} \cup {u \in (t + 1)..MaxTrace : state(m, u) # state(m, t)}
<1>1. MaxTrace \in Nat /\ t \in Nat /\ t <= MaxTrace /\ Forever \in Nat /\ Forever = MaxTrace + 1
  BY TraceAssumption DEF Instants, Forever
<1>2. \A c \in changes(m) : /\ c.time \in Nat /\ c.time <= MaxTrace
                            /\ c.state = Level(log[m], c.time)
                            /\ c.state # Level(log[m], c.time - 1)
  BY <1>1, ChangeTimes DEF Instants
<1>3. C \in SUBSET Nat /\ C # {} /\ U \in SUBSET Nat /\ U # {}
  BY <1>1, <1>2
<1>4. next_change(m, t) = Min(C)
  BY DEF next_change, Following
<1>5. /\ \A u : u \in C <=> u = Forever \/ \E c \in changes(m) : c.time > t /\ u = c.time
      /\ \A u : u \in U <=> u = Forever \/ (u \in (t + 1)..MaxTrace /\ state(m, u) # state(m, t))
  OBVIOUS
<1> HIDE DEF C, U
<1> DEFINE n == Min(C)
<1>6. n \in C /\ \A x \in C : n <= x
  BY <1>3, LeastNatural
<1>7. Min(U) \in U /\ \A x \in U : Min(U) <= x
  BY <1>3, LeastNatural
<1> HIDE DEF n
<1>8. n \in Nat /\ t < n /\ n <= Forever
  BY <1>1, <1>2, <1>5, <1>6
<1>9. ASSUME NEW u \in Int, t <= u, u < n
      PROVE  state(m, u) = state(m, t)
  <2>1. \A b \in changes(m) : b.time <= t \/ u < b.time
    BY <1>1, <1>2, <1>5, <1>6, <1>8, <1>9
  <2> QED BY <1>1, <1>9, <2>1, StateStays
<1>10. n \in U
  <2>1. CASE n = Forever
    BY <1>5, <2>1
  <2>2. CASE n # Forever
    <3>1. PICK c \in changes(m) : c.time > t /\ n = c.time
      BY <1>5, <1>6, <2>2
    <3>2. n \in (t + 1)..MaxTrace /\ n \in Instants /\ n - 1 \in Instants
      BY <1>1, <1>2, <3>1 DEF Instants
    <3>3. state(m, n) = Level(log[m], n) /\ state(m, n - 1) = Level(log[m], n - 1)
      BY <3>2, StateIsLevel
    <3>4. state(m, n - 1) = state(m, t)
      BY <1>1, <1>8, <1>9
    <3> QED BY <1>2, <1>5, <3>1, <3>2, <3>3, <3>4
  <2> QED BY <2>1, <2>2
<1>11. \A u \in U : n <= u
  BY <1>1, <1>5, <1>8, <1>9
<1>12. n = Min(U)
  <2>1. Min(U) \in Nat
    BY <1>3, <1>7
  <2>2. Min(U) <= n /\ n <= Min(U)
    BY <1>7, <1>10, <1>11
  <2> QED BY <1>8, <2>1, <2>2
<1> QED BY <1>4, <1>12 DEF n, U

-----------------------------------------------------------------------------
(* The inductive invariant *)

Event == [time: Instants, machine: Machines, state: States]
Write == [a: Nat, b: Nat, machine: Machines, state: States]
Post == [pc: {"none", "sent", "applied", "dead"}, at: Nat]
Row ==
  [pc: {"waiting", "passed", "answered", "row"}, released: BOOLEAN, ref: Nat, truth: States,
   whole: BOOLEAN, obsolete: BOOLEAN, ambiguous: BOOLEAN]

TypesOK ==
  /\ LogOK
  /\ phase \in {"log", "live"}
  /\ todo \in Seq(Event)
  /\ t_from \in Instants
  /\ init \in [Machines -> States] /\ snapshot \in [Machines -> States]
  /\ post \in Post
  /\ written \in Seq(Write)
  /\ wall \in Nat
  /\ machine \in [Decisions -> Machines \cup {NoMachine}]
  /\ sub \in [Decisions -> [Gates -> Row]]

\* nothing happens live before the log is read, and a POST is of the first event
\* left
StagesOK ==
  /\ phase = "log" => /\ todo = <<>> /\ written = <<>> /\ post = NoPost /\ snapshot = init
                      /\ \A d \in Decisions : machine[d] = NoMachine
  /\ \A d \in Decisions, g \in Gates : sub[d][g].pc # "waiting" => machine[d] \in Machines
  /\ IF post.pc = "none" THEN post = NoPost ELSE todo # <<>>

\* the events left are changes of the log, in order, and none is left out
TodoOK ==
  /\ \A n \in DOMAIN todo :
       /\ t_from <= todo[n].time
       /\ \E c \in changes(todo[n].machine) : c.time = todo[n].time /\ c.state = todo[n].state
       /\ \A c \in changes(todo[n].machine) : todo[n].time <= c.time =>
            \E k \in DOMAIN todo : todo[k].machine = todo[n].machine /\ todo[k].time = c.time
  /\ \A j, k \in DOMAIN todo : j < k =>
       /\ todo[j].time <= todo[k].time
       /\ todo[j].machine = todo[k].machine => todo[j].time # todo[k].time

\* what the snapshot holds for m until the event k, its next one, or for good
Ahead(m) == {k \in DOMAIN todo : todo[k].machine = m}
Follows(m) ==
  /\ Ahead(m) = {} => snapshot[m] = state(m, MaxTrace)
  /\ \A k \in Ahead(m) : (\A j \in Ahead(m) : k <= j) =>
       snapshot[m] = IF todo[k].time = t_from THEN init[m] ELSE state(m, todo[k].time - 1)
FollowOK ==
  phase = "live" =>
    /\ post.pc \in {"none", "sent"} => \A m \in Machines : Follows(m)
    /\ post.pc = "applied" =>
         /\ snapshot[todo[1].machine] = todo[1].state
         /\ \A m \in Machines : m # todo[1].machine => Follows(m)

\* a POST that may have been applied and is not on record, of the state s of m
InFlight(m, s) == post.pc \in {"applied", "dead"} /\ todo[1].machine = m /\ todo[1].state = s

\* stamps are in the past, a POST is sent when those before it are on record, and
\* the snapshot holds what is on record or in flight
RecordOK ==
  /\ post.at <= wall
  /\ post.pc # "none" => \A n \in DOMAIN written : written[n].a <= post.at /\ written[n].b <= post.at
  /\ \A n \in DOMAIN written : written[n].a <= wall /\ written[n].b <= wall
  /\ \A m \in Machines : snapshot[m] = LastOf(m, Writes(m)) \/ InFlight(m, snapshot[m])

\* the state an answer is about is one that the record gives for its instant, or
\* that of a POST that was in flight then and still is
Explained(m, x) ==
  LET ws == written_state(m, x.ref)
  IN x.truth \in {ws.done, ws.started} \/ (post.at <= x.ref /\ InFlight(m, x.truth))
AnswersOK ==
  \A d \in Decisions, g \in Gates :
    sub[d][g].pc = "answered" /\ sub[d][g].ref # 0 =>
      sub[d][g].ref <= wall /\ Explained(machine[d], sub[d][g])

MesInv ==
  TypesOK /\ StagesOK /\ TodoOK /\ FollowOK /\ RecordOK /\ AnswersOK /\ LabelSound

-----------------------------------------------------------------------------
(* The log and its events *)

\* A state is one of the three.
LEMMA StateTypes ==
  ASSUME LogOK, NEW m \in Machines
  PROVE  /\ \A t \in Int : Level(log[m], t) \in States
         /\ \A t \in Instants : state(m, t) \in States
<1>1. log[m] \in Steps
  BY DEF LogOK
<1>2. \A t \in Int : Level(log[m], t) \in States
  BY <1>1, LevelFacts DEF States
<1>3. \A t \in Instants : t \in Int
  BY TraceAssumption DEF Instants
<1> QED BY <1>2, <1>3, StateIsLevel

\* The timeline depends on the log only.
LEMMA TimelineStays ==
  ASSUME log' = log
  PROVE  \A m : changes(m)' = changes(m) /\ \A t : state(m, t)' = state(m, t)
<1>1. \A m : changes(m)' = changes(m)
  BY DEF changes
<1> DEFINE Of(past) == IF past = {} THEN "IDLE"
                       ELSE (CHOOSE c \in past : \A b \in past : b.time <= c.time).state
<1>2. \A m, t : /\ state(m, t) = Of({b \in changes(m) : b.time <= t})
                /\ state(m, t)' = Of({b \in changes(m)' : b.time <= t})
  BY DEF state
<1> HIDE DEF Of
<1> QED BY <1>1, <1>2

\* The events of a period, in any of their orders, are the changes in it of all
\* machines, each once and in time order.
LEMMA EventsFacts ==
  ASSUME LogOK, NEW from \in Instants, NEW es \in events(from, MaxTrace + 1)
  PROVE  /\ es \in Seq(Event)
         /\ \A n \in DOMAIN es :
              /\ from <= es[n].time
              /\ \E c \in changes(es[n].machine) : c.time = es[n].time /\ c.state = es[n].state
         /\ \A m \in Machines : \A c \in changes(m) : from <= c.time =>
              \E k \in DOMAIN es : es[k].machine = m /\ es[k].time = c.time
         /\ \A j, k \in DOMAIN es : j < k =>
              /\ es[j].time <= es[k].time
              /\ es[j].machine = es[k].machine => es[j].time # es[k].time
<1> DEFINE Of(m) == {[time |-> c.time, machine |-> m, state |-> c.state] :
                       c \in Between(m, from, MaxTrace + 1)}
           all == UNION {Of(m) : m \in Machines}
           D == 1..Cardinality(all)
<1>1. /\ es \in [D -> all]
      /\ \A i, j \in D : i # j => es[i] # es[j]
      /\ \A j, k \in DOMAIN es : j < k => es[j].time <= es[k].time
  BY DEF events, SetToSeqs
<1>2. MaxTrace \in Nat
  BY TraceAssumption
<1>3. \A m \in Machines : \A c \in changes(m) :
        /\ c.time \in Instants /\ c.time < MaxTrace + 1
        /\ c.state = Level(log[m], c.time) /\ c.state \in States
  BY <1>2, ChangeTimes, StateTypes DEF Instants
<1>4. ASSUME NEW e \in all
      PROVE  /\ e \in Event /\ from <= e.time
             /\ \E c \in changes(e.machine) : c.time = e.time /\ c.state = e.state
             /\ e.state = Level(log[e.machine], e.time)
  <2>1. PICK m \in Machines : e \in Of(m)
    OBVIOUS
  <2>2. PICK c \in changes(m) : /\ from <= c.time
                                /\ e = [time |-> c.time, machine |-> m, state |-> c.state]
    BY <2>1 DEF Between
  <2>3. e.time = c.time /\ e.machine = m /\ e.state = c.state
    BY <2>2
  <2> QED BY <1>3, <2>2, <2>3 DEF Event
<1>5. ASSUME NEW m \in Machines, NEW c \in changes(m), from <= c.time
      PROVE  \E e \in all : e.machine = m /\ e.time = c.time
  <2>1. c \in Between(m, from, MaxTrace + 1)
    BY <1>3, <1>5 DEF Between
  <2>2. [time |-> c.time, machine |-> m, state |-> c.state] \in all
    BY <2>1
  <2> QED BY <2>2
<1> HIDE DEF all
<1>6. IsFiniteSet(all)
  <2> DEFINE f == [e \in all |-> <<e.machine, e.time>>]
  <2>1. IsFiniteSet(Instants)
    BY <1>2, FS_Interval DEF Instants
  <2>2. IsFiniteSet(Machines \X Instants)
    BY <2>1, TraceAssumption, FS_Product
  <2>3. f \in [all -> Machines \X Instants]
    BY <1>4 DEF Event
  <2>4. ASSUME NEW e1 \in all, NEW e2 \in all, f[e1] = f[e2]
        PROVE  e1 = e2
    <3>1. e1.machine = e2.machine /\ e1.time = e2.time
      BY <2>4
    <3>2. e1 \in Event /\ e2 \in Event /\ e1.state = e2.state
      BY <1>4, <3>1
    <3> QED BY <3>1, <3>2 DEF Event
  <2>5. f \in Injection(all, Machines \X Instants)
    BY <2>3, <2>4 DEF Injection, IsInjective
  <2> QED BY <2>2, <2>5, FS_Injection
<1>7. Cardinality(all) \in Nat
  BY <1>6, FS_CardinalityType
<1>8. \A e \in all : \E k \in D : es[k] = e
  <2>1. es \in Injection(D, all)
    BY <1>1 DEF Injection, IsInjective
  <2>2. Cardinality(D) = Cardinality(all)
    BY <1>7, FS_Interval
  <2>3. es \in Surjection(D, all)
    BY <1>6, <2>1, <2>2, FS_Injection
  <2> QED BY <2>3 DEF Surjection
<1>9. es \in Seq(Event) /\ DOMAIN es = D
  <2>1. es \in [D -> Event]
    BY <1>1, <1>4
  <2> QED BY <1>7, <2>1
<1>10. ASSUME NEW j \in DOMAIN es, NEW k \in DOMAIN es, j < k, es[j].machine = es[k].machine
       PROVE  es[j].time # es[k].time
  <2>1. es[j] \in all /\ es[k] \in all /\ es[j] # es[k]
    BY <1>1, <1>7, <1>9, <1>10
  <2>2. /\ es[j] \in Event /\ es[j].state = Level(log[es[j].machine], es[j].time)
        /\ es[k] \in Event /\ es[k].state = Level(log[es[k].machine], es[k].time)
    BY <1>4, <2>1
  <2> QED BY <1>10, <2>1, <2>2 DEF Event
<1>11. \A n \in DOMAIN es : es[n] \in all
  BY <1>1, <1>9
<1>12. \A m \in Machines : \A c \in changes(m) : from <= c.time =>
         \E k \in DOMAIN es : es[k].machine = m /\ es[k].time = c.time
  BY <1>5, <1>8, <1>9
<1>13. \A n \in DOMAIN es :
         /\ from <= es[n].time
         /\ \E c \in changes(es[n].machine) : c.time = es[n].time /\ c.state = es[n].state
  BY <1>4, <1>11
<1> QED BY <1>1, <1>9, <1>10, <1>12, <1>13

-----------------------------------------------------------------------------
(* The record of the writes *)

\* One write more: it is the last of its machine, and nothing else moves.
LEMMA RecordGrows ==
  ASSUME TypesOK, NEW w \in Write, written' = Append(written, w), init' = init,
         NEW m \in Machines, NEW n \in Nat, n = Len(written) + 1
  PROVE  /\ written'[n] = w /\ \A k \in Writes(m) : written'[k] = written[k]
         /\ Writes(m)' = IF w.machine = m THEN Writes(m) \cup {n} ELSE Writes(m)
         /\ n \notin Writes(m)
         /\ \A ws \in SUBSET Writes(m) : LastOf(m, ws)' = LastOf(m, ws)
         /\ \A ws \in SUBSET Writes(m) : LastOf(m, ws \cup {n})' = w.state
<1>1. written \in Seq(Write) /\ Len(written) \in Nat /\ DOMAIN written = 1..Len(written)
  BY DEF TypesOK
<1>2. /\ DOMAIN written' = 1..n
      /\ \A k \in 1..Len(written) : written'[k] = written[k]
      /\ written'[n] = w
  BY <1>1
<1>3. Writes(m)' = {k \in DOMAIN written' : written'[k].machine = m}
  BY DEF Writes
<1>4. Writes(m)' = IF w.machine = m THEN Writes(m) \cup {n} ELSE Writes(m)
  BY <1>1, <1>2, <1>3 DEF Writes
<1>5. ASSUME NEW ws \in SUBSET Writes(m)
      PROVE  /\ LastOf(m, ws)' = LastOf(m, ws)
             /\ LastOf(m, ws \cup {n})' = w.state
  <2> DEFINE vs == ws \cup {n}
  <2>1. ws \subseteq 1..Len(written)
    BY <1>1 DEF Writes
  <2>2. ws # {} => Max(ws) \in ws
    <3>1. ws \in SUBSET (0..Len(written))
      BY <1>1, <2>1
    <3> QED BY <1>1, <3>1, GreatestNatural
  <2>3. LastOf(m, ws)' = LastOf(m, ws)
    BY <1>2, <2>1, <2>2 DEF LastOf
  <2>4. Max(vs) = n
    <3>1. \A k \in vs : k \in Int /\ 0 <= k /\ k <= n
      BY <1>1, <2>1
    <3>2. n \in vs
      OBVIOUS
    <3> HIDE DEF vs
    <3>3. vs \in SUBSET (0..n)
      BY <3>1
    <3>4. Max(vs) \in vs /\ n <= Max(vs)
      BY <3>2, <3>3, GreatestNatural
    <3>5. Max(vs) \in Int /\ Max(vs) <= n
      BY <3>1, <3>4
    <3> QED BY <3>4, <3>5
  <2>5. vs # {} /\ LastOf(m, vs)' = written'[Max(vs)].state
    BY DEF LastOf
  <2> QED BY <1>2, <2>3, <2>4, <2>5
<1>6. n \notin Writes(m) /\ \A k \in Writes(m) : written'[k] = written[k]
  BY <1>1, <1>2 DEF Writes
<1> QED BY <1>2, <1>4, <1>5, <1>6

\* Without a write the record gives the same states.
LEMMA RecordStays ==
  ASSUME written' = written, init' = init
  PROVE  /\ \A m, ws : LastOf(m, ws)' = LastOf(m, ws)
         /\ \A m : Writes(m)' = Writes(m)
         /\ \A m, t : written_state(m, t)' = written_state(m, t)
BY DEF LastOf, Writes, written_state

-----------------------------------------------------------------------------
(* Steps *)

\* Initially nothing is read, sent or asked.
LEMMA MesInit == Init => MesInv
<1> SUFFICES ASSUME Init PROVE MesInv
  OBVIOUS
<1>1. LogOK
  BY FS_EmptySet DEF Init, LogOK, Steps
<1>2. Waiting \in Row
  BY DEF Waiting, Row, States
<1>3. 0 \in Instants /\ post = NoPost /\ NoPost \in Post
  BY TraceAssumption DEF Init, Instants, NoPost, Post
<1>4. TypesOK
  BY <1>1, <1>2, <1>3 DEF Init, TypesOK, States
<1>5. \A d \in Decisions, g \in Gates : sub[d][g].pc = "waiting"
  BY DEF Init, Waiting
<1>6. post.pc = "none" /\ post.at = 0
  BY <1>3 DEF NoPost
<1>7. StagesOK /\ TodoOK /\ FollowOK
  BY <1>3, <1>5, <1>6 DEF Init, StagesOK, TodoOK, FollowOK
<1>8. \A m \in Machines : Writes(m) = {}
  BY DEF Init, Writes
<1>9. RecordOK
  BY <1>6, <1>8 DEF Init, RecordOK, LastOf
<1>10. AnswersOK /\ LabelSound
  BY <1>5 DEF AnswersOK, LabelSound
<1> QED BY <1>4, <1>7, <1>9, <1>10 DEF MesInv

\* A row of the log is read.
LEMMA ReadRowStep ==
  ASSUME MesInv, NEW m \in Machines, NEW x \in Step, ReadRow(m, x)
  PROVE  MesInv'
<1>1. TypesOK /\ StagesOK /\ RecordOK /\ AnswersOK /\ LabelSound /\ phase = "log"
  BY DEF MesInv, ReadRow
<1>2. /\ phase' = phase /\ todo' = todo /\ t_from' = t_from /\ init' = init /\ snapshot' = snapshot
      /\ post' = post /\ written' = written /\ wall' = wall /\ machine' = machine /\ sub' = sub
  BY DEF ReadRow, replayVars
<1>3. LogOK'
  <2>1. log[m] \in Steps /\ log \in [Machines -> Steps]
    BY <1>1 DEF TypesOK, LogOK
  <2>2. log[m] \cup {x} \in Steps
    BY <2>1, FS_AddElement DEF Steps
  <2>3. log' = [log EXCEPT ![m] = log[m] \cup {x}]
    BY DEF ReadRow
  <2> QED BY <2>1, <2>2, <2>3 DEF LogOK
<1>4. TypesOK' /\ StagesOK'
  BY <1>1, <1>2, <1>3 DEF TypesOK, StagesOK
<1>5. TodoOK' /\ FollowOK'
  BY <1>1, <1>2 DEF StagesOK, TodoOK, FollowOK
<1>6. RecordOK'
  BY <1>1, <1>2, RecordStays DEF RecordOK, InFlight
<1>7. AnswersOK' /\ LabelSound'
  BY <1>1, <1>2, RecordStays DEF AnswersOK, Explained, InFlight, LabelSound
<1> QED BY <1>4, <1>5, <1>6, <1>7 DEF MesInv

\* The replay starts anywhere in the log.
LEMMA StartStep ==
  ASSUME MesInv, NEW from \in Instants, Start(from)
  PROVE  MesInv'
<1>1. TypesOK /\ StagesOK /\ RecordOK /\ LabelSound /\ phase = "log"
  BY DEF MesInv, Start
<1>2. /\ phase' = "live" /\ t_from' = from
      /\ init' = [m \in Machines |-> state(m, from)] /\ snapshot' = init'
      /\ todo' \in events(from, MaxTrace + 1)
      /\ log' = log /\ post' = post /\ written' = written /\ wall' = wall
      /\ machine' = machine /\ sub' = sub
  BY DEF Start
<1>3. LogOK /\ LogOK'
  BY <1>1, <1>2 DEF TypesOK, LogOK
<1>4. \A m : changes(m)' = changes(m) /\ \A t : state(m, t)' = state(m, t)
  BY <1>2, TimelineStays
<1>5. /\ todo' \in Seq(Event)
      /\ \A n \in DOMAIN todo' :
           /\ from <= todo'[n].time
           /\ \E c \in changes(todo'[n].machine) : c.time = todo'[n].time /\ c.state = todo'[n].state
      /\ \A m \in Machines : \A c \in changes(m) : from <= c.time =>
           \E k \in DOMAIN todo' : todo'[k].machine = m /\ todo'[k].time = c.time
      /\ \A j, k \in DOMAIN todo' : j < k =>
           /\ todo'[j].time <= todo'[k].time
           /\ todo'[j].machine = todo'[k].machine => todo'[j].time # todo'[k].time
  <2>1. \A es \in events(from, MaxTrace + 1) :
          /\ es \in Seq(Event)
          /\ \A n \in DOMAIN es :
               /\ from <= es[n].time
               /\ \E c \in changes(es[n].machine) : c.time = es[n].time /\ c.state = es[n].state
          /\ \A m \in Machines : \A c \in changes(m) : from <= c.time =>
               \E k \in DOMAIN es : es[k].machine = m /\ es[k].time = c.time
          /\ \A j, k \in DOMAIN es : j < k =>
               /\ es[j].time <= es[k].time
               /\ es[j].machine = es[k].machine => es[j].time # es[k].time
    BY <1>3, EventsFacts
  <2> QED BY <1>2, <2>1
<1>6. init' \in [Machines -> States]
  BY <1>2, <1>3, StateTypes
<1>7. TypesOK'
  BY <1>1, <1>2, <1>3, <1>5, <1>6 DEF TypesOK
<1>8. post = NoPost /\ written = <<>> /\ \A d \in Decisions : machine[d] = NoMachine
  BY <1>1 DEF StagesOK
<1>9. post.pc = "none"
  BY <1>8 DEF NoPost
<1>10. StagesOK'
  BY <1>1, <1>2, <1>8, <1>9 DEF StagesOK
<1>11. \A n \in DOMAIN todo' : todo'[n] \in Event
  BY <1>5
<1>12. \A n \in DOMAIN todo' : /\ todo'[n].time \in Instants /\ todo'[n].time \in Int
                               /\ todo'[n].machine \in Machines
  BY <1>11, TraceAssumption DEF Event, Instants
<1>13. \A m \in Machines : \A c \in changes(m) : c.time \in Instants /\ c.time \in Int
  BY <1>3, ChangeTimes, TraceAssumption DEF Instants
<1>14. from \in Int /\ MaxTrace \in Int /\ from <= MaxTrace
  BY TraceAssumption DEF Instants
<1>15. TodoOK'
  <2>1. ASSUME NEW n \in DOMAIN todo', NEW c \in changes(todo'[n].machine), todo'[n].time <= c.time
        PROVE  \E k \in DOMAIN todo' : todo'[k].machine = todo'[n].machine /\ todo'[k].time = c.time
    BY <1>5, <1>12, <1>13, <1>14, <2>1
  <2> QED BY <1>2, <1>4, <1>5, <2>1 DEF TodoOK
<1>16. ASSUME NEW m \in Machines
       PROVE  Follows(m)'
  <2>1. snapshot'[m] = state(m, from) /\ init'[m] = state(m, from)
    BY <1>2
  <2>2. ASSUME Ahead(m)' = {}
        PROVE  snapshot'[m] = state(m, MaxTrace)
    <3>1. \A c \in changes(m) : ~(from <= c.time)
      BY <1>5, <2>2 DEF Ahead
    <3>2. \A c \in changes(m) : c.time <= from \/ MaxTrace < c.time
      BY <1>13, <1>14, <3>1
    <3> QED BY <1>3, <1>14, <2>1, <3>2, StateStays
  <2>3. ASSUME NEW k \in Ahead(m)', \A j \in Ahead(m)' : k <= j, todo'[k].time # from
        PROVE  snapshot'[m] = state(m, todo'[k].time - 1)
    <3>1. k \in DOMAIN todo' /\ todo'[k].machine = m
      BY <2>3 DEF Ahead
    <3>2. from <= todo'[k].time - 1 /\ todo'[k].time - 1 \in Int
      BY <1>5, <1>12, <1>14, <2>3, <3>1
    <3>3. ASSUME NEW c \in changes(m), ~(c.time <= from)
          PROVE  todo'[k].time - 1 < c.time
      <4>1. PICK j \in DOMAIN todo' : todo'[j].machine = m /\ todo'[j].time = c.time
        BY <1>5, <1>13, <1>14, <3>3
      <4>2. k <= j
        BY <2>3, <4>1 DEF Ahead
      <4>3. j \in Int /\ k \in Int
        BY <1>5, <3>1
      <4>4. todo'[k].time <= c.time
        BY <1>5, <1>12, <1>13, <3>1, <4>1, <4>2, <4>3
      <4> QED BY <1>12, <1>13, <3>1, <4>4
    <3> QED BY <1>3, <1>14, <2>1, <3>2, <3>3, StateStays
  <2> QED BY <1>2, <1>4, <2>1, <2>2, <2>3 DEF Follows
<1>17. FollowOK'
  BY <1>2, <1>9, <1>16 DEF FollowOK
<1>18. RecordOK'
  <2>1. \A m \in Machines : Writes(m)' = {}
    BY <1>2, <1>8 DEF Writes
  <2>2. \A m \in Machines : LastOf(m, {})' = init'[m]
    BY DEF LastOf
  <2>3. \A m \in Machines : snapshot'[m] = LastOf(m, Writes(m))'
    BY <1>2, <2>1, <2>2 DEF LastOf
  <2> QED BY <1>1, <1>2, <1>8, <2>3 DEF RecordOK
<1>19. \A d \in Decisions, g \in Gates : sub[d][g].pc = "waiting"
  BY <1>1, <1>8, ReplayAssumption DEF StagesOK
<1>20. AnswersOK' /\ LabelSound'
  BY <1>2, <1>19 DEF AnswersOK, LabelSound
<1> QED BY <1>7, <1>10, <1>15, <1>17, <1>18, <1>20 DEF MesInv

\* The replay sends its next event.
LEMMA SendStep ==
  ASSUME MesInv, Send
  PROVE  MesInv'
<1>1. /\ TypesOK /\ StagesOK /\ TodoOK /\ FollowOK /\ RecordOK /\ AnswersOK /\ LabelSound
      /\ phase = "live" /\ post = NoPost /\ todo # <<>>
  BY DEF MesInv, Send
<1>2. /\ wall' = wall + 1 /\ post' = [pc |-> "sent", at |-> wall']
      /\ log' = log /\ phase' = phase /\ todo' = todo /\ t_from' = t_from /\ init' = init
      /\ snapshot' = snapshot /\ written' = written /\ machine' = machine /\ sub' = sub
  BY DEF Send
<1>3. wall \in Nat
  BY <1>1 DEF TypesOK
<1>4. post.pc = "none" /\ post'.pc = "sent" /\ post'.at = wall + 1 /\ post' \in Post
  BY <1>1, <1>2, <1>3 DEF NoPost, Post
<1>5. TypesOK' /\ StagesOK'
  BY <1>1, <1>2, <1>3, <1>4 DEF TypesOK, LogOK, StagesOK
<1>6. \A m : changes(m)' = changes(m) /\ \A t : state(m, t)' = state(m, t)
  BY <1>2, TimelineStays
<1>7. TodoOK'
  BY <1>1, <1>2, <1>6 DEF TodoOK
<1>8. \A m \in Machines : Follows(m)
  BY <1>1, <1>4 DEF FollowOK
<1>9. \A m \in Machines : Follows(m)'
  BY <1>2, <1>6, <1>8 DEF Follows, Ahead
<1>10. FollowOK'
  BY <1>4, <1>9 DEF FollowOK
<1>11. \A m, s : ~InFlight(m, s)
  BY <1>4 DEF InFlight
<1>12. RecordOK'
  <2>1. written \in Seq(Write)
    BY <1>1 DEF TypesOK
  <2>2. \A n \in DOMAIN written : written[n] \in Write
    BY <2>1
  <2>3. \A n \in DOMAIN written : written[n].a \in Nat /\ written[n].b \in Nat
    BY <2>2 DEF Write
  <2> QED BY <1>1, <1>2, <1>3, <1>4, <1>11, <2>3, RecordStays DEF RecordOK
<1>13. AnswersOK'
  <2>1. \A d \in Decisions, g \in Gates : sub[d][g].ref \in Nat
    BY <1>1 DEF TypesOK, Row
  <2> QED BY <1>1, <1>2, <1>3, <1>11, <2>1, RecordStays DEF AnswersOK, Explained
<1>14. LabelSound'
  BY <1>1, <1>2 DEF LabelSound
<1> QED BY <1>5, <1>7, <1>10, <1>12, <1>13, <1>14 DEF MesInv

\* XAIR applies the event.
LEMMA AppliedStep ==
  ASSUME MesInv, Applied
  PROVE  MesInv'
<1>1. /\ TypesOK /\ StagesOK /\ TodoOK /\ FollowOK /\ RecordOK /\ AnswersOK /\ LabelSound
      /\ post.pc = "sent"
  BY DEF MesInv, Applied
<1>2. /\ post' = [post EXCEPT !.pc = "applied"]
      /\ snapshot' = [snapshot EXCEPT ![Head(todo).machine] = Head(todo).state]
      /\ log' = log /\ phase' = phase /\ todo' = todo /\ t_from' = t_from /\ init' = init
      /\ written' = written /\ wall' = wall /\ machine' = machine /\ sub' = sub
  BY DEF Applied
<1>3. post' \in Post /\ post'.pc = "applied" /\ post'.at = post.at
  BY <1>1, <1>2 DEF TypesOK, Post
<1>4. todo # <<>> /\ phase = "live"
  BY <1>1 DEF StagesOK, NoPost, TypesOK
<1>5. Head(todo) = todo[1] /\ todo[1] \in Event /\ 1 \in DOMAIN todo
  BY <1>1, <1>4 DEF TypesOK
<1>6. todo[1].machine \in Machines /\ todo[1].state \in States
  BY <1>5 DEF Event
<1>7. snapshot \in [Machines -> States]
  BY <1>1 DEF TypesOK
<1>8. /\ snapshot' \in [Machines -> States]
      /\ snapshot'[todo[1].machine] = todo[1].state
      /\ \A m \in Machines : m # todo[1].machine => snapshot'[m] = snapshot[m]
  BY <1>2, <1>5, <1>6, <1>7
<1>9. TypesOK' /\ StagesOK'
  BY <1>1, <1>2, <1>3, <1>4, <1>8 DEF TypesOK, LogOK, StagesOK
<1>10. \A m : changes(m)' = changes(m) /\ \A t : state(m, t)' = state(m, t)
  BY <1>2, TimelineStays
<1>11. TodoOK'
  BY <1>1, <1>2, <1>10 DEF TodoOK
<1>12. \A m \in Machines : Follows(m)
  BY <1>1, <1>4 DEF FollowOK
<1>13. \A m \in Machines : m # todo[1].machine => Follows(m)'
  BY <1>2, <1>8, <1>10, <1>12 DEF Follows, Ahead
<1>14. FollowOK'
  BY <1>2, <1>3, <1>8, <1>13 DEF FollowOK
<1>15. \A m, s : ~InFlight(m, s)
  BY <1>1 DEF InFlight
<1>16. RecordOK'
  <2>1. ASSUME NEW m \in Machines
        PROVE  snapshot'[m] = LastOf(m, Writes(m))' \/ InFlight(m, snapshot[m])'
    <3>1. CASE m = todo[1].machine
      BY <1>2, <1>3, <1>8, <3>1 DEF InFlight
    <3>2. CASE m # todo[1].machine
      BY <1>1, <1>2, <1>8, <1>15, <3>2, RecordStays DEF RecordOK
    <3> QED BY <3>1, <3>2
  <2> QED BY <1>1, <1>2, <1>3, <2>1 DEF RecordOK
<1>17. AnswersOK'
  BY <1>1, <1>2, <1>15, RecordStays DEF AnswersOK, Explained
<1>18. LabelSound'
  BY <1>1, <1>2 DEF LabelSound
<1> QED BY <1>9, <1>11, <1>14, <1>16, <1>17, <1>18 DEF MesInv

\* A POST raises, and the replay ends.
LEMMA DieStep ==
  ASSUME MesInv, Die
  PROVE  MesInv'
<1>1. /\ TypesOK /\ StagesOK /\ TodoOK /\ RecordOK /\ AnswersOK /\ LabelSound
      /\ post.pc \in {"sent", "applied"}
  BY DEF MesInv, Die
<1>2. /\ post' = [post EXCEPT !.pc = "dead"]
      /\ log' = log /\ phase' = phase /\ todo' = todo /\ t_from' = t_from /\ init' = init
      /\ snapshot' = snapshot /\ written' = written /\ wall' = wall /\ machine' = machine
      /\ sub' = sub
  BY DEF Die
<1>3. post' \in Post /\ post'.pc = "dead" /\ post'.at = post.at
  BY <1>1, <1>2 DEF TypesOK, Post
<1>4. todo # <<>> /\ phase = "live"
  BY <1>1 DEF StagesOK, NoPost, TypesOK
<1>5. TypesOK' /\ StagesOK'
  BY <1>1, <1>2, <1>3, <1>4 DEF TypesOK, LogOK, StagesOK
<1>6. \A m : changes(m)' = changes(m)
  BY <1>2, TimelineStays
<1>7. TodoOK' /\ FollowOK'
  BY <1>1, <1>2, <1>3, <1>6 DEF TodoOK, FollowOK
<1>8. \A m, s : InFlight(m, s) => InFlight(m, s)'
  BY <1>2, <1>3 DEF InFlight
<1>9. \A m \in Machines : InFlight(m, snapshot[m]) => InFlight(m, snapshot[m])'
  BY <1>2, <1>3 DEF InFlight
<1>10. RecordOK'
  BY <1>1, <1>2, <1>3, <1>9, RecordStays DEF RecordOK
<1>11. AnswersOK'
  BY <1>1, <1>2, <1>3, RecordStays DEF AnswersOK, Explained, InFlight
<1>12. LabelSound'
  BY <1>1, <1>2 DEF LabelSound
<1> QED BY <1>5, <1>7, <1>10, <1>11, <1>12 DEF MesInv

\* A decision is taken.
LEMMA DecideStep ==
  ASSUME MesInv, NEW d \in Decisions, NEW m \in Machines, Decide(d, m)
  PROVE  MesInv'
<1>1. /\ TypesOK /\ StagesOK /\ TodoOK /\ FollowOK /\ RecordOK /\ AnswersOK /\ LabelSound
      /\ phase = "live" /\ machine[d] = NoMachine
  BY DEF MesInv, Decide
<1>2. /\ machine' = [machine EXCEPT ![d] = m]
      /\ log' = log /\ phase' = phase /\ todo' = todo /\ t_from' = t_from /\ init' = init
      /\ snapshot' = snapshot /\ post' = post /\ written' = written /\ wall' = wall /\ sub' = sub
  BY DEF Decide, replayVars
<1>3. machine \in [Decisions -> Machines \cup {NoMachine}]
  BY <1>1 DEF TypesOK
<1>4. /\ machine' \in [Decisions -> Machines \cup {NoMachine}] /\ machine'[d] \in Machines
      /\ \A e \in Decisions : e # d => machine'[e] = machine[e]
  BY <1>2, <1>3
<1>5. \A g \in Gates : sub[d][g].pc = "waiting"
  BY <1>1, ReplayAssumption DEF StagesOK
<1>6. TypesOK' /\ StagesOK'
  BY <1>1, <1>2, <1>4 DEF TypesOK, LogOK, StagesOK
<1>7. \A n : changes(n)' = changes(n) /\ \A t : state(n, t)' = state(n, t)
  BY <1>2, TimelineStays
<1>8. TodoOK' /\ FollowOK'
  <2>1. TodoOK'
    BY <1>1, <1>2, <1>7 DEF TodoOK
  <2>2. \A n \in Machines : Follows(n) => Follows(n)'
    BY <1>2, <1>7 DEF Follows, Ahead
  <2>3. FollowOK'
    BY <1>1, <1>2, <2>2 DEF FollowOK
  <2> QED BY <2>1, <2>3
<1>9. RecordOK'
  BY <1>1, <1>2, RecordStays DEF RecordOK, InFlight
<1>10. AnswersOK'
  <2>1. \A e \in Decisions, g \in Gates : sub[e][g].pc = "answered" => machine'[e] = machine[e]
    BY <1>4, <1>5
  <2> QED BY <1>1, <1>2, <2>1, RecordStays DEF AnswersOK, Explained, InFlight
<1>11. LabelSound'
  BY <1>1, <1>2 DEF LabelSound
<1> QED BY <1>6, <1>8, <1>9, <1>10, <1>11 DEF MesInv

\* What explains an answer still does when the write in flight is put on record.
LEMMA ExplainedGrows ==
  ASSUME TypesOK, RecordOK, Record, todo # <<>>, NEW m \in Machines, NEW x \in Row,
         x.ref <= wall, Explained(m, x)
  PROVE  Explained(m, x)'
<1> DEFINE r == x.ref
           done == {k \in Writes(m) : written[k].b <= r}
           started == {k \in Writes(m) : written[k].a <= r}
<1>1. /\ post.pc = "applied" /\ wall' = wall + 1 /\ init' = init
      /\ written' = Append(written, [a |-> post.at, b |-> wall', machine |-> Head(todo).machine,
                                     state |-> Head(todo).state])
  BY DEF Record
<1>2. todo[1] = Head(todo) /\ todo[1] \in Event
  BY DEF TypesOK
<1>3. wall \in Nat /\ post.at \in Nat /\ r \in Nat
  BY DEF TypesOK, Post, Row
<1>4. PICK w \in Write : /\ written' = Append(written, w) /\ w.a = post.at /\ w.b = wall + 1
                         /\ w.machine = todo[1].machine /\ w.state = todo[1].state
  BY <1>1, <1>2, <1>3 DEF Event, Write
<1>5. Len(written) + 1 \in Nat /\ Writes(m) \subseteq DOMAIN written
  BY DEF TypesOK, Writes
<1>6. PICK n \in Nat : n = Len(written) + 1
  BY <1>5
<1>7. /\ written'[n] = w /\ \A k \in Writes(m) : written'[k] = written[k]
      /\ Writes(m)' = IF w.machine = m THEN Writes(m) \cup {n} ELSE Writes(m)
      /\ n \notin Writes(m)
      /\ \A ws \in SUBSET Writes(m) : LastOf(m, ws)' = LastOf(m, ws)
      /\ \A ws \in SUBSET Writes(m) : LastOf(m, ws \cup {n})' = w.state
  BY <1>1, <1>4, <1>6, RecordGrows
<1>8. /\ written_state(m, r).done = LastOf(m, done)
      /\ written_state(m, r).started = LastOf(m, started)
  BY DEF written_state
<1>9. done \in SUBSET Writes(m) /\ started \in SUBSET Writes(m)
  OBVIOUS
<1>10. PICK done1, started1 :
         /\ done1 = {k \in Writes(m)' : written'[k].b <= r}
         /\ started1 = {k \in Writes(m)' : written'[k].a <= r}
  OBVIOUS
<1>11. /\ written_state(m, r)'.done = LastOf(m, done1)'
       /\ written_state(m, r)'.started = LastOf(m, started1)'
  BY <1>10 DEF written_state
<1>12. \A k : k \in done1 <=> k \in done
  <2>1. ~(w.b <= r)
    BY <1>3, <1>4
  <2> QED BY <1>7, <1>10, <2>1
<1>13. done1 = done
  BY <1>12
<1>14. LastOf(m, done1)' = LastOf(m, done)
  BY <1>7, <1>9, <1>13
<1>15. CASE w.machine = m /\ post.at <= r
  <2>1. started1 = started \cup {n}
    BY <1>4, <1>7, <1>10, <1>15
  <2>2. LastOf(m, started1)' = todo[1].state
    BY <1>4, <1>7, <1>9, <2>1
  <2>3. written \in Seq(Write)
    BY DEF TypesOK
  <2>4. \A k \in DOMAIN written : written[k] \in Write
    BY <2>3
  <2>5. \A k \in Writes(m) : /\ written[k].a \in Nat /\ written[k].a <= post.at
                             /\ written[k].b \in Nat /\ written[k].b <= post.at
    BY <1>1, <1>5, <2>4 DEF RecordOK, Write
  <2>6. \A k \in Writes(m) : written[k].a <= r /\ written[k].b <= r
    BY <1>3, <1>15, <2>5
  <2>7. done = started
    BY <2>6
  <2>8. x.truth = LastOf(m, done) \/ x.truth = todo[1].state
    BY <1>8, <2>7 DEF Explained, InFlight
  <2> QED BY <1>11, <1>14, <2>2, <2>8 DEF Explained
<1>16. CASE ~(w.machine = m /\ post.at <= r)
  <2>1. started1 = started
    BY <1>4, <1>7, <1>10, <1>16
  <2>2. LastOf(m, started1)' = LastOf(m, started)
    BY <1>7, <1>9, <2>1
  <2>3. x.truth = LastOf(m, done) \/ x.truth = LastOf(m, started)
    BY <1>4, <1>8, <1>16 DEF Explained, InFlight
  <2> QED BY <1>11, <1>14, <2>2, <2>3 DEF Explained
<1> QED BY <1>15, <1>16

\* The write is put on record, and the snapshot is again that of the log: the
\* event was the last change of its machine before its next event.
LEMMA RecordStep ==
  ASSUME MesInv, Record
  PROVE  MesInv'
<1>1. /\ TypesOK /\ StagesOK /\ TodoOK /\ FollowOK /\ RecordOK /\ AnswersOK /\ LabelSound
      /\ post.pc = "applied"
  BY DEF MesInv, Record
<1>2. /\ wall' = wall + 1
      /\ written' = Append(written, [a |-> post.at, b |-> wall', machine |-> Head(todo).machine,
                                     state |-> Head(todo).state])
      /\ todo' = Tail(todo) /\ post' = NoPost
      /\ log' = log /\ phase' = phase /\ t_from' = t_from /\ init' = init
      /\ snapshot' = snapshot /\ machine' = machine /\ sub' = sub
  BY DEF Record
<1>3. todo # <<>> /\ phase = "live" /\ LogOK
  BY <1>1 DEF StagesOK, NoPost, TypesOK
<1>4. todo \in Seq(Event) /\ Len(todo) \in Nat /\ Len(todo) >= 1 /\ DOMAIN todo = 1..Len(todo)
  BY <1>1, <1>3 DEF TypesOK
<1>5. todo[1] = Head(todo) /\ todo[1] \in Event /\ 1 \in DOMAIN todo
  BY <1>3, <1>4
<1>6. /\ todo' \in Seq(Event)
      /\ DOMAIN todo' = 1..(Len(todo) - 1)
      /\ \A k \in DOMAIN todo' : todo'[k] = todo[k + 1]
  BY <1>2, <1>3, <1>4
<1>7. \A k \in DOMAIN todo : k \in Int /\ todo[k] \in Event
  BY <1>4
<1>8. \A k \in DOMAIN todo : /\ todo[k].time \in Int /\ todo[k].time \in Instants
                             /\ todo[k].machine \in Machines /\ todo[k].state \in States
  BY <1>7, TraceAssumption DEF Event, Instants
<1>9. /\ \A k \in DOMAIN todo' : k \in Int /\ k + 1 \in DOMAIN todo /\ 1 < k + 1
      /\ \A k \in DOMAIN todo : k # 1 => k - 1 \in DOMAIN todo' /\ todo'[k - 1] = todo[k]
  BY <1>4, <1>6
<1>10. wall \in Nat /\ post.at \in Nat /\ post.at <= wall
  BY <1>1 DEF TypesOK, Post, RecordOK
<1>11. PICK w \in Write : /\ written' = Append(written, w) /\ w.a = post.at /\ w.b = wall + 1
                          /\ w.machine = todo[1].machine /\ w.state = todo[1].state
  BY <1>2, <1>5, <1>8, <1>10 DEF Write
<1>12. written \in Seq(Write) /\ written' \in Seq(Write)
  BY <1>1, <1>11 DEF TypesOK
<1>13. NoPost \in Post /\ NoPost.pc = "none" /\ NoPost.at = 0
  BY DEF NoPost, Post
<1>14. TypesOK' /\ StagesOK'
  BY <1>1, <1>2, <1>3, <1>6, <1>10, <1>12, <1>13 DEF TypesOK, LogOK, StagesOK
<1>15. \A m : changes(m)' = changes(m) /\ \A t : state(m, t)' = state(m, t)
  BY <1>2, TimelineStays
<1>16. \A m \in Machines : \A c \in changes(m) : c.time \in Int /\ c.time <= MaxTrace
  BY <1>3, ChangeTimes, TraceAssumption DEF Instants
<1>17. \A j, k \in DOMAIN todo : j < k =>
         /\ todo[j].time <= todo[k].time
         /\ todo[j].machine = todo[k].machine => todo[j].time # todo[k].time
  BY <1>1 DEF TodoOK
<1>18. \A j, k \in DOMAIN todo' : j < k =>
         /\ todo'[j].time <= todo'[k].time
         /\ todo'[j].machine = todo'[k].machine => todo'[j].time # todo'[k].time
  <2> SUFFICES ASSUME NEW j \in DOMAIN todo', NEW k \in DOMAIN todo', j < k
               PROVE  /\ todo'[j].time <= todo'[k].time
                      /\ todo'[j].machine = todo'[k].machine => todo'[j].time # todo'[k].time
    OBVIOUS
  <2>1. j + 1 \in DOMAIN todo /\ k + 1 \in DOMAIN todo /\ j + 1 < k + 1
    BY <1>9
  <2>2. todo'[j] = todo[j + 1] /\ todo'[k] = todo[k + 1]
    BY <1>6
  <2> QED BY <1>17, <2>1, <2>2
<1>19. TodoOK'
  <2>1. ASSUME NEW n \in DOMAIN todo', NEW c \in changes(todo'[n].machine), todo'[n].time <= c.time
        PROVE  \E k \in DOMAIN todo' : todo'[k].machine = todo'[n].machine /\ todo'[k].time = c.time
    <3>1. todo'[n] = todo[n + 1] /\ n + 1 \in DOMAIN todo /\ 1 < n + 1 /\ n + 1 \in Int
      BY <1>6, <1>7, <1>9
    <3>2. PICK k \in DOMAIN todo : todo[k].machine = todo[n + 1].machine /\ todo[k].time = c.time
      BY <1>1, <2>1, <3>1 DEF TodoOK
    <3>3. k # 1
      <4> SUFFICES ASSUME k = 1 PROVE FALSE
        OBVIOUS
      <4>1. /\ todo[1].time <= todo[n + 1].time
            /\ todo[1].machine = todo[n + 1].machine => todo[1].time # todo[n + 1].time
        BY <1>5, <1>17, <3>1
      <4> QED BY <1>5, <1>8, <2>1, <3>1, <3>2, <4>1
    <3> QED BY <1>9, <3>1, <3>2, <3>3
  <2>2. \A n \in DOMAIN todo' :
          /\ t_from <= todo'[n].time
          /\ \E c \in changes(todo'[n].machine) : c.time = todo'[n].time /\ c.state = todo'[n].state
    BY <1>1, <1>6, <1>9 DEF TodoOK
  <2> QED BY <1>2, <1>15, <1>18, <2>1, <2>2 DEF TodoOK
<1>20. ASSUME NEW m \in Machines, m # todo[1].machine
       PROVE  Follows(m)'
  <2>1. Follows(m)
    BY <1>1, <1>3, <1>20 DEF FollowOK
  <2>2. \A k : k \in Ahead(m)' => k + 1 \in Ahead(m) /\ todo'[k] = todo[k + 1] /\ k \in Int
    BY <1>6, <1>9 DEF Ahead
  <2>3. \A k : k \in Ahead(m) => k - 1 \in Ahead(m)' /\ k \in Int
    BY <1>7, <1>9, <1>20 DEF Ahead
  <2>4. ASSUME NEW k \in Ahead(m)', \A j \in Ahead(m)' : k <= j
        PROVE  snapshot[m] = IF todo'[k].time = t_from THEN init[m] ELSE state(m, todo'[k].time - 1)
    <3>1. k + 1 \in Ahead(m) /\ todo'[k] = todo[k + 1] /\ k \in Int
      BY <2>2
    <3>2. \A j \in Ahead(m) : k + 1 <= j
      BY <2>3, <2>4, <3>1
    <3> QED BY <2>1, <3>1, <3>2 DEF Follows
  <2>5. Ahead(m)' = {} => snapshot[m] = state(m, MaxTrace)
    BY <2>1, <2>3 DEF Follows
  <2> QED BY <1>2, <1>15, <2>4, <2>5 DEF Follows
<1>21. ASSUME NEW m \in Machines, m = todo[1].machine
       PROVE  Follows(m)'
  <2>1. snapshot[m] = todo[1].state
    BY <1>1, <1>3, <1>21 DEF FollowOK
  <2>2. PICK c \in changes(m) : c.time = todo[1].time /\ c.state = todo[1].state
    BY <1>1, <1>5, <1>21 DEF TodoOK
  <2>3. c.time \in Int /\ t_from \in Int /\ t_from <= c.time /\ MaxTrace \in Int
    BY <1>1, <1>5, <1>8, <2>2, TraceAssumption DEF TodoOK, TypesOK, Instants
  <2>4. ASSUME NEW b \in changes(m), ~(b.time <= c.time)
        PROVE  \E j \in Ahead(m)' : todo'[j].time = b.time
    <3>1. todo[1].time <= b.time
      BY <1>16, <2>2, <2>3, <2>4
    <3>2. PICK j \in DOMAIN todo : todo[j].machine = m /\ todo[j].time = b.time
      BY <1>1, <1>5, <1>21, <3>1 DEF TodoOK
    <3>3. j # 1
      BY <1>16, <2>2, <2>3, <2>4, <3>2
    <3> QED BY <1>9, <3>2, <3>3 DEF Ahead
  <2>5. ASSUME Ahead(m)' = {}
        PROVE  snapshot[m] = state(m, MaxTrace)
    <3>1. \A b \in changes(m) : b.time <= c.time
      BY <2>4, <2>5
    <3>2. state(m, MaxTrace) = c.state
      BY <1>3, <1>16, <2>3, <3>1, StateOfLast
    <3> QED BY <2>1, <2>2, <3>2
  <2>6. ASSUME NEW k \in Ahead(m)', \A j \in Ahead(m)' : k <= j
        PROVE  /\ todo'[k].time # t_from
               /\ snapshot[m] = state(m, todo'[k].time - 1)
    <3>1. /\ k \in DOMAIN todo' /\ todo'[k].machine = m /\ todo'[k] = todo[k + 1]
          /\ k + 1 \in DOMAIN todo /\ 1 < k + 1 /\ k \in Int
      BY <1>6, <1>9, <2>6 DEF Ahead
    <3>2. todo[1].time <= todo[k + 1].time /\ todo[1].time # todo[k + 1].time
      BY <1>5, <1>21, <1>17, <3>1
    <3>3. todo'[k].time \in Int /\ c.time < todo'[k].time
      BY <1>8, <2>2, <2>3, <3>1, <3>2
    <3>4. ASSUME NEW b \in changes(m), b.time <= todo'[k].time - 1, ~(b.time <= c.time)
          PROVE  FALSE
      <4>1. PICK j \in Ahead(m)' : todo'[j].time = b.time
        BY <2>4, <3>4
      <4>2. j \in DOMAIN todo' /\ j \in Int /\ k <= j
        BY <1>9, <2>6, <4>1 DEF Ahead
      <4>3. k = j \/ todo'[k].time <= todo'[j].time
        BY <1>18, <3>1, <4>2
      <4> QED BY <1>16, <3>3, <3>4, <4>1, <4>3
    <3>5. c.time <= todo'[k].time - 1 /\ todo'[k].time - 1 \in Int
      BY <2>3, <3>3
    <3>6. state(m, todo'[k].time - 1) = c.state
      BY <1>3, <3>4, <3>5, StateOfLast
    <3> QED BY <2>1, <2>2, <2>3, <3>3, <3>6
  <2> QED BY <1>2, <1>15, <2>5, <2>6 DEF Follows
<1>22. FollowOK'
  BY <1>2, <1>13, <1>20, <1>21 DEF FollowOK
<1>23. Len(written) + 1 \in Nat
  BY <1>12
<1>24. PICK n \in Nat : n = Len(written) + 1
  BY <1>23
<1>25. init' = init
  BY <1>2
<1>26. RecordOK'
  <2>1. ASSUME NEW m \in Machines
        PROVE  snapshot[m] = LastOf(m, Writes(m))'
    <3>1. /\ written'[n] = w /\ \A k \in Writes(m) : written'[k] = written[k]
          /\ Writes(m)' = IF w.machine = m THEN Writes(m) \cup {n} ELSE Writes(m)
          /\ n \notin Writes(m)
          /\ \A ws \in SUBSET Writes(m) : LastOf(m, ws)' = LastOf(m, ws)
          /\ \A ws \in SUBSET Writes(m) : LastOf(m, ws \cup {n})' = w.state
      BY <1>1, <1>11, <1>24, <1>25, RecordGrows
    <3>2. PICK old : old = Writes(m)
      OBVIOUS
    <3>3. PICK new : new = Writes(m)'
      OBVIOUS
    <3>4. LastOf(m, Writes(m))' = LastOf(m, new)'
      BY <3>3 DEF LastOf
    <3>5. CASE w.machine = m
      <4>1. new = old \cup {n}
        BY <3>1, <3>2, <3>3, <3>5
      <4>2. LastOf(m, new)' = w.state
        BY <3>1, <3>2, <4>1
      <4>3. snapshot[m] = todo[1].state
        BY <1>1, <1>3, <1>11, <3>5 DEF FollowOK
      <4> QED BY <1>11, <3>4, <4>2, <4>3
    <3>6. CASE w.machine # m
      <4>1. new = old
        BY <3>1, <3>2, <3>3, <3>6
      <4>2. LastOf(m, new)' = LastOf(m, Writes(m))
        BY <3>1, <3>2, <4>1
      <4>3. snapshot[m] = LastOf(m, Writes(m))
        BY <1>1, <1>11, <3>6 DEF RecordOK, InFlight
      <4> QED BY <3>4, <4>2, <4>3
    <3> QED BY <3>5, <3>6
  <2>2. \A k \in DOMAIN written : written[k] \in Write
    BY <1>12
  <2>3. \A k \in DOMAIN written : /\ written[k].a \in Nat /\ written[k].a <= wall
                                  /\ written[k].b \in Nat /\ written[k].b <= wall
    BY <1>1, <2>2 DEF RecordOK, Write
  <2>4. \A k \in DOMAIN written' : k = n \/ (k \in DOMAIN written /\ written'[k] = written[k])
    BY <1>11, <1>12, <1>24
  <2>5. written'[n] = w
    BY <1>11, <1>12, <1>24
  <2>6. \A k \in DOMAIN written' : written'[k].a <= wall' /\ written'[k].b <= wall'
    BY <1>2, <1>10, <1>11, <2>3, <2>4, <2>5
  <2> QED BY <1>2, <1>10, <1>13, <2>1, <2>6 DEF RecordOK
<1>27. AnswersOK'
  <2>1. \A m \in Machines, x \in Row : x.ref <= wall /\ Explained(m, x) => Explained(m, x)'
    BY <1>1, <1>3, ExplainedGrows
  <2>2. \A d \in Decisions, g \in Gates : sub[d][g] \in Row
    BY <1>1 DEF TypesOK
  <2>3. \A d \in Decisions, g \in Gates : sub[d][g].ref \in Nat
    BY <2>2 DEF Row
  <2>4. ASSUME NEW d \in Decisions, NEW g \in Gates, sub[d][g].pc = "answered", sub[d][g].ref # 0
        PROVE  sub[d][g].ref <= wall' /\ Explained(machine[d], sub[d][g])'
    <3>1. machine[d] \in Machines /\ sub[d][g].ref <= wall /\ Explained(machine[d], sub[d][g])
      BY <1>1, <2>4 DEF StagesOK, AnswersOK
    <3>2. PICK m \in Machines, x \in Row : m = machine[d] /\ x = sub[d][g]
      BY <2>2, <3>1
    <3>3. Explained(m, x)'
      BY <2>1, <3>1, <3>2
    <3>4. sub[d][g].ref <= wall'
      BY <1>2, <1>10, <2>3, <3>1
    <3>5. m = machine'[d] /\ x = sub'[d][g]
      BY <1>2, <3>2
    <3> QED BY <3>3, <3>4, <3>5 DEF Explained
  <2> QED BY <1>2, <2>4 DEF AnswersOK
<1>28. LabelSound'
  BY <1>1, <1>2 DEF LabelSound
<1> QED BY <1>14, <1>19, <1>22, <1>26, <1>27, <1>28 DEF MesInv

\* A submission goes on, in a way that the record explains.
LEMMA RowStep ==
  ASSUME MesInv, NEW d \in Decisions, NEW g \in Gates, NEW r \in Row,
         sub' = [sub EXCEPT ![d][g] = r], wall' = wall + 1,
         UNCHANGED <<log, phase, replayVars, machine>>, machine[d] \in Machines,
         r.pc = "answered" /\ r.ref # 0 => r.ref <= wall + 1 /\ Explained(machine[d], r),
         r.pc = "row" /\ r.whole /\ ~r.ambiguous => (r.obsolete <=> r.truth # "IDLE")
  PROVE  MesInv'
<1>1. /\ TypesOK /\ StagesOK /\ TodoOK /\ FollowOK /\ RecordOK /\ AnswersOK /\ LabelSound
  BY DEF MesInv
<1>2. /\ log' = log /\ phase' = phase /\ todo' = todo /\ t_from' = t_from /\ init' = init
      /\ snapshot' = snapshot /\ post' = post /\ written' = written /\ machine' = machine
  BY DEF replayVars
<1>3. wall \in Nat /\ sub \in [Decisions -> [Gates -> Row]]
  BY <1>1 DEF TypesOK
<1>4. /\ sub' \in [Decisions -> [Gates -> Row]]
      /\ sub'[d][g] = r
      /\ \A e \in Decisions, h \in Gates : (e = d /\ h = g) \/ sub'[e][h] = sub[e][h]
  BY <1>3
<1>5. TypesOK'
  BY <1>1, <1>2, <1>3, <1>4 DEF TypesOK, LogOK
<1>6. StagesOK'
  <2>1. phase = "live"
    BY <1>1, ReplayAssumption DEF StagesOK, TypesOK
  <2> QED BY <1>1, <1>2, <1>4, <2>1 DEF StagesOK
<1>7. \A m : changes(m)' = changes(m) /\ \A t : state(m, t)' = state(m, t)
  BY <1>2, TimelineStays
<1>8. TodoOK'
  BY <1>1, <1>2, <1>7 DEF TodoOK
<1>9. \A m \in Machines : Follows(m) => Follows(m)'
  BY <1>2, <1>7 DEF Follows, Ahead
<1>10. FollowOK'
  BY <1>1, <1>2, <1>9 DEF FollowOK
<1>11. RecordOK'
  <2>1. written \in Seq(Write) /\ post \in Post
    BY <1>1 DEF TypesOK
  <2>2. \A n \in DOMAIN written : written[n] \in Write
    BY <2>1
  <2>3. post.at \in Nat /\ \A n \in DOMAIN written : written[n].a \in Nat /\ written[n].b \in Nat
    BY <2>1, <2>2 DEF Write, Post
  <2> QED BY <1>1, <1>2, <1>3, <2>3, RecordStays DEF RecordOK, InFlight
<1>12. ASSUME NEW e \in Decisions, NEW h \in Gates, NEW x \in Row, x = sub'[e][h],
              x.pc = "answered", x.ref # 0
       PROVE  x.ref <= wall + 1 /\ Explained(machine[e], x)
  <2>1. CASE e = d /\ h = g
    BY <1>4, <1>12, <2>1
  <2>2. CASE sub'[e][h] = sub[e][h]
    <3>1. x.ref \in Nat
      BY DEF Row
    <3> QED BY <1>1, <1>3, <1>12, <2>2, <3>1 DEF AnswersOK
  <2> QED BY <1>4, <2>1, <2>2
<1>13. \A e \in Decisions : \A x : Explained(machine[e], x) =>
         \A h \in Gates : x = sub'[e][h] => Explained(machine[e], sub[e][h])'
  BY <1>2, RecordStays DEF Explained, InFlight
<1>14. AnswersOK'
  <2>1. ASSUME NEW e \in Decisions, NEW h \in Gates, sub'[e][h].pc = "answered", sub'[e][h].ref # 0
        PROVE  sub'[e][h].ref <= wall' /\ Explained(machine[e], sub[e][h])'
    <3>1. PICK x \in Row : x = sub'[e][h]
      BY <1>4
    <3>2. x.ref <= wall + 1 /\ Explained(machine[e], x)
      BY <1>12, <2>1, <3>1
    <3> QED BY <1>13, <3>1, <3>2
  <2> QED BY <2>1 DEF AnswersOK
<1>15. LabelSound'
  <2>1. ASSUME NEW e \in Decisions, NEW h \in Gates
        PROVE  sub'[e][h].pc = "row" /\ sub'[e][h].whole /\ ~sub'[e][h].ambiguous =>
                 (sub'[e][h].obsolete <=> sub'[e][h].truth # "IDLE")
    <3>1. CASE e = d /\ h = g
      BY <1>4, <3>1
    <3>2. CASE sub'[e][h] = sub[e][h]
      BY <1>1, <3>2 DEF LabelSound
    <3> QED BY <1>4, <3>1, <3>2
  <2> QED BY <2>1 DEF LabelSound
<1> QED BY <1>5, <1>6, <1>8, <1>10, <1>11, <1>14, <1>15 DEF MesInv

\* What the snapshot holds now is on record as done, unless a POST is in flight.
LEMMA NowExplained ==
  ASSUME TypesOK, RecordOK, NEW m \in Machines
  PROVE  /\ post.at <= wall + 1
         /\ snapshot[m] = written_state(m, wall + 1).done \/ InFlight(m, snapshot[m])
<1>1. wall \in Nat /\ post \in Post /\ written \in Seq(Write)
  BY DEF TypesOK
<1>2. \A n \in DOMAIN written : written[n] \in Write
  BY <1>1
<1>3. post.at \in Nat /\ \A n \in DOMAIN written : written[n].b \in Nat
  BY <1>1, <1>2 DEF Post, Write
<1>4. {n \in Writes(m) : written[n].b <= wall + 1} = Writes(m)
  BY <1>1, <1>3 DEF Writes, RecordOK
<1>5. written_state(m, wall + 1).done = LastOf(m, Writes(m))
  BY <1>4 DEF written_state
<1> QED BY <1>1, <1>3, <1>5 DEF RecordOK

\* Updates of a row give rows, whatever its flags range over.
LEMMA AnsweredRow ==
  ASSUME NEW P, NEW B, NEW S,
         NEW x \in [pc: P, released: B, ref: Nat, truth: S, whole: B, obsolete: B, ambiguous: B],
         NEW pc \in P, NEW released \in B, NEW ref \in Nat, NEW truth \in S,
         NEW r, r = [x EXCEPT !.pc = pc, !.released = released, !.ref = ref, !.truth = truth]
  PROVE  /\ r \in [pc: P, released: B, ref: Nat, truth: S, whole: B, obsolete: B, ambiguous: B]
         /\ r.pc = pc /\ r.ref = ref /\ r.truth = truth
OBVIOUS

\* The same of the row that a label makes.
LEMMA LabelledRow ==
  ASSUME NEW P, NEW B, NEW S,
         NEW x \in [pc: P, released: B, ref: Nat, truth: S, whole: B, obsolete: B, ambiguous: B],
         NEW pc \in P, NEW ref \in Nat, NEW truth \in S,
         NEW whole \in B, NEW obsolete \in B, NEW ambiguous \in B,
         NEW r, r = [x EXCEPT !.pc = pc, !.ref = ref, !.truth = truth, !.whole = whole,
                              !.obsolete = obsolete, !.ambiguous = ambiguous]
  PROVE  /\ r \in [pc: P, released: B, ref: Nat, truth: S, whole: B, obsolete: B, ambiguous: B]
         /\ r.pc = pc /\ r.truth = truth /\ r.whole = whole
         /\ r.obsolete = obsolete /\ r.ambiguous = ambiguous
OBVIOUS

\* A gate checks.
LEMMA CheckStep ==
  ASSUME MesInv, NEW d \in Decisions, NEW g \in Gates, Check(d, g)
  PROVE  MesInv'
<1>1. TypesOK /\ RecordOK /\ StagesOK
  BY DEF MesInv
<1>2. /\ machine[d] # NoMachine /\ sub[d][g].pc = "waiting" /\ wall' = wall + 1
      /\ UNCHANGED <<log, phase, replayVars, machine>>
  BY DEF Check
<1>3. machine[d] \in Machines /\ sub[d][g] \in Row /\ wall \in Nat
  BY <1>1, <1>2 DEF TypesOK
<1>4. snapshot[machine[d]] \in States
  BY <1>1, <1>3 DEF TypesOK
<1>5. sub \in [Decisions -> [Gates -> Row]]
  BY <1>1 DEF TypesOK
<1>6. CASE sub' = [sub EXCEPT ![d][g].pc = "passed"]
  <2>1. PICK r : r = [sub[d][g] EXCEPT !.pc = "passed"]
    OBVIOUS
  <2>2. r \in Row /\ r.pc = "passed"
    BY <1>3, <2>1 DEF Row
  <2>3. sub' = [sub EXCEPT ![d][g] = r]
    BY <1>5, <1>6, <2>1
  <2> QED BY <1>2, <1>3, <2>2, <2>3, RowStep
<1>7. ASSUME NEW ref \in {0, wall + 1},
             sub' = [sub EXCEPT ![d][g] = [@ EXCEPT !.pc = "answered", !.ref = ref,
                                                    !.truth = snapshot[machine[d]]]]
      PROVE  MesInv'
  <2>1. PICK r : r = [sub[d][g] EXCEPT !.pc = "answered", !.ref = ref,
                                       !.truth = snapshot[machine[d]]]
    OBVIOUS
  <2>2. ref \in Nat
    BY <1>3
  <2>3. r \in Row /\ r.pc = "answered" /\ r.ref = ref /\ r.truth = snapshot[machine[d]]
    BY <1>3, <1>4, <2>1, <2>2 DEF Row
  <2>4. sub' = [sub EXCEPT ![d][g] = r]
    BY <1>5, <1>7, <2>1
  <2>5. ref # 0 => ref <= wall + 1 /\ Explained(machine[d], r)
    BY <1>1, <1>3, <2>3, NowExplained DEF Explained
  <2> QED BY <1>2, <1>3, <2>3, <2>4, <2>5, RowStep
<1>8. \/ sub' = [sub EXCEPT ![d][g].pc = "passed"]
      \/ \E ref \in {0, wall + 1} :
           sub' = [sub EXCEPT ![d][g] = [@ EXCEPT !.pc = "answered", !.ref = ref,
                                                  !.truth = snapshot[machine[d]]]]
  BY <1>2 DEF Check
<1> QED BY <1>6, <1>7, <1>8

\* A command that passed is released.
LEMMA ReleaseStep ==
  ASSUME MesInv, NEW d \in Decisions, NEW g \in Gates, Release(d, g)
  PROVE  MesInv'
<1>1. TypesOK /\ RecordOK /\ StagesOK
  BY DEF MesInv
<1>2. /\ sub[d][g].pc = "passed" /\ wall' = wall + 1
      /\ UNCHANGED <<log, phase, replayVars, machine>>
      /\ sub' = [sub EXCEPT ![d][g] = [@ EXCEPT !.pc = "answered", !.released = TRUE, !.ref = wall',
                                                !.truth = snapshot[machine[d]]]]
  BY DEF Release
<1>3. machine[d] \in Machines /\ sub[d][g] \in Row /\ wall \in Nat
  BY <1>1, <1>2 DEF TypesOK, StagesOK
<1>4. snapshot[machine[d]] \in States
  BY <1>1, <1>3 DEF TypesOK
<1>5. sub \in [Decisions -> [Gates -> Row]]
  BY <1>1 DEF TypesOK
<1>6. PICK r : r = [sub[d][g] EXCEPT !.pc = "answered", !.released = TRUE, !.ref = wall + 1,
                                     !.truth = snapshot[machine[d]]]
  OBVIOUS
<1>7. r \in Row /\ r.pc = "answered" /\ r.ref = wall + 1 /\ r.truth = snapshot[machine[d]]
  <2>1. wall + 1 \in Nat /\ TRUE \in BOOLEAN
    BY <1>3
  <2>2. PICK released \in BOOLEAN, ref \in Nat, truth \in States :
          released = TRUE /\ ref = wall + 1 /\ truth = snapshot[machine[d]]
    BY <1>4, <2>1, Zenon
  <2>3. r = [sub[d][g] EXCEPT !.pc = "answered", !.released = released, !.ref = ref, !.truth = truth]
    BY <1>6, <2>2, Zenon
  <2>4. PICK pc \in {"waiting", "passed", "answered", "row"} : pc = "answered"
    OBVIOUS
  <2>5. r = [sub[d][g] EXCEPT !.pc = pc, !.released = released, !.ref = ref, !.truth = truth]
    BY <2>3, <2>4, Zenon
  <2>6. sub[d][g] \in [pc: {"waiting", "passed", "answered", "row"}, released: BOOLEAN, ref: Nat,
                       truth: States, whole: BOOLEAN, obsolete: BOOLEAN, ambiguous: BOOLEAN]
    BY <1>3, Zenon DEF Row
  <2>7. /\ r \in [pc: {"waiting", "passed", "answered", "row"}, released: BOOLEAN, ref: Nat,
                  truth: States, whole: BOOLEAN, obsolete: BOOLEAN, ambiguous: BOOLEAN]
        /\ r.pc = pc /\ r.ref = ref /\ r.truth = truth
    BY <2>5, <2>6, AnsweredRow, Zenon
  <2>8. r \in Row
    BY <2>7, Zenon DEF Row
  <2> QED BY <2>2, <2>4, <2>7, <2>8, Zenon
<1>8. sub' = [sub EXCEPT ![d][g] = r]
  BY <1>2, <1>5, <1>6
<1>9. r.ref <= wall + 1 /\ Explained(machine[d], r)
  BY <1>1, <1>3, <1>7, NowExplained DEF Explained
<1> QED BY <1>2, <1>3, <1>7, <1>8, <1>9, RowStep

\* An answer gets its row: what explains it and is not in flight is on record.
LEMMA LabelStep ==
  ASSUME MesInv, NEW d \in Decisions, NEW g \in Gates, Label(d, g)
  PROVE  MesInv'
<1>1. TypesOK /\ RecordOK /\ StagesOK /\ AnswersOK
  BY DEF MesInv
<1> DEFINE x == sub[d][g]
           m == machine[d]
           refer == IF x.ref = 0 THEN wall + 1 ELSE x.ref
           ws == written_state(m, refer)
           settled == post = NoPost \/ post.at > refer
<1>2. /\ x.pc = "answered" /\ wall' = wall + 1
      /\ UNCHANGED <<log, phase, replayVars, machine>>
      /\ sub' = [sub EXCEPT ![d][g] =
           [@ EXCEPT !.pc = "row", !.ref = refer,
                     !.truth = IF x.ref = 0 THEN snapshot[m] ELSE x.truth,
                     !.whole = settled,
                     !.obsolete = (ws.done # "IDLE"),
                     !.ambiguous = ((ws.done = "IDLE") # (ws.started = "IDLE"))]]
  <2>1. x.pc = "answered" /\ wall' = wall + 1
    BY DEF Label
  <2>2. UNCHANGED <<log, phase, replayVars, machine>>
    BY DEF Label
  <2> DEFINE Made(ref) ==
        [sub EXCEPT ![d][g] =
           [@ EXCEPT !.pc = "row", !.ref = ref,
                     !.truth = IF x.ref = 0 THEN snapshot[m] ELSE x.truth,
                     !.whole = (post = NoPost \/ post.at > ref),
                     !.obsolete = (written_state(m, ref).done # "IDLE"),
                     !.ambiguous = ((written_state(m, ref).done = "IDLE")
                                      # (written_state(m, ref).started = "IDLE"))]]
  <2>3. sub' = Made(IF x.ref = 0 THEN wall' ELSE x.ref)
    BY Zenon DEF Label
  <2>4. refer = IF x.ref = 0 THEN wall' ELSE x.ref
    BY <2>1
  <2> HIDE DEF Made, refer
  <2>5. sub' = Made(refer)
    BY <2>3, <2>4
  <2> USE DEF Made
  <2> QED BY <2>1, <2>2, <2>5, Zenon
<1>3. m \in Machines /\ x \in Row /\ wall \in Nat /\ sub \in [Decisions -> [Gates -> Row]]
  BY <1>1, <1>2 DEF TypesOK, StagesOK
<1>4. x.ref \in Nat /\ x.truth \in States /\ snapshot[m] \in States /\ post.at \in Nat
  BY <1>1, <1>3 DEF TypesOK, Row, Post
<1>5. PICK ref \in Nat : ref = refer
  BY <1>3, <1>4
<1>6. PICK truth \in States : truth = IF x.ref = 0 THEN snapshot[m] ELSE x.truth
  BY <1>4
<1>7. PICK whole \in BOOLEAN : whole = settled
  BY Zenon
<1>8. PICK obsolete \in BOOLEAN : obsolete = (ws.done # "IDLE")
  BY Zenon
<1>9. PICK ambiguous \in BOOLEAN : ambiguous = ((ws.done = "IDLE") # (ws.started = "IDLE"))
  BY Zenon
<1>10. PICK r : r = [x EXCEPT !.pc = "row", !.ref = ref, !.truth = truth, !.whole = whole,
                              !.obsolete = obsolete, !.ambiguous = ambiguous]
  OBVIOUS
<1>11. sub' = [sub EXCEPT ![d][g] = r]
  <2>1. sub' = [sub EXCEPT ![d][g] =
           [@ EXCEPT !.pc = "row", !.ref = ref,
                     !.truth = IF x.ref = 0 THEN snapshot[m] ELSE x.truth,
                     !.whole = whole, !.obsolete = obsolete, !.ambiguous = ambiguous]]
    BY <1>2, <1>5, <1>7, <1>8, <1>9, Zenon
  <2> HIDE DEF x, m
  <2>2. sub' = [sub EXCEPT ![d][g] =
           [@ EXCEPT !.pc = "row", !.ref = ref, !.truth = truth,
                     !.whole = whole, !.obsolete = obsolete, !.ambiguous = ambiguous]]
    BY <1>6, <2>1, Zenon
  <2> USE DEF x
  <2> QED BY <1>10, <2>2, Zenon
<1>12. /\ r \in Row /\ r.pc = "row" /\ r.truth = truth /\ r.whole = whole
       /\ r.obsolete = obsolete /\ r.ambiguous = ambiguous
  <2>1. PICK pc \in {"waiting", "passed", "answered", "row"} : pc = "row"
    OBVIOUS
  <2>2. r = [x EXCEPT !.pc = pc, !.ref = ref, !.truth = truth, !.whole = whole,
                      !.obsolete = obsolete, !.ambiguous = ambiguous]
    BY <1>10, <2>1, Zenon
  <2>3. x \in [pc: {"waiting", "passed", "answered", "row"}, released: BOOLEAN, ref: Nat,
               truth: States, whole: BOOLEAN, obsolete: BOOLEAN, ambiguous: BOOLEAN]
    BY <1>3, Zenon DEF Row
  <2> HIDE DEF x
  <2>4. /\ r \in [pc: {"waiting", "passed", "answered", "row"}, released: BOOLEAN, ref: Nat,
                  truth: States, whole: BOOLEAN, obsolete: BOOLEAN, ambiguous: BOOLEAN]
        /\ r.pc = pc /\ r.truth = truth /\ r.whole = whole
        /\ r.obsolete = obsolete /\ r.ambiguous = ambiguous
    BY <2>2, <2>3, LabelledRow, Zenon
  <2>5. r \in Row
    BY <2>4, Zenon DEF Row
  <2> QED BY <2>1, <2>4, <2>5, Zenon
<1>13. settled => truth = ws.done \/ truth = ws.started
  <2> SUFFICES ASSUME settled PROVE truth = ws.done \/ truth = ws.started
    OBVIOUS
  <2>1. CASE x.ref = 0
    <3>1. refer = wall + 1 /\ truth = snapshot[m]
      BY <1>6, <2>1
    <3>2. post.at <= wall
      BY <1>1 DEF RecordOK
    <3>3. post = NoPost
      BY <1>3, <1>4, <3>1, <3>2
    <3>4. ~InFlight(m, snapshot[m])
      BY <3>3 DEF InFlight, NoPost
    <3>5. snapshot[m] = written_state(m, wall + 1).done
      BY <1>1, <1>3, <3>4, NowExplained
    <3> QED BY <3>1, <3>5
  <2>2. CASE x.ref # 0
    <3>1. refer = x.ref /\ truth = x.truth
      BY <1>6, <2>2
    <3>2. Explained(m, x)
      BY <1>1, <1>2, <2>2 DEF AnswersOK
    <3>3. ~(post.at <= x.ref /\ InFlight(m, x.truth))
      BY <1>4, <3>1 DEF InFlight, NoPost
    <3> QED BY <3>1, <3>2, <3>3 DEF Explained
  <2> QED BY <2>1, <2>2
<1> HIDE DEF settled, ws
<1>14. whole /\ ~ambiguous => (obsolete <=> truth # "IDLE")
  <2>1. whole => truth = ws.done \/ truth = ws.started
    BY <1>7, <1>13
  <2>2. ~ambiguous => (ws.done = "IDLE" <=> ws.started = "IDLE")
    BY <1>9
  <2>3. obsolete <=> ws.done # "IDLE"
    BY <1>8
  <2> QED BY <2>1, <2>2, <2>3
<1>15. /\ r.pc = "answered" /\ r.ref # 0 => r.ref <= wall + 1 /\ Explained(machine[d], r)
       /\ r.pc = "row" /\ r.whole /\ ~r.ambiguous => (r.obsolete <=> r.truth # "IDLE")
  BY <1>12, <1>14
<1>16. /\ r \in Row /\ machine[d] \in Machines /\ wall' = wall + 1
       /\ UNCHANGED <<log, phase, replayVars, machine>>
  BY <1>2, <1>3, <1>12, Zenon
<1> HIDE DEF x, m, refer
<1> QED BY <1>11, <1>15, <1>16, RowStep

\* Every step keeps the invariant.
LEMMA MesStep ==
  ASSUME MesInv, [Next]_vars
  PROVE  MesInv'
<1>1. CASE UNCHANGED vars
  <2>1. /\ log' = log /\ phase' = phase /\ todo' = todo /\ t_from' = t_from /\ init' = init
        /\ snapshot' = snapshot /\ post' = post /\ written' = written /\ wall' = wall
        /\ machine' = machine /\ sub' = sub
    BY <1>1 DEF vars, replayVars
  <2>2. \A m : changes(m)' = changes(m) /\ \A t : state(m, t)' = state(m, t)
    BY <2>1, TimelineStays
  <2>3. TypesOK' /\ StagesOK' /\ LabelSound'
    BY <2>1 DEF MesInv, TypesOK, LogOK, StagesOK, LabelSound
  <2>4. TodoOK'
    BY <2>1, <2>2 DEF MesInv, TodoOK
  <2>5. \A m \in Machines : Follows(m) => Follows(m)'
    BY <2>1, <2>2 DEF Follows, Ahead
  <2>6. FollowOK'
    BY <2>1, <2>5 DEF MesInv, FollowOK
  <2>7. RecordOK'
    BY <2>1, RecordStays DEF MesInv, RecordOK, InFlight
  <2>8. AnswersOK'
    BY <2>1, RecordStays DEF MesInv, AnswersOK, Explained, InFlight
  <2> QED BY <2>3, <2>4, <2>6, <2>7, <2>8 DEF MesInv
<1>2. ASSUME NEW m \in Machines, NEW x \in Step, ReadRow(m, x)
      PROVE  MesInv'
  BY <1>2, ReadRowStep
<1>3. ASSUME NEW from \in Instants, Start(from)
      PROVE  MesInv'
  BY <1>3, StartStep
<1>4. CASE Send \/ Applied \/ Record \/ Die
  BY <1>4, SendStep, AppliedStep, RecordStep, DieStep
<1>5. ASSUME NEW d \in Decisions, NEW m \in Machines, Decide(d, m)
      PROVE  MesInv'
  BY <1>5, DecideStep
<1>6. ASSUME NEW d \in Decisions, NEW g \in Gates, Check(d, g) \/ Release(d, g) \/ Label(d, g)
      PROVE  MesInv'
  BY <1>6, CheckStep, ReleaseStep, LabelStep
<1> QED BY <1>1, <1>2, <1>3, <1>4, <1>5, <1>6 DEF Next

-----------------------------------------------------------------------------
(* Theorems *)

\* The invariant holds in every behaviour.
LEMMA MesInvariant == Spec => []MesInv
<1>1. MesInv /\ [Next]_vars => MesInv'
  BY MesStep
<1> QED BY <1>1, MesInit, PTL DEF Spec

\* Whatever the log and the pace of the replay, the snapshot, the record of the
\* writes and the rows have their types: a machine is in one of its three states.
THEOREM ReplayTypeCorrect == Spec => []ReplayTypeOK
<1>1. MesInv => ReplayTypeOK
  <2> SUFFICES ASSUME MesInv PROVE ReplayTypeOK
    OBVIOUS
  <2>1. TypesOK
    BY DEF MesInv
  <2>2. \A m \in Machines : log[m] \subseteq Step
    BY <2>1 DEF TypesOK, LogOK, Steps
  <2>3. written \in Seq(Write)
    BY <2>1 DEF TypesOK
  <2>4. \A n \in DOMAIN written : written[n] \in Write
    BY <2>3
  <2> QED BY <2>1, <2>2, <2>4 DEF TypesOK, ReplayTypeOK, Write, Post, Row
<1> QED BY <1>1, MesInvariant, PTL

\* The step function built from the step boundaries agrees, at every instant of
\* every log, with the log, and the next change it gives is the first later
\* instant with another state, however many steps overlap, touch or are empty.
THEOREM TimelinesAgree == Spec => []TimelineAgrees
<1>1. MesInv => TimelineAgrees
  <2> SUFFICES ASSUME MesInv, NEW m \in Machines, NEW t \in Instants
               PROVE  /\ state(m, t) = StateAt[m][t]
                      /\ next_change(m, t) = LeavesAt(StateAt)[m][t]
    BY DEF TimelineAgrees
  <2>1. LogOK
    BY DEF MesInv, TypesOK
  <2>2. \A u \in Instants : state(m, u) = StateAt[m][u]
    BY <2>1, StateAgrees
  <2>3. (t + 1)..MaxTrace \subseteq Instants
    BY TraceAssumption DEF Instants
  <2>4. {u \in (t + 1)..MaxTrace : state(m, u) # state(m, t)}
          = {u \in (t + 1)..MaxTrace : StateAt[m][u] # StateAt[m][t]}
    BY <2>2, <2>3
  <2>5. LeavesAt(StateAt)[m][t]
          = Min({Forever} \cup {u \in (t + 1)..MaxTrace : StateAt[m][u] # StateAt[m][t]})
    BY DEF LeavesAt
  <2>6. next_change(m, t)
          = Min({Forever} \cup {u \in (t + 1)..MaxTrace : state(m, u) # state(m, t)})
    BY <2>1, NextAgrees
  <2> QED BY <2>2, <2>4, <2>5, <2>6
<1> QED BY <1>1, MesInvariant, PTL

\* Between two writes the snapshot holds, for every machine, the state it has in
\* the log until its next event, for any log and wherever the replay began.
THEOREM ReplaysFollow == Spec => []ReplayFollows
<1>1. MesInv => ReplayFollows
  <2> SUFFICES ASSUME MesInv, NEW m \in Machines, phase = "live", post = NoPost
               PROVE  LET ahead == {k \in DOMAIN todo : todo[k].machine = m}
                          next == todo[Min(ahead)]
                      IN snapshot[m] = IF ahead = {} THEN state(m, MaxTrace)
                                       ELSE IF next.time = t_from THEN init[m]
                                       ELSE state(m, next.time - 1)
    BY DEF ReplayFollows
  <2>1. Follows(m)
    BY DEF MesInv, FollowOK, NoPost
  <2>2. Ahead(m) = {k \in DOMAIN todo : todo[k].machine = m}
    BY DEF Ahead
  <2>3. Ahead(m) \in SUBSET Nat
    BY <2>2 DEF MesInv, TypesOK
  <2>4. Ahead(m) # {} => /\ Min(Ahead(m)) \in Ahead(m)
                         /\ \A j \in Ahead(m) : Min(Ahead(m)) <= j
    BY <2>3, LeastNatural
  <2>5. snapshot[m] = IF Ahead(m) = {} THEN state(m, MaxTrace)
                      ELSE IF todo[Min(Ahead(m))].time = t_from THEN init[m]
                      ELSE state(m, todo[Min(Ahead(m))].time - 1)
    BY <2>1, <2>4 DEF Follows
  <2> QED BY <2>2, <2>5
<1> QED BY <1>1, MesInvariant, PTL

\* A row that is not flagged ambiguous is labelled with what the snapshot held at
\* the instant its answer is about, however POSTs and answers interleave.
THEOREM LabelsSound == Spec => []LabelSound
<1>1. MesInv => LabelSound
  BY DEF MesInv
<1> QED BY <1>1, MesInvariant, PTL

\* The paired summary compares the gates on the same facts, and charges a gate
\* with a stale release or a false revocation exactly if it made one.
THEOREM PairsFair == Spec => []PairedFair
<1>1. MesInv => PairedFair
  <2> SUFFICES ASSUME MesInv, NEW d \in Obsolete \cup Valid, \A g \in Gates : sub[d][g].whole,
                      ~FirstRow(d).ambiguous, NEW g \in Gates
               PROVE  /\ sub[d][g].truth = "IDLE" <=> d \in Valid
                      /\ d \in StaleReleased(g) <=> sub[d][g].released /\ sub[d][g].truth # "IDLE"
                      /\ d \in FalseRevocations(g) <=> ~sub[d][g].released /\ sub[d][g].truth = "IDLE"
    BY DEF PairedFair
  <2>1. d \in Concordant
    BY DEF Obsolete, Valid
  <2>2. d \in Complete /\ d \in Decisions /\ sub[d][g].pc = "row"
    BY <2>1 DEF Concordant, Complete
  <2>3. PICK h \in Gates : FirstRow(d) = sub[d][h]
    BY ReplayAssumption DEF FirstRow
  <2>4. /\ sub[d][g].obsolete = sub[d][h].obsolete
        /\ sub[d][g].ambiguous = sub[d][h].ambiguous
    BY <2>1 DEF Concordant
  <2>5. ~sub[d][g].ambiguous
    BY <2>3, <2>4
  <2>6. sub[d][g].obsolete <=> sub[d][g].truth # "IDLE"
    BY <2>2, <2>5 DEF MesInv, LabelSound
  <2>7. d \in Valid <=> ~sub[d][g].obsolete
    BY <2>1, <2>3, <2>4 DEF Valid
  <2>8. d \in StaleReleased(g) <=> sub[d][g].released /\ sub[d][g].obsolete
    BY <2>1 DEF StaleReleased, stale_release
  <2>9. d \in FalseRevocations(g) <=> ~sub[d][g].released /\ ~sub[d][g].obsolete
    BY <2>1, <2>5 DEF FalseRevocations, false_revocation
  <2> QED BY <2>6, <2>7, <2>8, <2>9
<1> QED BY <1>1, MesInvariant, PTL

=============================================================================
