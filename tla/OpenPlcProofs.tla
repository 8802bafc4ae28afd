---------------------------- MODULE OpenPlcProofs ----------------------------
(***************************************************************************)
(* Proofs about OpenPlc, for any width of the version counter, its epoch   *)
(* and the sequence numbers, and any number of threads, commands, boots    *)
(* and timeouts.                                                           *)
(***************************************************************************)
EXTENDS OpenPlc, SequenceTheorems, TLAPS

-----------------------------------------------------------------------------
(* Division with remainder *)

LEMMA DivMod ==
  ASSUME NEW n \in Nat, NEW b \in Nat \ {0}
  PROVE  n \div b \in Nat /\ n % b \in 0..(b - 1) /\ n = b * (n \div b) + (n % b)
OBVIOUS

\* A quotient and a remainder are determined by their number.
LEMMA DivModUnique ==
  ASSUME NEW b \in Nat \ {0}, NEW p \in Nat, NEW q \in Nat,
         NEW r \in 0..(b - 1), NEW s \in 0..(b - 1), b * q + r = b * p + s
  PROVE  q = p /\ r = s
<1>1. CASE q > p
  <2>1. b * q >= b * (p + 1)
    BY <1>1
  <2>2. b * (p + 1) = b * p + b
    OBVIOUS
  <2> QED BY <2>1, <2>2
<1>2. CASE q < p
  <2>1. b * p >= b * (q + 1)
    BY <1>2
  <2>2. b * (q + 1) = b * q + b
    OBVIOUS
  <2> QED BY <2>1, <2>2
<1>3. CASE q = p
  BY <1>3
<1> QED BY <1>1, <1>2, <1>3

LEMMA ModIs ==
  ASSUME NEW b \in Nat \ {0}, NEW n \in Nat, NEW q \in Nat, NEW r \in 0..(b - 1),
         n = b * q + r
  PROVE  n % b = r
<1> DEFINE p == n \div b
           s == n % b
<1>1. p \in Nat /\ s \in 0..(b - 1) /\ n = b * p + s
  BY DivMod
<1>2. b * q + r = b * p + s
  BY <1>1
<1> HIDE DEF p, s
<1>3. r = s
  BY <1>1, <1>2, DivModUnique
<1> QED BY <1>3 DEF s

\* The remainder of the next number.
LEMMA ModNext ==
  ASSUME NEW n \in Nat, NEW b \in Nat \ {0}
  PROVE  (n + 1) % b = IF n % b < b - 1 THEN (n % b) + 1 ELSE 0
<1> DEFINE q == n \div b
           r == n % b
<1>1. q \in Nat /\ r \in 0..(b - 1) /\ n = b * q + r
  BY DivMod
<1> HIDE DEF q, r
<1>2. CASE r < b - 1
  <2>1. n + 1 = b * q + (r + 1) /\ r + 1 \in 0..(b - 1) /\ n + 1 \in Nat
    BY <1>1, <1>2
  <2>2. (n + 1) % b = r + 1
    BY <1>1, <2>1, ModIs
  <2> QED BY <1>2, <2>2 DEF r
<1>3. CASE ~(r < b - 1)
  <2>1. r = b - 1
    BY <1>1, <1>3
  <2>2. b * (q + 1) = b * q + b
    BY <1>1
  <2>3. n + 1 = b * (q + 1) + 0 /\ 0 \in 0..(b - 1) /\ n + 1 \in Nat /\ q + 1 \in Nat
    BY <1>1, <2>1, <2>2
  <2>4. (n + 1) % b = 0
    BY <2>3, ModIs
  <2> QED BY <1>3, <2>4 DEF r
<1> QED BY <1>2, <1>3

\* An even number has an even remainder when the divisor is even.
LEMMA EvenRest ==
  ASSUME NEW n \in Nat, NEW b \in Nat \ {0}, n % 2 = 0, b % 2 = 0
  PROVE  (n % b) % 2 = 0
<1> DEFINE k == n \div 2
           c == b \div 2
           q == n \div b
           r == n % b
<1>1. k \in Nat /\ n = 2 * k
  OBVIOUS
<1>2. c \in Nat /\ b = 2 * c
  OBVIOUS
<1>3. q \in Nat /\ r \in 0..(b - 1) /\ n = b * q + r
  BY DivMod
<1> HIDE DEF k, c, q, r
<1>4. b * q = 2 * (c * q)
  BY <1>2, <1>3
<1>5. c * q \in Int
  BY <1>2, <1>3
<1>6. r = 2 * (k - c * q)
  BY <1>1, <1>3, <1>4, <1>5
<1>7. k - c * q \in Int
  BY <1>1, <1>5
<1>8. r % 2 = 0
  BY <1>6, <1>7
<1> QED BY <1>8 DEF r

\* A pair of digits is below the product of their bases.
LEMMA DigitsBound ==
  ASSUME NEW b \in Nat \ {0}, NEW c \in Nat \ {0}, NEW r \in 0..(b - 1), NEW e \in 0..(c - 1)
  PROVE  /\ b * c \in Nat \ {0} /\ e * b + r \in 0..(b * c - 1)
         /\ e * b + r = b * c - 1 <=> (r = b - 1 /\ e = c - 1)
<1>1. b * c \in Nat /\ b * e \in Nat /\ e * b = b * e
  OBVIOUS
<1>2. b * (c - 1) = b * c - b
  OBVIOUS
<1>3. b * e <= b * (c - 1)
  OBVIOUS
<1>4. e < c - 1 => b * e <= b * (c - 1) - b
  <2>1. e < c - 1 => b * (e + 1) <= b * (c - 1)
    OBVIOUS
  <2>2. b * (e + 1) = b * e + b
    OBVIOUS
  <2> QED BY <1>1, <1>2, <2>1, <2>2
<1>5. b * c >= b
  OBVIOUS
<1>6. e = c - 1 => b * e = b * (c - 1)
  OBVIOUS
<1> DEFINE m == b * c
           x == b * e
           y == b * (c - 1)
<1>7. m \in Nat /\ x \in Nat /\ y = m - b /\ x <= y /\ (e < c - 1 => x <= y - b) /\ m >= b
      /\ (e = c - 1 => x = y) /\ e * b = x
  BY <1>1, <1>2, <1>3, <1>4, <1>5, <1>6
<1> HIDE DEF m, x, y
<1>8. m \in Nat \ {0} /\ x + r \in 0..(m - 1) /\ (x + r = m - 1 <=> (r = b - 1 /\ e = c - 1))
  BY <1>7
<1> QED BY <1>7, <1>8 DEF m

\* The two digits of a number, in the bases b and c, determine its remainder.
LEMMA DigitsMod ==
  ASSUME NEW b \in Nat \ {0}, NEW c \in Nat \ {0}, NEW n \in Nat
  PROVE  n % (b * c) = ((n \div b) % c) * b + (n % b)
<1> DEFINE q == n \div b
           r == n % b
           p == q \div c
           e == q % c
<1>1. q \in Nat /\ r \in 0..(b - 1) /\ n = b * q + r
  BY DivMod
<1>2. p \in Nat /\ e \in 0..(c - 1) /\ q = c * p + e
  <2> HIDE DEF q
  <2> QED BY <1>1, DivMod
<1>3. b * c \in Nat \ {0} /\ e * b + r \in 0..(b * c - 1)
  <2> HIDE DEF e, r
  <2> QED BY <1>1, <1>2, DigitsBound
<1> HIDE DEF q, r, p, e
<1>4. b * q = b * (c * p) + b * e
  BY <1>1, <1>2
<1>5. b * (c * p) = (b * c) * p /\ b * e = e * b /\ b * (c * p) \in Nat /\ b * e \in Nat
  BY <1>1, <1>2
<1> DEFINE m == b * c
           d == e * b + r
           x == b * (c * p)
           y == b * e
<1>6. n = m * p + d
  <2>1. n = (x + y) + r /\ x = m * p /\ d = y + r /\ x \in Nat /\ y \in Nat /\ r \in Nat
    BY <1>1, <1>4, <1>5
  <2> HIDE DEF m, d, x, y
  <2>2. n = x + d
    BY <2>1
  <2> QED BY <2>1, <2>2
<1>7. m \in Nat \ {0} /\ d \in 0..(m - 1) /\ n = m * p + d
  BY <1>3, <1>6
<1> HIDE DEF m, d
<1>8. n % m = d
  BY <1>2, <1>7, ModIs
<1> QED BY <1>8 DEF m, d, e, r, q

-----------------------------------------------------------------------------
(* The inductive invariant *)

Registers ==
  [line: {RUN, PAUSED}, counter: 0..(CounterSize - 1), epoch: 0..(EpochSize - 1),
   setReq: {None, RUN, PAUSED}, cmdSeq: 0..SeqMax, mode: Modes,
   expected: {None} \cup 0..(CounterSize - 1),
   expectedEpoch: {None} \cup 0..(EpochSize - 1), done: 0..SeqMax,
   result: 0..4, conveyor: BOOLEAN]

Commands ==
  [pc: {"idle", "number", "epoch", "write", "wait"}, call: 0..MaxCalls,
   mode: Modes, witness: Moments, number: 0..SeqMax]

Executions ==
  [call: 1..MaxCalls, mode: Modes, line: {RUN, PAUSED}, awaited: BOOLEAN, exact: BOOLEAN]

\* A request that will change the line has a change left.
ChangeLeft == plc.setReq # None /\ plc.setReq # plc.line => changes < MaxChanges

\* A witness names a moment at which the line was in RUN, or none.
Named(w) == w = NoMoment \/ (w.changes \in Nat /\ w.changes % 2 = 0)
WitnessRun == \A t \in Threads : Named(thread[t].witness)

\* So does the version a command in the registers expects.
ExpectedRun == plc.expected = None \/ (plc.expected \in Nat /\ plc.expected % 2 = 0)

\* A command that the PLC has not done was written since the boot, by a call.
Pending == plc.cmdSeq # plc.done => writer # NoCall

\* A thread that issues a command has a call of its own.
Called == \A t \in Threads : thread[t].pc # "idle" => thread[t].call \in 1..calls

VersionInv ==
  /\ PlcTypeOK /\ ChangeLeft /\ WitnessRun /\ Called /\ ExpectedRun /\ Pending
  /\ VersionCounts /\ ConditionalRun

\* What the type invariant says of the registers, the threads and the counts.
LEMMA Types ==
  ASSUME PlcTypeOK
  PROVE  /\ plc \in Registers /\ thread \in [Threads -> Commands]
         /\ effects \in Seq(Executions)
         /\ boots \in 1..MaxBoots /\ changes \in 0..MaxChanges /\ calls \in 0..MaxCalls
         /\ writer \in 0..MaxCalls /\ doneBy \in 0..MaxCalls
BY DEF PlcTypeOK, Registers, Commands, Executions

LEMMA Constants ==
  /\ CounterSize \in Nat \ {0} /\ CounterSize % 2 = 0 /\ EpochSize \in Nat \ {0}
  /\ SeqMax \in Nat /\ SeqMax > 1
  /\ MaxChanges \in Nat /\ MaxCalls \in Nat /\ MaxBoots \in Nat /\ MaxBoots > 0
  /\ MaxStalls \in Nat /\ MaxFailures \in Nat
BY PlcAssumption

LEMMA BootTypes == Booted \in Registers /\ Idle \in Commands /\ Named(NoMoment)
<1>1. NoMoment \in Moments
  BY Constants DEF NoMoment, Moments, None
<1>2. Idle \in Commands
  BY <1>1, Constants DEF Idle, Commands, Modes, NoCall
<1>3. Booted \in Registers
  BY Constants DEF Booted, Registers, Modes, None, RUN, PAUSED
<1> QED BY <1>2, <1>3 DEF Named

-----------------------------------------------------------------------------
(* The version *)

Version(r) == r.epoch * CounterSize + r.counter

\* the registers that a change of the line state leaves alone
SameCommand(r, s) ==
  /\ r.cmdSeq = s.cmdSeq /\ r.done = s.done /\ r.mode = s.mode
  /\ r.expected = s.expected /\ r.expectedEpoch = s.expectedEpoch

\* Advance counts one change: through the last value of the counter and of the
\* epoch, and the parity of the counter changes.
LEMMA AdvanceCounts ==
  ASSUME NEW r \in Registers, NEW n \in Nat,
         Version(r) = n % (CounterSize * EpochSize)
  PROVE  /\ Advance(r) \in Registers
         /\ Version(Advance(r)) = (n + 1) % (CounterSize * EpochSize)
         /\ Advance(r).counter % 2 = 0 <=> r.counter % 2 # 0
         /\ Advance(r).line = r.line /\ SameCommand(Advance(r), r)
<1> DEFINE b == CounterSize
           c == EpochSize
           m == b * c
           a == Advance(r)
<1>1. b \in Nat \ {0} /\ c \in Nat \ {0} /\ b % 2 = 0
  BY Constants
<1>2. r.counter \in 0..(b - 1) /\ r.epoch \in 0..(c - 1)
  BY DEF Registers
<1>3. /\ m \in Nat \ {0} /\ Version(r) \in 0..(m - 1)
      /\ Version(r) = m - 1 <=> (r.counter = b - 1 /\ r.epoch = c - 1)
  <2> DEFINE x == r.counter
             y == r.epoch
  <2>1. x \in 0..(b - 1) /\ y \in 0..(c - 1) /\ Version(r) = y * b + x
    BY <1>2 DEF Version
  <2> HIDE DEF x, y, b, c
  <2>2. /\ b * c \in Nat \ {0} /\ y * b + x \in 0..(b * c - 1)
        /\ y * b + x = b * c - 1 <=> (x = b - 1 /\ y = c - 1)
    BY <1>1, <2>1, DigitsBound
  <2> QED BY <2>1, <2>2 DEF x, y
<1>4. (n + 1) % m = IF Version(r) < m - 1 THEN Version(r) + 1 ELSE 0
  <2> HIDE DEF m
  <2> QED BY <1>3, ModNext DEF m
<1>5. CASE r.counter < b - 1
  <2>1. a = [r EXCEPT !.counter = r.counter + 1]
    BY <1>5 DEF Advance
  <2>a. r.counter + 1 \in 0..(b - 1)
    BY <1>1, <1>2, <1>5
  <2>2. a \in Registers /\ a.counter = r.counter + 1 /\ a.epoch = r.epoch
        /\ a.line = r.line /\ SameCommand(a, r)
    BY <2>a, <2>1 DEF Registers, SameCommand
  <2>3. Version(a) = Version(r) + 1
    <3>1. r.epoch * b \in Nat
      BY <1>1, <1>2
    <3> QED BY <1>2, <2>2, <3>1 DEF Version
  <2>4. Version(r) < m - 1
    <3> HIDE DEF m
    <3> QED BY <1>1, <1>2, <1>3, <1>5
  <2>5. (a.counter % 2 = 0) <=> (r.counter % 2 # 0)
    BY <1>2, <2>2
  <2> QED BY <1>4, <2>2, <2>3, <2>4, <2>5
<1>6. CASE ~(r.counter < b - 1)
  <2>1. r.counter = b - 1
    BY <1>1, <1>2, <1>6
  <2>2. a = [r EXCEPT !.counter = 0, !.epoch = IF r.epoch < c - 1 THEN r.epoch + 1 ELSE 0]
    BY <1>6 DEF Advance
  <2> DEFINE e == IF r.epoch < c - 1 THEN r.epoch + 1 ELSE 0
  <2>a. e \in 0..(c - 1) /\ 0 \in 0..(b - 1) /\ a = [r EXCEPT !.counter = 0, !.epoch = e]
    BY <1>1, <1>2, <2>2
  <2>b. a \in Registers /\ a.counter = 0 /\ a.epoch = e /\ a.line = r.line /\ SameCommand(a, r)
    <3> HIDE DEF e
    <3> QED BY <2>a DEF Registers, SameCommand
  <2>3. a \in Registers /\ a.counter = 0
        /\ a.epoch = (IF r.epoch < c - 1 THEN r.epoch + 1 ELSE 0)
        /\ a.line = r.line /\ SameCommand(a, r)
    BY <2>b
  <2>4. (a.counter % 2 = 0) /\ (r.counter % 2 # 0)
    BY <1>1, <1>2, <2>1, <2>3
  <2>5. CASE r.epoch < c - 1
    <3>1. (r.epoch + 1) * b = r.epoch * b + b
      BY <1>1, <1>2
    <3>2. r.epoch * b \in Nat
      BY <1>1, <1>2
    <3>3. Version(a) = Version(r) + 1
      BY <1>1, <2>1, <2>3, <2>5, <3>1, <3>2 DEF Version
    <3>4. Version(r) < m - 1
      <4> HIDE DEF m
      <4> QED BY <1>2, <1>3, <2>5
    <3> QED BY <1>4, <2>3, <2>4, <3>3, <3>4
  <2>6. CASE ~(r.epoch < c - 1)
    <3>1. Version(a) = 0
      BY <1>1, <2>3, <2>6 DEF Version
    <3>2. Version(r) = m - 1
      <4> HIDE DEF m
      <4> QED BY <1>1, <1>2, <1>3, <2>1, <2>6
    <3>3. (n + 1) % m = 0
      <4> HIDE DEF m
      <4> QED BY <1>3, <1>4, <3>2
    <3> QED BY <2>3, <2>4, <3>1, <3>3
  <2> QED BY <2>5, <2>6
<1> QED BY <1>5, <1>6

\* The first half of a scan counts the change of the line, if there is one, and
\* clears the request.
LEMMA RequestedCounts ==
  ASSUME VersionInv, Scan
  PROVE  LET r == Requested(plc) IN
         /\ r \in Registers /\ SameCommand(r, plc) /\ r.setReq = None
         /\ changes' \in 0..MaxChanges
         /\ Version(r) = changes' % (CounterSize * EpochSize)
         /\ r.line = RUN <=> r.counter % 2 = 0
<1> DEFINE r == Requested(plc)
<1>1. /\ plc \in Registers /\ changes \in 0..MaxChanges /\ MaxChanges \in Nat
      /\ Version(plc) = changes % (CounterSize * EpochSize)
      /\ plc.line = RUN <=> plc.counter % 2 = 0
      /\ plc.setReq # None /\ plc.setReq # plc.line => changes < MaxChanges
  BY Types, Constants DEF VersionInv, VersionCounts, Version, ChangeLeft
<1>2. changes' = IF r.line # plc.line THEN changes + 1 ELSE changes
  BY DEF Scan
<1>3. CASE plc.setReq = None
  <2>1. r = plc
    BY <1>3 DEF Requested
  <2> QED BY <1>1, <1>2, <1>3, <2>1 DEF SameCommand
<1>4. CASE plc.setReq # None /\ plc.setReq = plc.line
  <2>1. r = [plc EXCEPT !.setReq = None, !.conveyor = @ /\ plc.setReq # PAUSED]
    BY <1>4 DEF Requested
  <2>2. r \in Registers /\ SameCommand(r, plc) /\ r.setReq = None /\ r.line = plc.line
        /\ r.counter = plc.counter /\ r.epoch = plc.epoch
    BY <1>1, <2>1 DEF Registers, SameCommand, None
  <2> QED BY <1>1, <1>2, <2>2 DEF Version
<1>5. CASE plc.setReq # None /\ plc.setReq # plc.line
  <2> DEFINE s == [plc EXCEPT !.line = plc.setReq]
             a == Advance(s)
  <2>1. s \in Registers /\ SameCommand(s, plc) /\ s.line = plc.setReq
        /\ s.counter = plc.counter /\ s.epoch = plc.epoch
    BY <1>1, <1>5 DEF Registers, SameCommand, None
  <2>2. Version(s) = changes % (CounterSize * EpochSize) /\ changes \in Nat
    BY <1>1, <2>1 DEF Version
  <2>3. /\ a \in Registers /\ a.line = s.line /\ SameCommand(a, s)
        /\ Version(a) = (changes + 1) % (CounterSize * EpochSize)
        /\ a.counter % 2 = 0 <=> s.counter % 2 # 0
    <3> HIDE DEF s
    <3> QED BY <2>1, <2>2, AdvanceCounts
  <2>4. r = [a EXCEPT !.setReq = None, !.conveyor = @ /\ plc.setReq # PAUSED]
    BY <1>5 DEF Requested
  <2>5. r \in Registers /\ r.setReq = None /\ SameCommand(r, a) /\ r.line = a.line
        /\ r.counter = a.counter /\ r.epoch = a.epoch
    <3> HIDE DEF a
    <3> QED BY <2>3, <2>4 DEF Registers, SameCommand, None
  <2>6. SameCommand(r, plc)
    BY <2>1, <2>3, <2>5 DEF SameCommand
  <2>7. r.line = plc.setReq /\ r.line # plc.line
    BY <1>5, <2>1, <2>3, <2>5
  <2>8. changes' = changes + 1 /\ changes' \in 0..MaxChanges
    BY <1>1, <1>2, <1>5, <2>7
  <2>9. Version(r) = changes' % (CounterSize * EpochSize)
    BY <2>3, <2>5, <2>8 DEF Version
  <2>10. r.line = RUN <=> r.counter % 2 = 0
    <3>1. plc.line = RUN <=> r.line # RUN
      BY <1>1, <2>5, <2>7 DEF Registers, RUN, PAUSED
    <3>2. (r.counter % 2 = 0) <=> (plc.counter % 2 # 0)
      BY <2>1, <2>3, <2>5
    <3> QED BY <1>1, <3>1, <3>2
  <2> QED BY <2>5, <2>6, <2>8, <2>9, <2>10
<1> QED BY <1>3, <1>4, <1>5

\* A version-conditional or interlocked command is accepted on a running line
\* only.
LEMMA AcceptsRun ==
  ASSUME NEW r \in Registers, Accepts(r), r.mode # "plain",
         r.line = RUN <=> r.counter % 2 = 0,
         r.expected = None \/ (r.expected \in Nat /\ r.expected % 2 = 0)
  PROVE  r.line = RUN
<1>1. CASE r.mode = "predicate"
  BY <1>1 DEF Accepts
<1>2. CASE r.mode = "version"
  <2>1. r.expected = r.counter /\ r.counter # None
    BY <1>2, Constants DEF Accepts, Registers, None
  <2> QED BY <2>1
<1> QED BY <1>1, <1>2 DEF Registers, Modes

\* The registers after a scan.
LEMMA ScanTypes ==
  ASSUME VersionInv, Scan
  PROVE  /\ plc' \in Registers /\ plc'.setReq = None /\ plc'.cmdSeq = plc.cmdSeq
         /\ plc'.done = plc.cmdSeq
         /\ plc'.mode = plc.mode /\ plc'.expected = plc.expected
         /\ plc'.expectedEpoch = plc.expectedEpoch
         /\ plc'.line = Requested(plc).line /\ plc'.counter = Requested(plc).counter
         /\ plc'.epoch = Requested(plc).epoch
<1> DEFINE r == Requested(plc)
<1>1. r \in Registers /\ SameCommand(r, plc) /\ r.setReq = None
  BY RequestedCounts
<1>2. CASE r.cmdSeq = r.done
  BY <1>1, <1>2 DEF Scan, SameCommand
<1>3. CASE r.cmdSeq # r.done
  <2>1. Result(r) \in 0..4 /\ (r.conveyor \/ Accepts(r)) \in BOOLEAN
    BY DEF Result
  <2>2. plc' = [r EXCEPT !.done = r.cmdSeq, !.result = Result(r),
                         !.conveyor = r.conveyor \/ Accepts(r)]
    BY <1>3 DEF Scan
  <2>3. plc' \in Registers
    <3> HIDE DEF r
    <3> QED BY <1>1, <2>1, <2>2 DEF Registers
  <2>4. /\ plc'.done = r.cmdSeq /\ plc'.setReq = r.setReq /\ plc'.cmdSeq = r.cmdSeq
        /\ plc'.mode = r.mode /\ plc'.expected = r.expected
        /\ plc'.expectedEpoch = r.expectedEpoch
        /\ plc'.line = r.line /\ plc'.counter = r.counter /\ plc'.epoch = r.epoch
    <3> HIDE DEF r
    <3> QED BY <1>1, <2>2 DEF Registers
  <2> QED BY <1>1, <2>3, <2>4 DEF SameCommand
<1> QED BY <1>2, <1>3

\* What a scan executes.
LEMMA ScanEffects ==
  ASSUME VersionInv, Scan
  PROVE  LET r == Requested(plc) IN
         /\ effects' \in Seq(Executions)
         /\ \/ effects' = effects
            \/ /\ plc.cmdSeq # plc.done /\ writer # NoCall /\ Accepts(r)
               /\ effects' = Append(effects, Effect(r))
               /\ Effect(r) \in Executions
               /\ Effect(r).call = writer /\ Effect(r).mode = plc.mode
               /\ Effect(r).line = r.line
<1> DEFINE r == Requested(plc)
<1>1. r \in Registers /\ SameCommand(r, plc)
  BY RequestedCounts
<1>2. effects \in Seq(Executions) /\ writer \in 0..MaxCalls /\ MaxCalls \in Nat
  BY Types, Constants DEF VersionInv
<1>3. CASE r.cmdSeq # r.done /\ Accepts(r)
  <2>1. plc.cmdSeq # plc.done /\ writer # NoCall
    BY <1>1, <1>3 DEF SameCommand, VersionInv, Pending
  <2>2. writer \in 1..MaxCalls
    BY <1>2, <2>1 DEF NoCall
  <2>3. Effect(r) \in Executions /\ Effect(r).call = writer /\ Effect(r).mode = r.mode
        /\ Effect(r).line = r.line
    <3> HIDE DEF r
    <3> QED BY <1>1, <2>2 DEF Effect, Executions, Registers
  <2>4. effects' = Append(effects, Effect(r))
    BY <1>3 DEF Scan
  <2>5. effects' \in Seq(Executions)
    BY <1>2, <2>3, <2>4, AppendProperties
  <2> QED BY <1>1, <1>3, <2>1, <2>3, <2>4, <2>5 DEF SameCommand
<1>4. CASE ~(r.cmdSeq # r.done /\ Accepts(r))
  BY <1>2, <1>4 DEF Scan
<1> QED BY <1>3, <1>4

-----------------------------------------------------------------------------
(* The threads *)

\* The state s that a step gives thread t.
Move(t, s) ==
  LET o == thread[t] IN
  /\ thread' = [thread EXCEPT ![t] = s]
  /\ \/ s = Idle /\ o.pc = "wait" /\ calls' = calls
     \/ /\ o.pc = "idle" /\ s.pc = "number" /\ s.call = calls + 1 /\ calls' = calls + 1
        /\ calls < MaxCalls /\ s.witness \in Witnesses
     \/ /\ <<o.pc, s.pc>> \in {<<"number", "epoch">>, <<"epoch", "write">>, <<"write", "wait">>}
        /\ s.call = o.call /\ s.mode = o.mode /\ s.witness = o.witness /\ calls' = calls
        /\ s.pc # "epoch" => s.number = o.number

LEMMA ThreadMoves ==
  ASSUME PlcTypeOK, NEW t \in Threads,
         ThreadStep(t) \/ \E mode \in Modes, w \in Witnesses : Call(t, mode, w)
  PROVE  \E s \in Commands : Move(t, s)
<1> DEFINE o == thread[t]
<1>1. o \in Commands /\ plc \in Registers /\ boots \in 1..MaxBoots /\ changes \in 0..MaxChanges
      /\ calls \in 0..MaxCalls
  BY Types
<1>2. ASSUME NEW mode \in Modes, NEW w \in Witnesses, Call(t, mode, w)
      PROVE  \E s \in Commands : Move(t, s)
  <2> DEFINE s == [Idle EXCEPT !.pc = "number", !.call = calls + 1, !.mode = mode, !.witness = w]
  <2>1. w \in Moments
    BY <1>1, Constants, BootTypes DEF Witnesses, Moments, Commands, NoMoment, None
  <2>2. calls + 1 \in 0..MaxCalls
    <3>1. calls < MaxCalls
      BY <1>2 DEF Call
    <3> QED BY <1>1, <3>1, Constants
  <2>3. s \in Commands /\ s.pc = "number" /\ s.call = calls + 1 /\ s.witness = w
    BY <2>1, <2>2, BootTypes DEF Commands
  <2>4. thread' = [thread EXCEPT ![t] = s] /\ calls' = calls + 1 /\ calls < MaxCalls /\ o.pc = "idle"
    BY <1>2 DEF Call, At
  <2> QED BY <2>3, <2>4 DEF Move
<1>3. CASE Number(t)
  <2> DEFINE n == NextNumber(IF seq[ObjectOf[t]] = None THEN plc.done ELSE seq[ObjectOf[t]])
             s == [o EXCEPT !.pc = "epoch", !.number = n]
  <2>1. n \in 0..SeqMax
    <3>1. plc.done \in 0..SeqMax /\ seq[ObjectOf[t]] \in {None} \cup 1..SeqMax
      BY <1>1, PlcAssumption DEF Registers, PlcTypeOK
    <3> QED BY <3>1, Constants DEF NextNumber, None
  <2>2. s \in Commands /\ s.pc = "epoch" /\ s.call = o.call /\ s.mode = o.mode
        /\ s.witness = o.witness
    <3> HIDE DEF n
    <3> QED BY <1>1, <2>1 DEF Commands
  <2>3. thread' = [thread EXCEPT ![t] = s] /\ calls' = calls /\ o.pc = "number"
    BY <1>3 DEF Number, At, historyVars
  <2> QED BY <2>2, <2>3 DEF Move
<1>4. CASE WriteEpoch(t)
  <2> DEFINE s == [o EXCEPT !.pc = "write"]
  <2>1. s \in Commands /\ s.pc = "write" /\ s.call = o.call /\ s.mode = o.mode
        /\ s.witness = o.witness /\ s.number = o.number
    BY <1>1 DEF Commands
  <2>2. thread' = [thread EXCEPT ![t] = s] /\ calls' = calls /\ o.pc = "epoch"
    BY <1>4 DEF WriteEpoch, At, historyVars
  <2> QED BY <2>1, <2>2 DEF Move
<1>5. CASE WriteCommand(t)
  <2> DEFINE s == [o EXCEPT !.pc = "wait"]
  <2>1. s \in Commands /\ s.pc = "wait" /\ s.call = o.call /\ s.mode = o.mode
        /\ s.witness = o.witness /\ s.number = o.number
    BY <1>1 DEF Commands
  <2>2. thread' = [thread EXCEPT ![t] = s] /\ calls' = calls /\ o.pc = "write"
    BY <1>5 DEF WriteCommand, At
  <2> QED BY <2>1, <2>2 DEF Move
<1>6. CASE Return(t) \/ TimeOut(t)
  BY <1>6, BootTypes DEF Return, TimeOut, At, Move, historyVars
<1> QED BY <1>2, <1>3, <1>4, <1>5, <1>6 DEF ThreadStep

\* The expected version that a command writes is its witness's.
LEMMA WrittenVersion ==
  ASSUME NEW w \in Moments, Named(w)
  PROVE  LET e == IF w = NoMoment THEN None ELSE (w.changes \div CounterSize) % EpochSize
             c == IF w = NoMoment THEN None ELSE w.changes % CounterSize
         IN  /\ e \in {None} \cup 0..(EpochSize - 1)
             /\ c \in {None} \cup 0..(CounterSize - 1)
             /\ c = None \/ (c \in Nat /\ c % 2 = 0)
<1>1. CASE w = NoMoment
  BY <1>1
<1>2. CASE w # NoMoment
  <2> DEFINE n == w.changes
             q == n \div CounterSize
             c == n % CounterSize
             e == q % EpochSize
  <2>1. n \in Nat /\ n % 2 = 0
    BY <1>2 DEF Named
  <2> HIDE DEF n
  <2>2. q \in Nat /\ c \in 0..(CounterSize - 1)
    BY <2>1, Constants, DivMod
  <2>3. c % 2 = 0
    BY <2>1, Constants, EvenRest
  <2> HIDE DEF q
  <2>4. e \in 0..(EpochSize - 1)
    BY <2>2, Constants, DivMod
  <2> HIDE DEF c, e
  <2>5. c \in Nat
    BY <2>2, Constants
  <2> QED BY <1>2, <2>2, <2>3, <2>4, <2>5 DEF n, q, c, e
<1> QED BY <1>1, <1>2

\* What a step that is no scan does to the registers.
LEMMA RegisterSteps ==
  ASSUME VersionInv, [Next]_vars
  PROVE  \/ Scan
         \/ Boot /\ UNCHANGED <<thread, calls>>
         \/ \E v \in {RUN, PAUSED} : SetState(v) /\ UNCHANGED <<thread, historyVars>>
         \/ \E t \in Threads : WriteEpoch(t)
         \/ \E t \in Threads : WriteCommand(t)
         \/ UNCHANGED <<plc, boots, changes, writer, doneBy, effects>>
BY DEF Next, SetState, ThreadStep, Call, Number, Return, TimeOut, BridgePoll, Boot,
       vars, historyVars, clientVars

-----------------------------------------------------------------------------
(* Versions and conditional commands *)

\* The registers and the counts of changes and boots.
LEMMA RegistersStep ==
  ASSUME VersionInv, [Next]_vars
  PROVE  /\ plc' \in Registers /\ changes' \in 0..MaxChanges /\ boots' \in 1..MaxBoots
         /\ VersionCounts' /\ ChangeLeft' /\ ExpectedRun'
<1>1. /\ plc \in Registers /\ changes \in 0..MaxChanges /\ boots \in 1..MaxBoots
      /\ VersionCounts /\ ChangeLeft /\ ExpectedRun
      /\ thread \in [Threads -> Commands]
      /\ \A t \in Threads : Named(thread[t].witness)
  BY Types DEF VersionInv, WitnessRun
<1> USE DEF VersionCounts, ChangeLeft, ExpectedRun
<1>2. CASE Scan
  <2> DEFINE r == Requested(plc)
  <2>1. /\ changes' \in 0..MaxChanges
        /\ r.epoch * CounterSize + r.counter = changes' % (CounterSize * EpochSize)
        /\ r.line = RUN <=> r.counter % 2 = 0
    BY <1>2, RequestedCounts DEF Version
  <2>2. /\ plc' \in Registers /\ plc'.setReq = None /\ plc'.expected = plc.expected
        /\ plc'.line = r.line /\ plc'.counter = r.counter /\ plc'.epoch = r.epoch
    BY <1>2, ScanTypes
  <2>3. boots' = boots
    BY <1>2 DEF Scan
  <2> HIDE DEF r
  <2> QED BY <1>1, <2>1, <2>2, <2>3
<1>3. CASE Boot
  <2>1. plc' = Booted /\ changes' = 0 /\ boots' \in 1..MaxBoots
    BY <1>1, <1>3, Constants DEF Boot
  <2>2. /\ Booted \in Registers /\ Booted.setReq = None /\ Booted.expected = None
        /\ Booted.counter = 0 /\ Booted.epoch = 0 /\ Booted.line = RUN
    BY BootTypes DEF Booted
  <2>3. CounterSize * EpochSize \in Nat \ {0}
    BY Constants
  <2>4. 0 % (CounterSize * EpochSize) = 0
    <3> DEFINE m == CounterSize * EpochSize
    <3>1. m \in Nat \ {0}
      BY <2>3
    <3> HIDE DEF m
    <3>2. 0 % m = 0
      BY <3>1
    <3> QED BY <3>2 DEF m
  <2>5. 0 * CounterSize + 0 = 0 /\ 0 % 2 = 0 /\ 0 \in 0..MaxChanges
    BY Constants
  <2> QED BY <2>1, <2>2, <2>4, <2>5
<1>4. ASSUME NEW v \in {RUN, PAUSED}, SetState(v)
      PROVE  /\ plc' \in Registers /\ changes' = changes /\ boots' = boots
             /\ VersionCounts' /\ ChangeLeft' /\ ExpectedRun'
  <2>1. plc' = [plc EXCEPT !.setReq = v] /\ UNCHANGED <<changes, boots>>
        /\ (v # plc.line => changes < MaxChanges)
    BY <1>4 DEF SetState, historyVars
  <2>2. /\ plc' \in Registers /\ plc'.setReq = v /\ plc'.line = plc.line
        /\ plc'.counter = plc.counter /\ plc'.epoch = plc.epoch /\ plc'.expected = plc.expected
    BY <1>1, <2>1 DEF Registers, RUN, PAUSED
  <2> QED BY <1>1, <2>1, <2>2
<1>5. ASSUME NEW t \in Threads, WriteEpoch(t)
      PROVE  /\ plc' \in Registers /\ changes' = changes /\ boots' = boots
             /\ VersionCounts' /\ ChangeLeft' /\ ExpectedRun'
  <2> DEFINE w == thread[t].witness
             e == IF w = NoMoment THEN None ELSE (w.changes \div CounterSize) % EpochSize
  <2>1. e \in {None} \cup 0..(EpochSize - 1)
    <3>1. w \in Moments /\ Named(w)
      BY <1>1 DEF Commands
    <3> HIDE DEF w
    <3> QED BY <3>1, WrittenVersion
  <2>2. plc' = [plc EXCEPT !.expectedEpoch = e] /\ UNCHANGED <<changes, boots>>
    BY <1>5 DEF WriteEpoch, historyVars
  <2> HIDE DEF e
  <2>3. /\ plc' \in Registers /\ plc'.setReq = plc.setReq /\ plc'.line = plc.line
        /\ plc'.counter = plc.counter /\ plc'.epoch = plc.epoch /\ plc'.expected = plc.expected
    BY <1>1, <2>1, <2>2 DEF Registers
  <2> QED BY <1>1, <2>2, <2>3
<1>6. ASSUME NEW t \in Threads, WriteCommand(t)
      PROVE  /\ plc' \in Registers /\ changes' = changes /\ boots' = boots
             /\ VersionCounts' /\ ChangeLeft' /\ ExpectedRun'
  <2> DEFINE w == thread[t].witness
             c == IF w = NoMoment THEN None ELSE w.changes % CounterSize
  <2>0. w \in Moments /\ Named(w) /\ thread[t].number \in 0..SeqMax /\ thread[t].mode \in Modes
    BY <1>1 DEF Commands
  <2>1. /\ c \in {None} \cup 0..(CounterSize - 1)
        /\ c = None \/ (c \in Nat /\ c % 2 = 0)
    <3> HIDE DEF w
    <3> QED BY <2>0, WrittenVersion
  <2>2. plc' = [plc EXCEPT !.cmdSeq = thread[t].number, !.mode = thread[t].mode, !.expected = c]
        /\ UNCHANGED <<changes, boots>>
    BY <1>6 DEF WriteCommand
  <2> HIDE DEF c
  <2>3. /\ plc' \in Registers /\ plc'.setReq = plc.setReq /\ plc'.line = plc.line
        /\ plc'.counter = plc.counter /\ plc'.epoch = plc.epoch /\ plc'.expected = c
    BY <1>1, <2>0, <2>1, <2>2 DEF Registers
  <2> QED BY <1>1, <2>1, <2>2, <2>3
<1>7. CASE UNCHANGED <<plc, boots, changes, writer, doneBy, effects>>
  BY <1>1, <1>7
<1> QED BY <1>1, <1>2, <1>3, <1>4, <1>5, <1>6, <1>7, RegisterSteps

\* The threads' witnesses, and who wrote the command in the registers.
LEMMA ThreadsStep ==
  ASSUME VersionInv, [Next]_vars
  PROVE  /\ thread' \in [Threads -> Commands] /\ calls' \in 0..MaxCalls
         /\ WitnessRun' /\ Called'
<1>1. /\ thread \in [Threads -> Commands] /\ calls \in 0..MaxCalls /\ MaxCalls \in Nat
      /\ changes \in 0..MaxChanges /\ MaxChanges \in Nat
      /\ \A t \in Threads : Named(thread[t].witness)
      /\ \A t \in Threads : thread[t].pc # "idle" => thread[t].call \in 1..calls
  BY Types, Constants DEF VersionInv, WitnessRun, Called
<1>2. CASE UNCHANGED <<thread, calls>>
  BY <1>1, <1>2 DEF WitnessRun, Called
<1>3. ASSUME NEW t \in Threads, NEW s \in Commands, Move(t, s)
      PROVE  /\ thread' \in [Threads -> Commands] /\ calls' \in 0..MaxCalls
             /\ WitnessRun' /\ Called'
  <2>1. thread' = [thread EXCEPT ![t] = s]
    BY <1>3 DEF Move
  <2>2. calls' \in 0..MaxCalls
    BY <1>1, <1>3 DEF Move
  <2>3. \A w \in Witnesses : Named(w)
    BY <1>1 DEF Witnesses, Named
  <2>4. s = Idle => Named(s.witness)
    BY BootTypes DEF Idle
  <2>5. Named(s.witness)
    BY <1>1, <1>3, <2>3, <2>4 DEF Move
  <2>6. \A u \in Threads : thread'[u] = s \/ thread'[u] = thread[u]
    BY <1>1, <2>1
  <2>7. \A u \in Threads : Named(thread'[u].witness)
    BY <1>1, <2>5, <2>6
  <2>8. s.pc # "idle" => s.call \in 1..calls'
    BY <1>1, <1>3 DEF Move, Idle
  <2>9. \A n \in 1..calls : n \in 1..calls'
    BY <1>1, <1>3 DEF Move
  <2>10. \A u \in Threads : thread'[u].pc # "idle" => thread'[u].call \in 1..calls'
    BY <1>1, <2>6, <2>8, <2>9
  <2> QED BY <1>1, <2>1, <2>2, <2>7, <2>10 DEF WitnessRun, Named, Called
<1>4. \/ UNCHANGED <<thread, calls>>
      \/ \E t \in Threads :
           ThreadStep(t) \/ \E mode \in Modes, w \in Witnesses : Call(t, mode, w)
  BY DEF Next, Scan, Boot, SetState, BridgePoll, vars, clientVars, historyVars
<1> QED BY <1>2, <1>3, <1>4, ThreadMoves DEF VersionInv

\* The commands executed, and who wrote the one in the registers.
LEMMA EffectsStep ==
  ASSUME VersionInv, [Next]_vars
  PROVE  /\ effects' \in Seq(Executions) /\ writer' \in 0..MaxCalls /\ doneBy' \in 0..MaxCalls
         /\ Pending' /\ ConditionalRun'
<1>1. /\ effects \in Seq(Executions) /\ writer \in 0..MaxCalls /\ doneBy \in 0..MaxCalls
      /\ Pending /\ ConditionalRun /\ MaxCalls \in Nat /\ calls \in 0..MaxCalls
  BY Types, Constants DEF VersionInv
<1>2. CASE Scan
  <2> DEFINE r == Requested(plc)
  <2>1. writer' = writer /\ (doneBy' = writer \/ doneBy' = doneBy)
    BY <1>2 DEF Scan
  <2>2. Pending'
    BY <1>2, ScanTypes DEF Pending
  <2>3. effects' \in Seq(Executions)
    BY <1>2, ScanEffects
  <2>4. ConditionalRun'
    <3>1. CASE effects' = effects
      BY <1>1, <3>1 DEF ConditionalRun
    <3>2. CASE effects' # effects
      <4> DEFINE e == Effect(r)
      <4>1. /\ effects' = Append(effects, e) /\ Accepts(r)
            /\ e.mode = plc.mode /\ e.line = r.line /\ e \in Executions
        BY <1>2, <3>2, ScanEffects
      <4>2. /\ r \in Registers /\ SameCommand(r, plc)
            /\ r.line = RUN <=> r.counter % 2 = 0
        BY <1>2, RequestedCounts
      <4>3. r.expected = None \/ (r.expected \in Nat /\ r.expected % 2 = 0)
        BY <4>2 DEF SameCommand, VersionInv, ExpectedRun
      <4>4. e.mode # "plain" => e.line = RUN
        <5> HIDE DEF r
        <5> QED BY <4>1, <4>2, <4>3, AcceptsRun DEF SameCommand
      <4> HIDE DEF e
      <4>5. /\ Len(effects') = Len(effects) + 1 /\ Len(effects) \in Nat
            /\ \A n \in 1..Len(effects) : effects'[n] = effects[n]
            /\ effects'[Len(effects) + 1] = e
            /\ DOMAIN effects' = 1..Len(effects') /\ DOMAIN effects = 1..Len(effects)
        BY <1>1, <2>3, <4>1, AppendProperties, LenProperties
      <4>6. \A n \in DOMAIN effects' : n \in DOMAIN effects \/ n = Len(effects) + 1
        BY <4>5
      <4> QED BY <1>1, <4>4, <4>5, <4>6 DEF ConditionalRun
    <3> QED BY <3>1, <3>2
  <2> QED BY <1>1, <2>1, <2>2, <2>3, <2>4
<1>3. CASE Boot
  <2>1. plc' = Booted /\ writer' = NoCall /\ doneBy' = NoCall /\ effects' = effects
    BY <1>3 DEF Boot
  <2>2. Booted.cmdSeq = Booted.done
    BY DEF Booted
  <2> QED BY <1>1, <2>1, <2>2 DEF Pending, ConditionalRun, NoCall
<1>4. ASSUME NEW v \in {RUN, PAUSED}, SetState(v)
      PROVE  plc'.cmdSeq = plc.cmdSeq /\ plc'.done = plc.done /\ UNCHANGED <<effects, writer, doneBy>>
  BY <1>4, Types DEF SetState, historyVars, VersionInv, Registers
<1>5. ASSUME NEW t \in Threads, WriteEpoch(t)
      PROVE  plc'.cmdSeq = plc.cmdSeq /\ plc'.done = plc.done /\ UNCHANGED <<effects, writer, doneBy>>
  BY <1>5, Types DEF WriteEpoch, historyVars, VersionInv, Registers
<1>6. ASSUME NEW t \in Threads, WriteCommand(t)
      PROVE  writer' \in 1..MaxCalls /\ UNCHANGED <<effects, doneBy>>
  <2>1. thread[t].call \in 1..calls
    BY <1>6 DEF WriteCommand, At, VersionInv, Called
  <2> QED BY <1>1, <1>6, <2>1 DEF WriteCommand
<1>7. CASE \E t \in Threads : WriteCommand(t)
  <2>1. writer' \in 1..MaxCalls /\ UNCHANGED <<effects, doneBy>>
    BY <1>6, <1>7
  <2> QED BY <1>1, <2>1 DEF Pending, ConditionalRun, NoCall
<1>8. CASE plc'.cmdSeq = plc.cmdSeq /\ plc'.done = plc.done /\ UNCHANGED <<effects, writer, doneBy>>
  BY <1>1, <1>8 DEF Pending, ConditionalRun
<1> QED BY <1>2, <1>3, <1>4, <1>5, <1>7, <1>8, RegisterSteps

\* The locks, the numbers and the bounds.
LEMMA ClientsStep ==
  ASSUME VersionInv, [Next]_vars
  PROVE  /\ seq' \in [Objects -> {None} \cup 1..SeqMax]
         /\ cmdLock' \in [Objects -> Threads \cup {NoThread}]
         /\ failures' \in 0..MaxFailures /\ stalls' \in 0..MaxStalls
<1>1. /\ seq \in [Objects -> {None} \cup 1..SeqMax]
      /\ cmdLock \in [Objects -> Threads \cup {NoThread}]
      /\ failures \in 0..MaxFailures /\ stalls \in 0..MaxStalls
      /\ MaxFailures \in Nat /\ MaxStalls \in Nat
      /\ \A t \in Threads : ObjectOf[t] \in Objects
  BY PlcAssumption DEF VersionInv, PlcTypeOK
<1>2. ASSUME NEW t \in Threads, Number(t)
      PROVE  /\ seq' \in [Objects -> {None} \cup 1..SeqMax]
             /\ UNCHANGED <<cmdLock, failures, stalls>>
  <2> DEFINE m == IF seq[ObjectOf[t]] = None THEN plc.done ELSE seq[ObjectOf[t]]
             n == NextNumber(m)
  <2>1. m \in 0..SeqMax
    <3>1. plc.done \in 0..SeqMax /\ seq[ObjectOf[t]] \in {None} \cup 1..SeqMax
      BY <1>1, Types DEF VersionInv, Registers
    <3> QED BY <3>1, Constants
  <2>2. n \in 1..SeqMax
    <3> HIDE DEF m
    <3> QED BY <2>1, Constants DEF NextNumber
  <2>3. seq' = [seq EXCEPT ![ObjectOf[t]] = n] /\ UNCHANGED <<cmdLock, failures, stalls>>
    BY <1>2 DEF Number, bridgeVars
  <2> HIDE DEF n
  <2> QED BY <1>1, <2>2, <2>3
<1>3. ASSUME NEW t \in Threads, NEW mode, NEW w, Call(t, mode, w)
      PROVE  /\ cmdLock' \in [Objects -> Threads \cup {NoThread}]
             /\ UNCHANGED <<seq, failures, stalls>>
  BY <1>1, <1>3 DEF Call, bridgeVars
<1>4. ASSUME NEW t \in Threads, Return(t)
      PROVE  /\ cmdLock' \in [Objects -> Threads \cup {NoThread}]
             /\ UNCHANGED <<seq, failures, stalls>>
  BY <1>1, <1>4 DEF Return, bridgeVars
<1>5. ASSUME NEW t \in Threads, TimeOut(t)
      PROVE  /\ cmdLock' \in [Objects -> Threads \cup {NoThread}]
             /\ UNCHANGED <<seq, failures>> /\ stalls' \in 0..MaxStalls
  <2>1. cmdLock' = [cmdLock EXCEPT ![ObjectOf[t]] = NoThread] /\ UNCHANGED <<seq, failures>>
    BY <1>5 DEF TimeOut, bridgeVars
  <2>2. stalls' = stalls \/ (stalls < MaxStalls /\ stalls' = stalls + 1)
    BY <1>5 DEF TimeOut
  <2>3. stalls' \in 0..MaxStalls
    BY <1>1, <2>2
  <2> QED BY <1>1, <2>1, <2>3
<1>6. ASSUME BridgePoll
      PROVE  failures' \in 0..MaxFailures /\ UNCHANGED <<seq, cmdLock, stalls>>
  <2>1. failures' = failures \/ (failures < MaxFailures /\ failures' = failures + 1)
    BY <1>6 DEF BridgePoll
  <2>2. failures' \in 0..MaxFailures
    BY <1>1, <2>1
  <2> QED BY <1>6, <2>2 DEF BridgePoll, clientVars
<1>7. \/ UNCHANGED <<seq, cmdLock, failures, stalls>> \/ BridgePoll
      \/ \E t \in Threads, mode \in Modes, w \in Witnesses : Call(t, mode, w)
      \/ \E t \in Threads : Number(t) \/ Return(t) \/ TimeOut(t)
  BY DEF Next, Scan, Boot, SetState, ThreadStep, WriteEpoch, WriteCommand, vars, clientVars, bridgeVars
<1> QED BY <1>1, <1>2, <1>3, <1>4, <1>5, <1>6, <1>7

LEMMA VersionInvInit == Init => VersionInv
<1> SUFFICES ASSUME Init PROVE VersionInv
  OBVIOUS
<1>1. PICK d \in Earlier : plc = [Booted EXCEPT !.cmdSeq = d, !.done = d]
  BY DEF Init
<1>2. d \in 0..SeqMax
  BY PlcAssumption
<1>3. /\ plc \in Registers /\ plc.cmdSeq = plc.done /\ plc.setReq = None /\ plc.expected = None
      /\ plc.counter = 0 /\ plc.epoch = 0 /\ plc.line = RUN
  <2>1. plc \in Registers /\ plc.cmdSeq = plc.done
    BY <1>1, <1>2, BootTypes DEF Registers
  <2>2. /\ plc.setReq = Booted.setReq /\ plc.expected = Booted.expected
        /\ plc.counter = Booted.counter /\ plc.epoch = Booted.epoch /\ plc.line = Booted.line
    BY <1>1, BootTypes DEF Registers
  <2> QED BY <2>1, <2>2 DEF Booted
<1>4. thread \in [Threads -> Commands] /\ \A t \in Threads : thread[t] = Idle
  BY BootTypes DEF Init
<1>5. PlcTypeOK
  <2>1. effects \in Seq(Executions)
    BY EmptySeq DEF Init
  <2>2. seq \in [Objects -> {None} \cup 1..SeqMax] /\ cmdLock \in [Objects -> Threads \cup {NoThread}]
    BY DEF Init
  <2>3. /\ boots \in 1..MaxBoots /\ changes \in 0..MaxChanges
        /\ {writer, doneBy, calls} \subseteq 0..MaxCalls
        /\ failures \in 0..MaxFailures /\ stalls \in 0..MaxStalls
    BY Constants DEF Init, NoCall
  <2> QED BY <1>3, <1>4, <2>1, <2>2, <2>3 DEF PlcTypeOK, Registers, Commands, Executions
<1>6. VersionCounts
  <2> DEFINE m == CounterSize * EpochSize
  <2>1. m \in Nat \ {0} /\ CounterSize \in Nat
    BY Constants
  <2> HIDE DEF m
  <2>2. 0 % m = 0 /\ 0 * CounterSize + 0 = 0 /\ 0 % 2 = 0
    BY <2>1
  <2>3. changes = 0
    BY DEF Init
  <2> QED BY <1>3, <2>2, <2>3 DEF VersionCounts, m
<1>7. ConditionalRun
  BY DEF Init, ConditionalRun
<1>8. WitnessRun /\ Called
  BY <1>4, BootTypes DEF WitnessRun, Called, Idle
<1> QED BY <1>3, <1>5, <1>6, <1>7, <1>8 DEF VersionInv, ChangeLeft, ExpectedRun, Pending

LEMMA VersionInvStep == VersionInv /\ [Next]_vars => VersionInv'
<1> SUFFICES ASSUME VersionInv, [Next]_vars PROVE VersionInv'
  OBVIOUS
<1>1. PlcTypeOK'
  BY RegistersStep, ThreadsStep, EffectsStep, ClientsStep
     DEF PlcTypeOK, Registers, Commands, Executions, Moments
<1> QED BY <1>1, RegistersStep, ThreadsStep, EffectsStep DEF VersionInv

LEMMA VersionInvariant == Spec => []VersionInv
BY VersionInvInit, VersionInvStep, PTL DEF Spec

\* The registers, the threads and the counters of the OpenPLC cell have their
\* types, whatever their widths.
THEOREM PlcTypeCorrect == Spec => []PlcTypeOK
<1>1. VersionInv => PlcTypeOK
  BY DEF VersionInv
<1> QED BY VersionInvariant, <1>1, PTL

\* cell_ctl.st counts exactly: the version registers hold the number of changes
\* since the boot, modulo their joint range, and the line runs at even counts.
THEOREM VersionsCount == Spec => []VersionCounts
<1>1. VersionInv => VersionCounts
  BY DEF VersionInv
<1> QED BY VersionInvariant, <1>1, PTL

\* The PLC never runs the conveyor on a paused line for an interlocked or a
\* version-conditional command, with any number of PLC objects, timeouts and
\* boots.
THEOREM ConditionalRuns == Spec => []ConditionalRun
<1>1. VersionInv => ConditionalRun
  BY DEF VersionInv
<1> QED BY VersionInvariant, <1>1, PTL

-----------------------------------------------------------------------------
(* Each command is executed at most once *)

Executed == {effects[n].call : n \in DOMAIN effects}

\* Calls are numbered as they are made, so the commands executed and the one in
\* the registers are of calls made before.
CallsMade == writer <= calls /\ \A k \in Executed : k <= calls

\* Two threads that issue commands are in different calls.
CallsDiffer ==
  \A t, u \in Threads :
    t # u /\ thread[t].pc # "idle" /\ thread[u].pc # "idle" => thread[t].call # thread[u].call

\* A command not yet written is neither in the registers nor executed.
Unwritten ==
  \A t \in Threads : thread[t].pc \in {"number", "epoch", "write"} =>
    thread[t].call # writer /\ thread[t].call \notin Executed

\* Nor is the command in the registers executed while cmd_done differs.
Undone == plc.cmdSeq # plc.done => writer \notin Executed

CallsInv == CallsMade /\ CallsDiffer /\ Unwritten /\ Undone /\ ExecutedOnce

\* What a step adds to the executed calls.
LEMMA ExecutedSteps ==
  ASSUME VersionInv, [Next]_vars
  PROVE  \/ Executed' = Executed /\ (ExecutedOnce => ExecutedOnce')
         \/ /\ Scan /\ plc.cmdSeq # plc.done /\ writer' = writer
            /\ Executed' = Executed \cup {writer}
            /\ writer \notin Executed /\ ExecutedOnce => ExecutedOnce'
<1>1. effects \in Seq(Executions)
  BY Types DEF VersionInv
<1>2. CASE effects' = effects
  BY <1>2 DEF Executed, ExecutedOnce
<1>3. CASE effects' # effects
  <2>1. Scan
    BY <1>3, RegisterSteps DEF Boot, SetState, WriteEpoch, WriteCommand, historyVars
  <2> DEFINE e == Effect(Requested(plc))
  <2>2. /\ plc.cmdSeq # plc.done /\ effects' = Append(effects, e) /\ e \in Executions
        /\ e.call = writer /\ effects' \in Seq(Executions)
    BY <1>3, <2>1, ScanEffects
  <2> HIDE DEF e
  <2>3. /\ Len(effects') = Len(effects) + 1 /\ Len(effects) \in Nat
        /\ \A n \in 1..Len(effects) : effects'[n] = effects[n]
        /\ effects'[Len(effects) + 1] = e
        /\ DOMAIN effects' = 1..Len(effects') /\ DOMAIN effects = 1..Len(effects)
    BY <1>1, <2>2, AppendProperties, LenProperties
  <2>4. /\ \A n \in DOMAIN effects' : n \in DOMAIN effects \/ n = Len(effects) + 1
        /\ \A n \in DOMAIN effects : n \in DOMAIN effects' /\ n # Len(effects) + 1
        /\ Len(effects) + 1 \in DOMAIN effects'
    BY <2>3
  <2>5. Executed' \subseteq Executed \cup {writer}
    <3> SUFFICES ASSUME NEW n \in DOMAIN effects' PROVE effects'[n].call \in Executed \cup {writer}
      BY DEF Executed
    <3> QED BY <2>2, <2>3, <2>4 DEF Executed
  <2>6. Executed \subseteq Executed'
    <3> SUFFICES ASSUME NEW n \in DOMAIN effects PROVE effects[n].call \in Executed'
      BY DEF Executed
    <3>1. n \in DOMAIN effects' /\ effects'[n] = effects[n]
      BY <2>3, <2>4
    <3> QED BY <3>1 DEF Executed
  <2>7. writer \in Executed'
    BY <2>2, <2>3, <2>4 DEF Executed
  <2>8. writer \notin Executed /\ ExecutedOnce => ExecutedOnce'
    <3> SUFFICES ASSUME writer \notin Executed, ExecutedOnce,
                        NEW m \in DOMAIN effects', NEW n \in DOMAIN effects',
                        effects'[m].call = effects'[n].call
                 PROVE  m = n
      BY DEF ExecutedOnce
    <3>1. \A k \in DOMAIN effects : effects[k].call # writer
      BY DEF Executed
    <3> QED BY <2>2, <2>3, <2>4, <3>1 DEF ExecutedOnce
  <2>9. writer' = writer
    BY <2>1 DEF Scan
  <2> QED BY <2>1, <2>2, <2>5, <2>6, <2>7, <2>8, <2>9
<1> QED BY <1>2, <1>3

\* The call whose command is in the registers.
LEMMA WriterSteps ==
  ASSUME VersionInv, [Next]_vars
  PROVE  \/ writer' = writer /\ plc'.cmdSeq = plc.cmdSeq /\ plc'.done = plc.done
         \/ writer' = writer /\ Scan /\ plc'.cmdSeq = plc'.done
         \/ Boot /\ writer' = NoCall /\ plc'.cmdSeq = plc'.done
         \/ \E t \in Threads : WriteCommand(t) /\ writer' = thread[t].call
<1>1. plc \in Registers
  BY Types DEF VersionInv
<1>2. CASE Scan
  BY <1>2, ScanTypes DEF Scan
<1>3. CASE Boot
  BY <1>3 DEF Boot, Booted
<1>4. CASE \E v \in {RUN, PAUSED} : SetState(v)
  BY <1>1, <1>4 DEF SetState, historyVars, Registers
<1>5. CASE \E t \in Threads : WriteEpoch(t)
  BY <1>1, <1>5 DEF WriteEpoch, historyVars, Registers
<1>6. CASE \E t \in Threads : WriteCommand(t)
  BY <1>6 DEF WriteCommand
<1> QED BY <1>2, <1>3, <1>4, <1>5, <1>6, RegisterSteps

\* What a step does to the calls of the threads.
LEMMA CallSteps ==
  ASSUME VersionInv, [Next]_vars
  PROVE  \/ UNCHANGED <<thread, calls>>
         \/ \E t \in Threads, s \in Commands : Move(t, s)
<1>1. \/ UNCHANGED <<thread, calls>>
      \/ \E t \in Threads :
           ThreadStep(t) \/ \E mode \in Modes, w \in Witnesses : Call(t, mode, w)
  BY DEF Next, Scan, Boot, SetState, BridgePoll, vars, clientVars, historyVars
<1> QED BY <1>1, ThreadMoves DEF VersionInv

LEMMA CallsInvStep ==
  ASSUME VersionInv, CallsInv, [Next]_vars
  PROVE  CallsInv'
<1> USE DEF CallsInv
<1>1. /\ thread \in [Threads -> Commands] /\ calls \in Nat /\ writer \in Nat
      /\ \A t \in Threads : thread[t].pc # "idle" => thread[t].call \in 1..calls
  BY Types, Constants DEF VersionInv, Called
<1>2. Executed \subseteq Nat
  <2>1. effects \in Seq(Executions)
    BY Types DEF VersionInv
  <2>2. \A n \in DOMAIN effects : effects[n] \in Executions
    BY <2>1, ElementOfSeq, LenProperties
  <2> QED BY <2>2 DEF Executed, Executions
<1>3. calls' \in Nat /\ calls <= calls'
  BY <1>1, CallSteps DEF Move
<1>4. Executed' = Executed \/ (Scan /\ writer' = writer /\ Executed' = Executed \cup {writer})
  BY ExecutedSteps
<1>4a. \A k \in Executed' : k \in Nat /\ k <= calls
  <2>1. \A k \in Executed' : k \in Executed \/ k = writer
    BY <1>4
  <2> QED BY <1>1, <1>2, <2>1 DEF CallsMade
<1>5. CallsMade'
  <2>1. \A t \in Threads : WriteCommand(t) => thread[t].call \in 1..calls
    BY <1>1 DEF WriteCommand, At
  <2>2. writer' \in Nat /\ writer' <= calls
    BY <1>1, <2>1, WriterSteps DEF CallsMade, NoCall
  <2>4. writer' <= calls' /\ \A k \in Executed' : k <= calls'
    BY <1>1, <1>3, <1>4a, <2>2
  <2> QED BY <2>4 DEF CallsMade
<1>6. CallsDiffer'
  <2> SUFFICES ASSUME NEW t \in Threads, NEW u \in Threads, t # u,
                      thread'[t].pc # "idle", thread'[u].pc # "idle"
               PROVE  thread'[t].call # thread'[u].call
    BY DEF CallsDiffer
  <2>1. CASE UNCHANGED <<thread, calls>>
    BY <2>1 DEF CallsDiffer
  <2>2. ASSUME NEW v \in Threads, NEW s \in Commands, Move(v, s)
        PROVE  thread'[t].call # thread'[u].call
    <3>1. thread'[v] = s /\ \A x \in Threads : x # v => thread'[x] = thread[x]
      BY <1>1, <2>2 DEF Move
    <3>2. s.pc # "idle" => \/ s.call = thread[v].call /\ thread[v].pc # "idle"
                           \/ s.call = calls + 1
      BY <2>2 DEF Move, Idle
    <3>3. \A x \in Threads : x # v /\ thread[x].pc # "idle" /\ s.pc # "idle"
                               => s.call # thread[x].call
      BY <1>1, <3>2 DEF CallsDiffer
    <3> QED BY <3>1, <3>3 DEF CallsDiffer
  <2> QED BY <2>1, <2>2, CallSteps
<1>7. Unwritten'
  <2> DEFINE Early == {"number", "epoch", "write"}
  <2> SUFFICES ASSUME NEW u \in Threads, thread'[u].pc \in Early
               PROVE  thread'[u].call # writer' /\ thread'[u].call \notin Executed'
    BY DEF Unwritten
  <2>1. \/ thread'[u].call = thread[u].call /\ thread[u].pc \in Early
        \/ thread'[u].call = calls + 1 /\ thread' # thread
    <3>1. CASE UNCHANGED <<thread, calls>>
      BY <3>1
    <3>2. ASSUME NEW v \in Threads, NEW s \in Commands, Move(v, s)
          PROVE  \/ thread'[u].call = thread[u].call /\ thread[u].pc \in Early
                 \/ thread'[u].call = calls + 1 /\ thread' # thread
      <4>1. thread'[v] = s /\ \A x \in Threads : x # v => thread'[x] = thread[x]
        BY <1>1, <3>2 DEF Move
      <4>2. CASE u # v
        BY <4>1, <4>2
      <4>3. CASE u = v
        BY <3>2, <4>1, <4>3 DEF Move, Idle
      <4> QED BY <4>2, <4>3
    <3> QED BY <3>1, <3>2, CallSteps
  <2>2. CASE thread'[u].call = thread[u].call /\ thread[u].pc \in Early
    <3>1. thread[u].call # writer /\ thread[u].call \notin Executed /\ thread[u].call \in 1..calls
      BY <1>1, <2>2 DEF Unwritten
    <3>2. thread[u].call \notin Executed'
      BY <1>4, <3>1
    <3>3. ASSUME NEW v \in Threads, WriteCommand(v)
          PROVE  thread[u].call # thread[v].call
      <4>1. thread[v].pc = "write" /\ thread'[v].pc = "wait"
        BY <1>1, <3>3 DEF WriteCommand, At, Commands
      <4>2. u # v
        BY <4>1
      <4> QED BY <2>2, <4>1, <4>2 DEF CallsDiffer
    <3>4. thread[u].call # writer'
      BY <3>1, <3>3, WriterSteps DEF NoCall
    <3> QED BY <2>2, <3>2, <3>4
  <2>3. CASE thread'[u].call = calls + 1 /\ thread' # thread
    <3>1. writer' \in Nat /\ writer' <= calls
      <4>1. \A t \in Threads : WriteCommand(t) => thread[t].call \in 1..calls
        BY <1>1 DEF WriteCommand, At
      <4> QED BY <1>1, <4>1, WriterSteps DEF CallsMade, NoCall
    <3> QED BY <1>1, <1>4a, <2>3, <3>1
  <2> QED BY <2>1, <2>2, <2>3
<1>8. Scan => plc'.cmdSeq = plc'.done
  BY ScanTypes
<1>9. Undone'
  <2> SUFFICES ASSUME plc'.cmdSeq # plc'.done PROVE writer' \notin Executed'
    BY DEF Undone
  <2>1. Executed' = Executed
    BY <1>4, <1>8
  <2>2. \A t \in Threads : WriteCommand(t) => thread[t].call \notin Executed
    BY DEF Unwritten, WriteCommand, At
  <2> QED BY <2>1, <2>2, WriterSteps DEF Undone
<1>10. ExecutedOnce'
  BY ExecutedSteps DEF Undone
<1> QED BY <1>5, <1>6, <1>7, <1>9, <1>10

LEMMA CallsInvariant == Spec => []CallsInv
<1>1. Init => CallsInv
  <2> SUFFICES ASSUME Init PROVE CallsInv
    OBVIOUS
  <2>1. Executed = {} /\ writer = 0 /\ calls = 0
    BY DEF Init, Executed, NoCall
  <2>2. \A t \in Threads : thread[t].pc = "idle"
    BY DEF Init, Idle
  <2>3. ExecutedOnce
    BY DEF Init, ExecutedOnce
  <2> QED BY <2>1, <2>2, <2>3 DEF CallsInv, CallsMade, CallsDiffer, Unwritten, Undone
<1>2. VersionInv /\ CallsInv /\ [Next]_vars => CallsInv'
  BY CallsInvStep
<1> QED BY VersionInvariant, <1>1, <1>2, PTL DEF Spec

\* No command is executed twice: neither a sequence number that is used again
\* nor a restart of the PLC, which forgets what it has done, repeats one, with
\* any number of PLC objects.
THEOREM CommandsOnce == Spec => []ExecutedOnce
<1>1. CallsInv => ExecutedOnce
  BY DEF CallsInv
<1> QED BY CallsInvariant, <1>1, PTL

-----------------------------------------------------------------------------
(* One PLC object: its lock serializes the commands *)

OneObject == \A t, u \in Threads : ObjectOf[t] = ObjectOf[u]

LockHeld == \A t \in Threads : thread[t].pc # "idle" => cmdLock[ObjectOf[t]] = t

LEMMA LockStep ==
  ASSUME VersionInv, LockHeld, [Next]_vars
  PROVE  LockHeld'
<1>1. /\ thread \in [Threads -> Commands] /\ NoThread \notin Threads
      /\ cmdLock \in [Objects -> Threads \cup {NoThread}]
      /\ \A t \in Threads : ObjectOf[t] \in Objects
  BY Types, PlcAssumption DEF VersionInv, PlcTypeOK
<1> SUFFICES ASSUME NEW u \in Threads, thread'[u].pc # "idle"
             PROVE  cmdLock'[ObjectOf[u]] = u
  BY DEF LockHeld
<1>2. CASE UNCHANGED <<thread, cmdLock>>
  BY <1>2 DEF LockHeld
<1>3. ASSUME NEW t \in Threads, NEW mode, NEW w, Call(t, mode, w)
      PROVE  cmdLock'[ObjectOf[u]] = u
  <2>1. cmdLock' = [cmdLock EXCEPT ![ObjectOf[t]] = t] /\ cmdLock[ObjectOf[t]] = NoThread
    BY <1>3 DEF Call
  <2>2. u # t => thread'[u] = thread[u]
    BY <1>1, <1>3 DEF Call
  <2>3. CASE u = t
    BY <1>1, <2>1, <2>3
  <2>4. CASE u # t
    BY <1>1, <2>1, <2>2, <2>4 DEF LockHeld
  <2> QED BY <2>3, <2>4
<1>4. ASSUME NEW t \in Threads, Return(t) \/ TimeOut(t)
      PROVE  cmdLock'[ObjectOf[u]] = u
  <2>1. /\ thread' = [thread EXCEPT ![t] = Idle] /\ thread[t].pc = "wait"
        /\ cmdLock' = [cmdLock EXCEPT ![ObjectOf[t]] = NoThread]
    BY <1>4 DEF Return, TimeOut, At
  <2>2. u # t /\ thread'[u] = thread[u]
    BY <1>1, <2>1 DEF Idle
  <2>3. cmdLock[ObjectOf[u]] = u /\ cmdLock[ObjectOf[t]] = t
    BY <2>1, <2>2 DEF LockHeld
  <2> QED BY <1>1, <2>1, <2>2, <2>3
<1>5. ASSUME NEW t \in Threads, Number(t) \/ WriteEpoch(t) \/ WriteCommand(t)
      PROVE  cmdLock'[ObjectOf[u]] = u
  <2>1. cmdLock' = cmdLock /\ thread[t].pc # "idle" /\ (u # t => thread'[u] = thread[u])
    BY <1>1, <1>5 DEF Number, WriteEpoch, WriteCommand, At
  <2> QED BY <2>1 DEF LockHeld
<1>6. \/ UNCHANGED <<thread, cmdLock>>
      \/ \E t \in Threads, mode \in Modes, w \in Witnesses : Call(t, mode, w)
      \/ \E t \in Threads : ThreadStep(t)
  BY DEF Next, Scan, Boot, SetState, BridgePoll, vars, clientVars, historyVars
<1> QED BY <1>2, <1>3, <1>4, <1>5, <1>6 DEF ThreadStep

LEMMA LockInit == Init => LockHeld
BY DEF Init, LockHeld, Idle

\* At most one thread issues a command.
LEMMA Alone ==
  ASSUME OneObject, LockHeld, NEW t \in Threads, NEW u \in Threads,
         thread[t].pc # "idle", thread[u].pc # "idle"
  PROVE  t = u
<1>1. ObjectOf[t] = ObjectOf[u]
  BY DEF OneObject
<1> QED BY <1>1 DEF LockHeld

-----------------------------------------------------------------------------
(* Exact conditional commands *)

ExpectedOf(w) == IF w = NoMoment THEN None ELSE w.changes % CounterSize
EpochOf(w) == IF w = NoMoment THEN None ELSE (w.changes \div CounterSize) % EpochSize

\* The registers hold the version of the command that its thread waits for,
\* unless a boot cleared them.
EpochLoaded ==
  \A t \in Threads : thread[t].pc \in {"write", "wait"} =>
    plc.expectedEpoch = None \/ plc.expectedEpoch = EpochOf(thread[t].witness)
CounterLoaded ==
  \A t \in Threads : thread[t].pc = "wait" /\ thread[t].call = writer =>
    plc.expected = ExpectedOf(thread[t].witness)

ExactInv == LockHeld /\ EpochLoaded /\ CounterLoaded /\ ConditionalExact

\* Equal counters and epochs are equal remainders of the counts.
LEMMA ExactVersion ==
  ASSUME VersionInv, Scan, Accepts(Requested(plc)), plc.mode = "version",
         NEW w \in Moments, Named(w),
         plc.expectedEpoch = None \/ plc.expectedEpoch = EpochOf(w),
         plc.expected = ExpectedOf(w)
  PROVE  SameVersion(w.changes, changes')
<1> DEFINE r == Requested(plc)
<1>1. /\ r \in Registers /\ SameCommand(r, plc)
      /\ Version(r) = changes' % (CounterSize * EpochSize)
  BY RequestedCounts
<1>2. plc.expected = r.counter /\ plc.expectedEpoch = r.epoch
  BY <1>1 DEF Accepts, SameCommand
<1>3. r.counter \in Nat /\ r.epoch \in Nat
  BY <1>1, Constants DEF Registers
<1>4. plc.expected # None /\ plc.expectedEpoch # None
  BY <1>2, <1>3 DEF None
<1>5. w # NoMoment
  BY <1>4 DEF ExpectedOf
<1>6. /\ r.counter = w.changes % CounterSize
      /\ r.epoch = (w.changes \div CounterSize) % EpochSize
  BY <1>2, <1>4, <1>5 DEF ExpectedOf, EpochOf
<1>7. w.changes \in Nat
  BY <1>5 DEF Named
<1>8. w.changes % (CounterSize * EpochSize) = Version(r)
  <2> DEFINE n == w.changes
  <2>1. n \in Nat
    BY <1>7
  <2> HIDE DEF n
  <2>2. n % (CounterSize * EpochSize)
          = ((n \div CounterSize) % EpochSize) * CounterSize + (n % CounterSize)
    BY <2>1, Constants, DigitsMod
  <2> QED BY <1>6, <2>2 DEF n, Version
<1> QED BY <1>1, <1>8 DEF SameVersion

\* Which step brings a thread to a wait or a write, and what it wrote.
LEMMA LoadSteps ==
  ASSUME VersionInv, LockHeld, OneObject, [Next]_vars, NEW u \in Threads,
         thread'[u].pc \in {"write", "wait"}
  PROVE  /\ \/ /\ thread'[u] = thread[u]
               /\ \/ plc'.expectedEpoch = plc.expectedEpoch \/ plc'.expectedEpoch = None
               /\ \/ writer' = writer /\ plc'.expected = plc.expected
                  \/ writer' = NoCall
            \/ WriteEpoch(u) /\ plc'.expectedEpoch = EpochOf(thread[u].witness)
               /\ thread'[u].pc = "write"
            \/ WriteCommand(u) /\ plc'.expectedEpoch = plc.expectedEpoch
               /\ plc'.expected = ExpectedOf(thread[u].witness)
               /\ thread[u].pc = "write"
         /\ thread'[u].witness = thread[u].witness
<1>1. /\ thread \in [Threads -> Commands] /\ plc \in Registers
  BY Types DEF VersionInv
<1>2. CASE UNCHANGED <<plc, writer, thread>>
  BY <1>2
<1>3. CASE Scan
  BY <1>3, ScanTypes DEF Scan, clientVars
<1>4. CASE Boot
  BY <1>4 DEF Boot, Booted, clientVars
<1>5. CASE \E v \in {RUN, PAUSED} : SetState(v)
  <2>1. PICK v : plc' = [plc EXCEPT !.setReq = v] /\ UNCHANGED <<thread, writer>>
    BY <1>5 DEF SetState, clientVars, historyVars
  <2> QED BY <1>1, <2>1 DEF Registers
<1>6. ASSUME NEW t \in Threads, WriteEpoch(t)
      PROVE  /\ t = u /\ plc'.expectedEpoch = EpochOf(thread[u].witness)
             /\ thread'[u].pc = "write" /\ thread'[u].witness = thread[u].witness
  <2>1. /\ thread[t].pc = "epoch" /\ thread' = [thread EXCEPT ![t].pc = "write"]
        /\ plc' = [plc EXCEPT !.expectedEpoch = EpochOf(thread[t].witness)]
    BY <1>6 DEF WriteEpoch, At, EpochOf
  <2>2. t = u
    <3>1. t # u => thread[u].pc # "idle"
      BY <1>1, <2>1
    <3> QED BY <2>1, <3>1, Alone
  <2> QED BY <1>1, <2>1, <2>2 DEF Registers, Commands
<1>7. ASSUME NEW t \in Threads, WriteCommand(t)
      PROVE  /\ t = u /\ plc'.expectedEpoch = plc.expectedEpoch
             /\ plc'.expected = ExpectedOf(thread[u].witness)
             /\ thread[u].pc = "write" /\ thread'[u].witness = thread[u].witness
  <2>1. /\ thread[t].pc = "write" /\ thread' = [thread EXCEPT ![t].pc = "wait"]
        /\ plc' = [plc EXCEPT !.cmdSeq = thread[t].number, !.mode = thread[t].mode,
                              !.expected = ExpectedOf(thread[t].witness)]
    BY <1>7 DEF WriteCommand, At, ExpectedOf
  <2>2. t = u
    <3>1. t # u => thread[u].pc # "idle"
      BY <1>1, <2>1
    <3> QED BY <2>1, <3>1, Alone
  <2> QED BY <1>1, <2>1, <2>2 DEF Registers, Commands
<1>8. ASSUME NEW t \in Threads, Number(t) \/ Return(t) \/ TimeOut(t)
      PROVE  thread'[u] = thread[u] /\ UNCHANGED <<plc, writer>>
  BY <1>1, <1>8 DEF Number, Return, TimeOut, Idle, Commands, historyVars
<1>9. ASSUME NEW t \in Threads, NEW mode, NEW w, Call(t, mode, w)
      PROVE  thread'[u] = thread[u] /\ UNCHANGED <<plc, writer>>
  BY <1>1, <1>9 DEF Call, Idle
<1>10. \/ UNCHANGED <<plc, writer, thread>> \/ Scan \/ Boot
       \/ \E v \in {RUN, PAUSED} : SetState(v)
       \/ \E t \in Threads, mode \in Modes, w \in Witnesses : Call(t, mode, w)
       \/ \E t \in Threads : ThreadStep(t)
  BY DEF Next, BridgePoll, vars, clientVars, historyVars
<1>11. CASE \E t \in Threads : ThreadStep(t)
  BY <1>6, <1>7, <1>8, <1>11 DEF ThreadStep
<1>12. CASE \E t \in Threads, mode \in Modes, w \in Witnesses : Call(t, mode, w)
  BY <1>9, <1>12
<1> QED BY <1>2, <1>3, <1>4, <1>5, <1>10, <1>11, <1>12

LEMMA ExactStep ==
  ASSUME VersionInv, OneObject, ExactInv, [Next]_vars
  PROVE  ExactInv'
<1> USE DEF ExactInv
<1>1. thread \in [Threads -> Commands] /\ calls \in Nat
      /\ \A t \in Threads : thread[t].pc # "idle" => thread[t].call \in 1..calls
  BY Types, Constants DEF VersionInv, Called
<1>2. EpochLoaded'
  <2> SUFFICES ASSUME NEW u \in Threads, thread'[u].pc \in {"write", "wait"}
               PROVE  plc'.expectedEpoch = None \/ plc'.expectedEpoch = EpochOf(thread'[u].witness)
    BY DEF EpochLoaded, EpochOf
  <2>1. thread'[u].witness = thread[u].witness
    BY LoadSteps
  <2>2. \/ plc'.expectedEpoch = None \/ plc'.expectedEpoch = EpochOf(thread[u].witness)
        \/ plc'.expectedEpoch = plc.expectedEpoch /\ thread[u].pc \in {"write", "wait"}
    BY LoadSteps
  <2> QED BY <2>1, <2>2 DEF EpochLoaded
<1>3. CounterLoaded'
  <2> SUFFICES ASSUME NEW u \in Threads, thread'[u].pc = "wait", thread'[u].call = writer'
               PROVE  plc'.expected = ExpectedOf(thread'[u].witness)
    BY DEF CounterLoaded, ExpectedOf
  <2>1. thread'[u].witness = thread[u].witness
    BY LoadSteps
  <2>2. CASE thread'[u] = thread[u]
    <3>1. writer' # NoCall
      BY <1>1, <2>2 DEF NoCall
    <3>2. thread[u].pc = "wait" /\ thread[u].call \in 1..calls
      BY <1>1, <2>2
    <3>3. ~WriteEpoch(u) /\ ~WriteCommand(u)
      BY <3>2 DEF WriteEpoch, WriteCommand, At
    <3>4. writer' = writer /\ plc'.expected = plc.expected
      BY <3>1, <3>3, LoadSteps
    <3> QED BY <2>2, <3>2, <3>4 DEF CounterLoaded
  <2>3. CASE thread'[u] # thread[u]
    <3>1. plc'.expected = ExpectedOf(thread[u].witness)
      BY <2>3, LoadSteps
    <3> QED BY <2>1, <3>1
  <2> QED BY <2>2, <2>3
<1>4. ConditionalExact'
  <2>1. CASE effects' = effects
    BY <2>1 DEF ConditionalExact
  <2>2. CASE effects' # effects
    <3>1. Scan
      BY <2>2, RegisterSteps DEF Boot, SetState, WriteEpoch, WriteCommand, historyVars
    <3> DEFINE r == Requested(plc)
               e == Effect(r)
    <3>2. /\ effects' = Append(effects, e) /\ e \in Executions /\ Accepts(r) /\ e.mode = plc.mode
          /\ effects' \in Seq(Executions)
      BY <2>2, <3>1, ScanEffects
    <3>3. e.mode = "version" => e.exact
      <4> SUFFICES ASSUME plc.mode = "version" PROVE e.exact
        BY <3>2
      <4>1. ASSUME NEW t \in Threads, thread[t].call = writer, thread[t].pc = "wait"
            PROVE  SameVersion(thread[t].witness.changes, changes')
        <5>1. thread[t].witness \in Moments /\ Named(thread[t].witness)
          BY <1>1 DEF Commands, VersionInv, WitnessRun
        <5>2. /\ plc.expectedEpoch = None \/ plc.expectedEpoch = EpochOf(thread[t].witness)
              /\ plc.expected = ExpectedOf(thread[t].witness)
          BY <4>1 DEF EpochLoaded, CounterLoaded
        <5> QED BY <3>1, <3>2, <5>1, <5>2, ExactVersion
      <4> HIDE DEF r
      <4> QED BY <4>1 DEF Effect
    <3> HIDE DEF e
    <3>4. /\ Len(effects') = Len(effects) + 1 /\ Len(effects) \in Nat
          /\ \A n \in 1..Len(effects) : effects'[n] = effects[n]
          /\ effects'[Len(effects) + 1] = e
          /\ DOMAIN effects' = 1..Len(effects') /\ DOMAIN effects = 1..Len(effects)
      BY <3>2, Types, AppendProperties, LenProperties DEF VersionInv
    <3>5. \A n \in DOMAIN effects' : n \in DOMAIN effects \/ n = Len(effects) + 1
      BY <3>4
    <3> QED BY <3>3, <3>4, <3>5 DEF ConditionalExact
  <2> QED BY <2>1, <2>2
<1> QED BY <1>2, <1>3, <1>4, LockStep

\* With one PLC object, a version-conditional command whose caller still waits
\* is executed only at a moment whose version is that of its witness: no wrap
\* of the counter alone, no boot and no later command lets it through.
THEOREM ConditionalsExact ==
  ASSUME OneObject
  PROVE  Spec => []ConditionalExact
<1>1. Init => ExactInv
  <2> SUFFICES ASSUME Init PROVE ExactInv
    OBVIOUS
  <2>1. \A t \in Threads : thread[t].pc = "idle"
    BY DEF Init, Idle
  <2>2. ConditionalExact
    BY DEF Init, ConditionalExact
  <2> QED BY <2>1, <2>2, LockInit DEF ExactInv, EpochLoaded, CounterLoaded
<1>2. VersionInv /\ ExactInv /\ [Next]_vars => ExactInv'
  BY ExactStep
<1>3. ExactInv => ConditionalExact
  BY DEF ExactInv
<1> QED BY VersionInvariant, <1>1, <1>2, <1>3, PTL DEF Spec

-----------------------------------------------------------------------------
(* A result is the command's own *)

\* How many numbers were issued after d, up to s.
Distance(d, s) == IF s >= d THEN s - d ELSE s - d + SeqMax

\* The registers forgot every command.
Forgot == plc.cmdSeq = 0 /\ plc.done = 0

\* cmd_done is zero or some number at most n numbers before s.
DoneWithin(s, n) == plc.done = 0 \/ Distance(plc.done, s) <= n

\* No command is under way, after number s ...
Quiet == \A t \in Threads : thread[t].pc \in {"idle", "number"}
Rests(s) ==
  IF s = None THEN plc.cmdSeq = plc.done
  ELSE Forgot \/ (plc.cmdSeq = s /\ DoneWithin(s, stalls))

\* ... number s was issued and is not yet written ...
Issued(s) ==
  \/ Forgot
  \/ /\ NextNumber(plc.cmdSeq) = s /\ DoneWithin(s, stalls + 1) /\ plc.done # s

\* ... and t waits for number s.
Awaits(t, s) ==
  \/ Forgot
  \/ /\ plc.cmdSeq = s /\ writer = thread[t].call /\ DoneWithin(s, stalls + 1)
     /\ plc.done = s => doneBy = thread[t].call

\* What holds of the object's last number and of the command of thread t.
NumberOf(t) ==
  LET s == seq[ObjectOf[t]] IN
  /\ Quiet => Rests(s)
  /\ thread[t].pc \in {"epoch", "write", "wait"} => s \in 1..SeqMax /\ thread[t].number = s
  /\ thread[t].pc \in {"epoch", "write"} => Issued(s)
  /\ thread[t].pc = "wait" => Awaits(t, s)

NumberInv == \A t \in Threads : NumberOf(t)

\* Fewer timeouts without a scan than there are numbers.
FewStalls == MaxStalls + 1 < SeqMax

LEMMA DistanceNext ==
  ASSUME NEW d \in 1..SeqMax, NEW s \in 1..SeqMax, NEW n \in Nat, n + 1 < SeqMax,
         Distance(d, s) <= n
  PROVE  /\ NextNumber(s) \in 1..SeqMax
         /\ Distance(d, NextNumber(s)) <= n + 1 /\ d # NextNumber(s)
BY Constants DEF Distance, NextNumber

LEMMA DistanceOne ==
  ASSUME NEW d \in 1..SeqMax
  PROVE  /\ NextNumber(d) \in 1..SeqMax
         /\ Distance(d, NextNumber(d)) = 1 /\ d # NextNumber(d)
         /\ Distance(d, d) = 0
BY Constants DEF Distance, NextNumber

LEMMA FirstNumber == NextNumber(0) = 1 /\ 1 \in 1..SeqMax
BY Constants DEF NextNumber

\* The registers a step of the PLC or of no thread leaves.
LEMMA NumberScan ==
  ASSUME VersionInv, NumberInv, Scan
  PROVE  NumberInv'
<1> SUFFICES ASSUME NEW u \in Threads PROVE NumberOf(u)'
  BY DEF NumberInv
<1> DEFINE s == seq[ObjectOf[u]]
<1>1. UNCHANGED <<seq, thread, stalls, writer>>
  BY DEF Scan, clientVars
<1>2. plc'.cmdSeq = plc.cmdSeq /\ plc'.done = plc.cmdSeq
  BY ScanTypes
<1>3. plc.cmdSeq # plc.done => doneBy' = writer
  <2>1. SameCommand(Requested(plc), plc)
    BY RequestedCounts
  <2> QED BY <2>1 DEF Scan, SameCommand
<1>3a. plc.cmdSeq = plc.done => doneBy' = doneBy
  <2>1. SameCommand(Requested(plc), plc)
    BY RequestedCounts
  <2> QED BY <2>1 DEF Scan, SameCommand
<1>4. /\ s \in {None} \cup 1..SeqMax /\ plc.cmdSeq \in 0..SeqMax /\ stalls \in Nat
      /\ SeqMax \in Nat
  BY Types, Constants, PlcAssumption DEF VersionInv, PlcTypeOK, Registers
<1>5. \A d \in 1..SeqMax : Distance(d, d) = 0 /\ Distance(d, NextNumber(d)) = 1
                             /\ d # NextNumber(d)
  BY DistanceOne
<1>6. NumberOf(u)
  BY DEF NumberInv
<1> HIDE DEF s
<1>7. Quiet => Rests(s)'
  <2> SUFFICES ASSUME Quiet PROVE Rests(s)'
    OBVIOUS
  <2>1. Rests(s) /\ s' = s
    BY <1>1, <1>6 DEF NumberOf, s
  <2>2. CASE s = None
    BY <1>2, <2>1, <2>2 DEF Rests
  <2>3. CASE s # None
    <3>1. CASE Forgot
      BY <1>2, <2>1, <2>3, <3>1 DEF Rests, Forgot
    <3>2. CASE plc.cmdSeq = s
      <4>1. Distance(s, s) = 0 /\ 0 <= stalls
        BY <1>4, <1>5, <2>3
      <4> QED BY <1>1, <1>2, <2>1, <2>3, <3>2, <4>1 DEF Rests, DoneWithin
    <3> QED BY <2>1, <2>3, <3>1, <3>2 DEF Rests
  <2> QED BY <2>2, <2>3
<1>8. thread[u].pc \in {"epoch", "write"} => Issued(s)'
  <2> SUFFICES ASSUME thread[u].pc \in {"epoch", "write"} PROVE Issued(s)'
    OBVIOUS
  <2>1. Issued(s) /\ s \in 1..SeqMax /\ s' = s
    BY <1>1, <1>6 DEF NumberOf, s
  <2>2. CASE Forgot
    BY <1>2, <2>2 DEF Issued, Forgot
  <2>3. CASE NextNumber(plc.cmdSeq) = s
    <3>1. CASE plc.cmdSeq = 0
      BY <1>2, <3>1 DEF Issued, Forgot
    <3>2. CASE plc.cmdSeq # 0
      <4>1. Distance(plc.cmdSeq, s) = 1 /\ plc.cmdSeq # s
        BY <1>4, <1>5, <2>3, <3>2
      <4>2. Distance(plc'.done, s) <= stalls + 1
        BY <1>2, <1>4, <4>1
      <4> QED BY <1>1, <1>2, <2>1, <2>3, <4>1, <4>2 DEF Issued, DoneWithin
    <3> QED BY <3>1, <3>2
  <2> QED BY <2>1, <2>2, <2>3 DEF Issued
<1>9. thread[u].pc = "wait" => Awaits(u, s)'
  <2> SUFFICES ASSUME thread[u].pc = "wait" PROVE Awaits(u, s)'
    OBVIOUS
  <2>1. Awaits(u, s) /\ s \in 1..SeqMax /\ s' = s
    BY <1>1, <1>6 DEF NumberOf, s
  <2>2. CASE Forgot
    BY <1>2, <2>2 DEF Awaits, Forgot
  <2>3. CASE ~Forgot
    <3>1. plc.cmdSeq = s /\ writer = thread[u].call /\ (plc.done = s => doneBy = thread[u].call)
      BY <2>1, <2>3 DEF Awaits
    <3>2. doneBy' = thread[u].call
      BY <1>3, <1>3a, <3>1
    <3>3. Distance(plc'.done, s) <= stalls + 1
      BY <1>2, <1>4, <1>5, <2>1, <3>1
    <3> QED BY <1>1, <1>2, <2>1, <3>1, <3>2, <3>3 DEF Awaits, DoneWithin
  <2> QED BY <2>2, <2>3
<1> QED BY <1>1, <1>6, <1>7, <1>8, <1>9 DEF NumberOf, Quiet, s

\* A step of a thread, while the others are idle.
LEMMA NumberThread ==
  ASSUME VersionInv, OneObject, FewStalls, LockHeld, NumberInv,
         NEW t \in Threads, ThreadStep(t)
  PROVE  NumberInv'
<1> DEFINE o == ObjectOf[t]
           s == seq[o]
           b == thread[t]
<1>1. /\ thread \in [Threads -> Commands] /\ plc \in Registers /\ b \in Commands
      /\ seq \in [Objects -> {None} \cup 1..SeqMax] /\ o \in Objects
      /\ stalls \in 0..MaxStalls /\ SeqMax \in Nat /\ MaxStalls \in Nat
  BY Types, Constants, PlcAssumption DEF VersionInv, PlcTypeOK
<1>2. b.pc # "idle"
  BY DEF ThreadStep, Number, WriteEpoch, WriteCommand, Return, TimeOut, At
<1>3. \A u \in Threads : u # t => thread[u].pc = "idle"
  BY <1>2, Alone
<1>4. \A u \in Threads : ObjectOf[u] = o
  BY DEF OneObject
<1>5. NumberOf(t)
  BY DEF NumberInv
<1>6. /\ s \in {None} \cup 1..SeqMax /\ plc.done \in 0..SeqMax /\ plc.cmdSeq \in 0..SeqMax
      /\ stalls \in Nat /\ stalls + 1 < SeqMax
  <2>1. stalls \in Nat /\ stalls + 1 < SeqMax
    BY <1>1 DEF FewStalls
  <2> QED BY <1>1, <2>1 DEF Registers
<1>7. ASSUME \A u \in Threads : u # t => thread'[u] = thread[u],
             Quiet' => Rests(seq[o])',
             thread'[t].pc \in {"epoch", "write", "wait"}
               => seq'[o] \in 1..SeqMax /\ thread'[t].number = seq'[o],
             thread'[t].pc \in {"epoch", "write"} => Issued(seq[o])',
             thread'[t].pc = "wait" => Awaits(t, seq[o])'
      PROVE  NumberInv'
  <2> SUFFICES ASSUME NEW u \in Threads PROVE NumberOf(u)'
    BY DEF NumberInv
  <2>1. CASE u = t
    BY <1>7, <2>1 DEF NumberOf
  <2>2. CASE u # t
    <3>1. thread'[u].pc = "idle" /\ ObjectOf[u] = o
      BY <1>3, <1>4, <1>7, <2>2
    <3> QED BY <1>7, <3>1 DEF NumberOf
  <2> QED BY <2>1, <2>2
<1>8. CASE Number(t)
  <2> DEFINE m == IF s = None THEN plc.done ELSE s
             n == NextNumber(m)
  <2>1. /\ b.pc = "number" /\ seq' = [seq EXCEPT ![o] = n]
        /\ thread' = [thread EXCEPT ![t].pc = "epoch", ![t].number = n]
        /\ UNCHANGED <<plc, stalls>>
    BY <1>8 DEF Number, At
  <2>2. /\ thread'[t].pc = "epoch" /\ thread'[t].number = n /\ seq'[o] = n
        /\ \A u \in Threads : u # t => thread'[u] = thread[u]
    <3> HIDE DEF n
    <3> QED BY <1>1, <2>1 DEF Commands
  <2>3. Quiet
    BY <1>3, <2>1 DEF Quiet
  <2>4. Rests(s)
    BY <1>5, <2>3 DEF NumberOf
  <2>5. n \in 1..SeqMax /\ (Forgot \/ (NextNumber(plc.cmdSeq) = n
                                       /\ DoneWithin(n, stalls + 1) /\ plc.done # n))
    <3>1. CASE s = None
      <4>1. n = NextNumber(plc.done) /\ plc.cmdSeq = plc.done
        BY <2>4, <3>1 DEF Rests
      <4>2. CASE plc.done = 0
        BY <4>1, <4>2, FirstNumber DEF Forgot
      <4>3. CASE plc.done # 0
        <5>1. plc.done \in 1..SeqMax
          BY <1>6, <4>3
        <5>2. n \in 1..SeqMax /\ Distance(plc.done, n) = 1 /\ plc.done # n
          BY <4>1, <5>1, DistanceOne
        <5>3. Distance(plc.done, n) <= stalls + 1
          BY <1>6, <5>2
        <5> QED BY <4>1, <5>2, <5>3 DEF DoneWithin
      <4> QED BY <4>2, <4>3
    <3>2. CASE s # None
      <4>1. n = NextNumber(s) /\ s \in 1..SeqMax
        BY <1>6, <3>2
      <4>2. n \in 1..SeqMax
        BY <4>1, DistanceOne
      <4>3. CASE Forgot
        BY <4>2, <4>3
      <4>4. CASE plc.cmdSeq = s /\ DoneWithin(s, stalls)
        <5>1. CASE plc.done = 0
          BY <4>1, <4>2, <4>4, <5>1 DEF DoneWithin
        <5>2. CASE plc.done # 0
          <6>1. plc.done \in 1..SeqMax /\ Distance(plc.done, s) <= stalls
            BY <1>6, <4>4, <5>2 DEF DoneWithin
          <6>2. Distance(plc.done, n) <= stalls + 1 /\ plc.done # n
            BY <1>6, <4>1, <6>1, DistanceNext
          <6> QED BY <4>1, <4>2, <4>4, <6>2 DEF DoneWithin
        <5> QED BY <5>1, <5>2
      <4> QED BY <2>4, <3>2, <4>3, <4>4 DEF Rests
    <3> QED BY <3>1, <3>2
  <2> HIDE DEF n
  <2>6. Issued(seq[o])'
    BY <2>1, <2>2, <2>5 DEF Issued, Forgot, DoneWithin
  <2>7. ~Quiet'
    BY <2>2 DEF Quiet
  <2> QED BY <1>7, <2>2, <2>5, <2>6, <2>7
<1>9. CASE WriteEpoch(t)
  <2>1. /\ b.pc = "epoch" /\ thread' = [thread EXCEPT ![t].pc = "write"] /\ UNCHANGED <<seq, stalls>>
        /\ plc'.cmdSeq = plc.cmdSeq /\ plc'.done = plc.done
    BY <1>1, <1>9 DEF WriteEpoch, At, Registers
  <2>2. /\ thread'[t].pc = "write" /\ thread'[t].number = b.number
        /\ \A u \in Threads : u # t => thread'[u] = thread[u]
    BY <1>1, <2>1 DEF Commands
  <2>3. s \in 1..SeqMax /\ b.number = s /\ Issued(s)
    BY <1>5, <2>1 DEF NumberOf
  <2>4. Issued(seq[o])'
    BY <2>1, <2>3 DEF Issued, Forgot, DoneWithin
  <2>5. ~Quiet'
    BY <2>2 DEF Quiet
  <2> QED BY <1>7, <2>1, <2>2, <2>3, <2>4, <2>5
<1>10. CASE WriteCommand(t)
  <2>1. /\ b.pc = "write" /\ thread' = [thread EXCEPT ![t].pc = "wait"] /\ UNCHANGED <<seq, stalls>>
        /\ plc'.cmdSeq = b.number /\ plc'.done = plc.done /\ writer' = b.call
    BY <1>1, <1>10 DEF WriteCommand, At, Registers
  <2>2. /\ thread'[t].pc = "wait" /\ thread'[t].number = b.number /\ thread'[t].call = b.call
        /\ \A u \in Threads : u # t => thread'[u] = thread[u]
    BY <1>1, <2>1 DEF Commands
  <2>3. s \in 1..SeqMax /\ b.number = s /\ Issued(s)
    BY <1>5, <2>1 DEF NumberOf
  <2>4. plc.done # s /\ DoneWithin(s, stalls + 1)
    BY <2>3 DEF Issued, Forgot, DoneWithin
  <2>5. Awaits(t, seq[o])'
    BY <2>1, <2>2, <2>3, <2>4 DEF Awaits, DoneWithin
  <2>6. ~Quiet'
    BY <2>2 DEF Quiet
  <2> QED BY <1>7, <2>1, <2>2, <2>3, <2>5, <2>6
<1>11. CASE Return(t) \/ TimeOut(t)
  <2>1. /\ b.pc = "wait" /\ thread' = [thread EXCEPT ![t] = Idle] /\ UNCHANGED <<seq, plc>>
        /\ Return(t) => plc.done = b.number /\ stalls' = stalls
        /\ TimeOut(t) => \/ plc.cmdSeq # b.number /\ stalls' = stalls
                         \/ stalls' = stalls + 1
    BY <1>11 DEF Return, TimeOut, At
  <2>2. /\ thread'[t].pc = "idle"
        /\ \A u \in Threads : u # t => thread'[u] = thread[u]
    BY <1>1, <2>1 DEF Idle
  <2>3. s \in 1..SeqMax /\ b.number = s /\ Awaits(t, s)
    BY <1>5, <2>1 DEF NumberOf
  <2>4. s # None
    BY <2>3 DEF None
  <2>5. Forgot \/ (plc.cmdSeq = s /\ DoneWithin(s, stalls'))
    <3>1. CASE ~Forgot
      <4>1. plc.cmdSeq = s /\ DoneWithin(s, stalls + 1)
        BY <2>3, <3>1 DEF Awaits
      <4>2. CASE Return(t)
        <5>1. plc.done = s /\ Distance(s, s) = 0
          BY <2>1, <2>3, <4>2, DistanceOne
        <5>2. Distance(plc.done, s) <= stalls
          BY <1>6, <5>1
        <5> QED BY <2>1, <4>1, <4>2, <5>2 DEF DoneWithin
      <4>3. CASE TimeOut(t)
        BY <2>1, <2>3, <4>1, <4>3
      <4> QED BY <1>11, <4>2, <4>3
    <3> QED BY <3>1
  <2>6. Rests(seq[o])'
    BY <2>1, <2>4, <2>5 DEF Rests, Forgot, DoneWithin
  <2> QED BY <1>7, <2>2, <2>6
<1> QED BY <1>8, <1>9, <1>10, <1>11 DEF ThreadStep

LEMMA NumberStep ==
  ASSUME VersionInv, OneObject, FewStalls, LockHeld, NumberInv, [Next]_vars
  PROVE  NumberInv'
<1>1. thread \in [Threads -> Commands] /\ plc \in Registers
  BY Types DEF VersionInv
<1>2. CASE Boot
  <2>1. plc'.cmdSeq = 0 /\ plc'.done = 0 /\ UNCHANGED <<seq, thread, stalls>>
    BY <1>2 DEF Boot, Booted, clientVars
  <2> SUFFICES ASSUME NEW u \in Threads PROVE NumberOf(u)'
    BY DEF NumberInv
  <2>2. Forgot' /\ Rests(seq[ObjectOf[u]])'
    BY <2>1 DEF Forgot, Rests
  <2>3. NumberOf(u)
    BY DEF NumberInv
  <2> QED BY <2>1, <2>2, <2>3 DEF NumberOf, Issued, Awaits
<1>3. CASE /\ UNCHANGED <<seq, stalls, writer, doneBy>>
           /\ plc'.cmdSeq = plc.cmdSeq /\ plc'.done = plc.done
           /\ \/ UNCHANGED thread
              \/ \E t \in Threads, s \in Commands :
                   /\ thread' = [thread EXCEPT ![t] = s]
                   /\ thread[t].pc = "idle" /\ s.pc = "number"
  <2> SUFFICES ASSUME NEW u \in Threads PROVE NumberOf(u)'
    BY DEF NumberInv
  <2>1. NumberOf(u)
    BY DEF NumberInv
  <2>2. /\ Quiet' => Quiet
        /\ thread'[u] = thread[u] \/ thread'[u].pc = "number"
    <3>1. CASE UNCHANGED thread
      BY <3>1 DEF Quiet
    <3>2. ASSUME NEW t \in Threads, NEW s \in Commands, thread' = [thread EXCEPT ![t] = s],
                 thread[t].pc = "idle", s.pc = "number"
          PROVE  /\ Quiet' => Quiet
                 /\ thread'[u] = thread[u] \/ thread'[u].pc = "number"
      <4>1. \A v \in Threads : thread'[v] = IF v = t THEN s ELSE thread[v]
        BY <1>1, <3>2
      <4>2. Quiet' => Quiet
        BY <3>2, <4>1 DEF Quiet
      <4> QED BY <3>2, <4>1, <4>2
    <3> QED BY <1>3, <3>1, <3>2
  <2>3. Quiet' => Rests(seq[ObjectOf[u]])'
    BY <1>3, <2>1, <2>2 DEF NumberOf, Rests, Forgot, DoneWithin
  <2>4. CASE thread'[u].pc = "number"
    BY <2>3, <2>4 DEF NumberOf
  <2>5. CASE thread'[u] = thread[u]
    BY <1>3, <2>1, <2>3, <2>5 DEF NumberOf, Issued, Awaits, Forgot, DoneWithin
  <2> QED BY <2>2, <2>4, <2>5
<1>4. ASSUME NEW t \in Threads, NEW mode \in Modes, NEW w \in Witnesses, Call(t, mode, w)
      PROVE  NumberInv'
  <2>1. PICK s \in Commands : Move(t, s)
    BY <1>4, ThreadMoves DEF VersionInv
  <2>2. thread[t].pc = "idle" /\ UNCHANGED <<seq, stalls, writer, doneBy, plc>>
    BY <1>4 DEF Call, At
  <2>3. thread' = [thread EXCEPT ![t] = s] /\ s.pc = "number"
    BY <2>1, <2>2 DEF Move
  <2> QED BY <1>3, <2>2, <2>3
<1>5. CASE \E v \in {RUN, PAUSED} : SetState(v)
  <2>1. /\ UNCHANGED <<seq, stalls, writer, doneBy, thread>>
        /\ plc'.cmdSeq = plc.cmdSeq /\ plc'.done = plc.done
    BY <1>1, <1>5 DEF SetState, clientVars, historyVars, Registers
  <2> QED BY <1>3, <2>1
<1>6. CASE BridgePoll \/ UNCHANGED vars
  <2>1. UNCHANGED <<seq, stalls, writer, doneBy, thread, plc>>
    BY <1>6 DEF BridgePoll, vars, clientVars, historyVars
  <2> QED BY <1>3, <2>1
<1> QED BY <1>2, <1>4, <1>5, <1>6, NumberScan, NumberThread DEF Next

\* With one PLC object and fewer unscanned timeouts than there are numbers, the
\* result that command() takes from the registers is its own: no late execution
\* of an earlier command and no reuse of a number after a wrap is mistaken for
\* it.
THEOREM ResultsOwn ==
  ASSUME OneObject, FewStalls
  PROVE  Spec => []OwnResult
<1>1. Init => NumberInv
  <2> SUFFICES ASSUME Init, NEW t \in Threads PROVE NumberOf(t)
    BY DEF NumberInv
  <2>1. thread[t].pc = "idle" /\ seq[ObjectOf[t]] = None
    BY PlcAssumption DEF Init, Idle
  <2>2. plc.cmdSeq = plc.done
    <3>1. PICK d \in Earlier : plc = [Booted EXCEPT !.cmdSeq = d, !.done = d]
      BY DEF Init
    <3> QED BY <3>1, BootTypes DEF Registers
  <2> QED BY <2>1, <2>2 DEF NumberOf, Rests
<1>2. VersionInv /\ LockHeld /\ NumberInv /\ [Next]_vars => LockHeld' /\ NumberInv'
  BY LockStep, NumberStep
<1>3. VersionInv /\ NumberInv => OwnResult
  <2> SUFFICES ASSUME VersionInv, NumberInv, NEW t \in Threads, thread[t].pc = "wait",
                      plc.done = thread[t].number
               PROVE  doneBy = thread[t].call
    BY DEF OwnResult, At
  <2> DEFINE s == seq[ObjectOf[t]]
  <2>1. s \in 1..SeqMax /\ thread[t].number = s /\ Awaits(t, s)
    BY DEF NumberInv, NumberOf
  <2>2. ~Forgot
    BY <2>1 DEF Forgot
  <2> QED BY <2>1, <2>2 DEF Awaits
<1> QED BY VersionInvariant, LockInit, <1>1, <1>2, <1>3, PTL DEF Spec

-----------------------------------------------------------------------------
(* The replica *)

\* the state of the line after n changes
StateAfter(n) == <<IF n % 2 = 0 THEN RUN ELSE PAUSED, n>>

\* Within a boot and a round of versions, the bridge has posted a state, and
\* XAIR has one at least as late.
ReplicaInv ==
  boots = 1 /\ changes < CounterSize * EpochSize =>
    \/ last = <<>>
    \/ \E m, n \in 0..changes :
         m <= n /\ last = StateAfter(m) /\ replica = StateAfter(n)

LEMMA StateIs ==
  ASSUME VersionInv, changes < CounterSize * EpochSize
  PROVE  State = StateAfter(changes)
<1> DEFINE m == CounterSize * EpochSize
           c == plc.counter
           e == plc.epoch
           h == CounterSize \div 2
<1>1. /\ c \in Nat /\ e \in Nat /\ changes \in Nat
      /\ e * CounterSize + c = changes % m
      /\ plc.line = RUN <=> c % 2 = 0
      /\ plc.line = RUN \/ plc.line = PAUSED
  BY Types, Constants DEF VersionInv, VersionCounts, Registers
<1>2. m \in Nat \ {0} /\ h \in Nat /\ CounterSize = 2 * h
  BY Constants
<1>3. changes % m = changes
  <2> HIDE DEF m
  <2>1. changes < m
    BY DEF m
  <2> QED BY <1>1, <1>2, <2>1
<1>4. e * CounterSize + c = changes
  BY <1>1, <1>3
<1> HIDE DEF h, c, e
<1>5. e * CounterSize = 2 * (e * h) /\ e * h \in Nat
  BY <1>1, <1>2
<1>6. changes = 2 * (e * h) + c
  BY <1>4, <1>5
<1>7. changes % 2 = 0 <=> c % 2 = 0
  <2> DEFINE k == e * h
  <2>1. k \in Nat /\ changes = 2 * k + c
    BY <1>5, <1>6
  <2> HIDE DEF k
  <2> QED BY <1>1, <2>1
<1> QED BY <1>1, <1>4, <1>7 DEF State, StateAfter, c, e

LEMMA ReplicaStep ==
  ASSUME VersionInv, ReplicaInv, [Next]_vars
  PROVE  ReplicaInv'
<1> DEFINE m == CounterSize * EpochSize
<1>1. changes \in Nat /\ boots \in Nat /\ boots >= 1 /\ m \in Nat
  BY Types, Constants DEF VersionInv
<1> SUFFICES ASSUME boots' = 1, changes' < m
             PROVE  \/ last' = <<>>
                    \/ \E k, n \in 0..changes' :
                         k <= n /\ last' = StateAfter(k) /\ replica' = StateAfter(n)
  BY DEF ReplicaInv, StateAfter
<1> HIDE DEF m
<1>2. CASE BridgePoll
  <2>1. changes' = changes /\ boots' = boots
    BY <1>2 DEF BridgePoll, historyVars
  <2>2. State = StateAfter(changes)
    BY <2>1, StateIs DEF m
  <2>3. \/ last = <<>>
        \/ \E k, n \in 0..changes : k <= n /\ last = StateAfter(k) /\ replica = StateAfter(n)
    BY <2>1 DEF ReplicaInv, m
  <2>4. changes \in 0..changes /\ changes <= changes /\ \A k \in 0..changes : k <= changes
    BY <1>1
  <2>5. CASE last' = State /\ replica' = State
    BY <2>1, <2>2, <2>4, <2>5
  <2>6. CASE last' = last /\ replica' = replica
    BY <2>1, <2>3, <2>6
  <2>7. CASE last' = last /\ replica' = State
    BY <2>1, <2>2, <2>3, <2>4, <2>7
  <2> QED BY <1>2, <2>5, <2>6, <2>7 DEF BridgePoll
<1>3. CASE UNCHANGED bridgeVars /\ ~Boot
  <2>1. boots' = boots /\ changes' \in Nat /\ changes <= changes'
    <3>1. CASE Scan
      <4>1. changes' = changes \/ changes' = changes + 1
        BY <3>1 DEF Scan
      <4> QED BY <1>1, <3>1, <4>1 DEF Scan
    <3>2. CASE ~Scan
      <4>1. UNCHANGED <<boots, changes>>
        BY <1>3, <3>2, RegisterSteps DEF SetState, WriteEpoch, WriteCommand, historyVars
      <4> QED BY <1>1, <4>1
    <3> QED BY <3>1, <3>2
  <2>2. \/ last = <<>>
        \/ \E k, n \in 0..changes : k <= n /\ last = StateAfter(k) /\ replica = StateAfter(n)
    BY <1>1, <2>1 DEF ReplicaInv, m
  <2>3. \A k \in 0..changes : k \in 0..changes'
    BY <1>1, <2>1
  <2>4. last' = last /\ replica' = replica
    BY <1>3 DEF bridgeVars
  <2> QED BY <2>2, <2>3, <2>4
<1>4. CASE Boot
  <2>1. boots' = boots + 1
    BY <1>4 DEF Boot
  <2> QED BY <1>1, <2>1
<1>5. BridgePoll \/ UNCHANGED bridgeVars
  BY DEF Next, Scan, Boot, SetState, Call, ThreadStep, Number, WriteEpoch, WriteCommand, Return,
         TimeOut, vars
<1> QED BY <1>2, <1>3, <1>4, <1>5

\* The bridge loses no state: however POSTs fail, before or after they took
\* effect, XAIR has the state of the PLC or the next poll posts it, within a
\* boot and one round of versions.
THEOREM ReplicaCatches == Spec => []ReplicaFollows
<1>1. Init => ReplicaInv
  BY DEF Init, ReplicaInv
<1>2. VersionInv /\ ReplicaInv /\ [Next]_vars => ReplicaInv'
  BY ReplicaStep
<1>3. VersionInv /\ ReplicaInv => ReplicaFollows
  <2> SUFFICES ASSUME VersionInv, ReplicaInv, last = State, ~(boots > 1),
                      ~(changes >= CounterSize * EpochSize)
               PROVE  replica = State
    BY DEF ReplicaFollows
  <2>1. boots = 1 /\ changes < CounterSize * EpochSize /\ changes \in Nat
    <3> DEFINE m == CounterSize * EpochSize
    <3>1. m \in Nat /\ boots \in 1..MaxBoots /\ changes \in Nat /\ MaxBoots \in Nat
      BY Types, Constants DEF VersionInv
    <3>2. ~(changes >= m)
      OBVIOUS
    <3> HIDE DEF m
    <3>3. boots = 1 /\ changes < m
      BY <3>1, <3>2
    <3> QED BY <3>1, <3>3 DEF m
  <2>2. State = StateAfter(changes)
    BY <2>1, StateIs
  <2>3. last # <<>>
    BY <2>2 DEF StateAfter
  <2>4. PICK k, n \in 0..changes : k <= n /\ last = StateAfter(k) /\ replica = StateAfter(n)
    BY <2>1, <2>3 DEF ReplicaInv
  <2>5. k = changes
    BY <2>2, <2>4 DEF StateAfter
  <2>6. n = changes
    BY <2>1, <2>4, <2>5
  <2> QED BY <2>2, <2>4, <2>6
<1> QED BY VersionInvariant, <1>1, <1>2, <1>3, PTL DEF Spec
=============================================================================
