------------------------------- MODULE OpenPlc -------------------------------
(***************************************************************************)
(* The OpenPLC cell: the PLC program (docker/openplc/cell_ctl.st), its     *)
(* Modbus client and the bridge that replicates the line state to XAIR by  *)
(* polling (scripts/plc_modbus.py).                                        *)
(*                                                                         *)
(* A scan of the program and a Modbus request are atomic; a command is     *)
(* three or more requests, between which scans, writes of the operator and *)
(* restarts of the PLC may happen.  A wait may time out, after which the   *)
(* command may still be executed.  The widths of the version counter, its  *)
(* epoch and the sequence numbers (32768, 32768, 32000) are parameters.    *)
(***************************************************************************)
EXTENDS Integers, Sequences

CONSTANTS
  Threads,         \* threads of the gateway that issue commands
  Objects,         \* PLC objects of the gateway: one, unless its first two
                   \* requests race to create it
  ObjectOf,        \* the object each thread uses
  NoThread,        \* a lock is free
  CounterSize,     \* values of the version counter
  EpochSize,       \* values of its epoch
  SeqMax,          \* the largest sequence number
  Earlier,         \* the sequence numbers an earlier run may have ended with
  MaxChanges,      \* bound on changes of the line state
  MaxCalls,        \* bound on commands
  MaxBoots,        \* bound on boots of the PLC
  MaxStalls,       \* bound on waits that time out
  MaxFailures      \* bound on failed POSTs of the bridge

ASSUME PlcAssumption ==
  /\ Objects # {} /\ ObjectOf \in [Threads -> Objects]
  /\ NoThread \notin Threads
  /\ CounterSize \in Nat \ {0} /\ CounterSize % 2 = 0
  /\ EpochSize \in Nat \ {0} /\ SeqMax \in Nat /\ SeqMax > 1
  /\ Earlier \subseteq 0..SeqMax
  /\ {MaxChanges, MaxCalls, MaxBoots, MaxStalls, MaxFailures} \subseteq Nat /\ MaxBoots > 0

VARIABLES
  plc,             \* the holding registers
  seq,             \* PLC.seq of each object
  cmdLock,         \* holder of PLC.cmd_lock of each object
  thread,          \* the command each thread issues
  last,            \* what the bridge last posted with success
  replica,         \* the line state and version in XAIR's context
  boots,           \* boots of the PLC
  changes,         \* changes of the line state since the boot
  writer,          \* the call whose command is in the registers (history)
  doneBy,          \* the call whose result is in the registers (history)
  calls,           \* calls of command so far
  effects,         \* commands executed (history)
  stalls,          \* waits that timed out so far
  failures         \* failed POSTs so far

clientVars == <<seq, cmdLock, thread, stalls>>
bridgeVars == <<last, replica, failures>>
historyVars == <<boots, changes, writer, doneBy, calls, effects>>
vars == <<plc, clientVars, bridgeVars, historyVars>>

RUN == 1
PAUSED == 0
None == -1

Modes == {"plain", "version", "predicate"}
NoCall == 0
NoMoment == [boot |-> 0, changes |-> None]       \* no witness

\* the registers after the first scan of a run (those of a new process are 0)
Booted ==
  [line |-> RUN, counter |-> 0, epoch |-> 0, setReq |-> None, cmdSeq |-> 0,
   mode |-> "plain", expected |-> None, expectedEpoch |-> None, done |-> 0,
   result |-> 0, conveyor |-> FALSE]

Idle == [pc |-> "idle", call |-> NoCall, mode |-> "plain", witness |-> NoMoment,
         number |-> 0]

\* the gateway may start after commands of an earlier one
Init ==
  /\ \E d \in Earlier : plc = [Booted EXCEPT !.cmdSeq = d, !.done = d]
  /\ seq = [o \in Objects |-> None]
  /\ cmdLock = [o \in Objects |-> NoThread]
  /\ thread = [t \in Threads |-> Idle]
  /\ last = <<>>
  /\ replica = <<>>
  /\ boots = 1
  /\ changes = 0
  /\ writer = NoCall
  /\ doneBy = NoCall
  /\ calls = 0
  /\ effects = <<>>
  /\ stalls = 0
  /\ failures = 0

-----------------------------------------------------------------------------
(* The PLC *)

\* mutant of Advance: the epoch does not follow the counter
AdvanceCounter(r) == [r EXCEPT !.counter = (@ + 1) % CounterSize]

\* the version after a change: the epoch advances when the counter wraps
Advance(r) ==
  IF r.counter < CounterSize - 1 THEN [r EXCEPT !.counter = @ + 1]
  ELSE [r EXCEPT !.counter = 0, !.epoch = IF @ < EpochSize - 1 THEN @ + 1 ELSE 0]

\* the first half of a scan: the operator's request; a pause stops the conveyor
Requested(r) ==
  LET moved == IF r.setReq # r.line THEN Advance([r EXCEPT !.line = r.setReq]) ELSE r
  IN IF r.setReq = None THEN r
     ELSE [moved EXCEPT !.setReq = None, !.conveyor = @ /\ r.setReq # PAUSED]

\* mutants of Accepts: a conditional command compares the epoch or the counter
\* alone
AcceptsEpoch(r) ==
  \/ r.mode = "plain"
  \/ r.mode = "predicate" /\ r.line = RUN
  \/ r.mode = "version" /\ r.expectedEpoch = r.epoch
AcceptsCounter(r) ==
  \/ r.mode = "plain"
  \/ r.mode = "predicate" /\ r.line = RUN
  \/ r.mode = "version" /\ r.expected = r.counter

\* the second half: is the new command executed?
Accepts(r) ==
  \/ r.mode = "plain"
  \/ r.mode = "predicate" /\ r.line = RUN
  \/ r.mode = "version" /\ r.expected = r.counter /\ r.expectedEpoch = r.epoch

\* cmd_result
Result(r) ==
  IF Accepts(r) THEN (IF r.line = RUN THEN 1 ELSE 2)
  ELSE IF r.mode = "predicate" THEN 4 ELSE 3

\* the version does not tell m changes from n
SameVersion(m, n) == m % (CounterSize * EpochSize) = n % (CounterSize * EpochSize)

\* what became true at an execution: whether its caller still waits, and
\* whether the moment is the one its witness names, if that is of this boot
Effect(r) ==
  LET mine == {t \in Threads : thread[t].call = writer /\ thread[t].pc = "wait"}
  IN [call |-> writer, mode |-> r.mode, line |-> r.line, awaited |-> mine # {},
      exact |-> \A t \in mine : thread[t].witness.boot = boots
                                  => SameVersion(thread[t].witness.changes, changes')]

\* mutant of Scan: cmd_done is set when a command is refused only
ScanRepeats ==
  LET r == Requested(plc)
      new == r.cmdSeq # r.done
  IN /\ plc.setReq # None \/ plc.cmdSeq # plc.done
     /\ changes' = IF r.line # plc.line THEN changes + 1 ELSE changes
     /\ plc' = IF new /\ ~Accepts(r) THEN [r EXCEPT !.done = r.cmdSeq] ELSE r
     /\ doneBy' = IF new /\ ~Accepts(r) THEN writer ELSE doneBy
     /\ effects' = IF new /\ Accepts(r) THEN Append(effects, Effect(r)) ELSE effects
     /\ UNCHANGED <<clientVars, bridgeVars, boots, writer, calls>>

Scan ==
  LET r == Requested(plc)
      new == r.cmdSeq # r.done
  IN /\ plc.setReq # None \/ plc.cmdSeq # plc.done
     /\ changes' = IF r.line # plc.line THEN changes + 1 ELSE changes
     /\ plc' = IF ~new THEN r
               ELSE [r EXCEPT !.done = r.cmdSeq, !.result = Result(r),
                              !.conveyor = @ \/ Accepts(r)]
     /\ doneBy' = IF new THEN writer ELSE doneBy
     /\ effects' = IF new /\ Accepts(r) THEN Append(effects, Effect(r)) ELSE effects
     /\ UNCHANGED <<clientVars, bridgeVars, boots, writer, calls>>

\* the runtime is restarted, up to the end of its first scan
Boot ==
  /\ boots < MaxBoots
  /\ boots' = boots + 1
  /\ plc' = Booted
  /\ changes' = 0
  /\ writer' = NoCall
  /\ doneBy' = NoCall
  /\ UNCHANGED <<clientVars, bridgeVars, calls, effects>>

-----------------------------------------------------------------------------
(* set_state: an operator writes the request.  Its wait for the scan only     *)
(* reads; when it times out the request stays, for a later scan.             *)

SetState(value) ==
  /\ value # plc.line => changes < MaxChanges
  /\ plc' = [plc EXCEPT !.setReq = value]
  /\ UNCHANGED <<clientVars, bridgeVars, historyVars>>

-----------------------------------------------------------------------------
(* command *)

At(t, pc) == thread[t].pc = pc

\* the witness is a moment at which the line was in RUN: the version that the
\* gateway's gate or commit went by; without one the command expects -1
Witnesses ==
  {[boot |-> boots, changes |-> n] : n \in {k \in 0..changes : k % 2 = 0}} \cup {NoMoment}

Call(t, mode, witness) ==
  LET o == ObjectOf[t] IN
  /\ At(t, "idle")
  /\ calls < MaxCalls
  /\ cmdLock[o] = NoThread
  /\ cmdLock' = [cmdLock EXCEPT ![o] = t]
  /\ calls' = calls + 1
  /\ thread' = [thread EXCEPT ![t] = [Idle EXCEPT !.pc = "number", !.call = calls + 1,
                                                  !.mode = mode, !.witness = witness]]
  /\ UNCHANGED <<plc, seq, stalls, bridgeVars, boots, changes, writer, doneBy, effects>>

\* mutant of NextNumber: every command has the number of the one before
NextNumberSame(n) == IF n \in 1..SeqMax THEN n ELSE 1

\* the next sequence number; the first one follows the PLC's cmd_done
NextNumber(n) == IF n < SeqMax THEN n + 1 ELSE 1

Number(t) ==
  LET o == ObjectOf[t]
      n == NextNumber(IF seq[o] = None THEN plc.done ELSE seq[o])
  IN /\ At(t, "number")
     /\ seq' = [seq EXCEPT ![o] = n]
     /\ thread' = [thread EXCEPT ![t].pc = "epoch", ![t].number = n]
     /\ UNCHANGED <<plc, cmdLock, stalls, bridgeVars, historyVars>>

\* the first write: the expected epoch
WriteEpoch(t) ==
  LET w == thread[t].witness IN
  /\ At(t, "epoch")
  /\ plc' = [plc EXCEPT !.expectedEpoch =
               IF w = NoMoment THEN None ELSE (w.changes \div CounterSize) % EpochSize]
  /\ thread' = [thread EXCEPT ![t].pc = "write"]
  /\ UNCHANGED <<seq, cmdLock, stalls, bridgeVars, historyVars>>

\* the second one: the number, which makes the next scan execute the command
WriteCommand(t) ==
  LET w == thread[t].witness IN
  /\ At(t, "write")
  /\ plc' = [plc EXCEPT !.cmdSeq = thread[t].number, !.mode = thread[t].mode,
                        !.expected = IF w = NoMoment THEN None ELSE w.changes % CounterSize]
  /\ writer' = thread[t].call
  /\ thread' = [thread EXCEPT ![t].pc = "wait"]
  /\ UNCHANGED <<seq, cmdLock, stalls, bridgeVars, boots, changes, doneBy, calls, effects>>

\* a poll finds the number done, and takes the result for the command's
Return(t) ==
  /\ At(t, "wait")
  /\ plc.done = thread[t].number
  /\ thread' = [thread EXCEPT ![t] = Idle]
  /\ cmdLock' = [cmdLock EXCEPT ![ObjectOf[t]] = NoThread]
  /\ UNCHANGED <<plc, seq, stalls, bridgeVars, historyVars>>

\* TimeoutError after two seconds: a boot lost the command, or no scan came
TimeOut(t) ==
  /\ At(t, "wait")
  /\ plc.done # thread[t].number
  /\ IF plc.cmdSeq = thread[t].number THEN stalls < MaxStalls /\ stalls' = stalls + 1
                                       ELSE UNCHANGED stalls
  /\ thread' = [thread EXCEPT ![t] = Idle]
  /\ cmdLock' = [cmdLock EXCEPT ![ObjectOf[t]] = NoThread]
  /\ UNCHANGED <<plc, seq, bridgeVars, historyVars>>

-----------------------------------------------------------------------------
(* bridge *)

\* state(): one read of registers 0..10
State == <<plc.line, plc.epoch * CounterSize + plc.counter>>

\* mutant of BridgePoll: a state counts as posted when the POST failed too
BridgePollOnce ==
  /\ State # last
  /\ last' = State
  /\ \/ replica' = State /\ UNCHANGED failures
     \/ /\ failures < MaxFailures /\ failures' = failures + 1
        /\ replica' \in {replica, State}
  /\ UNCHANGED <<plc, clientVars, historyVars>>

\* a changed state is posted; a POST that fails, before or after it took
\* effect, is repeated by a later poll
BridgePoll ==
  /\ State # last
  /\ \/ last' = State /\ replica' = State /\ UNCHANGED failures
     \/ /\ failures < MaxFailures /\ failures' = failures + 1
        /\ replica' \in {replica, State}
        /\ UNCHANGED last
  /\ UNCHANGED <<plc, clientVars, historyVars>>

-----------------------------------------------------------------------------
ThreadStep(t) ==
  Number(t) \/ WriteEpoch(t) \/ WriteCommand(t) \/ Return(t) \/ TimeOut(t)

Next ==
  \/ Scan \/ Boot
  \/ \E value \in {RUN, PAUSED} : SetState(value)
  \/ \E t \in Threads, mode \in Modes, w \in Witnesses : Call(t, mode, w)
  \/ \E t \in Threads : ThreadStep(t)
  \/ BridgePoll

Spec == Init /\ [][Next]_vars
-----------------------------------------------------------------------------
(* Properties *)

Moments == [boot: 0..MaxBoots, changes: {None} \cup 0..MaxChanges]

PlcTypeOK ==
  /\ plc \in [line: {RUN, PAUSED}, counter: 0..(CounterSize - 1), epoch: 0..(EpochSize - 1),
              setReq: {None, RUN, PAUSED}, cmdSeq: 0..SeqMax, mode: Modes,
              expected: {None} \cup 0..(CounterSize - 1),
              expectedEpoch: {None} \cup 0..(EpochSize - 1), done: 0..SeqMax,
              result: 0..4, conveyor: BOOLEAN]
  /\ seq \in [Objects -> {None} \cup 1..SeqMax]
  /\ cmdLock \in [Objects -> Threads \cup {NoThread}]
  /\ thread \in [Threads ->
       [pc: {"idle", "number", "epoch", "write", "wait"}, call: 0..MaxCalls,
        mode: Modes, witness: Moments, number: 0..SeqMax]]
  /\ boots \in 1..MaxBoots /\ changes \in 0..MaxChanges
  /\ {writer, doneBy, calls} \subseteq 0..MaxCalls
  /\ effects \in Seq([call: 1..MaxCalls, mode: Modes, line: {RUN, PAUSED}, awaited: BOOLEAN,
                      exact: BOOLEAN])
  /\ failures \in 0..MaxFailures /\ stalls \in 0..MaxStalls

\* The version registers count the changes since the boot, through wraps of the
\* counter and of the epoch, and the line is in RUN exactly at even versions.
VersionCounts ==
  /\ plc.epoch * CounterSize + plc.counter = changes % (CounterSize * EpochSize)
  /\ plc.line = RUN <=> plc.counter % 2 = 0

\* An interlocked or version-conditional command never runs the conveyor on a
\* paused line, also when its caller timed out, the next command's expected
\* epoch was written over its own, or the PLC restarted at version 0.
ConditionalRun == \A n \in DOMAIN effects : effects[n].mode # "plain" => effects[n].line = RUN

\* While its caller waits, a version-conditional command is executed only at
\* the very moment its witness names, not at one that a wrapped counter makes
\* look the same (within one boot, and up to a wrap of the epoch).
ConditionalExact ==
  \A n \in DOMAIN effects :
    effects[n].mode = "version" /\ effects[n].awaited => effects[n].exact

\* No command is executed twice, although a sequence number is used again
\* after a wrap and a restarted PLC forgets which it has done.
ExecutedOnce ==
  \A m, n \in DOMAIN effects : effects[m].call = effects[n].call => m = n

\* The result a poll takes for a command's is that of this command, not one an
\* earlier command left behind the same number, although a command that timed
\* out may be executed later and numbers are used again after a wrap.
OwnResult ==
  \A t \in Threads : At(t, "wait") /\ plc.done = thread[t].number => doneBy = thread[t].call

\* A line state that XAIR has not got is one the bridge will still post: however
\* POSTs fail, before or after they took effect, the replica is the state of the
\* PLC or the next poll sees a difference.  (Excepted are a boot and a wrap of the
\* epoch, which use versions again: there the bridge may take a state for one it
\* has posted.)
ReplicaFollows ==
  \/ replica = State \/ last # State
  \/ boots > 1 \/ changes >= CounterSize * EpochSize
=============================================================================
