---------------------------- MODULE CellController ----------------------------
(***************************************************************************)
(* The emulated cell controller, owner of the line state (scripts/         *)
(* cell_controller.py), its variant with fast variables (scripts/          *)
(* cell_controller_multi.py), and the bridge that replicates the line      *)
(* state to XAIR.                                                          *)
(*                                                                         *)
(* The controller is one asyncio loop: an OPC UA method call, a scan and a *)
(* step of the bridge run without interleaving, so each is one action.     *)
(* Commands wait in "pending" for the next scan.  A POST of the bridge may *)
(* fail, or time out and be served by XAIR later.  Where a POST arrives is *)
(* said by the module that composes this one (Gateway).                    *)
(***************************************************************************)
EXTENDS Integers, Sequences, SequencesExt

CONSTANTS
  Callers,         \* clients that may wait for the answer to a command
  NoCaller,        \* nobody waits for the answer any more
  Commanded,       \* the intents whose RESUME may be commanded
  Deployments,     \* the ways the controller may be started
  MaxCellVersion,  \* bound on the controller's version
  CellRestarts     \* may the controller restart?

\* How the bridge finds what to post (all changes, samples with --sampling-ms,
\* or the last of a burst as in MultiCell), whether fast variables advance the
\* version too (MultiCell only), and whether the version is persisted
\* (--state-file, which MultiCell has not).
Deployment ==
  [bridge: {"queue", "sampling"}, versions: {"line"}, stateFile: BOOLEAN]
    \cup [bridge: {"coalesce"}, versions: {"line", "global"}, stateFile: {FALSE}]

ASSUME CellAssumption ==
  /\ NoCaller \notin Callers
  /\ Deployments # {} /\ Deployments \subseteq Deployment
  /\ CellRestarts \in BOOLEAN
  /\ MaxCellVersion \in Nat \ {0}

VARIABLES
  deployment,      \* how this controller was started
  now,             \* the wall clock, in units of the intents' age bound
  line,            \* Cell.state
  cellVersion,     \* Cell.version
  persisted,       \* the version in the state file
  conveyor,        \* Cell.conveyor
  pending,         \* commands queued for the next scan
  answer,          \* what the future of each caller's command holds
  bridgeQ,         \* Cell.bridge_q
  published,       \* last pair the sampling bridge published
  posting,         \* the pair of the POST the bridge waits for
  late,            \* pairs of POSTs the bridge gave up and XAIR may still serve
  held,            \* pairs the controller has held (history)
  effects          \* commands executed, with the state they met (history)

controllerVars == <<deployment, line, cellVersion, persisted, conveyor, held>>
commandVars == <<pending, answer, effects>>
bridgeVars == <<bridgeQ, published, posting, late>>
cellVars == <<controllerVars, commandVars, bridgeVars>>

RUN == 1
PAUSED == 0
LineStates == {PAUSED, RUN}
NoVersion == -1                  \* no expected version
NoDeadlineAt == -1
Pairs == [line: LineStates, version: Nat]
NoPost == [line |-> PAUSED, version |-> NoVersion]
Pair == [line |-> line, version |-> cellVersion]

Guards == {"plain", "version", "predicate"}
Answers == {"none", "executed", "refused", "error"}

CellInit ==
  /\ deployment \in Deployments
  /\ now = 0
  /\ line = RUN
  /\ cellVersion = 1
  /\ persisted = 1
  /\ conveyor = FALSE
  /\ pending = <<>>
  /\ answer = [c \in Callers |-> "none"]
  /\ bridgeQ = <<[line |-> RUN, version |-> 1]>>
  /\ published = [line |-> RUN, version |-> 1]
  /\ posting = NoPost
  /\ late = {}
  /\ held = {[line |-> RUN, version |-> 1]}
  /\ effects = {}

-----------------------------------------------------------------------------
(* The line state *)

\* SetLineState; a write of the current value changes nothing but a conveyor
\* that a RESUME started on a paused line
SetState(value) ==
  /\ IF value # line
     THEN /\ cellVersion < MaxCellVersion
          /\ line' = value
          /\ cellVersion' = cellVersion + 1
          /\ persisted' = IF deployment.stateFile THEN cellVersion' ELSE persisted
          /\ held' = held \cup {[line |-> value, version |-> cellVersion']}
          /\ bridgeQ' = Append(bridgeQ, [line |-> value, version |-> cellVersion'])
     ELSE UNCHANGED <<line, cellVersion, persisted, held, bridgeQ>>
  /\ conveyor' = (conveyor /\ value = RUN)
  /\ UNCHANGED <<deployment, now, commandVars, published, posting, late>>

\* MultiCell.fast_change: not persisted, and seen by no predicate
FastChange ==
  /\ deployment.versions = "global"
  /\ cellVersion < MaxCellVersion
  /\ cellVersion' = cellVersion + 1
  /\ held' = held \cup {[line |-> line, version |-> cellVersion']}
  /\ bridgeQ' = Append(bridgeQ, [line |-> line, version |-> cellVersion'])
  /\ UNCHANGED <<deployment, now, line, persisted, conveyor, commandVars, published, posting, late>>

\* mutant of Booted: every run starts with the same version
BootedAtSeed == 1

\* the version a new process starts with: after the persisted one, or the time
\* in microseconds, above any value the last run reached
Booted == IF deployment.stateFile THEN persisted + 1 ELSE cellVersion + 1

\* a crash and a new Cell: queued commands and posts are lost, and the clients
\* that wait get an error
CellRestart ==
  /\ CellRestarts
  /\ Booted <= MaxCellVersion
  /\ line' = RUN
  /\ cellVersion' = Booted
  /\ persisted' = IF deployment.stateFile THEN Booted ELSE persisted
  /\ conveyor' = FALSE
  /\ pending' = <<>>
  /\ answer' = [c \in Callers |->
                  IF \E n \in DOMAIN pending : pending[n].by = c THEN "error" ELSE answer[c]]
  /\ held' = held \cup {[line |-> RUN, version |-> Booted]}
  /\ bridgeQ' = <<[line |-> RUN, version |-> Booted]>>
  /\ published' = [line |-> RUN, version |-> Booted]
  /\ posting' = NoPost
  /\ late' = IF posting = NoPost THEN late ELSE late \cup {posting}
  /\ UNCHANGED <<deployment, now, effects>>

-----------------------------------------------------------------------------
(* Commands *)

\* Resume, ConditionalResume and PredicateResume: queue the command; a plain
\* one has no deadline, and no one has one that is not positive
Enqueue(c, i, guard, expected, deadline) ==
  /\ pending' = Append(pending,
       [id |-> i, guard |-> guard, by |-> c,
        expected |-> IF guard = "version" THEN expected ELSE NoVersion,
        deadline |-> IF guard = "plain" THEN NoDeadlineAt ELSE deadline])
  /\ answer' = [answer EXCEPT ![c] = "none"]
  /\ UNCHANGED effects

\* the caller gives the call up; the command stays queued
Abandon(c) ==
  /\ pending' = [n \in DOMAIN pending |->
                   IF pending[n].by = c THEN [pending[n] EXCEPT !.by = NoCaller] ELSE pending[n]]
  /\ answer' = [answer EXCEPT ![c] = "none"]
  /\ UNCHANGED effects

\* mutant of Executes: a conditional command compares line states only
ExecutesOnRun(cmd) ==
  /\ cmd.guard = "predicate" => line = RUN
  /\ cmd.deadline # NoDeadlineAt => now <= cmd.deadline

\* the checks of scan, in its order
Executes(cmd) ==
  /\ cmd.guard = "version" => cmd.expected = cellVersion
  /\ cmd.guard = "predicate" => line = RUN
  /\ cmd.deadline # NoDeadlineAt => now <= cmd.deadline

\* one scan: every queued command, against the state as it is now
Scan ==
  LET done == {n \in DOMAIN pending : Executes(pending[n])}
      By(c) == {n \in DOMAIN pending : pending[n].by = c}
  IN /\ pending # <<>>
     /\ pending' = <<>>
     /\ answer' = [c \in Callers |-> IF By(c) = {} THEN answer[c]
                                     ELSE IF By(c) \subseteq done THEN "executed" ELSE "refused"]
     /\ effects' = effects \cup {[id |-> pending[n].id, guard |-> pending[n].guard,
                                  line |-> line, at |-> now] : n \in done}
     /\ conveyor' = (conveyor \/ done # {})
     /\ UNCHANGED <<deployment, now, line, cellVersion, persisted, held, bridgeVars>>

-----------------------------------------------------------------------------
(* The bridge: one POST at a time *)

\* the queue's next pair, the last of a burst, or what a sample finds changed
BridgeTake ==
  /\ posting = NoPost
  /\ \/ /\ deployment.bridge = "queue" /\ bridgeQ # <<>>
        /\ posting' = Head(bridgeQ)
        /\ bridgeQ' = Tail(bridgeQ)
        /\ UNCHANGED published
     \/ /\ deployment.bridge = "coalesce" /\ bridgeQ # <<>>
        /\ posting' = Last(bridgeQ)
        /\ bridgeQ' = <<>>
        /\ UNCHANGED published
     \/ /\ deployment.bridge = "sampling" /\ Pair # published
        /\ posting' = Pair
        /\ published' = Pair
        /\ bridgeQ' = <<>>
  /\ UNCHANGED <<now, controllerVars, commandVars, late>>

\* the POST raises: it never arrived, or it timed out and may arrive yet
BridgeRaise ==
  /\ posting # NoPost
  /\ posting' = NoPost
  /\ late' \in {late, late \cup {posting}}
  /\ UNCHANGED <<now, controllerVars, commandVars, bridgeQ, published>>

\* XAIR serves a POST of pair m: the one the bridge waits for, or a late one
Serve(m) ==
  /\ \/ m = posting /\ posting # NoPost /\ posting' = NoPost /\ UNCHANGED late
     \/ m \in late /\ late' = late \ {m} /\ UNCHANGED posting
  /\ UNCHANGED <<now, controllerVars, commandVars, bridgeQ, published>>

\* what runs in the controller's event loop: state changes by its clients, the
\* writers of fast variables, the scanner and the bridge
CellTasks ==
  \/ \E value \in LineStates : SetState(value)
  \/ FastChange
  \/ Scan
  \/ BridgeTake

-----------------------------------------------------------------------------
(* Properties *)

Command == [id: Commanded, guard: Guards, by: Callers \cup {NoCaller},
            expected: {NoVersion} \cup Nat, deadline: {NoDeadlineAt} \cup Nat]
Effect == [id: Commanded, guard: Guards, line: LineStates, at: Nat]

CellTypeOK ==
  /\ deployment \in Deployments
  /\ now \in Nat
  /\ line \in LineStates
  /\ cellVersion \in 0..MaxCellVersion
  /\ persisted \in 0..MaxCellVersion
  /\ conveyor \in BOOLEAN
  /\ pending \in Seq(Command)
  /\ answer \in [Callers -> Answers]
  /\ bridgeQ \in Seq(Pairs)
  /\ published \in Pairs
  /\ posting \in Pairs \cup {NoPost}
  /\ late \subseteq Pairs
  /\ held \subseteq Pairs
  /\ effects \subseteq Effect

\* A version names one line state for ever, across changes, changes back and
\* restarts (assumption A4 in the module's docstring): a stale reader that
\* compares versions cannot mistake one state of the line for another.
VersionNamesState == \A x, y \in held : x.version = y.version => x.line = y.line
=============================================================================
