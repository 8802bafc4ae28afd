------------------------------ MODULE MesReplay ------------------------------
(***************************************************************************)
(* The live experiment on the production log (experiments/run_e20_mes.py): *)
(* a thread replays the log's state changes into XAIR's snapshot, one POST *)
(* at a time, while every decision is submitted through all gates and each *)
(* answer is labelled with what the replay's own record of its writes says *)
(* of the instant the answer is about.                                     *)
(*                                                                         *)
(* Rows of the log are read first.  Then wall time is a counter that every *)
(* stamped event advances: timestamps are never equal, and the pace of the *)
(* replay against the decisions is left open.  A gate is what its check    *)
(* amounts to: it passes if the machine is IDLE in the snapshot, and a     *)
(* command that passed is released some time later (Gateway models how).   *)
(***************************************************************************)
EXTENDS MesTrace

CONSTANTS
  Gates,           \* the gates of the paired design
  Decisions,       \* decisions of the scheduler
  NoMachine,       \* the decision is not taken yet
  MaxRows,         \* bound on the steps in the log
  Replayed         \* the logs that are replayed; the others are only measured

GateKinds == {"direct", "xair", "xair_atomic"}
ASSUME ReplayAssumption ==
  /\ Gates # {} /\ Gates \subseteq GateKinds
  /\ NoMachine \notin Machines
  /\ MaxRows \in Nat

VARIABLES
  phase,           \* "log" while rows are read, then "live"
  todo,            \* events the replay has still to write
  t_from,          \* the trace time the replay starts at
  init,            \* the machine states then
  snapshot,        \* the machine states in XAIR
  post,            \* the POST the replay waits for
  written,         \* Replayer.written: start, end, machine and state of each write
  wall,            \* the wall clock
  machine,         \* the machine of each decision
  sub              \* each decision's submission through each gate

replayVars == <<todo, t_from, init, snapshot, post, written>>
vars == <<log, phase, replayVars, wall, machine, sub>>

NoPost == [pc |-> "none", at |-> 0]

\* A submission waits, has passed its gate, is answered, and has a row.  "ref"
\* is the instant the answer is about (0: the time of labelling), "truth" the
\* machine's state in the snapshot then, "whole" that all writes started before
\* it are on record when the row is made.
Waiting == [pc |-> "waiting", released |-> FALSE, ref |-> 0, truth |-> "IDLE", whole |-> TRUE,
            obsolete |-> FALSE, ambiguous |-> FALSE]

Init ==
  /\ log = [m \in Machines |-> {}]
  /\ phase = "log"
  /\ todo = <<>> /\ written = <<>>
  /\ t_from = 0
  /\ init = [m \in Machines |-> "IDLE"]
  /\ snapshot = init
  /\ post = NoPost
  /\ wall = 0
  /\ machine = [d \in Decisions |-> NoMachine]
  /\ sub = [d \in Decisions |-> [g \in Gates |-> Waiting]]

Size == MapThenSumSet(LAMBDA m : Cardinality(log[m]), Machines)

\* Timeline.__init__ reads a row of the archive, the earliest one first; the
\* trace starts with it
ReadRow(m, x) ==
  /\ phase = "log"
  /\ Size < MaxRows /\ x \notin log[m]
  /\ Rows = {} => x.start = 0
  /\ log' = [log EXCEPT ![m] = @ \cup {x}]
  /\ UNCHANGED <<phase, replayVars, wall, machine, sub>>

-----------------------------------------------------------------------------
(* Replayer *)

\* start: the states at the beginning, in one write, and the events from there
Start(from) ==
  /\ phase = "log"
  /\ log \in Replayed
  /\ phase' = "live"
  /\ t_from' = from
  /\ init' = [m \in Machines |-> state(m, from)]
  /\ snapshot' = init'
  /\ todo' \in events(from, MaxTrace + 1)
  /\ UNCHANGED <<log, post, written, wall, machine, sub>>

\* _run: stamp and send the next event ...
Send ==
  /\ phase = "live" /\ post = NoPost /\ todo # <<>>
  /\ wall' = wall + 1
  /\ post' = [pc |-> "sent", at |-> wall']
  /\ UNCHANGED <<log, phase, todo, t_from, init, snapshot, written, machine, sub>>

\* ... XAIR applies it ...
Applied ==
  /\ post.pc = "sent"
  /\ post' = [post EXCEPT !.pc = "applied"]
  /\ snapshot' = [snapshot EXCEPT ![Head(todo).machine] = Head(todo).state]
  /\ UNCHANGED <<log, phase, todo, t_from, init, written, wall, machine, sub>>

\* ... and only then is the write put on record, with both stamps
Record ==
  /\ post.pc = "applied"
  /\ wall' = wall + 1
  /\ written' = Append(written, [a |-> post.at, b |-> wall', machine |-> Head(todo).machine,
                                 state |-> Head(todo).state])
  /\ todo' = Tail(todo)
  /\ post' = NoPost
  /\ UNCHANGED <<log, phase, t_from, init, snapshot, machine, sub>>

\* a POST that raises ends the replay's thread, before or after it was applied
Die ==
  /\ post.pc \in {"sent", "applied"}
  /\ post' = [post EXCEPT !.pc = "dead"]
  /\ UNCHANGED <<log, phase, todo, t_from, init, snapshot, written, wall, machine, sub>>

\* the writes to a machine on record, and the state the last of ws left
Writes(m) == {n \in DOMAIN written : written[n].machine = m}
LastOf(m, ws) == IF ws = {} THEN init[m] ELSE written[Max(ws)].state

\* mutant of written_state: a write counts as done when it was started
written_stateEager(m, t) ==
  [done |-> LastOf(m, {n \in Writes(m) : written[n].a <= t}),
   started |-> LastOf(m, {n \in Writes(m) : written[n].a <= t})]

\* the machine's state at wall time t by the writes completed, and by those
\* started before it, of the writes on record
written_state(m, t) ==
  [done |-> LastOf(m, {n \in Writes(m) : written[n].b <= t}),
   started |-> LastOf(m, {n \in Writes(m) : written[n].a <= t})]

-----------------------------------------------------------------------------
(* Decisions *)

\* a decision for a machine that the log has IDLE at some instant
Decide(d, m) ==
  /\ phase = "live" /\ machine[d] = NoMachine
  /\ \E t \in Instants : state(m, t) = "IDLE"
  /\ machine' = [machine EXCEPT ![d] = m]
  /\ UNCHANGED <<log, phase, replayVars, wall, sub>>

\* the gate's check; an answer that withholds says when it was made only if it
\* is the optimistic gate's own, and not a validation's or a commit's
Check(d, g) ==
  /\ machine[d] # NoMachine /\ sub[d][g].pc = "waiting"
  /\ wall' = wall + 1
  /\ IF g = "direct" \/ snapshot[machine[d]] = "IDLE"
     THEN sub' = [sub EXCEPT ![d][g].pc = "passed"]
     ELSE \E ref \in {0} \cup (IF g = "xair" THEN {wall'} ELSE {}) :
            sub' = [sub EXCEPT ![d][g] = [@ EXCEPT !.pc = "answered", !.ref = ref,
                                                   !.truth = snapshot[machine[d]]]]
  /\ UNCHANGED <<log, phase, replayVars, machine>>

\* the middleware call at t_m
Release(d, g) ==
  /\ sub[d][g].pc = "passed"
  /\ wall' = wall + 1
  /\ sub' = [sub EXCEPT ![d][g] = [@ EXCEPT !.pc = "answered", !.released = TRUE, !.ref = wall',
                                            !.truth = snapshot[machine[d]]]]
  /\ UNCHANGED <<log, phase, replayVars, machine>>

\* submit_one: the row of an answer
Label(d, g) ==
  LET x == sub[d][g]
      ref == IF x.ref = 0 THEN wall' ELSE x.ref
      ws == written_state(machine[d], ref)
  IN /\ x.pc = "answered"
     /\ wall' = wall + 1
     /\ sub' = [sub EXCEPT ![d][g] =
          [@ EXCEPT !.pc = "row", !.ref = ref,
                    !.truth = IF x.ref = 0 THEN snapshot[machine[d]] ELSE x.truth,
                    !.whole = (post = NoPost \/ post.at > ref),
                    !.obsolete = (ws.done # "IDLE"),
                    !.ambiguous = ((ws.done = "IDLE") # (ws.started = "IDLE"))]]
     /\ UNCHANGED <<log, phase, replayVars, machine>>

-----------------------------------------------------------------------------
(* summarize_paired *)

stale_release(x) == x.released /\ x.obsolete

false_revocation(x) == ~x.released /\ ~x.obsolete /\ ~x.ambiguous

Complete == {d \in Decisions : \A g \in Gates : sub[d][g].pc = "row"}

\* mutant of Concordant: decisions with different labels count
ConcordantAll == Complete

\* the decisions with one label for all gates
Concordant ==
  {d \in Complete : \A g, h \in Gates : /\ sub[d][g].obsolete = sub[d][h].obsolete
                                        /\ sub[d][g].ambiguous = sub[d][h].ambiguous}
FirstRow(d) == sub[d][CHOOSE g \in Gates : TRUE]
Obsolete == {d \in Concordant : FirstRow(d).obsolete}
Valid == {d \in Concordant : ~FirstRow(d).obsolete /\ ~FirstRow(d).ambiguous}
StaleReleased(g) == {d \in Concordant : stale_release(sub[d][g])}
FalseRevocations(g) == {d \in Concordant : false_revocation(sub[d][g])}

-----------------------------------------------------------------------------
Next ==
  \/ \E m \in Machines, x \in Step : ReadRow(m, x)
  \/ \E from \in Instants : Start(from)
  \/ Send \/ Applied \/ Record \/ Die
  \/ \E d \in Decisions, m \in Machines : Decide(d, m)
  \/ \E d \in Decisions, g \in Gates : Check(d, g) \/ Release(d, g) \/ Label(d, g)

Spec == Init /\ [][Next]_vars
-----------------------------------------------------------------------------
(* Properties *)

ReplayTypeOK ==
  /\ \A m \in Machines : log[m] \subseteq Step
  /\ phase \in {"log", "live"}
  /\ init \in [Machines -> States] /\ snapshot \in [Machines -> States]
  /\ post \in [pc: {"none", "sent", "applied", "dead"}, at: Nat]
  /\ \A n \in DOMAIN written : written[n] \in [a: Nat, b: Nat, machine: Machines, state: States]
  /\ sub \in [Decisions -> [Gates ->
       [pc: {"waiting", "passed", "answered", "row"}, released: BOOLEAN, ref: Nat, truth: States,
        whole: BOOLEAN, obsolete: BOOLEAN, ambiguous: BOOLEAN]]]

\* the state of each machine at each instant, as the docstring of the log's module
\* gives it, and the first later instant with another state
StateAt ==
  [m \in Machines |-> [t \in Instants |->
     LET active == {x \in log[m] : x.start <= t /\ t < x.end}
     IN IF active = {} THEN "IDLE" ELSE IF \E x \in active : x.kind = "S" THEN "SETUP" ELSE "BUSY"]]
LeavesAt(at) ==
  [m \in Machines |-> [t \in Instants |->
     Min({Forever} \cup {u \in (t + 1)..MaxTrace : at[m][u] # at[m][t]})]]
IdleAt(at) == {d \in Machines \X Instants : at[d[1]][d[2]] = "IDLE"}
Inner(at, leaves, d) == leaves[d[1]][d[2]] # Forever /\ \E u \in 0..(d[2] - 1) : at[d[1]][u] # "IDLE"

\* The step function built from the sorted step boundaries agrees, at every
\* instant and however steps overlap, touch or have no length, with the log: a
\* machine is SETUP or BUSY exactly while a step is active on it, and the next
\* change is the first later instant with another state.
TimelineAgrees ==
  phase = "log" =>
    LET at == StateAt
        leaves == LeavesAt(at)
    IN \A m \in Machines : \A t \in Instants : state(m, t) = at[m][t] /\ next_change(m, t) = leaves[m][t]

\* The fractions that the interval arithmetic of offline_exact calls exact are:
\* counted decision by decision, as its Monte Carlo cross-check samples them,
\* also with the censored ends excluded and at the horizon span - L.
ExactMeasure ==
  phase = "log" /\ Rows # {} =>
    LET at == StateAt
        leaves == LeavesAt(at)
        idle == IdleAt(at)
        inner == {d \in idle : Inner(at, leaves, d)}
    IN \A L \in 1..MaxTrace : \A interior \in BOOLEAN :
         LET all == {d \in IF interior THEN inner ELSE idle : d[2] < span - L}
         IN offline_exact(L, interior) =
              [obsolete |-> Cardinality({d \in all : leaves[d[1]][d[2]] <= d[2] + L}),
               all |-> Cardinality(all)]

\* The alternative decision models count decisions the same way: every interior
\* idle instant, or the first one of each idle interval, is obsolete if within L
\* the machine changes (into a step that reports a breakdown, for that proxy).
ModelsAgree ==
  phase = "log" =>
    LET at == StateAt
        leaves == LeavesAt(at)
        inner == {d \in IdleAt(at) : Inner(at, leaves, d)}
    IN \A L \in 1..MaxTrace : \A model \in {"uniform", "idle_start"} : \A proxy \in {"any", "breakdown"} :
         LET all == {d \in inner : model = "idle_start" => at[d[1]][d[2] - 1] # "IDLE"}
             Hit(d) == LET out == leaves[d[1]][d[2]]
                       IN /\ out <= d[2] + L
                          /\ proxy = "breakdown" => \E x \in log[d[1]] : x.start = out /\ x.kind = "B"
         IN sensitivity(L, model, proxy, MaxTrace) =
              [obsolete |-> Cardinality({d \in all : Hit(d)}), all |-> Cardinality(all)]

\* Every fraction the offline analysis reports is the one that counting decisions
\* one by one gives, whatever the log, latency, decision model or proxy.
MeasuresExact == ExactMeasure /\ ModelsAgree

\* Between two writes the snapshot holds, for every machine, the state it has in
\* the log until its next event to be written, or for good: the replay loses no
\* change, wherever in the log it began.
ReplayFollows ==
  \A m \in Machines : phase = "live" /\ post = NoPost =>
    LET ahead == {k \in DOMAIN todo : todo[k].machine = m}
        next == todo[Min(ahead)]
    IN snapshot[m] = IF ahead = {} THEN state(m, MaxTrace)
                     ELSE IF next.time = t_from THEN init[m]
                     ELSE state(m, next.time - 1)

\* A row that is not flagged ambiguous is labelled with the truth: the machine
\* was not IDLE in the snapshot at the instant the answer is about exactly if
\* the row says obsolete, although POSTs were under way then, provided that the
\* replay had its answer to them by the time of the label.
LabelSound ==
  \A d \in Decisions, g \in Gates :
    LET x == sub[d][g]
    IN x.pc = "row" /\ x.whole /\ ~x.ambiguous => (x.obsolete <=> x.truth # "IDLE")

\* The paired summary compares gates on the same facts: of a decision that counts
\* as obsolete (and is not ambiguous) or as valid, all answers are about instants
\* at which the machine was in fact not IDLE, or in fact IDLE, and a gate is
\* charged with a stale release or a false revocation exactly if it made one.
PairedFair ==
  \A d \in Obsolete \cup Valid :
    (\A g \in Gates : sub[d][g].whole) /\ ~FirstRow(d).ambiguous =>
      \A g \in Gates :
        /\ sub[d][g].truth = "IDLE" <=> d \in Valid
        /\ d \in StaleReleased(g) <=> sub[d][g].released /\ sub[d][g].truth # "IDLE"
        /\ d \in FalseRevocations(g) <=> ~sub[d][g].released /\ sub[d][g].truth = "IDLE"
=============================================================================
