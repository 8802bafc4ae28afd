------------------------------ MODULE MesTrace ------------------------------
(***************************************************************************)
(* The production log the experiments replay (experiments/mes_trace.py)    *)
(* and the offline measure of drift on it (experiments/run_e20_mes.py):    *)
(* work steps per machine, the machine states derived from them as a step  *)
(* function of trace time, and for a decision-to-release latency the share *)
(* of idle time in which a decision would be obsolete.                     *)
(*                                                                         *)
(* Trace time is counted in units of the log's resolution and starts at    *)
(* the first step, so a measure of instants is a number of units.          *)
(***************************************************************************)
EXTENDS Integers, Sequences, SequencesExt, FiniteSetsExt

CONSTANTS
  Machines,        \* the resources of the log
  Kinds,           \* report types: setup S, production D, breakdown B
  MaxTrace         \* bound on trace time

ASSUME TraceAssumption ==
  /\ IsFiniteSet(Machines) /\ Machines # {}
  /\ Kinds \subseteq {"S", "D", "B"}
  /\ MaxTrace \in Nat

VARIABLE log       \* the steps of each machine

Instants == 0..MaxTrace
Forever == MaxTrace + 1                \* float("inf")

Step == {x \in [start: Instants, end: Instants, kind: Kinds] : x.start <= x.end}
States == {"IDLE", "SETUP", "BUSY"}

Rows == UNION {log[m] : m \in Machines}
span == Max({x.end : x \in Rows})

-----------------------------------------------------------------------------
(* Timeline *)

\* starts less ends, counting every step boundary up to t, and the state then
Active(steps, t) == Cardinality({x \in steps : x.start <= t}) - Cardinality({x \in steps : x.end <= t})
Level(steps, t) ==
  IF Active(steps, t) <= 0 THEN "IDLE"
  ELSE IF Active({x \in steps : x.kind = "S"}, t) > 0 THEN "SETUP" ELSE "BUSY"

\* mutant of Boundaries: only the ends of steps are boundaries
BoundariesOfEnds(steps) == {x.end : x \in steps}

Boundaries(steps) == {x.start : x \in steps} \cup {x.end : x \in steps}

\* the state after the last boundary before t
Before(steps, t) ==
  LET earlier == {u \in Boundaries(steps) : u < t}
  IN IF earlier = {} THEN "IDLE" ELSE Level(steps, Max(earlier))

\* times and states of a machine, after the first entry, IDLE at 0: a boundary
\* that leaves the state as it was is no change
changes(m) ==
  {[time |-> t, state |-> Level(log[m], t)] :
     t \in {u \in Boundaries(log[m]) : Level(log[m], u) # Before(log[m], u)}}

\* the last entry not later than t, and the first one later (bisect_right)
state(m, t) ==
  LET past == {c \in changes(m) : c.time <= t}
  IN IF past = {} THEN "IDLE" ELSE (CHOOSE c \in past : \A b \in past : b.time <= c.time).state
Following(cs, t) == Min({Forever} \cup {c.time : c \in {b \in cs : b.time > t}})
next_change(m, t) == Following(changes(m), t)

\* mutant of Between: the first change of the period is left out
BetweenLate(m, from, to) ==
  LET all == {c \in changes(m) : from <= c.time /\ c.time < to}
  IN {c \in all : \E b \in all : b.time < c.time}

\* the changes in [from, to), less the first entry
Between(m, from, to) == {c \in changes(m) : from <= c.time /\ c.time < to}

\* ... of all machines, in time order; which of several at one instant comes
\* first, by the names of the machines, is left open
events(from, to) ==
  LET Event(m, c) == [time |-> c.time, machine |-> m, state |-> c.state]
      all == UNION {{Event(m, c) : c \in Between(m, from, to)} : m \in Machines}
  IN {es \in SetToSeqs(all) : \A j, k \in DOMAIN es : j < k => es[j].time <= es[k].time}

-----------------------------------------------------------------------------
(* The offline measure *)

\* the intervals of a machine: from an entry to the next one
Intervals(m) ==
  LET cs == changes(m)
  IN {[first |-> TRUE, from |-> 0, state |-> "IDLE", to |-> Following(cs, -1)]}
       \cup {[first |-> FALSE, from |-> c.time, state |-> c.state, to |-> Following(cs, c.time)] :
               c \in cs}
Censored(i) == i.first \/ i.to = Forever

\* mutant of ObsoletePart: the obsolete instants are not cut at the horizon
ObsoletePartUncut(i, L, horizon) == IF i.to = Forever THEN 0 ELSE i.to - Max({i.from, i.to - L})

\* the obsolete instants of an interval: the last L before the change
ObsoletePart(i, L, horizon) ==
  IF i.to = Forever THEN 0 ELSE Max({0, Min({i.to, horizon}) - Max({i.from, i.to - L})})

\* over decisions at t in [0, span - L] on idle machines: the measure of those
\* whose machine leaves IDLE within L, and of all
offline_exact(L, interior) ==
  LET horizon == span - L
      Counted(m) == {i \in Intervals(m) : /\ i.state = "IDLE"
                                          /\ interior => ~Censored(i)
                                          /\ Min({i.to, horizon}) > i.from}
      Idle(m) == MapThenSumSet(LAMBDA i : Min({i.to, horizon}) - i.from, Counted(m))
      Obsolete(m) == MapThenSumSet(LAMBDA i : ObsoletePart(i, L, horizon), Counted(m))
  IN [obsolete |-> MapThenSumSet(Obsolete, Machines), all |-> MapThenSumSet(Idle, Machines)]

\* _idle_intervals
IdleIntervals(m) == {i \in Intervals(m) : i.state = "IDLE" /\ ~Censored(i) /\ i.to > i.from}

\* what an idle interval that ends in a hit adds
Hits(length, L, model) ==
  IF model = "idle_start" THEN (IF length <= L THEN 1 ELSE 0) ELSE Min({L, length})

\* obsolete and all decisions, uniform over idle time (all of it, or without
\* the intervals longer than "long") or one at the start of each idle interval;
\* any change counts, or only one into a breakdown (the proxy for a change of
\* part is left out)
sensitivity(L, model, proxy, long) ==
  LET Hit(m, i) == proxy = "any" \/ \E x \in log[m] : x.start = i.to /\ x.kind = "B"
      Kept(m) == {i \in IdleIntervals(m) : model = "uniform_le8h" => i.to - i.from <= long}
      Weight(i) == IF model = "idle_start" THEN 1 ELSE i.to - i.from
      All(m) == MapThenSumSet(Weight, Kept(m))
      Obsolete(m) == MapThenSumSet(LAMBDA i : IF Hit(m, i) THEN Hits(i.to - i.from, L, model) ELSE 0,
                                   Kept(m))
  IN [obsolete |-> MapThenSumSet(Obsolete, Machines), all |-> MapThenSumSet(All, Machines)]

=============================================================================
