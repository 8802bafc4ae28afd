----------------------------- MODULE MCMesReplay -----------------------------
(* Instances of MesReplay: all small logs of two machines are measured, and   *)
(* one with a step of one machine and a later one of the second is replayed.    *)
EXTENDS MesReplay

At(start, end, kind) == [start |-> start, end |-> end, kind |-> kind]
MCReplayed ==
  {[n \in Machines |-> IF n = m THEN {At(0, 1, "B")} ELSE {At(1, 2, "S")}] :
     m \in Machines}
Symmetry == Permutations(Machines)
=============================================================================
