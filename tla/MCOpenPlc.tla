------------------------------ MODULE MCOpenPlc ------------------------------
(* Instances of OpenPlc: a counter and an epoch of two values each.          *)
EXTENDS OpenPlc, TLC

\* every object is some thread's
MCObjectOf == CHOOSE f \in [Threads -> Objects] : {f[t] : t \in Threads} = Objects
Symmetry == Permutations(Threads)
=============================================================================
