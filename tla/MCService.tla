------------------------------ MODULE MCService ------------------------------
(* An instance of Service for TLC. *)
EXTENDS Service, TLC

CONSTANTS i1, i2, o1, o2, s1, s2

(* Two programs that differ in i2, of which one rejects it. *)
MCPrograms == {[i \in Inputs |-> o1], [i \in Inputs |-> IF i = i1 THEN o1 ELSE Fails]}

MCSuites == {i1 :> o1, (i1 :> o1) @@ (i2 :> o1)}

MCSymmetry == Permutations(Sessions)
=============================================================================
