---------------------------- MODULE MCProgressive ----------------------------
(* Instances of Progressive for TLC. *)
EXTENDS Progressive, TLC

CONSTANTS i1, i2, o1, o2, t1, t2

(* Two programs that differ in i2, and one that rejects i2. *)
MCPrograms ==
  {[i \in Inputs |-> o1],
   [i \in Inputs |-> IF i = i1 THEN o1 ELSE o2],
   [i \in Inputs |-> IF i = i1 THEN o1 ELSE Fails]}

MCOversized == {<<i2, o2>>}

MCSymmetry == Permutations(Threads)
=============================================================================
