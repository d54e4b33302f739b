----------------------------- MODULE MCRegistry -----------------------------
(***************************************************************************)
(* Instances of Registry.tla for TLC: a1 and a2 are threads of one worker,  *)
(* b1 of another.                                                           *)
(***************************************************************************)
EXTENDS Registry, TLC

CONSTANTS a1, a2, b1, wa, wb

MCWorkerOf == [t \in Threads |-> IF t = b1 THEN wb ELSE wa]

(* Threads of one worker, and programs, are interchangeable. *)
Symmetry == Permutations(Programs) \cup Permutations(Threads \ {b1})
=============================================================================
