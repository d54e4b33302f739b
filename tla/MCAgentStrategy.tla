--------------------------- MODULE MCAgentStrategy ---------------------------
(* Instances of AgentStrategy for TLC. *)
EXTENDS AgentStrategy, TLC

CONSTANTS r1, r2, w1, w2, t1, t2, x1, x2

MCTools == {t1, t2}
MCOneTool == {t1}

(* Both requests in one worker, or each in its own. *)
MCOneWorker == [r \in Requests |-> w1]
MCTwoWorkers == [r \in Requests |-> IF r = r1 THEN w1 ELSE w2]

MCAccepts == [v \in Versions |-> Arguments]

(* The second version of a contract takes another argument. *)
MCRenamed == [v \in Versions |-> IF v = 1 THEN {x1} ELSE {x2}]

(* All tools on the allowlist, every allowlist, or a switch to the second   *)
(* contract of one tool that takes the other off the list.                  *)
MCOneOffer == [Tools -> Versions]
MCAllOffers == [Tools -> Versions \cup {Absent}]
MCSwitchedOffers == {[t \in Tools |-> 1], [t \in Tools |-> IF t = t1 THEN 2 ELSE Absent]}

MCSymmetry == Permutations(Requests)
=============================================================================
