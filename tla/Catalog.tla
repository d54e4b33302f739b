------------------------------- MODULE Catalog -------------------------------
(***************************************************************************)
(* What the registry promises its callers, with no storage in it: for every *)
(* name a history of published versions that only grows, the set of retired *)
(* ones, and at most one version being served, which passed its tests.      *)
(* Registry.tla is shown to implement this, and so are Service.tla and      *)
(* Progressive.tla, whose steps are whole calls of the registry.            *)
(***************************************************************************)
EXTENDS Naturals, Sequences

CONSTANTS Names, Programs

VARIABLES history,   \* [Names -> Seq([program : Programs, tested : BOOLEAN])]
          retired,   \* [Names -> SUBSET Nat]
          serving    \* [Names -> Nat], 0 when nothing is served

vars == <<history, retired, serving>>

Init ==
  /\ history = [n \in Names |-> << >>]
  /\ retired = [n \in Names |-> {}]
  /\ serving = [n \in Names |-> 0]

(* A program is published again only when all its versions are retired. *)
Publish(n) == \E p \in Programs, tested \in BOOLEAN :
  /\ \A v \in DOMAIN history[n] : history[n][v].program = p => v \in retired[n]
  /\ history' = [history EXCEPT ![n] = Append(@, [program |-> p, tested |-> tested])]
  /\ UNCHANGED <<retired, serving>>

(* Serving a version retires the one it supersedes, and revives it if retired. *)
Serve(n) == \E v \in DOMAIN history[n] :
  /\ history[n][v].tested
  /\ serving[n] # v
  /\ serving' = [serving EXCEPT ![n] = v]
  /\ retired' = [retired EXCEPT ![n] = (@ \cup ({serving[n]} \ {0})) \ {v}]
  /\ UNCHANGED history

Withdraw(n) == \E v \in DOMAIN history[n] \ retired[n] :
  /\ retired' = [retired EXCEPT ![n] = @ \cup {v}]
  /\ serving' = [serving EXCEPT ![n] = IF @ = v THEN 0 ELSE @]
  /\ UNCHANGED history

Next == \E n \in Names : Publish(n) \/ Serve(n) \/ Withdraw(n)

Spec == Init /\ [][Next]_vars
=============================================================================
