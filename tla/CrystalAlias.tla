---------------------------- MODULE CrystalAlias ----------------------------
(***************************************************************************)
(* The value crystalflow/registry.py keeps under one alias key, and what    *)
(* register, activate and retire compute from it.                           *)
(*                                                                          *)
(* An alias is [revision, active, versions].  versions is a sequence:       *)
(* register only ever appends version latest_version + 1, so a version      *)
(* number is an index and latest_version is the length.  active is 0 for    *)
(* the code's None.  An entry is [content, state]; content stands for the   *)
(* immutable version record and for its content hash at once (a hash is     *)
(* taken to be injective), so the entry's copies of revision and program    *)
(* hash are content.revision and content.program.                           *)
(***************************************************************************)
EXTENDS Naturals, Sequences

(* The lifecycle states of a version. *)
Lifecycle == {"draft", "active", "retired"}

(* An alias that does not exist, and the one register starts a name from. *)
EmptyAlias == [revision |-> 0, active |-> 0, versions |-> << >>]

Exists(a) == a.versions # << >>

Latest(a) == Len(a.versions)

Retired(a, v) == a.versions[v].state = "retired"

(* The versions register reuses instead of appending one. *)
Reusable(a, p) ==
  {v \in DOMAIN a.versions : a.versions[v].content.program = p /\ ~Retired(a, v)}

(* The loop of register returns the first of them. *)
IsFirstReusable(a, p, v) ==
  v \in Reusable(a, p) /\ \A w \in Reusable(a, p) : v <= w

(* The record register builds for the next version of the alias. *)
NextContent(a, n, p, tested) ==
  [name |-> n, version |-> Latest(a) + 1, revision |-> a.revision + 1,
   program |-> p, tested |-> tested]

WithVersion(a, content) ==
  [revision |-> content.revision, active |-> a.active,
   versions |-> Append(a.versions, [content |-> content, state |-> "draft"])]

Activated(a, v) ==
  [revision |-> a.revision + 1, active |-> v,
   versions |-> [i \in DOMAIN a.versions |->
     [a.versions[i] EXCEPT !.state = IF i = v THEN "active"
                                     ELSE IF @ = "active" THEN "retired" ELSE @]]]

(* retire without the reset of a pointer to the version it retires. *)
WithdrawnKeepingPointer(a, v) ==
  [a EXCEPT !.revision = @ + 1, !.versions[v].state = "retired"]

Withdrawn(a, v) ==
  [revision |-> a.revision + 1, active |-> IF a.active = v THEN 0 ELSE a.active,
   versions |-> [a.versions EXCEPT ![v].state = "retired"]]

(* What _validate_alias demands of a stored alias, beyond its types. *)
WellFormed(a) ==
  /\ a.active \in {0} \cup DOMAIN a.versions
  /\ \A v \in DOMAIN a.versions :
       /\ a.versions[v].content.version = v
       /\ a.versions[v].content.revision \in 1..a.revision
       /\ a.versions[v].state = "active" <=> a.active = v
=============================================================================
