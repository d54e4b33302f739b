------------------------------- MODULE Service -------------------------------
(***************************************************************************)
(* crystalflow/service.py: the calls of CrystalService on one crystal, by  *)
(* the sessions of one worker.  A registry operation is one step           *)
(* (Registry.tla looks inside them), and a call makes several of them with *)
(* nothing held in between.  Any of them may fail, before or after it had  *)
(* its effect, and the worker may stop at any time.                        *)
(*                                                                         *)
(* A program is its input/output function and its own hash; Fails is an    *)
(* input it rejects.  The service registers tested programs only.          *)
(***************************************************************************)
EXTENDS CrystalAlias, FiniteSetsExt

CONSTANTS
  Sessions, Inputs, Outputs,
  Fails, Absent,
  Programs,       \* what is crystallized: \subseteq [Inputs -> Outputs \cup {Fails}]
  Suites,         \* the tests it comes with: functions from some inputs to outputs
  MaxVersions,    \* MAX_VERSIONS_PER_CRYSTAL
  MaxRevision,    \* exploration bound on changes of the alias
  MaxRuns         \* exploration bound on runs

ASSUME ServiceAssumption ==
  /\ Programs \subseteq [Inputs -> Outputs \cup {Fails}]
  /\ \A t \in Suites : DOMAIN t \subseteq Inputs /\ DOMAIN t # {} /\ \A i \in DOMAIN t : t[i] \in Outputs
  /\ Fails \notin Outputs /\ Absent \notin Programs \cup Suites \cup Inputs
  /\ Absent \notin {"hit", "miss", "disabled", "retired", "active", "draft"}
  /\ MaxVersions \in Nat /\ MaxRevision \in Nat /\ MaxRuns \in Nat

VARIABLES
  alias,      \* the alias of the crystal
  tests,      \* the tests in the record of each version
  counters,   \* run_count of each version
  call,       \* the call a session is in, or Idle
  seen,       \* history: the states of versions a session's call has coincided with
  ran, told   \* history: runs of each version, and those answered as recorded

vars == <<alias, tests, counters, call, seen, ran, told>>
books == <<counters, ran, told>>

Versions == 1..MaxVersions

(* A call: its operation, the next step or "answered", what was asked for  *)
(* (a version, or 0 for the active one), and what the answer says.         *)
Call(operation, stage, asked, program, suite, input) ==
  [operation |-> operation, stage |-> stage, asked |-> asked, program |-> program,
   suite |-> suite, input |-> input, version |-> asked, answer |-> Absent]

Idle == Call("none", "idle", 0, Absent, Absent, Absent)

(* What can be observed of the versions of an alias. *)
States(a) ==
  {<<v, a.versions[v].state>> : v \in DOMAIN a.versions} \cup {<<a.active, "served">>}

Init ==
  /\ alias = EmptyAlias
  /\ tests = << >>
  /\ counters = [v \in Versions |-> 0]
  /\ call = [s \in Sessions |-> Idle]
  /\ seen = [s \in Sessions |-> {}]
  /\ ran = [v \in Versions |-> 0]
  /\ told = [v \in Versions |-> 0]

-----------------------------------------------------------------------------
(* Session s goes on with call c, and the alias becomes a.  A call that     *)
(* raises is over: what it raises claims nothing.                           *)
Step(s, c, a) ==
  /\ a # alias => alias.revision < MaxRevision
  /\ alias' = a
  /\ call' = [call EXCEPT ![s] = c]
  /\ seen' = [t \in Sessions |-> IF call'[t] = Idle THEN {}
                                ELSE IF call[t].stage = "answered" THEN seen[t]
                                ELSE seen[t] \cup States(a)]

Begin(s, c) ==
  /\ call[s] = Idle
  /\ Step(s, c, alias)
  /\ UNCHANGED <<tests, books>>

Move(s, c) == Step(s, c, alias)

Answered(c, answer) == [c EXCEPT !.stage = "answered", !.answer = answer]

-----------------------------------------------------------------------------
(* A variant of Passes that is content with one test. *)
PassesOne(p, suite) == \E i \in DOMAIN suite : p[i] = suite[i]

(* crystallize.  A program that fails one of its tests is turned away. *)
Passes(p, suite) == \A i \in DOMAIN suite : p[i] = suite[i]

(* The policies draft and activate_after_tests. *)
Crystallize(s) == \E p \in Programs, suite \in Suites, policy \in {"draft", "publish"} :
  /\ Passes(p, suite)
  /\ Begin(s, Call(policy, "register", 0, p, suite, Absent))

(* After register: the answer tells the state the version had there.  *)
Registered(c, v, state) ==
  IF c.operation = "publish" THEN [c EXCEPT !.stage = "activate", !.version = v]
  ELSE Answered([c EXCEPT !.version = v], state)

RegisterReuse(s) == \E v \in DOMAIN alias.versions :
  /\ call[s].stage = "register"
  /\ IsFirstReusable(alias, call[s].program, v)
  /\ Move(s, Registered(call[s], v, alias.versions[v].state))
  /\ UNCHANGED <<tests, books>>

Extended(c) == WithVersion(alias, NextContent(alias, "crystal", c.program, TRUE))

RegisterNext(s) ==
  /\ call[s].stage = "register"
  /\ Latest(alias) < MaxVersions
  /\ Step(s, Registered(call[s], Latest(alias) + 1, "draft"), Extended(call[s]))
  /\ tests' = Append(tests, call[s].suite)
  /\ UNCHANGED books

RegisterNew(s) ==
  /\ Reusable(alias, call[s].program) = {}
  /\ RegisterNext(s)

RegisterFull(s) ==
  /\ call[s].stage = "register"
  /\ Reusable(alias, call[s].program) = {}
  /\ Latest(alias) = MaxVersions
  /\ Move(s, Idle)
  /\ UNCHANGED <<tests, books>>

-----------------------------------------------------------------------------
(* activate compares the hash the administrator gave with that of the      *)
(* version.  What it activates is the version, whose hash never changes.   *)
Activate(s) == \E v \in Versions, p \in Programs :
  Begin(s, Call("activate", "confirm", v, p, Absent, Absent))

Confirm(s) ==
  /\ call[s].stage = "confirm"
  /\ IF /\ call[s].asked \in DOMAIN alias.versions
        /\ alias.versions[call[s].asked].content.program = call[s].program
     THEN Move(s, [call[s] EXCEPT !.stage = "activate"])
     ELSE Move(s, Idle)
  /\ UNCHANGED <<tests, books>>

(* Registry.activate leaves a version that is active as it is. *)
Promoted(v) == IF alias.active = v THEN alias ELSE Activated(alias, v)

Promote(s) ==
  /\ call[s].stage = "activate"
  /\ Step(s, Answered(call[s], "active"), Promoted(call[s].version))
  /\ UNCHANGED <<tests, books>>

-----------------------------------------------------------------------------
(* retire, of the active version if no other is named. *)
Retire(s) == \E v \in 0..MaxVersions :
  Begin(s, Call("retire", IF v = 0 THEN "select" ELSE "withdraw", v, Absent, Absent, Absent))

Select(s) ==
  /\ call[s].stage = "select"
  /\ IF alias.active = 0 THEN Move(s, Idle)
     ELSE Move(s, [call[s] EXCEPT !.stage = "withdraw", !.version = alias.active])
  /\ UNCHANGED <<tests, books>>

(* Registry.retire leaves a version that is retired as it is. *)
Demoted(v) == IF Retired(alias, v) THEN alias ELSE Withdrawn(alias, v)

Withdraw(s) ==
  /\ call[s].stage = "withdraw"
  /\ IF call[s].version \in DOMAIN alias.versions
     THEN Step(s, Answered(call[s], "retired"), Demoted(call[s].version))
     ELSE Move(s, Idle)
  /\ UNCHANGED <<tests, books>>
-----------------------------------------------------------------------------
(* execute: the active version if no other is asked for. *)
Execute(s) == \E v \in 0..MaxVersions, i \in Inputs :
  Begin(s, Call("execute", "get", v, Absent, Absent, i))

Selected(c) == IF c.asked = 0 THEN alias.active ELSE c.asked

(* get finds no such version; latest is asked next. *)
GetNothing(s) ==
  /\ call[s].stage = "get"
  /\ Selected(call[s]) \notin DOMAIN alias.versions
  /\ Move(s, [call[s] EXCEPT !.stage = "latest"])
  /\ UNCHANGED <<tests, books>>

Miss(s) ==
  /\ call[s].stage = "latest"
  /\ LET latest == Latest(alias)
     IN  Move(s, Answered([call[s] EXCEPT !.version = latest],
                          IF latest # 0 /\ Retired(alias, latest) THEN "disabled" ELSE "miss"))
  /\ UNCHANGED <<tests, books>>

Disable(s) ==
  /\ call[s].stage = "get"
  /\ Selected(call[s]) \in DOMAIN alias.versions /\ Retired(alias, Selected(call[s]))
  /\ Move(s, Answered([call[s] EXCEPT !.version = Selected(call[s])], "disabled"))
  /\ UNCHANGED <<tests, books>>

(* The program that was read is run, whatever becomes of its version.  The *)
(* run itself (Engine.tla) depends on nothing else and is part of the step. *)
RunSelected(s) ==
  /\ call[s].stage = "get"
  /\ Selected(call[s]) \in DOMAIN alias.versions
  /\ MapThenSumSet(LAMBDA v : ran[v], Versions) < MaxRuns
  /\ LET v == Selected(call[s])
         p == alias.versions[v].content.program
     IN  IF p[call[s].input] = Fails
         THEN Move(s, Idle) /\ UNCHANGED ran
         ELSE /\ Move(s, [call[s] EXCEPT !.stage = "record", !.version = v, !.program = p])
              /\ ran' = [ran EXCEPT ![v] = @ + 1]
  /\ UNCHANGED <<tests, counters, told>>

(* A version that is retired is not run. *)
Run(s) ==
  /\ RunSelected(s)
  /\ ~Retired(alias, Selected(call[s]))

Counted(c) == [counters EXCEPT ![c.version] = @ + 1]

Record(s) ==
  /\ call[s].stage = "record"
  /\ counters' = Counted(call[s])
  /\ told' = [told EXCEPT ![call[s].version] = @ + 1]
  /\ Move(s, Answered(call[s], "hit"))
  /\ UNCHANGED <<tests, ran>>

(* A variant of RecordFails whose answer says that the run was recorded. *)
RecordFailsUnnoticed(s) ==
  /\ call[s].stage = "record"
  /\ counters' \in {counters, Counted(call[s])}
  /\ told' = [told EXCEPT ![call[s].version] = @ + 1]
  /\ Move(s, Answered(call[s], "hit"))
  /\ UNCHANGED <<tests, ran>>

(* The result is returned even if its run could not be recorded. *)
RecordFails(s) ==
  /\ call[s].stage = "record"
  /\ counters' \in {counters, Counted(call[s])}
  /\ Move(s, Answered(call[s], "hit"))
  /\ UNCHANGED <<tests, ran, told>>

-----------------------------------------------------------------------------
(* A registry call raises with nothing done, *)
StorageFails(s) ==
  /\ call[s].stage \in {"register", "confirm", "activate", "select", "withdraw", "get", "latest"}
  /\ Move(s, Idle)
  /\ UNCHANGED <<tests, books>>

(* or raises although the alias was written. *)
WriteFailsLate(s) ==
  /\ \/ /\ call[s].stage = "register"
        /\ Reusable(alias, call[s].program) = {} /\ Latest(alias) < MaxVersions
        /\ Step(s, Idle, Extended(call[s]))
        /\ tests' = Append(tests, call[s].suite)
     \/ /\ call[s].stage = "activate"
        /\ Step(s, Idle, Promoted(call[s].version))
        /\ UNCHANGED tests
     \/ /\ call[s].stage = "withdraw" /\ call[s].version \in DOMAIN alias.versions
        /\ Step(s, Idle, Demoted(call[s].version))
        /\ UNCHANGED tests
  /\ UNCHANGED books

Return(s) ==
  /\ call[s].stage = "answered"
  /\ Move(s, Idle)
  /\ UNCHANGED <<tests, books>>

(* The worker stops and is started again. *)
Crash ==
  /\ call' = [s \in Sessions |-> Idle]
  /\ seen' = [s \in Sessions |-> {}]
  /\ UNCHANGED <<alias, tests, books>>

Next ==
  \/ \E s \in Sessions :
       \/ Crystallize(s) \/ RegisterReuse(s) \/ RegisterNew(s) \/ RegisterFull(s)
       \/ Activate(s) \/ Confirm(s) \/ Promote(s)
       \/ Retire(s) \/ Select(s) \/ Withdraw(s)
       \/ Execute(s) \/ GetNothing(s) \/ Miss(s) \/ Disable(s) \/ Run(s) \/ Record(s) \/ RecordFails(s)
       \/ StorageFails(s) \/ WriteFailsLate(s) \/ Return(s)
  \/ Crash

Spec == Init /\ [][Next]_vars

-----------------------------------------------------------------------------
(* The alias is one _validate_alias accepts, every version has the tests    *)
(* of its record, and a call is at a step of its operation.                 *)
TypeOK ==
  /\ WellFormed(alias)
  /\ Len(tests) = Latest(alias) /\ Latest(alias) <= MaxVersions
  /\ \A v \in Versions : v > Latest(alias) => counters[v] = 0
  /\ \A s \in Sessions :
       LET c == call[s]
       IN  c.operation \in CASE c.stage = "idle" -> {"none"}
                             [] c.stage = "register" -> {"draft", "publish"}
                             [] c.stage = "confirm" -> {"activate"}
                             [] c.stage = "activate" -> {"publish", "activate"}
                             [] c.stage \in {"select", "withdraw"} -> {"retire"}
                             [] c.stage \in {"get", "latest", "record"} -> {"execute"}
                             [] OTHER -> {"draft", "publish", "activate", "retire", "execute"}

(* What an answer claims of the versions was so at some moment of the call: *)
(* the version of a hit was the active one, or one in use that was asked    *)
(* for; a miss for the active version found none; retire took the version   *)
(* it names, the active one if none was named, out of service; and the      *)
(* version of an activation has the program that was tested or reviewed.    *)
AnswersWereTrue ==
  \A s \in Sessions :
    LET c == call[s]
        Was(state) == <<c.version, state>> \in seen[s]
        Has(p) == c.version \in DOMAIN alias.versions /\ alias.versions[c.version].content.program = p
    IN  CASE c.answer = "hit" ->
               /\ IF c.asked = 0 THEN Was("active") ELSE c.version = c.asked /\ (Was("draft") \/ Was("active"))
               /\ Has(c.program)
          [] c.answer = "disabled" -> Was("retired") /\ (c.asked = 0 => <<0, "served">> \in seen[s])
          [] c.answer = "miss" -> c.asked = 0 => <<0, "served">> \in seen[s]
          [] c.answer = "retired" -> Was("retired") /\ (c.asked = 0 => Was("active"))
          [] c.answer \in {"active", "draft"} -> Was(c.answer) /\ Has(c.program)
          [] OTHER -> TRUE

(* Calls that were answered as recorded are counted, and nothing is counted *)
(* that did not run: failed writes and crashes lose at most what no answer  *)
(* claimed.                                                                 *)
CountersMatchAnswers == \A v \in Versions : told[v] <= counters[v] /\ counters[v] <= ran[v]

(* Whatever is stored passes the tests stored with it, and the answer of a  *)
(* crystallization names a version that passes the tests it was given, also *)
(* when the version is one that other tests had brought in.                 *)
VersionsPassTheirTests ==
  /\ \A v \in DOMAIN alias.versions : \A i \in DOMAIN tests[v] :
       alias.versions[v].content.program[i] = tests[v][i]
  /\ \A s \in Sessions :
       call[s].operation \in {"draft", "publish"} /\ call[s].answer \in {"draft", "active"} =>
         \A i \in DOMAIN call[s].suite :
           alias.versions[call[s].version].content.program[i] = call[s].suite[i]

(* A crystallization repeated after a failure, or by two sessions at once,  *)
(* leaves one draft of a program and not several.                           *)
DraftsAreDistinct ==
  \A v, w \in DOMAIN alias.versions :
    alias.versions[v].state = "draft" /\ alias.versions[w].state = "draft"
      /\ alias.versions[v].content.program = alias.versions[w].content.program => v = w

(* What Catalog.tla sees of the versions: one is tested if it passes the    *)
(* tests that are kept with it.                                             *)
History ==
  [v \in DOMAIN alias.versions |->
     [program |-> alias.versions[v].content.program,
      tested |-> \A i \in DOMAIN tests[v] : alias.versions[v].content.program[i] = tests[v][i]]]

Promise == INSTANCE Catalog WITH
  Names <- {"crystal"},
  history <- [n \in {"crystal"} |-> History],
  retired <- [n \in {"crystal"} |-> {v \in DOMAIN alias.versions : Retired(alias, v)}],
  serving <- [n \in {"crystal"} |-> alias.active]

(* A service call is several registry calls, and each of them is still one  *)
(* step of the catalog or none, from whatever the sessions read before: a   *)
(* program is not published beside a version of it that is in use, nor one  *)
(* served that fails its tests.                                             *)
ImplementsCatalog == Promise!Spec
=============================================================================
