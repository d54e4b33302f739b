----------------------------- MODULE Progressive -----------------------------
(***************************************************************************)
(* crystalflow/progressive.py over crystalflow/service.py: the calls of run *)
(* with learning enabled for one task key, in the threads of one worker,    *)
(* beside an administrator who registers, activates and retires versions of *)
(* the crystal of that name with the service's own operations.              *)
(*                                                                          *)
(* A registry operation is one step here (Registry.tla looks inside them).  *)
(* _PROCESS_LOCK of progressive.py is not the lock of the registry: it      *)
(* orders learners among themselves, and the administrator never takes it.  *)
(* A program is its input/output function; Fails is an input it rejects.    *)
(* Calls that do not learn, hit the active crystal, or have their fallback  *)
(* or their first registry call fail change nothing here and are no steps.  *)
(***************************************************************************)
EXTENDS CrystalAlias, FiniteSets

CONSTANTS
  Inputs, Outputs,
  Oversized,      \* the examples above max_example_bytes: \subseteq Inputs \X Outputs
  Programs,       \* what a builder or an administrator may propose
  Fails, Absent,
  Threads,
  TaskKey,
  AutoActivate,   \* the values of auto_activate that calls are configured with
  MinExamples, MaxExamples,  \* min_examples and max_examples
  MaxVersions,    \* MAX_VERSIONS_PER_CRYSTAL
  MaxRevision     \* exploration bound on the administrator's calls

ASSUME ProgressiveAssumption ==
  /\ Programs \subseteq [Inputs -> Outputs \cup {Fails}]
  /\ Oversized \subseteq Inputs \X Outputs
  /\ AutoActivate \subseteq BOOLEAN
  /\ MinExamples \in 1..MaxExamples
  /\ MaxExamples \in Nat /\ MaxVersions \in Nat /\ MaxRevision \in Nat
  /\ Absent \notin Outputs \cup Threads
  /\ Fails \notin Outputs
  /\ IsFiniteSet(Inputs)

VARIABLES
  alias,       \* the alias of the task's crystal
  state,       \* the learning record: examples, quarantined, cursor
  lock,        \* _PROCESS_LOCK of progressive.py: the thread that holds it
  building,    \* whether the task is in _BUILDING
  th,          \* the call of run a thread is in, or Idle
  builds,      \* history: builder calls
  conflicted   \* history: a completed call contradicted a retained example

vars == <<alias, state, lock, building, th, builds, conflicted>>
shared == <<alias, state, lock, building>>

NoExamples == [i \in Inputs |-> Absent]

Retained(s) == {i \in Inputs : s.examples[i] # Absent}

Count(s) == Cardinality(Retained(s))

(* A call of run: where it is, what it observed, and the program or the     *)
(* version it is building.                                                  *)
Call(stage, i, o, p, v) ==
  [stage |-> stage, input |-> i, output |-> o, program |-> p, version |-> v]

Idle == Call("idle", Absent, Absent, Absent, 0)
Done == Call("discard", Absent, Absent, Absent, 0)

Init ==
  /\ alias = EmptyAlias
  /\ state = [examples |-> NoExamples, quarantined |-> FALSE, cursor |-> 0]
  /\ lock = Absent
  /\ building = FALSE
  /\ th = [t \in Threads |-> Idle]
  /\ builds = 0
  /\ conflicted = FALSE

Move(t, call) == th' = [th EXCEPT ![t] = call]

Take(t) == lock = Absent /\ lock' = t

(* A variant of Free that keeps the lock. *)
FreeNothing(t) == lock = t /\ UNCHANGED lock

Free(t) == lock = t /\ lock' = Absent

(* The examples of record s are tests the program passes. *)
Passes(p, s) == \A i \in Retained(s) : p[i] = s.examples[i]

(* execute: the active version accepts the input. *)
Hit(i) ==
  alias.active # 0 /\ alias.versions[alias.active].content.program[i] # Fails

(* _candidate_exists: some version is not retired.  The registry is read     *)
(* version by version there and at once here: an administrator who changes  *)
(* it meanwhile makes the answer that of an earlier or later moment.        *)
CandidateExists == \E v \in DOMAIN alias.versions : ~Retired(alias, v)

Contradicts(t) == state.examples[th[t].input] \notin {Absent, th[t].output}

-----------------------------------------------------------------------------
(* run: the crystal missed and the fallback gave an output to learn from.   *)
Observe(t) == \E i \in Inputs, o \in Outputs :
  /\ th[t] = Idle
  /\ ~Hit(i)
  /\ Move(t, Call("learn", i, o, Absent, 0))
  /\ UNCHANGED <<shared, builds, conflicted>>

(* _learn begins under the lock, and ends there if a candidate exists. *)
LearnNothing(t) ==
  /\ th[t].stage = "learn"
  /\ lock = Absent
  /\ CandidateExists
  /\ Move(t, Idle)
  /\ conflicted' = (conflicted \/ Contradicts(t))
  /\ UNCHANGED <<shared, builds>>

Learn(t) ==
  /\ th[t].stage = "learn"
  /\ ~CandidateExists
  /\ Take(t)
  /\ Move(t, [th[t] EXCEPT !.stage = "record"])
  /\ UNCHANGED <<alias, state, building, builds, conflicted>>

Oversize(t) == <<th[t].input, th[t].output>> \in Oversized

(* A variant of New that takes a changed output for a new example. *)
NewPair(t) == state.examples[th[t].input] # th[t].output

New(t) == state.examples[th[t].input] = Absent

(* The outcomes of _learn that leave the record as it is. *)
Ignore(t) ==
  /\ th[t].stage = "record"
  /\ \/ state.quarantined
     \/ Oversize(t)
     \/ state.examples[th[t].input] = th[t].output
     \/ New(t) /\ Count(state) >= MaxExamples
  /\ Free(t)
  /\ Move(t, Idle)
  /\ UNCHANGED <<alias, state, building, builds, conflicted>>

(* The records _learn may write. *)
Quarantined == [state EXCEPT !.quarantined = TRUE]

WithExample(t) == [state EXCEPT !.examples[th[t].input] = th[t].output]

(* Variants of Reserved: a cursor one too far, and an example not retained. *)
ReservedAhead(t) == [WithExample(t) EXCEPT !.cursor = Count(WithExample(t)) + 1]
ReservedWithoutExample(t) == [state EXCEPT !.cursor = Count(state)]

Reserved(t) == [WithExample(t) EXCEPT !.cursor = Count(WithExample(t))]

CanQuarantine(t) ==
  th[t].stage = "record" /\ ~state.quarantined /\ ~Oversize(t) /\ Contradicts(t)

CanRetain(t) ==
  th[t].stage = "record" /\ ~state.quarantined /\ ~Oversize(t) /\ New(t)
    /\ Count(state) < MaxExamples

(* The example completes a suite nobody is building a program for. *)
Ripe(t) == Count(WithExample(t)) >= MinExamples /\ ~building

PutQuarantine(t) == CanQuarantine(t) /\ state' = Quarantined
PutExample(t) == CanRetain(t) /\ ~Ripe(t) /\ state' = WithExample(t)
PutReservation(t) == CanRetain(t) /\ Ripe(t) /\ state' = Reserved(t)

Quarantine(t) ==
  /\ PutQuarantine(t)
  /\ Free(t)
  /\ Move(t, Idle)
  /\ conflicted' = TRUE
  /\ UNCHANGED <<alias, building, builds>>

Retain(t) ==
  /\ PutExample(t)
  /\ Free(t)
  /\ Move(t, Idle)
  /\ UNCHANGED <<alias, building, builds, conflicted>>

(* A variant of Reserve that forgets to reserve the build. *)
ReserveUnmarked(t) ==
  /\ PutReservation(t)
  /\ Free(t)
  /\ Move(t, Call("build", Absent, Absent, Absent, 0))
  /\ UNCHANGED <<alias, building, builds, conflicted>>

(* The cursor and the examples are written before the builder is called.    *)
(* A record whose cursor has reached the new count cannot be, so the branch *)
(* build_deferred is not reached (BuilderCallsBounded).                     *)
Reserve(t) ==
  /\ PutReservation(t)
  /\ building' = TRUE
  /\ Free(t)
  /\ Move(t, Call("build", Absent, Absent, Absent, 0))
  /\ UNCHANGED <<alias, builds, conflicted>>

-----------------------------------------------------------------------------
(* _build_candidate: the builder runs without the lock.  A call counts when *)
(* it is over; for one that a crash cuts off the cursor has paid as well.   *)
Build(t) == \E p \in Programs :
  /\ th[t].stage = "build"
  /\ builds' = builds + 1
  /\ Move(t, Call("check", Absent, Absent, p, 0))
  /\ UNCHANGED <<shared, conflicted>>

(* It raises, or gives something that is no program. *)
BuildFails(t) ==
  /\ th[t].stage = "build"
  /\ builds' = builds + 1
  /\ Move(t, Done)
  /\ UNCHANGED <<shared, conflicted>>

Acceptable(p) == ~CandidateExists /\ ~state.quarantined /\ Passes(p, state)

(* Back under the lock: no candidate may have appeared and no conflict, and *)
(* the program is tested against the examples retained by now.              *)
Reject(t) ==
  /\ th[t].stage = "check"
  /\ lock = Absent
  /\ ~Acceptable(th[t].program)
  /\ Move(t, Done)
  /\ UNCHANGED <<shared, builds, conflicted>>

(* A variant of Accept that gives the lock back before it registers. *)
AcceptUnlocked(t) ==
  /\ th[t].stage = "check"
  /\ lock = Absent
  /\ Acceptable(th[t].program)
  /\ Move(t, [th[t] EXCEPT !.stage = "register"])
  /\ UNCHANGED <<shared, builds, conflicted>>

Accept(t) ==
  /\ th[t].stage = "check"
  /\ Acceptable(th[t].program)
  /\ Take(t)
  /\ Move(t, [th[t] EXCEPT !.stage = "register"])
  /\ UNCHANGED <<alias, state, building, builds, conflicted>>

(* service.crystallize: register, then activate, each under the registry's  *)
(* lock but not both.                                                       *)
Registered(t, v) ==
  \/ /\ TRUE \in AutoActivate
     /\ Move(t, Call("activate", Absent, Absent, Absent, v))
     /\ UNCHANGED lock
  \/ /\ FALSE \in AutoActivate
     /\ Move(t, Done)
     /\ lock' = Absent

RegisterReuse(t) == \E v \in DOMAIN alias.versions :
  /\ th[t].stage = "register"
  /\ IsFirstReusable(alias, th[t].program, v)
  /\ Registered(t, v)
  /\ UNCHANGED <<alias, state, building, builds, conflicted>>

(* A variant of CanRegister that does not look for the program. *)
CanAppend(p) == Latest(alias) < MaxVersions

CanRegister(p) == Reusable(alias, p) = {} /\ Latest(alias) < MaxVersions

Extended(p) == WithVersion(alias, NextContent(alias, TaskKey, p, TRUE))

RegisterNew(t) ==
  /\ th[t].stage = "register"
  /\ CanRegister(th[t].program)
  /\ alias' = Extended(th[t].program)
  /\ Registered(t, Latest(alias) + 1)
  /\ UNCHANGED <<state, building, builds, conflicted>>

(* activate does not ask whether the version was retired meanwhile. *)
Promoted(v) == IF alias.active = v THEN alias ELSE Activated(alias, v)

Activate(t) ==
  /\ th[t].stage = "activate"
  /\ alias' = Promoted(th[t].version)
  /\ Move(t, Done)
  /\ lock' = Absent
  /\ UNCHANGED <<state, building, builds, conflicted>>

(* The finally clause of _learn. *)
Discard(t) ==
  /\ th[t].stage = "discard"
  /\ lock = Absent
  /\ building' = FALSE
  /\ Move(t, Idle)
  /\ UNCHANGED <<alias, state, lock, builds, conflicted>>

-----------------------------------------------------------------------------
(* Failures. *)

(* A failed look at the registry or the record ends learning or the build.  *)
ReadFails(t) ==
  /\ th[t].stage \in {"learn", "check"}
  /\ lock = Absent
  /\ Move(t, IF th[t].stage = "learn" THEN Idle ELSE Done)
  /\ UNCHANGED <<shared, builds, conflicted>>

(* The record cannot be loaded, or cannot be written and yet may have been; *)
(* a reservation that raised starts no build.                               *)
RecordFails(t) ==
  /\ th[t].stage = "record"
  /\ \/ PutQuarantine(t) \/ PutExample(t) \/ PutReservation(t)
     \/ UNCHANGED state
  /\ Free(t)
  /\ Move(t, Idle)
  /\ UNCHANGED <<alias, building, builds, conflicted>>

(* register or activate raises, at the version limit too, and may have been *)
(* applied.                                                                 *)
CrystallizeFails(t) ==
  /\ th[t].stage \in {"register", "activate"}
  /\ \/ UNCHANGED alias
     \/ /\ th[t].stage = "register"
        /\ CanRegister(th[t].program)
        /\ alias' = Extended(th[t].program)
     \/ th[t].stage = "activate" /\ alias' = Promoted(th[t].version)
  /\ Move(t, Done)
  /\ lock' = Absent
  /\ UNCHANGED <<state, building, builds, conflicted>>

(* The worker crashes: its locks and _BUILDING are gone with it. *)
Crash ==
  /\ th' = [t \in Threads |-> Idle]
  /\ lock' = Absent
  /\ building' = FALSE
  /\ UNCHANGED <<alias, state, builds, conflicted>>

-----------------------------------------------------------------------------
(* The administrator, at any time. *)
Administer(a) ==
  /\ alias.revision < MaxRevision
  /\ alias' = a
  /\ UNCHANGED <<state, lock, building, th, builds, conflicted>>

CrystallizeByHand == \E p \in Programs :
  CanRegister(p) /\ Administer(Extended(p))

ActivateByHand == \E v \in DOMAIN alias.versions :
  alias.active # v /\ Administer(Activated(alias, v))

RetireByHand == \E v \in DOMAIN alias.versions :
  ~Retired(alias, v) /\ Administer(Withdrawn(alias, v))

-----------------------------------------------------------------------------
Progress(t) ==
  \/ LearnNothing(t) \/ Learn(t) \/ Ignore(t) \/ Quarantine(t) \/ Retain(t) \/ Reserve(t)
  \/ Build(t) \/ BuildFails(t) \/ Reject(t) \/ Accept(t)
  \/ RegisterReuse(t) \/ RegisterNew(t) \/ Activate(t) \/ CrystallizeFails(t) \/ Discard(t)

Next ==
  \/ \E t \in Threads : Observe(t) \/ Progress(t) \/ ReadFails(t) \/ RecordFails(t)
  \/ Crash
  \/ CrystallizeByHand \/ ActivateByHand \/ RetireByHand

Spec == Init /\ [][Next]_vars

(* A call goes on: the builder returns, and no thread waits for the lock    *)
(* for ever.                                                                *)
FairSpec == Spec /\ \A t \in Threads : SF_vars(Progress(t))

-----------------------------------------------------------------------------
(* Properties. *)

Stages == {"idle", "learn", "record", "build", "check", "register", "activate", "discard"}

BuildStages == {"build", "check", "register", "activate", "discard"}

Contents == [name : {TaskKey}, version : 1..MaxVersions, revision : Nat,
             program : Programs, tested : BOOLEAN]

Aliases == [revision : Nat, active : 0..MaxVersions,
            versions : Seq([content : Contents, state : Lifecycle])]

(* Every variable holds what the code can store in it, and the learning     *)
(* record passes _validate_state: its build cursor is within its examples.  *)
TypeOK ==
  /\ alias \in Aliases /\ WellFormed(alias)
  /\ state \in [examples : [Inputs -> Outputs \cup {Absent}], quarantined : BOOLEAN,
                cursor : Nat]
  /\ state.cursor <= Count(state)
  /\ lock \in Threads \cup {Absent}
  /\ building \in BOOLEAN
  /\ th \in [Threads -> [stage : Stages, input : Inputs \cup {Absent},
                         output : Outputs \cup {Absent}, program : Programs \cup {Absent},
                         version : 0..MaxVersions]]
  /\ builds \in Nat
  /\ conflicted \in BOOLEAN

(* One thread at most is building, the task is marked for exactly as long,  *)
(* and a failed or rejected build leaves no mark that would end learning.   *)
OneBuildAtATime ==
  /\ Cardinality({t \in Threads : th[t].stage \in BuildStages}) <= 1
  /\ building <=> \E t \in Threads : th[t].stage \in BuildStages

(* The builder is called at most once for each number of examples, over the *)
(* whole life of a task, whatever fails or crashes.                         *)
BuilderCallsBounded == builds <= MaxExamples - MinExamples + 1

(* A version the learner adds reproduces every example retained when it is  *)
(* added, those that arrived while the builder ran included, and is never   *)
(* added to a quarantined task.                                             *)
CandidatesReproduceExamples ==
  [][\A t \in Threads :
       th[t].stage = "register" /\ th'[t].stage # "register"
         /\ Latest(alias') > Latest(alias) =>
           ~state.quarantined /\ Passes(th[t].program, state)]_vars

(* A quarantine is permanent, and so is every retained example: no call     *)
(* loses what another one recorded.                                         *)
EvidenceIsPermanent ==
  [][/\ state.quarantined => state'.quarantined
     /\ \A i \in Retained(state) : state'.examples[i] = state.examples[i]]_vars

(* An output that differs from the one retained for its input quarantines   *)
(* the task.                                                                *)
ConflictsQuarantine == conflicted => state.quarantined

(* The learner's own activation never brings back a retired version. *)
NeverReactivates ==
  [][(\E t \in Threads : th[t].stage = "activate" /\ th'[t].stage = "discard") =>
       \A v \in DOMAIN alias.versions : Retired(alias, v) => Retired(alias', v)]_vars

(* Every call of run returns. *)
CallsReturn == \A t \in Threads : th[t].stage # "idle" ~> th[t].stage = "idle"
(* What Catalog.tla sees of the versions. *)
History ==
  [v \in DOMAIN alias.versions |->
     [program |-> alias.versions[v].content.program,
      tested |-> alias.versions[v].content.tested]]

Promise == INSTANCE Catalog WITH
  Names <- {TaskKey},
  history <- [n \in {TaskKey} |-> History],
  retired <- [n \in {TaskKey} |-> {v \in DOMAIN alias.versions : Retired(alias, v)}],
  serving <- [n \in {TaskKey} |-> alias.active]

(* The learner and the administrator, who share the registry but no lock,   *)
(* move its catalog one step at a time: a program is never published beside *)
(* a version of it that is in use, also when both propose it at once.       *)
ImplementsCatalog == Promise!Spec
=============================================================================
