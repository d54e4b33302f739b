-------------------------- MODULE ProgressiveProofs --------------------------
(***************************************************************************)
(* Theorems about Progressive.tla, for any number of inputs, outputs,       *)
(* programs, threads and versions, and any limits.                          *)
(***************************************************************************)
EXTENDS Progressive, CrystalAliasProofs, FiniteSetTheorems

-----------------------------------------------------------------------------
(* The invariants. *)

AliasOK(a) == a \in AliasesOf(Contents) /\ WellFormed(a) /\ Latest(a) <= MaxVersions

StateOK(s) ==
  /\ s \in [examples : [Inputs -> Outputs \cup {Absent}], quarantined : BOOLEAN,
            cursor : Nat]
  /\ s.cursor <= Count(s)

Calls == [stage : Stages, input : Inputs \cup {Absent}, output : Outputs \cup {Absent},
          program : Programs \cup {Absent}, version : 0..MaxVersions]

(* A call has what its next step needs. *)
CallOK(a, c) ==
  /\ c \in Calls
  /\ c.stage \in {"learn", "record"} => c.input \in Inputs /\ c.output \in Outputs
  /\ c.stage \in {"check", "register"} => c.program \in Programs
  /\ c.stage = "activate" => c.version \in DOMAIN a.versions

TypeInv ==
  /\ AliasOK(alias)
  /\ StateOK(state)
  /\ lock \in Threads \cup {Absent}
  /\ building \in BOOLEAN
  /\ th \in [Threads -> Calls]
  /\ \A t \in Threads : CallOK(alias, th[t])
  /\ builds \in Nat
  /\ conflicted \in BOOLEAN

Builds(c) == c.stage \in BuildStages

(* The task is marked for exactly as long as one thread builds for it. *)
BuildInv ==
  /\ \A t, u \in Threads : Builds(th[t]) /\ Builds(th[u]) => t = u
  /\ building <=> \E t \in Threads : Builds(th[t])

Locked(c) == c.stage \in {"record", "register", "activate"}

(* Who is within a section of the lock holds it, and what is about to be    *)
(* registered reproduces the examples retained by now.                      *)
LockInv ==
  \A t \in Threads :
    /\ Locked(th[t]) => lock = t
    /\ th[t].stage = "register" => ~state.quarantined /\ Passes(th[t].program, state)

Pending == IF \E t \in Threads : th[t].stage = "build" THEN 1 ELSE 0

Allowance == IF state.cursor = 0 THEN 0 ELSE state.cursor - MinExamples + 1

(* The cursor pays for the builder calls that were made and the one that a  *)
(* reservation has announced.                                               *)
CursorInv ==
  /\ state.cursor = 0 \/ state.cursor >= MinExamples
  /\ Count(state) <= MaxExamples
  /\ builds + Pending <= Allowance

IInv == TypeInv /\ BuildInv /\ LockInv /\ CursorInv
-----------------------------------------------------------------------------
(* Values. *)

LEMMA CallType ==
  ASSUME NEW a, NEW stage \in Stages, NEW i \in Inputs \cup {Absent},
         NEW o \in Outputs \cup {Absent}, NEW p \in Programs \cup {Absent},
         NEW v \in 0..MaxVersions,
         stage \in {"learn", "record"} => i \in Inputs /\ o \in Outputs,
         stage \in {"check", "register"} => p \in Programs,
         stage = "activate" => v \in DOMAIN a.versions
  PROVE  /\ CallOK(a, Call(stage, i, o, p, v))
         /\ Call(stage, i, o, p, v).stage = stage
         /\ Call(stage, i, o, p, v).program = p
BY DEF CallOK, Call, Calls

LEMMA RestingType ==
  ASSUME NEW a
  PROVE  /\ CallOK(a, Idle) /\ Idle.stage = "idle"
         /\ CallOK(a, Done) /\ Done.stage = "discard"
<1>1. Absent \in Inputs \cup {Absent} /\ Absent \in Outputs \cup {Absent}
      /\ Absent \in Programs \cup {Absent} /\ 0 \in 0..MaxVersions
  BY ProgressiveAssumption
<1>2. CallOK(a, Idle) /\ Idle.stage = "idle"
  BY <1>1 DEF CallOK, Calls, Call, Idle, Stages
<1>3. CallOK(a, Done) /\ Done.stage = "discard"
  BY <1>1 DEF CallOK, Calls, Call, Done, Stages
<1>4. QED
  BY <1>2, <1>3

(* A learning record counts the examples it retains. *)
LEMMA CountFacts ==
  ASSUME NEW s, StateOK(s)
  PROVE  IsFiniteSet(Retained(s)) /\ Count(s) \in Nat
<1>1. Retained(s) \subseteq Inputs
  BY DEF Retained
<1>2. IsFiniteSet(Retained(s))
  BY <1>1, ProgressiveAssumption, FS_Subset
<1>3. QED
  BY <1>2, FS_CardinalityType DEF Count

(* The write that retains a new example counts one more and loses none. *)
LEMMA WithExampleFacts ==
  ASSUME TypeInv, NEW t \in Threads, CanRetain(t)
  PROVE  /\ StateOK(WithExample(t)) /\ StateOK(Reserved(t))
         /\ Count(WithExample(t)) = Count(state) + 1
         /\ Count(Reserved(t)) = Count(state) + 1
         /\ WithExample(t).cursor = state.cursor
         /\ Reserved(t).cursor = Count(state) + 1
         /\ ~WithExample(t).quarantined /\ ~Reserved(t).quarantined
         /\ \A i \in Retained(state) : /\ WithExample(t).examples[i] = state.examples[i]
                                       /\ Reserved(t).examples[i] = state.examples[i]
<1> DEFINE i == th[t].input
           o == th[t].output
           w == WithExample(t)
           r == Reserved(t)
<1>1. i \in Inputs /\ o \in Outputs /\ o # Absent
  <2>1. CallOK(alias, th[t]) /\ th[t].stage = "record"
    BY DEF TypeInv, CanRetain
  <2>2. QED
    BY <2>1, ProgressiveAssumption DEF CallOK
<1>2. /\ state.examples[i] = Absent /\ ~state.quarantined
      /\ state.examples \in [Inputs -> Outputs \cup {Absent}] /\ StateOK(state)
      /\ state.cursor \in Nat
  BY DEF CanRetain, New, TypeInv, StateOK
<1>3. /\ w = [examples |-> [state.examples EXCEPT ![i] = o],
              quarantined |-> state.quarantined, cursor |-> state.cursor]
  BY <1>2 DEF WithExample, StateOK
<1>4. r = [examples |-> [state.examples EXCEPT ![i] = o],
           quarantined |-> state.quarantined, cursor |-> Count(w)]
  BY <1>3 DEF Reserved
<1>5. Retained(w) = Retained(state) \cup {i} /\ Retained(r) = Retained(w) /\ i \notin Retained(state)
  BY <1>1, <1>2, <1>3, <1>4 DEF Retained
<1>6. Count(w) = Count(state) + 1 /\ Count(r) = Count(w) /\ Count(state) \in Nat
  BY <1>2, <1>5, CountFacts, FS_AddElement DEF Count
<1>7. [state.examples EXCEPT ![i] = o] \in [Inputs -> Outputs \cup {Absent}]
  BY <1>1, <1>2
<1>8. StateOK(w)
  BY <1>2, <1>3, <1>6, <1>7 DEF StateOK
<1>9. StateOK(r)
  BY <1>2, <1>4, <1>6, <1>7 DEF StateOK
<1>10. \A j \in Retained(state) : w.examples[j] = state.examples[j]
                                    /\ r.examples[j] = state.examples[j]
  BY <1>2, <1>3, <1>4, <1>5 DEF Retained
<1>11. QED
  BY <1>2, <1>3, <1>4, <1>6, <1>8, <1>9, <1>10

LEMMA QuarantinedFacts ==
  ASSUME TypeInv
  PROVE  /\ StateOK(Quarantined) /\ Quarantined.quarantined
         /\ Quarantined.cursor = state.cursor /\ Quarantined.examples = state.examples
         /\ Count(Quarantined) = Count(state)
<1>1. /\ StateOK(state)
      /\ state \in [examples : [Inputs -> Outputs \cup {Absent}], quarantined : BOOLEAN,
                    cursor : Nat]
  BY DEF TypeInv, StateOK
<1>2. /\ Quarantined \in [examples : [Inputs -> Outputs \cup {Absent}],
                         quarantined : BOOLEAN, cursor : Nat]
      /\ Quarantined.quarantined
      /\ Quarantined.cursor = state.cursor /\ Quarantined.examples = state.examples
  BY <1>1 DEF Quarantined
<1>3. Retained(Quarantined) = Retained(state)
  BY <1>2 DEF Retained
<1>4. Count(Quarantined) = Count(state)
  BY <1>3 DEF Count
<1>5. QED
  BY <1>1, <1>2, <1>4 DEF StateOK

-----------------------------------------------------------------------------
(* What a step may do to each variable. *)

AliasMoves ==
  \/ UNCHANGED alias
  \/ \E p \in Programs : CanRegister(p) /\ alias' = Extended(p)
  \/ \E v \in DOMAIN alias.versions :
       \/ alias.active # v /\ alias' = Activated(alias, v)
       \/ ~Retired(alias, v) /\ alias' = Withdrawn(alias, v)

LEMMA ExtendedFacts ==
  ASSUME TypeInv, NEW p \in Programs, CanRegister(p)
  PROVE  /\ AliasOK(Extended(p)) /\ Keeps(alias, Extended(p))
         /\ Latest(Extended(p)) = Latest(alias) + 1
<1> DEFINE c == NextContent(alias, TaskKey, p, TRUE)
<1>1. alias \in AliasesOf(Contents) /\ WellFormed(alias) /\ Latest(alias) <= MaxVersions
  BY DEF TypeInv, AliasOK
<1>2. Latest(alias) \in Nat /\ Latest(alias) < MaxVersions /\ alias.revision \in Nat
  BY <1>1, AliasFacts DEF CanRegister
<1>3. c \in Contents /\ c.version = Latest(alias) + 1 /\ c.revision = alias.revision + 1
  BY <1>2, ProgressiveAssumption DEF NextContent, Contents
<1>4. Extended(p) = WithVersion(alias, c)
  BY DEF Extended
<1> HIDE DEF c
<1>5. /\ WithVersion(alias, c) \in AliasesOf(Contents) /\ WellFormed(WithVersion(alias, c))
      /\ Latest(WithVersion(alias, c)) = Latest(alias) + 1
      /\ Keeps(alias, WithVersion(alias, c))
  BY <1>1, <1>3, WithVersionFacts
<1>6. Latest(alias) + 1 <= MaxVersions
  BY <1>2, ProgressiveAssumption
<1>7. QED
  BY <1>4, <1>5, <1>6 DEF AliasOK

LEMMA AliasMoved ==
  ASSUME TypeInv, AliasMoves
  PROVE  AliasOK(alias') /\ Keeps(alias, alias')
<1>1. alias \in AliasesOf(Contents) /\ WellFormed(alias) /\ Latest(alias) <= MaxVersions
  BY DEF TypeInv, AliasOK
<1>2. CASE UNCHANGED alias
  BY <1>1, <1>2 DEF AliasOK, Keeps
<1>3. CASE \E p \in Programs : CanRegister(p) /\ alias' = Extended(p)
  BY <1>3, ExtendedFacts
<1>4. ASSUME NEW v \in DOMAIN alias.versions,
             alias' = Activated(alias, v) \/ alias' = Withdrawn(alias, v)
      PROVE  AliasOK(alias') /\ Keeps(alias, alias')
  <2>1. CASE alias' = Activated(alias, v)
    BY <1>1, <2>1, ActivatedFacts DEF AliasOK
  <2>2. CASE alias' = Withdrawn(alias, v)
    BY <1>1, <2>2, WithdrawnFacts DEF AliasOK
  <2>3. QED
    BY <1>4, <2>1, <2>2
<1>5. QED
  BY <1>2, <1>3, <1>4 DEF AliasMoves

Puts(t) == PutQuarantine(t) \/ PutExample(t) \/ PutReservation(t)

(* The lock: a call stays out, enters, stays in or leaves. *)
Locks(t, c) ==
  \/ ~Locked(th[t]) /\ ~Locked(c) /\ UNCHANGED lock
  \/ ~Locked(th[t]) /\ Locked(c) /\ Take(t)
  \/ Locked(th[t]) /\ Locked(c) /\ UNCHANGED lock
  \/ Locked(th[t]) /\ ~Locked(c) /\ lock' = Absent

(* The mark of the task: it is set by who begins to build and reset by who  *)
(* ends.                                                                    *)
Marks(t, c) ==
  \/ (Builds(c) <=> Builds(th[t])) /\ UNCHANGED building
  \/ ~building /\ ~Builds(th[t]) /\ Builds(c) /\ building' = TRUE
  \/ Builds(th[t]) /\ ~Builds(c) /\ building' = FALSE

(* Builder calls: one is announced by a reservation, and made. *)
Calling(t, c) ==
  \/ c.stage # "build" /\ th[t].stage # "build" /\ UNCHANGED builds
  \/ c.stage = "build" /\ PutReservation(t) /\ UNCHANGED builds
  \/ c.stage # "build" /\ th[t].stage = "build" /\ builds' = builds + 1

Moves(t, c) ==
  /\ Move(t, c)
  /\ CallOK(alias, c) \/ CallOK(alias', c)
  /\ AliasMoves
  /\ UNCHANGED state \/ Puts(t)
  /\ c.stage = "register" =>
       UNCHANGED state /\ ~state.quarantined /\ Passes(c.program, state)
  /\ Locks(t, c) /\ Marks(t, c) /\ Calling(t, c)
  /\ conflicted' \in BOOLEAN

Administers ==
  AliasMoves /\ UNCHANGED <<state, lock, building, th, builds, conflicted>>

LEMMA ThreadFacts ==
  ASSUME TypeInv, NEW t \in Threads
  PROVE  /\ CallOK(alias, th[t]) /\ th[t] \in Calls
         /\ AliasOK(alias) /\ lock \in Threads \cup {Absent} /\ Absent \notin Threads
         /\ conflicted \in BOOLEAN
BY ProgressiveAssumption DEF TypeInv
-----------------------------------------------------------------------------
(* Every action of a thread is such a move. *)

LEMMA LearnMoves ==
  ASSUME TypeInv, NEW t \in Threads,
         \/ Observe(t) \/ LearnNothing(t) \/ Learn(t) \/ Ignore(t) \/ Quarantine(t)
         \/ Retain(t) \/ Reserve(t)
  PROVE  \E c : Moves(t, c)
<1>1. CASE Observe(t)
  <2>1. PICK i \in Inputs, o \in Outputs :
             /\ th[t] = Idle /\ Move(t, Call("learn", i, o, Absent, 0))
             /\ UNCHANGED <<shared, builds, conflicted>>
    BY <1>1 DEF Observe
  <2> DEFINE c == Call("learn", i, o, Absent, 0)
  <2>2. CallOK(alias, c) /\ c.stage = "learn"
    BY ProgressiveAssumption DEF CallOK, Calls, Call, Stages
  <2>3. th[t].stage = "idle"
    BY <2>1, RestingType
  <2> HIDE DEF c
  <2>4. Locks(t, c) /\ Marks(t, c) /\ Calling(t, c)
    BY <2>1, <2>2, <2>3 DEF Locks, Marks, Calling, Locked, Builds, BuildStages, shared
  <2>5. Move(t, c) /\ AliasMoves /\ UNCHANGED state /\ conflicted' \in BOOLEAN
    BY <2>1, ThreadFacts DEF c, AliasMoves, shared
  <2>6. QED
    BY <2>2, <2>4, <2>5 DEF Moves
<1>2. CASE LearnNothing(t)
  <2>1. /\ th[t].stage = "learn" /\ Move(t, Idle) /\ UNCHANGED <<shared, builds>>
        /\ conflicted' \in BOOLEAN
    BY <1>2, ThreadFacts DEF LearnNothing
  <2>2. Locks(t, Idle) /\ Marks(t, Idle) /\ Calling(t, Idle)
    BY <2>1, RestingType DEF Locks, Marks, Calling, Locked, Builds, BuildStages, shared
  <2>3. QED
    BY <2>1, <2>2, RestingType DEF Moves, AliasMoves, shared
<1>3. CASE Learn(t)
  <2> DEFINE c == [th[t] EXCEPT !.stage = "record"]
  <2>1. /\ th[t].stage = "learn" /\ Move(t, c) /\ Take(t)
        /\ UNCHANGED <<alias, state, building, builds, conflicted>>
    BY <1>3 DEF Learn
  <2>2. CallOK(alias, th[t]) /\ th[t].input \in Inputs /\ th[t].output \in Outputs
    BY <2>1, ThreadFacts DEF CallOK
  <2>3. CallOK(alias, c) /\ c.stage = "record"
    BY <2>2 DEF CallOK, Calls, Stages
  <2> HIDE DEF c
  <2>4. Locks(t, c) /\ Marks(t, c) /\ Calling(t, c)
    BY <2>1, <2>3 DEF Locks, Marks, Calling, Locked, Builds, BuildStages
  <2>5. QED
    BY <2>1, <2>3, <2>4, ThreadFacts DEF Moves, AliasMoves
<1>4. CASE Ignore(t) \/ Quarantine(t) \/ Retain(t)
  <2>1. /\ th[t].stage = "record" /\ Free(t) /\ Move(t, Idle) /\ conflicted' \in BOOLEAN
        /\ UNCHANGED state \/ Puts(t)
        /\ UNCHANGED <<alias, building, builds>>
    <3>1. CASE Ignore(t)
      BY <3>1, ThreadFacts DEF Ignore
    <3>2. CASE Quarantine(t)
      BY <3>2 DEF Quarantine, PutQuarantine, CanQuarantine, Puts
    <3>3. CASE Retain(t)
      BY <3>3, ThreadFacts DEF Retain, PutExample, CanRetain, Puts
    <3>4. QED
      BY <1>4, <3>1, <3>2, <3>3
  <2>2. Locks(t, Idle) /\ Marks(t, Idle) /\ Calling(t, Idle)
    BY <2>1, RestingType DEF Locks, Marks, Calling, Locked, Builds, BuildStages, Free
  <2>3. QED
    BY <2>1, <2>2, RestingType DEF Moves, AliasMoves
<1>5. CASE Reserve(t)
  <2> DEFINE c == Call("build", Absent, Absent, Absent, 0)
  <2>1. /\ PutReservation(t) /\ building' = TRUE /\ Free(t) /\ Move(t, c)
        /\ UNCHANGED <<alias, builds, conflicted>>
    BY <1>5 DEF Reserve
  <2>2. th[t].stage = "record" /\ ~building
    BY <2>1 DEF PutReservation, CanRetain, Ripe
  <2>3. CallOK(alias, c) /\ c.stage = "build"
    BY ProgressiveAssumption DEF CallOK, Calls, Call, Stages
  <2> HIDE DEF c
  <2>4. Locks(t, c) /\ Marks(t, c) /\ Calling(t, c)
    BY <2>1, <2>2, <2>3 DEF Locks, Marks, Calling, Locked, Builds, BuildStages, Free
  <2>5. QED
    BY <2>1, <2>3, <2>4, ThreadFacts DEF Moves, AliasMoves, Puts
<1>6. QED
  BY <1>1, <1>2, <1>3, <1>4, <1>5

LEMMA BuildMoves ==
  ASSUME TypeInv, NEW t \in Threads,
         Build(t) \/ BuildFails(t) \/ Reject(t) \/ Accept(t) \/ Discard(t)
  PROVE  \E c : Moves(t, c)
<1>1. CASE Build(t)
  <2>1. PICK p \in Programs :
             /\ th[t].stage = "build" /\ builds' = builds + 1
             /\ Move(t, Call("check", Absent, Absent, p, 0))
             /\ UNCHANGED <<shared, conflicted>>
    BY <1>1 DEF Build
  <2> DEFINE c == Call("check", Absent, Absent, p, 0)
  <2>2. CallOK(alias, c) /\ c.stage = "check"
    BY ProgressiveAssumption DEF CallOK, Calls, Call, Stages
  <2> HIDE DEF c
  <2>3. Locks(t, c) /\ Marks(t, c) /\ Calling(t, c)
    BY <2>1, <2>2 DEF Locks, Marks, Calling, Locked, Builds, BuildStages, shared
  <2>4. Move(t, c) /\ AliasMoves /\ UNCHANGED state /\ conflicted' \in BOOLEAN
    BY <2>1, ThreadFacts DEF c, AliasMoves, shared
  <2>5. QED
    BY <2>2, <2>3, <2>4 DEF Moves
<1>2. CASE BuildFails(t)
  <2>1. /\ th[t].stage = "build" /\ builds' = builds + 1 /\ Move(t, Done)
        /\ UNCHANGED <<shared, conflicted>>
    BY <1>2 DEF BuildFails
  <2>2. Locks(t, Done) /\ Marks(t, Done) /\ Calling(t, Done)
    BY <2>1, RestingType DEF Locks, Marks, Calling, Locked, Builds, BuildStages, shared
  <2>3. QED
    BY <2>1, <2>2, RestingType, ThreadFacts DEF Moves, AliasMoves, shared
<1>3. CASE Reject(t)
  <2>1. /\ th[t].stage = "check" /\ Move(t, Done)
        /\ UNCHANGED <<shared, builds, conflicted>>
    BY <1>3 DEF Reject
  <2>2. Locks(t, Done) /\ Marks(t, Done) /\ Calling(t, Done)
    BY <2>1, RestingType DEF Locks, Marks, Calling, Locked, Builds, BuildStages, shared
  <2>3. QED
    BY <2>1, <2>2, RestingType, ThreadFacts DEF Moves, AliasMoves, shared
<1>4. CASE Accept(t)
  <2> DEFINE c == [th[t] EXCEPT !.stage = "register"]
  <2>1. /\ th[t].stage = "check" /\ Acceptable(th[t].program) /\ Take(t) /\ Move(t, c)
        /\ UNCHANGED <<alias, state, building, builds, conflicted>>
    BY <1>4 DEF Accept
  <2>2. CallOK(alias, th[t]) /\ th[t].program \in Programs
    BY <2>1, ThreadFacts DEF CallOK
  <2>3. CallOK(alias, c) /\ c.stage = "register" /\ c.program = th[t].program
    BY <2>2 DEF CallOK, Calls, Stages
  <2> HIDE DEF c
  <2>4. Locks(t, c) /\ Marks(t, c) /\ Calling(t, c)
    BY <2>1, <2>3 DEF Locks, Marks, Calling, Locked, Builds, BuildStages
  <2>5. ~state.quarantined /\ Passes(c.program, state)
    BY <2>1, <2>3 DEF Acceptable
  <2>6. QED
    BY <2>1, <2>3, <2>4, <2>5, ThreadFacts DEF Moves, AliasMoves
<1>5. CASE Discard(t)
  <2>1. /\ th[t].stage = "discard" /\ building' = FALSE /\ Move(t, Idle)
        /\ UNCHANGED <<alias, state, lock, builds, conflicted>>
    BY <1>5 DEF Discard
  <2>2. Locks(t, Idle) /\ Marks(t, Idle) /\ Calling(t, Idle)
    BY <2>1, RestingType DEF Locks, Marks, Calling, Locked, Builds, BuildStages
  <2>3. QED
    BY <2>1, <2>2, RestingType, ThreadFacts DEF Moves, AliasMoves
<1>6. QED
  BY <1>1, <1>2, <1>3, <1>4, <1>5

(* register goes on to activate with a version of the alias, or is done. *)
LEMMA RegisteredMoves ==
  ASSUME TypeInv, NEW t \in Threads, NEW v \in 0..MaxVersions,
         th[t].stage = "register", AliasMoves, v \in DOMAIN alias'.versions,
         Registered(t, v), UNCHANGED <<state, building, builds, conflicted>>
  PROVE  \E c : Moves(t, c)
<1> DEFINE d == Call("activate", Absent, Absent, Absent, v)
<1>1. CASE Move(t, d) /\ UNCHANGED lock
  <2>1. CallOK(alias', d) /\ d.stage = "activate"
    BY DEF CallOK, Calls, Call, Stages
  <2> HIDE DEF d
  <2>2. Locks(t, d) /\ Marks(t, d) /\ Calling(t, d)
    BY <1>1, <2>1 DEF Locks, Marks, Calling, Locked, Builds, BuildStages
  <2>3. QED
    BY <1>1, <2>1, <2>2, ThreadFacts DEF Moves
<1>2. CASE Move(t, Done) /\ lock' = Absent
  <2>1. Locks(t, Done) /\ Marks(t, Done) /\ Calling(t, Done)
    BY <1>2, RestingType DEF Locks, Marks, Calling, Locked, Builds, BuildStages
  <2>2. QED
    BY <1>2, <2>1, RestingType, ThreadFacts DEF Moves
<1>3. QED
  BY <1>1, <1>2 DEF Registered

(* The activation of a version: it may be active already. *)
LEMMA PromotedMoves ==
  ASSUME NEW v \in DOMAIN alias.versions, alias' = Promoted(v)
  PROVE  AliasMoves
BY DEF Promoted, AliasMoves

LEMMA CrystallizeMoves ==
  ASSUME TypeInv, NEW t \in Threads,
         RegisterReuse(t) \/ RegisterNew(t) \/ Activate(t) \/ CrystallizeFails(t)
  PROVE  \E c : Moves(t, c)
<1>1. CASE RegisterReuse(t)
  <2>1. PICK v \in DOMAIN alias.versions :
             /\ th[t].stage = "register" /\ Registered(t, v)
             /\ UNCHANGED <<alias, state, building, builds, conflicted>>
    BY <1>1 DEF RegisterReuse
  <2>2. v \in 0..MaxVersions /\ v \in DOMAIN alias'.versions /\ AliasMoves
    BY <2>1, ThreadFacts, AliasFacts, ProgressiveAssumption DEF AliasOK, AliasMoves
  <2>3. QED
    BY <2>1, <2>2, RegisteredMoves
<1>2. CASE RegisterNew(t)
  <2>1. /\ th[t].stage = "register" /\ CanRegister(th[t].program)
        /\ alias' = Extended(th[t].program) /\ Registered(t, Latest(alias) + 1)
        /\ UNCHANGED <<state, building, builds, conflicted>>
    BY <1>2 DEF RegisterNew
  <2>2. th[t].program \in Programs
    BY <2>1, ThreadFacts DEF CallOK
  <2>3. AliasMoves
    BY <2>1, <2>2 DEF AliasMoves
  <2>4. AliasOK(alias') /\ Latest(alias') = Latest(alias) + 1
    BY <2>1, <2>2, ExtendedFacts
  <2>5. /\ Latest(alias) \in Nat /\ Latest(alias') <= MaxVersions
        /\ DOMAIN alias'.versions = 1..Latest(alias')
    BY <2>4, ThreadFacts, AliasFacts DEF AliasOK
  <2>6. Latest(alias) + 1 \in 0..MaxVersions /\ Latest(alias) + 1 \in DOMAIN alias'.versions
    BY <2>4, <2>5, ProgressiveAssumption
  <2>7. QED
    BY <2>1, <2>3, <2>6, RegisteredMoves
<1>3. CASE Activate(t)
  <2>1. /\ th[t].stage = "activate" /\ alias' = Promoted(th[t].version)
        /\ Move(t, Done) /\ lock' = Absent
        /\ UNCHANGED <<state, building, builds, conflicted>>
    BY <1>3 DEF Activate
  <2>2. AliasMoves
    BY <2>1, ThreadFacts, PromotedMoves DEF CallOK
  <2>3. Locks(t, Done) /\ Marks(t, Done) /\ Calling(t, Done)
    BY <2>1, RestingType DEF Locks, Marks, Calling, Locked, Builds, BuildStages
  <2>4. QED
    BY <2>1, <2>2, <2>3, RestingType, ThreadFacts DEF Moves
<1>4. CASE CrystallizeFails(t)
  <2>1. /\ th[t].stage \in {"register", "activate"}
        /\ Move(t, Done) /\ lock' = Absent
        /\ UNCHANGED <<state, building, builds, conflicted>>
    BY <1>4 DEF CrystallizeFails
  <2>2. AliasMoves
    <3>1. CASE UNCHANGED alias
      BY <3>1 DEF AliasMoves
    <3>2. CASE /\ th[t].stage = "register" /\ CanRegister(th[t].program)
               /\ alias' = Extended(th[t].program)
      BY <3>2, ThreadFacts DEF AliasMoves, CallOK
    <3>3. CASE th[t].stage = "activate" /\ alias' = Promoted(th[t].version)
      BY <3>3, ThreadFacts, PromotedMoves DEF CallOK
    <3>4. QED
      BY <1>4, <3>1, <3>2, <3>3 DEF CrystallizeFails
  <2>3. Locks(t, Done) /\ Marks(t, Done) /\ Calling(t, Done)
    BY <2>1, RestingType DEF Locks, Marks, Calling, Locked, Builds, BuildStages
  <2>4. QED
    BY <2>1, <2>2, <2>3, RestingType, ThreadFacts DEF Moves
<1>5. QED
  BY <1>1, <1>2, <1>3, <1>4

LEMMA FailureMoves ==
  ASSUME TypeInv, NEW t \in Threads, ReadFails(t) \/ RecordFails(t)
  PROVE  \E c : Moves(t, c)
<1>1. CASE ReadFails(t) /\ th[t].stage = "learn"
  <2>1. Move(t, Idle) /\ UNCHANGED <<shared, builds, conflicted>>
    BY <1>1 DEF ReadFails
  <2>2. Locks(t, Idle) /\ Marks(t, Idle) /\ Calling(t, Idle)
    BY <1>1, <2>1, RestingType DEF Locks, Marks, Calling, Locked, Builds, BuildStages, shared
  <2>3. QED
    BY <2>1, <2>2, RestingType, ThreadFacts DEF Moves, AliasMoves, shared
<1>2. CASE ReadFails(t) /\ th[t].stage = "check"
  <2>1. Move(t, Done) /\ UNCHANGED <<shared, builds, conflicted>>
    BY <1>2 DEF ReadFails
  <2>2. Locks(t, Done) /\ Marks(t, Done) /\ Calling(t, Done)
    BY <1>2, <2>1, RestingType DEF Locks, Marks, Calling, Locked, Builds, BuildStages, shared
  <2>3. QED
    BY <2>1, <2>2, RestingType, ThreadFacts DEF Moves, AliasMoves, shared
<1>3. CASE RecordFails(t)
  <2>1. /\ th[t].stage = "record"
        /\ UNCHANGED state \/ Puts(t)
        /\ Free(t) /\ Move(t, Idle)
        /\ UNCHANGED <<alias, building, builds, conflicted>>
    BY <1>3 DEF RecordFails, Puts
  <2>2. Locks(t, Idle) /\ Marks(t, Idle) /\ Calling(t, Idle)
    BY <2>1, RestingType DEF Locks, Marks, Calling, Locked, Builds, BuildStages, Free
  <2>3. QED
    BY <2>1, <2>2, RestingType, ThreadFacts DEF Moves, AliasMoves
<1>4. QED
  BY <1>1, <1>2, <1>3 DEF ReadFails

LEMMA AdministratorMoves ==
  ASSUME CrystallizeByHand \/ ActivateByHand \/ RetireByHand
  PROVE  Administers
<1>1. CASE CrystallizeByHand
  BY <1>1 DEF CrystallizeByHand, Administer, Administers, AliasMoves
<1>2. CASE ActivateByHand
  BY <1>2 DEF ActivateByHand, Administer, Administers, AliasMoves
<1>3. CASE RetireByHand
  BY <1>3 DEF RetireByHand, Administer, Administers, AliasMoves
<1>4. QED
  BY <1>1, <1>2, <1>3

(* The steps of the specification. *)
LEMMA NextSteps ==
  ASSUME TypeInv, [Next]_vars
  PROVE  \/ \E t \in Threads : \E c : Moves(t, c)
         \/ Crash
         \/ Administers
<1>1. CASE \E t \in Threads : Observe(t) \/ Progress(t) \/ ReadFails(t) \/ RecordFails(t)
  <2>1. PICK t \in Threads : Observe(t) \/ Progress(t) \/ ReadFails(t) \/ RecordFails(t)
    BY <1>1
  <2>2. \E c : Moves(t, c)
    BY <2>1, LearnMoves, BuildMoves, CrystallizeMoves, FailureMoves DEF Progress
  <2>3. QED
    BY <2>2
<1>2. CASE UNCHANGED vars
  BY <1>2 DEF Administers, AliasMoves, vars
<1>3. QED
  BY <1>1, <1>2, AdministratorMoves DEF Next
-----------------------------------------------------------------------------
(* Type correctness. *)

(* The writes of the learning record. *)
LEMMA StateMoved ==
  ASSUME TypeInv, NEW t \in Threads, Puts(t)
  PROVE  /\ StateOK(state')
         /\ state.quarantined => state'.quarantined
         /\ \A i \in Retained(state) : state'.examples[i] = state.examples[i]
         /\ th[t].stage = "record"
<1>1. CASE PutQuarantine(t)
  BY <1>1, QuarantinedFacts DEF PutQuarantine, CanQuarantine
<1>2. CASE PutExample(t)
  BY <1>2, WithExampleFacts DEF PutExample, CanRetain
<1>3. CASE PutReservation(t)
  BY <1>3, WithExampleFacts DEF PutReservation, CanRetain
<1>4. QED
  BY <1>1, <1>2, <1>3 DEF Puts

LEMMA CallKept ==
  ASSUME NEW c, CallOK(alias, c), Keeps(alias, alias')
  PROVE  CallOK(alias', c)
BY DEF CallOK, Keeps

LEMMA InitInv == Init => IInv
<1> SUFFICES ASSUME Init PROVE IInv
  OBVIOUS
<1>1. /\ alias = EmptyAlias /\ lock = Absent /\ building = FALSE
      /\ th = [t \in Threads |-> Idle] /\ builds = 0 /\ conflicted = FALSE
      /\ state = [examples |-> NoExamples, quarantined |-> FALSE, cursor |-> 0]
  BY DEF Init
<1>2. AliasOK(alias)
  BY <1>1, EmptyAliasFacts, ProgressiveAssumption DEF AliasOK
<1>3. Retained(state) = {} /\ Count(state) = 0
  <2>1. Retained(state) = {}
    BY <1>1 DEF Retained, NoExamples
  <2>2. QED
    BY <2>1, FS_EmptySet DEF Count
<1>4. StateOK(state)
  BY <1>1, <1>3 DEF StateOK, NoExamples
<1>5. \A t \in Threads : th[t] = Idle /\ th[t].stage = "idle" /\ CallOK(alias, th[t])
  BY <1>1, RestingType
<1>6. th \in [Threads -> Calls]
  BY <1>1, <1>5 DEF CallOK
<1>7. TypeInv
  BY <1>1, <1>2, <1>4, <1>5, <1>6 DEF TypeInv
<1>8. BuildInv /\ LockInv
  BY <1>1, <1>5 DEF BuildInv, LockInv, Builds, BuildStages, Locked
<1>9. Pending = 0 /\ Allowance = 0
  BY <1>1, <1>5 DEF Pending, Allowance
<1>10. CursorInv
  BY <1>1, <1>3, <1>9, ProgressiveAssumption DEF CursorInv
<1>11. QED
  BY <1>7, <1>8, <1>10 DEF IInv

LEMMA TypeStep ==
  ASSUME TypeInv, [Next]_vars
  PROVE  TypeInv'
<1>1. CASE \E t \in Threads : \E c : Moves(t, c)
  <2>1. PICK t \in Threads : \E c : Moves(t, c)
    BY <1>1
  <2>2. PICK c : Moves(t, c)
    BY <2>1
  <2>3. AliasOK(alias') /\ Keeps(alias, alias')
    BY <2>2, AliasMoved DEF Moves
  <2>4. StateOK(state')
    <3>1. CASE UNCHANGED state
      BY <3>1 DEF TypeInv, StateOK, Count, Retained
    <3>2. CASE Puts(t)
      BY <3>2, StateMoved
    <3>3. QED
      BY <2>2, <3>1, <3>2 DEF Moves
  <2>5. lock' \in Threads \cup {Absent}
    BY <2>2, ThreadFacts DEF Moves, Locks, Take
  <2>6. building' \in BOOLEAN
    BY <2>2 DEF Moves, Marks, TypeInv
  <2>7. CallOK(alias', c)
    BY <2>2, <2>3, CallKept DEF Moves
  <2>8. \A u \in Threads : CallOK(alias, th[u]) /\ CallOK(alias', th[u])
    BY <2>3, CallKept DEF TypeInv
  <2>9. th \in [Threads -> Calls] /\ th' = [th EXCEPT ![t] = c]
    BY <2>2 DEF TypeInv, Moves, Move
  <2>10. th' \in [Threads -> Calls] /\ \A u \in Threads : CallOK(alias', th'[u])
    BY <2>7, <2>8, <2>9 DEF CallOK
  <2>11. builds' \in Nat
    BY <2>2 DEF Moves, Calling, TypeInv
  <2>12. conflicted' \in BOOLEAN
    BY <2>2 DEF Moves
  <2>13. QED
    BY <2>3, <2>4, <2>5, <2>6, <2>10, <2>11, <2>12 DEF TypeInv
<1>2. CASE Crash
  <2>1. /\ th' = [t \in Threads |-> Idle] /\ lock' = Absent /\ building' = FALSE
        /\ UNCHANGED <<alias, state, builds, conflicted>>
    BY <1>2 DEF Crash
  <2>2. \A u \in Threads : th'[u] = Idle /\ CallOK(alias', th'[u])
    BY <2>1, RestingType
  <2>3. th' \in [Threads -> Calls]
    BY <2>1, <2>2 DEF CallOK
  <2>4. AliasOK(alias') /\ StateOK(state')
    BY <2>1 DEF TypeInv
  <2>5. QED
    BY <2>1, <2>2, <2>3, <2>4 DEF TypeInv
<1>3. CASE Administers
  <2>1. AliasOK(alias') /\ Keeps(alias, alias')
    BY <1>3, AliasMoved DEF Administers
  <2>2. UNCHANGED <<state, lock, building, th, builds, conflicted>>
    BY <1>3 DEF Administers
  <2>3. \A u \in Threads : CallOK(alias', th'[u])
    BY <2>1, <2>2, CallKept DEF TypeInv
  <2>4. StateOK(state')
    BY <2>2 DEF TypeInv
  <2>5. QED
    BY <2>1, <2>2, <2>3, <2>4 DEF TypeInv
<1>4. QED
  BY <1>1, <1>2, <1>3, NextSteps

-----------------------------------------------------------------------------
(* One build at a time. *)

LEMMA BuildStep ==
  ASSUME TypeInv, BuildInv, [Next]_vars
  PROVE  BuildInv'
<1>1. CASE \E t \in Threads : \E c : Moves(t, c)
  <2>1. PICK t \in Threads : \E c : Moves(t, c)
    BY <1>1
  <2>2. PICK c : Moves(t, c)
    BY <2>1
  <2>3. /\ th' = [th EXCEPT ![t] = c] /\ th'[t] = c
        /\ \A u \in Threads \ {t} : th'[u] = th[u]
    BY <2>2 DEF Moves, Move, TypeInv
  <2>4. CASE (Builds(c) <=> Builds(th[t])) /\ UNCHANGED building
    <3>1. \A u \in Threads : Builds(th'[u]) <=> Builds(th[u])
      BY <2>3, <2>4
    <3>2. QED
      BY <2>4, <3>1 DEF BuildInv
  <2>5. CASE ~building /\ Builds(c) /\ building' = TRUE
    <3>1. \A u \in Threads : Builds(th'[u]) <=> u = t
      BY <2>3, <2>5 DEF BuildInv
    <3>2. QED
      BY <2>5, <3>1 DEF BuildInv
  <2>6. CASE Builds(th[t]) /\ ~Builds(c) /\ building' = FALSE
    <3>1. \A u \in Threads : ~Builds(th'[u])
      BY <2>3, <2>6 DEF BuildInv
    <3>2. QED
      BY <2>6, <3>1 DEF BuildInv
  <2>7. QED
    BY <2>2, <2>4, <2>5, <2>6 DEF Moves, Marks
<1>2. CASE Crash
  <2>1. building' = FALSE /\ \A u \in Threads : th'[u].stage = "idle"
    BY <1>2, RestingType DEF Crash
  <2>2. QED
    BY <2>1 DEF BuildInv, Builds, BuildStages
<1>3. CASE Administers
  BY <1>3 DEF Administers, BuildInv, Builds
<1>4. QED
  BY <1>1, <1>2, <1>3, NextSteps

-----------------------------------------------------------------------------
(* The lock. *)

LEMMA LockStep ==
  ASSUME TypeInv, LockInv, [Next]_vars
  PROVE  LockInv'
<1>1. CASE \E t \in Threads : \E c : Moves(t, c)
  <2>1. PICK t \in Threads : \E c : Moves(t, c)
    BY <1>1
  <2>2. PICK c : Moves(t, c)
    BY <2>1
  <2>3. /\ th' = [th EXCEPT ![t] = c] /\ th'[t] = c
        /\ \A u \in Threads \ {t} : th'[u] = th[u]
    BY <2>2 DEF Moves, Move, TypeInv
  <2>4. Locked(th'[t]) => lock' = t
    BY <2>2, <2>3 DEF Moves, Locks, Take, LockInv
  <2>5. ASSUME NEW u \in Threads \ {t}, Locked(th[u])
        PROVE  lock' = u
    BY <2>2, <2>5, ThreadFacts DEF Moves, Locks, Take, LockInv
  <2>6. th'[t].stage = "register" => ~state'.quarantined /\ Passes(th'[t].program, state')
    BY <2>2, <2>3 DEF Moves, Passes, Retained
  <2>7. ASSUME NEW u \in Threads \ {t}, th[u].stage = "register"
        PROVE  ~state'.quarantined /\ Passes(th[u].program, state')
    <3>1. lock = u /\ ~state.quarantined /\ Passes(th[u].program, state)
      BY <2>7 DEF LockInv, Locked
    <3>2. ~Puts(t)
      BY <3>1, StateMoved DEF LockInv, Locked
    <3>3. UNCHANGED state
      BY <2>2, <3>2 DEF Moves
    <3>4. QED
      BY <3>1, <3>3 DEF Passes, Retained
  <2>8. QED
    BY <2>3, <2>4, <2>5, <2>6, <2>7 DEF LockInv
<1>2. CASE Crash
  <2>1. \A u \in Threads : th'[u].stage = "idle"
    BY <1>2, RestingType DEF Crash
  <2>2. QED
    BY <2>1 DEF LockInv, Locked
<1>3. CASE Administers
  BY <1>3 DEF Administers, LockInv, Locked, Passes, Retained
<1>4. QED
  BY <1>1, <1>2, <1>3, NextSteps

-----------------------------------------------------------------------------
(* The builder calls. *)

(* What a write does to the count and to what the cursor pays for. *)
LEMMA AllowanceMoved ==
  ASSUME TypeInv, CursorInv, NEW t \in Threads, Puts(t)
  PROVE  /\ state'.cursor = 0 \/ state'.cursor >= MinExamples
         /\ Count(state') <= MaxExamples
         /\ Allowance' \in Nat /\ Allowance \in Nat
         /\ Allowance' >= Allowance
         /\ PutReservation(t) => ~building /\ Allowance' >= Allowance + 1
<1>1. /\ state.cursor \in Nat /\ Count(state) \in Nat /\ state.cursor <= Count(state)
      /\ state.cursor = 0 \/ state.cursor >= MinExamples
      /\ Count(state) <= MaxExamples
      /\ MinExamples \in Nat \ {0} /\ MaxExamples \in Nat
  BY CountFacts, ProgressiveAssumption DEF TypeInv, StateOK, CursorInv
<1>2. CASE PutQuarantine(t)
  <2>1. state'.cursor = state.cursor /\ Count(state') = Count(state)
    BY <1>2, QuarantinedFacts DEF PutQuarantine
  <2>2. ~PutReservation(t)
    BY <1>2 DEF PutQuarantine, PutReservation, CanQuarantine, CanRetain, Contradicts, New
  <2>3. QED
    BY <1>1, <2>1, <2>2 DEF Allowance
<1>3. CASE PutExample(t)
  <2>1. /\ state'.cursor = state.cursor /\ Count(state') = Count(state) + 1
        /\ Count(state) < MaxExamples /\ ~Ripe(t)
    BY <1>3, WithExampleFacts DEF PutExample, CanRetain
  <2>2. ~PutReservation(t)
    BY <2>1 DEF PutReservation
  <2>3. QED
    BY <1>1, <2>1, <2>2 DEF Allowance
<1>4. CASE PutReservation(t)
  <2>1. /\ state'.cursor = Count(state) + 1 /\ Count(state') = Count(state) + 1
        /\ Count(state) < MaxExamples
    BY <1>4, WithExampleFacts DEF PutReservation, CanRetain
  <2>2. ~building /\ Count(state) + 1 >= MinExamples
    BY <1>4, WithExampleFacts DEF PutReservation, Ripe
  <2>3. Allowance' = Count(state) + 1 - MinExamples + 1
    BY <1>1, <2>1 DEF Allowance
  <2>4. QED
    BY <1>1, <2>1, <2>2, <2>3 DEF Allowance
<1>5. QED
  BY <1>2, <1>3, <1>4 DEF Puts

LEMMA CursorStep ==
  ASSUME TypeInv, BuildInv, CursorInv, [Next]_vars
  PROVE  CursorInv'
<1>0. /\ builds \in Nat /\ Pending \in {0, 1} /\ Pending' \in {0, 1}
      /\ builds + Pending <= Allowance
  BY DEF TypeInv, Pending, CursorInv
<1>1. CASE \E t \in Threads : \E c : Moves(t, c)
  <2>1. PICK t \in Threads : \E c : Moves(t, c)
    BY <1>1
  <2>2. PICK c : Moves(t, c)
    BY <2>1
  <2>3. /\ th' = [th EXCEPT ![t] = c] /\ th'[t] = c
        /\ \A u \in Threads \ {t} : th'[u] = th[u]
    BY <2>2 DEF Moves, Move, TypeInv
  <2>4. /\ state'.cursor = 0 \/ state'.cursor >= MinExamples
        /\ Count(state') <= MaxExamples
        /\ Allowance' \in Nat /\ Allowance \in Nat
        /\ Allowance' >= Allowance
        /\ PutReservation(t) => ~building /\ Allowance' >= Allowance + 1
    <3>1. CASE Puts(t)
      BY <3>1, AllowanceMoved
    <3>2. CASE UNCHANGED state /\ ~Puts(t)
      <4>1. Allowance' = Allowance /\ Count(state') = Count(state) /\ state'.cursor = state.cursor
        BY <3>2 DEF Allowance, Count, Retained
      <4>2. Allowance \in Nat
        BY ProgressiveAssumption DEF TypeInv, StateOK, CursorInv, Allowance
      <4>3. ~PutReservation(t)
        BY <3>2 DEF Puts
      <4>4. QED
        BY <4>1, <4>2, <4>3 DEF CursorInv
    <3>3. QED
      BY <2>2, <3>1, <3>2 DEF Moves
  <2>5. builds' + Pending' <= Allowance'
    <3>1. CASE c.stage # "build" /\ th[t].stage # "build" /\ UNCHANGED builds
      <4>1. Pending' = Pending
        BY <2>3, <3>1 DEF Pending
      <4>2. QED
        BY <1>0, <2>4, <3>1, <4>1
    <3>2. CASE c.stage = "build" /\ PutReservation(t) /\ UNCHANGED builds
      <4>1. Pending = 0
        BY <2>4, <3>2 DEF Pending, BuildInv, Builds, BuildStages
      <4>2. Allowance' >= Allowance + 1 /\ builds' = builds
        BY <2>4, <3>2
      <4>3. Allowance' \in Nat /\ Allowance \in Nat
        BY <2>4
      <4>4. builds \in Nat /\ builds + 0 <= Allowance /\ (Pending' = 0 \/ Pending' = 1)
        BY <1>0, <4>1
      <4>5. CASE Pending' = 0
        BY <4>2, <4>3, <4>4, <4>5
      <4>6. CASE Pending' = 1
        BY <4>2, <4>3, <4>4, <4>6
      <4>7. QED
        BY <4>4, <4>5, <4>6
    <3>3. CASE c.stage # "build" /\ th[t].stage = "build" /\ builds' = builds + 1
      <4>1. Pending = 1
        BY <3>3 DEF Pending
      <4>2. Pending' = 0
        BY <2>3, <3>3 DEF Pending, BuildInv, Builds, BuildStages
      <4>3. QED
        BY <1>0, <2>4, <3>3, <4>1, <4>2
    <3>4. QED
      BY <2>2, <3>1, <3>2, <3>3 DEF Moves, Calling
  <2>6. QED
    BY <2>4, <2>5 DEF CursorInv
<1>2. CASE Crash
  <2>1. \A u \in Threads : th'[u].stage = "idle"
    BY <1>2, RestingType DEF Crash
  <2>2. Pending' = 0 /\ UNCHANGED <<state, builds>>
    BY <1>2, <2>1 DEF Pending, Crash
  <2>3. Allowance' = Allowance /\ Allowance \in Nat
    BY <2>2, ProgressiveAssumption DEF TypeInv, StateOK, CursorInv, Allowance
  <2>4. builds' + Pending' <= Allowance'
    BY <1>0, <2>2, <2>3
  <2>5. QED
    BY <2>2, <2>4 DEF CursorInv, Count, Retained
<1>3. CASE Administers
  BY <1>3 DEF Administers, CursorInv, Pending, Allowance, Count, Retained
<1>4. QED
  BY <1>1, <1>2, <1>3, NextSteps

-----------------------------------------------------------------------------
LEMMA InvStep == IInv /\ [Next]_vars => IInv'
BY TypeStep, BuildStep, LockStep, CursorStep DEF IInv

(* The inductive invariant of a worker's learning, for any limits. *)
THEOREM LearningInvariant == Spec => []IInv
<1>1. QED
  BY InitInv, InvStep, PTL DEF Spec

LEMMA TypeInvImplies == TypeInv => TypeOK
<1> SUFFICES ASSUME TypeInv PROVE TypeOK
  OBVIOUS
<1>1. alias \in AliasesOf(Contents) /\ WellFormed(alias) /\ Latest(alias) <= MaxVersions
  BY DEF TypeInv, AliasOK
<1>2. alias.active \in 0..MaxVersions
  BY <1>1, AliasFacts, WellFormedFacts, ProgressiveAssumption
<1>3. alias \in Aliases
  BY <1>1, <1>2 DEF Aliases, AliasesOf, EntriesOf
<1>4. /\ state \in [examples : [Inputs -> Outputs \cup {Absent}], quarantined : BOOLEAN,
                    cursor : Nat]
      /\ state.cursor <= Count(state)
  BY DEF TypeInv, StateOK
<1>5. th \in [Threads -> [stage : Stages, input : Inputs \cup {Absent},
                          output : Outputs \cup {Absent}, program : Programs \cup {Absent},
                          version : 0..MaxVersions]]
  BY DEF TypeInv, Calls
<1>6. /\ lock \in Threads \cup {Absent} /\ building \in BOOLEAN /\ builds \in Nat
      /\ conflicted \in BOOLEAN
  BY DEF TypeInv
<1>7. QED
  BY <1>1, <1>3, <1>4, <1>5, <1>6 DEF TypeOK

(* Whatever the limits and however the calls interleave, fail or crash, the *)
(* stored alias and learning record are ones that the code accepts when it  *)
(* loads them (_validate_alias, _validate_state).                           *)
THEOREM TypeCorrect == Spec => []TypeOK
<1>1. IInv => TypeOK
  BY TypeInvImplies DEF IInv
<1>2. QED
  BY <1>1, LearningInvariant, PTL

(* The builder of a task never runs in two threads, and no failed, rejected *)
(* or crashed build leaves the mark in _BUILDING that would end learning.   *)
THEOREM OneBuild == Spec => []OneBuildAtATime
<1>1. ASSUME BuildInv PROVE OneBuildAtATime
  <2> DEFINE S == {t \in Threads : th[t].stage \in BuildStages}
  <2>1. \A t, u \in S : t = u
    BY <1>1 DEF BuildInv, Builds
  <2>2. Cardinality(S) <= 1
    <3>1. CASE S = {}
      BY <3>1, FS_EmptySet
    <3>2. CASE S # {}
      <4>1. PICK t \in S : TRUE
        BY <3>2
      <4>2. S = {t}
        BY <2>1, <4>1
      <4>3. Cardinality({t}) = 1
        BY FS_Singleton
      <4> HIDE DEF S
      <4>4. QED
        BY <4>2, <4>3
    <3>3. QED
      BY <3>1, <3>2
  <2>3. QED
    BY <1>1, <2>2 DEF OneBuildAtATime, BuildInv, Builds
<1>2. IInv => OneBuildAtATime
  BY <1>1 DEF IInv
<1>3. QED
  BY <1>2, LearningInvariant, PTL

(* Whatever fails or crashes, the cursor that is written before a builder   *)
(* call bounds those calls over the life of a task.                         *)
THEOREM BuilderCalls == Spec => []BuilderCallsBounded
<1>1. ASSUME TypeInv, CursorInv PROVE BuilderCallsBounded
  <2>1. /\ builds \in Nat /\ state.cursor \in Nat /\ Count(state) \in Nat
        /\ state.cursor <= Count(state) /\ Count(state) <= MaxExamples
        /\ MinExamples \in 1..MaxExamples /\ MaxExamples \in Nat
    BY <1>1, CountFacts, ProgressiveAssumption DEF TypeInv, StateOK, CursorInv
  <2>2. Pending \in {0, 1} /\ builds + Pending <= Allowance
    BY <1>1 DEF Pending, CursorInv
  <2>3. Allowance <= MaxExamples - MinExamples + 1 /\ Allowance \in Int
    BY <2>1 DEF Allowance
  <2>4. QED
    BY <2>1, <2>2, <2>3 DEF BuilderCallsBounded
<1>2. IInv => BuilderCallsBounded
  BY <1>1 DEF IInv
<1>3. QED
  BY <1>2, LearningInvariant, PTL

(* A candidate is tested against the examples retained by the moment it is  *)
(* registered, not those the builder was given: the check and the           *)
(* registration are one section of the lock, and only it writes examples.   *)
THEOREM CandidatesReproduce == Spec => CandidatesReproduceExamples
<1> DEFINE A == \A t \in Threads :
                  th[t].stage = "register" /\ th'[t].stage # "register"
                    /\ Latest(alias') > Latest(alias) =>
                      ~state.quarantined /\ Passes(th[t].program, state)
<1>1. IInv => A
  BY DEF IInv, LockInv
<1>2. IInv /\ [Next]_vars => [A]_vars
  BY <1>1
<1>3. QED
  BY <1>2, LearningInvariant, PTL DEF Spec, CandidatesReproduceExamples

(* No call of any thread loses an example that another one recorded, or     *)
(* lifts a quarantine, also when its write is reported as failed.           *)
THEOREM EvidenceKept == Spec => EvidenceIsPermanent
<1> DEFINE A == /\ state.quarantined => state'.quarantined
                /\ \A i \in Retained(state) : state'.examples[i] = state.examples[i]
<1>1. ASSUME TypeInv, [Next]_vars PROVE A
  <2>1. CASE \E t \in Threads : \E c : Moves(t, c)
    <3>1. PICK t \in Threads : \E c : Moves(t, c)
      BY <2>1
    <3>2. UNCHANGED state \/ Puts(t)
      BY <3>1 DEF Moves
    <3>3. CASE UNCHANGED state
      BY <3>3
    <3>4. CASE Puts(t)
      BY <1>1, <3>4, StateMoved
    <3>5. QED
      BY <3>2, <3>3, <3>4
  <2>2. CASE Crash \/ Administers
    BY <2>2 DEF Crash, Administers
  <2>3. QED
    BY <1>1, <2>1, <2>2, NextSteps
<1>2. IInv /\ [Next]_vars => [A]_vars
  BY <1>1 DEF IInv
<1>3. QED
  BY <1>2, LearningInvariant, PTL DEF Spec, EvidenceIsPermanent
-----------------------------------------------------------------------------
(* The refinement.  Learner and administrator register tested programs.     *)

TestedInv == \A v \in DOMAIN alias.versions : alias.versions[v].content.tested

(* The alias with one more version: its last one is the only new one. *)
LEMMA ExtendedVersions ==
  ASSUME TypeInv, NEW p \in Programs, CanRegister(p)
  PROVE  LET b == Extended(p)
         IN  /\ \A v \in DOMAIN alias.versions : b.versions[v] = alias.versions[v]
             /\ b.versions[Latest(alias) + 1].content.program = p
             /\ b.versions[Latest(alias) + 1].content.tested = TRUE
             /\ Gone(b) = Gone(alias) /\ b.active = alias.active
             /\ DOMAIN alias.versions = 1..Latest(alias)
             /\ DOMAIN b.versions = 1..(Latest(alias) + 1) /\ Latest(alias) \in Nat
<1> DEFINE c == NextContent(alias, TaskKey, p, TRUE)
           b == Extended(p)
<1>1. alias \in AliasesOf(Contents) /\ WellFormed(alias) /\ Latest(alias) <= MaxVersions
  BY DEF TypeInv, AliasOK
<1>2. Latest(alias) \in Nat /\ Latest(alias) < MaxVersions /\ alias.revision \in Nat
  BY <1>1, AliasFacts DEF CanRegister
<1>3. /\ c \in Contents /\ c.version = Latest(alias) + 1 /\ c.revision = alias.revision + 1
      /\ c.program = p /\ c.tested = TRUE
  BY <1>2, ProgressiveAssumption DEF NextContent, Contents
<1>4. b = WithVersion(alias, c)
  BY DEF Extended
<1> HIDE DEF c, b
<1>5. /\ b \in AliasesOf(Contents) /\ Latest(b) = Latest(alias) + 1
      /\ b.active = alias.active
      /\ b.versions[Latest(b)] = [content |-> c, state |-> "draft"]
      /\ \A v \in DOMAIN alias.versions : b.versions[v] = alias.versions[v]
  BY <1>1, <1>3, <1>4, WithVersionFacts
<1>6. Gone(b) = Gone(alias)
  BY <1>1, <1>3, <1>4, WithVersionGone
<1>7. /\ DOMAIN alias.versions = 1..Latest(alias)
      /\ DOMAIN b.versions = 1..(Latest(alias) + 1)
  BY <1>1, <1>5, AliasFacts
<1>8. QED
  BY <1>2, <1>3, <1>5, <1>6, <1>7 DEF b

LEMMA TestedStep ==
  ASSUME TypeInv, TestedInv, AliasMoves
  PROVE  TestedInv'
<1>1. CASE UNCHANGED alias
  BY <1>1 DEF TestedInv
<1>2. CASE \E p \in Programs : CanRegister(p) /\ alias' = Extended(p)
  <2>1. PICK p \in Programs : CanRegister(p) /\ alias' = Extended(p)
    BY <1>2
  <2>2. /\ \A v \in DOMAIN alias.versions : alias'.versions[v] = alias.versions[v]
        /\ alias'.versions[Latest(alias) + 1].content.tested = TRUE
        /\ DOMAIN alias.versions = 1..Latest(alias)
        /\ DOMAIN alias'.versions = 1..(Latest(alias) + 1) /\ Latest(alias) \in Nat
    BY <2>1, ExtendedVersions
  <2>3. \A v \in DOMAIN alias'.versions : v = Latest(alias) + 1 \/ v \in DOMAIN alias.versions
    BY <2>2
  <2>4. QED
    BY <2>2, <2>3 DEF TestedInv
<1>3. ASSUME NEW v \in DOMAIN alias.versions,
             alias' = Activated(alias, v) \/ alias' = Withdrawn(alias, v)
      PROVE  TestedInv'
  <2>1. alias \in AliasesOf(Contents) /\ WellFormed(alias)
    BY DEF TypeInv, AliasOK
  <2>2. Keeps(alias, alias') /\ DOMAIN alias'.versions = DOMAIN alias.versions
    BY <1>3, <2>1, ActivatedFacts, WithdrawnFacts
  <2>3. QED
    BY <2>2 DEF TestedInv, Keeps
<1>4. QED
  BY <1>1, <1>2, <1>3 DEF AliasMoves

(* What Catalog.tla sees of an alias. *)
Publications == [program : Programs, tested : BOOLEAN]

Past(a) ==
  [v \in DOMAIN a.versions |->
     [program |-> a.versions[v].content.program, tested |-> a.versions[v].content.tested]]

LEMMA PastType ==
  ASSUME NEW a, AliasOK(a)
  PROVE  /\ Past(a) \in Seq(Publications) /\ Len(Past(a)) = Latest(a)
         /\ DOMAIN Past(a) = 1..Latest(a)
<1>1. /\ DOMAIN a.versions = 1..Latest(a) /\ Latest(a) \in Nat
      /\ \A v \in DOMAIN a.versions : a.versions[v].content \in Contents
  BY AliasFacts DEF AliasOK
<1>2. \A v \in DOMAIN a.versions :
        [program |-> a.versions[v].content.program,
         tested |-> a.versions[v].content.tested] \in Publications
  BY <1>1 DEF Contents, Publications
<1>3. Past(a) \in [1..Latest(a) -> Publications]
  BY <1>1, <1>2 DEF Past
<1>4. QED
  BY <1>1, <1>3

(* The variables of Catalog.tla under the refinement mapping. *)
SeenHistory == [n \in {TaskKey} |-> History]
SeenRetired == [n \in {TaskKey} |-> {v \in DOMAIN alias.versions : Retired(alias, v)}]
SeenServing == [n \in {TaskKey} |-> alias.active]

LEMMA SeenAlias ==
  /\ /\ SeenHistory[TaskKey] = Past(alias)
     /\ SeenRetired[TaskKey] = Gone(alias)
     /\ SeenServing[TaskKey] = alias.active
  /\ /\ SeenHistory'[TaskKey] = Past(alias')
     /\ SeenRetired'[TaskKey] = Gone(alias')
     /\ SeenServing'[TaskKey] = alias'.active
BY DEF SeenHistory, SeenRetired, SeenServing, History, Past, Gone

(* All that is seen is seen of the crystal of the task. *)
LEMMA SeenTask ==
  ASSUME NEW h, NEW r, NEW k
  PROVE  /\ SeenHistory'[TaskKey] = h => SeenHistory' = [SeenHistory EXCEPT ![TaskKey] = h]
         /\ SeenRetired'[TaskKey] = r => SeenRetired' = [SeenRetired EXCEPT ![TaskKey] = r]
         /\ SeenServing'[TaskKey] = k => SeenServing' = [SeenServing EXCEPT ![TaskKey] = k]
         /\ SeenHistory'[TaskKey] = SeenHistory[TaskKey] => SeenHistory' = SeenHistory
         /\ SeenRetired'[TaskKey] = SeenRetired[TaskKey] => SeenRetired' = SeenRetired
         /\ SeenServing'[TaskKey] = SeenServing[TaskKey] => SeenServing' = SeenServing
BY DEF SeenHistory, SeenRetired, SeenServing

(* A registration publishes a program no version in use has. *)
LEMMA ExtendedPublishes ==
  ASSUME TypeInv, NEW p \in Programs, CanRegister(p), alias' = Extended(p)
  PROVE  Promise!Publish(TaskKey)
<1> DEFINE n == Latest(alias) + 1
           e == [program |-> p, tested |-> TRUE]
           h == Past(alias)
           g == Past(alias')
<1>1. /\ \A v \in DOMAIN alias.versions : alias'.versions[v] = alias.versions[v]
      /\ alias'.versions[n].content.program = p
      /\ alias'.versions[n].content.tested = TRUE
      /\ Gone(alias') = Gone(alias) /\ alias'.active = alias.active
      /\ DOMAIN alias.versions = 1..Latest(alias)
      /\ DOMAIN alias'.versions = 1..n /\ Latest(alias) \in Nat
  BY ExtendedVersions
<1>2. AliasOK(alias) /\ AliasOK(alias') /\ Latest(alias') = n
  BY ExtendedFacts DEF TypeInv
<1>3. e \in Publications
  BY DEF Publications
<1>4. /\ h \in Seq(Publications) /\ Len(h) = Latest(alias) /\ DOMAIN h = 1..Latest(alias)
      /\ g \in Seq(Publications) /\ Len(g) = n
  BY <1>2, PastType
<1>5. g[n] = e
  <2>1. n \in DOMAIN alias'.versions
    BY <1>1
  <2>2. QED
    BY <1>1, <2>1 DEF Past
<1>6. ASSUME NEW v \in 1..Latest(alias)
      PROVE  g[v] = h[v]
  <2>1. v \in DOMAIN alias.versions /\ v \in DOMAIN alias'.versions
    BY <1>1
  <2>2. alias'.versions[v] = alias.versions[v]
    BY <1>1, <2>1
  <2>3. QED
    BY <2>1, <2>2 DEF Past
<1>7. ASSUME NEW v \in DOMAIN h, h[v].program = p
      PROVE  v \in Gone(alias)
  <2>1. v \in DOMAIN alias.versions /\ alias.versions[v].content.program = p
    BY <1>1, <1>4, <1>7 DEF Past
  <2>2. Retired(alias, v)
    BY <2>1 DEF CanRegister, Reusable
  <2>3. QED
    BY <2>1, <2>2 DEF Gone
<1>8. g = Append(h, e)
  BY <1>3, <1>4, <1>5, <1>6, AppendedBy
<1> HIDE DEF e, h, g
<1>9. SeenHistory[TaskKey] = h /\ SeenRetired[TaskKey] = Gone(alias)
  BY SeenAlias DEF h
<1>10. \A v \in DOMAIN SeenHistory[TaskKey] :
         SeenHistory[TaskKey][v].program = p => v \in SeenRetired[TaskKey]
  BY <1>7, <1>9
<1>11. /\ SeenHistory' = [SeenHistory EXCEPT ![TaskKey] = Append(h, e)]
       /\ SeenRetired' = SeenRetired /\ SeenServing' = SeenServing
  BY <1>1, <1>8, SeenAlias, SeenTask DEF g
<1>12. SeenHistory' = [SeenHistory EXCEPT ![TaskKey] =
                        Append(SeenHistory[TaskKey], [program |-> p, tested |-> TRUE])]
  BY <1>9, <1>11 DEF e
<1>13. QED
  BY <1>10, <1>11, <1>12 DEF Promise!Publish, SeenHistory, SeenRetired, SeenServing

LEMMA SamePast ==
  ASSUME Keeps(alias, alias'), DOMAIN alias'.versions = DOMAIN alias.versions
  PROVE  Past(alias') = Past(alias)
BY DEF Past, Keeps

LEMMA ActivatedServes ==
  ASSUME TypeInv, TestedInv, NEW v \in DOMAIN alias.versions, alias.active # v,
         alias' = Activated(alias, v)
  PROVE  Promise!Serve(TaskKey)
<1>1. alias \in AliasesOf(Contents) /\ WellFormed(alias)
  BY DEF TypeInv, AliasOK
<1>2. /\ Keeps(alias, alias') /\ DOMAIN alias'.versions = DOMAIN alias.versions
      /\ alias'.active = v
  BY <1>1, ActivatedFacts
<1>3. Gone(alias') = (Gone(alias) \cup ({alias.active} \ {0})) \ {v}
  BY <1>1, ActivatedGone
<1>4. Past(alias') = Past(alias)
  BY <1>2, SamePast
<1>5. v \in DOMAIN Past(alias) /\ Past(alias)[v].tested
  BY DEF Past, TestedInv
<1>6. /\ v \in DOMAIN SeenHistory[TaskKey] /\ SeenHistory[TaskKey][v].tested
      /\ SeenServing[TaskKey] # v
  BY <1>5, SeenAlias
<1>7. /\ SeenServing' = [SeenServing EXCEPT ![TaskKey] = v]
      /\ SeenRetired' = [SeenRetired EXCEPT ![TaskKey] =
                           (SeenRetired[TaskKey] \cup ({SeenServing[TaskKey]} \ {0})) \ {v}]
      /\ SeenHistory' = SeenHistory
  BY <1>2, <1>3, <1>4, SeenAlias, SeenTask
<1>8. QED
  BY <1>6, <1>7 DEF Promise!Serve, SeenHistory, SeenRetired, SeenServing

LEMMA WithdrawnWithdraws ==
  ASSUME TypeInv, NEW v \in DOMAIN alias.versions, ~Retired(alias, v),
         alias' = Withdrawn(alias, v)
  PROVE  Promise!Withdraw(TaskKey)
<1>1. alias \in AliasesOf(Contents) /\ WellFormed(alias)
  BY DEF TypeInv, AliasOK
<1>2. Keeps(alias, alias') /\ DOMAIN alias'.versions = DOMAIN alias.versions
  BY <1>1, WithdrawnFacts
<1>3. /\ Gone(alias') = Gone(alias) \cup {v}
      /\ alias'.active = IF alias.active = v THEN 0 ELSE alias.active
  BY <1>1, WithdrawnGone
<1>4. Past(alias') = Past(alias)
  BY <1>2, SamePast
<1>5. v \in DOMAIN Past(alias) \ Gone(alias)
  BY DEF Past, Gone
<1>6. v \in DOMAIN SeenHistory[TaskKey] \ SeenRetired[TaskKey]
  BY <1>5, SeenAlias
<1>7. /\ SeenRetired' = [SeenRetired EXCEPT ![TaskKey] = SeenRetired[TaskKey] \cup {v}]
      /\ SeenServing' = [SeenServing EXCEPT ![TaskKey] =
                           IF SeenServing[TaskKey] = v THEN 0 ELSE SeenServing[TaskKey]]
      /\ SeenHistory' = SeenHistory
  BY <1>3, <1>4, SeenAlias, SeenTask
<1>8. QED
  BY <1>6, <1>7 DEF Promise!Withdraw, SeenHistory, SeenRetired, SeenServing

LEMMA CatalogInit == Init => Promise!Init /\ TestedInv
<1> SUFFICES ASSUME Init PROVE Promise!Init /\ TestedInv
  OBVIOUS
<1>1. /\ AliasOK(EmptyAlias) /\ DOMAIN EmptyAlias.versions = {} /\ EmptyAlias.active = 0
      /\ Latest(EmptyAlias) = 0 /\ alias = EmptyAlias
  BY EmptyAliasFacts, ProgressiveAssumption DEF Init, AliasOK, EmptyAlias
<1>2. Past(alias) = << >>
  <2>1. Past(EmptyAlias) \in Seq(Publications) /\ Len(Past(EmptyAlias)) = 0
    BY <1>1, PastType
  <2>2. QED
    BY <1>1, <2>1, EmptySeq, SeqEqual
<1>3. Gone(alias) = {}
  BY <1>1 DEF Gone
<1>4. /\ SeenHistory = [n \in {TaskKey} |-> << >>]
      /\ SeenRetired = [n \in {TaskKey} |-> {}]
      /\ SeenServing = [n \in {TaskKey} |-> 0]
  BY <1>1, <1>2, <1>3, SeenAlias DEF SeenHistory, SeenRetired, SeenServing
<1>5. Promise!Init
  BY <1>4 DEF Promise!Init, SeenHistory, SeenRetired, SeenServing
<1>6. QED
  BY <1>1, <1>5 DEF TestedInv

(* Every step moves the alias as a registry operation does. *)
LEMMA NextAlias == TypeInv /\ [Next]_vars => AliasMoves
BY NextSteps DEF Moves, Crash, Administers, AliasMoves

LEMMA CatalogStep ==
  ASSUME TypeInv, TestedInv, [Next]_vars
  PROVE  [Promise!Next]_Promise!vars /\ TestedInv'
<1>1. AliasMoves
  BY NextAlias
<1>2. UNCHANGED alias => UNCHANGED Promise!vars
  BY DEF Promise!vars, History
<1>3. ASSUME NEW p \in Programs, CanRegister(p), alias' = Extended(p)
      PROVE  Promise!Next
  BY <1>3, ExtendedPublishes DEF Promise!Next
<1>4. ASSUME NEW v \in DOMAIN alias.versions,
             \/ alias.active # v /\ alias' = Activated(alias, v)
             \/ ~Retired(alias, v) /\ alias' = Withdrawn(alias, v)
      PROVE  Promise!Next
  BY <1>4, ActivatedServes, WithdrawnWithdraws DEF Promise!Next
<1>5. [Promise!Next]_Promise!vars
  BY <1>1, <1>2, <1>3, <1>4 DEF AliasMoves
<1>6. QED
  BY <1>1, <1>5, TestedStep

(* The threads of a worker that learn and the administrator who never takes *)
(* their lock move the catalog of the task's crystal one step at a time,    *)
(* whatever fails or crashes.                                               *)
THEOREM LearningImplementsCatalog == Spec => ImplementsCatalog
<1>1. TypeInv /\ TestedInv /\ [Next]_vars => [Promise!Next]_Promise!vars /\ TestedInv'
  BY CatalogStep
<1>2. IInv => TypeInv
  BY DEF IInv
<1>3. QED
  BY <1>1, <1>2, CatalogInit, LearningInvariant, PTL
     DEF Spec, ImplementsCatalog, Promise!Spec
=============================================================================
