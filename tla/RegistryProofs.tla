--------------------------- MODULE RegistryProofs ---------------------------
(***************************************************************************)
(* Theorems about Registry.tla, for any number of names, programs, threads  *)
(* and workers.                                                             *)
(***************************************************************************)
EXTENDS Registry, TLAPS, SequenceTheorems

-----------------------------------------------------------------------------
(* What the operators on aliases return. *)

LEMMA EmptyAliasType == EmptyAlias \in Aliases
BY BoundsAssumption DEF EmptyAlias, Aliases

LEMMA NextContentType ==
  ASSUME NEW a \in Aliases, NEW n \in Names, NEW p \in Programs, NEW b \in BOOLEAN,
         Latest(a) < MaxVersions
  PROVE  NextContent(a, n, p, b) \in Contents
BY BoundsAssumption DEF NextContent, Contents, Latest, Aliases, Versions

LEMMA AliasFacts ==
  ASSUME NEW a \in Aliases
  PROVE  /\ a.revision \in Nat
         /\ a.active \in 0..MaxVersions
         /\ a.versions \in Seq(Entries)
         /\ Len(a.versions) \in 0..MaxVersions
         /\ DOMAIN a.versions = 1..Len(a.versions)
         /\ \A v \in DOMAIN a.versions :
              /\ v \in Versions
              /\ a.versions[v] \in Entries
              /\ a.versions[v].content \in Contents
              /\ a.versions[v].state \in Lifecycle
         /\ a = [revision |-> a.revision, active |-> a.active, versions |-> a.versions]
<1>1. /\ a.revision \in Nat /\ a.active \in 0..MaxVersions
      /\ a.versions \in Seq(Entries) /\ Len(a.versions) <= MaxVersions
      /\ a = [revision |-> a.revision, active |-> a.active, versions |-> a.versions]
  BY DEF Aliases
<1>2. Len(a.versions) \in 0..MaxVersions /\ DOMAIN a.versions = 1..Len(a.versions)
  BY <1>1, BoundsAssumption
<1>3. ASSUME NEW v \in DOMAIN a.versions
      PROVE  v \in Versions /\ a.versions[v] \in Entries
  BY <1>1, <1>2, BoundsAssumption DEF Versions
<1>4. QED
  BY <1>1, <1>2, <1>3 DEF Entries

LEMMA AliasIntro ==
  ASSUME NEW r \in Nat, NEW k \in 0..MaxVersions, NEW s \in Seq(Entries),
         Len(s) <= MaxVersions
  PROVE  [revision |-> r, active |-> k, versions |-> s] \in Aliases
BY DEF Aliases

LEMMA WithVersionType ==
  ASSUME NEW a \in Aliases, NEW c \in Contents, Latest(a) < MaxVersions
  PROVE  /\ WithVersion(a, c) \in Aliases
         /\ Len(WithVersion(a, c).versions) = Len(a.versions) + 1
         /\ WithVersion(a, c).active = a.active
         /\ WithVersion(a, c).revision = c.revision
         /\ \A v \in DOMAIN a.versions : WithVersion(a, c).versions[v] = a.versions[v]
         /\ WithVersion(a, c).versions[Len(a.versions) + 1] = [content |-> c, state |-> "draft"]
<1> DEFINE e == [content |-> c, state |-> "draft"]
           s == Append(a.versions, e)
<1>1. e \in Entries
  BY DEF Entries, Lifecycle
<1>2. /\ s \in Seq(Entries)
      /\ Len(s) = Len(a.versions) + 1
      /\ \A v \in DOMAIN a.versions : s[v] = a.versions[v]
      /\ s[Len(a.versions) + 1] = e
  BY <1>1, AliasFacts
<1>3. WithVersion(a, c) = [revision |-> c.revision, active |-> a.active, versions |-> s]
  BY DEF WithVersion
<1>4. c.revision \in Nat /\ Len(s) <= MaxVersions
  BY <1>2, AliasFacts, BoundsAssumption DEF Contents, Latest
<1> HIDE DEF e, s
<1>5. WithVersion(a, c) \in Aliases
  BY <1>2, <1>3, <1>4, AliasFacts, AliasIntro
<1>6. QED
  BY <1>2, <1>3, <1>5 DEF e

(* A sequence of entries rewritten entry by entry. *)
LEMMA RewrittenVersions ==
  ASSUME NEW a \in Aliases, NEW r \in Nat, NEW k \in 0..MaxVersions,
         NEW s \in [DOMAIN a.versions -> Entries]
  PROVE  /\ [revision |-> r, active |-> k, versions |-> s] \in Aliases
         /\ DOMAIN s = DOMAIN a.versions
         /\ Len(s) = Len(a.versions)
<1>1. DOMAIN a.versions = 1..Len(a.versions) /\ Len(a.versions) \in 0..MaxVersions
  BY AliasFacts
<1>2. s \in [1..Len(a.versions) -> Entries]
  BY <1>1
<1>3. s \in Seq(Entries) /\ Len(s) = Len(a.versions) /\ DOMAIN s = 1..Len(a.versions)
  BY <1>1, <1>2
<1>4. QED
  BY <1>1, <1>3, AliasIntro, BoundsAssumption

LEMMA ActivatedType ==
  ASSUME NEW a \in Aliases, NEW v \in DOMAIN a.versions
  PROVE  /\ Activated(a, v) \in Aliases
         /\ DOMAIN Activated(a, v).versions = DOMAIN a.versions
         /\ Len(Activated(a, v).versions) = Len(a.versions)
         /\ Activated(a, v).active = v
         /\ Activated(a, v).revision = a.revision + 1
         /\ \A i \in DOMAIN a.versions :
              /\ Activated(a, v).versions[i].content = a.versions[i].content
              /\ Activated(a, v).versions[i].state = "active" <=> i = v
<1> DEFINE s == [i \in DOMAIN a.versions |->
                  [a.versions[i] EXCEPT !.state = IF i = v THEN "active"
                                                  ELSE IF @ = "active" THEN "retired" ELSE @]]
<1>1. ASSUME NEW i \in DOMAIN a.versions
      PROVE  /\ s[i] \in Entries
             /\ s[i].content = a.versions[i].content
             /\ s[i].state = "active" <=> i = v
  BY AliasFacts DEF Entries, Lifecycle
<1>2. s \in [DOMAIN a.versions -> Entries]
  BY <1>1
<1>3. Activated(a, v) = [revision |-> a.revision + 1, active |-> v, versions |-> s]
  BY DEF Activated
<1>4. a.revision + 1 \in Nat /\ v \in 0..MaxVersions
  BY AliasFacts, BoundsAssumption DEF Versions
<1> HIDE DEF s
<1>5. /\ Activated(a, v) \in Aliases
      /\ DOMAIN s = DOMAIN a.versions /\ Len(s) = Len(a.versions)
  BY <1>1, <1>2, <1>3, <1>4, RewrittenVersions
<1>6. QED
  BY <1>1, <1>3, <1>5

LEMMA WithdrawnType ==
  ASSUME NEW a \in Aliases, NEW v \in DOMAIN a.versions
  PROVE  /\ Withdrawn(a, v) \in Aliases
         /\ DOMAIN Withdrawn(a, v).versions = DOMAIN a.versions
         /\ Len(Withdrawn(a, v).versions) = Len(a.versions)
         /\ Withdrawn(a, v).active = IF a.active = v THEN 0 ELSE a.active
         /\ Withdrawn(a, v).revision = a.revision + 1
         /\ \A i \in DOMAIN a.versions :
              /\ Withdrawn(a, v).versions[i].content = a.versions[i].content
              /\ Withdrawn(a, v).versions[i].state =
                   IF i = v THEN "retired" ELSE a.versions[i].state
<1> DEFINE s == [a.versions EXCEPT ![v].state = "retired"]
           k == IF a.active = v THEN 0 ELSE a.active
<1>1. ASSUME NEW i \in DOMAIN a.versions
      PROVE  /\ s[i] \in Entries
             /\ s[i].content = a.versions[i].content
             /\ s[i].state = IF i = v THEN "retired" ELSE a.versions[i].state
  BY AliasFacts DEF Entries, Lifecycle
<1>2. s \in [DOMAIN a.versions -> Entries]
  BY <1>1, AliasFacts
<1>3. Withdrawn(a, v) = [revision |-> a.revision + 1, active |-> k, versions |-> s]
  BY DEF Withdrawn
<1>4. a.revision + 1 \in Nat /\ k \in 0..MaxVersions
  BY AliasFacts, BoundsAssumption
<1> HIDE DEF s
<1>5. /\ Withdrawn(a, v) \in Aliases
      /\ DOMAIN s = DOMAIN a.versions /\ Len(s) = Len(a.versions)
  BY <1>1, <1>2, <1>3, <1>4, RewrittenVersions
<1>6. QED
  BY <1>1, <1>3, <1>5

-----------------------------------------------------------------------------
(* Type correctness. *)

LEMMA NoTelemetryType == NoTelemetry \in Counters
BY BoundsAssumption DEF NoTelemetry, Counters

LEMMA IdleType == Idle \in Operations /\ Idle.stage = "idle"
BY EmptyAliasType, NoTelemetryType, BoundsAssumption DEF Idle, Operation, Operations, Stages

LEMMA StartType ==
  ASSUME NEW stage \in Stages, NEW n \in Names, NEW a \in Aliases,
         NEW v \in DOMAIN a.versions, NEW b \in BOOLEAN
  PROVE  LET o == Operation(stage, b, n, a, v)
         IN  /\ o \in Operations
             /\ o.stage = stage /\ o.name = n /\ o.alias = a /\ o.version = v
<1>1. v \in 0..MaxVersions
  BY AliasFacts, BoundsAssumption DEF Versions
<1>2. QED
  BY <1>1, NoTelemetryType DEF Operation, Operations

(* What a call begins: a reader keeps the alias it loaded, a writer holds    *)
(* the edited alias it is about to store.                                   *)
Appends(n, a, v) ==
  \E p \in Programs, tested \in BOOLEAN :
    /\ Reusable(alias[n], p) = {}
    /\ Latest(alias[n]) < MaxVersions
    /\ a = WithVersion(alias[n], NextContent(alias[n], n, p, tested))
    /\ v = Latest(alias[n]) + 1

Activates(n, a, v) ==
  /\ v \in DOMAIN alias[n].versions
  /\ alias[n].versions[v].content.tested /\ alias[n].active # v
  /\ a = Activated(alias[n], v)

Withdraws(n, a, v) ==
  /\ v \in DOMAIN alias[n].versions /\ ~Retired(alias[n], v)
  /\ a = Withdrawn(alias[n], v)

Loads(t, stage, n, a, v) ==
  \/ stage \in {"index", "counters", "materialize"} /\ a = alias[n]
  \/ stage = "record" /\ Administers(t) /\ Appends(n, a, v)
  \/ stage = "alias" /\ Administers(t) /\ (Activates(n, a, v) \/ Withdraws(n, a, v))

LEMMA CallsBegin ==
  ASSUME TypeOK, NEW t \in Threads, Calls(t)
  PROVE  \E stage \in Stages \ {"idle"}, b \in BOOLEAN, n \in Names, a \in Aliases :
           \E v \in DOMAIN a.versions :
             Begin(t, Operation(stage, b, n, a, v)) /\ Loads(t, stage, n, a, v)
<1> DEFINE Goal == \E stage \in Stages \ {"idle"}, b \in BOOLEAN, n \in Names, a \in Aliases :
                     \E v \in DOMAIN a.versions :
                       Begin(t, Operation(stage, b, n, a, v)) /\ Loads(t, stage, n, a, v)
<1>1. \A n \in Names : alias[n] \in Aliases
  BY DEF TypeOK
<1>2. ASSUME NEW stage \in Stages \ {"idle"}, NEW b \in BOOLEAN, NEW n \in Names,
             NEW a \in Aliases, NEW v \in DOMAIN a.versions,
             Begin(t, Operation(stage, b, n, a, v)), Loads(t, stage, n, a, v)
      PROVE  Goal
  BY <1>2
<1> HIDE DEF Goal
<1>3. CASE RegisterReuse(t)
  <2>1. PICK n \in Names, p \in Programs : \E v \in DOMAIN alias[n].versions :
             Begin(t, StartRegister("index", n, alias[n], v))
    BY <1>3 DEF RegisterReuse
  <2>2. QED
    BY <2>1, <1>1, <1>2 DEF StartRegister, Loads, Stages
<1>4. CASE RegisterNew(t)
  <2>1. PICK n \in Names, p \in Programs, tested \in TestOutcomes :
             LET a == WithVersion(alias[n], NextContent(alias[n], n, p, tested))
             IN  /\ Administers(t)
                 /\ Reusable(alias[n], p) = {}
                 /\ Latest(alias[n]) < MaxVersions
                 /\ Begin(t, StartRegister("record", n, a, Latest(a)))
    BY <1>4 DEF RegisterNew
  <2> DEFINE a == WithVersion(alias[n], NextContent(alias[n], n, p, tested))
  <2>2. tested \in BOOLEAN
    BY BoundsAssumption
  <2>3. NextContent(alias[n], n, p, tested) \in Contents
    BY <1>1, <2>1, <2>2, NextContentType
  <2>4. a \in Aliases /\ Len(a.versions) = Len(alias[n].versions) + 1
    BY <1>1, <2>1, <2>3, WithVersionType
  <2>5. Latest(a) \in DOMAIN a.versions /\ Latest(a) = Latest(alias[n]) + 1
    BY <2>4, <1>1, AliasFacts DEF Latest
  <2>6. Loads(t, "record", n, a, Latest(a))
    BY <2>1, <2>2, <2>5 DEF Loads, Appends
  <2>7. Begin(t, Operation("record", TRUE, n, a, Latest(a)))
    BY <2>1 DEF StartRegister
  <2> HIDE DEF a
  <2>8. QED
    BY <1>2, <2>4, <2>5, <2>6, <2>7 DEF Stages
<1>5. CASE Activate(t)
  <2> DEFINE Target(n, v) ==
               /\ Administers(t)
               /\ alias[n].versions[v].content.tested
               /\ \/ Begin(t, Start("materialize", n, alias[n], v))
                  \/ /\ alias[n].active # v
                     /\ Begin(t, Start("alias", n, Activated(alias[n], v), v))
  <2>0. PICK n \in Names : \E v \in DOMAIN alias[n].versions : Target(n, v)
    BY <1>5 DEF Activate
  <2>1. PICK v \in DOMAIN alias[n].versions : Target(n, v)
    BY <2>0
  <2>2. CASE Begin(t, Start("materialize", n, alias[n], v))
    BY <2>2, <1>1, <1>2 DEF Start, Loads, Stages
  <2>3. CASE /\ alias[n].active # v
             /\ Begin(t, Start("alias", n, Activated(alias[n], v), v))
    <3>1. Activated(alias[n], v) \in Aliases /\ v \in DOMAIN Activated(alias[n], v).versions
      BY <1>1, ActivatedType
    <3>2. Loads(t, "alias", n, Activated(alias[n], v), v)
      BY <2>1, <2>3 DEF Loads, Activates
    <3>3. QED
      BY <2>3, <3>1, <3>2, <1>2 DEF Start, Stages
  <2>4. QED
    BY <2>1, <2>2, <2>3
<1>6. CASE Retire(t)
  <2> DEFINE Target(n, v) ==
               /\ Administers(t)
               /\ \/ Begin(t, Start("materialize", n, alias[n], v))
                  \/ /\ ~Retired(alias[n], v)
                     /\ Begin(t, Start("alias", n, Withdrawn(alias[n], v), v))
  <2>0. PICK n \in Names : \E v \in DOMAIN alias[n].versions : Target(n, v)
    BY <1>6 DEF Retire
  <2>1. PICK v \in DOMAIN alias[n].versions : Target(n, v)
    BY <2>0
  <2>2. CASE Begin(t, Start("materialize", n, alias[n], v))
    BY <2>2, <1>1, <1>2 DEF Start, Loads, Stages
  <2>3. CASE /\ ~Retired(alias[n], v)
             /\ Begin(t, Start("alias", n, Withdrawn(alias[n], v), v))
    <3>1. Withdrawn(alias[n], v) \in Aliases /\ v \in DOMAIN Withdrawn(alias[n], v).versions
      BY <1>1, WithdrawnType
    <3>2. Loads(t, "alias", n, Withdrawn(alias[n], v), v)
      BY <2>1, <2>3 DEF Loads, Withdraws
    <3>3. QED
      BY <2>3, <3>1, <3>2, <1>2 DEF Start, Stages
  <2>4. QED
    BY <2>1, <2>2, <2>3
<1>7. CASE RecordRun(t)
  BY <1>7, <1>1, <1>2 DEF RecordRun, Start, Loads, Stages
<1>8. CASE Get(t)
  BY <1>8, <1>1, <1>2 DEF Get, Start, Loads, Stages
<1>9. CASE EnsureIndexed(t)
  <2>1. PICK n \in Names : /\ Exists(alias[n])
                           /\ Begin(t, Start("index", n, alias[n], Latest(alias[n])))
    BY <1>9 DEF EnsureIndexed
  <2>2. Latest(alias[n]) \in DOMAIN alias[n].versions
    BY <2>1, <1>1, AliasFacts DEF Exists, Latest
  <2>3. QED
    BY <2>1, <2>2, <1>1, <1>2 DEF Start, Loads, Stages
<1>10. QED
  BY <1>3, <1>4, <1>5, <1>6, <1>7, <1>8, <1>9 DEF Calls, Goal

(* An operation of a thread, well typed and with a target. *)
OperationOK(o) ==
  /\ o \in Operations
  /\ o.stage # "idle" => o.name \in Names /\ o.version \in DOMAIN o.alias.versions

LEMMA BeginType ==
  ASSUME TypeOK, NEW t \in Threads, NEW o, OperationOK(o), Begin(t, o)
  PROVE  TypeOK'
BY WorkersAssumption DEF TypeOK, Begin, OperationOK, stored

LEMMA InitType == Init => TypeOK
BY EmptyAliasType, NoTelemetryType, IdleType DEF Init, TypeOK

(* Where an operation that is under way goes next, with the same target. *)
Follows(t, o) ==
  \/ op[t].stage = "record" /\ o.stage = "alias" /\ PutRecord(t)
  \/ op[t].stage = "alias" /\ o.stage \in {"index", "materialize"} /\ PutAlias(t)
  \/ op[t].stage \in {"index", "catalog"} /\ o.stage = "materialize"
  \/ op[t].stage = "index" /\ o.stage = "catalog" /\ o.catalog = index
  \/ /\ op[t].stage = "counters" /\ o.stage = "telemetry" /\ ~Foreign(t)
     /\ o.counters.content = Content(t) /\ o.counters.runs = telemetry[Key(t)].runs + 1

Continues(t, o) ==
  /\ o \in Operations
  /\ o.name = op[t].name /\ o.version = op[t].version /\ o.alias = op[t].alias
  /\ op' = [op EXCEPT ![t] = o]
  /\ lock' = lock
  /\ Follows(t, o)

LEMMA AdvanceContinues ==
  ASSUME TypeOK, NEW t \in Threads, NEW s \in Stages, Advance(t, s)
  PROVE  LET o == [op[t] EXCEPT !.stage = s]
         IN  /\ o \in Operations /\ o.stage = s
             /\ o.name = op[t].name /\ o.version = op[t].version /\ o.alias = op[t].alias
             /\ op' = [op EXCEPT ![t] = o]
             /\ lock' = lock
BY DEF TypeOK, Operations, Advance

LEMMA StepMoves ==
  ASSUME TypeOK, NEW t \in Threads, Steps(t) \/ ReadFails(t) \/ WriteFails(t)
  PROVE  /\ op[t].stage # "idle"
         /\ Put(t) \/ UNCHANGED stored
         /\ End(t) \/ \E o \in Operations : Continues(t, o)
         /\ acked' \in [Names \X Versions -> Nat]
<1> USE DEF Put, PutRecord, PutAlias, PutIndex, PutCounters
<1>0. op[t] \in Operations /\ acked \in [Names \X Versions -> Nat]
  BY DEF TypeOK
<1>1. ASSUME NEW s \in Stages, Advance(t, s), Follows(t, [op[t] EXCEPT !.stage = s])
      PROVE  \E o \in Operations : Continues(t, o)
  BY <1>1, AdvanceContinues DEF Continues
<1>2. ASSUME LeaveIndex(t), op[t].stage \in {"index", "catalog"}
      PROVE  End(t) \/ \E o \in Operations : Continues(t, o)
  BY <1>0, <1>1, <1>2 DEF LeaveIndex, Follows, Operations, Stages
<1>3. CASE WriteRecord(t)
  BY <1>0, <1>1, <1>3 DEF WriteRecord, Follows, Operations, Stages
<1>4. CASE WriteAlias(t)
  BY <1>0, <1>1, <1>4 DEF WriteAlias, Follows, Operations, Stages
<1>5. CASE ReadIndex(t)
  <2>1. CASE op[t].name \in index
    BY <1>0, <1>2, <1>5, <2>1 DEF ReadIndex
  <2>2. CASE op[t].name \notin index
    <3> DEFINE o == [op[t] EXCEPT !.stage = "catalog", !.catalog = index]
    <3>1. o \in Operations /\ o.stage = "catalog" /\ o.catalog = index
          /\ o.name = op[t].name /\ o.version = op[t].version /\ o.alias = op[t].alias
      BY DEF TypeOK, Operations, Stages
    <3>2. op' = [op EXCEPT ![t] = o] /\ lock' = lock
      BY <1>5, <2>2 DEF ReadIndex
    <3>3. Follows(t, o)
      BY <1>5, <3>1 DEF ReadIndex, Follows
    <3>4. QED
      BY <1>0, <1>5, <3>1, <3>2, <3>3 DEF ReadIndex, Continues, stored
  <2>3. QED
    BY <2>1, <2>2
<1>6. CASE WriteIndex(t)
  BY <1>0, <1>2, <1>6 DEF WriteIndex
<1>7. CASE ReadCounters(t)
  <2>1. CASE Foreign(t) \/ telemetry[Key(t)].runs = MaxCounter
    BY <1>0, <1>7, <2>1 DEF ReadCounters
  <2>2. CASE ~(Foreign(t) \/ telemetry[Key(t)].runs = MaxCounter)
    <3> DEFINE k == [content |-> Content(t), runs |-> telemetry[Key(t)].runs + 1]
               o == [op[t] EXCEPT !.stage = "telemetry", !.counters = k]
    <3>1. op[t].alias \in Aliases /\ op[t].version \in DOMAIN op[t].alias.versions
          /\ op[t].name \in Names
      BY <1>7 DEF TypeOK, Operations, ReadCounters
    <3>2. Content(t) \in Contents /\ op[t].version \in Versions
      BY <3>1, AliasFacts DEF Content
    <3>3. telemetry[Key(t)] \in Counters
      BY <3>1, <3>2 DEF TypeOK, Key
    <3>4. k \in Counters
      BY <2>2, <3>2, <3>3, BoundsAssumption DEF Counters
    <3>5. o \in Operations /\ o.stage = "telemetry" /\ o.counters = k
          /\ o.name = op[t].name /\ o.version = op[t].version /\ o.alias = op[t].alias
      BY <1>0, <3>4 DEF Operations, Stages
    <3>6. op' = [op EXCEPT ![t] = o] /\ lock' = lock
      BY <1>7, <2>2 DEF ReadCounters
    <3>7. Follows(t, o)
      BY <1>7, <2>2, <3>5 DEF ReadCounters, Follows
    <3> HIDE DEF o, k
    <3>8. QED
      BY <1>0, <1>7, <3>5, <3>6, <3>7 DEF ReadCounters, Continues, stored
  <2>3. QED
    BY <2>1, <2>2
<1>8. CASE WriteCounters(t)
  <2>1. op[t].version \in Versions /\ op[t].name \in Names
    BY <1>0, <1>8, AliasFacts DEF TypeOK, Operations, WriteCounters
  <2>2. acked' \in [Names \X Versions -> Nat]
    BY <1>0, <1>8, <2>1 DEF WriteCounters, Key
  <2>3. QED
    BY <1>8, <2>2 DEF WriteCounters
<1>9. CASE Materialize(t)
  BY <1>0, <1>9 DEF Materialize
<1>10. CASE ReadFails(t)
  BY <1>0, <1>2, <1>10 DEF ReadFails
<1>11. CASE WriteFails(t)
  BY <1>0, <1>2, <1>11 DEF WriteFails
<1>12. QED
  BY <1>3, <1>4, <1>5, <1>6, <1>7, <1>8, <1>9, <1>10, <1>11 DEF Steps

LEMMA PutType ==
  ASSUME TypeOK, NEW t \in Threads, op[t].stage # "idle", Put(t) \/ UNCHANGED stored
  PROVE  /\ alias' \in [Names -> Aliases]
         /\ records' \subseteq Contents
         /\ telemetry' \in [Names \X Versions -> Counters]
         /\ index' \subseteq Names
<1>1. /\ op[t] \in Operations /\ op[t].name \in Names
      /\ op[t].version \in DOMAIN op[t].alias.versions
  BY DEF TypeOK
<1>2. Content(t) \in Contents /\ op[t].version \in Versions
  BY <1>1, AliasFacts DEF Content, Operations
<1>3. QED
  BY <1>1, <1>2 DEF TypeOK, Put, PutRecord, PutAlias, PutIndex, PutCounters, stored, Key, Operations

LEMMA TypeNext ==
  ASSUME TypeOK, [Next]_vars
  PROVE  TypeOK'
<1>1. ASSUME NEW t \in Threads, Calls(t)
      PROVE  TypeOK'
  <2>1. PICK stage \in Stages \ {"idle"}, b \in BOOLEAN, n \in Names, a \in Aliases :
          \E v \in DOMAIN a.versions : Begin(t, Operation(stage, b, n, a, v))
    BY <1>1, CallsBegin
  <2>2. PICK v \in DOMAIN a.versions : Begin(t, Operation(stage, b, n, a, v))
    BY <2>1
  <2>3. OperationOK(Operation(stage, b, n, a, v))
    BY StartType DEF OperationOK
  <2>4. QED
    BY <2>2, <2>3, BeginType
<1>2. ASSUME NEW t \in Threads, Steps(t) \/ ReadFails(t) \/ WriteFails(t)
      PROVE  TypeOK'
  <2>1. /\ op[t].stage # "idle"
        /\ Put(t) \/ UNCHANGED stored
        /\ End(t) \/ \E o \in Operations : Continues(t, o)
        /\ acked' \in [Names \X Versions -> Nat]
    BY <1>2, StepMoves
  <2>2. CASE End(t)
    BY <2>1, <2>2, PutType, IdleType, WorkersAssumption DEF TypeOK, End
  <2>3. ASSUME NEW o \in Operations, Continues(t, o)
        PROVE  TypeOK'
    BY <2>1, <2>3, PutType DEF TypeOK, Continues
  <2>4. QED
    BY <2>1, <2>2, <2>3
<1>3. ASSUME NEW w \in Workers, Crash(w)
      PROVE  TypeOK'
  BY <1>3, IdleType DEF TypeOK, Crash, stored
<1>4. CASE UNCHANGED vars
  BY <1>4 DEF TypeOK, vars, stored
<1>5. QED
  BY <1>1, <1>2, <1>3, <1>4 DEF Next

(* Type correctness, for any number of workers and under every failure. *)
THEOREM TypeCorrect == Spec => []TypeOK
<1>1. TypeOK /\ [Next]_vars => TypeOK'
  BY TypeNext
<1>2. QED
  BY <1>1, InitType, PTL DEF Spec

-----------------------------------------------------------------------------
(* Every alias, stored or about to be stored, is well formed, serves only a *)
(* tested version and names records that exist; only a register that has    *)
(* not written its record yet holds an alias with one record missing.       *)

AliasSound(n, a) ==
  /\ WellFormed(a)
  /\ \A v \in DOMAIN a.versions :
       /\ a.versions[v].content.name = n
       /\ a.active = v => a.versions[v].content.tested

AliasInv ==
  /\ \A n \in Names :
       /\ AliasSound(n, alias[n])
       /\ \A v \in DOMAIN alias[n].versions : alias[n].versions[v].content \in records
  /\ \A t \in Threads : op[t].stage # "idle" =>
       /\ AliasSound(op[t].name, op[t].alias)
       /\ \A v \in DOMAIN op[t].alias.versions :
            \/ op[t].alias.versions[v].content \in records
            \/ op[t].stage = "record" /\ v = op[t].version

LEMMA WithVersionSound ==
  ASSUME NEW n \in Names, NEW a \in Aliases, AliasSound(n, a), Latest(a) < MaxVersions,
         NEW p \in Programs, NEW tested \in BOOLEAN
  PROVE  AliasSound(n, WithVersion(a, NextContent(a, n, p, tested)))
<1> DEFINE c == NextContent(a, n, p, tested)
           b == WithVersion(a, c)
<1>1. c \in Contents
  BY NextContentType
<1>2. /\ b \in Aliases
      /\ Len(b.versions) = Len(a.versions) + 1
      /\ b.active = a.active
      /\ b.revision = c.revision
      /\ \A v \in DOMAIN a.versions : b.versions[v] = a.versions[v]
      /\ b.versions[Len(a.versions) + 1] = [content |-> c, state |-> "draft"]
  BY <1>1, WithVersionType
<1>3. c.name = n /\ c.version = Len(a.versions) + 1 /\ c.revision = a.revision + 1
  BY DEF NextContent, Latest
<1>4. /\ DOMAIN a.versions = 1..Len(a.versions) /\ Len(a.versions) \in Nat
      /\ DOMAIN b.versions = 1..(Len(a.versions) + 1)
      /\ a.revision \in Nat
  BY <1>2, AliasFacts
<1> HIDE DEF b, c
<1>5. ASSUME NEW v \in DOMAIN b.versions
      PROVE  /\ b.versions[v].content.name = n
             /\ b.active = v => b.versions[v].content.tested
             /\ b.versions[v].content.version = v
             /\ b.versions[v].content.revision \in 1..b.revision
             /\ b.versions[v].state = "active" <=> b.active = v
  <2>1. CASE v \in DOMAIN a.versions
    <3>1. /\ b.versions[v] = a.versions[v]
          /\ a.versions[v].content.name = n
          /\ a.active = v => a.versions[v].content.tested
          /\ a.versions[v].content.version = v
          /\ a.versions[v].content.revision \in 1..a.revision
          /\ a.versions[v].state = "active" <=> a.active = v
      BY <2>1, <1>2 DEF AliasSound, WellFormed
    <3>2. b.revision = a.revision + 1
      BY <1>2, <1>3
    <3>3. QED
      BY <3>1, <3>2, <1>2, <1>4
  <2>2. CASE v = Len(a.versions) + 1
    <3>1. b.versions[v].content = c /\ b.versions[v].state = "draft"
      BY <2>2, <1>2
    <3>2. b.active # v
      BY <2>2, <1>2, <1>4 DEF AliasSound, WellFormed
    <3>3. b.versions[v].content.revision \in 1..b.revision
      BY <3>1, <1>2, <1>3, <1>4
    <3>4. QED
      BY <2>2, <3>1, <3>2, <3>3, <1>3
  <2>3. QED
    BY <2>1, <2>2, <1>4
<1>6. b.active \in {0} \cup DOMAIN b.versions
  BY <1>2, <1>4 DEF AliasSound, WellFormed
<1>7. AliasSound(n, b)
  BY <1>5, <1>6 DEF AliasSound, WellFormed
<1>8. QED
  BY <1>7 DEF b, c

LEMMA ActivatedSound ==
  ASSUME NEW n \in Names, NEW a \in Aliases, AliasSound(n, a),
         NEW v \in DOMAIN a.versions, a.versions[v].content.tested
  PROVE  AliasSound(n, Activated(a, v))
<1> DEFINE b == Activated(a, v)
<1>1. /\ DOMAIN b.versions = DOMAIN a.versions
      /\ b.active = v
      /\ b.revision = a.revision + 1
      /\ \A i \in DOMAIN a.versions :
           /\ b.versions[i].content = a.versions[i].content
           /\ b.versions[i].state = "active" <=> i = v
  BY ActivatedType
<1>2. a.revision \in Nat
  BY AliasFacts
<1> HIDE DEF b
<1>3. AliasSound(n, b)
  BY <1>1, <1>2 DEF AliasSound, WellFormed
<1>4. QED
  BY <1>3 DEF b

LEMMA WithdrawnSound ==
  ASSUME NEW n \in Names, NEW a \in Aliases, AliasSound(n, a), NEW v \in DOMAIN a.versions
  PROVE  AliasSound(n, Withdrawn(a, v))
<1> DEFINE b == Withdrawn(a, v)
<1>1. /\ DOMAIN b.versions = DOMAIN a.versions
      /\ b.active = IF a.active = v THEN 0 ELSE a.active
      /\ b.revision = a.revision + 1
      /\ \A i \in DOMAIN a.versions :
           /\ b.versions[i].content = a.versions[i].content
           /\ b.versions[i].state = IF i = v THEN "retired" ELSE a.versions[i].state
  BY WithdrawnType
<1>2. /\ a.revision \in Nat /\ DOMAIN a.versions = 1..Len(a.versions)
      /\ Len(a.versions) \in Nat
  BY AliasFacts
<1> HIDE DEF b
<1>3. ASSUME NEW i \in DOMAIN b.versions
      PROVE  /\ b.versions[i].content.name = n
             /\ b.active = i => b.versions[i].content.tested
             /\ b.versions[i].content.version = i
             /\ b.versions[i].content.revision \in 1..b.revision
             /\ b.versions[i].state = "active" <=> b.active = i
  <2>1. /\ b.versions[i].content = a.versions[i].content
        /\ a.versions[i].content.name = n
        /\ a.active = i => a.versions[i].content.tested
        /\ a.versions[i].content.version = i
        /\ a.versions[i].content.revision \in 1..a.revision
        /\ a.versions[i].state = "active" <=> a.active = i
    BY <1>1 DEF AliasSound, WellFormed
  <2>2. i # 0
    BY <1>1, <1>2
  <2>3. b.active = i <=> a.active = i /\ i # v
    BY <1>1, <2>2
  <2>4. b.versions[i].state = "active" <=> b.active = i
    BY <1>1, <2>1, <2>3
  <2>5. QED
    BY <1>1, <1>2, <2>1, <2>3, <2>4
<1>4. b.active \in {0} \cup DOMAIN b.versions
  BY <1>1 DEF AliasSound, WellFormed
<1>5. AliasSound(n, b)
  BY <1>3, <1>4 DEF AliasSound, WellFormed
<1>6. QED
  BY <1>5 DEF b

(* The alias a call holds after its load and edit. *)
LEMMA LoadsSound ==
  ASSUME TypeOK, AliasInv, NEW t \in Threads, NEW stage \in Stages, NEW n \in Names,
         NEW a \in Aliases, NEW v \in DOMAIN a.versions, Loads(t, stage, n, a, v)
  PROVE  /\ AliasSound(n, a)
         /\ \A i \in DOMAIN a.versions :
              \/ a.versions[i].content \in records
              \/ stage = "record" /\ i = v
         /\ \A i \in DOMAIN alias[n].versions :
              /\ i \in DOMAIN a.versions
              /\ a.versions[i].content = alias[n].versions[i].content
<1>1. /\ alias[n] \in Aliases /\ AliasSound(n, alias[n])
      /\ \A i \in DOMAIN alias[n].versions : alias[n].versions[i].content \in records
  BY DEF TypeOK, AliasInv
<1>2. CASE stage \in {"index", "counters", "materialize"} /\ a = alias[n]
  BY <1>1, <1>2
<1>3. CASE stage = "record" /\ Appends(n, a, v)
  <2>1. PICK p \in Programs, tested \in BOOLEAN :
          /\ Latest(alias[n]) < MaxVersions
          /\ a = WithVersion(alias[n], NextContent(alias[n], n, p, tested))
          /\ v = Latest(alias[n]) + 1
    BY <1>3 DEF Appends
  <2>2. NextContent(alias[n], n, p, tested) \in Contents
    BY <1>1, <2>1, NextContentType
  <2>3. /\ Len(a.versions) = Len(alias[n].versions) + 1
        /\ \A i \in DOMAIN alias[n].versions : a.versions[i] = alias[n].versions[i]
    BY <1>1, <2>1, <2>2, WithVersionType
  <2>4. /\ DOMAIN a.versions = 1..Len(a.versions)
        /\ DOMAIN alias[n].versions = 1..Len(alias[n].versions)
        /\ Len(alias[n].versions) \in Nat
    BY <1>1, AliasFacts
  <2>5. AliasSound(n, a)
    BY <1>1, <2>1, WithVersionSound
  <2>6. \A i \in DOMAIN a.versions : i \in DOMAIN alias[n].versions \/ i = v
    BY <2>1, <2>3, <2>4 DEF Latest
  <2>7. \A i \in DOMAIN alias[n].versions : i \in DOMAIN a.versions
    BY <2>3, <2>4
  <2>8. \A i \in DOMAIN a.versions : a.versions[i].content \in records \/ i = v
    BY <1>1, <2>3, <2>6
  <2>9. QED
    BY <1>3, <2>3, <2>5, <2>7, <2>8
<1>4. CASE Activates(n, a, v)
  <2>1. AliasSound(n, a)
    BY <1>1, <1>4, ActivatedSound DEF Activates
  <2>2. /\ DOMAIN a.versions = DOMAIN alias[n].versions
        /\ \A i \in DOMAIN a.versions : a.versions[i].content = alias[n].versions[i].content
    BY <1>1, <1>4, ActivatedType DEF Activates
  <2>3. QED
    BY <1>1, <2>1, <2>2
<1>5. CASE Withdraws(n, a, v)
  <2>1. AliasSound(n, a)
    BY <1>1, <1>5, WithdrawnSound DEF Withdraws
  <2>2. /\ DOMAIN a.versions = DOMAIN alias[n].versions
        /\ \A i \in DOMAIN a.versions : a.versions[i].content = alias[n].versions[i].content
    BY <1>1, <1>5, WithdrawnType DEF Withdraws
  <2>3. QED
    BY <1>1, <2>1, <2>2
<1>6. QED
  BY <1>2, <1>3, <1>4, <1>5 DEF Loads

LEMMA InitAliasInv == Init => AliasInv
BY DEF Init, AliasInv, AliasSound, WellFormed, EmptyAlias, Idle, Operation

LEMMA AliasInvNext ==
  ASSUME TypeOK, AliasInv, [Next]_vars
  PROVE  AliasInv'
<1>1. ASSUME NEW t \in Threads, Calls(t)
      PROVE  AliasInv'
  <2>1. PICK stage \in Stages \ {"idle"}, b \in BOOLEAN, n \in Names, a \in Aliases :
          \E v \in DOMAIN a.versions :
            Begin(t, Operation(stage, b, n, a, v)) /\ Loads(t, stage, n, a, v)
    BY <1>1, CallsBegin
  <2>2. PICK v \in DOMAIN a.versions :
            Begin(t, Operation(stage, b, n, a, v)) /\ Loads(t, stage, n, a, v)
    BY <2>1
  <2> DEFINE o == Operation(stage, b, n, a, v)
  <2>3. o.stage = stage /\ o.name = n /\ o.alias = a /\ o.version = v
    BY StartType
  <2>4. /\ AliasSound(n, a)
        /\ \A i \in DOMAIN a.versions :
             \/ a.versions[i].content \in records
             \/ stage = "record" /\ i = v
    BY <2>2, LoadsSound
  <2>5. op' = [op EXCEPT ![t] = o] /\ UNCHANGED <<alias, records>>
    BY <2>2 DEF Begin, stored
  <2> HIDE DEF o
  <2>6. QED
    BY <2>3, <2>4, <2>5 DEF AliasInv, TypeOK
<1>2. ASSUME NEW t \in Threads, Steps(t) \/ ReadFails(t) \/ WriteFails(t)
      PROVE  AliasInv'
  <2>1. /\ op[t].stage # "idle"
        /\ Put(t) \/ UNCHANGED stored
        /\ End(t) \/ \E o \in Operations : Continues(t, o)
    BY <1>2, StepMoves
  <2>2. op[t].name \in Names /\ op[t].version \in DOMAIN op[t].alias.versions
    BY <2>1 DEF TypeOK
  <2>3. records \subseteq records' /\ (op[t].stage = "record" /\ PutRecord(t) => Content(t) \in records')
    BY <2>1 DEF Put, PutRecord, PutAlias, PutIndex, PutCounters, stored
  <2>4. \/ UNCHANGED alias
        \/ op[t].stage = "alias" /\ alias' = [alias EXCEPT ![op[t].name] = op[t].alias]
    BY <2>1 DEF Put, PutRecord, PutAlias, PutIndex, PutCounters, stored
  <2>5. \A n \in Names :
          /\ AliasSound(n, alias'[n])
          /\ \A v \in DOMAIN alias'[n].versions : alias'[n].versions[v].content \in records'
    BY <2>2, <2>3, <2>4 DEF AliasInv, TypeOK
  <2>6. CASE End(t)
    BY <2>3, <2>5, <2>6, IdleType DEF AliasInv, End, TypeOK
  <2>7. ASSUME NEW o \in Operations, Continues(t, o)
        PROVE  AliasInv'
    <3>1. /\ o.name = op[t].name /\ o.version = op[t].version /\ o.alias = op[t].alias
          /\ op' = [op EXCEPT ![t] = o]
          /\ o.stage # "record"
          /\ op[t].stage = "record" => PutRecord(t)
      BY <2>7 DEF Continues, Follows
    <3>2. \A v \in DOMAIN o.alias.versions : o.alias.versions[v].content \in records'
      BY <2>1, <2>3, <3>1 DEF AliasInv, Content
    <3>3. AliasSound(o.name, o.alias)
      BY <2>1, <3>1 DEF AliasInv
    <3>4. QED
      BY <2>3, <2>5, <3>1, <3>2, <3>3 DEF AliasInv, TypeOK
  <2>8. QED
    BY <2>1, <2>6, <2>7
<1>3. ASSUME NEW w \in Workers, Crash(w)
      PROVE  AliasInv'
  BY <1>3, IdleType DEF AliasInv, Crash, stored, TypeOK
<1>4. CASE UNCHANGED vars
  BY <1>4 DEF AliasInv, vars, stored
<1>5. QED
  BY <1>1, <1>2, <1>3, <1>4 DEF Next

THEOREM AliasInvariant == Spec => []AliasInv
<1>1. TypeOK /\ AliasInv /\ [Next]_vars => AliasInv'
  BY AliasInvNext
<1>2. QED
  BY <1>1, InitAliasInv, TypeCorrect, PTL DEF Spec

(* However many workers race and wherever they crash, a stored version has  *)
(* its record under its own identity.                                       *)
THEOREM RecordsPrecedeAliases == Spec => []EveryEntryHasItsRecord
<1>1. AliasInv => EveryEntryHasItsRecord
  BY DEF AliasInv, AliasSound, WellFormed, EveryEntryHasItsRecord
<1>2. QED
  BY <1>1, AliasInvariant, PTL

(* No stored alias is ever one the code calls corrupted, and what it serves *)
(* passed its tests: racing workers lose updates, never well-formedness.    *)
THEOREM AliasesStayWellFormed == Spec => []AliasesWellFormed
<1>1. AliasInv => AliasesWellFormed
  BY DEF AliasInv, AliasSound, AliasesWellFormed
<1>2. QED
  BY <1>1, AliasInvariant, PTL

-----------------------------------------------------------------------------
(* One administrative writer.  The threads that may edit aliases share one  *)
(* worker, hence one lock: an alias cannot change between a writer's load   *)
(* and its write, and readers elsewhere only ever see aliases that grow.    *)

SingleAdministrator ==
  \A t, u \in Threads : Administers(t) /\ Administers(u) => WorkerOf[t] = WorkerOf[u]

KeepsVersions(a, b) ==
  \A v \in DOMAIN a.versions :
    /\ v \in DOMAIN b.versions
    /\ b.versions[v].content = a.versions[v].content

(* An operation has the lock; a writer's alias extends the stored one, the  *)
(* stored one extends a reader's; counters belong to the version stored.    *)
LockInv == \A t \in Threads : op[t].stage # "idle" => lock[WorkerOf[t]] = t

FreshInv ==
  \A t \in Threads : op[t].stage # "idle" =>
    IF op[t].stage \in {"record", "alias"}
    THEN Administers(t) /\ KeepsVersions(alias[op[t].name], op[t].alias)
    ELSE KeepsVersions(op[t].alias, alias[op[t].name])

CountersInv ==
  /\ \A n \in Names, v \in Versions : telemetry[<<n, v>>].content # Absent =>
       /\ v \in DOMAIN alias[n].versions
       /\ telemetry[<<n, v>>].content = alias[n].versions[v].content
  /\ \A t \in Threads : op[t].stage = "telemetry" => op[t].counters.content = Content(t)

SerialInv == LockInv /\ FreshInv /\ CountersInv

(* What a step of an operation does to the stored aliases: nothing, or it   *)
(* extends one, and then no other writer is under way.                      *)
LEMMA StepExtends ==
  ASSUME SingleAdministrator, TypeOK, SerialInv, NEW t \in Threads,
         op[t].stage # "idle", Put(t) \/ UNCHANGED stored
  PROVE  /\ \A n \in Names : KeepsVersions(alias[n], alias'[n])
         /\ \A u \in Threads \ {t} : op[u].stage \in {"record", "alias"} => UNCHANGED alias
         /\ op[t].stage = "record" => UNCHANGED alias
         /\ PutAlias(t) => alias'[op[t].name] = op[t].alias
<1>1. \/ UNCHANGED alias
      \/ op[t].stage = "alias" /\ alias' = [alias EXCEPT ![op[t].name] = op[t].alias]
  BY DEF Put, PutRecord, PutAlias, PutIndex, PutCounters, stored
<1>2. op[t].name \in Names
  BY DEF TypeOK
<1>3. \A n \in Names : KeepsVersions(alias[n], alias[n])
  BY DEF KeepsVersions
<1>4. \A n \in Names : KeepsVersions(alias[n], alias'[n])
  BY <1>1, <1>2, <1>3 DEF SerialInv, FreshInv, TypeOK
<1>5. ASSUME NEW u \in Threads \ {t}, op[u].stage \in {"record", "alias"}, op[t].stage = "alias"
      PROVE  FALSE
  <2>1. WorkerOf[t] = WorkerOf[u]
    BY <1>5 DEF SerialInv, FreshInv, SingleAdministrator
  <2>2. lock[WorkerOf[t]] = t /\ lock[WorkerOf[u]] = u
    BY <1>5 DEF SerialInv, LockInv
  <2>3. QED
    BY <2>1, <2>2
<1>6. QED
  BY <1>1, <1>2, <1>4, <1>5 DEF PutAlias, TypeOK

LEMMA InitSerial == Init => SerialInv
BY DEF Init, SerialInv, LockInv, FreshInv, CountersInv, Idle, Operation, NoTelemetry

LEMMA CallSerial ==
  ASSUME TypeOK, AliasInv, SerialInv, NEW t \in Threads, Calls(t)
  PROVE  SerialInv' /\ UNCHANGED stored
<1>1. PICK stage \in Stages \ {"idle"}, b \in BOOLEAN, n \in Names, a \in Aliases :
        \E v \in DOMAIN a.versions :
          Begin(t, Operation(stage, b, n, a, v)) /\ Loads(t, stage, n, a, v)
  BY CallsBegin
<1>2. PICK v \in DOMAIN a.versions :
          Begin(t, Operation(stage, b, n, a, v)) /\ Loads(t, stage, n, a, v)
  BY <1>1
<1> DEFINE o == Operation(stage, b, n, a, v)
<1>3. o.stage = stage /\ o.name = n /\ o.alias = a /\ o.version = v
  BY StartType
<1>4. /\ op' = [op EXCEPT ![t] = o] /\ UNCHANGED stored
      /\ lock[WorkerOf[t]] = Absent /\ lock' = [lock EXCEPT ![WorkerOf[t]] = t]
  BY <1>2 DEF Begin
<1> HIDE DEF o
<1>5. LockInv'
  <2>1. \A u \in Threads \ {t} : op[u].stage # "idle" => WorkerOf[u] # WorkerOf[t]
    BY <1>4, AbsentAssumption DEF SerialInv, LockInv
  <2>2. QED
    BY <1>4, <2>1, WorkersAssumption DEF SerialInv, LockInv, TypeOK
<1>6. /\ stage \in {"record", "alias"} => Administers(t) /\ KeepsVersions(alias[n], a)
      /\ stage \notin {"record", "alias"} => KeepsVersions(a, alias[n])
  <2>1. KeepsVersions(alias[n], a)
    BY <1>2, LoadsSound DEF KeepsVersions
  <2>2. stage \notin {"record", "alias"} => a = alias[n]
    BY <1>2 DEF Loads
  <2>3. stage \in {"record", "alias"} => Administers(t)
    BY <1>2 DEF Loads
  <2>4. QED
    BY <2>1, <2>2, <2>3 DEF KeepsVersions
<1>7. FreshInv'
  BY <1>3, <1>4, <1>6 DEF SerialInv, FreshInv, TypeOK, stored, Administers
<1>8. CountersInv'
  <2>1. stage # "telemetry"
    BY <1>2 DEF Loads
  <2>2. \A u \in Threads \ {t} : op'[u] = op[u]
    BY <1>4 DEF TypeOK
  <2>3. op'[t].stage # "telemetry"
    BY <1>3, <1>4, <2>1 DEF TypeOK
  <2>4. QED
    BY <1>4, <2>2, <2>3 DEF SerialInv, CountersInv, stored, Content
<1>9. QED
  BY <1>4, <1>5, <1>7, <1>8 DEF SerialInv

LEMMA StepSerial ==
  ASSUME SingleAdministrator, TypeOK, SerialInv, NEW t \in Threads,
         Steps(t) \/ ReadFails(t) \/ WriteFails(t)
  PROVE  SerialInv'
<1>1. /\ op[t].stage # "idle"
      /\ Put(t) \/ UNCHANGED stored
      /\ End(t) \/ \E o \in Operations : Continues(t, o)
  BY StepMoves
<1>2. /\ \A n \in Names : KeepsVersions(alias[n], alias'[n])
      /\ \A u \in Threads \ {t} : op[u].stage \in {"record", "alias"} => UNCHANGED alias
      /\ op[t].stage = "record" => UNCHANGED alias
      /\ PutAlias(t) => alias'[op[t].name] = op[t].alias
  BY <1>1, StepExtends
<1>3. \A u \in Threads \ {t} : op'[u] = op[u]
  BY <1>1 DEF End, Continues, TypeOK
<1>4. op'[t].stage = "idle" \/ \E o \in Operations : Continues(t, o) /\ op'[t] = o
  BY <1>1, IdleType DEF End, Continues, TypeOK
<1>5. LockInv'
  <2>1. \A u \in Threads \ {t} : op[u].stage # "idle" => WorkerOf[u] # WorkerOf[t]
    BY <1>1 DEF SerialInv, LockInv
  <2>2. \A w \in Workers \ {WorkerOf[t]} : lock'[w] = lock[w]
    BY <1>1 DEF End, Continues, TypeOK
  <2>3. op'[t].stage # "idle" => lock' = lock
    BY <1>1, IdleType DEF End, Continues, TypeOK
  <2>4. ASSUME NEW u \in Threads, op'[u].stage # "idle"
        PROVE  lock'[WorkerOf[u]] = u
    <3>1. CASE u = t
      BY <3>1, <2>3, <2>4, <1>1 DEF SerialInv, LockInv
    <3>2. CASE u # t
      BY <3>2, <2>1, <2>2, <2>4, <1>3, WorkersAssumption DEF SerialInv, LockInv
    <3>3. QED
      BY <3>1, <3>2
  <2>5. QED
    BY <2>4 DEF LockInv
<1>6. \A a : \A n \in Names : KeepsVersions(a, alias[n]) => KeepsVersions(a, alias'[n])
  BY <1>2 DEF KeepsVersions
<1>7. ASSUME NEW u \in Threads \ {t}, op'[u].stage # "idle"
      PROVE  IF op'[u].stage \in {"record", "alias"}
             THEN Administers(u) /\ KeepsVersions(alias'[op'[u].name], op'[u].alias)
             ELSE KeepsVersions(op'[u].alias, alias'[op'[u].name])
  <2>1. op'[u] = op[u] /\ op[u].name \in Names
    BY <1>3, <1>7 DEF TypeOK
  <2>2. QED
    BY <2>1, <1>2, <1>6, <1>7 DEF SerialInv, FreshInv
<1>8. ASSUME op'[t].stage # "idle"
      PROVE  IF op'[t].stage \in {"record", "alias"}
             THEN Administers(t) /\ KeepsVersions(alias'[op'[t].name], op'[t].alias)
             ELSE KeepsVersions(op'[t].alias, alias'[op'[t].name])
  <2>1. PICK o \in Operations : Continues(t, o) /\ op'[t] = o
    BY <1>4, <1>8
  <2>2. /\ o.name = op[t].name /\ o.alias = op[t].alias /\ Follows(t, o)
        /\ op[t].name \in Names
    BY <2>1, <1>1 DEF Continues, TypeOK
  <2>3. CASE op[t].stage = "record" /\ o.stage = "alias"
    BY <1>1, <1>2, <2>1, <2>2, <2>3 DEF SerialInv, FreshInv
  <2>4. CASE op[t].stage = "alias" /\ o.stage \in {"index", "materialize"} /\ PutAlias(t)
    BY <1>2, <2>1, <2>2, <2>4 DEF KeepsVersions
  <2>5. CASE op[t].stage \notin {"record", "alias"} /\ o.stage \notin {"record", "alias"}
    BY <1>1, <1>6, <2>1, <2>2, <2>5 DEF SerialInv, FreshInv
  <2>6. QED
    BY <2>2, <2>3, <2>4, <2>5 DEF Follows
<1>9. FreshInv'
  BY <1>7, <1>8 DEF FreshInv, Administers
<1>10. ASSUME NEW n \in Names, NEW v \in Versions, telemetry'[<<n, v>>].content # Absent
       PROVE  /\ v \in DOMAIN alias'[n].versions
              /\ telemetry'[<<n, v>>].content = alias'[n].versions[v].content
  <2>1. CASE telemetry'[<<n, v>>] = telemetry[<<n, v>>]
    BY <1>2, <1>10, <2>1 DEF SerialInv, CountersInv, KeepsVersions
  <2>2. CASE telemetry'[<<n, v>>] # telemetry[<<n, v>>]
    <3>1. PutCounters(t)
      BY <1>1, <2>2 DEF Put, PutRecord, PutAlias, PutIndex, stored
    <3>2. n = op[t].name /\ v = op[t].version /\ telemetry'[<<n, v>>] = op[t].counters
      BY <3>1, <2>2 DEF PutCounters, Key, TypeOK
    <3>3. /\ op[t].counters.content = op[t].alias.versions[v].content
          /\ v \in DOMAIN op[t].alias.versions
          /\ KeepsVersions(op[t].alias, alias[n])
      BY <1>1, <3>1, <3>2 DEF SerialInv, CountersInv, FreshInv, PutCounters, Content, TypeOK
    <3>4. alias' = alias
      BY <3>1 DEF PutCounters
    <3>5. QED
      BY <3>2, <3>3, <3>4 DEF KeepsVersions
  <2>3. QED
    BY <2>1, <2>2
<1>11. ASSUME NEW u \in Threads, op'[u].stage = "telemetry"
       PROVE  op'[u].counters.content = Content(u)'
  <2>1. CASE u # t
    BY <2>1, <1>3, <1>11 DEF SerialInv, CountersInv, Content
  <2>2. CASE u = t
    BY <2>2, <1>4, <1>11 DEF Continues, Follows, Content
  <2>3. QED
    BY <2>1, <2>2
<1>12. CountersInv'
  BY <1>10, <1>11 DEF CountersInv
<1>13. QED
  BY <1>5, <1>9, <1>12 DEF SerialInv

LEMMA SerialNext ==
  ASSUME SingleAdministrator, TypeOK, AliasInv, SerialInv, [Next]_vars
  PROVE  SerialInv' /\ \A n \in Names : KeepsVersions(alias[n], alias'[n])
<1>0. UNCHANGED alias => \A n \in Names : KeepsVersions(alias[n], alias'[n])
  BY DEF KeepsVersions
<1> DEFINE Goal == SerialInv' /\ \A n \in Names : KeepsVersions(alias[n], alias'[n])
<1>1. ASSUME NEW t \in Threads, Calls(t)
      PROVE  Goal
  BY <1>0, <1>1, CallSerial DEF stored
<1>2. ASSUME NEW t \in Threads, Steps(t) \/ ReadFails(t) \/ WriteFails(t)
      PROVE  Goal
  <2>1. op[t].stage # "idle" /\ (Put(t) \/ UNCHANGED stored)
    BY <1>2, StepMoves
  <2>2. \A n \in Names : KeepsVersions(alias[n], alias'[n])
    BY <2>1, StepExtends
  <2>3. SerialInv'
    BY <1>2, StepSerial
  <2>4. QED
    BY <2>2, <2>3
<1>3. ASSUME NEW w \in Workers, Crash(w)
      PROVE  Goal
  <2>1. /\ UNCHANGED stored
        /\ \A t \in Threads : op'[t] = IF WorkerOf[t] = w THEN Idle ELSE op[t]
        /\ \A x \in Workers \ {w} : lock'[x] = lock[x]
    BY <1>3 DEF Crash, TypeOK
  <2>2. LockInv'
    BY <2>1, IdleType, WorkersAssumption DEF SerialInv, LockInv
  <2>3. FreshInv'
    BY <2>1, IdleType DEF SerialInv, FreshInv, Administers, stored
  <2>4. CountersInv'
    BY <2>1, IdleType DEF SerialInv, CountersInv, Content, stored
  <2>5. QED
    BY <1>0, <2>1, <2>2, <2>3, <2>4 DEF SerialInv, stored
<1>4. ASSUME UNCHANGED vars
      PROVE  Goal
  BY <1>0, <1>4 DEF SerialInv, LockInv, FreshInv, CountersInv, Administers, Content, vars, stored
<1> HIDE DEF Goal
<1>5. Goal
  BY <1>1, <1>2, <1>3, <1>4 DEF Next
<1>6. QED
  BY <1>5 DEF Goal

THEOREM SerialInvariant ==
  ASSUME SingleAdministrator
  PROVE  Spec => []SerialInv
<1>1. TypeOK /\ AliasInv /\ SerialInv /\ [Next]_vars => SerialInv'
  BY SerialNext
<1>2. QED
  BY <1>1, InitSerial, TypeCorrect, AliasInvariant, PTL DEF Spec

(* With one administrative worker no stored version is ever lost or         *)
(* replaced, whatever the other workers record, read, or crash in.          *)
THEOREM VersionsKept ==
  ASSUME SingleAdministrator
  PROVE  Spec => VersionsAppendOnly
<1>1. TypeOK /\ AliasInv /\ SerialInv /\ [Next]_vars =>
        [\A n \in Names : \A v \in DOMAIN alias[n].versions :
           /\ v \in DOMAIN alias'[n].versions
           /\ alias'[n].versions[v].content = alias[n].versions[v].content]_vars
  BY SerialNext DEF KeepsVersions
<1>2. QED
  BY <1>1, TypeCorrect, AliasInvariant, SerialInvariant, PTL DEF Spec, VersionsAppendOnly

(* With one administrative worker no reader, in any worker, ever takes a    *)
(* version's record or its counters for corrupted.                          *)
THEOREM ReadsSound ==
  ASSUME SingleAdministrator
  PROVE  Spec => []NoFalseCorruption
<1>1. ASSUME TypeOK, AliasInv, SerialInv
      PROVE  NoFalseCorruption
  <2>1. SUFFICES ASSUME NEW t \in Threads, op[t].stage \in {"counters", "materialize"}
                 PROVE  Content(t) \in records /\ ~Foreign(t)
    BY DEF NoFalseCorruption
  <2>2. /\ op[t].name \in Names /\ op[t].alias \in Aliases
        /\ op[t].version \in DOMAIN op[t].alias.versions
    BY <1>1, <2>1 DEF TypeOK, Operations
  <2>3. op[t].version \in Versions
    BY <2>2, AliasFacts
  <2>4. Content(t) \in records
    BY <1>1, <2>1, <2>2 DEF AliasInv, Content
  <2>5. KeepsVersions(op[t].alias, alias[op[t].name])
    BY <1>1, <2>1 DEF SerialInv, FreshInv
  <2>6. Content(t) = alias[op[t].name].versions[op[t].version].content
    BY <2>2, <2>5 DEF KeepsVersions, Content
  <2>7. QED
    BY <1>1, <2>2, <2>3, <2>4, <2>6 DEF SerialInv, CountersInv, Foreign, Key
<1>2. TypeOK /\ AliasInv /\ SerialInv => NoFalseCorruption
  BY <1>1
<1>3. QED
  BY <1>2, TypeCorrect, AliasInvariant, SerialInvariant, PTL
=============================================================================
