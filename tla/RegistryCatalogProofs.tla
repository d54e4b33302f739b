------------------------ MODULE RegistryCatalogProofs ------------------------
(***************************************************************************)
(* More theorems about Registry.tla: the index, the counters, and that the  *)
(* registry implements Catalog.tla.                                         *)
(***************************************************************************)
EXTENDS RegistryProofs

-----------------------------------------------------------------------------
(* The index.  A name is only ever indexed by an operation that found or    *)
(* stored a version of it, and a name with versions never becomes empty,    *)
(* even where racing workers overwrite each other's aliases.                *)

IndexInv ==
  /\ \A n \in index : Exists(alias[n])
  /\ \A t \in Threads :
       /\ op[t].stage \in {"index", "catalog"} => Exists(alias[op[t].name])
       /\ op[t].stage = "catalog" => \A n \in op[t].catalog : Exists(alias[n])

LEMMA InitIndex == Init => IndexInv
BY IdleType DEF Init, IndexInv

LEMMA ExistsByVersion ==
  ASSUME NEW a \in Aliases, NEW v \in DOMAIN a.versions
  PROVE  Exists(a)
BY AliasFacts DEF Exists

(* No step takes the versions of a name away. *)
LEMMA ExistenceKept ==
  ASSUME TypeOK, NEW t \in Threads, op[t].stage # "idle", Put(t) \/ UNCHANGED stored
  PROVE  /\ \A n \in Names : Exists(alias[n]) => Exists(alias'[n])
         /\ PutAlias(t) => Exists(alias'[op[t].name])
<1>1. /\ op[t].name \in Names /\ op[t].alias \in Aliases
      /\ op[t].version \in DOMAIN op[t].alias.versions
      /\ alias \in [Names -> Aliases]
  BY DEF TypeOK, Operations
<1>2. Exists(op[t].alias)
  BY <1>1, ExistsByVersion
<1>3. UNCHANGED alias \/ alias' = [alias EXCEPT ![op[t].name] = op[t].alias]
  BY DEF Put, PutRecord, PutAlias, PutIndex, PutCounters, stored
<1>4. QED
  BY <1>1, <1>2, <1>3 DEF PutAlias

LEMMA IndexStep ==
  ASSUME TypeOK, IndexInv, [Next]_vars
  PROVE  IndexInv'
<1>1. ASSUME NEW t \in Threads, Calls(t)
      PROVE  IndexInv'
  <2>1. PICK stage \in Stages \ {"idle"}, b \in BOOLEAN, n \in Names, a \in Aliases :
          \E v \in DOMAIN a.versions :
            Begin(t, Operation(stage, b, n, a, v)) /\ Loads(t, stage, n, a, v)
    BY <1>1, CallsBegin
  <2>2. PICK v \in DOMAIN a.versions :
            Begin(t, Operation(stage, b, n, a, v)) /\ Loads(t, stage, n, a, v)
    BY <2>1
  <2> DEFINE o == Operation(stage, b, n, a, v)
  <2>3. o.stage = stage /\ o.name = n
    BY StartType
  <2>4. stage # "catalog" /\ (stage = "index" => Exists(alias[n]))
    BY <2>2, ExistsByVersion DEF Loads
  <2>5. op' = [op EXCEPT ![t] = o] /\ UNCHANGED <<alias, index>>
    BY <2>2 DEF Begin, stored
  <2> HIDE DEF o
  <2>6. \A u \in Threads : op'[u] = op[u] \/ op'[u] = o
    BY <2>5 DEF TypeOK
  <2>7. QED
    BY <2>3, <2>4, <2>5, <2>6 DEF IndexInv
<1>2. ASSUME NEW t \in Threads, Steps(t) \/ ReadFails(t) \/ WriteFails(t)
      PROVE  IndexInv'
  <2>1. /\ op[t].stage # "idle"
        /\ Put(t) \/ UNCHANGED stored
        /\ End(t) \/ \E o \in Operations : Continues(t, o)
    BY <1>2, StepMoves
  <2>2. /\ op[t].name \in Names /\ op[t].catalog \subseteq Names /\ index \subseteq Names
    BY <2>1 DEF TypeOK, Operations
  <2>3. \A n \in Names : Exists(alias[n]) => Exists(alias'[n])
    BY <2>1, ExistenceKept
  <2>4. \A n \in index' : Exists(alias'[n])
    <3>1. index' = index \/ (op[t].stage = "catalog" /\ index' = op[t].catalog \cup {op[t].name})
      BY <2>1 DEF Put, PutRecord, PutAlias, PutIndex, PutCounters, stored
    <3>2. QED
      BY <2>2, <2>3, <3>1 DEF IndexInv
  <2>5. ASSUME NEW u \in Threads \ {t}
        PROVE  /\ op'[u].stage \in {"index", "catalog"} => Exists(alias'[op'[u].name])
               /\ op'[u].stage = "catalog" => \A n \in op'[u].catalog : Exists(alias'[n])
    <3>1. op'[u] = op[u]
      BY <2>1 DEF End, Continues, TypeOK
    <3>2. op[u].catalog \subseteq Names /\ (op[u].stage # "idle" => op[u].name \in Names)
      BY DEF TypeOK, Operations
    <3>3. QED
      BY <2>3, <3>1, <3>2 DEF IndexInv
  <2>6. /\ op'[t].stage \in {"index", "catalog"} => Exists(alias'[op'[t].name])
        /\ op'[t].stage = "catalog" => \A n \in op'[t].catalog : Exists(alias'[n])
    <3>1. CASE End(t)
      BY <3>1, IdleType DEF End, TypeOK
    <3>2. ASSUME NEW o \in Operations, Continues(t, o)
          PROVE  /\ op'[t].stage \in {"index", "catalog"} => Exists(alias'[op'[t].name])
                 /\ op'[t].stage = "catalog" => \A n \in op'[t].catalog : Exists(alias'[n])
      <4>1. op'[t] = o /\ o.name = op[t].name /\ Follows(t, o)
        BY <3>2 DEF Continues, TypeOK
      <4>2. o.stage = "index" => Exists(alias'[op[t].name])
        BY <2>1, <4>1, ExistenceKept DEF Follows
      <4>3. o.stage = "catalog" => op[t].stage = "index" /\ o.catalog = index
        BY <4>1 DEF Follows
      <4>4. QED
        BY <2>2, <2>3, <4>1, <4>2, <4>3 DEF IndexInv
    <3>3. QED
      BY <2>1, <3>1, <3>2
  <2>7. QED
    BY <2>4, <2>5, <2>6 DEF IndexInv
<1>3. ASSUME NEW w \in Workers, Crash(w)
      PROVE  IndexInv'
  <2>1. UNCHANGED <<alias, index>> /\ \A u \in Threads : op'[u] = op[u] \/ op'[u] = Idle
    BY <1>3 DEF Crash, stored
  <2>2. QED
    BY <2>1, IdleType DEF IndexInv
<1>4. CASE UNCHANGED vars
  BY <1>4 DEF IndexInv, vars, stored
<1>5. QED
  BY <1>1, <1>2, <1>3, <1>4 DEF Next

(* Whatever races, fails or crashes - racing administrators included - the  *)
(* index never names a crystal that has no version.                         *)
THEOREM IndexedNames == Spec => []IndexedNamesExist
<1>1. TypeOK /\ IndexInv /\ [Next]_vars => IndexInv'
  BY IndexStep
<1>2. IndexInv => IndexedNamesExist
  BY DEF IndexInv, IndexedNamesExist
<1>3. QED
  BY <1>1, <1>2, InitIndex, TypeCorrect, PTL DEF Spec

-----------------------------------------------------------------------------
(* The counters.  In one worker nothing is written between the read of a    *)
(* counter and its write.                                                   *)

SingleWorker == \A t, u \in Threads : WorkerOf[t] = WorkerOf[u]

RunsInv ==
  /\ NoRunLost
  /\ \A t \in Threads : op[t].stage = "telemetry" =>
       op[t].counters.runs = telemetry[Key(t)].runs + 1

LEMMA InitRuns == Init => RunsInv
BY IdleType DEF Init, RunsInv, NoRunLost, NoTelemetry

(* A run is acknowledged by the write of its counters, and nothing else     *)
(* writes counters.                                                         *)
LEMMA StepCounts ==
  ASSUME NEW t \in Threads, Steps(t) \/ ReadFails(t) \/ WriteFails(t)
  PROVE  \/ UNCHANGED <<telemetry, acked>>
         \/ PutCounters(t) /\ (UNCHANGED acked \/ acked' = [acked EXCEPT ![Key(t)] = @ + 1])
BY DEF Steps, WriteRecord, WriteAlias, ReadIndex, WriteIndex, ReadCounters, WriteCounters,
       Materialize, ReadFails, WriteFails, Put, PutRecord, PutAlias, PutIndex, PutCounters, stored

LEMMA RunsStep ==
  ASSUME SingleWorker, TypeOK, SerialInv, RunsInv, [Next]_vars
  PROVE  RunsInv'
<1>1. /\ telemetry \in [Names \X Versions -> Counters]
      /\ acked \in [Names \X Versions -> Nat]
      /\ \A k \in Names \X Versions : telemetry[k].runs \in Nat
  BY BoundsAssumption DEF TypeOK, Counters
<1>2. ASSUME NEW t \in Threads, Calls(t)
      PROVE  RunsInv'
  <2>1. PICK stage \in Stages \ {"idle"}, b \in BOOLEAN, n \in Names, a \in Aliases :
          \E v \in DOMAIN a.versions :
            Begin(t, Operation(stage, b, n, a, v)) /\ Loads(t, stage, n, a, v)
    BY <1>2, CallsBegin
  <2>2. PICK v \in DOMAIN a.versions :
            Begin(t, Operation(stage, b, n, a, v)) /\ Loads(t, stage, n, a, v)
    BY <2>1
  <2> DEFINE o == Operation(stage, b, n, a, v)
  <2>3. o.stage = stage /\ stage # "telemetry"
    BY <2>2, StartType DEF Loads
  <2>4. op' = [op EXCEPT ![t] = o] /\ UNCHANGED <<telemetry, acked>>
    BY <2>2 DEF Begin, stored
  <2> HIDE DEF o
  <2>5. \A u \in Threads : op'[u] = op[u] \/ op'[u] = o
    BY <2>4 DEF TypeOK
  <2>6. QED
    BY <2>3, <2>4, <2>5 DEF RunsInv, NoRunLost, Key
<1>3. ASSUME NEW t \in Threads, Steps(t) \/ ReadFails(t) \/ WriteFails(t)
      PROVE  RunsInv'
  <2>1. /\ op[t].stage # "idle"
        /\ End(t) \/ \E o \in Operations : Continues(t, o)
    BY <1>3, StepMoves
  <2>2. \A u \in Threads \ {t} : op[u].stage = "idle" /\ op'[u] = op[u]
    BY <2>1 DEF SerialInv, LockInv, SingleWorker, End, Continues, TypeOK
  <2>3. /\ op[t].name \in Names /\ op[t].version \in Versions
        /\ Key(t) \in Names \X Versions
    BY <2>1, AliasFacts DEF TypeOK, Operations, Key
  <2>4. CASE UNCHANGED <<telemetry, acked>>
    <3>1. op'[t].stage = "telemetry" =>
            op'[t].counters.runs = telemetry[Key(t)].runs + 1 /\ Key(t)' = Key(t)
      BY <2>1, IdleType DEF End, Continues, Follows, TypeOK, Key
    <3>2. QED
      BY <2>2, <2>4, <3>1 DEF RunsInv, NoRunLost
  <2>5. CASE PutCounters(t) /\ (UNCHANGED acked \/ acked' = [acked EXCEPT ![Key(t)] = @ + 1])
    <3>1. /\ op[t].stage = "telemetry"
          /\ telemetry' = [telemetry EXCEPT ![Key(t)] = op[t].counters]
          /\ op[t].counters.runs = telemetry[Key(t)].runs + 1
      BY <2>5 DEF PutCounters, RunsInv
    <3>2. \A k \in Names \X Versions : acked[k] <= telemetry[k].runs
      BY DEF RunsInv, NoRunLost
    <3>3. \A k \in Names \X Versions : acked'[k] <= telemetry'[k].runs
      BY <1>1, <2>3, <2>5, <3>1, <3>2
    <3>4. op'[t].stage # "telemetry"
      BY <2>1, <3>1, IdleType DEF End, Continues, Follows, TypeOK
    <3>5. QED
      BY <2>2, <3>3, <3>4 DEF RunsInv, NoRunLost
  <2>6. QED
    BY <1>3, <2>4, <2>5, StepCounts
<1>4. ASSUME NEW w \in Workers, Crash(w)
      PROVE  RunsInv'
  <2>1. /\ UNCHANGED <<telemetry, acked>>
        /\ \A u \in Threads : op'[u] = op[u] \/ op'[u] = Idle
    BY <1>4 DEF Crash, stored
  <2>2. QED
    BY <2>1, IdleType DEF RunsInv, NoRunLost, Key
<1>5. CASE UNCHANGED vars
  BY <1>5 DEF RunsInv, NoRunLost, Key, vars, stored
<1>6. QED
  BY <1>2, <1>3, <1>4, <1>5 DEF Next

(* In one worker every run whose recording returned is in the counters,     *)
(* whatever write failed or was cut off by a crash in between.              *)
THEOREM RunsCounted ==
  ASSUME SingleWorker
  PROVE  Spec => []NoRunLost
<1>1. SingleAdministrator
  BY DEF SingleWorker, SingleAdministrator
<1>2. TypeOK /\ SerialInv /\ RunsInv /\ [Next]_vars => RunsInv'
  BY RunsStep
<1>3. RunsInv => NoRunLost
  BY DEF RunsInv
<1>4. Spec => []SerialInv
  BY <1>1, SerialInvariant
<1>5. QED
  BY <1>2, <1>3, <1>4, InitRuns, TypeCorrect, PTL DEF Spec

-----------------------------------------------------------------------------
(* The refinement.  While one worker administers, what a writer is about to *)
(* store is still one edit of the alias that is stored now.                 *)

Edits(n, a, v) == Appends(n, a, v) \/ Activates(n, a, v) \/ Withdraws(n, a, v)

EditInv ==
  \A t \in Threads : op[t].stage \in {"record", "alias"} =>
    Edits(op[t].name, op[t].alias, op[t].version)

LEMMA InitEdit == Init => EditInv
BY IdleType DEF Init, EditInv

LEMMA EditsKept ==
  ASSUME UNCHANGED alias, NEW n, NEW a, NEW v, Edits(n, a, v)
  PROVE  Edits(n, a, v)'
BY DEF Edits, Appends, Activates, Withdraws

LEMMA EditStep ==
  ASSUME SingleAdministrator, TypeOK, AliasInv, SerialInv, EditInv, [Next]_vars
  PROVE  EditInv'
<1>1. ASSUME NEW t \in Threads, Calls(t)
      PROVE  EditInv'
  <2>1. PICK stage \in Stages \ {"idle"}, b \in BOOLEAN, n \in Names, a \in Aliases :
          \E v \in DOMAIN a.versions :
            Begin(t, Operation(stage, b, n, a, v)) /\ Loads(t, stage, n, a, v)
    BY <1>1, CallsBegin
  <2>2. PICK v \in DOMAIN a.versions :
            Begin(t, Operation(stage, b, n, a, v)) /\ Loads(t, stage, n, a, v)
    BY <2>1
  <2> DEFINE o == Operation(stage, b, n, a, v)
  <2>3. o.stage = stage /\ o.name = n /\ o.alias = a /\ o.version = v
    BY StartType
  <2>4. op' = [op EXCEPT ![t] = o] /\ UNCHANGED alias
    BY <2>2 DEF Begin, stored
  <2>5. stage \in {"record", "alias"} => Edits(n, a, v)
    BY <2>2 DEF Loads, Edits
  <2> HIDE DEF o
  <2>6. SUFFICES ASSUME NEW u \in Threads, op'[u].stage \in {"record", "alias"}
                 PROVE  Edits(op[u].name, op[u].alias, op[u].version)'
    BY DEF EditInv
  <2>7. PICK p : p = op'[u]
    OBVIOUS
  <2>8. Edits(p.name, p.alias, p.version)
    BY <2>3, <2>4, <2>5, <2>6, <2>7 DEF EditInv, TypeOK
  <2>9. Edits(p.name, p.alias, p.version)'
    BY <2>4, <2>8, EditsKept
  <2>10. QED
    BY <2>7, <2>9 DEF Edits, Appends, Activates, Withdraws
<1>2. ASSUME NEW t \in Threads, Steps(t) \/ ReadFails(t) \/ WriteFails(t)
      PROVE  EditInv'
  <2>1. /\ op[t].stage # "idle"
        /\ Put(t) \/ UNCHANGED stored
        /\ End(t) \/ \E o \in Operations : Continues(t, o)
    BY <1>2, StepMoves
  <2>2. /\ \A u \in Threads \ {t} : op[u].stage \in {"record", "alias"} => UNCHANGED alias
        /\ op[t].stage = "record" => UNCHANGED alias
    BY <2>1, StepExtends
  <2>3. SUFFICES ASSUME NEW u \in Threads, op'[u].stage \in {"record", "alias"}
                 PROVE  Edits(op[u].name, op[u].alias, op[u].version)'
    BY DEF EditInv
  <2>4. /\ op[u].stage \in {"record", "alias"}
        /\ op'[u].name = op[u].name /\ op'[u].alias = op[u].alias
        /\ op'[u].version = op[u].version
        /\ UNCHANGED alias
    <3>1. CASE u # t
      <4>1. op'[u] = op[u]
        BY <2>1, <3>1 DEF End, Continues, TypeOK
      <4>2. QED
        BY <2>2, <2>3, <3>1, <4>1
    <3>2. CASE u = t
      <4>1. PICK o \in Operations : Continues(t, o) /\ op'[t] = o
        BY <2>1, <2>3, <3>2, IdleType DEF End, Continues, TypeOK
      <4>2. op[t].stage = "record"
        BY <2>3, <3>2, <4>1 DEF Continues, Follows
      <4>3. QED
        BY <2>2, <3>2, <4>1, <4>2 DEF Continues
    <3>3. QED
      BY <3>1, <3>2
  <2>5. PICK p : p = op[u]
    OBVIOUS
  <2>6. Edits(p.name, p.alias, p.version)
    BY <2>4, <2>5 DEF EditInv
  <2>7. Edits(p.name, p.alias, p.version)'
    BY <2>4, <2>6, EditsKept
  <2>8. QED
    BY <2>4, <2>5, <2>7 DEF Edits, Appends, Activates, Withdraws
<1>3. ASSUME NEW w \in Workers, Crash(w)
      PROVE  EditInv'
  <2>1. UNCHANGED alias /\ \A u \in Threads : op'[u] = op[u] \/ op'[u] = Idle
    BY <1>3 DEF Crash, stored
  <2>2. QED
    BY <2>1, IdleType DEF EditInv, Edits, Appends, Activates, Withdraws
<1>4. CASE UNCHANGED vars
  BY <1>4 DEF EditInv, Edits, Appends, Activates, Withdraws, vars, stored
<1>5. QED
  BY <1>1, <1>2, <1>3, <1>4 DEF Next

(* What Catalog.tla sees of an alias. *)
Past(a) ==
  [v \in DOMAIN a.versions |->
     [program |-> a.versions[v].content.program, tested |-> a.versions[v].content.tested]]

Gone(a) == {v \in DOMAIN a.versions : Retired(a, v)}

Publications == [program : Programs, tested : BOOLEAN]

LEMMA PastType ==
  ASSUME NEW a \in Aliases
  PROVE  /\ Past(a) \in Seq(Publications) /\ Len(Past(a)) = Len(a.versions)
         /\ DOMAIN Past(a) = DOMAIN a.versions
         /\ \A v \in DOMAIN a.versions :
              Past(a)[v] = [program |-> a.versions[v].content.program,
                            tested |-> a.versions[v].content.tested]
<1>1. /\ DOMAIN a.versions = 1..Len(a.versions) /\ Len(a.versions) \in Nat
      /\ \A v \in DOMAIN a.versions : a.versions[v].content \in Contents
  BY AliasFacts, BoundsAssumption
<1>2. \A v \in DOMAIN a.versions :
        [program |-> a.versions[v].content.program,
         tested |-> a.versions[v].content.tested] \in Publications
  BY <1>1 DEF Contents, Publications
<1>3. Past(a) \in [1..Len(a.versions) -> Publications]
  BY <1>1, <1>2 DEF Past
<1>4. Past(a) \in Seq(Publications) /\ Len(Past(a)) = Len(a.versions)
  BY <1>1, <1>3
<1>5. QED
  BY <1>4 DEF Past

(* The same versions in the same order: nothing was published. *)
LEMMA SamePast ==
  ASSUME NEW a \in Aliases, NEW b \in Aliases, DOMAIN b.versions = DOMAIN a.versions,
         \A v \in DOMAIN a.versions : b.versions[v].content = a.versions[v].content
  PROVE  Past(b) = Past(a)
BY DEF Past

LEMMA AppendsPublishes ==
  ASSUME NEW n \in Names, alias[n] \in Aliases, NEW b \in Aliases, NEW v, Appends(n, b, v)
  PROVE  \E p \in Programs, tested \in BOOLEAN :
           /\ \A i \in DOMAIN Past(alias[n]) :
                Past(alias[n])[i].program = p => i \in Gone(alias[n])
           /\ Past(b) = Append(Past(alias[n]), [program |-> p, tested |-> tested])
           /\ Gone(b) = Gone(alias[n]) /\ b.active = alias[n].active
<1> DEFINE a == alias[n]
<1>1. PICK p \in Programs, tested \in BOOLEAN :
        /\ Reusable(a, p) = {} /\ Latest(a) < MaxVersions
        /\ b = WithVersion(a, NextContent(a, n, p, tested))
  BY DEF Appends
<1> DEFINE c == NextContent(a, n, p, tested)
           e == [program |-> p, tested |-> tested]
<1>2. c \in Contents /\ c.program = p /\ c.tested = tested
  BY <1>1, NextContentType DEF NextContent
<1>3. /\ Len(b.versions) = Len(a.versions) + 1 /\ b.active = a.active
      /\ \A i \in DOMAIN a.versions : b.versions[i] = a.versions[i]
      /\ b.versions[Len(a.versions) + 1] = [content |-> c, state |-> "draft"]
  BY <1>1, <1>2, WithVersionType
<1>4. /\ DOMAIN a.versions = 1..Len(a.versions) /\ Len(a.versions) \in Nat
      /\ DOMAIN b.versions = 1..(Len(a.versions) + 1)
  BY <1>3, AliasFacts
<1>5. \A i \in DOMAIN Past(a) : Past(a)[i].program = p => i \in Gone(a)
  <2>1. \A i \in DOMAIN a.versions : a.versions[i].content.program = p => Retired(a, i)
    BY <1>1 DEF Reusable
  <2>2. QED
    BY <2>1 DEF Past, Gone
<1>6. Gone(b) = Gone(a)
  <2>1. ASSUME NEW i \in DOMAIN b.versions
        PROVE  i \in Gone(b) <=> i \in Gone(a)
    <3>1. CASE i \in DOMAIN a.versions
      BY <1>3, <2>1, <3>1 DEF Gone, Retired
    <3>2. CASE i = Len(a.versions) + 1
      <4>1. b.versions[i].state = "draft" /\ i \notin DOMAIN a.versions
        BY <1>3, <1>4, <3>2
      <4>2. QED
        BY <4>1 DEF Gone, Retired
    <3>3. QED
      BY <1>4, <2>1, <3>1, <3>2
  <2>2. DOMAIN a.versions \subseteq DOMAIN b.versions
    BY <1>4
  <2>3. QED
    BY <2>1, <2>2 DEF Gone
<1>7. Past(b) = Append(Past(a), e)
  <2>1. e \in Publications
    BY DEF Publications
  <2>2. /\ Past(a) \in Seq(Publications) /\ Len(Past(a)) = Len(a.versions)
        /\ DOMAIN Past(a) = DOMAIN a.versions
    BY PastType
  <2>3. /\ Append(Past(a), e) \in Seq(Publications)
        /\ Len(Append(Past(a), e)) = Len(a.versions) + 1
        /\ \A i \in 1..Len(a.versions) : Append(Past(a), e)[i] = Past(a)[i]
        /\ Append(Past(a), e)[Len(a.versions) + 1] = e
    BY <2>1, <2>2, AppendProperties
  <2>4. Past(b) \in Seq(Publications) /\ Len(Past(b)) = Len(a.versions) + 1
    BY <1>3, PastType
  <2>5. \A i \in 1..Len(a.versions) : Past(b)[i] = Past(a)[i]
    <3> SUFFICES ASSUME NEW i \in 1..Len(a.versions) PROVE Past(b)[i] = Past(a)[i]
      OBVIOUS
    <3>1. i \in DOMAIN a.versions /\ i \in DOMAIN b.versions
      BY <1>4
    <3>2. b.versions[i] = a.versions[i]
      BY <1>3, <3>1
    <3>3. QED
      BY <3>1, <3>2 DEF Past
  <2>6. Past(b)[Len(a.versions) + 1] = e
    BY <1>2, <1>3, <1>4, PastType
  <2>7. \A i \in 1..(Len(a.versions) + 1) : Past(b)[i] = Append(Past(a), e)[i]
    BY <1>4, <2>3, <2>5, <2>6
  <2>8. QED
    BY <2>3, <2>4, <2>7, SeqEqual
<1>8. QED
  BY <1>3, <1>5, <1>6, <1>7

LEMMA ActivatesServes ==
  ASSUME NEW n \in Names, alias[n] \in Aliases, WellFormed(alias[n]),
         NEW b \in Aliases, NEW v, Activates(n, b, v)
  PROVE  /\ v \in DOMAIN Past(alias[n]) /\ Past(alias[n])[v].tested /\ alias[n].active # v
         /\ Past(b) = Past(alias[n]) /\ b.active = v
         /\ Gone(b) = (Gone(alias[n]) \cup ({alias[n].active} \ {0})) \ {v}
<1> DEFINE a == alias[n]
<1>1. v \in DOMAIN a.versions /\ a.versions[v].content.tested /\ a.active # v
      /\ b = Activated(a, v)
  BY DEF Activates
<1>2. /\ DOMAIN b.versions = DOMAIN a.versions /\ b.active = v
      /\ \A i \in DOMAIN a.versions : b.versions[i].content = a.versions[i].content
  BY <1>1, ActivatedType
<1>3. \A i \in DOMAIN a.versions :
        b.versions[i].state = IF i = v THEN "active"
                              ELSE IF a.versions[i].state = "active" THEN "retired"
                              ELSE a.versions[i].state
  <2>1. \A i \in DOMAIN a.versions : a.versions[i] \in Entries
    BY AliasFacts
  <2>2. QED
    BY <1>1, <2>1 DEF Activated, Entries
<1>4. /\ a.active \in {0} \cup DOMAIN a.versions
      /\ \A i \in DOMAIN a.versions : a.versions[i].state = "active" <=> a.active = i
      /\ 0 \notin DOMAIN a.versions
  BY AliasFacts DEF WellFormed
<1>5. Gone(b) = (Gone(a) \cup ({a.active} \ {0})) \ {v}
  BY <1>2, <1>3, <1>4 DEF Gone, Retired
<1>6. Past(b) = Past(a)
  BY <1>2, SamePast
<1>7. v \in DOMAIN Past(a) /\ Past(a)[v].tested
  BY <1>1 DEF Past
<1>8. QED
  BY <1>1, <1>2, <1>5, <1>6, <1>7

LEMMA WithdrawsWithdraws ==
  ASSUME NEW n \in Names, alias[n] \in Aliases, NEW b \in Aliases, NEW v, Withdraws(n, b, v)
  PROVE  /\ v \in DOMAIN Past(alias[n]) \ Gone(alias[n])
         /\ Past(b) = Past(alias[n])
         /\ b.active = IF alias[n].active = v THEN 0 ELSE alias[n].active
         /\ Gone(b) = Gone(alias[n]) \cup {v}
<1> DEFINE a == alias[n]
<1>1. v \in DOMAIN a.versions /\ ~Retired(a, v) /\ b = Withdrawn(a, v)
  BY DEF Withdraws
<1>2. /\ DOMAIN b.versions = DOMAIN a.versions
      /\ b.active = IF a.active = v THEN 0 ELSE a.active
      /\ \A i \in DOMAIN a.versions :
           /\ b.versions[i].content = a.versions[i].content
           /\ b.versions[i].state = IF i = v THEN "retired" ELSE a.versions[i].state
  BY <1>1, WithdrawnType
<1>3. Gone(b) = Gone(a) \cup {v}
  BY <1>1, <1>2 DEF Gone, Retired
<1>4. v \in DOMAIN Past(a) \ Gone(a)
  BY <1>1, PastType DEF Gone
<1>5. QED
  BY <1>2, <1>3, <1>4, SamePast

(* Aliases are only changed by the write of an edit. *)
LEMMA AliasEdited ==
  ASSUME TypeOK, AliasInv, EditInv, [Next]_vars
  PROVE  \/ UNCHANGED alias
         \/ \E n \in Names, b \in Aliases : \E v :
              Edits(n, b, v) /\ alias' = [alias EXCEPT ![n] = b]
<1>1. ASSUME NEW t \in Threads, Calls(t)
      PROVE  UNCHANGED alias
  BY <1>1, CallsBegin DEF Begin, stored
<1>2. ASSUME NEW t \in Threads, Steps(t) \/ ReadFails(t) \/ WriteFails(t), alias' # alias
      PROVE  \E n \in Names, b \in Aliases : \E v :
               Edits(n, b, v) /\ alias' = [alias EXCEPT ![n] = b]
  <2>1. op[t].stage # "idle" /\ (Put(t) \/ UNCHANGED stored)
    BY <1>2, StepMoves
  <2>2. op[t].stage = "alias" /\ alias' = [alias EXCEPT ![op[t].name] = op[t].alias]
    BY <1>2, <2>1 DEF Put, PutRecord, PutAlias, PutIndex, PutCounters, stored
  <2>3. op[t].name \in Names /\ op[t].alias \in Aliases
    BY <2>1 DEF TypeOK, Operations
  <2>4. Edits(op[t].name, op[t].alias, op[t].version)
    BY <2>2 DEF EditInv
  <2>5. QED
    BY <2>2, <2>3, <2>4
<1>3. ASSUME NEW w \in Workers, Crash(w)
      PROVE  UNCHANGED alias
  BY <1>3 DEF Crash, stored
<1>4. CASE UNCHANGED vars
  BY <1>4 DEF vars, stored
<1>5. QED
  BY <1>1, <1>2, <1>3, <1>4 DEF Next

(* The variables of Catalog.tla under the refinement mapping. *)
SeenHistory == [n \in Names |-> History(n)]
SeenRetired == [n \in Names |-> {v \in DOMAIN alias[n].versions : Retired(alias[n], v)}]
SeenServing == [n \in Names |-> alias[n].active]

LEMMA SeenAlias ==
  /\ \A n \in Names : /\ SeenHistory[n] = Past(alias[n])
                      /\ SeenRetired[n] = Gone(alias[n])
                      /\ SeenServing[n] = alias[n].active
  /\ \A n \in Names : /\ SeenHistory'[n] = Past(alias'[n])
                      /\ SeenRetired'[n] = Gone(alias'[n])
                      /\ SeenServing'[n] = alias'[n].active
BY DEF SeenHistory, SeenRetired, SeenServing, History, Past, Gone

(* An edit of one name is seen as a change of this name alone. *)
LEMMA SeenEdit ==
  ASSUME TypeOK, NEW n \in Names, NEW b, alias' = [alias EXCEPT ![n] = b]
  PROVE  /\ SeenHistory' = [SeenHistory EXCEPT ![n] = Past(b)]
         /\ SeenRetired' = [SeenRetired EXCEPT ![n] = Gone(b)]
         /\ SeenServing' = [SeenServing EXCEPT ![n] = b.active]
<1>1. alias'[n] = b /\ \A m \in Names \ {n} : alias'[m] = alias[m]
  BY DEF TypeOK
<1>2. /\ \A m \in Names : SeenHistory'[m] = IF m = n THEN Past(b) ELSE SeenHistory[m]
      /\ \A m \in Names : SeenRetired'[m] = IF m = n THEN Gone(b) ELSE SeenRetired[m]
      /\ \A m \in Names : SeenServing'[m] = IF m = n THEN b.active ELSE SeenServing[m]
  BY <1>1, SeenAlias
<1>3. /\ SeenHistory = [m \in Names |-> SeenHistory[m]]
      /\ SeenHistory' = [m \in Names |-> SeenHistory'[m]]
      /\ SeenRetired = [m \in Names |-> SeenRetired[m]]
      /\ SeenRetired' = [m \in Names |-> SeenRetired'[m]]
      /\ SeenServing = [m \in Names |-> SeenServing[m]]
      /\ SeenServing' = [m \in Names |-> SeenServing'[m]]
  BY DEF SeenHistory, SeenRetired, SeenServing
<1>4. QED
  BY <1>2, <1>3

LEMMA CatalogInit == Init => Promise!Init
<1> SUFFICES ASSUME Init PROVE Promise!Init
  OBVIOUS
<1>1. \A n \in Names : alias[n] = EmptyAlias /\ alias[n] \in Aliases
  BY EmptyAliasType DEF Init
<1>2. /\ Past(EmptyAlias) \in Seq(Publications) /\ Len(Past(EmptyAlias)) = 0
      /\ DOMAIN EmptyAlias.versions = {} /\ EmptyAlias.active = 0
  BY EmptyAliasType, PastType, AliasFacts DEF EmptyAlias
<1>3. Past(EmptyAlias) = << >>
  BY <1>2, EmptySeq, SeqEqual
<1>4. Gone(EmptyAlias) = {}
  BY <1>2 DEF Gone
<1>5. \A n \in Names :
        SeenHistory[n] = << >> /\ SeenRetired[n] = {} /\ SeenServing[n] = 0
  BY <1>1, <1>2, <1>3, <1>4, SeenAlias
<1>6. /\ SeenHistory = [n \in Names |-> << >>]
      /\ SeenRetired = [n \in Names |-> {}]
      /\ SeenServing = [n \in Names |-> 0]
  BY <1>5 DEF SeenHistory, SeenRetired, SeenServing
<1>7. QED
  BY <1>6 DEF Promise!Init, SeenHistory, SeenRetired, SeenServing

LEMMA CatalogStep ==
  ASSUME TypeOK, AliasInv, EditInv, [Next]_vars
  PROVE  [Promise!Next]_Promise!vars
<1>1. CASE UNCHANGED alias
  BY <1>1 DEF Promise!vars, History
<1>2. ASSUME NEW n \in Names, NEW b \in Aliases, NEW v, Edits(n, b, v),
             alias' = [alias EXCEPT ![n] = b]
      PROVE  Promise!Next
  <2>1. /\ alias[n] \in Aliases /\ WellFormed(alias[n])
    BY DEF TypeOK, AliasInv, AliasSound
  <2>2. /\ SeenHistory' = [SeenHistory EXCEPT ![n] = Past(b)]
        /\ SeenRetired' = [SeenRetired EXCEPT ![n] = Gone(b)]
        /\ SeenServing' = [SeenServing EXCEPT ![n] = b.active]
    BY <1>2, SeenEdit
  <2>3. /\ SeenHistory[n] = Past(alias[n]) /\ SeenRetired[n] = Gone(alias[n])
        /\ SeenServing[n] = alias[n].active
    BY SeenAlias
  <2>4. /\ [SeenHistory EXCEPT ![n] = Past(alias[n])] = SeenHistory
        /\ [SeenRetired EXCEPT ![n] = Gone(alias[n])] = SeenRetired
        /\ [SeenServing EXCEPT ![n] = alias[n].active] = SeenServing
    BY <2>3 DEF SeenHistory, SeenRetired, SeenServing
  <2>5. CASE Appends(n, b, v)
    <3>1. PICK p \in Programs, tested \in BOOLEAN :
            /\ \A i \in DOMAIN Past(alias[n]) :
                 Past(alias[n])[i].program = p => i \in Gone(alias[n])
            /\ Past(b) = Append(Past(alias[n]), [program |-> p, tested |-> tested])
            /\ Gone(b) = Gone(alias[n]) /\ b.active = alias[n].active
      BY <2>1, <2>5, AppendsPublishes
    <3>2. /\ \A i \in DOMAIN SeenHistory[n] :
               SeenHistory[n][i].program = p => i \in SeenRetired[n]
          /\ SeenHistory' = [SeenHistory EXCEPT ![n] =
                               Append(SeenHistory[n], [program |-> p, tested |-> tested])]
          /\ SeenRetired' = SeenRetired /\ SeenServing' = SeenServing
      BY <2>2, <2>3, <2>4, <3>1
    <3>3. Promise!Publish(n)
      BY <3>2 DEF Promise!Publish, SeenHistory, SeenRetired, SeenServing
    <3>4. QED
      BY <3>3 DEF Promise!Next
  <2>6. CASE Activates(n, b, v)
    <3>1. /\ v \in DOMAIN Past(alias[n]) /\ Past(alias[n])[v].tested /\ alias[n].active # v
          /\ Past(b) = Past(alias[n]) /\ b.active = v
          /\ Gone(b) = (Gone(alias[n]) \cup ({alias[n].active} \ {0})) \ {v}
      BY <2>1, <2>6, ActivatesServes
    <3>2. /\ v \in DOMAIN SeenHistory[n] /\ SeenHistory[n][v].tested /\ SeenServing[n] # v
          /\ SeenServing' = [SeenServing EXCEPT ![n] = v]
          /\ SeenRetired' = [SeenRetired EXCEPT ![n] =
                               (SeenRetired[n] \cup ({SeenServing[n]} \ {0})) \ {v}]
          /\ SeenHistory' = SeenHistory
      BY <2>2, <2>3, <2>4, <3>1
    <3>3. Promise!Serve(n)
      BY <3>2 DEF Promise!Serve, SeenHistory, SeenRetired, SeenServing
    <3>4. QED
      BY <3>3 DEF Promise!Next
  <2>7. CASE Withdraws(n, b, v)
    <3>1. /\ v \in DOMAIN Past(alias[n]) \ Gone(alias[n]) /\ Past(b) = Past(alias[n])
          /\ b.active = IF alias[n].active = v THEN 0 ELSE alias[n].active
          /\ Gone(b) = Gone(alias[n]) \cup {v}
      BY <2>1, <2>7, WithdrawsWithdraws
    <3>2. /\ v \in DOMAIN SeenHistory[n] \ SeenRetired[n]
          /\ SeenRetired' = [SeenRetired EXCEPT ![n] = SeenRetired[n] \cup {v}]
          /\ SeenServing' = [SeenServing EXCEPT ![n] =
                               IF SeenServing[n] = v THEN 0 ELSE SeenServing[n]]
          /\ SeenHistory' = SeenHistory
      BY <2>2, <2>3, <2>4, <3>1
    <3>3. Promise!Withdraw(n)
      BY <3>2 DEF Promise!Withdraw, SeenHistory, SeenRetired, SeenServing
    <3>4. QED
      BY <3>3 DEF Promise!Next
  <2>8. QED
    BY <1>2, <2>5, <2>6, <2>7 DEF Edits
<1>3. QED
  BY <1>1, <1>2, AliasEdited

(* While one worker administers, every call takes effect at once or not at  *)
(* all: what callers see of the registry is the catalog of Catalog.tla,     *)
(* through every crash, failed write and race with the readers.             *)
THEOREM RegistryImplementsCatalog ==
  ASSUME SingleAdministrator
  PROVE  Spec => ImplementsCatalog
<1>1. TypeOK /\ AliasInv /\ SerialInv /\ EditInv /\ [Next]_vars => EditInv'
  BY EditStep
<1>2. TypeOK /\ AliasInv /\ EditInv /\ [Next]_vars => [Promise!Next]_Promise!vars
  BY CatalogStep
<1>3. Spec => []EditInv
  BY <1>1, InitEdit, TypeCorrect, AliasInvariant, SerialInvariant, PTL DEF Spec
<1>4. QED
  BY <1>2, <1>3, CatalogInit, TypeCorrect, AliasInvariant, PTL
     DEF Spec, ImplementsCatalog, Promise!Spec
=============================================================================
