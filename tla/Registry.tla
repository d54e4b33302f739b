------------------------------ MODULE Registry ------------------------------
(***************************************************************************)
(* crystalflow/registry.py at the grain of its key-value operations.        *)
(*                                                                          *)
(* A plugin worker is one process.  All Registry objects of a worker share  *)
(* _PROCESS_LOCK, so a worker runs one registry operation at a time, while  *)
(* different workers interleave freely over one store that has neither      *)
(* transactions nor compare-and-swap.  Every store call may fail, a failed  *)
(* write may or may not have landed, and a worker may crash between any two *)
(* calls.                                                                   *)
(*                                                                          *)
(* An operation is begun by taking the lock and loading the alias, and goes *)
(* through the stages below; the lock is released when it ends.  Calls that *)
(* only raise (unknown name or version, a failed expectation, the version   *)
(* limit, a failed first read) change nothing and are no steps here.        *)
(* Records are immutable once written, so reading one is merged with the    *)
(* step before it.  unsafe=True, which no plugin path passes, is left out.  *)
(***************************************************************************)
EXTENDS CrystalAlias, FiniteSets

CONSTANTS
  Names, Programs,
  Threads, Workers,
  WorkerOf,          \* [Threads -> Workers]
  Administrators,    \* the workers whose threads register, activate and retire
  Absent,            \* a key that holds nothing, a lock that is free
  MaxVersions,       \* MAX_VERSIONS_PER_CRYSTAL
  MaxCounter,        \* MAX_COUNTER
  MaxRevision,       \* exploration bound on the revision of an alias
  MaxRuns,           \* exploration bound on the recorded runs of a version
  TestOutcomes       \* what metadata.tests_passed may be in a registration

ASSUME WorkersAssumption ==
  /\ WorkerOf \in [Threads -> Workers]
  /\ Administrators \subseteq Workers

ASSUME BoundsAssumption ==
  /\ MaxVersions \in Nat \ {0}
  /\ MaxCounter \in Nat \ {0}
  /\ MaxRevision \in Nat
  /\ MaxRuns \in Nat
  /\ TestOutcomes \subseteq BOOLEAN

Versions == 1..MaxVersions

Contents == [name : Names, version : Versions, revision : Nat,
             program : Programs, tested : BOOLEAN]

ASSUME AbsentAssumption ==
  /\ Absent \notin Threads
  /\ Absent \notin Contents

VARIABLES
  alias,      \* the alias keys: [Names -> an alias of CrystalAlias]
  records,    \* the record keys that were written, by content
  telemetry,  \* the telemetry keys: [Names \X Versions -> [content, runs]]
  index,      \* the names in the index key
  lock,       \* _PROCESS_LOCK of each worker: the thread that holds it
  op,         \* the operation a thread is in, or Idle
  acked       \* history: record_run calls that returned, per name and version

stored == <<alias, records, telemetry, index>>
vars == <<alias, records, telemetry, index, lock, op, acked>>

NoTelemetry == [content |-> Absent, runs |-> 0]

(* What an operation holds in its local variables: the alias it loaded (and *)
(* may have edited), its target version, and the index or counters it read. *)
Operation(stage, registers, n, a, v) ==
  [stage |-> stage, registers |-> registers, name |-> n, alias |-> a, version |-> v,
   catalog |-> {}, counters |-> NoTelemetry]

Idle == Operation("idle", FALSE, Absent, EmptyAlias, 0)

Start(stage, n, a, v) == Operation(stage, FALSE, n, a, v)

(* register goes on to index the name after its writes; other calls do not. *)
StartRegister(stage, n, a, v) == Operation(stage, TRUE, n, a, v)

Content(t) == op[t].alias.versions[op[t].version].content
Key(t) == <<op[t].name, op[t].version>>

Init ==
  /\ alias = [n \in Names |-> EmptyAlias]
  /\ records = {}
  /\ telemetry = [k \in Names \X Versions |-> NoTelemetry]
  /\ index = {}
  /\ lock = [w \in Workers |-> Absent]
  /\ op = [t \in Threads |-> Idle]
  /\ acked = [k \in Names \X Versions |-> 0]

-----------------------------------------------------------------------------
(* The lock. *)

(* The stale variant of Begin: two threads of a worker that do not share it. *)
BeginUnlocked(t, operation) ==
  /\ op[t] = Idle
  /\ op' = [op EXCEPT ![t] = operation]
  /\ UNCHANGED <<stored, lock, acked>>

Begin(t, operation) ==
  /\ op[t] = Idle
  /\ lock[WorkerOf[t]] = Absent
  /\ lock' = [lock EXCEPT ![WorkerOf[t]] = t]
  /\ op' = [op EXCEPT ![t] = operation]
  /\ UNCHANGED <<stored, acked>>

Advance(t, stage) ==
  /\ op' = [op EXCEPT ![t].stage = stage]
  /\ UNCHANGED lock

End(t) ==
  /\ op' = [op EXCEPT ![t] = Idle]
  /\ lock' = [lock EXCEPT ![WorkerOf[t]] = Absent]

Administers(t) == WorkerOf[t] \in Administrators

-----------------------------------------------------------------------------
(* Operations take the lock, load the alias and pass their checks. *)

(* A program with a version that is not retired is not registered again. *)
RegisterReuse(t) == \E n \in Names, p \in Programs : \E v \in DOMAIN alias[n].versions :
  /\ Administers(t)
  /\ IsFirstReusable(alias[n], p, v)
  /\ Begin(t, StartRegister("index", n, alias[n], v))

RegisterNew(t) == \E n \in Names, p \in Programs, tested \in TestOutcomes :
  /\ Administers(t)
  /\ Reusable(alias[n], p) = {}
  /\ Latest(alias[n]) < MaxVersions
  /\ alias[n].revision < MaxRevision
  /\ LET a == WithVersion(alias[n], NextContent(alias[n], n, p, tested))
     IN  Begin(t, StartRegister("record", n, a, Latest(a)))

(* A variant of Activate that forgets to ask for passed tests. *)
ActivateUntested(t) == \E n \in Names : \E v \in DOMAIN alias[n].versions :
  /\ Administers(t)
  /\ alias[n].versions[v].content \in records
  /\ alias[n].revision < MaxRevision
  /\ Begin(t, Start("alias", n, Activated(alias[n], v), v))

(* Only a version whose record says its tests passed is activated; one that *)
(* is active already is only returned.                                      *)
Activate(t) == \E n \in Names : \E v \in DOMAIN alias[n].versions :
  /\ Administers(t)
  /\ alias[n].versions[v].content \in records
  /\ alias[n].versions[v].content.tested
  /\ IF alias[n].active = v
     THEN Begin(t, Start("materialize", n, alias[n], v))
     ELSE /\ alias[n].revision < MaxRevision
          /\ Begin(t, Start("alias", n, Activated(alias[n], v), v))

Retire(t) == \E n \in Names : \E v \in DOMAIN alias[n].versions :
  /\ Administers(t)
  /\ IF Retired(alias[n], v)
     THEN Begin(t, Start("materialize", n, alias[n], v))
     ELSE /\ alias[n].revision < MaxRevision
          /\ Begin(t, Start("alias", n, Withdrawn(alias[n], v), v))

(* record_run counts for an explicit version, active or not, or the active. *)
RecordRun(t) == \E n \in Names : \E v \in DOMAIN alias[n].versions :
  /\ acked[<<n, v>>] < MaxRuns
  /\ Begin(t, Start("counters", n, alias[n], v))

(* get, latest and telemetry of a version. *)
Get(t) == \E n \in Names : \E v \in DOMAIN alias[n].versions :
  Begin(t, Start("materialize", n, alias[n], v))

EnsureIndexed(t) == \E n \in Names :
  /\ Exists(alias[n])
  /\ Begin(t, Start("index", n, alias[n], Latest(alias[n])))

-----------------------------------------------------------------------------
(* The store calls that follow, in the order the code makes them.           *)

(* The writes an operation can have pending, as their effect on the store.  *)
(* A record that exists already has the bytes being written.                *)
PutRecord(t) ==
  /\ op[t].stage = "record"
  /\ records' = records \cup {Content(t)}
  /\ UNCHANGED <<alias, telemetry, index>>

PutAlias(t) ==
  /\ op[t].stage = "alias"
  /\ alias' = [alias EXCEPT ![op[t].name] = op[t].alias]
  /\ UNCHANGED <<records, telemetry, index>>

PutIndex(t) ==
  /\ op[t].stage = "catalog"
  /\ index' = op[t].catalog \cup {op[t].name}
  /\ UNCHANGED <<alias, records, telemetry>>

PutCounters(t) ==
  /\ op[t].stage = "telemetry"
  /\ telemetry' = [telemetry EXCEPT ![Key(t)] = op[t].counters]
  /\ UNCHANGED <<alias, records, index>>

Put(t) == PutRecord(t) \/ PutAlias(t) \/ PutIndex(t) \/ PutCounters(t)

(* register writes the record first, so that no alias ever names a record   *)
(* that is not there.                                                       *)
WriteRecord(t) ==
  /\ PutRecord(t)
  /\ Advance(t, "alias")
  /\ UNCHANGED acked

WriteAlias(t) ==
  /\ PutAlias(t)
  /\ Advance(t, IF op[t].registers THEN "index" ELSE "materialize")
  /\ UNCHANGED acked

(* _ensure_indexed loads the catalog and is done if the name is in it. *)
LeaveIndex(t) ==
  IF op[t].registers THEN Advance(t, "materialize") ELSE End(t)

ReadIndex(t) ==
  /\ op[t].stage = "index"
  /\ IF op[t].name \in index
     THEN LeaveIndex(t)
     ELSE /\ op' = [op EXCEPT ![t].stage = "catalog", ![t].catalog = index]
          /\ UNCHANGED lock
  /\ UNCHANGED <<stored, acked>>

WriteIndex(t) ==
  /\ PutIndex(t)
  /\ LeaveIndex(t)
  /\ UNCHANGED acked

(* _load_telemetry raises RegistryCorruptionError for counters that another *)
(* content left under the key.                                              *)
Foreign(t) == telemetry[Key(t)].content \notin {Absent, Content(t)}

(* A variant of ReadCounters without the check of MAX_COUNTER. *)
ReadCountersUnchecked(t) ==
  /\ op[t].stage = "counters"
  /\ IF Foreign(t)
     THEN End(t)
     ELSE /\ op' = [op EXCEPT ![t].stage = "telemetry",
                              ![t].counters = [content |-> Content(t),
                                               runs |-> telemetry[Key(t)].runs + 1]]
          /\ UNCHANGED lock
  /\ UNCHANGED <<stored, acked>>

ReadCounters(t) ==
  /\ op[t].stage = "counters"
  /\ IF Foreign(t) \/ telemetry[Key(t)].runs = MaxCounter
     THEN End(t)
     ELSE /\ op' = [op EXCEPT ![t].stage = "telemetry",
                              ![t].counters = [content |-> Content(t),
                                               runs |-> telemetry[Key(t)].runs + 1]]
          /\ UNCHANGED lock
  /\ UNCHANGED <<stored, acked>>

WriteCounters(t) ==
  /\ PutCounters(t)
  /\ acked' = [acked EXCEPT ![Key(t)] = @ + 1]
  /\ End(t)

(* _materialize reads the record and the telemetry of the version and       *)
(* returns, or raises if one of them is not the version's own.              *)
Materialize(t) ==
  /\ op[t].stage = "materialize"
  /\ End(t)
  /\ UNCHANGED <<stored, acked>>

-----------------------------------------------------------------------------
(* Failures. *)

(* A read raises: the operation ends, except that _ensure_indexed swallows  *)
(* the error within register.                                               *)
ReadFails(t) ==
  /\ op[t].stage \in {"index", "counters", "materialize"}
  /\ IF op[t].stage = "index" THEN LeaveIndex(t) ELSE End(t)
  /\ UNCHANGED <<stored, acked>>

(* A variant of WriteFails in which a failed write is taken for a success.  *)
WriteFailureSwallowed(t) ==
  /\ Put(t) \/ (op[t].stage \in {"record", "alias", "catalog", "telemetry"} /\ UNCHANGED stored)
  /\ CASE op[t].stage = "record" -> Advance(t, "alias")
       [] op[t].stage = "alias" -> Advance(t, "index")
       [] OTHER -> LeaveIndex(t)
  /\ UNCHANGED acked

(* A write raises, before or after the store applied it.  The operation     *)
(* ends, except in _ensure_indexed.                                         *)
WriteFails(t) ==
  /\ op[t].stage \in {"record", "alias", "catalog", "telemetry"}
  /\ Put(t) \/ UNCHANGED stored
  /\ IF op[t].stage = "catalog" THEN LeaveIndex(t) ELSE End(t)
  /\ UNCHANGED acked

(* A worker crashes with everything it holds in memory. *)
Crash(w) ==
  /\ op' = [t \in Threads |-> IF WorkerOf[t] = w THEN Idle ELSE op[t]]
  /\ lock' = [lock EXCEPT ![w] = Absent]
  /\ UNCHANGED <<stored, acked>>

-----------------------------------------------------------------------------
Calls(t) ==
  \/ RegisterReuse(t) \/ RegisterNew(t) \/ Activate(t) \/ Retire(t)
  \/ RecordRun(t) \/ Get(t) \/ EnsureIndexed(t)

Steps(t) ==
  \/ WriteRecord(t) \/ WriteAlias(t) \/ ReadIndex(t) \/ WriteIndex(t)
  \/ ReadCounters(t) \/ WriteCounters(t) \/ Materialize(t)

Next ==
  \/ \E t \in Threads : Calls(t) \/ Steps(t) \/ ReadFails(t) \/ WriteFails(t)
  \/ \E w \in Workers : Crash(w)

Spec == Init /\ [][Next]_vars

-----------------------------------------------------------------------------
(* Properties. *)

Stages == {"idle", "record", "alias", "index", "catalog", "counters", "telemetry",
           "materialize"}

Entries == [content : Contents, state : Lifecycle]

Aliases ==
  {a \in [revision : Nat, active : 0..MaxVersions, versions : Seq(Entries)] :
     Len(a.versions) <= MaxVersions}

Counters == [content : Contents \cup {Absent}, runs : 0..MaxCounter]

Operations ==
  [stage : Stages, registers : BOOLEAN, name : Names \cup {Absent}, alias : Aliases,
   version : 0..MaxVersions, catalog : SUBSET Names, counters : Counters]

(* Every variable holds what the code can store in it, and an operation     *)
(* under way has a name and a version of the alias it loaded.               *)
TypeOK ==
  /\ alias \in [Names -> Aliases]
  /\ records \subseteq Contents
  /\ telemetry \in [Names \X Versions -> Counters]
  /\ index \subseteq Names
  /\ lock \in [Workers -> Threads \cup {Absent}]
  /\ op \in [Threads -> Operations]
  /\ \A t \in Threads : op[t].stage # "idle" =>
       op[t].name \in Names /\ op[t].version \in DOMAIN op[t].alias.versions
  /\ acked \in [Names \X Versions -> Nat]

(* Whatever crashes, fails or races, every version a stored alias names has *)
(* its record, under the identity _load_record checks: a partial register   *)
(* leaves an unused record, never a version that cannot be loaded.          *)
EveryEntryHasItsRecord ==
  \A n \in Names : \A v \in DOMAIN alias[n].versions :
    LET c == alias[n].versions[v].content
    IN  c \in records /\ c.name = n /\ c.version = v

(* Every alias ever stored passes _validate_alias, so that no sequence of   *)
(* calls, crashes and races makes a name unreadable; and the version it     *)
(* serves passed its tests (the activation gate of activate).               *)
AliasesWellFormed ==
  \A n \in Names :
    /\ WellFormed(alias[n])
    /\ \A v \in DOMAIN alias[n].versions :
         alias[n].active = v => alias[n].versions[v].content.tested

(* No call that reads the record or the counters of a version takes them    *)
(* for corrupted, whatever happened between its load of the alias and this  *)
(* read (the two identity checks of _load_record and _load_telemetry).      *)
NoFalseCorruption ==
  \A t \in Threads : op[t].stage \in {"counters", "materialize"} =>
    Content(t) \in records /\ ~Foreign(t)

(* The part of it that the best-effort counters could break: no version is  *)
(* unreadable because of what is stored under its telemetry key.            *)
TelemetryNeverBlocksReads ==
  \A t \in Threads : op[t].stage = "materialize" => ~Foreign(t)

(* A version, once stored, keeps its number and content for ever: no update *)
(* of an alias is lost to another operation's older copy of it.             *)
VersionsAppendOnly ==
  [][\A n \in Names : \A v \in DOMAIN alias[n].versions :
       /\ v \in DOMAIN alias'[n].versions
       /\ alias'[n].versions[v].content = alias[n].versions[v].content]_vars

(* Every run whose recording returned is in the stored counters.            *)
NoRunLost == \A k \in Names \X Versions : acked[k] <= telemetry[k].runs

(* The catalog names only crystals that exist: a stale entry, which list    *)
(* skips, never arises from register's own order of writes.                 *)
IndexedNamesExist == \A n \in index : Exists(alias[n])

(* The catalog a caller sees (Catalog.tla), read off the stored aliases.    *)
History(n) ==
  [v \in DOMAIN alias[n].versions |->
     [program |-> alias[n].versions[v].content.program,
      tested |-> alias[n].versions[v].content.tested]]

Promise == INSTANCE Catalog WITH
  history <- [n \in Names |-> History(n)],
  retired <- [n \in Names |-> {v \in DOMAIN alias[n].versions : Retired(alias[n], v)}],
  serving <- [n \in Names |-> alias[n].active]

(* While one worker administers, each call takes effect at once, at its     *)
(* write of the alias, or not at all.                                       *)
ImplementsCatalog == Promise!Spec
=============================================================================
