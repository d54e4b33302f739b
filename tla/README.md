# CrystalFlow: a verification project

CrystalFlow is a Dify plugin that replaces repeated model work by stored artifacts. A *compute
crystal* is a versioned, tested, pure JSON program, kept in a registry and optionally learned from
observed inputs and outputs. A *route crystal* is one tool call that was observed often enough for one
exact request and is replayed without asking the model. Everything persistent lives in a key-value
store with `exist`, `get`, `set` and `delete` and nothing else: no transactions, no compare-and-swap, no
enumeration. The difficulty of the system lies there, in what several threads and worker processes,
failing store calls and crashes make of load-modify-write sequences on that store, and in long
sequences of legal calls. One group of modules models that part. Another models the sequential code
that everything else trusts: the expression engine with its budgets, the schemas, and the assembly of
tool calls from a model's stream.

## Inventory

| Component | State it keeps | Operations | What makes it correct |
|---|---|---|---|
| Registry (`crystalflow/registry.py`) | alias, record, telemetry and index keys; a lock per process | register, activate, retire, record_run, get, latest, telemetry, list, ensure_indexed | versions are append-only and immutable; one tested version is served; a stored alias is never one the code rejects; every alias names records that exist |
| Values (`models.py`) | lifecycle of a version | - | part of the alias |
| Service (`service.py`) | none | crystallize, execute, activate, retire, status | only programs that pass their tests are registered; a step between two registry calls does no harm |
| Progressive learning (`progressive.py`) | learning record per task; `_BUILDING` and a lock per process | run, `_learn`, `_build_candidate` | evidence is permanent; a candidate reproduces all of it; builds are serialised and bounded |
| Adaptive route store (`adaptive_routes.py`) | one record per route key; a lock per process | lookup, observe_success, record_hit, invalidate | replays are earned by repetition under the current contract; conflicts quarantine |
| Agent strategy (`strategies/progressive_function_calling.py`) | none between requests; partial calls while a model streams | one request: lookup, warm run, cold rounds, observation, hit; a model turn from chunks | every request ends, with an answer; failures of the store never reach the user; no fragment of a call is lost or goes to another |
| Engine (`engine.py`) | counters of a run: nodes, evaluations, running sizes | validate, evaluate, run | validation accepts what can be evaluated and nothing else; budgets stop exactly what exceeds them; a stored program computes what the tested one did |
| Schema (`schema.py`) | none | validate_schema, validate_instance, validate_output | used by Engine |
| Canonical JSON (`canonical.py`), errors | none | pure functions | the canonical form is stable |
| Workflow tools (`tools/`), provider, entry point | none | parse parameters, one call into a service | - |

How they interact: the strategy calls the route store; the progressive service calls the service
(execute first, crystallize from a build) and its own record; the service calls the registry; the
tools call the service or the progressive service. All of them share one store. There are three
process-wide locks (registry, progressive, routes); the progressive lock is held across registry calls,
never the other way round. The model, the tools and the program builder are called without any lock.

Hard behaviour: interleaved load-modify-write sequences of threads (serialised per process) and of
workers (not serialised at all); a write that raises and may have landed; a crash between two writes; a
builder that runs for as long as a model takes while the world changes; two registry calls where the
caller thinks of one; requests with different thresholds, allowlists and contracts over one record;
fragments of several tool calls in one stream, told apart by heuristics; running totals that must agree
with the canonical text of what they foresee; programs that change form when they are stored.
`PROJECT.json` lists these hazards at the lines where they bite, with the properties that cover them.

## Modules

| Module | Models | Built on |
|---|---|---|
| `CrystalAlias` | the value under an alias key and what register, activate and retire compute from it | - |
| `Registry` | `registry.py` at the grain of its store calls, threads of several workers | `CrystalAlias`, `Catalog` |
| `Catalog` | the abstract specification: a growing history of versions, retired ones, one served | - |
| `CrystalAliasProofs` | lemmas about what register, activate and retire make of an alias | `CrystalAlias` |
| `RegistryProofs` | theorems about `Registry`: types, aliases, records, versions, reads | `Registry` |
| `RegistryCatalogProofs` | theorems about `Registry`: index, counters, that it implements `Catalog` | `RegistryProofs` |
| `AdaptiveRoute` | the record of a route and what the four store operations make of it | - |
| `AgentStrategy` | requests of several workers over one route key, with the store's steps | `AdaptiveRoute`, `RouteEvidence` |
| `RouteEvidence` | the abstract specification of a route: successes, disputes, planned replays, counted hits | - |
| `AgentStrategyProofs` | theorems about `AgentStrategy`: types, evidence, conflicts, hits, termination | `AgentStrategy` |
| `RouteEvidenceProofs` | that `AgentStrategy` implements `RouteEvidence` | `AgentStrategyProofs` |
| `Progressive` | learning calls of the threads of one worker for one task, beside an administrator | `CrystalAlias`, `Catalog` |
| `ProgressiveProofs` | theorems about `Progressive` | `Progressive`, `CrystalAliasProofs` |
| `JsonValues` | values, their canonical form, its size | - |
| `Schema` | `schema.py` | `JsonValues` |
| `EngineOperators` | what the operations of the language return and ask of the limits | `JsonValues` |
| `Engine` | validation, evaluation and a run of a program, repeated from the store | `EngineOperators`, `Schema` |
| `StreamedCalls` | the model turn of the strategy, from a result or from chunks | - |
| `StreamedCallsProofs` | theorems about `StreamedCalls` | `StreamedCalls` |
| `Service` | the calls of the service on one crystal, each several registry calls | `CrystalAlias`, `Catalog` |
| `ServiceProofs` | theorems about `Service` | `Service`, `CrystalAliasProofs` |
| `MC*` | instances for TLC | the module of the same name |

**Registry.** A registry operation is a thread's record `op[t]` that goes through stages. It begins by
taking the worker's lock and loading the alias, with all the checks of the code before its first
write; then each store call is an action (`WriteRecord`, `WriteAlias`, `ReadIndex`, `WriteIndex`,
`ReadCounters`, `WriteCounters`, `Materialize`). `ReadFails`, `WriteFails` (before or after the store
applied the write) and `Crash` of a worker may happen at any of them; `_ensure_indexed` swallows storage
errors within register as the code does. Contents of a version and its hash are one value. A call that
only raises changes nothing and is no step. `acked` is a history variable: the calls of `record_run`
that returned.

**Catalog.** `Registry` implements it with the mapping `Promise`: histories, retired sets and the served
version are read off the stored aliases, so a call takes effect at its one write of the alias or not at
all. This is what "the alias write is the commit point" means, and it holds only where writers are
serialised. `Service` and `Progressive` take a registry call for one step, which this entitles them to, and
implement `Catalog` themselves: every step of a call, of a failure or of the administrator publishes, serves
or withdraws one version, or does nothing.

**AdaptiveRoute and AgentStrategy.** The operators of `AdaptiveRoute` are the branches of the store's
four operations. In `AgentStrategy` a request loads the record under its worker's lock (`Load`), writes
it in a second step if the operation changes it (`WriteState`), and otherwise follows `_invoke` and
`_run_cold_path`: the model may answer with text or without, with one call of an allowlisted tool
(`RunDirect`, `DirectFails`), with other calls (`RunOthers`), or raise. The history variables say what the
user's tools really did: `runs` (successful runs of a call the model chose), `replays`, `confirmed`,
`witnessed` (the calls observed since evidence was last discarded by an invalidation or a changed
contract). The requests share a route key, which binds the names of the tools and not their contracts,
so allowlist, contract versions and threshold are open per request.

**RouteEvidence.** What a route owes its users, with no store and no lock in it: a success counts at most once
and for its own call, another version of the contract starts over, any other disagreement is disputed until
all evidence is discarded, a replay is planned from a call that was seen twice and is undisputed, and a hit
is counted after its replay. Anything may be forgotten. `AgentStrategy` implements it with the mapping
`Promise`: the record is the stored one, and `Doing` tells from the stage of a request whether it has a success to
report, a replay planned or a hit to count. An operation takes effect at its one write.

**Progressive.** Registry operations are single steps here; learning is at the grain of its critical
sections, its record writes and its calls of builder, register and activate. The administrator acts at
any moment, since it takes the registry's lock and not the learner's. Programs are functions from
inputs to outputs, so a candidate's tests are evaluated, not assumed. Three sections are coarser than the
code: the record is loaded and written in one step, since both are under the lock; `_candidate_exists`, which reads
one version after the other, sees the registry at one moment; and a builder call is counted when it is over.

**Service.** Here a registry call is a step and a service call is not. `call[s]` is what a session remembers
between the registry calls: `register` then `activate` (`crystallize`), `confirm` then `activate`
(`activate`), `select` then `withdraw` (`retire` without a version), `get` then `record`, or `get` then
`latest` (`execute`). Any registry call may raise with nothing done (`StorageFails`, `RecordFails`) or after
its write (`WriteFailsLate`, `RecordFails`), and `Crash` ends all calls. Programs are functions, so that
the tests of a crystallization are evaluated. Three history variables serve the properties: `seen`, the
states of versions that a call has coincided with, and `ran` and `told`, the runs of a version and the answers
that called them recorded.

**JsonValues, Schema, EngineOperators and Engine.** A value is a pair of tag and payload. Text is a
sequence of characters of five kinds (a space, a letter in two cases, a character of two bytes, one
whose upper case is two characters), a name is one character, and a float is a whole number of halves. Halves are
exact up to `MaxExact`, whole numbers twice as far, and then the spacing doubles with the magnitude up to
`MaxFloat`, as in a binary64 from 2^52 and 2^53 to 2^1024. Floats without fraction are spelled as `_float`
of `canonical.py` does it. Below `MaxPlain`, which is 10^21, the spelling is the shortest decimal that reads
back as the float, filled up with zeros: the integer it equals, or from 2^54 on possibly another one (2^57 is
written 144115188075855870, and 32 is written 30 in the instance). From `MaxPlain` on it keeps
an exponent and is read back as the float. That keeps what the code distinguishes: floats equal to integers,
floats with a fraction, rounding, the three ways to spell a whole float, overflow, sizes of text in bytes
and in characters. `Shortest` was compared with the code on
thousands of floats between 2^53 and 10^21. `ValidSchema` and `Verdict` are the two halves of `schema.py`. `Check`
is `_Validator` in its order of errors. `Eval` is `_Runtime._eval`: it returns the value or the error code,
the number of evaluations, and, as history, the most that was asked of each limit, computed from the
canonical texts of the values and not from the running totals. A run goes through `Validate`, `Admit`,
`Evaluate`, `Release`; `Store` then replaces program and input by what a reader of the store
gets (floats without fraction become the integers they are spelled as, fields are sorted) and the run starts
over. It records whether the run rounded a float, and whether it met one, in its program, its input or a value
it computed, that is not spelled as the integer it equals. The first runs of the model and those of the
engine itself were compared on all programs, inputs and limits of the instance, with a float range
nothing reaches; they differed only where a result is no multiple of one half.

**StreamedCalls.** `Slot`, `Merged` and `Assemble` are `_streamed_call_slot`, `_merge_streamed_call` and
the body of the loop around them. A step takes in one fragment; what its chunk has so far is in `chunk`, from which
follow its position and what the provider may send next. The provider is external: it has calls to say, and sends fragments in one of five
ways, each with or without repeating everything so far. `single`: one call, with ids, with an id on the first
fragment or without; `turns`: one call after the other, an id on the first fragment; `aligned`: a
fragment of every call in every chunk; `any`: fragments of any calls in any order, an id on each;
`result`: no stream. Several calls without any ids are not among them, because the
code cannot tell them from fragments of one. Arguments are sequences of JSON tokens (braces, quotes, spaces,
anything else), so that a piece can be an object, white space, or cut within a string; objects may nest.

## Runs

| Run | Question | Expected |
|---|---|---|
| `registry_one_worker` | Does the process lock make the registry implement `Catalog`, with nothing lost? | pass |
| `registry_one_admin` | With one administrating worker and another that only reads and counts, is a healthy version ever taken for corrupted, an untested one served, a name listed that does not exist, or a version without its record? | pass |
| `registry_brick` | Are the counters really best-effort for readers? | violation |
| `routes` | Are replays earned, stored arguments valid and conflicts quarantined, whatever the sequence of requests in one worker, and do operations that load and then write implement `RouteEvidence`? | pass |
| `routes_liveness` | Do requests advance and end, do hits count replays, does repetition activate? | pass |
| `routes_answers` | Does every request end with text? | violation |
| `learning` | Is learning sound beside an administrator: serialised and bounded builds, candidates that reproduce all evidence, permanent evidence, calls that return, and together one step of `Catalog` at a time? | pass |
| `learning_conflict` | Does a contradicting output always quarantine its task? | violation |
| `learning_reactivation` | Can the learner bring a retired version back? | violation |
| `engine` | Does validation accept exactly the well-formed expressions, do the budgets stop exactly what exceeds them, and does a stored program compute the same? | pass |
| `service` | Are answers true, counters honest, tests passed and drafts distinct, when each call is several registry calls that interleave and fail, and are their steps those of `Catalog`? | pass |
| `streamed_calls` | Does a turn hold the calls the provider sent, however it cut them? | pass |

Bounds and why they are enough. Registry: one name (names share only the index, whose races are
documented as best-effort), two versions so that activation retires another one and the limit is
reached, two threads (a conflict needs two) and counters that reach their limit. `registry_one_worker` has
two programs and a revision bound of 4, which is register and activate, twice. The runs with two workers
have one program, whose second version comes after a retirement, and a bound of 5, which adds the
revival of a retired version over an active one; `registry_one_admin` also registers untested versions,
and a registration that failed and is repeated with another test outcome gives one version number two
possible contents. That several workers which write at once serve no untested version and lose no
record is proved for any number of them (`AliasesStayWellFormed`, `RecordsPrecedeAliases`). Counters
go up to 2 so that the limit is hit. Routes: two requests, two tools, a second contract version that takes
a different argument and drops the other tool, thresholds 2 and 3, so that promotion, demotion, restart
and quarantine all happen; the number of rounds is 1 where the record matters and 2 or 3 where the loop
does. Two hits at once need two replays, which `routes_liveness` has. Learning: two inputs, two outputs, one oversized pair, three programs (two that differ on an
unseen input, one that rejects it), two threads, two versions, two calls of the administrator; the
minimum of one example makes builds overlap with later examples. Model values for names, programs,
tools and arguments lose nothing, since the code only compares them. Threads and programs
are interchangeable in the runs that declare symmetry; the runs with liveness properties declare none. Deadlock is checked in the runs of the
concurrent modules but says little, since a worker may always crash; that nobody waits for ever is what
`RequestsEnd` and `CallsReturn` say. A run of the engine and a model turn do end, so it is not checked there.

Service: two sessions, so that every second step of a call meets a whole call of the other; two versions of
two programs that differ on one input, so that activation retires and the limit is reached; three changes
of the alias, which is registering, activating and retiring, or registering twice and activating one over
the other's registration, and one run. With four changes the properties hold as well, on 4.3 million
states (four minutes). Only four changes bring another activation between the two registry calls of
a `retire` without a version, so for that case the run of three says nothing and the theorem
`AnswersTrue`, which has no bound, does.

Engine: every operation of the language over literals of every type, the inputs and a variable
out of scope; map, filter and sort with one or two variables, with and without equal names, over good and
bad sources; a loop within a loop; arrays in arrays and objects in sums; twelve schemas on the input and on the
output. Six sets of limits each bring some budgets into reach: one has room for all, one small
collections, one a small depth, few bits and small exponents, one few evaluations, nodes and input bytes, and two
an output limit just below and just above common values. Each limit is both met and exceeded.
Floats have three binary digits (`MaxExact` = 4) and end at 64, with exponents from 56 on, so that 40 is spelled 40, 32 and
48 are spelled 30 and 50, and 56 and 64 are spelled 5.6e+1 and 6e+1: literals, operations, inputs, enumerations
and bounds have floats of all three kinds. Streams: one or two calls, whose arguments are empty, an
object, an object after white space, an object that begins like its own prefix, objects in an object, malformed, or
malformed with an object at the end; every
place to cut them and every order the provider's way allows, with up to two fragments in a chunk
(`MaxFragments`). Two calls are enough for a fragment to
go astray, and two positions for them to differ; the theorems hold for any number of both.

Fairness. Two runs assume strong fairness of a request's (a call's) own steps taken together: `Serve(r)`,
`Progress(t)`. It stands for three facts: the model, a tool and the builder return or raise; a thread
runs on and its store calls return or raise; and no thread waits for a lock for ever while others take it in turn (an `RLock` wakes a
waiter, and the critical sections are short and free of calls that block on other threads). Strong
rather than weak, because waiting for a lock disables the step from time to time. Nothing is assumed of
the choices: that the model ever ends a conversation is not assumed, the bound on rounds does it.
`RepetitionActivates` states its environment itself: from some point on no store failure, crash or
invalidation, and tool runs that keep succeeding on the cold path; its instance has one tool, one call and
one threshold.

## What the checks show beyond the code

- With one worker the registry is linearisable at the alias write (`ImplementsCatalog`), failures and
  crashes included: a registration that raised has either happened entirely or left an unused record.
- With several administrating workers updates are lost, as the docs say, but no alias becomes
  malformed and no version loses its record.
- The counters are less harmless than documented (`registry_brick`): they are keyed by version number,
  carry a content hash, and every read checks them. Two learners in two workers are enough.
- Learning stops looking for contradictions as soon as any version exists (`learning_conflict`).
- A route conflict can go unnoticed between two workers, since observe_success loads and writes without
  compare-and-swap. With `Workers = {w1, w2}` and `WorkerOf <- MCTwoWorkers` in `Routes.cfg`, TLC shows
  `ConflictsQuarantine` violated; the docs name such races for the registry and not for routes
  (`docs/ARCHITECTURE.md:97-98`).
- Within one worker the store operations of a request, each a load and a write, act on the evidence as single
  steps (`ImplementsEvidence`), also when the write raises and was applied. That is false between workers, for the same reason as above.
- A request takes at most `MaximumIterations + 6` steps, whatever the model asks for (`RequestsAdvance`).
- Learner and administrator, who share no lock, still move the catalog one version at a time: what each
  registry call checks again under the registry's own lock is enough (`ImplementsCatalog` of `Progressive` and
  of `Service`).
- `service.crystallize` registers and activates in two critical sections, so a retirement in between is
  undone (`learning_reactivation`).
- Between the two registry calls of a service call nothing happens that makes its answer wrong
  (`AnswersWereTrue`). `execute` may return the result of a version that was retired meanwhile, and
  `retire` without a version may retire one that another activation has just replaced; in both cases the
  version was the active one during the call, so the call behaves as if made at that moment. A miss may
  name a latest version that came after it looked.
- An answer that says `telemetry_recorded` is counted, and failures and crashes lose no other
  (`CountersMatchAnswers`). A crystallization that raised may be repeated: its version is found again by
  its program (`DraftsAreDistinct`). The tests kept with a version are those of its first crystallization,
  and the program passes the later ones too (`VersionsPassTheirTests`).
- The engine's running totals are exact: an evaluation fails with a limit error if and only if the
  canonical text of something it builds, or its steps, exceed a limit (`BudgetsAreExact`). The forecasts of
  replace, split and join count bytes right where upper case or empty separators change them.
- `UNBOUND_VARIABLE` and `DUPLICATE_VARIABLE` are static errors only: no validated program meets them.
- Storing a program changes it (2.0 becomes 2, fields are sorted) and yet not its results
  (`StoredProgramsAgree`), because equality, order, sums and sort keys take numbers by value. Three limits
  of that: an output schema of type integer rejects 2.0 and accepts the stored 2. A run that rounds a
  float may compute something else from the stored integers (x + 1 for 9007199254740992.0 gives ...992
  first and ...993 from the store). And a large float without fraction is not always stored as the integer it
  equals (`canonical.py:46-62`): between 2^54 and 10^21 it may come back as another integer, so that for the float 2^57
  `mod(x, 16)` is 0 first and 14 from the store and `eq(x, 2^57)` turns from true to false, and from
  10^21 on its text has an exponent, which that of the equal integer has not: 3.0 times 5e20 is `1.5e+21` first and
  `1500000000000000000000` from the store. The last two are against 'Receipts prove replay equivalence'
  (`docs/ARCHITECTURE.md:132`); the real engine does all of this. Without its premise
  `~first[1].rounded`, or without `~first[1].respelled`, the property fails in `engine`.
- Errors are not always structured, against 'the result or structured error is the same'
  (`engine.py:35-36`): a schema with `"required": null` or `"properties": null` passes `validate_schema`
  and makes `_validate_value` raise TypeError (`schema.py:378`, `:387`), and `sum` adds outside the guard of
  `_numeric` (`engine.py:1267`), where an integer beyond the float range and a float raise OverflowError.
  Both are outcomes of the model, `TypeError` and `OverflowError`.
- A stream is put together right for the five kinds of providers (`CallsAreThoseSent`). The test for a
  cumulative fragment can misfire: a piece that begins with all of the arguments before it replaces them
  (`{"` followed by `{"...`). Well-formed arguments then end in a parse error and never in a wrong call;
  malformed ones may pass: `{{}`, cut after its first brace, is taken for `{}`. Both are proved to be all that
  can happen (`CallsAreThoseSent`, `ErrorsAreEarned`). Names are sent whole; a name split like pa-pa would be cut.
- `_Validator._literal_collections` is never called.
- A request whose model ends with empty text after a successful tool sends no text (`routes_answers`).
- Some code cannot be reached: the `build_deferred` branch of `_learn` (the cursor never reaches the new
  count, by `TypeOK`), and, through the strategy, `ARGUMENTS_NO_LONGER_VALID` (by
  `StoredArgumentsAreValid`: equal contracts accept equal arguments) and `TOOL_NOT_READ_ONLY`.

## Proofs

The theorems hold for every set of names, programs, threads, workers, requests, sessions, tools and values, finite
or not, and every value of the bounds that satisfies the named assumptions of the modules, which TLC
evaluates on each instance. Each proof goes through an inductive invariant; the
safety properties that the runs check are not inductive by themselves, because they speak of
what is stored, and what will be stored next is held by an operation under way.

**Registry** (`RegistryProofs`).

- `TypeCorrect`: `Spec => []TypeOK`. Each step is reduced to one of three shapes: a call begins an
  operation whose alias is a well-typed edit of the stored one (`CallsBegin`), a step moves on or ends
  (`StepMoves`), and at most one key is written, by what the operation holds (`PutType`).
- `RecordsPrecedeAliases` and `AliasesStayWellFormed`, from `AliasInv`, which says the same of the
  aliases that operations carry, and allows exactly one of their records
  to be missing while a register is at its first write. It needs no assumption about who writes: a lost
  update replaces one sound alias by another.
- `VersionsKept` and `ReadsSound`, under `SingleAdministrator` (at most one worker administers), from
  `SerialInv`: the holder of that worker's lock is the only operation with an edited
  alias, the stored alias is still a prefix of it, and counters carry the content of the version they are
  stored for. Without the assumption both are false, as `registry_brick` shows.

**Registry as a catalog** (`RegistryCatalogProofs`, on top of those invariants).

- `IndexedNames` from `IndexInv`, for any workers: an operation that will index a name has seen a version of
  it, and so has every name in the copy of the index it holds; racing writers may drop versions and names,
  and yet never bring a name back to no version at all.
- `RunsCounted` from `RunsInv`, under `SingleWorker`: the counters about to be written are those stored,
  plus one. Two workers lose counts, as the docs say.
- `RegistryImplementsCatalog`, under `SingleAdministrator`: what a writer carries is, until it is written, one
  edit of the stored alias (`EditInv`: it appends a version, serves one or withdraws one). `EditInv` is
  inductive only next to `SerialInv`, which keeps others from writing meanwhile. Each
  of the three edits maps to a step of `Catalog`, every other step of any thread to a stutter.

**Routes** (`AgentStrategyProofs`).

- `TypeCorrect` from `TypeInv`: a record about to be written passes `_validate_state` as well.
- `ReplaysEarned` and `StoredArgumentsValid` from `EvidenceInv`, for any number of workers. The number of
  observations a record claims is backed by runs that succeeded *and have been observed*: runs whose
  observation is still to come are set aside (`Pending`), else a request between its run and
  its observation could be counted for another's. Racing writers overwrite each other's records, but each record is
  backed by itself.
- `ConflictsQuarantined`, under `SingleWorker`, from `LockInv` and `CurrentInv`: what a request is about to
  write is what the operation would make of the record stored now. Between workers it is false (see above).
- `HitsCounted`, under `SingleWorker`, from `HitInv`: stored hits and replays whose hit is not yet recorded
  are together no more than the replays.
- `RequestsOnlyAdvance`, for any number of workers, from `TypeInv` alone: `StepsLeft` of a request falls with each of its
  steps, so it takes at most `MaximumIterations + 6` of them. It is the part of `RequestsEnd` that does not
  need fairness: what remains is that a request which can go on does.

**Routes as evidence** (`RouteEvidenceProofs`, on top of those invariants).

- `StrategyImplementsEvidence`, under `SingleWorker`, from `TypeInv`, `LockInv` and `CurrentInv`. Lemmas say what each of the
  four operations makes of the evidence of a record when it changes it (`LookupEvidence`, `HitEvidence`, `RevokedEvidence`,
  `ObservedEvidence`). `CurrentInv` makes each write one of these changes of the record stored now
  (`Written`), also a write that was applied and then raised; whatever else fails or crashes is `Forget`. A replay is planned at two
  observations or more because thresholds are (`BoundsAssumption`, from `ge=2` in the code).

**Learning** (`ProgressiveProofs`), from `IInv`, the conjunction of four.

- `TypeCorrect` from `TypeInv`: each call also has what its next step needs.
- `OneBuild` from `BuildInv`: the mark in `_BUILDING` is there for exactly as long as one thread builds,
  through every way a build ends.
- `BuilderCalls` from `CursorInv`: the cursor written before the builder is called has paid for the calls
  made and the one it announces; a failed write may pay for nothing, never the reverse.
- `LearningImplementsCatalog`, from `TypeInv` and `TestedInv` (every stored version is marked as tested): learner and administrator
  share no lock, so nothing is known of the alias but its type when either acts. Every change of it by anyone is one of
  three guarded edits (`AliasMoves`), and the lemmas of `CrystalAliasProofs` say what each makes of the set of
  retired versions.
- `CandidatesReproduce` and `EvidenceKept` from `LockInv`: the check of a candidate and its registration are
  one section of the lock, so the examples it was tested against are those retained when it is registered.

**Service** (`ServiceProofs`), from `IInv`, the conjunction of three.

- `TypeCorrect`, `TestsPassed` and `OneDraft` from `AliasInv`: every version passes the tests kept with it, and no
  two drafts have one program.
- `AnswersTrue` from `CallInv`: what a call has read (`Knows`) is the state of a version that the
  call has coincided with, so any answer it gives later was true at that moment, whoever has
  changed the alias since.
- `CountersTrue` from `BooksInv`: for each version, the counted runs and the runs still to be recorded are
  together no more than the runs. The calls at that point are finitely many although sessions need not be.
- `ServiceImplementsCatalog` from `AliasInv`: activation serves a version that passed its tests, registration
  adds one whose program is in no version in use, and a retirement decided on before (`select`) withdraws a version that exists.

**Streams** (`StreamedCallsProofs`), from `IInv`.

- `TypeCorrect` and `IdsKept` from `RouteInv`: a slot is a call that has begun, and the lookups lead from what a
  fragment bears, its id or only its position, to the slot of its call. For each way without an id on every
  fragment there is a reason of its own: only one call (`single`), only the last call is open and the
  first position is its (`TurnsInv`), or slots, positions and calls are numbered alike (`AlignedInv`).
- `CallsSent` and `ErrorsEarned` from `TextInv` beside it. What a call holds is what was sent of it without a
  beginning that was replaced. That beginning is white space, which counts for nothing in an object
  (`ParsedRest`), or it ends in an echo, and then what is left of an object begins with a brace that is not its
  first and is no object (`TailIsNoObject`); a later echo keeps either so (`PieceJoins`). The arguments are
  counted rather than parsed by recursion, so the lemmas need no induction over data.

The lemmas about aliases are in `CrystalAliasProofs`, for contents of any kind, so that `Progressive` and `Service` share them.

Assumptions used: those of `Registry` (`WorkersAssumption`, `BoundsAssumption`, `AbsentAssumption`), of
`AgentStrategy`, `Progressive` and `Service`, `StreamsAssumption` (what a provider may send: names that are not empty,
distinct ids, and ids where calls could not be told apart otherwise), among them that `MaxCounter` is at least 1 and that the value for "none" is
no input, program or answer; and `SingleAdministrator` or `SingleWorker` where named, which are hypotheses of
the theorems and not of the modules, since several workers are possible and the other theorems
cover them.

Only model-checked:

- The liveness properties `RequestsEnd`, `RepetitionActivates` and `CallsReturn`: their premises are
  fairness and `ENABLED`, which the prover does not handle.
- All of `Engine`: evaluation, canonical text and schemas are recursion over the structure of expressions and values, and
  what a recursive definition computes for every input needs induction over data.

## Not modelled

Errors and tool adapters (exception types; parsing of parameters and one call each) and the tool
`progressive_run`, which binds a task to a name, wraps the host's model as fallback and builder, and formats a result. In the
strategy the conversion of tool parameters into contracts, the relay of a tool's messages, prompts and logs. In
the engine the shape of JSON nodes (unknown and missing keys, names that are no identifiers, cyclic
values), lone surrogates, and evaluation of a bare expression with the caller's variables; in the
schemas keywords of a wrong type, which are rejected, and the nesting limit; of canonical JSON its text and
hashes. In the registry `unsafe=True` and the arguments `expected_*` that only raise; in the service
`status`, which reads and repairs the index, and the checks of parameters and engine versions that only
answer with an error; learners in several workers;
corruption of the store by others. Overflow of the revision and conflict counters of routes (2^63) is left
out with those counters.

## Plan

1. Done: `CrystalAlias`, `Registry`, `Catalog`; `AdaptiveRoute`, `AgentStrategy`;
   `Progressive`; `JsonValues`, `Schema`, `EngineOperators`, `Engine`; `StreamedCalls`; `Service`.
2. Done: every invariant and action property that is checked of `Registry`, `AgentStrategy`, `Progressive`, `Service` and
   `StreamedCalls` is a theorem, and so are the refinements: `Catalog` by `Registry`, `Service` and `Progressive`, and
   `RouteEvidence` by `AgentStrategy`.
3. Open: the liveness properties and `Engine` stay with TLC, for the reasons above.
4. Learners of several workers, with the laws that survive them.
