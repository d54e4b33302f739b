---------------------------- MODULE AgentStrategy ----------------------------
(***************************************************************************)
(* strategies/progressive_function_calling.py over the route store: the     *)
(* requests that share one route key, each served by a thread of a worker.  *)
(*                                                                          *)
(* The threads of a worker share _PROCESS_LOCK of adaptive_routes.py for    *)
(* the load and the write of one store operation; workers share the store   *)
(* alone.  What the model answers and whether a tool succeeds is open, and  *)
(* so are the allowlist and the threshold a request is configured with: the *)
(* route key binds the names of the tools, not their contracts.             *)
(*                                                                          *)
(* A request that fails before it looks the route up (parameters, setup)    *)
(* or whose store cannot be built leaves the state alone and is left out.   *)
(***************************************************************************)
EXTENDS AdaptiveRoute, FiniteSets

CONSTANTS
  Tools, Versions, Arguments,
  Accepts,           \* [Versions -> SUBSET Arguments]: arguments_schema
  Grounded,          \* the arguments that ground the query (_route_is_grounded)
  Offers,            \* the allowlists a request may come with
  Thresholds,        \* the thresholds a request may come with
  Requests, Workers,
  WorkerOf,          \* [Requests -> Workers]
  MaximumIterations, \* MAXIMUM_ITERATIONS
  Enough,            \* the history of runs counts up to here
  MaxReplays         \* exploration bound on successful warm runs

Calls == [tool : Tools, version : Versions, arguments : Arguments]

ASSUME RequestsAssumption ==
  /\ WorkerOf \in [Requests -> Workers]
  /\ Offers \subseteq [Tools -> Versions \cup {Absent}]
  /\ Accepts \in [Versions -> SUBSET Arguments]
  /\ Absent \notin Versions \cup Requests \cup Calls

(* threshold is a field with ge=2, and MAX_COUNTER is far beyond le=20. *)
ASSUME BoundsAssumption ==
  /\ MaxCounter \in Nat \ {0} /\ Enough \in Nat /\ MaxReplays \in Nat
  /\ MaximumIterations \in Nat \ {0}
  /\ Thresholds \subseteq 2..Enough
  /\ Enough <= MaxCounter

VARIABLES
  route,      \* the stored record
  lock,       \* _PROCESS_LOCK of each worker: the request that holds it
  req,        \* the request in each slot, or Idle
  runs,       \* history: successful runs of each call that the model chose
  replays,    \* history: successful warm runs
  confirmed,  \* history: record_hit calls that counted and returned
  witnessed   \* history: the calls observed since evidence was last discarded

history == <<runs, replays, confirmed, witnessed>>
vars == <<route, lock, req, runs, replays, confirmed, witnessed>>

(* A request: where it is, its configuration, the call it replays or        *)
(* observes, the record it is about to write, the round of the cold path,   *)
(* whether a tool succeeded, and whether the user was sent any text.        *)
Request(stage, offered, threshold) ==
  [stage |-> stage, offered |-> offered, threshold |-> threshold, call |-> Absent,
   update |-> Unseen, round |-> 1, succeeded |-> FALSE, answered |-> FALSE]

Idle == Request("idle", [t \in Tools |-> Absent], 0)

(* A request that has the answer: what it does not need any more is gone.   *)
At(stage, c, threshold) ==
  [Idle EXCEPT !.stage = stage, !.call = c, !.threshold = threshold]

(* A request that has only its metadata left to send. *)
Settled(answered) == [Idle EXCEPT !.stage = "report", !.answered = answered]

Init ==
  /\ route = Unseen
  /\ lock = [w \in Workers |-> Absent]
  /\ req = [r \in Requests |-> Idle]
  /\ runs = [c \in Calls |-> 0]
  /\ replays = 0
  /\ confirmed = 0
  /\ witnessed = {}

CountedUp(n) == IF n < Enough THEN n + 1 ELSE n

-----------------------------------------------------------------------------
(* Store operations. *)

(* Where a request goes when an operation has left the record as s. *)
Resume(r, s) ==
  CASE req[r].stage \in {"lookup", "lookup_write"} /\ s.status = "active" ->
         [req[r] EXCEPT !.stage = "warm", !.call = s.call, !.update = Unseen]
    [] req[r].stage \in {"lookup", "lookup_write"} /\ s.status # "active" ->
         [req[r] EXCEPT !.stage = "cold", !.update = Unseen]
    [] req[r].stage \in {"revoke", "revoke_write"} -> Idle
    [] OTHER -> Settled(TRUE)

(* An operation that raises: lookup is taken for a miss, and the failure of *)
(* an observation or of a hit record is suppressed.                         *)
Abandon(r) == Resume(r, Unseen)

(* A variant of Load that does not take the lock. *)
LoadUnlocked(r, pending, update) ==
  /\ req' = [req EXCEPT ![r] = IF update = route THEN Resume(r, route)
                               ELSE [@ EXCEPT !.stage = pending, !.update = update]]
  /\ UNCHANGED <<route, lock, history>>

(* An operation loads the record under the lock, and holds the lock until   *)
(* it has written the record, if it changes it at all.                      *)
Load(r, pending, update) ==
  /\ lock[WorkerOf[r]] = Absent
  /\ IF update = route
     THEN req' = [req EXCEPT ![r] = Resume(r, route)] /\ UNCHANGED lock
     ELSE /\ req' = [req EXCEPT ![r].stage = pending, ![r].update = update]
          /\ lock' = [lock EXCEPT ![WorkerOf[r]] = r]
  /\ UNCHANGED <<route, history>>

Lookup(r) ==
  /\ req[r].stage = "lookup"
  /\ Load(r, "lookup_write", AfterLookup(route, req[r].offered, req[r].threshold))

RecordHit(r) ==
  /\ req[r].stage = "hit"
  /\ Load(r, "hit_write", HitRecorded(route))

ObserveSuccess(r) ==
  /\ req[r].stage = "observe"
  /\ Load(r, "observe_write", Observed(route, req[r].call, req[r].threshold))

Invalidate(r) ==
  /\ req[r].stage = "revoke"
  /\ Load(r, "revoke_write", Revoked(route))

Writing == {"lookup_write", "hit_write", "observe_write", "revoke_write"}

Witnessed(r) ==
  LET u == req[r].update
  IN  CASE u.status = "invalidated" -> {}
        [] req[r].stage = "observe_write" /\ u.status = "learning" /\ u.observations = 1 ->
             {u.call}
        [] req[r].stage = "observe_write" /\ u.observations # 1 -> witnessed \cup {req[r].call}
        [] req[r].stage = "observe_write" /\ u.status = "quarantined" ->
             witnessed \cup {req[r].call}
        [] OTHER -> witnessed

Put(r) ==
  /\ route' = req[r].update
  /\ witnessed' = Witnessed(r)

(* A variant of Release that keeps the lock. *)
ReleaseNothing(r) == req[r].stage \in Writing /\ UNCHANGED lock

Release(r) == lock' = [lock EXCEPT ![WorkerOf[r]] = Absent]

WriteState(r) ==
  /\ req[r].stage \in Writing
  /\ Put(r)
  /\ Release(r)
  /\ req' = [req EXCEPT ![r] = Resume(r, req[r].update)]
  /\ confirmed' = IF req[r].stage = "hit_write" THEN confirmed + 1 ELSE confirmed
  /\ UNCHANGED <<runs, replays>>

(* A read or a write of the store fails; the write may have been applied.   *)
ReadFails(r) ==
  /\ req[r].stage \in {"lookup", "hit", "observe", "revoke"}
  /\ lock[WorkerOf[r]] = Absent
  /\ req' = [req EXCEPT ![r] = Abandon(r)]
  /\ UNCHANGED <<route, lock, history>>

WriteFails(r) ==
  /\ req[r].stage \in Writing
  /\ Put(r) \/ UNCHANGED <<route, witnessed>>
  /\ Release(r)
  /\ req' = [req EXCEPT ![r] = Abandon(r)]
  /\ UNCHANGED <<runs, replays, confirmed>>

-----------------------------------------------------------------------------
(* Requests. *)

Start(r) == \E offered \in Offers, threshold \in Thresholds :
  /\ req[r] = Idle
  /\ req' = [req EXCEPT ![r] = Request("lookup", offered, threshold)]
  /\ UNCHANGED <<route, lock, history>>

(* The host invalidates the route by hand. *)
StartRevocation(r) ==
  /\ req[r] = Idle
  /\ req' = [req EXCEPT ![r].stage = "revoke"]
  /\ UNCHANGED <<route, lock, history>>

(* _run_crystal runs the planned call; a hit is recorded once it succeeded, *)
(* and a failure sends the same request down the cold path.                 *)
RunCrystal(r) ==
  /\ req[r].stage = "warm"
  /\ \/ /\ replays < MaxReplays
        /\ req' = [req EXCEPT ![r] = At("hit", Absent, 0)]
        /\ replays' = replays + 1
     \/ /\ req' = [req EXCEPT ![r].stage = "cold", ![r].call = Absent]
        /\ UNCHANGED replays
  /\ UNCHANGED <<route, lock, runs, confirmed, witnessed>>

(* A variant of NextRound in which a first success starts the count over. *)
NextRoundAfresh(r, succeeded, answered) ==
  req' = [req EXCEPT ![r] =
    IF req[r].round < MaximumIterations
    THEN [req[r] EXCEPT !.round = IF req[r].succeeded = succeeded THEN @ + 1 ELSE 1,
                        !.succeeded = succeeded]
    ELSE Settled(answered)]

(* The end of a round that did not settle the request: the loop goes on, or *)
(* is over, and the fallback text is for requests no tool succeeded in.     *)
NextRound(r, succeeded, answered) ==
  req' = [req EXCEPT ![r] =
    IF req[r].round < MaximumIterations
    THEN [req[r] EXCEPT !.round = @ + 1, !.succeeded = succeeded]
    ELSE Settled(answered)]

(* A round in which the model raises: _invoke reports the error. *)
ModelFails(r) ==
  /\ req[r].stage = "cold"
  /\ req' = [req EXCEPT ![r] = Settled(TRUE)]
  /\ UNCHANGED <<route, lock, history>>

(* A round without a tool call ends the loop, with text or with none. *)
Conclude(r) == \E text \in BOOLEAN :
  /\ req[r].stage = "cold"
  /\ req' = [req EXCEPT ![r] = Settled(text \/ ~req[r].succeeded)]
  /\ UNCHANGED <<route, lock, history>>

(* A variant of Evidence that does not ask the contract. *)
EvidenceUnchecked(c) == c.arguments \in Grounded

(* A round with one call, of an allowlisted tool, that succeeds: its output *)
(* is the answer, and it is observed first if the query grounds it and the  *)
(* contract accepts its arguments.                                          *)
Evidence(c) == c.arguments \in Grounded \cap Accepts[c.version]

RunDirect(r) == \E c \in Calls :
  /\ req[r].stage = "cold"
  /\ Contracted(c, req[r].offered)
  /\ IF Evidence(c)
     THEN /\ req' = [req EXCEPT ![r] = At("observe", c, req[r].threshold)]
          /\ runs' = [runs EXCEPT ![c] = CountedUp(@)]
     ELSE /\ req' = [req EXCEPT ![r] = Settled(TRUE)]
          /\ UNCHANGED runs
  /\ UNCHANGED <<route, lock, replays, confirmed, witnessed>>

(* The same call fails.  In the last round, this skips the code that would  *)
(* send the output of an earlier success.                                   *)
DirectFails(r) == \E t \in Tools :
  /\ req[r].stage = "cold"
  /\ req[r].offered[t] # Absent
  /\ NextRound(r, req[r].succeeded, ~req[r].succeeded)
  /\ UNCHANGED <<route, lock, history>>

(* A round with several calls, or with one of a tool that is not on the     *)
(* allowlist; in the last one the last success is the answer.               *)
RunOthers(r) == \E success \in BOOLEAN :
  /\ req[r].stage = "cold"
  /\ NextRound(r, req[r].succeeded \/ success, TRUE)
  /\ UNCHANGED <<route, lock, history>>

(* The metadata message ends a request. *)
Report(r) ==
  /\ req[r].stage = "report"
  /\ req' = [req EXCEPT ![r] = Idle]
  /\ UNCHANGED <<route, lock, history>>

(* A worker crashes with its requests. *)
Crash(w) ==
  /\ req' = [r \in Requests |-> IF WorkerOf[r] = w THEN Idle ELSE req[r]]
  /\ lock' = [lock EXCEPT ![w] = Absent]
  /\ UNCHANGED <<route, history>>

-----------------------------------------------------------------------------
Serve(r) ==
  \/ Lookup(r) \/ RecordHit(r) \/ ObserveSuccess(r) \/ Invalidate(r) \/ WriteState(r)
  \/ RunCrystal(r) \/ RunDirect(r) \/ DirectFails(r) \/ RunOthers(r) \/ Conclude(r)
  \/ ModelFails(r) \/ Report(r)

StoreFails(r) == ReadFails(r) \/ WriteFails(r)

Next ==
  \/ \E r \in Requests : Start(r) \/ StartRevocation(r) \/ Serve(r) \/ StoreFails(r)
  \/ \E w \in Workers : Crash(w)

Spec == Init /\ [][Next]_vars

(* A request under way is served on, which takes that the model and the     *)
(* tools return and that no thread waits for the lock for ever.             *)
FairSpec == Spec /\ \A r \in Requests : SF_vars(Serve(r))

-----------------------------------------------------------------------------
(* Properties. *)

Stages == Writing \cup {"idle", "lookup", "hit", "observe", "revoke", "warm", "cold", "report"}

Routes == [status : Statuses, reason : Reasons, observations : 0..MaxCounter,
           hits : 0..MaxCounter, call : Calls \cup {Absent}]

RequestStates ==
  [stage : Stages, offered : [Tools -> Versions \cup {Absent}], threshold : Nat,
   call : Calls \cup {Absent}, update : Routes, round : 1..MaximumIterations,
   succeeded : BOOLEAN, answered : BOOLEAN]

(* Every variable holds what the code can store in it, and every record     *)
(* that is stored or about to be passes _validate_state.                    *)
TypeOK ==
  /\ route \in Routes /\ ValidRoute(route)
  /\ lock \in [Workers -> Requests \cup {Absent}]
  /\ req \in [Requests -> RequestStates]
  /\ \A r \in Requests : ValidRoute(req[r].update)
  /\ runs \in [Calls -> 0..Enough]
  /\ replays \in 0..MaxReplays /\ confirmed \in Nat
  /\ witnessed \subseteq Calls

(* A call is replayed only after the model itself chose it, under the very  *)
(* contract the request offers, and it succeeded, as often as the request's *)
(* threshold says - whatever failed, crashed or changed in between.         *)
ReplaysAreEarned ==
  \A r \in Requests : req[r].stage = "warm" =>
    /\ runs[req[r].call] >= req[r].threshold
    /\ Contracted(req[r].call, req[r].offered)

(* The stored arguments always satisfy the schema of the stored contract,   *)
(* which is why lookup never meets ARGUMENTS_NO_LONGER_VALID.               *)
StoredArgumentsAreValid ==
  route.call # Absent => route.call.arguments \in Accepts[route.call.version]

(* A route that may be replayed, now or after more observations, has only   *)
(* ever been contradicted by calls whose evidence was discarded since: two  *)
(* calls observed for one request quarantine it instead of guessing.        *)
ConflictsQuarantine == Learned(route) => witnessed \subseteq {route.call}

(* The hit counter counts successful replays, and misses none whose         *)
(* recording returned.                                                      *)
HitsAreReplays == confirmed <= route.hits /\ route.hits <= replays

(* A request that ends has sent its user some text. *)
EveryRequestAnswered == \A r \in Requests : req[r].stage = "report" => req[r].answered

(* The most steps a request has left: the rounds of the cold path, and the  *)
(* store operations before and after them.                                  *)
StepsLeft(q) ==
  CASE q.stage = "idle" -> 0
    [] q.stage = "report" -> 1
    [] q.stage \in {"hit_write", "observe_write", "revoke_write"} -> 2
    [] q.stage \in {"hit", "observe", "revoke"} -> 3
    [] q.stage = "cold" -> 4 + MaximumIterations - q.round
    [] q.stage = "warm" -> 4 + MaximumIterations
    [] q.stage = "lookup_write" -> 5 + MaximumIterations
    [] q.stage = "lookup" -> 6 + MaximumIterations

(* No step, of the request or of another, of the store or of a crash, takes *)
(* a request back: whatever the model asks for and whatever fails, every    *)
(* step of a request under way leaves it with fewer.                        *)
RequestsAdvance ==
  [][\A r \in Requests :
       req[r].stage = "idle" \/ req'[r] = req[r] \/ StepsLeft(req'[r]) < StepsLeft(req[r])]_vars

(* Every request and every revocation comes to its end: the lock is always  *)
(* given back and the cold path is bounded.                                 *)
RequestsEnd == \A r \in Requests : req[r].stage # "idle" ~> req[r].stage = "idle"

(* From now on requests are only started and served: no store call fails,   *)
(* no worker crashes and nobody invalidates the route.                      *)
Undisturbed == [][\E r \in Requests : Start(r) \/ Serve(r)]_vars

(* Where one configuration is in use and the model always chooses one call  *)
(* (which an instance states by its constants), a call that keeps           *)
(* succeeding on the cold path makes its route active for good, once        *)
(* nothing disturbs the requests any more.                                  *)
RepetitionActivates ==
  <>Undisturbed /\ []<><<\E r \in Requests : RunDirect(r)>>_vars
    => <>[](route.status = "active")
(* What RouteEvidence.tla sees of a request. *)
Doing(q) ==
  CASE q.stage \in {"observe", "observe_write"} -> [does |-> "success", call |-> q.call]
    [] q.stage = "warm" -> [does |-> "plan", call |-> q.call]
    [] q.stage \in {"hit", "hit_write"} -> [does |-> "replay", call |-> Absent]
    [] OTHER -> [does |-> "nothing", call |-> Absent]

Promise == INSTANCE RouteEvidence WITH
  Nothing <- Absent, Limit <- MaxCounter,
  call <- route.call, count <- route.observations, hits <- route.hits,
  disputed <- route.status = "quarantined",
  doing <- [r \in Requests |-> Doing(req[r])]

(* The requests of one worker work on the record as if each store operation *)
(* were one step: no observation or hit is lost to a race, counted twice or *)
(* counted for another call, and no replay goes by a record that a write    *)
(* under way was about to change.                                           *)
ImplementsEvidence == Promise!Spec
=============================================================================
