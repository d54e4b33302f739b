------------------------- MODULE AgentStrategyProofs -------------------------
(***************************************************************************)
(* Theorems about AgentStrategy.tla, for any number of requests, tools,     *)
(* contracts and, where nothing else is said, workers.                      *)
(***************************************************************************)
EXTENDS AgentStrategy, TLAPS, FiniteSetTheorems

-----------------------------------------------------------------------------
(* What the operations make of a record that _validate_state accepts: such  *)
(* a record, with the hits it had, and evidence for a call it had or for    *)
(* the one observed.                                                        *)

Records == {s \in Routes : ValidRoute(s)}

Offered == [Tools -> Versions \cup {Absent}]

LEMMA UnseenType == Unseen \in Records /\ ~Learned(Unseen)
<1>1. Unseen \in Routes
  BY BoundsAssumption DEF Unseen, Routes, Statuses, Reasons
<1>2. ValidRoute(Unseen) /\ ~Learned(Unseen)
  BY DEF Unseen, ValidRoute, Learned
<1>3. QED
  BY <1>1, <1>2 DEF Records

LEMMA RecordFacts ==
  ASSUME NEW s \in Records
  PROVE  /\ s \in Routes /\ ValidRoute(s)
         /\ s.status \in Statuses /\ s.reason \in Reasons
         /\ s.observations \in 0..MaxCounter /\ s.hits \in 0..MaxCounter
         /\ s.call \in Calls \cup {Absent}
         /\ s.call = Absent => s.observations = 0 /\ ~Learned(s)
         /\ Learned(s) => s.call \in Calls /\ s.observations >= 1
<1>1. s \in Routes /\ ValidRoute(s)
  BY DEF Records
<1>2. /\ s.status \in Statuses /\ s.reason \in Reasons
      /\ s.observations \in 0..MaxCounter /\ s.hits \in 0..MaxCounter
      /\ s.call \in Calls \cup {Absent}
  BY <1>1 DEF Routes
<1>3. s.call = Absent => s.observations = 0 /\ ~Learned(s)
  BY <1>1 DEF ValidRoute, Learned
<1>4. Learned(s) => s.call # Absent /\ s.observations # 0
  BY <1>1 DEF ValidRoute, Learned
<1>5. QED
  BY <1>1, <1>2, <1>3, <1>4, BoundsAssumption

LEMMA FreshType ==
  ASSUME NEW s \in Records, NEW c \in Calls, NEW threshold \in Nat
  PROVE  LET u == Fresh(s, c, threshold)
         IN  /\ u \in Records
             /\ u.hits = s.hits /\ u.call = c /\ u.observations = 1
             /\ u.status = Earned(1, threshold)
<1> DEFINE u == Fresh(s, c, threshold)
<1>1. s \in Routes
  BY DEF Records
<1>2. /\ u.status = Earned(1, threshold) /\ u.reason = "none" /\ u.observations = 1
      /\ u.hits = s.hits /\ u.call = c
  BY <1>1 DEF Fresh, Routes
<1>3. Earned(1, threshold) \in {"learning", "active"}
  BY DEF Earned
<1>4. u \in Routes
  <2>1. Earned(1, threshold) \in Statuses /\ "none" \in Reasons
    BY <1>3 DEF Statuses, Reasons
  <2>2. 1 \in 0..MaxCounter
    BY BoundsAssumption
  <2>3. QED
    BY <1>1, <2>1, <2>2 DEF Fresh, Routes
<1>5. c # Absent
  BY RequestsAssumption
<1>6. ValidRoute(u)
  BY <1>2, <1>3, <1>5 DEF ValidRoute
<1>7. QED
  BY <1>2, <1>4, <1>6 DEF Records

LEMMA InvalidatedType ==
  ASSUME NEW s \in Records,
         NEW reason \in {"TOOL_NOT_ALLOWLISTED", "TOOL_CONTRACT_CHANGED", "MANUAL_INVALIDATION"}
  PROVE  LET u == Invalidated(s, reason)
         IN  /\ u \in Records
             /\ u.hits = s.hits /\ u.call = Absent /\ u.status = "invalidated"
<1> DEFINE u == Invalidated(s, reason)
<1>1. s \in Routes
  BY DEF Records
<1>2. /\ u.status = "invalidated" /\ u.reason = reason /\ u.observations = 0
      /\ u.hits = s.hits /\ u.call = Absent
  BY <1>1 DEF Invalidated, Routes
<1>3. u \in Routes
  <2>1. "invalidated" \in Statuses /\ reason \in Reasons
    BY DEF Statuses, Reasons
  <2>2. 0 \in 0..MaxCounter
    BY BoundsAssumption
  <2>3. QED
    BY <1>1, <2>1, <2>2 DEF Invalidated, Routes
<1>4. ValidRoute(u)
  BY <1>2 DEF ValidRoute
<1>5. QED
  BY <1>2, <1>3, <1>4 DEF Records

LEMMA AfterLookupType ==
  ASSUME NEW s \in Records, NEW offered \in Offered, NEW threshold \in Nat
  PROVE  LET u == AfterLookup(s, offered, threshold)
         IN  /\ u \in Records
             /\ u.hits = s.hits
             /\ u.call # Absent => u.call = s.call /\ u.observations = s.observations
             /\ u.status = "invalidated" \/ Learned(u) = Learned(s)
             /\ u.status = "active" =>
                  u.observations >= threshold /\ Contracted(u.call, offered)
<1> DEFINE u == AfterLookup(s, offered, threshold)
<1>1. CASE ~Learned(s)
  <2>1. u = s
    BY <1>1 DEF AfterLookup
  <2>2. QED
    BY <1>1, <2>1 DEF Learned
<1>2. CASE Learned(s) /\ offered[s.call.tool] = Absent
  <2>1. u = Invalidated(s, "TOOL_NOT_ALLOWLISTED")
    BY <1>2 DEF AfterLookup
  <2>2. QED
    BY <2>1, InvalidatedType
<1>3. CASE Learned(s) /\ offered[s.call.tool] \notin {Absent, s.call.version}
  <2>1. u = Invalidated(s, "TOOL_CONTRACT_CHANGED")
    BY <1>3 DEF AfterLookup
  <2>2. QED
    BY <2>1, InvalidatedType
<1>4. CASE Learned(s) /\ offered[s.call.tool] # Absent /\ offered[s.call.tool] = s.call.version
  <2>1. u = [s EXCEPT !.status = Earned(s.observations, threshold)]
    BY <1>4 DEF AfterLookup
  <2>2. /\ u.status = Earned(s.observations, threshold)
        /\ u.hits = s.hits /\ u.call = s.call /\ u.observations = s.observations
        /\ u.reason = s.reason
        /\ u \in Routes
    BY <2>1, RecordFacts DEF Routes, Earned, Statuses
  <2>3. ValidRoute(u)
    BY <1>4, <2>2, RecordFacts DEF ValidRoute, Learned, Earned
  <2>4. QED
    BY <1>4, <2>2, <2>3, RecordFacts DEF Records, Learned, Earned, Contracted
<1>5. QED
  BY <1>1, <1>2, <1>3, <1>4

LEMMA ObservedType ==
  ASSUME NEW s \in Records, NEW c \in Calls, NEW threshold \in Nat
  PROVE  LET u == Observed(s, c, threshold)
         IN  /\ u \in Records
             /\ u.hits = s.hits
             /\ \/ u = s
                \/ u.call = c /\ u.observations = 1 /\ u.status = Earned(1, threshold)
                \/ /\ Learned(s) /\ s.call = c /\ u.call = c
                   /\ u.observations = s.observations + 1 /\ Learned(u)
                \/ /\ u.call = s.call /\ u.observations = s.observations
                   /\ u.status = "quarantined"
<1> DEFINE u == Observed(s, c, threshold)
<1>1. CASE s.status = "quarantined" \/ (Learned(s) /\ s.call = c /\ s.observations = MaxCounter)
  <2>1. u = s
    BY <1>1, RecordFacts DEF Observed, Learned
  <2>2. QED
    BY <2>1
<1>2. CASE \/ s.status \in {"unseen", "invalidated"}
           \/ Learned(s) /\ s.call.tool = c.tool /\ s.call.version # c.version
  <2>1. u = Fresh(s, c, threshold)
    BY <1>2 DEF Observed, Learned
  <2>2. QED
    BY <2>1, FreshType
<1>3. CASE Learned(s) /\ s.call = c /\ s.observations # MaxCounter
  <2>1. s.observations < MaxCounter
    BY <1>3, RecordFacts, BoundsAssumption
  <2>2. u = [s EXCEPT !.observations = @ + 1, !.status = Earned(s.observations + 1, threshold)]
    BY <1>3, <2>1 DEF Observed, Learned
  <2>3. /\ u.status = Earned(s.observations + 1, threshold)
        /\ u.hits = s.hits /\ u.call = s.call /\ u.observations = s.observations + 1
        /\ u.reason = s.reason
        /\ u \in Routes
    <3>1. Earned(s.observations + 1, threshold) \in Statuses
      BY DEF Earned, Statuses
    <3>2. s.observations + 1 \in 0..MaxCounter
      BY <2>1, RecordFacts, BoundsAssumption
    <3>3. QED
      BY <2>2, <3>1, <3>2, RecordFacts DEF Routes
  <2>4. ValidRoute(u)
    BY <1>3, <2>3, RecordFacts DEF ValidRoute, Learned, Earned
  <2>5. QED
    BY <1>3, <2>3, <2>4 DEF Records, Learned, Earned
<1>4. CASE /\ Learned(s) /\ s.call # c
           /\ ~(s.call.tool = c.tool /\ s.call.version # c.version)
  <2>1. u = Quarantined(s)
    BY <1>4 DEF Observed, Learned
  <2>2. /\ u.status = "quarantined" /\ u.reason = "ACTION_CONFLICT"
        /\ u.hits = s.hits /\ u.call = s.call /\ u.observations = s.observations
        /\ u \in Routes
    BY <2>1, RecordFacts DEF Quarantined, Routes, Statuses, Reasons
  <2>3. ValidRoute(u)
    BY <1>4, <2>2, RecordFacts DEF ValidRoute, Learned
  <2>4. QED
    BY <2>2, <2>3 DEF Records
<1>5. s.status \in Statuses
  BY RecordFacts
<1>6. QED
  BY <1>1, <1>2, <1>3, <1>4, <1>5 DEF Statuses, Learned

LEMMA HitRecordedType ==
  ASSUME NEW s \in Records
  PROVE  LET u == HitRecorded(s)
         IN  /\ u \in Records
             /\ u.call = s.call /\ u.observations = s.observations /\ u.status = s.status
             /\ u # s => u.hits = s.hits + 1
<1> DEFINE u == HitRecorded(s)
<1>1. CASE s.status = "active" /\ s.hits < MaxCounter
  <2>1. u = [s EXCEPT !.hits = @ + 1]
    BY <1>1 DEF HitRecorded
  <2>2. /\ u.status = s.status /\ u.reason = s.reason /\ u.call = s.call
        /\ u.observations = s.observations /\ u.hits = s.hits + 1
        /\ u \in Routes
    BY <1>1, <2>1, RecordFacts, BoundsAssumption DEF Routes
  <2>3. QED
    BY <2>2, RecordFacts DEF Records, ValidRoute
<1>2. CASE ~(s.status = "active" /\ s.hits < MaxCounter)
  BY <1>2 DEF HitRecorded
<1>3. QED
  BY <1>1, <1>2

LEMMA RevokedType ==
  ASSUME NEW s \in Records
  PROVE  LET u == Revoked(s)
         IN  /\ u \in Records
             /\ u.hits = s.hits
             /\ u.call = Absent /\ u.status \in {"unseen", "invalidated"}
BY InvalidatedType, RecordFacts DEF Revoked, ValidRoute

-----------------------------------------------------------------------------
(* The requests. *)

Configured == {"lookup", "lookup_write", "warm", "cold", "observe", "observe_write"}

Called == {"warm", "observe", "observe_write"}

TypedRequests ==
  {q \in RequestStates :
     /\ ValidRoute(q.update)
     /\ q.stage \notin Writing => q.update = Unseen
     /\ q.stage \in Called => q.call \in Calls
     /\ q.stage \in Configured => q.threshold \in Thresholds}

TypeInv ==
  /\ route \in Records
  /\ lock \in [Workers -> Requests \cup {Absent}]
  /\ req \in [Requests -> TypedRequests]
  /\ runs \in [Calls -> 0..Enough]
  /\ replays \in 0..MaxReplays /\ confirmed \in Nat
  /\ witnessed \subseteq Calls

LEMMA TypedFacts ==
  ASSUME NEW q \in TypedRequests
  PROVE  /\ q \in RequestStates
         /\ q.stage \in Stages /\ q.offered \in Offered /\ q.threshold \in Nat
         /\ q.call \in Calls \cup {Absent}
         /\ q.update \in Records
         /\ q.round \in 1..MaximumIterations
         /\ q.succeeded \in BOOLEAN /\ q.answered \in BOOLEAN
         /\ q.stage \notin Writing => q.update = Unseen
         /\ q.stage \in Called => q.call \in Calls
         /\ q.stage \in Configured => q.threshold \in Thresholds
<1>1. q \in RequestStates /\ ValidRoute(q.update)
  BY DEF TypedRequests
<1>2. q.update \in Records
  BY <1>1 DEF RequestStates, Records
<1>3. QED
  BY <1>1, <1>2 DEF RequestStates, TypedRequests, Offered

LEMMA RequestType ==
  ASSUME NEW stage \in Stages \ (Writing \cup Called), NEW offered \in Offered,
         NEW threshold \in Nat, stage \in Configured => threshold \in Thresholds
  PROVE  /\ Request(stage, offered, threshold) \in TypedRequests
         /\ Request(stage, offered, threshold).stage = stage
<1> DEFINE q == Request(stage, offered, threshold)
<1>1. /\ q.stage = stage /\ q.offered = offered /\ q.threshold = threshold
      /\ q.call = Absent /\ q.update = Unseen /\ q.round = 1
  BY DEF Request
<1>2. 1 \in 1..MaximumIterations
  BY BoundsAssumption
<1>3. Unseen \in Routes /\ ValidRoute(Unseen)
  BY UnseenType DEF Records
<1>4. q \in RequestStates
  BY <1>2, <1>3 DEF Request, RequestStates, Offered
<1>5. QED
  BY <1>1, <1>3, <1>4 DEF TypedRequests

LEMMA IdleType == Idle \in TypedRequests /\ Idle.stage = "idle" /\ Idle.update = Unseen
<1>1. [t \in Tools |-> Absent] \in Offered
  BY DEF Offered
<1>2. "idle" \in Stages \ (Writing \cup Called) /\ "idle" \notin Configured /\ 0 \in Nat
  BY DEF Stages, Writing, Called, Configured
<1>3. Idle \in TypedRequests /\ Idle.stage = "idle"
  BY <1>1, <1>2, RequestType DEF Idle
<1>4. QED
  BY <1>3 DEF Idle, Request

LEMMA SettledType ==
  ASSUME NEW answered \in BOOLEAN
  PROVE  Settled(answered) \in TypedRequests /\ Settled(answered).stage = "report"
<1> DEFINE q == Settled(answered)
<1>1. Idle \in RequestStates /\ Idle.update = Unseen /\ "report" \in Stages
  BY IdleType, TypedFacts DEF Stages
<1>2. q.stage = "report" /\ q.update = Unseen /\ q \in RequestStates
  BY <1>1 DEF Settled, RequestStates
<1>3. ValidRoute(Unseen)
  BY UnseenType DEF Records
<1>4. QED
  BY <1>2, <1>3 DEF TypedRequests, Called, Configured

LEMMA AtType ==
  ASSUME NEW stage \in {"hit", "observe"}, NEW c \in Calls \cup {Absent},
         NEW threshold \in Nat,
         stage = "observe" => c \in Calls /\ threshold \in Thresholds
  PROVE  LET q == At(stage, c, threshold)
         IN  q \in TypedRequests /\ q.stage = stage /\ q.call = c /\ q.threshold = threshold
<1> DEFINE q == At(stage, c, threshold)
<1>1. Idle \in RequestStates /\ Idle.update = Unseen /\ stage \in Stages
  BY IdleType, TypedFacts DEF Stages
<1>2. /\ q.stage = stage /\ q.call = c /\ q.threshold = threshold
      /\ q.update = Unseen /\ q \in RequestStates
  BY <1>1 DEF At, RequestStates
<1>3. ValidRoute(Unseen)
  BY UnseenType DEF Records
<1>4. QED
  BY <1>2, <1>3 DEF TypedRequests, Called, Configured, Writing

-----------------------------------------------------------------------------
(* The steps.  Most of them only take one request on. *)

Resting == {"idle", "lookup", "revoke", "cold", "report"}

Becomes(r, q) == q \in TypedRequests /\ req' = [req EXCEPT ![r] = q]

Moves(r) == \E q \in TypedRequests :
  /\ req[r].stage \notin Writing /\ q.stage \in Resting
  /\ req' = [req EXCEPT ![r] = q]
  /\ UNCHANGED <<route, lock, history>>

(* A lookup that finds an active route as it should be. *)
Finds(r) ==
  /\ req[r].stage = "lookup" /\ route.status = "active"
  /\ AfterLookup(route, req[r].offered, req[r].threshold) = route
  /\ Becomes(r, Resume(r, route))
  /\ UNCHANGED <<route, lock, history>>

(* An operation that has a changed record to write. *)
Change(r, stage, pending, update) ==
  /\ req[r].stage = stage
  /\ update # route
  /\ lock[WorkerOf[r]] = Absent
  /\ lock' = [lock EXCEPT ![WorkerOf[r]] = r]
  /\ Becomes(r, [req[r] EXCEPT !.stage = pending, !.update = update])

Holds(r) ==
  /\ \/ Change(r, "lookup", "lookup_write",
               AfterLookup(route, req[r].offered, req[r].threshold))
     \/ Change(r, "hit", "hit_write", HitRecorded(route))
     \/ Change(r, "observe", "observe_write",
               Observed(route, req[r].call, req[r].threshold))
     \/ Change(r, "revoke", "revoke_write", Revoked(route))
  /\ UNCHANGED <<route, history>>

LEMMA ResumeType ==
  ASSUME TypeInv, NEW r \in Requests, NEW s \in Records
  PROVE  LET q == Resume(r, s)
             Found == req[r].stage \in {"lookup", "lookup_write"} /\ s.status = "active"
         IN  /\ q \in TypedRequests
             /\ Found => /\ q.stage = "warm" /\ q.call = s.call
                         /\ q.threshold = req[r].threshold /\ q.offered = req[r].offered
             /\ ~Found => q.stage \in Resting
<1> DEFINE q == Resume(r, s)
           looking == req[r].stage \in {"lookup", "lookup_write"}
<1>1. req[r] \in TypedRequests
  BY DEF TypeInv
<1>2. Unseen \in Routes /\ ValidRoute(Unseen)
  BY UnseenType DEF Records
<1>3. looking => req[r].threshold \in Thresholds
  BY <1>1, TypedFacts DEF Configured
<1>4. CASE looking /\ s.status = "active"
  <2>1. q = [req[r] EXCEPT !.stage = "warm", !.call = s.call, !.update = Unseen]
    BY <1>4 DEF Resume
  <2>2. s.call \in Calls /\ "warm" \in Stages
    BY <1>4, RecordFacts DEF Learned, Stages
  <2>3. /\ q \in RequestStates /\ q.stage = "warm" /\ q.call = s.call /\ q.update = Unseen
        /\ q.threshold = req[r].threshold /\ q.offered = req[r].offered
    BY <1>1, <1>2, <2>1, <2>2, TypedFacts DEF RequestStates
  <2>4. QED
    BY <1>2, <1>3, <1>4, <2>2, <2>3 DEF TypedRequests
<1>5. CASE looking /\ s.status # "active"
  <2>1. q = [req[r] EXCEPT !.stage = "cold", !.update = Unseen]
    BY <1>5 DEF Resume
  <2>2. "cold" \in Stages
    BY DEF Stages
  <2>3. /\ q \in RequestStates /\ q.stage = "cold" /\ q.update = Unseen
        /\ q.threshold = req[r].threshold
    BY <1>1, <1>2, <2>1, <2>2, TypedFacts DEF RequestStates
  <2>4. QED
    BY <1>2, <1>3, <1>5, <2>2, <2>3 DEF TypedRequests, Called, Resting
<1>6. CASE req[r].stage \in {"revoke", "revoke_write"}
  <2>1. q = Idle
    BY <1>6 DEF Resume
  <2>2. QED
    BY <1>6, <2>1, IdleType DEF Resting
<1>7. CASE req[r].stage \notin {"lookup", "lookup_write", "revoke", "revoke_write"}
  <2>1. q = Settled(TRUE)
    BY <1>7 DEF Resume
  <2>2. QED
    BY <1>7, <2>1, SettledType DEF Resting
<1>8. QED
  BY <1>4, <1>5, <1>6, <1>7

LEMMA AbandonType ==
  ASSUME TypeInv, NEW r \in Requests
  PROVE  Abandon(r) \in TypedRequests /\ Abandon(r).stage \in Resting
<1>1. Unseen \in Records /\ Unseen.status # "active"
  BY UnseenType DEF Learned
<1>2. QED
  BY <1>1, ResumeType DEF Abandon

(* What is true of an operation that loads the record: it changes nothing   *)
(* but the request, or it holds the lock and the record it will write.      *)
LEMMA LoadType ==
  ASSUME TypeInv, NEW r \in Requests, NEW stage, NEW pending \in Writing,
         NEW update \in Records, req[r].stage = stage, stage \notin Writing,
         pending \in Configured => stage \in Configured,
         pending \in Called => stage \in Called,
         Load(r, pending, update)
  PROVE  \/ /\ update = route /\ req' = [req EXCEPT ![r] = Resume(r, route)]
            /\ Resume(r, route) \in TypedRequests
            /\ UNCHANGED <<route, lock, history>>
         \/ Change(r, stage, pending, update) /\ UNCHANGED <<route, history>>
<1>1. req[r] \in TypedRequests /\ req \in [Requests -> TypedRequests] /\ route \in Records
  BY DEF TypeInv
<1>2. CASE update = route
  BY <1>1, <1>2, ResumeType DEF Load
<1>3. CASE update # route
  <2> DEFINE q == [req[r] EXCEPT !.stage = pending, !.update = update]
  <2>1. req' = [req EXCEPT ![r] = q]
    BY <1>1, <1>3 DEF Load
  <2>2. update \in Routes /\ ValidRoute(update) /\ pending \in Stages
    BY RecordFacts DEF Stages
  <2>3. /\ q \in RequestStates /\ q.stage = pending /\ q.update = update
        /\ q.call = req[r].call /\ q.threshold = req[r].threshold
    BY <1>1, <2>2, TypedFacts DEF RequestStates
  <2>4. q \in TypedRequests
    BY <1>1, <2>2, <2>3, TypedFacts DEF TypedRequests
  <2>5. QED
    BY <1>3, <2>1, <2>4 DEF Load, Change, Becomes
<1>4. QED
  BY <1>2, <1>3

Replays(r) ==
  /\ req[r].stage = "warm" /\ replays < MaxReplays
  /\ Becomes(r, At("hit", Absent, 0))
  /\ replays' = replays + 1
  /\ UNCHANGED <<route, lock, runs, confirmed, witnessed>>

Runs(r) == \E c \in Calls :
  /\ req[r].stage = "cold"
  /\ Contracted(c, req[r].offered) /\ Evidence(c)
  /\ Becomes(r, At("observe", c, req[r].threshold))
  /\ runs' = [runs EXCEPT ![c] = CountedUp(@)]
  /\ UNCHANGED <<route, lock, replays, confirmed, witnessed>>

Writes(r) == WriteState(r) /\ Becomes(r, Resume(r, req[r].update))

Gives(r) == WriteFails(r) /\ Becomes(r, Abandon(r)) /\ Abandon(r).stage \in Resting

Step(r) ==
  \/ Moves(r) \/ Finds(r) \/ Holds(r) \/ Replays(r) \/ Runs(r) \/ Writes(r) \/ Gives(r)

LEMMA StoreSteps ==
  ASSUME TypeInv, NEW r \in Requests,
         \/ Lookup(r) \/ RecordHit(r) \/ ObserveSuccess(r) \/ Invalidate(r)
         \/ WriteState(r) \/ StoreFails(r)
  PROVE  Step(r)
<1>1. req[r] \in TypedRequests /\ route \in Records
  BY DEF TypeInv
<1>2. CASE Lookup(r)
  <2> DEFINE u == AfterLookup(route, req[r].offered, req[r].threshold)
  <2>1. u \in Records /\ req[r].stage = "lookup"
    BY <1>1, <1>2, TypedFacts, AfterLookupType DEF Lookup
  <2>2. \/ u = route /\ req' = [req EXCEPT ![r] = Resume(r, route)]
           /\ Resume(r, route) \in TypedRequests
           /\ UNCHANGED <<route, lock, history>>
        \/ Change(r, "lookup", "lookup_write", u) /\ UNCHANGED <<route, history>>
    <3>1. Load(r, "lookup_write", u)
      BY <1>2 DEF Lookup
    <3>2. QED
      BY <2>1, <3>1, LoadType DEF Writing, Configured, Called
  <2>3. CASE u = route /\ req' = [req EXCEPT ![r] = Resume(r, route)]
             /\ UNCHANGED <<route, lock, history>>
    <3>1. CASE route.status = "active"
      BY <1>1, <2>1, <2>3, <3>1, ResumeType DEF Step, Finds, Becomes
    <3>2. CASE route.status # "active"
      BY <1>1, <2>1, <2>3, <3>2, ResumeType DEF Step, Moves, Writing
    <3>3. QED
      BY <3>1, <3>2
  <2>4. QED
    BY <2>2, <2>3 DEF Step, Holds
<1>3. CASE RecordHit(r)
  <2>1. HitRecorded(route) \in Records /\ req[r].stage = "hit"
    BY <1>1, <1>3, HitRecordedType DEF RecordHit
  <2>2. \/ req' = [req EXCEPT ![r] = Resume(r, route)] /\ UNCHANGED <<route, lock, history>>
        \/ Change(r, "hit", "hit_write", HitRecorded(route)) /\ UNCHANGED <<route, history>>
    BY <1>3, <2>1, LoadType DEF RecordHit, Writing, Configured, Called
  <2>3. Resume(r, route) \in TypedRequests /\ Resume(r, route).stage \in Resting
    BY <1>1, <2>1, ResumeType
  <2>4. QED
    BY <2>1, <2>2, <2>3 DEF Step, Moves, Holds, Writing
<1>4. CASE ObserveSuccess(r)
  <2>1. req[r].stage = "observe" /\ req[r].call \in Calls /\ req[r].threshold \in Nat
    BY <1>1, <1>4, TypedFacts DEF ObserveSuccess, Called
  <2> DEFINE u == Observed(route, req[r].call, req[r].threshold)
  <2>2. u \in Records
    BY <1>1, <2>1, ObservedType
  <2>3. \/ req' = [req EXCEPT ![r] = Resume(r, route)] /\ UNCHANGED <<route, lock, history>>
        \/ Change(r, "observe", "observe_write", u) /\ UNCHANGED <<route, history>>
    <3>1. Load(r, "observe_write", u)
      BY <1>4 DEF ObserveSuccess
    <3>2. QED
      BY <2>1, <2>2, <3>1, LoadType DEF Writing, Configured, Called
  <2>4. Resume(r, route) \in TypedRequests /\ Resume(r, route).stage \in Resting
    BY <1>1, <2>1, ResumeType
  <2>5. QED
    BY <2>1, <2>3, <2>4 DEF Step, Moves, Holds, Writing
<1>5. CASE Invalidate(r)
  <2>1. Revoked(route) \in Records /\ req[r].stage = "revoke"
    BY <1>1, <1>5, RevokedType DEF Invalidate
  <2>2. \/ req' = [req EXCEPT ![r] = Resume(r, route)] /\ UNCHANGED <<route, lock, history>>
        \/ Change(r, "revoke", "revoke_write", Revoked(route)) /\ UNCHANGED <<route, history>>
    BY <1>5, <2>1, LoadType DEF Invalidate, Writing, Configured, Called
  <2>3. Resume(r, route) \in TypedRequests /\ Resume(r, route).stage \in Resting
    BY <1>1, <2>1, ResumeType
  <2>4. QED
    BY <2>1, <2>2, <2>3 DEF Step, Moves, Holds, Writing
<1>6. CASE WriteState(r)
  <2>1. req[r].update \in Records /\ req' = [req EXCEPT ![r] = Resume(r, req[r].update)]
    BY <1>1, <1>6, TypedFacts DEF WriteState
  <2>2. QED
    BY <1>6, <2>1, ResumeType DEF Step, Writes, Becomes
<1>7. CASE ReadFails(r)
  BY <1>7, AbandonType DEF ReadFails, Step, Moves, Writing
<1>8. CASE WriteFails(r)
  BY <1>8, AbandonType DEF WriteFails, Step, Gives, Becomes
<1>9. QED
  BY <1>2, <1>3, <1>4, <1>5, <1>6, <1>7, <1>8 DEF StoreFails

LEMMA RequestSteps ==
  ASSUME TypeInv, NEW r \in Requests,
         \/ Start(r) \/ StartRevocation(r) \/ RunCrystal(r) \/ RunDirect(r)
         \/ DirectFails(r) \/ RunOthers(r) \/ Conclude(r) \/ ModelFails(r) \/ Report(r)
  PROVE  Step(r)
<1>1. req[r] \in TypedRequests
  BY DEF TypeInv
<1>2. ASSUME req[r].stage = "cold", NEW succeeded \in BOOLEAN, NEW answered \in BOOLEAN,
             NextRound(r, succeeded, answered), UNCHANGED <<route, lock, history>>
      PROVE  Moves(r)
  <2>1. CASE req[r].round < MaximumIterations
    <3> DEFINE q == [req[r] EXCEPT !.round = @ + 1, !.succeeded = succeeded]
    <3>1. req[r].round + 1 \in 1..MaximumIterations
      BY <1>1, <2>1, TypedFacts, BoundsAssumption
    <3>2. /\ q \in RequestStates /\ q.stage = "cold" /\ q.update = req[r].update
          /\ q.threshold = req[r].threshold
      BY <1>1, <1>2, <3>1, TypedFacts DEF RequestStates
    <3>3. q \in TypedRequests
      BY <1>1, <1>2, <3>2 DEF TypedRequests, Called
    <3>4. req' = [req EXCEPT ![r] = q]
      BY <1>2, <2>1 DEF NextRound
    <3>5. QED
      BY <1>2, <3>2, <3>3, <3>4 DEF Moves, Writing, Resting
  <2>2. CASE ~(req[r].round < MaximumIterations)
    <3>1. req' = [req EXCEPT ![r] = Settled(answered)]
      BY <1>2, <2>2 DEF NextRound
    <3>2. QED
      BY <1>2, <3>1, SettledType DEF Moves, Writing, Resting
  <2>3. QED
    BY <2>1, <2>2
<1>3. CASE Start(r)
  <2>1. PICK offered \in Offers, threshold \in Thresholds :
          /\ req[r] = Idle
          /\ req' = [req EXCEPT ![r] = Request("lookup", offered, threshold)]
          /\ UNCHANGED <<route, lock, history>>
    BY <1>3 DEF Start
  <2>2. offered \in Offered /\ threshold \in Nat
    BY RequestsAssumption, BoundsAssumption DEF Offered
  <2>3. "lookup" \in Stages \ (Writing \cup Called)
    BY DEF Stages, Writing, Called
  <2>4. /\ Request("lookup", offered, threshold) \in TypedRequests
        /\ Request("lookup", offered, threshold).stage = "lookup"
    BY <2>2, <2>3, RequestType
  <2>5. QED
    BY <2>1, <2>4, IdleType DEF Step, Moves, Writing, Resting
<1>4. CASE StartRevocation(r)
  <2> DEFINE q == [req[r] EXCEPT !.stage = "revoke"]
  <2>1. req[r] = Idle /\ req' = [req EXCEPT ![r] = q] /\ UNCHANGED <<route, lock, history>>
    BY <1>4 DEF StartRevocation, TypeInv
  <2>2. req[r].stage = "idle" /\ req[r].update = Unseen
    BY <2>1, IdleType
  <2>3. q \in RequestStates /\ q.stage = "revoke" /\ q.update = Unseen
    BY <1>1, <2>2, TypedFacts DEF RequestStates, Stages
  <2>4. q \in TypedRequests
    BY <1>1, <2>2, <2>3 DEF TypedRequests, Called, Configured
  <2>5. QED
    BY <2>1, <2>2, <2>3, <2>4 DEF Step, Moves, Writing, Resting
<1>5. CASE RunCrystal(r)
  <2>1. CASE /\ req[r].stage = "warm" /\ replays < MaxReplays
             /\ req' = [req EXCEPT ![r] = At("hit", Absent, 0)]
             /\ replays' = replays + 1
             /\ UNCHANGED <<route, lock, runs, confirmed, witnessed>>
    BY <2>1, AtType DEF Step, Replays, Becomes
  <2>2. CASE /\ req[r].stage = "warm"
             /\ req' = [req EXCEPT ![r].stage = "cold", ![r].call = Absent]
             /\ UNCHANGED <<route, lock, history>>
    <3> DEFINE q == [req[r] EXCEPT !.stage = "cold", !.call = Absent]
    <3>1. req' = [req EXCEPT ![r] = q]
      <4>1. req \in [Requests -> TypedRequests]
        BY DEF TypeInv
      <4>2. QED
        BY <2>2, <4>1
    <3>2. req[r].threshold \in Thresholds /\ req[r].update = Unseen
      BY <1>1, <2>2, TypedFacts DEF Configured, Writing
    <3>3. /\ q \in RequestStates /\ q.stage = "cold" /\ q.update = Unseen
          /\ q.threshold = req[r].threshold
      BY <1>1, <3>2, TypedFacts DEF RequestStates, Stages
    <3>4. q \in TypedRequests
      BY <1>1, <3>2, <3>3 DEF TypedRequests, Called
    <3>5. QED
      BY <2>2, <3>1, <3>3, <3>4 DEF Step, Moves, Writing, Resting
  <2>3. QED
    BY <1>5, <2>1, <2>2 DEF RunCrystal, history
<1>6. CASE RunDirect(r)
  <2>1. PICK c \in Calls :
          /\ req[r].stage = "cold"
          /\ Contracted(c, req[r].offered)
          /\ IF Evidence(c)
             THEN /\ req' = [req EXCEPT ![r] = At("observe", c, req[r].threshold)]
                  /\ runs' = [runs EXCEPT ![c] = CountedUp(@)]
             ELSE /\ req' = [req EXCEPT ![r] = Settled(TRUE)]
                  /\ UNCHANGED runs
          /\ UNCHANGED <<route, lock, replays, confirmed, witnessed>>
    BY <1>6 DEF RunDirect
  <2>2. CASE Evidence(c)
    <3>1. req[r].threshold \in Thresholds /\ req[r].threshold \in Nat
      BY <1>1, <2>1, TypedFacts DEF Configured
    <3>2. At("observe", c, req[r].threshold) \in TypedRequests
      BY <3>1, AtType
    <3>3. QED
      BY <2>1, <2>2, <3>2 DEF Step, Runs, Becomes
  <2>3. CASE ~Evidence(c)
    BY <2>1, <2>3, SettledType DEF Step, Moves, Writing, Resting, history
  <2>4. QED
    BY <2>2, <2>3
<1>7. CASE DirectFails(r)
  BY <1>1, <1>2, <1>7, TypedFacts DEF DirectFails, Step
<1>8. CASE RunOthers(r)
  <2>1. PICK success \in BOOLEAN : 
          /\ req[r].stage = "cold"
          /\ NextRound(r, req[r].succeeded \/ success, TRUE)
          /\ UNCHANGED <<route, lock, history>>
    BY <1>8 DEF RunOthers
  <2>2. (req[r].succeeded \/ success) \in BOOLEAN
    OBVIOUS
  <2>3. QED
    BY <1>2, <2>1, <2>2 DEF Step
<1>9. CASE Conclude(r)
  <2>1. PICK text \in BOOLEAN :
          /\ req[r].stage = "cold"
          /\ req' = [req EXCEPT ![r] = Settled(text \/ ~req[r].succeeded)]
          /\ UNCHANGED <<route, lock, history>>
    BY <1>9 DEF Conclude
  <2>2. (text \/ ~req[r].succeeded) \in BOOLEAN
    OBVIOUS
  <2>3. QED
    BY <2>1, <2>2, SettledType DEF Step, Moves, Writing, Resting
<1>10. CASE ModelFails(r)
  BY <1>10, SettledType DEF ModelFails, Step, Moves, Writing, Resting
<1>11. CASE Report(r)
  BY <1>11, IdleType DEF Report, Step, Moves, Writing, Resting
<1>12. QED
  BY <1>3, <1>4, <1>5, <1>6, <1>7, <1>8, <1>9, <1>10, <1>11

LEMMA NextSteps ==
  ASSUME TypeInv, [Next]_vars
  PROVE  \/ \E r \in Requests : Step(r)
         \/ \E w \in Workers : Crash(w)
         \/ UNCHANGED vars
BY StoreSteps, RequestSteps DEF Next, Serve, StoreFails

-----------------------------------------------------------------------------
(* Type correctness. *)

LEMMA TypeInit == Init => TypeInv
<1> SUFFICES ASSUME Init PROVE TypeInv
  OBVIOUS
<1>1. route \in Records /\ req \in [Requests -> TypedRequests]
  BY UnseenType, IdleType DEF Init
<1>2. /\ lock \in [Workers -> Requests \cup {Absent}]
      /\ runs \in [Calls -> 0..Enough]
      /\ replays \in 0..MaxReplays /\ confirmed \in Nat
      /\ witnessed \subseteq Calls
  BY BoundsAssumption DEF Init
<1>3. QED
  BY <1>1, <1>2 DEF TypeInv

LEMMA WitnessedType ==
  ASSUME TypeInv, NEW r \in Requests
  PROVE  Witnessed(r) \subseteq Calls
<1>1. req[r] \in TypedRequests /\ req[r].update \in Records /\ witnessed \subseteq Calls
  BY TypedFacts DEF TypeInv
<1>2. req[r].update.status = "learning" => req[r].update.call \in Calls
  BY <1>1, RecordFacts DEF Learned
<1>3. req[r].stage = "observe_write" => req[r].call \in Calls
  BY <1>1, TypedFacts DEF Called
<1>4. QED
  BY <1>1, <1>2, <1>3 DEF Witnessed

LEMMA TypeStep == TypeInv /\ [Next]_vars => TypeInv'
<1> SUFFICES ASSUME TypeInv, [Next]_vars PROVE TypeInv'
  OBVIOUS
<1>1. /\ route \in Records /\ req \in [Requests -> TypedRequests]
      /\ lock \in [Workers -> Requests \cup {Absent}]
  BY DEF TypeInv
<1>2. ASSUME NEW r \in Requests, Step(r)
      PROVE  TypeInv'
  <2>1. WorkerOf[r] \in Workers /\ req[r] \in TypedRequests /\ req[r].update \in Records
    BY <1>1, RequestsAssumption, TypedFacts
  <2>2. ASSUME NEW q \in TypedRequests, req' = [req EXCEPT ![r] = q],
               route' \in Records, lock' \in [Workers -> Requests \cup {Absent}],
               runs' \in [Calls -> 0..Enough], replays' \in 0..MaxReplays,
               confirmed' \in Nat, witnessed' \subseteq Calls
        PROVE  TypeInv'
    BY <1>1, <2>2 DEF TypeInv
  <2>3. CASE Moves(r) \/ Finds(r)
    BY <2>2, <2>3 DEF Moves, Finds, Becomes, TypeInv, history
  <2>4. CASE Holds(r)
    <3>1. PICK q \in TypedRequests :
            /\ req' = [req EXCEPT ![r] = q]
            /\ lock' = [lock EXCEPT ![WorkerOf[r]] = r]
            /\ UNCHANGED <<route, history>>
      BY <2>4 DEF Holds, Change, Becomes
    <3>2. QED
      BY <2>2, <3>1, <1>1, <2>1 DEF TypeInv, history
  <2>5. CASE Replays(r)
    <3>1. replays' \in 0..MaxReplays
      BY <2>5, BoundsAssumption DEF Replays, TypeInv
    <3>2. QED
      BY <2>2, <2>5, <3>1 DEF Replays, Becomes, TypeInv
  <2>6. CASE Runs(r)
    <3>1. PICK c \in Calls :
            /\ Becomes(r, At("observe", c, req[r].threshold))
            /\ runs' = [runs EXCEPT ![c] = CountedUp(@)]
            /\ UNCHANGED <<route, lock, replays, confirmed, witnessed>>
      BY <2>6 DEF Runs
    <3>2. runs \in [Calls -> 0..Enough] /\ CountedUp(runs[c]) \in 0..Enough
      BY BoundsAssumption DEF CountedUp, TypeInv
    <3>3. runs' \in [Calls -> 0..Enough]
      BY <3>1, <3>2
    <3>4. QED
      BY <2>2, <3>1, <3>3 DEF Becomes, TypeInv
  <2>7. CASE Writes(r)
    <3>1. route' \in Records /\ witnessed' \subseteq Calls
      BY <2>1, <2>7, WitnessedType DEF Writes, WriteState, Put
    <3>2. lock' \in [Workers -> Requests \cup {Absent}]
      BY <1>1, <2>7 DEF Writes, WriteState, Release
    <3>3. confirmed' \in Nat
      BY <2>7 DEF Writes, WriteState, TypeInv
    <3>4. QED
      BY <2>2, <2>7, <3>1, <3>2, <3>3 DEF Writes, WriteState, Becomes, TypeInv
  <2>8. CASE Gives(r)
    <3>1. route' \in Records /\ witnessed' \subseteq Calls
      BY <2>1, <2>8, WitnessedType DEF Gives, WriteFails, Put, TypeInv
    <3>2. lock' \in [Workers -> Requests \cup {Absent}]
      BY <1>1, <2>8 DEF Gives, WriteFails, Release
    <3>3. QED
      BY <2>2, <2>8, <3>1, <3>2 DEF Gives, WriteFails, Becomes, TypeInv
  <2>9. QED
    BY <1>2, <2>3, <2>4, <2>5, <2>6, <2>7, <2>8 DEF Step
<1>3. ASSUME NEW w \in Workers, Crash(w)
      PROVE  TypeInv'
  <2>1. req' \in [Requests -> TypedRequests]
    BY <1>1, <1>3, IdleType DEF Crash
  <2>2. lock' \in [Workers -> Requests \cup {Absent}]
    BY <1>1, <1>3 DEF Crash
  <2>3. QED
    BY <1>3, <2>1, <2>2 DEF Crash, TypeInv, history
<1>4. CASE UNCHANGED vars
  BY <1>4 DEF TypeInv, vars
<1>5. QED
  BY <1>2, <1>3, <1>4, NextSteps

LEMMA TypeInvariant == Spec => []TypeInv
BY TypeInit, TypeStep, PTL DEF Spec

LEMMA TypeInvImplies == TypeInv => TypeOK
<1> SUFFICES ASSUME TypeInv PROVE TypeOK
  OBVIOUS
<1>1. route \in Routes /\ ValidRoute(route)
  BY DEF TypeInv, Records
<1>2. req \in [Requests -> RequestStates] /\ \A r \in Requests : ValidRoute(req[r].update)
  BY DEF TypeInv, TypedRequests
<1>3. QED
  BY <1>1, <1>2 DEF TypeInv, TypeOK

(* Whatever fails, crashes or is revoked, and however requests interleave,  *)
(* the variables hold what the code can store in them, and every record     *)
(* stored or about to be stored is one that _validate_state accepts.        *)
THEOREM TypeCorrect == Spec => []TypeOK
BY TypeInvariant, TypeInvImplies, PTL

-----------------------------------------------------------------------------
(* Evidence.  A record never counts more runs of its call than there were,  *)
(* even if the requests that still have to report a run of it are added:    *)
(* each run is counted once, whoever loads or writes the record meanwhile.  *)

Valid(c) == c.arguments \in Accepts[c.version]

Pending(c) == {r \in Requests : req[r].stage = "observe" /\ req[r].call = c}

Backed(c, n) == runs[c] = Enough \/ n + Cardinality(Pending(c)) <= runs[c]

Sound(s) == s.call # Absent => Valid(s.call) /\ Backed(s.call, s.observations)

EarnedBy(q) ==
  /\ q.stage = "lookup_write" /\ q.update.status = "active" =>
       /\ q.update.observations >= q.threshold
       /\ Contracted(q.update.call, q.offered)
  /\ q.stage = "warm" => runs[q.call] >= q.threshold /\ Contracted(q.call, q.offered)

EvidenceInv ==
  /\ \A c \in Calls : IsFiniteSet(Pending(c)) /\ Backed(c, 0)
  /\ Sound(route)
  /\ \A r \in Requests :
       /\ Sound(req[r].update)
       /\ req[r].stage = "observe" => Valid(req[r].call)
       /\ EarnedBy(req[r])

LEMMA SubsetSize ==
  ASSUME NEW S, IsFiniteSet(S), NEW T \in SUBSET S
  PROVE  /\ IsFiniteSet(T)
         /\ Cardinality(T) \in Nat /\ Cardinality(S) \in Nat
         /\ Cardinality(T) <= Cardinality(S)
BY FS_Subset, FS_CardinalityType

(* What is backed stays backed when no run is added to the pending ones. *)
LEMMA BackedKept ==
  ASSUME TypeInv, NEW c \in Calls, IsFiniteSet(Pending(c)),
         runs' = runs, Pending(c)' \subseteq Pending(c)
  PROVE  /\ IsFiniteSet(Pending(c)')
         /\ \A n \in Nat : Backed(c, n) => Backed(c, n)'
<1>1. /\ IsFiniteSet(Pending(c)')
      /\ Cardinality(Pending(c)') \in Nat /\ Cardinality(Pending(c)) \in Nat
      /\ Cardinality(Pending(c)') <= Cardinality(Pending(c))
  BY SubsetSize
<1>2. runs[c] \in Nat
  BY BoundsAssumption DEF TypeInv
<1>3. QED
  BY <1>1, <1>2 DEF Backed

LEMMA SoundKept ==
  ASSUME TypeInv, EvidenceInv, NEW s \in Records, Sound(s),
         runs' = runs, \A c \in Calls : Pending(c)' \subseteq Pending(c)
  PROVE  Sound(s)'
<1>1. CASE s.call = Absent
  BY <1>1 DEF Sound
<1>2. CASE s.call # Absent
  <2>1. s.call \in Calls /\ s.observations \in Nat
    BY <1>2, RecordFacts, BoundsAssumption
  <2>2. IsFiniteSet(Pending(s.call)) /\ Backed(s.call, s.observations) /\ Valid(s.call)
    BY <1>2, <2>1 DEF EvidenceInv, Sound
  <2>3. Backed(s.call, s.observations)'
    BY <2>1, <2>2, BackedKept
  <2>4. QED
    BY <2>2, <2>3 DEF Sound
<1>3. QED
  BY <1>1, <1>2

(* A step of one request that adds no run. *)
LEMMA EvidenceMove ==
  ASSUME TypeInv, EvidenceInv, NEW r \in Requests, NEW q \in TypedRequests,
         req' = [req EXCEPT ![r] = q], q.stage # "observe", runs' = runs,
         route' \in Records, Sound(route)', Sound(q.update)', EarnedBy(q)
  PROVE  EvidenceInv'
<1>1. req \in [Requests -> TypedRequests]
  BY DEF TypeInv
<1>2. \A c \in Calls : Pending(c)' \subseteq Pending(c)
  BY <1>1 DEF Pending
<1>3. \A c \in Calls : IsFiniteSet(Pending(c)') /\ Backed(c, 0)'
  BY <1>2, BackedKept DEF EvidenceInv
<1>4. ASSUME NEW i \in Requests
      PROVE  /\ Sound(req[i].update)'
             /\ req'[i].stage = "observe" => Valid(req'[i].call)
             /\ EarnedBy(req[i])'
  <2>1. CASE i = r
    <3>1. req'[i] = q
      BY <1>1, <2>1
    <3>2. QED
      BY <3>1 DEF Sound, EarnedBy
  <2>2. CASE i # r
    <3>1. req'[i] = req[i]
      BY <1>1, <2>2
    <3>2. req[i].update \in Records
      BY <1>1, TypedFacts
    <3>3. Sound(req[i].update) /\ EarnedBy(req[i])
          /\ (req[i].stage = "observe" => Valid(req[i].call))
      BY DEF EvidenceInv
    <3> DEFINE s == req[i].update
    <3>4. \A s1 \in Records : Sound(s1) => Sound(s1)'
      BY <1>2, SoundKept
    <3>5. QED
      BY <3>1, <3>2, <3>3, <3>4 DEF Sound, EarnedBy
  <2>3. QED
    BY <2>1, <2>2
<1>5. QED
  BY <1>3, <1>4 DEF EvidenceInv

LEMMA UnseenSound == Sound(Unseen) /\ Sound(Unseen)'
BY DEF Sound, Unseen

(* A record that is active for a request is a reason to replay its call. *)
LEMMA WarmIsEarned ==
  ASSUME TypeInv, EvidenceInv, NEW s \in Records, Sound(s), s.status = "active",
         NEW threshold \in Thresholds, s.observations >= threshold
  PROVE  runs[s.call] >= threshold
<1>1. s.call \in Calls /\ s.observations \in Nat
  BY RecordFacts, BoundsAssumption DEF Learned
<1>2. s.call # Absent
  BY <1>1, RequestsAssumption
<1>3. Backed(s.call, s.observations)
  BY <1>2 DEF Sound
<1>4. runs[s.call] \in Nat /\ threshold \in Nat /\ threshold <= Enough
  BY <1>1, BoundsAssumption DEF TypeInv
<1>5. Cardinality(Pending(s.call)) \in Nat
  BY <1>1, FS_CardinalityType DEF EvidenceInv
<1>6. QED
  BY <1>1, <1>3, <1>4, <1>5, BoundsAssumption DEF Backed

LEMMA EvidenceHold ==
  ASSUME TypeInv, EvidenceInv, NEW r \in Requests, Holds(r)
  PROVE  EvidenceInv'
<1>1. /\ route \in Records /\ req \in [Requests -> TypedRequests]
      /\ req[r] \in TypedRequests /\ Sound(route)
  BY DEF TypeInv, EvidenceInv
<1>2. route' = route /\ runs' = runs
  BY DEF Holds, history
<1>3. ASSUME NEW q \in TypedRequests, req' = [req EXCEPT ![r] = q], q.stage # "observe"
      PROVE  /\ \A c \in Calls : Pending(c)' \subseteq Pending(c)
             /\ Sound(route)'
             /\ (q.update.call # Absent =>
                   /\ q.update.call = route.call
                   /\ q.update.observations = route.observations) => Sound(q.update)'
  <2>1. \A c \in Calls : Pending(c)' \subseteq Pending(c)
    BY <1>1, <1>3 DEF Pending
  <2>2. Sound(route)'
    <3>1. \A s \in Records : Sound(s) => Sound(s)'
      BY <1>2, <2>1, SoundKept
    <3>2. QED
      BY <1>1, <1>2, <3>1 DEF Sound
  <2>3. QED
    BY <1>2, <2>1, <2>2 DEF Sound
<1>4. CASE Change(r, "lookup", "lookup_write",
                  AfterLookup(route, req[r].offered, req[r].threshold))
  <2>1. req[r].offered \in Offered /\ req[r].threshold \in Nat /\ req[r] \in RequestStates
    BY <1>1, TypedFacts
  <2>2. PICK u \in Records :
          /\ u = AfterLookup(route, req[r].offered, req[r].threshold)
          /\ u.call # Absent => u.call = route.call /\ u.observations = route.observations
          /\ u.status = "active" =>
               u.observations >= req[r].threshold /\ Contracted(u.call, req[r].offered)
    BY <1>1, <2>1, AfterLookupType
  <2>3. PICK q \in TypedRequests :
          /\ req' = [req EXCEPT ![r] = q]
          /\ q.stage = "lookup_write" /\ q.update = u
          /\ q.threshold = req[r].threshold /\ q.offered = req[r].offered
    BY <1>4, <2>1, <2>2 DEF Change, Becomes, RequestStates
  <2>4. EarnedBy(q)
    BY <2>2, <2>3 DEF EarnedBy
  <2>5. Sound(route)' /\ Sound(q.update)'
    BY <1>3, <2>2, <2>3
  <2>6. QED
    BY <1>1, <1>2, <2>3, <2>4, <2>5, EvidenceMove
<1>5. CASE Change(r, "hit", "hit_write", HitRecorded(route))
  <2>1. PICK q \in TypedRequests :
          /\ req' = [req EXCEPT ![r] = q]
          /\ q.stage = "hit_write" /\ q.update = HitRecorded(route)
    BY <1>1, <1>5, TypedFacts DEF Change, Becomes, RequestStates
  <2>2. Sound(route)' /\ Sound(q.update)'
    BY <1>1, <1>3, <2>1, HitRecordedType
  <2>3. QED
    BY <1>1, <1>2, <2>1, <2>2, EvidenceMove DEF EarnedBy
<1>6. CASE Change(r, "revoke", "revoke_write", Revoked(route))
  <2>1. PICK q \in TypedRequests :
          /\ req' = [req EXCEPT ![r] = q]
          /\ q.stage = "revoke_write" /\ q.update = Revoked(route)
    BY <1>1, <1>6, TypedFacts DEF Change, Becomes, RequestStates
  <2>2. Sound(route)' /\ Sound(q.update)'
    BY <1>1, <1>3, <2>1, RevokedType
  <2>3. QED
    BY <1>1, <1>2, <2>1, <2>2, EvidenceMove DEF EarnedBy
<1>7. CASE Change(r, "observe", "observe_write",
                  Observed(route, req[r].call, req[r].threshold))
  <2>1. PICK c \in Calls :
          /\ req[r].stage = "observe" /\ c = req[r].call /\ req[r].threshold \in Nat
          /\ req[r] \in RequestStates
    BY <1>1, <1>7, TypedFacts DEF Change, Called
  <2>2. PICK u \in Records :
          /\ u = Observed(route, c, req[r].threshold)
          /\ \/ u = route
             \/ u.call = c /\ u.observations = 1
             \/ route.call = c /\ u.call = c /\ u.observations = route.observations + 1
             \/ u.call = route.call /\ u.observations = route.observations
    BY <1>1, <2>1, ObservedType
  <2>3. PICK q \in TypedRequests :
          /\ req' = [req EXCEPT ![r] = q]
          /\ q.stage = "observe_write" /\ q.update = u
    BY <1>7, <2>1, <2>2 DEF Change, Becomes, RequestStates
  <2>4. /\ Pending(c)' = Pending(c) \ {r} /\ r \in Pending(c)
        /\ IsFiniteSet(Pending(c)) /\ Valid(c) /\ Backed(c, 0)
    BY <1>1, <2>1, <2>3 DEF Pending, EvidenceInv
  <2>5. /\ Cardinality(Pending(c)') = Cardinality(Pending(c)) - 1
        /\ Cardinality(Pending(c)') \in Nat
        /\ Cardinality(Pending(c)) \in Nat
    BY <2>4, FS_RemoveElement, FS_CardinalityType
  <2>6. \A n \in Nat : Backed(c, n) => Backed(c, n + 1)'
    <3>1. runs'[c] = runs[c] /\ runs[c] \in Nat
      BY <1>2, <2>1, BoundsAssumption DEF TypeInv
    <3>2. QED
      BY <2>5, <3>1 DEF Backed
  <2>7. Sound(u)'
    <3>1. CASE u = route \/ (u.call = route.call /\ u.observations = route.observations)
      BY <1>3, <2>2, <2>3, <3>1
    <3>2. CASE u.call = c /\ u.observations = 1
      <4>1. Backed(c, 1)'
        BY <2>4, <2>6
      <4>2. QED
        BY <2>4, <3>2, <4>1 DEF Sound
    <3>3. CASE route.call = c /\ u.call = c /\ u.observations = route.observations + 1
      <4>1. PICK n \in Nat : n = route.observations
        BY <1>1, RecordFacts, BoundsAssumption
      <4>2. c # Absent
        BY RequestsAssumption
      <4>3. Backed(c, n)
        BY <1>1, <3>3, <4>1, <4>2 DEF Sound
      <4>4. Backed(c, n + 1)'
        BY <2>6, <4>3
      <4>5. QED
        BY <2>4, <3>3, <4>1, <4>4 DEF Sound
    <3>4. QED
      BY <2>2, <3>1, <3>2, <3>3
  <2>8. Sound(route)'
    BY <1>3, <2>3
  <2>9. QED
    BY <1>1, <1>2, <2>3, <2>7, <2>8, EvidenceMove DEF EarnedBy
<1>8. QED
  BY <1>4, <1>5, <1>6, <1>7 DEF Holds

LEMMA EvidenceRun ==
  ASSUME TypeInv, EvidenceInv, NEW r \in Requests, Runs(r)
  PROVE  EvidenceInv'
<1>1. /\ route \in Records /\ req \in [Requests -> TypedRequests]
      /\ req[r] \in TypedRequests /\ Sound(route)
  BY DEF TypeInv, EvidenceInv
<1>2. PICK c \in Calls, q \in TypedRequests :
        /\ q = At("observe", c, req[r].threshold)
        /\ req[r].stage = "cold" /\ Evidence(c)
        /\ req' = [req EXCEPT ![r] = q]
        /\ runs' = [runs EXCEPT ![c] = CountedUp(@)]
        /\ UNCHANGED route
  BY DEF Runs, Becomes
<1>3. q.stage = "observe" /\ q.call = c /\ q.update = Unseen
  <2>1. req[r].threshold \in Nat /\ req[r].threshold \in Thresholds
    BY <1>1, <1>2, TypedFacts DEF Configured
  <2>2. q.stage = "observe" /\ q.call = c
    BY <1>2, <2>1, AtType
  <2>3. QED
    BY <2>2, TypedFacts DEF Writing
<1>4. /\ Pending(c)' = Pending(c) \cup {r} /\ r \notin Pending(c)
      /\ IsFiniteSet(Pending(c))
  BY <1>1, <1>2, <1>3 DEF Pending, EvidenceInv
<1>5. /\ IsFiniteSet(Pending(c)')
      /\ Cardinality(Pending(c)') = Cardinality(Pending(c)) + 1
      /\ Cardinality(Pending(c)) \in Nat
  BY <1>4, FS_AddElement, FS_CardinalityType
<1>6. /\ runs[c] \in 0..Enough /\ runs'[c] = CountedUp(runs[c])
      /\ \A d \in Calls : runs[d] \in Nat /\ runs'[d] \in Nat /\ runs[d] <= runs'[d]
  BY <1>2, BoundsAssumption DEF TypeInv, CountedUp
<1>7. \A d \in Calls : d # c => Pending(d)' = Pending(d) /\ runs'[d] = runs[d]
  BY <1>1, <1>2, <1>3 DEF Pending, TypeInv
<1>8. \A n \in Nat : Backed(c, n) => Backed(c, n)'
  BY <1>5, <1>6, BoundsAssumption DEF Backed, CountedUp
<1>9. \A d \in Calls, n \in Nat : Backed(d, n) => Backed(d, n)'
  BY <1>7, <1>8 DEF Backed
<1>10. \A d \in Calls : IsFiniteSet(Pending(d)') /\ Backed(d, 0)'
  BY <1>5, <1>7, <1>9 DEF EvidenceInv
<1>11. \A s \in Records : Sound(s) => Sound(s)'
  <2> SUFFICES ASSUME NEW s \in Records, Sound(s), s.call # Absent
               PROVE  Valid(s.call) /\ Backed(s.call, s.observations)'
    BY DEF Sound
  <2>1. s.call \in Calls /\ s.observations \in Nat
    BY RecordFacts, BoundsAssumption
  <2>2. Valid(s.call) /\ Backed(s.call, s.observations)
    BY DEF Sound
  <2>3. QED
    BY <1>9, <2>1, <2>2
<1>12. Sound(route)'
  BY <1>1, <1>2, <1>11 DEF Sound
<1>13. ASSUME NEW i \in Requests
       PROVE  /\ Sound(req[i].update)'
              /\ req'[i].stage = "observe" => Valid(req'[i].call)
              /\ EarnedBy(req[i])'
  <2>1. CASE i = r
    <3>1. req'[i] = q
      BY <1>1, <1>2, <2>1
    <3>2. Valid(c)
      BY <1>2 DEF Evidence, Valid
    <3>3. QED
      BY <1>3, <3>1, <3>2, UnseenSound DEF Sound, EarnedBy
  <2>2. CASE i # r
    <3>1. req'[i] = req[i]
      BY <1>1, <1>2, <2>2
    <3>2. PICK p \in TypedRequests : p = req[i]
      BY <1>1
    <3>3. Sound(p.update) /\ EarnedBy(p) /\ (p.stage = "observe" => Valid(p.call))
      BY <3>2 DEF EvidenceInv
    <3>4. Sound(p.update)'
      BY <1>11, <3>3, TypedFacts
    <3>5. EarnedBy(p)'
      <4>1. CASE p.stage = "warm"
        <5>1. p.call \in Calls /\ p.threshold \in Nat
          BY <4>1, TypedFacts DEF Called
        <5>2. runs[p.call] >= p.threshold /\ Contracted(p.call, p.offered)
          BY <3>3, <4>1 DEF EarnedBy
        <5>3. runs'[p.call] >= p.threshold
          BY <1>6, <5>1, <5>2
        <5>4. QED
          BY <4>1, <5>2, <5>3 DEF EarnedBy
      <4>2. CASE p.stage # "warm"
        BY <3>3, <4>2 DEF EarnedBy
      <4>3. QED
        BY <4>1, <4>2
    <3>6. QED
      BY <3>1, <3>2, <3>3, <3>4, <3>5 DEF Sound, EarnedBy
  <2>3. QED
    BY <2>1, <2>2
<1>14. QED
  BY <1>10, <1>12, <1>13 DEF EvidenceInv

LEMMA EvidenceInit == Init => EvidenceInv
<1> SUFFICES ASSUME Init PROVE EvidenceInv
  OBVIOUS
<1>1. \A r \in Requests : req[r] = Idle
  BY DEF Init
<1>2. \A c \in Calls : Pending(c) = {}
  BY <1>1, IdleType DEF Pending
<1>3. \A c \in Calls : IsFiniteSet(Pending(c)) /\ Backed(c, 0)
  BY <1>2, FS_EmptySet DEF Backed, Init
<1>4. Sound(route)
  BY UnseenSound DEF Init
<1>5. \A r \in Requests :
        Sound(req[r].update) /\ EarnedBy(req[r]) /\ req[r].stage # "observe"
  BY <1>1, IdleType, UnseenSound DEF EarnedBy
<1>6. QED
  BY <1>3, <1>4, <1>5 DEF EvidenceInv

LEMMA EvidenceStep == TypeInv /\ EvidenceInv /\ [Next]_vars => EvidenceInv'
<1> SUFFICES ASSUME TypeInv, EvidenceInv, [Next]_vars PROVE EvidenceInv'
  OBVIOUS
<1>1. /\ route \in Records /\ req \in [Requests -> TypedRequests] /\ Sound(route)
      /\ \A r \in Requests : req[r] \in TypedRequests /\ Sound(req[r].update)
  BY DEF TypeInv, EvidenceInv
<1>2. ASSUME NEW r \in Requests, Step(r)
      PROVE  EvidenceInv'
  <2>1. ASSUME NEW q \in TypedRequests, req' = [req EXCEPT ![r] = q], runs' = runs,
               q.stage \in Resting \cup {"warm", "hit"},
               q.stage = "warm" => runs[q.call] >= q.threshold /\ Contracted(q.call, q.offered),
               \/ route' = route
               \/ route' = req[r].update
        PROVE  EvidenceInv'
    <3>1. q.update = Unseen /\ EarnedBy(q) /\ q.stage # "observe"
      BY <2>1, TypedFacts DEF Writing, Resting, EarnedBy
    <3>2. \A c \in Calls : Pending(c)' \subseteq Pending(c)
      BY <1>1, <2>1, <3>1 DEF Pending
    <3>3. PICK s \in Records : s = route' /\ Sound(s)
      BY <1>1, <2>1, TypedFacts
    <3>4. Sound(s)'
      BY <2>1, <3>2, <3>3, SoundKept
    <3>5. Sound(route)'
      BY <3>3, <3>4 DEF Sound
    <3>6. Sound(q.update)'
      BY <3>1, UnseenSound
    <3>7. QED
      BY <2>1, <3>1, <3>3, <3>5, <3>6, EvidenceMove
  <2>2. CASE Moves(r)
    BY <2>1, <2>2 DEF Moves, Resting, history
  <2>3. CASE Finds(r)
    <3>1. req[r].offered \in Offered /\ req[r].threshold \in Thresholds
          /\ req[r].threshold \in Nat
      BY <1>1, <2>3, TypedFacts DEF Finds, Configured
    <3>2. route.observations >= req[r].threshold /\ Contracted(route.call, req[r].offered)
      BY <1>1, <2>3, <3>1, AfterLookupType DEF Finds
    <3>3. runs[route.call] >= req[r].threshold
      BY <1>1, <2>3, <3>1, <3>2, WarmIsEarned DEF Finds
    <3>4. /\ Resume(r, route).stage = "warm" /\ Resume(r, route).call = route.call
          /\ Resume(r, route).threshold = req[r].threshold
          /\ Resume(r, route).offered = req[r].offered
      BY <1>1, <2>3, ResumeType DEF Finds
    <3>5. PICK q \in TypedRequests :
            req' = [req EXCEPT ![r] = q] /\ q = Resume(r, route)
      BY <2>3 DEF Finds, Becomes
    <3>6. runs' = runs /\ route' = route
      BY <2>3 DEF Finds, history
    <3>7. QED
      BY <2>1, <3>2, <3>3, <3>4, <3>5, <3>6
  <2>4. CASE Holds(r)
    BY <2>4, EvidenceHold
  <2>5. CASE Replays(r)
    <3>1. At("hit", Absent, 0).stage = "hit"
      BY AtType
    <3>2. PICK q \in TypedRequests :
            req' = [req EXCEPT ![r] = q] /\ q.stage = "hit"
      BY <2>5, <3>1 DEF Replays, Becomes
    <3>3. runs' = runs /\ route' = route
      BY <2>5 DEF Replays
    <3>4. QED
      BY <2>1, <3>2, <3>3
  <2>6. CASE Runs(r)
    BY <2>6, EvidenceRun
  <2>7. CASE Writes(r)
    <3>1. PICK q \in TypedRequests :
            req' = [req EXCEPT ![r] = q] /\ q = Resume(r, req[r].update)
      BY <2>7 DEF Writes, Becomes
    <3>2. /\ runs' = runs /\ route' = req[r].update /\ req[r].stage \in Writing
          /\ req[r].update \in Records
      BY <1>1, <2>7, TypedFacts DEF Writes, WriteState, Put
    <3>3. CASE req[r].stage = "lookup_write" /\ req[r].update.status = "active"
      <4>1. /\ q.stage = "warm" /\ q.call = req[r].update.call
            /\ q.threshold = req[r].threshold /\ q.offered = req[r].offered
        BY <3>1, <3>2, <3>3, ResumeType
      <4>2. /\ req[r].update.observations >= req[r].threshold
            /\ Contracted(req[r].update.call, req[r].offered)
        BY <3>3 DEF EvidenceInv, EarnedBy
      <4>3. req[r].threshold \in Thresholds
        BY <1>1, <3>3, TypedFacts DEF Configured
      <4>4. runs[req[r].update.call] >= req[r].threshold
        BY <1>1, <3>2, <3>3, <4>2, <4>3, WarmIsEarned
      <4>5. QED
        BY <2>1, <3>1, <3>2, <4>1, <4>2, <4>4
    <3>4. CASE ~(req[r].stage = "lookup_write" /\ req[r].update.status = "active")
      <4>1. q.stage \in Resting
        BY <3>1, <3>2, <3>4, ResumeType DEF Writing
      <4>2. QED
        BY <2>1, <3>1, <3>2, <4>1 DEF Resting
    <3>5. QED
      BY <3>3, <3>4
  <2>8. CASE Gives(r)
    BY <2>1, <2>8 DEF Gives, WriteFails, Put, Becomes, Resting
  <2>9. QED
    BY <1>2, <2>2, <2>3, <2>4, <2>5, <2>6, <2>7, <2>8 DEF Step
<1>3. ASSUME NEW w \in Workers, Crash(w)
      PROVE  EvidenceInv'
  <2>1. \A r \in Requests : req'[r] = Idle \/ req'[r] = req[r]
    BY <1>3 DEF Crash
  <2>2. runs' = runs /\ route' = route
    BY <1>3 DEF Crash, history
  <2>3. \A c \in Calls : Pending(c)' \subseteq Pending(c)
    BY <2>1, IdleType DEF Pending
  <2>4. \A c \in Calls : IsFiniteSet(Pending(c)') /\ Backed(c, 0)'
    BY <2>2, <2>3, BackedKept DEF EvidenceInv
  <2>5. \A s \in Records : Sound(s) => Sound(s)'
    BY <2>2, <2>3, SoundKept
  <2>6. Sound(route)'
    BY <1>1, <2>2, <2>5 DEF Sound
  <2>7. ASSUME NEW i \in Requests
        PROVE  /\ Sound(req[i].update)'
               /\ req'[i].stage = "observe" => Valid(req'[i].call)
               /\ EarnedBy(req[i])'
    <3>1. CASE req'[i] = Idle
      BY <3>1, IdleType, UnseenSound DEF Sound, EarnedBy
    <3>2. CASE req'[i] = req[i]
      <4>1. PICK p \in TypedRequests : p = req[i]
        BY <1>1
      <4>2. Sound(p.update) /\ EarnedBy(p) /\ (p.stage = "observe" => Valid(p.call))
        BY <4>1 DEF EvidenceInv
      <4>3. Sound(p.update)'
        BY <2>5, <4>2, TypedFacts
      <4>4. EarnedBy(p)'
        BY <2>2, <4>2 DEF EarnedBy
      <4>5. QED
        BY <3>2, <4>1, <4>2, <4>3, <4>4 DEF Sound, EarnedBy
    <3>3. QED
      BY <2>1, <3>1, <3>2
  <2>8. QED
    BY <2>4, <2>6, <2>7 DEF EvidenceInv
<1>4. CASE UNCHANGED vars
  <2>1. UNCHANGED <<route, req, runs>>
    BY <1>4 DEF vars
  <2>2. QED
    BY <2>1 DEF EvidenceInv, Sound, Backed, Pending, EarnedBy
<1>5. QED
  BY <1>2, <1>3, <1>4, NextSteps

LEMMA EvidenceInvariant == Spec => [](TypeInv /\ EvidenceInv)
<1>1. Init => TypeInv /\ EvidenceInv
  BY TypeInit, EvidenceInit
<1>2. TypeInv /\ EvidenceInv /\ [Next]_vars => TypeInv' /\ EvidenceInv'
  BY TypeStep, EvidenceStep
<1>3. QED
  BY <1>1, <1>2, PTL DEF Spec

(* However many requests and workers race, and whatever fails in between:   *)
(* a request replays a call only if it succeeded, chosen by the model, as   *)
(* often as the threshold of that very request says, and only under the     *)
(* contract that request offers.                                            *)
THEOREM ReplaysEarned == Spec => []ReplaysAreEarned
<1>1. EvidenceInv => ReplaysAreEarned
  BY DEF EvidenceInv, EarnedBy, ReplaysAreEarned
<1>2. QED
  BY <1>1, EvidenceInvariant, PTL

(* No observation, write or failure makes the store hold arguments that the *)
(* schema of the stored contract rejects.                                   *)
THEOREM StoredArgumentsValid == Spec => []StoredArgumentsAreValid
<1>1. EvidenceInv => StoredArgumentsAreValid
  BY DEF EvidenceInv, Sound, Valid, StoredArgumentsAreValid
<1>2. QED
  BY <1>1, EvidenceInvariant, PTL

-----------------------------------------------------------------------------
(* Where all requests are threads of one worker, the lock makes each store  *)
(* operation one step: what a request is about to write is what it would    *)
(* make of the record that is stored now.                                   *)

SingleWorker == \A r, i \in Requests : WorkerOf[r] = WorkerOf[i]

LockInv == \A r \in Requests : req[r].stage \in Writing => lock[WorkerOf[r]] = r

Outcome(q) ==
  /\ q.update # route
  /\ q.stage = "lookup_write" => q.update = AfterLookup(route, q.offered, q.threshold)
  /\ q.stage = "hit_write" => q.update = HitRecorded(route)
  /\ q.stage = "observe_write" => q.update = Observed(route, q.call, q.threshold)
  /\ q.stage = "revoke_write" => q.update = Revoked(route)

CurrentInv == \A r \in Requests : req[r].stage \in Writing => Outcome(req[r])

LEMMA LockInit == Init => LockInv /\ CurrentInv
BY IdleType DEF Init, LockInv, CurrentInv, Writing

(* The request a step takes on, and what the step does to the lock. *)
LEMMA StepLock ==
  ASSUME TypeInv, NEW r \in Requests, Step(r)
  PROVE  \E q \in TypedRequests :
           /\ req' = [req EXCEPT ![r] = q]
           /\ \/ /\ req[r].stage \notin Writing /\ q.stage \notin Writing
                 /\ UNCHANGED <<route, lock>>
              \/ /\ req[r].stage \in Writing /\ q.stage \notin Writing
                 /\ lock' = [lock EXCEPT ![WorkerOf[r]] = Absent]
              \/ /\ req[r].stage \notin Writing /\ q.stage \in Writing
                 /\ lock[WorkerOf[r]] = Absent
                 /\ lock' = [lock EXCEPT ![WorkerOf[r]] = r]
                 /\ Outcome(q) /\ route' = route
<1>1. req[r] \in TypedRequests /\ route \in Records
  BY DEF TypeInv
<1>2. CASE Moves(r)
  BY <1>2 DEF Moves, Resting, Writing
<1>3. CASE Finds(r)
  <2>1. Resume(r, route).stage = "warm"
    BY <1>1, <1>3, ResumeType DEF Finds
  <2>2. QED
    BY <1>3, <2>1 DEF Finds, Becomes, Writing
<1>4. CASE Replays(r)
  <2>1. At("hit", Absent, 0).stage = "hit"
    BY AtType
  <2>2. QED
    BY <1>4, <2>1 DEF Replays, Becomes, Writing
<1>5. CASE Runs(r)
  <2>1. PICK c \in Calls :
          /\ req[r].stage = "cold"
          /\ Becomes(r, At("observe", c, req[r].threshold))
          /\ UNCHANGED <<route, lock>>
    BY <1>5 DEF Runs
  <2>2. req[r].threshold \in Nat /\ req[r].threshold \in Thresholds
    BY <1>1, <2>1, TypedFacts DEF Configured
  <2>3. At("observe", c, req[r].threshold).stage = "observe"
    BY <2>2, AtType
  <2>4. QED
    BY <2>1, <2>3 DEF Becomes, Writing
<1>6. CASE Writes(r)
  <2>1. req[r].update \in Records /\ req[r].stage \in Writing
    BY <1>1, <1>6, TypedFacts DEF Writes, WriteState
  <2>2. Resume(r, req[r].update).stage \notin Writing
    BY <2>1, ResumeType DEF Writing, Resting
  <2>3. QED
    BY <1>6, <2>1, <2>2 DEF Writes, WriteState, Release, Becomes
<1>7. CASE Gives(r)
  BY <1>7 DEF Gives, WriteFails, Release, Becomes, Resting, Writing
<1>8. CASE Holds(r)
  <2>1. req[r] \in RequestStates
    BY <1>1, TypedFacts
  <2>2. ASSUME NEW stage \in {"lookup", "hit", "observe", "revoke"},
               NEW pending \in Writing, NEW update,
               Change(r, stage, pending, update), route' = route,
               pending = "lookup_write" =>
                 update = AfterLookup(route, req[r].offered, req[r].threshold),
               pending = "hit_write" => update = HitRecorded(route),
               pending = "observe_write" =>
                 update = Observed(route, req[r].call, req[r].threshold),
               pending = "revoke_write" => update = Revoked(route)
        PROVE  \E q \in TypedRequests :
                 /\ req' = [req EXCEPT ![r] = q]
                 /\ req[r].stage \notin Writing /\ q.stage \in Writing
                 /\ lock[WorkerOf[r]] = Absent
                 /\ lock' = [lock EXCEPT ![WorkerOf[r]] = r]
                 /\ Outcome(q) /\ route' = route
    <3> DEFINE q == [req[r] EXCEPT !.stage = pending, !.update = update]
    <3>1. /\ q.stage = pending /\ q.update = update /\ q.call = req[r].call
          /\ q.offered = req[r].offered /\ q.threshold = req[r].threshold
      BY <2>1 DEF RequestStates
    <3>2. Outcome(q)
      BY <2>2, <3>1 DEF Outcome, Change
    <3>3. QED
      BY <2>2, <3>1, <3>2 DEF Change, Becomes, Writing
  <2>3. QED
    BY <1>8, <2>2 DEF Holds, Writing
<1>9. QED
  BY <1>2, <1>3, <1>4, <1>5, <1>6, <1>7, <1>8 DEF Step

LEMMA LockStep == TypeInv /\ LockInv /\ [Next]_vars => LockInv'
<1> SUFFICES ASSUME TypeInv, LockInv, [Next]_vars PROVE LockInv'
  OBVIOUS
<1>1. /\ req \in [Requests -> TypedRequests]
      /\ lock \in [Workers -> Requests \cup {Absent}]
      /\ \A r \in Requests : WorkerOf[r] \in Workers
      /\ Absent \notin Requests
  BY RequestsAssumption DEF TypeInv
<1>2. ASSUME NEW r \in Requests, Step(r)
      PROVE  LockInv'
  <2>1. PICK q \in TypedRequests :
          /\ req' = [req EXCEPT ![r] = q]
          /\ \/ q.stage \notin Writing /\ UNCHANGED lock
             \/ /\ req[r].stage \in Writing /\ q.stage \notin Writing
                /\ lock' = [lock EXCEPT ![WorkerOf[r]] = Absent]
             \/ /\ lock[WorkerOf[r]] = Absent
                /\ lock' = [lock EXCEPT ![WorkerOf[r]] = r]
    BY <1>2, StepLock
  <2>2. SUFFICES ASSUME NEW i \in Requests, req'[i].stage \in Writing
                 PROVE  lock'[WorkerOf[i]] = i
    BY DEF LockInv
  <2>3. CASE i = r
    BY <1>1, <2>1, <2>2, <2>3
  <2>4. CASE i # r
    <3>1. req[i].stage \in Writing
      BY <1>1, <2>1, <2>2, <2>4
    <3>2. lock[WorkerOf[i]] = i
      BY <3>1 DEF LockInv
    <3>3. WorkerOf[i] = WorkerOf[r] => req[r].stage \notin Writing /\ lock[WorkerOf[r]] # Absent
      BY <1>1, <2>4, <3>2 DEF LockInv
    <3>4. QED
      BY <1>1, <2>1, <3>2, <3>3
  <2>5. QED
    BY <2>3, <2>4
<1>3. ASSUME NEW w \in Workers, Crash(w)
      PROVE  LockInv'
  BY <1>1, <1>3, IdleType DEF Crash, LockInv, Writing
<1>4. CASE UNCHANGED vars
  BY <1>4 DEF LockInv, vars
<1>5. QED
  BY <1>2, <1>3, <1>4, NextSteps

LEMMA CurrentStep ==
  ASSUME SingleWorker
  PROVE  TypeInv /\ LockInv /\ CurrentInv /\ [Next]_vars => CurrentInv'
<1> SUFFICES ASSUME TypeInv, LockInv, CurrentInv, [Next]_vars PROVE CurrentInv'
  OBVIOUS
<1>1. req \in [Requests -> TypedRequests]
  BY DEF TypeInv
<1>2. ASSUME NEW r \in Requests, Step(r)
      PROVE  CurrentInv'
  <2>1. PICK q \in TypedRequests :
          /\ req' = [req EXCEPT ![r] = q]
          /\ \/ q.stage \notin Writing /\ UNCHANGED route
             \/ req[r].stage \in Writing /\ q.stage \notin Writing
             \/ Outcome(q) /\ UNCHANGED route
    BY <1>2, StepLock
  <2>2. SUFFICES ASSUME NEW i \in Requests, req'[i].stage \in Writing
                 PROVE  Outcome(req[i])'
    BY DEF CurrentInv
  <2>3. CASE i = r
    BY <1>1, <2>1, <2>2, <2>3 DEF Outcome
  <2>4. CASE i # r
    <3>1. req'[i] = req[i] /\ req[i].stage \in Writing
      BY <1>1, <2>1, <2>2, <2>4
    <3>2. req[r].stage \notin Writing
      BY <2>4, <3>1 DEF LockInv, SingleWorker
    <3>3. QED
      BY <2>1, <3>1, <3>2 DEF CurrentInv, Outcome
  <2>5. QED
    BY <2>3, <2>4
<1>3. ASSUME NEW w \in Workers, Crash(w)
      PROVE  CurrentInv'
  BY <1>1, <1>3, IdleType DEF Crash, CurrentInv, Outcome, Writing
<1>4. CASE UNCHANGED vars
  BY <1>4 DEF CurrentInv, Outcome, vars
<1>5. QED
  BY <1>2, <1>3, <1>4, NextSteps

(* What one write makes of the route. *)
LEMMA WriteOutcome ==
  ASSUME TypeInv, CurrentInv, NEW r \in Requests, req[r].stage \in Writing
  PROVE  LET u == req[r].update
         IN  /\ u \in Records /\ u # route
             /\ req[r].stage # "hit_write" => u.hits = route.hits
             /\ req[r].stage = "hit_write" => u.hits = route.hits + 1
             /\ u.status = "invalidated" \/ req[r].stage = "observe_write" \/
                  (Learned(u) => Learned(route) /\ u.call = route.call)
             /\ req[r].stage = "observe_write" =>
                  \/ /\ u.call = req[r].call /\ u.observations = 1 /\ u.status = "learning"
                  \/ /\ Learned(route) /\ route.call = req[r].call /\ u.call = route.call
                     /\ u.observations # 1 /\ u.status \in {"learning", "active"}
                  \/ u.status = "quarantined"
<1> DEFINE u == req[r].update
<1>1. /\ route \in Records /\ req[r] \in TypedRequests /\ u \in Records
      /\ req[r].threshold \in Nat /\ req[r].offered \in Offered
  BY TypedFacts DEF TypeInv
<1>2. Outcome(req[r])
  BY DEF CurrentInv
<1>3. CASE req[r].stage = "lookup_write"
  <2>1. /\ u.hits = route.hits
        /\ u.call # Absent => u.call = route.call
        /\ u.status = "invalidated" \/ Learned(u) = Learned(route)
    BY <1>1, <1>2, <1>3, AfterLookupType DEF Outcome
  <2>2. Learned(u) => u.call # Absent
    BY <1>1, RecordFacts
  <2>3. QED
    BY <1>1, <1>2, <1>3, <2>1, <2>2 DEF Outcome
<1>4. CASE req[r].stage = "hit_write"
  <2>1. u.call = route.call /\ u.status = route.status /\ u.hits = route.hits + 1
    BY <1>1, <1>2, <1>4, HitRecordedType DEF Outcome
  <2>2. QED
    BY <1>1, <1>2, <1>4, <2>1 DEF Outcome, Learned
<1>5. CASE req[r].stage = "revoke_write"
  <2>1. u.hits = route.hits /\ u.status \in {"unseen", "invalidated"}
    BY <1>1, <1>2, <1>5, RevokedType DEF Outcome
  <2>2. QED
    BY <1>1, <1>2, <1>5, <2>1 DEF Outcome, Learned
<1>6. CASE req[r].stage = "observe_write"
  <2>1. req[r].call \in Calls /\ req[r].threshold \in Thresholds
    BY <1>1, <1>6, TypedFacts DEF Called, Configured
  <2>2. Earned(1, req[r].threshold) = "learning"
    <3>1. req[r].threshold \in 2..Enough /\ Enough \in Nat
      BY <2>1, BoundsAssumption
    <3>2. QED
      BY <3>1 DEF Earned
  <2>3. /\ u.hits = route.hits
        /\ \/ u.call = req[r].call /\ u.observations = 1 /\ u.status = "learning"
           \/ /\ Learned(route) /\ route.call = req[r].call /\ u.call = req[r].call
              /\ u.observations = route.observations + 1 /\ Learned(u)
           \/ u.status = "quarantined"
    BY <1>1, <1>2, <1>6, <2>1, <2>2, ObservedType DEF Outcome
  <2>4. Learned(route) => route.observations \in Nat /\ route.observations >= 1
    BY <1>1, RecordFacts, BoundsAssumption
  <2>5. Learned(route) => route.observations + 1 # 1
    BY <2>4
  <2>6. QED
    BY <1>1, <1>2, <1>6, <2>3, <2>5 DEF Outcome, Learned
<1>7. QED
  BY <1>3, <1>4, <1>5, <1>6 DEF Writing

LEMMA ConflictStep ==
  TypeInv /\ CurrentInv /\ ConflictsQuarantine /\ [Next]_vars => ConflictsQuarantine'
<1> SUFFICES ASSUME TypeInv, CurrentInv, ConflictsQuarantine, [Next]_vars
             PROVE  ConflictsQuarantine'
  OBVIOUS
<1>1. ASSUME UNCHANGED <<route, witnessed>> PROVE ConflictsQuarantine'
  BY <1>1 DEF ConflictsQuarantine
<1>2. ASSUME NEW r \in Requests, req[r].stage \in Writing, Put(r)
      PROVE  ConflictsQuarantine'
  <2> DEFINE u == req[r].update
  <2>1. SUFFICES ASSUME Learned(u) PROVE Witnessed(r) \subseteq {u.call}
    BY <1>2 DEF Put, ConflictsQuarantine
  <2>2. u.status # "invalidated" /\ u.status # "quarantined"
    BY <2>1 DEF Learned
  <2>3. CASE req[r].stage # "observe_write"
    <3>1. Witnessed(r) = witnessed
      BY <2>2, <2>3 DEF Witnessed
    <3>2. Learned(route) /\ u.call = route.call
      BY <1>2, <2>1, <2>2, <2>3, WriteOutcome
    <3>3. QED
      BY <3>1, <3>2 DEF ConflictsQuarantine
  <2>4. CASE /\ req[r].stage = "observe_write"
             /\ u.call = req[r].call /\ u.observations = 1 /\ u.status = "learning"
    BY <2>4 DEF Witnessed
  <2>5. CASE /\ req[r].stage = "observe_write"
             /\ Learned(route) /\ route.call = req[r].call /\ u.call = route.call
             /\ u.observations # 1
    <3>1. Witnessed(r) = witnessed \cup {u.call}
      BY <2>2, <2>5 DEF Witnessed
    <3>2. QED
      BY <2>5, <3>1 DEF ConflictsQuarantine
  <2>6. QED
    BY <1>2, <2>2, <2>3, <2>4, <2>5, WriteOutcome
<1>3. ASSUME NEW r \in Requests, Step(r) PROVE ConflictsQuarantine'
  BY <1>1, <1>2, <1>3
     DEF Step, Moves, Finds, Holds, Replays, Runs, Writes, WriteState, Gives, WriteFails,
         history
<1>4. ASSUME NEW w \in Workers, Crash(w) PROVE ConflictsQuarantine'
  BY <1>1, <1>4 DEF Crash, history
<1>5. CASE UNCHANGED vars
  BY <1>1, <1>5 DEF vars
<1>6. QED
  BY <1>3, <1>4, <1>5, NextSteps

LEMMA SerialInvariant ==
  ASSUME SingleWorker
  PROVE  Spec => [](TypeInv /\ LockInv /\ CurrentInv)
<1>1. Init => TypeInv /\ LockInv /\ CurrentInv
  BY TypeInit, LockInit
<1>2. TypeInv /\ LockInv /\ CurrentInv /\ [Next]_vars => TypeInv' /\ LockInv' /\ CurrentInv'
  BY TypeStep, LockStep, CurrentStep
<1>3. QED
  BY <1>1, <1>2, PTL DEF Spec

(* Where all requests share one worker, two different calls observed for    *)
(* one request never leave a route that can be replayed: it is quarantined  *)
(* or starts over, and no race between two observations gets around that.   *)
THEOREM ConflictsQuarantined ==
  ASSUME SingleWorker
  PROVE  Spec => []ConflictsQuarantine
<1>1. Init => ConflictsQuarantine
  BY DEF Init, ConflictsQuarantine
<1>2. QED
  BY <1>1, ConflictStep, SerialInvariant, PTL DEF Spec

(* The replays whose hit is not recorded yet. *)
Hitting == {r \in Requests : req[r].stage \in {"hit", "hit_write"}}

HitInv ==
  /\ IsFiniteSet(Hitting)
  /\ route.hits + Cardinality(Hitting) <= replays
  /\ confirmed <= route.hits

LEMMA HitInit == Init => HitInv
<1> SUFFICES ASSUME Init PROVE HitInv
  OBVIOUS
<1>1. Hitting = {}
  BY IdleType DEF Init, Hitting
<1>2. QED
  BY <1>1, FS_EmptySet DEF Init, HitInv, Unseen

(* No replay is added, and at most the recorded one is counted. *)
LEMMA HitKept ==
  ASSUME TypeInv, HitInv, replays' = replays, Hitting' \subseteq Hitting,
         \/ route'.hits = route.hits /\ confirmed' = confirmed
         \/ /\ route'.hits = route.hits + 1 /\ confirmed' \in {confirmed, confirmed + 1}
            /\ \E r \in Hitting : r \notin Hitting'
  PROVE  HitInv'
<1>1. /\ IsFiniteSet(Hitting') /\ Cardinality(Hitting') \in Nat /\ Cardinality(Hitting) \in Nat
      /\ Cardinality(Hitting') <= Cardinality(Hitting)
  BY SubsetSize DEF HitInv
<1>2. ASSUME NEW r \in Hitting, r \notin Hitting'
      PROVE  Cardinality(Hitting') <= Cardinality(Hitting) - 1
  <2>1. /\ IsFiniteSet(Hitting \ {r})
        /\ Cardinality(Hitting \ {r}) = Cardinality(Hitting) - 1
    BY <1>2, FS_RemoveElement DEF HitInv
  <2>2. Hitting' \in SUBSET (Hitting \ {r})
    BY <1>2
  <2>3. QED
    BY <2>1, <2>2, SubsetSize
<1>3. route.hits \in Nat /\ replays \in Nat /\ confirmed \in Nat
  BY RecordFacts, BoundsAssumption DEF TypeInv
<1>4. QED
  BY <1>1, <1>2, <1>3 DEF HitInv

LEMMA HitStep == TypeInv /\ CurrentInv /\ HitInv /\ [Next]_vars => HitInv'
<1> SUFFICES ASSUME TypeInv, CurrentInv, HitInv, [Next]_vars PROVE HitInv'
  OBVIOUS
<1>1. req \in [Requests -> TypedRequests] /\ route \in Records
  BY DEF TypeInv
<1>2. ASSUME NEW r \in Requests, NEW q \in TypedRequests, req' = [req EXCEPT ![r] = q],
             q.stage \in {"hit", "hit_write"} => req[r].stage \in {"hit", "hit_write"}
      PROVE  Hitting' \subseteq Hitting
  BY <1>1, <1>2 DEF Hitting
<1>3. ASSUME NEW r \in Requests, Step(r)
      PROVE  HitInv'
  <2>1. CASE Moves(r)
    <3>1. Hitting' \subseteq Hitting
      BY <1>2, <2>1 DEF Moves, Resting
    <3>2. QED
      BY <2>1, <3>1, HitKept DEF Moves, history
  <2>2. CASE Finds(r)
    <3>1. Resume(r, route).stage = "warm"
      BY <1>1, <2>2, ResumeType DEF Finds
    <3>2. Hitting' \subseteq Hitting
      BY <1>2, <2>2, <3>1 DEF Finds, Becomes
    <3>3. QED
      BY <2>2, <3>2, HitKept DEF Finds, history
  <2>3. CASE Holds(r)
    <3>1. ASSUME NEW stage \in {"lookup", "hit", "observe", "revoke"},
                 NEW pending \in Writing, NEW update, Change(r, stage, pending, update),
                 pending = "hit_write" => stage = "hit"
          PROVE  Hitting' \subseteq Hitting
      <4> DEFINE q == [req[r] EXCEPT !.stage = pending, !.update = update]
      <4>1. req[r] \in RequestStates
        BY <1>1, TypedFacts
      <4>2. q.stage = pending /\ req[r].stage = stage
        BY <3>1, <4>1 DEF Change, RequestStates
      <4>3. QED
        BY <1>2, <3>1, <4>2 DEF Change, Becomes, Writing
    <3>2. Hitting' \subseteq Hitting
      BY <2>3, <3>1 DEF Holds, Writing
    <3>3. QED
      BY <2>3, <3>2, HitKept DEF Holds, history
  <2>4. CASE Replays(r)
    <3>1. At("hit", Absent, 0).stage = "hit"
      BY AtType
    <3>2. PICK q \in TypedRequests : req' = [req EXCEPT ![r] = q] /\ q.stage = "hit"
      BY <2>4, <3>1 DEF Replays, Becomes
    <3>3. Hitting' = Hitting \cup {r} /\ r \notin Hitting
      BY <1>1, <2>4, <3>2 DEF Hitting, Replays
    <3>4. IsFiniteSet(Hitting') /\ Cardinality(Hitting') = Cardinality(Hitting) + 1
          /\ Cardinality(Hitting) \in Nat
      BY <3>3, FS_AddElement, FS_CardinalityType DEF HitInv
    <3>5. /\ route' = route /\ replays' = replays + 1 /\ confirmed' = confirmed
          /\ route.hits \in Nat /\ replays \in Nat
      BY <2>4, RecordFacts, BoundsAssumption DEF Replays, TypeInv
    <3>6. QED
      BY <3>4, <3>5 DEF HitInv
  <2>5. CASE Runs(r)
    <3>1. PICK c \in Calls :
            /\ req[r].stage = "cold" /\ Becomes(r, At("observe", c, req[r].threshold))
            /\ UNCHANGED <<route, replays, confirmed>>
      BY <2>5 DEF Runs
    <3>2. req[r].threshold \in Nat /\ req[r].threshold \in Thresholds
      BY <1>1, <3>1, TypedFacts DEF Configured
    <3>3. At("observe", c, req[r].threshold).stage = "observe"
      BY <3>2, AtType
    <3>4. Hitting' \subseteq Hitting
      BY <1>2, <3>1, <3>3 DEF Becomes
    <3>5. QED
      BY <3>1, <3>4, HitKept
  <2>6. ASSUME req[r].stage \in Writing, route' = req[r].update, replays' = replays,
               confirmed' \in {confirmed, confirmed + 1},
               confirmed' # confirmed => req[r].stage = "hit_write",
               NEW q \in TypedRequests, req' = [req EXCEPT ![r] = q],
               q.stage \in Resting \cup {"warm"}
        PROVE  HitInv'
    <3>1. Hitting' \subseteq Hitting /\ r \notin Hitting'
      BY <1>1, <1>2, <2>6 DEF Hitting, Resting
    <3>2. CASE req[r].stage = "hit_write"
      BY <2>6, <3>1, <3>2, WriteOutcome, HitKept DEF Hitting
    <3>3. CASE req[r].stage # "hit_write"
      BY <2>6, <3>1, <3>3, WriteOutcome, HitKept
    <3>4. QED
      BY <3>2, <3>3
  <2>7. CASE Writes(r)
    <3>1. req[r].update \in Records
      BY <1>1, TypedFacts
    <3>2. PICK q \in TypedRequests :
            req' = [req EXCEPT ![r] = q] /\ q.stage \in Resting \cup {"warm"}
      BY <2>7, <3>1, ResumeType DEF Writes, Becomes
    <3>3. QED
      BY <2>6, <2>7, <3>2 DEF Writes, WriteState, Put
  <2>8. CASE Gives(r)
    <3>1. PICK q \in TypedRequests : req' = [req EXCEPT ![r] = q] /\ q.stage \in Resting
      BY <2>8 DEF Gives, Becomes
    <3>2. CASE Put(r)
      BY <2>6, <2>8, <3>1, <3>2 DEF Gives, WriteFails, Put
    <3>3. CASE UNCHANGED <<route, witnessed>>
      <4>1. Hitting' \subseteq Hitting
        BY <1>2, <3>1 DEF Resting
      <4>2. QED
        BY <2>8, <3>3, <4>1, HitKept DEF Gives, WriteFails
    <3>4. QED
      BY <2>8, <3>2, <3>3 DEF Gives, WriteFails
  <2>9. QED
    BY <1>3, <2>1, <2>2, <2>3, <2>4, <2>5, <2>7, <2>8 DEF Step
<1>4. ASSUME NEW w \in Workers, Crash(w)
      PROVE  HitInv'
  <2>1. Hitting' \subseteq Hitting
    BY <1>4, IdleType DEF Crash, Hitting
  <2>2. QED
    BY <1>4, <2>1, HitKept DEF Crash, history
<1>5. CASE UNCHANGED vars
  BY <1>5 DEF HitInv, Hitting, vars
<1>6. QED
  BY <1>3, <1>4, <1>5, NextSteps

(* Where all requests share one worker, the hit counter never overstates    *)
(* the successful replays and misses none whose recording returned: no two  *)
(* requests count up from the same record.                                  *)
THEOREM HitsCounted ==
  ASSUME SingleWorker
  PROVE  Spec => []HitsAreReplays
<1>1. TypeInv /\ HitInv => HitsAreReplays
  <2> SUFFICES ASSUME TypeInv, HitInv PROVE HitsAreReplays
    OBVIOUS
  <2>1. route.hits \in Nat /\ replays \in Nat /\ Cardinality(Hitting) \in Nat
    BY RecordFacts, FS_CardinalityType, BoundsAssumption DEF TypeInv, HitInv
  <2>2. QED
    BY <2>1 DEF HitInv, HitsAreReplays
<1>2. QED
  BY <1>1, HitInit, HitStep, SerialInvariant, PTL DEF Spec
-----------------------------------------------------------------------------
(* Every step of a request leaves it with fewer. *)

LEMMA StepsLeftFacts ==
  ASSUME NEW q
  PROVE  /\ q.stage = "idle" => StepsLeft(q) = 0
         /\ q.stage = "report" => StepsLeft(q) = 1
         /\ q.stage \in {"hit_write", "observe_write", "revoke_write"} => StepsLeft(q) = 2
         /\ q.stage \in {"hit", "observe", "revoke"} => StepsLeft(q) = 3
         /\ q.stage = "cold" => StepsLeft(q) = 4 + MaximumIterations - q.round
         /\ q.stage = "warm" => StepsLeft(q) = 4 + MaximumIterations
         /\ q.stage = "lookup_write" => StepsLeft(q) = 5 + MaximumIterations
         /\ q.stage = "lookup" => StepsLeft(q) = 6 + MaximumIterations
BY DEF StepsLeft

(* A round there is. *)
InRound(q) == q.stage = "cold" => q.round \in 1..MaximumIterations

(* A request moves, and has fewer steps left if it was under way. *)
Shortens(r, q) == req[r].stage = "idle" \/ StepsLeft(q) < StepsLeft(req[r])

Advances(r) == \E q : req' = [req EXCEPT ![r] = q] /\ Shortens(r, q)

LEMMA StagesShorten ==
  ASSUME TypeInv, NEW r \in Requests, NEW q, InRound(q),
         \/ req[r].stage = "idle"
         \/ req[r].stage # "idle" /\ q.stage = "idle"
         \/ req[r].stage \notin {"idle", "report"} /\ q.stage = "report"
         \/ req[r].stage = "hit" /\ q.stage = "hit_write"
         \/ req[r].stage = "observe" /\ q.stage = "observe_write"
         \/ req[r].stage = "revoke" /\ q.stage = "revoke_write"
         \/ req[r].stage \in {"cold", "warm"} /\ q.stage \in {"hit", "observe"}
         \/ req[r].stage = "cold" /\ q.stage = "cold" /\ q.round > req[r].round
         \/ req[r].stage \in {"warm", "lookup_write", "lookup"} /\ q.stage = "cold"
         \/ req[r].stage \in {"lookup_write", "lookup"} /\ q.stage = "warm"
         \/ req[r].stage = "lookup" /\ q.stage = "lookup_write"
  PROVE  Shortens(r, q)
<1> DEFINE p == req[r]
<1>1. p.stage \in Stages /\ InRound(p)
  BY TypedFacts DEF TypeInv, InRound
<1> HIDE DEF p
<1>2. MaximumIterations \in Nat \ {0}
  BY BoundsAssumption
<1>3. /\ StepsLeft(p) \in Int
      /\ p.stage # "idle" => StepsLeft(p) >= 1
      /\ p.stage \notin {"idle", "report"} => StepsLeft(p) >= 2
  BY <1>1, <1>2, StepsLeftFacts DEF Stages, Writing, InRound
<1>4. ASSUME p.stage # "idle"
      PROVE  StepsLeft(q) < StepsLeft(p)
  <2> DEFINE a == StepsLeft(p)
             b == StepsLeft(q)
  <2>1. /\ p.stage \in {"hit", "observe", "revoke"} => a = 3
        /\ p.stage = "cold" => a = 4 + MaximumIterations - p.round
        /\ p.stage = "warm" => a = 4 + MaximumIterations
        /\ p.stage = "lookup_write" => a = 5 + MaximumIterations
        /\ p.stage = "lookup" => a = 6 + MaximumIterations
        /\ a \in Int /\ a >= 1 /\ (p.stage \notin {"idle", "report"} => a >= 2)
    BY <1>3, <1>4, StepsLeftFacts
  <2>2. /\ q.stage = "idle" => b = 0
        /\ q.stage = "report" => b = 1
        /\ q.stage \in {"hit_write", "observe_write", "revoke_write"} => b = 2
        /\ q.stage \in {"hit", "observe"} => b = 3
        /\ q.stage = "cold" => b = 4 + MaximumIterations - q.round
        /\ q.stage = "warm" => b = 4 + MaximumIterations
        /\ q.stage = "lookup_write" => b = 5 + MaximumIterations
    BY StepsLeftFacts
  <2> HIDE DEF a, b
  <2>3. b < a
    BY <1>1, <1>2, <1>4, <2>1, <2>2 DEF InRound, p
  <2>4. QED
    BY <2>3 DEF a, b
<1>5. QED
  BY <1>4 DEF Shortens, p

LEMMA ResumeShortens ==
  ASSUME TypeInv, NEW r \in Requests, NEW s \in Records,
         req[r].stage \in Writing \cup {"lookup", "hit", "observe", "revoke"}
  PROVE  Shortens(r, Resume(r, s))
<1> DEFINE q == Resume(r, s)
           looking == req[r].stage \in {"lookup", "lookup_write"}
<1>1. InRound(q)
  BY ResumeType, TypedFacts DEF InRound
<1>2. CASE looking
  <2>1. req[r] \in RequestStates
    BY TypedFacts DEF TypeInv
  <2>2. CASE s.status = "active"
    <3>1. q.stage = "warm"
      BY <1>2, <2>2, ResumeType
    <3>2. QED
      BY <1>1, <1>2, <3>1, StagesShorten
  <2>3. CASE s.status # "active"
    <3>1. q = [req[r] EXCEPT !.stage = "cold", !.update = Unseen]
      BY <1>2, <2>3 DEF Resume
    <3>2. q.stage = "cold"
      BY <2>1, <3>1 DEF RequestStates
    <3>3. QED
      BY <1>1, <1>2, <3>2, StagesShorten
  <2>4. QED
    BY <2>2, <2>3
<1>3. CASE req[r].stage \in {"revoke", "revoke_write"}
  <2>1. q = Idle
    BY <1>3 DEF Resume
  <2>2. q.stage = "idle"
    BY <2>1, IdleType
  <2>3. QED
    BY <1>1, <1>3, <2>2, StagesShorten
<1>4. CASE req[r].stage \notin {"lookup", "lookup_write", "revoke", "revoke_write"}
  <2>1. q = Settled(TRUE)
    BY <1>4 DEF Resume
  <2>2. q.stage = "report"
    BY <2>1, SettledType
  <2>3. req[r].stage \notin {"idle", "report"}
    BY DEF Writing
  <2>4. QED
    BY <1>1, <2>2, <2>3, StagesShorten
<1>5. QED
  BY <1>2, <1>3, <1>4

LEMMA LoadAdvances ==
  ASSUME TypeInv, NEW r \in Requests,
         \/ Lookup(r) \/ RecordHit(r) \/ ObserveSuccess(r) \/ Invalidate(r)
  PROVE  Advances(r)
<1>1. PICK pending, update :
        /\ \/ req[r].stage = "lookup" /\ pending = "lookup_write"
           \/ req[r].stage = "hit" /\ pending = "hit_write"
           \/ req[r].stage = "observe" /\ pending = "observe_write"
           \/ req[r].stage = "revoke" /\ pending = "revoke_write"
        /\ Load(r, pending, update)
  BY DEF Lookup, RecordHit, ObserveSuccess, Invalidate
<1>2. req[r] \in RequestStates /\ route \in Records /\ req \in [Requests -> TypedRequests]
  BY TypedFacts DEF TypeInv
<1>3. CASE update = route
  <2>1. req' = [req EXCEPT ![r] = Resume(r, route)]
    BY <1>1, <1>3 DEF Load
  <2>2. Shortens(r, Resume(r, route))
    BY <1>1, <1>2, ResumeShortens
  <2>3. QED
    BY <2>1, <2>2 DEF Advances
<1>4. CASE update # route
  <2> DEFINE q == [req[r] EXCEPT !.stage = pending, !.update = update]
  <2>1. req' = [req EXCEPT ![r] = q]
    BY <1>1, <1>2, <1>4 DEF Load
  <2>2. q.stage = pending
    BY <1>2 DEF RequestStates
  <2> HIDE DEF q
  <2>3. Shortens(r, q)
    BY <1>1, <2>2, StagesShorten DEF InRound
  <2>4. QED
    BY <2>1, <2>3 DEF Advances
<1>5. QED
  BY <1>3, <1>4

LEMMA WriteAdvances ==
  ASSUME TypeInv, NEW r \in Requests, WriteState(r) \/ ReadFails(r) \/ WriteFails(r)
  PROVE  Advances(r)
<1>1. PICK s : req' = [req EXCEPT ![r] = Resume(r, s)] /\ s \in {req[r].update, Unseen}
  BY DEF WriteState, ReadFails, WriteFails, Abandon
<1>2. s \in Records
  BY <1>1, TypedFacts, UnseenType DEF TypeInv
<1>3. Shortens(r, Resume(r, s))
  BY <1>2, ResumeShortens DEF WriteState, ReadFails, WriteFails
<1>4. QED
  BY <1>1, <1>3 DEF Advances

LEMMA RoundAdvances ==
  ASSUME TypeInv, NEW r \in Requests, req[r].stage = "cold",
         NEW succeeded \in BOOLEAN, NEW answered \in BOOLEAN,
         NextRound(r, succeeded, answered)
  PROVE  Advances(r)
<1>1. req[r] \in RequestStates /\ req[r].round \in 1..MaximumIterations
  BY TypedFacts DEF TypeInv
<1>2. CASE req[r].round < MaximumIterations
  <2> DEFINE q == [req[r] EXCEPT !.round = @ + 1, !.succeeded = succeeded]
  <2>1. req' = [req EXCEPT ![r] = q]
    BY <1>2 DEF NextRound
  <2>2. q.stage = "cold" /\ q.round = req[r].round + 1
    BY <1>1 DEF RequestStates
  <2> HIDE DEF q
  <2>3. q.round > req[r].round /\ InRound(q)
    BY <1>1, <1>2, <2>2, BoundsAssumption DEF InRound
  <2>4. Shortens(r, q)
    BY <2>2, <2>3, StagesShorten
  <2>5. QED
    BY <2>1, <2>4 DEF Advances
<1>3. CASE ~(req[r].round < MaximumIterations)
  <2>1. req' = [req EXCEPT ![r] = Settled(answered)]
    BY <1>3 DEF NextRound
  <2>2. Shortens(r, Settled(answered))
    BY SettledType, StagesShorten DEF InRound
  <2>3. QED
    BY <2>1, <2>2 DEF Advances
<1>4. QED
  BY <1>2, <1>3

LEMMA RequestAdvances ==
  ASSUME TypeInv, NEW r \in Requests,
         \/ Start(r) \/ StartRevocation(r) \/ RunCrystal(r) \/ RunDirect(r)
         \/ DirectFails(r) \/ RunOthers(r) \/ Conclude(r) \/ ModelFails(r) \/ Report(r)
  PROVE  Advances(r)
<1>1. req[r] \in RequestStates /\ req \in [Requests -> TypedRequests]
  BY TypedFacts DEF TypeInv
<1>2. ASSUME NEW answered \in BOOLEAN, req[r].stage = "cold",
             req' = [req EXCEPT ![r] = Settled(answered)]
      PROVE  Advances(r)
  <2>1. Shortens(r, Settled(answered))
    BY <1>2, SettledType, StagesShorten DEF InRound
  <2>2. QED
    BY <1>2, <2>1 DEF Advances
<1>3. CASE Start(r) \/ StartRevocation(r)
  <2>1. PICK q : req' = [req EXCEPT ![r] = q]
    BY <1>1, <1>3 DEF Start, StartRevocation
  <2>2. req[r].stage = "idle"
    BY <1>3, IdleType DEF Start, StartRevocation
  <2>3. QED
    BY <2>1, <2>2 DEF Advances, Shortens
<1>4. CASE RunCrystal(r)
  <2>1. req[r].stage = "warm"
    BY <1>4 DEF RunCrystal
  <2>2. CASE req' = [req EXCEPT ![r] = At("hit", Absent, 0)]
    <3>1. At("hit", Absent, 0).stage = "hit"
      BY AtType
    <3>2. Shortens(r, At("hit", Absent, 0))
      BY <2>1, <3>1, StagesShorten DEF InRound
    <3>3. QED
      BY <2>2, <3>2 DEF Advances
  <2>3. CASE req' = [req EXCEPT ![r].stage = "cold", ![r].call = Absent]
    <3> DEFINE q == [req[r] EXCEPT !.stage = "cold", !.call = Absent]
    <3>1. req' = [req EXCEPT ![r] = q]
      BY <1>1, <2>3
    <3>2. q.stage = "cold" /\ q.round = req[r].round
      BY <1>1 DEF RequestStates
    <3> HIDE DEF q
    <3>3. Shortens(r, q)
      BY <1>1, <2>1, <3>2, StagesShorten DEF InRound, RequestStates
    <3>4. QED
      BY <3>1, <3>3 DEF Advances
  <2>4. QED
    BY <1>4, <2>2, <2>3 DEF RunCrystal
<1>5. CASE RunDirect(r)
  <2>1. PICK c \in Calls :
          /\ req[r].stage = "cold"
          /\ \/ req' = [req EXCEPT ![r] = At("observe", c, req[r].threshold)]
             \/ req' = [req EXCEPT ![r] = Settled(TRUE)]
    BY <1>5 DEF RunDirect
  <2>2. CASE req' = [req EXCEPT ![r] = At("observe", c, req[r].threshold)]
    <3>1. req[r].threshold \in Thresholds /\ req[r].threshold \in Nat
      BY <2>1, TypedFacts DEF TypeInv, Configured
    <3> DEFINE q == At("observe", c, req[r].threshold)
    <3>2. q.stage = "observe"
      BY <3>1, AtType
    <3> HIDE DEF q
    <3>3. Shortens(r, q)
      BY <2>1, <3>2, StagesShorten DEF InRound
    <3>4. QED
      BY <2>2, <3>3 DEF Advances, q
  <2>3. QED
    BY <1>2, <2>1, <2>2
<1>6. CASE DirectFails(r)
  BY <1>6, RoundAdvances, TypedFacts DEF DirectFails, TypeInv
<1>7. CASE RunOthers(r)
  <2>1. PICK success \in BOOLEAN :
          req[r].stage = "cold" /\ NextRound(r, req[r].succeeded \/ success, TRUE)
    BY <1>7 DEF RunOthers
  <2>2. (req[r].succeeded \/ success) \in BOOLEAN
    OBVIOUS
  <2>3. QED
    BY <2>1, <2>2, RoundAdvances
<1>8. CASE Conclude(r) \/ ModelFails(r)
  <2>1. PICK answered \in BOOLEAN :
          req[r].stage = "cold" /\ req' = [req EXCEPT ![r] = Settled(answered)]
    BY <1>8 DEF Conclude, ModelFails
  <2>2. QED
    BY <1>2, <2>1
<1>9. CASE Report(r)
  <2>1. Shortens(r, Idle)
    BY <1>9, IdleType, StagesShorten DEF InRound, Report
  <2>2. QED
    BY <1>9, <2>1 DEF Report, Advances
<1>10. QED
  BY <1>3, <1>4, <1>5, <1>6, <1>7, <1>8, <1>9

(* No step takes a request back, so that a request takes at most            *)
(* MaximumIterations + 6 steps from its start to its end, whatever the      *)
(* model asks for, whatever fails and whatever other requests do.           *)
THEOREM RequestsOnlyAdvance == Spec => RequestsAdvance
<1> DEFINE Forward == \A r \in Requests :
      req[r].stage = "idle" \/ req'[r] = req[r] \/ StepsLeft(req'[r]) < StepsLeft(req[r])
<1>1. ASSUME TypeInv, NEW s \in Requests, Advances(s)
      PROVE  Forward
  <2>1. PICK q : req' = [req EXCEPT ![s] = q] /\ Shortens(s, q)
    BY <1>1 DEF Advances
  <2>2. req'[s] = q /\ \A r \in Requests : r # s => req'[r] = req[r]
    BY <1>1, <2>1 DEF TypeInv
  <2>3. QED
    BY <2>1, <2>2 DEF Shortens
<1>2. ASSUME TypeInv, NEW w \in Workers, Crash(w)
      PROVE  Forward
  <2>1. ASSUME NEW r \in Requests, req'[r] # req[r], req[r].stage # "idle"
        PROVE  StepsLeft(req'[r]) < StepsLeft(req[r])
    <3>1. req'[r] = Idle
      BY <1>2, <2>1 DEF Crash
    <3>2. Shortens(r, Idle)
      BY <1>2, <2>1, IdleType, StagesShorten DEF InRound
    <3>3. QED
      BY <2>1, <3>1, <3>2 DEF Shortens
  <2>2. QED
    BY <2>1
<1>3. ASSUME TypeInv, [Next]_vars
      PROVE  Forward \/ UNCHANGED vars
  <2>1. \/ \E r \in Requests : Advances(r)
        \/ \E w \in Workers : Crash(w)
        \/ UNCHANGED vars
    BY <1>3, LoadAdvances, WriteAdvances, RequestAdvances DEF Next, Serve, StoreFails
  <2>2. QED
    BY <1>1, <1>2, <1>3, <2>1
<1>4. TypeInv /\ [Next]_vars => [Forward]_vars
  BY <1>3
<1>5. QED
  BY <1>4, TypeInvariant, PTL DEF Spec, RequestsAdvance
=============================================================================
