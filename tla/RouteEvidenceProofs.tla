------------------------ MODULE RouteEvidenceProofs ------------------------
(***************************************************************************)
(* The requests of one worker implement RouteEvidence.tla, on top of the    *)
(* invariants of AgentStrategyProofs.tla.                                   *)
(***************************************************************************)
EXTENDS AgentStrategyProofs

-----------------------------------------------------------------------------
(* What the operations make of the evidence in a record.                    *)

LEMMA LookupEvidence ==
  ASSUME NEW s \in Records, NEW offered \in Offered, NEW threshold \in Nat, NEW u,
         u = AfterLookup(s, offered, threshold), u # s
  PROVE  /\ u \in Records /\ u.hits = s.hits
         /\ s.call # Absent /\ s.status # "quarantined" /\ u.status # "quarantined"
         /\ \/ u.call = Absent /\ u.observations = 0 /\ u.status = "invalidated"
            \/ u.call = s.call /\ u.observations = s.observations
         /\ u.status = "active" => u.observations >= threshold /\ u.call = s.call
<1>1. /\ u \in Records /\ u.hits = s.hits
      /\ u.call # Absent => u.call = s.call /\ u.observations = s.observations
      /\ u.status = "invalidated" \/ Learned(u) = Learned(s)
      /\ u.status = "active" => u.observations >= threshold
  BY AfterLookupType
<1>2. Learned(s)
  BY DEF AfterLookup
<1>3. s.call # Absent /\ s.status # "quarantined"
  BY <1>2, RecordFacts DEF Learned
<1>4. CASE u.status = "invalidated"
  BY <1>1, <1>3, <1>4 DEF Records, ValidRoute
<1>5. CASE Learned(u)
  BY <1>1, <1>3, <1>5, RecordFacts DEF Learned
<1>6. QED
  BY <1>1, <1>2, <1>4, <1>5

LEMMA HitEvidence ==
  ASSUME NEW s \in Records, NEW u, u = HitRecorded(s), u # s
  PROVE  /\ u.call = s.call /\ u.observations = s.observations /\ u.status = s.status
         /\ u.hits = s.hits + 1
         /\ s.call # Absent /\ s.status # "quarantined"
<1>1. s.status = "active"
  BY DEF HitRecorded
<1>2. QED
  BY <1>1, HitRecordedType, RecordFacts DEF Learned

LEMMA RevokedEvidence ==
  ASSUME NEW s \in Records, NEW u, u = Revoked(s)
  PROVE  /\ u.call = Absent /\ u.observations = 0 /\ u.hits = s.hits
         /\ u.status # "quarantined"
         /\ s.call = Absent => s.observations = 0 /\ s.status # "quarantined"
<1>1. u \in Records /\ u.hits = s.hits /\ u.call = Absent
      /\ u.status \in {"unseen", "invalidated"}
  BY RevokedType
<1>2. QED
  BY <1>1 DEF Records, ValidRoute

(* The call c takes the place of call d. *)
Replaces(d, c) == d # Absent /\ d.tool = c.tool /\ d.version # c.version

LEMMA ObservedEvidence ==
  ASSUME NEW s \in Records, NEW c \in Calls, NEW threshold \in Nat, NEW u,
         u = Observed(s, c, threshold), u # s
  PROVE  /\ s.status # "quarantined" /\ u.hits = s.hits
         /\ \/ /\ s.call = Absent \/ Replaces(s.call, c)
               /\ u.call = c /\ u.observations = 1 /\ u.status # "quarantined"
            \/ /\ s.call = c /\ s.observations < MaxCounter
               /\ u.call = s.call /\ u.observations = s.observations + 1
               /\ u.status # "quarantined"
            \/ /\ s.call \notin {Absent, c} /\ ~Replaces(s.call, c)
               /\ u.call = s.call /\ u.observations = s.observations
               /\ u.status = "quarantined"
<1>0. s.status # "quarantined"
  BY DEF Observed, Learned
<1>1. s.status # "quarantined" /\ u.hits = s.hits
  BY <1>0, ObservedType
<1>2. CASE s.status \in {"unseen", "invalidated"} \/ (Learned(s) /\ Replaces(s.call, c))
  <2>1. s.call = Absent \/ Replaces(s.call, c)
    BY <1>2 DEF Records, ValidRoute
  <2>2. u = Fresh(s, c, threshold)
    BY <1>2 DEF Observed, Learned, Replaces
  <2>3. u.call = c /\ u.observations = 1 /\ u.status # "quarantined"
    BY <2>2, FreshType DEF Earned
  <2>4. QED
    BY <1>1, <2>1, <2>3
<1>3. CASE Learned(s) /\ s.call = c
  <2>1. s.observations # MaxCounter
    BY <1>3 DEF Observed, Learned
  <2>2. s.observations < MaxCounter
    BY <2>1, RecordFacts, BoundsAssumption
  <2>3. u = [s EXCEPT !.observations = @ + 1, !.status = Earned(s.observations + 1, threshold)]
    BY <1>3, <2>2 DEF Observed, Learned
  <2>4. /\ u.call = s.call /\ u.observations = s.observations + 1
        /\ u.status # "quarantined"
    BY <2>3, RecordFacts DEF Routes, Earned
  <2>5. QED
    BY <1>1, <1>3, <2>2, <2>4
<1>4. CASE Learned(s) /\ s.call # c /\ ~Replaces(s.call, c)
  <2>1. s.call # Absent
    BY <1>4, RecordFacts
  <2>2. u = Quarantined(s)
    BY <1>4, <2>1 DEF Observed, Learned, Replaces
  <2>3. u.call = s.call /\ u.observations = s.observations /\ u.status = "quarantined"
    BY <2>2, RecordFacts DEF Quarantined, Routes
  <2>4. QED
    BY <1>1, <1>4, <2>1, <2>3
<1>5. s.status \in {"unseen", "invalidated"} \/ Learned(s)
  BY <1>1, RecordFacts DEF Statuses, Learned
<1>6. QED
  BY <1>2, <1>3, <1>4, <1>5

(* What RouteEvidence.tla sees of the requests. *)
SeenDoing == [r \in Requests |-> Doing(req[r])]

LEMMA DoingFacts ==
  ASSUME NEW q
  PROVE  /\ q.stage \in Resting \cup {"lookup_write", "revoke_write"} =>
              Doing(q) = Promise!Rests
         /\ q.stage \in {"observe", "observe_write"} =>
              Doing(q) = Promise!Does("success", q.call)
         /\ q.stage = "warm" => Doing(q) = Promise!Does("plan", q.call)
         /\ q.stage \in {"hit", "hit_write"} => Doing(q) = Promise!Does("replay", Absent)
BY DEF Doing, Resting, Promise!Rests, Promise!Does

LEMMA SeenMove ==
  ASSUME TypeInv, NEW r \in Requests, NEW q, req' = [req EXCEPT ![r] = q]
  PROVE  /\ SeenDoing[r] = Doing(req[r])
         /\ SeenDoing' = [SeenDoing EXCEPT ![r] = Doing(q)]
         /\ Doing(q) = Doing(req[r]) => SeenDoing' = SeenDoing
<1>1. req \in [Requests -> TypedRequests]
  BY DEF TypeInv
<1>2. SeenDoing[r] = Doing(req[r])
  BY DEF SeenDoing
<1>3. SeenDoing' = [SeenDoing EXCEPT ![r] = Doing(q)]
  BY <1>1 DEF SeenDoing
<1>4. [SeenDoing EXCEPT ![r] = SeenDoing[r]] = SeenDoing
  BY DEF SeenDoing
<1>5. QED
  BY <1>2, <1>3, <1>4

(* What a request did comes to nothing: it failed, or changed no record. *)
LEMMA Forgotten ==
  ASSUME TypeInv, NEW r \in Requests, NEW q, req' = [req EXCEPT ![r] = q],
         q.stage \in Resting, UNCHANGED route
  PROVE  Promise!Next
<1>1. Doing(q) = Promise!Rests
  BY DoingFacts
<1> DEFINE rests == Promise!Rests
<1>0. SeenDoing' = [SeenDoing EXCEPT ![r] = rests]
  BY <1>1, SeenMove
<1> HIDE DEF rests
<1>01. SeenDoing' = [i \in Requests |-> IF i \in {r} THEN rests ELSE SeenDoing[i]]
  BY <1>0 DEF SeenDoing
<1>2. SeenDoing' = [i \in Requests |-> IF i \in {r} THEN Promise!Rests ELSE SeenDoing[i]]
  BY <1>01 DEF rests
<1>3. Promise!Forget
  BY <1>2 DEF Promise!Forget, SeenDoing
<1>4. QED
  BY <1>3 DEF Promise!Next

(* The write of a record, which leaves the request at rest or planning a    *)
(* replay.                                                                  *)
LEMMA Written ==
  ASSUME TypeInv, CurrentInv, NEW r \in Requests, req[r].stage \in Writing,
         NEW u, u = req[r].update, route' = u, NEW q, req' = [req EXCEPT ![r] = q],
         \/ q.stage \in Resting
         \/ /\ req[r].stage = "lookup_write" /\ u.status = "active"
            /\ q.stage = "warm" /\ q.call = u.call
  PROVE  [Promise!Next]_Promise!vars
<1>1. /\ route \in Records /\ req[r] \in TypedRequests /\ u \in Records
      /\ req[r].threshold \in Nat /\ req[r].offered \in Offered
  BY TypedFacts DEF TypeInv
<1>2. Outcome(req[r]) /\ u # route
  BY DEF CurrentInv, Outcome
<1>3. /\ SeenDoing[r] = Doing(req[r])
      /\ SeenDoing' = [SeenDoing EXCEPT ![r] = Doing(q)]
      /\ Doing(q) = Doing(req[r]) => SeenDoing' = SeenDoing
  BY SeenMove
<1>4. CASE req[r].stage = "lookup_write"
  <2>1. u = AfterLookup(route, req[r].offered, req[r].threshold)
    BY <1>2, <1>4 DEF Outcome
  <2>2. /\ u.hits = route.hits
        /\ route.call # Absent /\ route.status # "quarantined" /\ u.status # "quarantined"
        /\ \/ u.call = Absent /\ u.observations = 0 /\ u.status = "invalidated"
           \/ u.call = route.call /\ u.observations = route.observations
        /\ u.status = "active" => u.observations >= req[r].threshold /\ u.call = route.call
    BY <1>1, <1>2, <2>1, LookupEvidence
  <2>3. Doing(req[r]) = Promise!Rests
    BY <1>4, DoingFacts
  <2>4. CASE q.stage \in Resting
    <3>1. SeenDoing' = SeenDoing
      BY <1>3, <2>3, <2>4, DoingFacts
    <3>2. CASE u.call = Absent /\ u.observations = 0
      <4>1. Promise!Discard
        BY <2>2, <3>1, <3>2 DEF Promise!Discard, SeenDoing
      <4>2. QED
        BY <4>1 DEF Promise!Next
    <3>3. CASE u.call = route.call /\ u.observations = route.observations
      BY <2>2, <3>1, <3>3 DEF Promise!vars, SeenDoing
    <3>4. QED
      BY <2>2, <3>2, <3>3
  <2>5. CASE u.status = "active" /\ q.stage = "warm" /\ q.call = u.call
    <3>1. u.call = route.call /\ u.observations = route.observations
      BY <2>2, <2>5
    <3>2. req[r].threshold \in 2..Enough /\ Enough \in Nat /\ u.observations \in Nat
      BY <1>1, <1>4, TypedFacts, RecordFacts, BoundsAssumption DEF Configured
    <3>3. route.observations >= 2
      BY <2>2, <2>5, <3>1, <3>2
    <3>4. /\ SeenDoing[r] = Promise!Rests
          /\ SeenDoing' = [SeenDoing EXCEPT ![r] = Promise!Does("plan", route.call)]
      <4>1. Doing(q) = Promise!Does("plan", route.call)
        BY <2>5, <3>1, DoingFacts
      <4>2. QED
        BY <1>3, <2>3, <4>1
    <3>5. Promise!Plan(r)
      BY <2>2, <3>1, <3>3, <3>4 DEF Promise!Plan, Promise!Becomes, SeenDoing
    <3>6. QED
      BY <3>5 DEF Promise!Next
  <2>6. QED
    BY <2>4, <2>5
<1>5. ASSUME req[r].stage # "lookup_write"
      PROVE  q.stage \in Resting /\ Doing(q) = Promise!Rests
  BY <1>5, DoingFacts
<1>6. CASE req[r].stage = "hit_write"
  <2>1. u = HitRecorded(route)
    BY <1>2, <1>6 DEF Outcome
  <2>2. /\ u.call = route.call /\ u.observations = route.observations
        /\ u.status = route.status /\ u.hits = route.hits + 1
        /\ route.call # Absent /\ route.status # "quarantined"
    BY <1>1, <1>2, <2>1, HitEvidence
  <2>3. SeenDoing[r].does = "replay"
    BY <1>3, <1>6, DoingFacts DEF Promise!Does
  <2>4. SeenDoing' = [SeenDoing EXCEPT ![r] = Promise!Rests]
    BY <1>3, <1>5, <1>6
  <2>5. Promise!Count(r)
    BY <2>2, <2>3, <2>4 DEF Promise!Count, Promise!Becomes, SeenDoing
  <2>6. QED
    BY <2>5 DEF Promise!Next
<1>7. CASE req[r].stage = "observe_write"
  <2> DEFINE c == req[r].call
  <2>1. u = Observed(route, c, req[r].threshold) /\ c \in Calls
    BY <1>1, <1>2, <1>7, TypedFacts DEF Outcome, Called
  <2>2. /\ route.status # "quarantined" /\ u.hits = route.hits
        /\ \/ /\ route.call = Absent \/ Replaces(route.call, c)
              /\ u.call = c /\ u.observations = 1 /\ u.status # "quarantined"
           \/ /\ route.call = c /\ route.observations < MaxCounter
              /\ u.call = route.call /\ u.observations = route.observations + 1
              /\ u.status # "quarantined"
           \/ /\ route.call \notin {Absent, c} /\ ~Replaces(route.call, c)
              /\ u.call = route.call /\ u.observations = route.observations
              /\ u.status = "quarantined"
    BY <1>1, <1>2, <2>1, ObservedEvidence
  <2>3. /\ SeenDoing[r] = Promise!Does("success", c)
        /\ SeenDoing' = [SeenDoing EXCEPT ![r] = Promise!Rests]
    BY <1>3, <1>5, <1>7, DoingFacts
  <2>4. Replaces(route.call, c) <=> Promise!Replaces(c)
    BY DEF Replaces, Promise!Replaces
  <2> HIDE DEF c
  <2>5. Promise!Observe(r)
    BY <2>1, <2>2, <2>3, <2>4 DEF Promise!Observe, Promise!Becomes, SeenDoing
  <2>6. QED
    BY <2>5 DEF Promise!Next
<1>8. CASE req[r].stage = "revoke_write"
  <2>1. u = Revoked(route)
    BY <1>2, <1>8 DEF Outcome
  <2>2. /\ u.call = Absent /\ u.observations = 0 /\ u.hits = route.hits
        /\ u.status # "quarantined"
        /\ route.call = Absent => route.observations = 0 /\ route.status # "quarantined"
    BY <1>1, <2>1, RevokedEvidence
  <2>3. SeenDoing' = SeenDoing
    BY <1>3, <1>5, <1>8, DoingFacts
  <2>4. CASE route.call = Absent
    BY <2>2, <2>3, <2>4 DEF Promise!vars, SeenDoing
  <2>5. CASE route.call # Absent
    <3>1. Promise!Discard
      BY <2>2, <2>3, <2>5 DEF Promise!Discard, SeenDoing
    <3>2. QED
      BY <3>1 DEF Promise!Next
  <2>6. QED
    BY <2>4, <2>5
<1>9. QED
  BY <1>4, <1>6, <1>7, <1>8 DEF Writing

LEMMA PromiseStep ==
  ASSUME TypeInv, CurrentInv, NEW r \in Requests, Step(r)
  PROVE  [Promise!Next]_Promise!vars
<1>1. req[r] \in TypedRequests /\ route \in Records
  BY DEF TypeInv
<1>2. CASE Moves(r)
  BY <1>2, Forgotten DEF Moves
<1>3. CASE Finds(r)
  <2>1. /\ Resume(r, route).stage = "warm" /\ Resume(r, route).call = route.call
    BY <1>1, <1>3, ResumeType DEF Finds
  <2>2. /\ req[r].threshold \in 2..Enough /\ Enough \in Nat /\ req[r].threshold \in Nat
        /\ req[r].offered \in Offered
    BY <1>1, <1>3, TypedFacts, BoundsAssumption DEF Finds, Configured
  <2>3. /\ route.observations >= req[r].threshold /\ route.observations \in Nat
        /\ route.call # Absent /\ route.status # "quarantined"
    <3>1. route.observations >= req[r].threshold
      BY <1>1, <1>3, <2>2, AfterLookupType DEF Finds
    <3>2. QED
      BY <1>1, <1>3, <3>1, RecordFacts, BoundsAssumption DEF Finds, Learned
  <2>4. route.observations >= 2
    BY <2>2, <2>3
  <2>5. /\ SeenDoing[r] = Promise!Rests
        /\ SeenDoing' = [SeenDoing EXCEPT ![r] = Promise!Does("plan", route.call)]
        /\ UNCHANGED route
    <3> DEFINE q == Resume(r, route)
    <3>1. req[r].stage = "lookup" /\ req' = [req EXCEPT ![r] = q] /\ UNCHANGED route
      BY <1>3 DEF Finds, Becomes
    <3>2. q.stage = "warm" /\ q.call = route.call
      BY <2>1
    <3> HIDE DEF q
    <3>3. Doing(req[r]) = Promise!Rests
      BY <3>1, DoingFacts DEF Resting
    <3>4. Doing(q) = Promise!Does("plan", route.call)
      BY <3>2, DoingFacts
    <3>5. QED
      BY <3>1, <3>3, <3>4, SeenMove
  <2>6. Promise!Plan(r)
    BY <2>3, <2>4, <2>5 DEF Promise!Plan, Promise!Becomes, SeenDoing
  <2>7. QED
    BY <2>6 DEF Promise!Next
<1>4. CASE Holds(r)
  <2>1. ASSUME NEW stage, NEW pending, NEW update, Change(r, stage, pending, update),
               <<stage, pending>> \in {<<"lookup", "lookup_write">>, <<"hit", "hit_write">>,
                                       <<"observe", "observe_write">>,
                                       <<"revoke", "revoke_write">>}
        PROVE  SeenDoing' = SeenDoing
    <3> DEFINE q == [req[r] EXCEPT !.stage = pending, !.update = update]
    <3>1. q.stage = pending /\ q.call = req[r].call /\ req' = [req EXCEPT ![r] = q]
      BY <1>1, <2>1, TypedFacts DEF RequestStates, Change, Becomes
    <3>2. req[r].stage = stage
      BY <2>1 DEF Change
    <3> HIDE DEF q
    <3>3. Doing(q) = Doing(req[r])
      BY <2>1, <3>1, <3>2, DoingFacts DEF Resting
    <3>4. QED
      BY <3>1, <3>3, SeenMove
  <2>2. SeenDoing' = SeenDoing
    BY <1>4, <2>1 DEF Holds
  <2>3. QED
    BY <1>4, <2>2 DEF Holds, Promise!vars, SeenDoing
<1>5. CASE Replays(r)
  <2>1. At("hit", Absent, 0).stage = "hit"
    BY AtType
  <2>2. /\ SeenDoing[r].does = "plan"
        /\ SeenDoing' = [SeenDoing EXCEPT ![r] = Promise!Does("replay", Absent)]
        /\ UNCHANGED route
    <3> DEFINE q == At("hit", Absent, 0)
    <3>1. req[r].stage = "warm" /\ req' = [req EXCEPT ![r] = q] /\ UNCHANGED route
      BY <1>5 DEF Replays, Becomes
    <3>2. q.stage = "hit"
      BY <2>1
    <3> HIDE DEF q
    <3>3. Doing(req[r]) = Promise!Does("plan", req[r].call)
      BY <3>1, DoingFacts
    <3>4. Doing(req[r]).does = "plan"
      BY <3>3 DEF Promise!Does
    <3>5. Doing(q) = Promise!Does("replay", Absent)
      BY <3>2, DoingFacts
    <3>6. QED
      BY <3>1, <3>4, <3>5, SeenMove
  <2>3. Promise!Replay(r)
    BY <2>2 DEF Promise!Replay, Promise!Becomes, SeenDoing
  <2>4. QED
    BY <2>3 DEF Promise!Next
<1>6. CASE Runs(r)
  <2>1. PICK c \in Calls :
          /\ req[r].stage = "cold"
          /\ Becomes(r, At("observe", c, req[r].threshold))
          /\ UNCHANGED route
    BY <1>6 DEF Runs
  <2>2. req[r].threshold \in Nat /\ req[r].threshold \in Thresholds
    BY <1>1, <2>1, TypedFacts DEF Configured
  <2> DEFINE q == At("observe", c, req[r].threshold)
  <2>3. q.stage = "observe" /\ q.call = c
    BY <2>2, AtType
  <2> HIDE DEF q
  <2>4. req' = [req EXCEPT ![r] = q]
    BY <2>1 DEF Becomes, q
  <2>5. /\ SeenDoing[r] = Promise!Rests
        /\ SeenDoing' = [SeenDoing EXCEPT ![r] = Promise!Does("success", c)]
    <3>1. Doing(req[r]) = Promise!Rests
      BY <2>1, DoingFacts DEF Resting
    <3>2. Doing(q) = Promise!Does("success", c)
      BY <2>3, DoingFacts
    <3>3. QED
      BY <2>4, <3>1, <3>2, SeenMove
  <2>6. Promise!Succeed(r)
    BY <2>1, <2>5 DEF Promise!Succeed, Promise!Becomes, SeenDoing
  <2>7. QED
    BY <2>6 DEF Promise!Next
<1>7. CASE Writes(r)
  <2> DEFINE u == req[r].update
             q == Resume(r, u)
  <2>1. req[r].stage \in Writing /\ route' = u /\ req' = [req EXCEPT ![r] = q]
    BY <1>7 DEF Writes, WriteState, Put, Becomes
  <2>2. u \in Records
    BY <1>1, TypedFacts
  <2>3. \/ q.stage \in Resting
        \/ /\ req[r].stage = "lookup_write" /\ u.status = "active"
           /\ q.stage = "warm" /\ q.call = u.call
    BY <2>1, <2>2, ResumeType DEF Writing
  <2> HIDE DEF q
  <2>4. QED
    BY <2>1, <2>3, Written
<1>8. CASE Gives(r)
  <2> DEFINE q == Abandon(r)
  <2>1. /\ req[r].stage \in Writing /\ req' = [req EXCEPT ![r] = q] /\ q.stage \in Resting
        /\ route' = req[r].update \/ UNCHANGED route
    BY <1>8 DEF Gives, WriteFails, Put, Becomes
  <2> HIDE DEF q
  <2>2. QED
    BY <2>1, Forgotten, Written
<1>9. QED
  BY <1>2, <1>3, <1>4, <1>5, <1>6, <1>7, <1>8 DEF Step

LEMMA PromiseInit == Init => Promise!Init
<1> SUFFICES ASSUME Init PROVE Promise!Init
  OBVIOUS
<1>1. \A r \in Requests : Doing(req[r]) = Promise!Rests
  BY IdleType, DoingFacts DEF Init, Resting
<1>2. SeenDoing = [r \in Requests |-> Promise!Rests]
  BY <1>1 DEF SeenDoing
<1>3. /\ route.call = Absent /\ route.observations = 0 /\ route.hits = 0
      /\ route.status # "quarantined"
  BY DEF Init, Unseen
<1>4. QED
  BY <1>2, <1>3 DEF Promise!Init, SeenDoing

LEMMA PromiseNext ==
  ASSUME TypeInv, CurrentInv, [Next]_vars
  PROVE  [Promise!Next]_Promise!vars
<1>1. CASE \E r \in Requests : Step(r)
  BY <1>1, PromiseStep
<1>2. ASSUME NEW w \in Workers, Crash(w)
      PROVE  Promise!Next
  <2> DEFINE R == {r \in Requests : WorkerOf[r] = w}
  <2>1. \A r \in Requests : Doing(req'[r]) = IF r \in R THEN Promise!Rests ELSE SeenDoing[r]
    BY <1>2, IdleType, DoingFacts DEF Crash, SeenDoing, Resting
  <2>2. SeenDoing' = [r \in Requests |-> IF r \in R THEN Promise!Rests ELSE SeenDoing[r]]
    BY <2>1 DEF SeenDoing
  <2>3. R \in SUBSET Requests /\ UNCHANGED route
    BY <1>2 DEF Crash
  <2> HIDE DEF R
  <2>4. Promise!Forget
    BY <2>2, <2>3 DEF Promise!Forget, SeenDoing
  <2>5. QED
    BY <2>4 DEF Promise!Next
<1>3. CASE UNCHANGED vars
  BY <1>3 DEF vars, Promise!vars
<1>4. QED
  BY <1>1, <1>2, <1>3, NextSteps

(* Where all requests share one worker, what they make of the route is what *)
(* store operations that take effect at once would: each success counts at  *)
(* most once and for its own call, disputes last until the evidence is      *)
(* discarded, and no replay is planned from a route that was seen once or   *)
(* is disputed - with threads that interleave between load and write, and   *)
(* with stores that fail before or after a write.                           *)
THEOREM StrategyImplementsEvidence ==
  ASSUME SingleWorker
  PROVE  Spec => ImplementsEvidence
<1>1. TypeInv /\ LockInv /\ CurrentInv /\ [Next]_vars => [Promise!Next]_Promise!vars
  BY PromiseNext
<1>2. QED
  BY <1>1, PromiseInit, SerialInvariant, PTL DEF Spec, ImplementsEvidence, Promise!Spec
=============================================================================
