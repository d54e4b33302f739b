---------------------------- MODULE RouteEvidence ----------------------------
(***************************************************************************)
(* What the adaptive route of one request promises, with no store, no lock  *)
(* and no failure in it: a successful call counts at most once, and only    *)
(* for itself, towards the call that is learned; calls that disagree are    *)
(* disputed until all evidence is discarded; and what is replayed was seen  *)
(* twice and undisputed when the replay was planned.                        *)
(***************************************************************************)
EXTENDS Naturals

CONSTANTS Requests, Calls, Nothing, Limit

VARIABLES call, count,   \* what is learned, or Nothing, and how often it was seen
          disputed,      \* whether another call was seen as well
          hits,          \* replays that were counted
          doing          \* [Requests -> what a request has done or is about to do]

vars == <<call, count, disputed, hits, doing>>

Does(what, c) == [does |-> what, call |-> c]

Rests == Does("nothing", Nothing)

Init ==
  /\ call = Nothing
  /\ count = 0
  /\ disputed = FALSE
  /\ hits = 0
  /\ doing = [r \in Requests |-> Rests]

Becomes(r, d) == doing' = [doing EXCEPT ![r] = d]

(* The model's own call succeeds. *)
Succeed(r) == \E c \in Calls :
  /\ doing[r] = Rests
  /\ Becomes(r, Does("success", c))
  /\ UNCHANGED <<call, count, disputed, hits>>

(* Another version of the contract takes the place of the one learned. *)
Replaces(c) == call # Nothing /\ call.tool = c.tool /\ call.version # c.version

Observe(r) == \E c \in Calls :
  /\ doing[r] = Does("success", c)
  /\ ~disputed
  /\ \/ /\ call = Nothing \/ Replaces(c)
        /\ call' = c /\ count' = 1 /\ UNCHANGED disputed
     \/ /\ call = c /\ count < Limit
        /\ count' = count + 1 /\ UNCHANGED <<call, disputed>>
     \/ /\ call \notin {Nothing, c} /\ ~Replaces(c)
        /\ disputed' = TRUE /\ UNCHANGED <<call, count>>
  /\ Becomes(r, Rests)
  /\ UNCHANGED hits

(* A replay takes a call that was seen more than once. *)
Plan(r) ==
  /\ doing[r] = Rests
  /\ call # Nothing /\ count >= 2 /\ ~disputed
  /\ Becomes(r, Does("plan", call))
  /\ UNCHANGED <<call, count, disputed, hits>>

Replay(r) ==
  /\ doing[r].does = "plan"
  /\ Becomes(r, Does("replay", Nothing))
  /\ UNCHANGED <<call, count, disputed, hits>>

(* A replay is counted, of whatever route there is by then. *)
Count(r) ==
  /\ doing[r].does = "replay"
  /\ call # Nothing /\ ~disputed
  /\ hits' = hits + 1
  /\ Becomes(r, Rests)
  /\ UNCHANGED <<call, count, disputed>>

(* What a request did is not counted, and it may be lost. *)
Forget == \E R \in SUBSET Requests :
  /\ doing' = [r \in Requests |-> IF r \in R THEN Rests ELSE doing[r]]
  /\ UNCHANGED <<call, count, disputed, hits>>

Discard ==
  /\ call # Nothing
  /\ call' = Nothing /\ count' = 0 /\ disputed' = FALSE
  /\ UNCHANGED <<hits, doing>>

Next ==
  \/ Forget
  \/ Discard
  \/ \E r \in Requests : Succeed(r) \/ Observe(r) \/ Plan(r) \/ Replay(r) \/ Count(r)

Spec == Init /\ [][Next]_vars
=============================================================================
