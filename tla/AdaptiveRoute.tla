---------------------------- MODULE AdaptiveRoute ----------------------------
(***************************************************************************)
(* The record crystalflow/adaptive_routes.py keeps for one route key (one   *)
(* normalized query, context and scope), and what lookup, observe_success,  *)
(* record_hit and invalidate make of it.                                    *)
(*                                                                          *)
(* A call is [tool, version, arguments]: version stands for contract_hash,  *)
(* so that the action hash of a call is the call itself.  A request offers  *)
(* [Tools -> a version, or Absent for a tool not on the allowlist]; the     *)
(* strategy only builds read-only contracts.  revision, conflict_count,     *)
(* invalidation_count and the token estimate are counters nothing reads     *)
(* but their own overflow check; they are left out, and with them the       *)
(* record changes exactly when the code writes it.                          *)
(***************************************************************************)
EXTENDS Naturals

CONSTANTS
  Absent,        \* no call, no contract, a lock that is free
  MaxCounter     \* MAX_COUNTER

Statuses == {"unseen", "learning", "active", "quarantined", "invalidated"}

(* The reason "none" is the code's empty string. *)
Reasons == {"none", "ACTION_CONFLICT", "TOOL_NOT_ALLOWLISTED", "TOOL_CONTRACT_CHANGED",
            "MANUAL_INVALIDATION"}

(* A route key that holds nothing. *)
Unseen == [status |-> "unseen", reason |-> "none", observations |-> 0, hits |-> 0,
           call |-> Absent]

Learned(s) == s.status \in {"learning", "active"}

(* A variant of Earned that wants one observation too many. *)
EarnedLate(observations, threshold) ==
  IF observations > threshold THEN "active" ELSE "learning"

Earned(observations, threshold) ==
  IF observations >= threshold THEN "active" ELSE "learning"

(* A variant of Fresh that keeps the count of the call before. *)
FreshKeepingCount(s, c, threshold) ==
  [s EXCEPT !.status = "learning", !.reason = "none", !.call = c,
            !.observations = IF @ = 0 THEN 1 ELSE @]

(* The first observation of a call, whatever was known before it. *)
Fresh(s, c, threshold) ==
  [s EXCEPT !.status = Earned(1, threshold), !.reason = "none", !.observations = 1, !.call = c]

Quarantined(s) == [s EXCEPT !.status = "quarantined", !.reason = "ACTION_CONFLICT"]

(* A variant of Invalidated that keeps the call. *)
InvalidatedInPart(s, reason) ==
  [s EXCEPT !.status = "invalidated", !.reason = reason, !.observations = 0]

Invalidated(s, reason) ==
  [s EXCEPT !.status = "invalidated", !.reason = reason, !.observations = 0, !.call = Absent]

Contracted(c, offered) == offered[c.tool] = c.version

(* lookup keeps, promotes, demotes or invalidates what was learned; the     *)
(* route is a hit if the outcome is active.                                 *)
AfterLookup(s, offered, threshold) ==
  CASE ~Learned(s) -> s
    [] Learned(s) /\ offered[s.call.tool] = Absent -> Invalidated(s, "TOOL_NOT_ALLOWLISTED")
    [] Learned(s) /\ offered[s.call.tool] \notin {Absent, s.call.version} ->
         Invalidated(s, "TOOL_CONTRACT_CHANGED")
    [] OTHER -> [s EXCEPT !.status = Earned(s.observations, threshold)]

(* A variant of Observed that adds any observation to the evidence. *)
ObservedAnyway(s, c, threshold) ==
  IF Learned(s) /\ s.observations < MaxCounter
  THEN [s EXCEPT !.observations = @ + 1, !.call = c,
                 !.status = Earned(s.observations + 1, threshold)]
  ELSE Fresh(s, c, threshold)

(* observe_success counts the same call again, starts over for a changed    *)
(* contract of the same tool, and quarantines on any other disagreement.    *)
Observed(s, c, threshold) ==
  CASE s.status = "quarantined" -> s
    [] s.status \in {"unseen", "invalidated"} -> Fresh(s, c, threshold)
    [] Learned(s) /\ s.call.tool = c.tool /\ s.call.version # c.version ->
         Fresh(s, c, threshold)
    [] Learned(s) /\ s.call = c /\ s.observations < MaxCounter ->
         [s EXCEPT !.observations = @ + 1, !.status = Earned(s.observations + 1, threshold)]
    [] Learned(s) /\ s.call = c /\ s.observations = MaxCounter -> s
    [] OTHER -> Quarantined(s)

(* record_hit refuses a route that is not active (any more). *)
HitRecorded(s) ==
  IF s.status = "active" /\ s.hits < MaxCounter THEN [s EXCEPT !.hits = @ + 1] ELSE s

(* invalidate acts on any known route, the quarantined ones included. *)
Revoked(s) == IF s.status = "unseen" THEN s ELSE Invalidated(s, "MANUAL_INVALIDATION")

(* What _validate_state demands of a stored record, beyond its types. *)
ValidRoute(s) ==
  /\ s.status \in {"unseen", "invalidated"} <=> s.call = Absent
  /\ s.status \in {"unseen", "invalidated"} <=> s.observations = 0
  /\ s.reason = "none" <=> s.status \in {"unseen", "learning", "active"}
  /\ s.reason = "ACTION_CONFLICT" <=> s.status = "quarantined"
=============================================================================
