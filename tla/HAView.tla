------------------------------- MODULE HAView -------------------------------
(***************************************************************************)
(* What the /ha page of each side shows of a group: the role and the       *)
(* warning that deriveRole takes from one look at the token and at the     *)
(* local job (internal/failover).  The side's handoff record is displayed, *)
(* too, but nothing is derived from it.                                    *)
(***************************************************************************)
EXTENDS HASwitch

(* classifyToken.  An unreadable token is shown as such and left out here. *)
PointsTo(s) ==
    CASE token = NoOne -> "unset"
      [] token = Neutral -> "neutral"
      [] token = s -> "self"
      [] OTHER -> "peer"

Role(s) ==
    CASE PointsTo(s) = "self" -> "active"
      [] PointsTo(s) = "peer" -> "standby"
      [] PointsTo(s) = "neutral" -> "neutral"
      [] OTHER -> "unknown"

(* A job that runs where it should not, or does not run where it should.   *)
Warned(s) == IF Role(s) = "active" THEN ~Healthy(s) ELSE Healthy(s)

-----------------------------------------------------------------------------
(* The design doc says that the view tells the state in which a Promote    *)
(* was cut between its two S3 writes, the record naming this side and the  *)
(* token not, and warns, so that the operator promotes again.              *)
HalfPromoted(s) ==
    /\ handoff.active = s /\ handoff.phase = "stable"
    /\ token # s
    /\ ran < handoff.epoch
    /\ Quiet

HalfPromotionWarned == \A s \in Side : HalfPromoted(s) => Warned(s)
=============================================================================
