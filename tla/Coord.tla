------------------------------- MODULE Coord -------------------------------
(***************************************************************************)
(* The shared-S3 coordination store of one HA group (internal/store/       *)
(* coord.go): a fencing token written unconditionally, and a handoff       *)
(* record written either unconditionally or by compare-and-swap on its     *)
(* ETag.  The two objects are separate: no operation writes both.          *)
(*                                                                         *)
(* An ETag is modelled by the number of writes the record has had: S3      *)
(* derives it from the content, and writeHandoff stamps UpdatedAt into     *)
(* every record, so no two writes have the same one.  ETag 0 is the empty  *)
(* ETag of a record that does not exist yet.                               *)
(*                                                                         *)
(* Here and in HASwitch, a definition introduced as a Variant is no part   *)
(* of the specification: it is the slip a property must be able to notice. *)
(***************************************************************************)
EXTENDS Integers

CONSTANTS
    Side,       \* clusterIds, one flinkui instance and one cluster each
    Neutral,    \* the neutral token, "__switching__"
    NoOne       \* an absent token, an empty activeClusterId or releasedBy

ASSUME SideAssumption ==
    /\ Neutral \notin Side
    /\ NoOne \notin Side
    /\ Neutral # NoOne

VARIABLES
    token,      \* the fencing token object
    handoff,    \* the handoff record (NoRecord while etag = 0)
    etag        \* the version of the handoff object

coordVars == <<token, handoff, etag>>

-----------------------------------------------------------------------------
(* A recovery point is modelled by the age of the data it holds: the epoch *)
(* of the last job that had run when the savepoint or checkpoint was       *)
(* taken.  NoPoint is the empty path.                                      *)
NoPoint == -1
Point == Nat \cup {NoPoint}

Phase == {"unset", "stable", "released"}

HandoffRecord ==
    [active : Side \cup {NoOne}, epoch : Nat, phase : Phase,
     releasedBy : Side \cup {NoOne}, point : Point]

NoRecord ==
    [active |-> NoOne, epoch |-> 0, phase |-> "unset",
     releasedBy |-> NoOne, point |-> NoPoint]

CoordTypeOK ==
    /\ token \in Side \cup {Neutral, NoOne}
    /\ handoff \in HandoffRecord
    /\ etag \in Nat

(* What a read returns: the record with its ETag; the empty pair for a     *)
(* missing object, and also what a caller that drops the error sees.       *)
ReadHandoffWithETag == [rec |-> handoff, etag |-> etag]
EmptyRead == [rec |-> NoRecord, etag |-> 0]

WriteToken(v) == token' = v

WriteHandoff(rec) ==
    /\ handoff' = rec
    /\ etag' = etag + 1

(* Variant: a backend that ignores the conditional headers.                *)
PreconditionIgnored(expected) == TRUE

(* If-Match: expected, or If-None-Match: * when expected is the empty ETag.*)
Precondition(expected) == etag = expected

WriteHandoffCAS(rec, expected) ==
    /\ Precondition(expected)
    /\ WriteHandoff(rec)

(* The state S3 is in before this group's first switch, p being the side   *)
(* that runs: the token was never written, or written by hand without a    *)
(* handoff record, or p has claimed both.                                  *)
CoordInit(p) ==
    \/ /\ token \in {NoOne, p}
       /\ handoff = NoRecord
       /\ etag = 0
    \/ /\ token = p
       /\ handoff = [NoRecord EXCEPT !.active = p, !.epoch = 1, !.phase = "stable"]
       /\ etag = 1
=============================================================================
