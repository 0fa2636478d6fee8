----------------------------- MODULE Ownership -----------------------------
(***************************************************************************)
(* What the handoff record promises to the two sides, as one atomic        *)
(* register: a side becomes the first owner, the active side steps down    *)
(* leaving its recovery point, and a side takes over by starting the next  *)
(* epoch from that very point.                                             *)
(* Nothing here reads first and writes later; HASwitch, which does, is     *)
(* shown to implement it.                                                  *)
(***************************************************************************)
EXTENDS Integers

CONSTANTS
    Side, NoOne,
    Point, NoPoint,
    ForceAllowed,   \* may a side take over without a release (disaster)?
    ClaimAllowed    \* may a side become the owner where there is no record?

VARIABLES owner, epoch, phase, point

regVars == <<owner, epoch, phase, point>>

Init ==
    /\ point = NoPoint
    /\ \/ owner = NoOne /\ epoch = 0 /\ phase = "unset"
       \/ owner \in Side /\ epoch = 1 /\ phase = "stable"

(* A step-down keeps owner and epoch, whatever happened meanwhile: it      *)
(* never rolls back a take-over.                                           *)
StepDown ==
    /\ phase' = "released"
    /\ point' \in Point
    /\ UNCHANGED <<owner, epoch>>

(* A take-over opens exactly one new epoch, consumes the release it        *)
(* answers, and inherits the recovery point published with it.             *)
TakeOver(s) ==
    /\ ForceAllowed \/ phase = "released"
    /\ owner' = s
    /\ epoch' = epoch + 1
    /\ phase' = "stable"
    /\ \/ point' = point
       \/ point = NoPoint /\ point' \in Point

(* A cold start opens the first epoch, once.                               *)
Bootstrap(s) ==
    /\ ClaimAllowed /\ phase = "unset"
    /\ owner' = s
    /\ epoch' = 1
    /\ phase' = "stable"
    /\ UNCHANGED point

Next == StepDown \/ \E s \in Side : TakeOver(s) \/ Bootstrap(s)

Spec == Init /\ [][Next]_regVars
=============================================================================
