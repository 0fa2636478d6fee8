--------------------------- MODULE SecretDelivery ---------------------------
(***************************************************************************)
(* What secret sync promises the jobs, whatever it does in between: the    *)
(* values a job runs with are values OpenBao has had, and they only get    *)
(* newer.                                                                  *)
(***************************************************************************)
EXTENDS Integers

CONSTANTS Dep, Item

VARIABLES
    current,    \* the version OpenBao has of each item
    running     \* the version of each item each job runs with

deliveryVars == <<current, running>>

Init ==
    /\ current \in [Item -> Nat]
    /\ running \in [Dep -> [Item -> Nat]]
    /\ \A d \in Dep, i \in Item : running[d][i] <= current[i]

Rotate ==
    /\ current' \in [Item -> Nat]
    /\ \A i \in Item : current'[i] >= current[i]
    /\ UNCHANGED running

Deliver ==
    /\ running' \in [Dep -> [Item -> Nat]]
    /\ \A d \in Dep, i \in Item : running'[d][i] \in running[d][i] .. current[i]
    /\ UNCHANGED current

Next == Rotate \/ Deliver

Spec == Init /\ [][Next]_deliveryVars
=============================================================================
