----------------------------- MODULE MCHASwitch -----------------------------
(* Two sides and the slots of one or two operations, for TLC.              *)
EXTENDS HASwitch, TLC

CONSTANTS a, b, o1, o2

Symmetry == Permutations({a, b}) \cup Permutations({o1, o2})
=============================================================================
