---------------------------- MODULE MCSecretSync ----------------------------
(* Two items, for TLC.  Shared: the first item is for both deployments,    *)
(* the second for one of them.                                             *)
EXTENDS SecretSync

CONSTANTS a, b, manual

Shared == [i \in 1 .. 2 |-> IF i = 1 THEN {a, b} ELSE {a}]
Alone == [i \in 1 .. 2 |-> {a}]

(* Targets by reference and by name, as in the example configuration that  *)
(* comes with the code.                                                    *)
MixedModes == [i \in 1 .. 2 |-> IF i = 1 THEN "references" ELSE "list"]
=============================================================================
