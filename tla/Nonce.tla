------------------------------- MODULE Nonce -------------------------------
(***************************************************************************)
(* The redeploy nonce (internal/flink/nonce.go): callers in any number of  *)
(* goroutines take the next value of one counter by a compare-and-swap     *)
(* loop, no smaller than the wall clock.  The operator redeploys a job     *)
(* only when the nonce it finds differs from the one it has seen last.     *)
(* nextNonce of internal/secretsync is the same loop over a counter of its *)
(* own, in seconds, for restartNonce.                                      *)
(*                                                                         *)
(* Console composes this module for redeploys.  NonceSpec is the counter   *)
(* by itself, through restarts of the process.                             *)
(***************************************************************************)
EXTENDS Integers

CONSTANTS
    Caller,
    MaxClock        \* bound on the clock

ASSUME NonceAssumption == MaxClock \in Nat

VARIABLES
    last,       \* lastRedeployNonce
    clock,      \* the wall clock
    call,       \* where each caller is in NextRedeployNonce
    issued      \* history: the nonce returned last

nonceVars == <<last, clock, call, issued>>

(* "got": the caller has a nonce that it has not used yet.                 *)
Call == [pc : {"none", "load", "clock", "cas", "got"}, prev : Nat, next : Nat]

NoCall == [pc |-> "none", prev |-> 0, next |-> 0]

NonceTypeOK ==
    /\ last \in Nat
    /\ clock \in Nat
    /\ call \in [Caller -> Call]
    /\ issued \in Nat

(* The counter is seeded from the clock when the process starts.           *)
NonceInit ==
    /\ clock = 0
    /\ last = clock
    /\ call = [c \in Caller |-> NoCall]
    /\ issued = 0

LoadLast(c) ==
    /\ call[c].pc = "load"
    /\ call' = [call EXCEPT ![c].pc = "clock", ![c].prev = last]
    /\ UNCHANGED <<last, clock, issued>>

(* Variant: a clock that stands still repeats itself.                      *)
BehindOnly(prev) == IF clock < prev THEN prev + 1 ELSE clock

Successor(prev) == IF clock <= prev THEN prev + 1 ELSE clock

ReadClock(c) ==
    /\ call[c].pc = "clock"
    /\ call' = [call EXCEPT ![c].pc = "cas", ![c].next = Successor(call[c].prev)]
    /\ UNCHANGED <<last, clock, issued>>

(* Variant: a plain store instead of the compare-and-swap.                 *)
StoredAnyway(prev) == TRUE

Unchanged(prev) == last = prev

CompareAndSwap(c) ==
    /\ call[c].pc = "cas"
    /\ \/ /\ Unchanged(call[c].prev)
          /\ last' = call[c].next
          /\ issued' = call[c].next
          /\ call' = [call EXCEPT ![c].pc = "got"]
       \/ /\ ~Unchanged(call[c].prev)
          /\ call' = [call EXCEPT ![c].pc = "load"]
          /\ UNCHANGED <<last, issued>>
    /\ UNCHANGED clock

NextNonce(c) == LoadLast(c) \/ ReadClock(c) \/ CompareAndSwap(c)

(* Time passes; a clock that is corrected may also go back.                *)
Tick ==
    /\ clock < MaxClock
    /\ clock' = clock + 1
    /\ UNCHANGED <<last, call, issued>>

SetBack ==
    /\ clock > 0
    /\ clock' = clock - 1
    /\ UNCHANGED <<last, call, issued>>

(* The process restarts: its calls are gone and the counter is seeded anew.*)
Reseed ==
    /\ last' = clock
    /\ call' = [c \in Caller |-> NoCall]
    /\ UNCHANGED <<clock, issued>>

-----------------------------------------------------------------------------
(* The counter by itself, with a clock that is never set back.             *)

Ask(c) ==
    /\ call[c].pc \in {"none", "got"}
    /\ issued <= MaxClock
    /\ call' = [call EXCEPT ![c].pc = "load"]
    /\ UNCHANGED <<last, clock, issued>>

NonceNext == Tick \/ Reseed \/ \E c \in Caller : Ask(c) \/ NextNonce(c)

NonceSpec == NonceInit /\ [][NonceNext]_nonceVars

(* Every nonce is greater than the one before it: NextRedeployNonce        *)
(* promises a strictly increasing, unique value, and nextNonce the same    *)
(* across restarts of the process.                                         *)
IncreasingNonces ==
    [][\A c \in Caller : CompareAndSwap(c) /\ call'[c].pc = "got" => call[c].next > issued]_nonceVars
=============================================================================
