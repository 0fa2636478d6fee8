------------------------------- MODULE Console -------------------------------
(***************************************************************************)
(* The operations of one console on one FlinkDeployment (internal/flink):  *)
(* Savepoint, Restart, Replay and Revert run in goroutines and report into *)
(* the registry of module TaskStore, polled by the page that started them; *)
(* Suspend, Resume and Rollback run in their requests.  All of these take  *)
(* the deployment's lock.  A Promote of the HA switch redeploys the same   *)
(* object without it and reports elsewhere.  Redeploys take their nonce    *)
(* from module Nonce.  What replays and reverts do to the SQL is in Replay;*)
(* what a Release, which suspends without the lock, does is in HALifecycle.*)
(*                                                                         *)
(* Definitions introduced as Variants are no part of the specification.    *)
(***************************************************************************)
EXTENDS Nonce, TaskStore

CONSTANTS
    Offered,    \* the kinds of operations that are asked for
    MaxOps,     \* bound on the operations started
    Nobody      \* holds the lock when no goroutine does


VARIABLES
    op,         \* the goroutine or request in each slot
    lock,       \* lockFor(dep): the slot that holds it
    nextId,     \* the id of the next operation
    boot,       \* the first id of this process
    job,        \* the FlinkDeployment: desired state, the operation that has
                \* suspended it, redeploy nonce
    page,       \* the operation that a page is polling, 0 for none
    log         \* history: the operations this process has ended, in that order

vars == <<nonceVars, storeVars, op, lock, nextId, boot, job, page, log>>

-----------------------------------------------------------------------------
Tracked == {"savepoint", "restart", "replay", "revert"}
Locked == Tracked \cup {"rollback", "suspend", "resume"}
Kind == Locked \cup {"promote"}

ASSUME ConsoleAssumption == Offered \subseteq Kind /\ MaxOps \in Nat /\ Nobody \notin Caller

(* The first remote call under the lock.  "work" is all that a savepoint   *)
(* or a replay does, and what a revert does before its redeploy.           *)
FirstCall ==
    [k \in Kind |->
        CASE k \in {"savepoint", "replay", "revert"} -> "work"
          [] k = "restart" -> "stop"
          [] k \in {"rollback", "promote"} -> "nonce"
          [] OTHER -> "patch"]

Calls == {"work", "stop", "wait", "start", "nonce", "redeploy", "patch"}

(* told: the outcome is in the registry, or the request itself answers.    *)
Operation ==
    [kind : Kind, id : Nat, pc : Calls \cup {"lock", "report", "unlock"},
     ok : BOOLEAN, told : BOOLEAN]

Idle == [kind |-> "none"]

Begun(k) ==
    [kind |-> k, id |-> nextId, pc |-> IF k \in Locked THEN "lock" ELSE FirstCall[k],
     ok |-> TRUE, told |-> k \notin Tracked]

Busy(t) == op[t] # Idle
At(t, pc) == Busy(t) /\ op[t].pc = pc

TypeOK ==
    /\ NonceTypeOK
    /\ StoreTypeOK
    /\ op \in [Caller -> Operation \cup {Idle}]
    /\ lock \in Caller \cup {Nobody}
    /\ nextId \in Nat
    /\ boot \in Nat
    /\ job \in [state : {"running", "suspended"}, by : Nat, nonce : Nat]
    /\ page \in Nat
    /\ log \in Seq([id : Nat, status : Ended])

Init ==
    /\ NonceInit
    /\ EmptyStore
    /\ op = [t \in Caller |-> Idle]
    /\ lock = Nobody
    /\ nextId = 1
    /\ boot = 1
    /\ job = [state |-> "running", by |-> 0, nonce |-> 0]
    /\ page = 0
    /\ log = <<>>

-----------------------------------------------------------------------------
(* Starting an operation and taking the lock.  Pages only look on, so it   *)
(* is enough to follow one, which may be that of any operation.            *)

Goto(t, pc) == op' = [op EXCEPT ![t].pc = pc]

(* The caller's registers are cleared, so that an idle slot has one state. *)
AskNonce(t) == call' = [call EXCEPT ![t] = [NoCall EXCEPT !.pc = "load"]]

Start(t, k) ==
    /\ ~Busy(t)
    /\ nextId <= MaxOps
    /\ nextId' = nextId + 1
    /\ op' = [op EXCEPT ![t] = Begun(k)]
    /\ IF k \in Tracked
       THEN /\ Create(nextId)
            /\ page' \in IF page = 0 THEN {0, nextId} ELSE {page}
       ELSE UNCHANGED <<storeVars, page>>
    /\ IF FirstCall[k] = "nonce" /\ k \notin Locked THEN AskNonce(t) ELSE UNCHANGED call
    /\ UNCHANGED <<last, clock, issued, lock, boot, job, log>>

(* Variant: the lock is not waited for.                                    *)
NotWaited(t) == TRUE

LockFree(t) == lock = Nobody

Lock(t) ==
    /\ At(t, "lock")
    /\ LockFree(t)
    /\ lock' = t
    /\ Goto(t, FirstCall[op[t].kind])
    /\ IF FirstCall[op[t].kind] = "nonce" THEN AskNonce(t) ELSE UNCHANGED call
    /\ UNCHANGED <<last, clock, issued, storeVars, nextId, boot, job, page, log>>

-----------------------------------------------------------------------------
(* Remote calls.  A call fails, and may have been applied, when Kubernetes *)
(* or the network does; it also fails when the operation's deadline has    *)
(* passed, which runs while it waits for the lock, too.                    *)

(* Where the code goes on when the calls are over: a Restart reports and   *)
(* then releases the lock, a Replay or Revert does so if it succeeds, all  *)
(* others have released it before.                                         *)
Over(t, ok) ==
    IF op[t].kind = "restart" \/ (op[t].kind \in {"replay", "revert"} /\ ok)
    THEN "report" ELSE "unlock"

(* Variant: a Revert that fails returns without failOp.                    *)
EndUntold(t, ok) ==
    op' = [op EXCEPT ![t] =
              IF @.kind = "promote" THEN Idle
              ELSE [@ EXCEPT !.pc = Over(t, ok), !.ok = ok,
                             !.told = @ \/ (op[t].kind = "revert" /\ ~ok)]]

End(t, ok) ==
    op' = [op EXCEPT ![t] =
              IF @.kind = "promote" THEN Idle ELSE [@ EXCEPT !.pc = Over(t, ok), !.ok = ok]]

Fails(t, applied) == End(t, FALSE) /\ job' \in {job, applied}

quiet == <<last, clock, issued, storeVars, lock, nextId, boot, page, log>>

Work(t) ==
    /\ At(t, "work")
    /\ \/ End(t, FALSE) /\ UNCHANGED call
       \/ op[t].kind \in {"savepoint", "replay"} /\ End(t, TRUE) /\ UNCHANGED call
       \/ op[t].kind = "revert" /\ Goto(t, "nonce") /\ AskNonce(t)
    /\ UNCHANGED <<quiet, job>>

(* Variant: the patch names no state the operator knows.                   *)
SuspendedMisspelt(t) == [job EXCEPT !.state = "suspend", !.by = op[t].id]

Suspended(t) == [job EXCEPT !.state = "suspended", !.by = op[t].id]
Running == [job EXCEPT !.state = "running", !.by = 0]

(* Restart.                                                                *)
Stop(t) ==
    /\ At(t, "stop")
    /\ \/ job' = Suspended(t) /\ Goto(t, "wait")
       \/ Fails(t, Suspended(t))
    /\ UNCHANGED <<quiet, call>>

(* The wait ends when the pods are gone, after StopTimeoutSec, or with the *)
(* operation's deadline; the code goes on in each case.                    *)
WaitStopped(t) ==
    /\ At(t, "wait")
    /\ Goto(t, "start")
    /\ UNCHANGED <<quiet, call, job>>

(* Variant: the error of the second patch is not looked at.                *)
StartAgainUnchecked(t) ==
    /\ At(t, "start")
    /\ job' \in {job, Running}
    /\ End(t, TRUE)
    /\ UNCHANGED <<quiet, call>>

StartAgain(t) ==
    /\ At(t, "start")
    /\ \/ job' = Running /\ End(t, TRUE)
       \/ Fails(t, Running)
    /\ UNCHANGED <<quiet, call>>

(* Suspend and Resume.                                                     *)
PatchState(t) ==
    /\ At(t, "patch")
    /\ LET patched == IF op[t].kind = "suspend" THEN Suspended(t) ELSE Running
       IN  (job' = patched /\ End(t, TRUE)) \/ Fails(t, patched)
    /\ UNCHANGED <<quiet, call>>

(* Rollback, Revert, Promote: a nonce, then one patch.                     *)
TakeNonce(t) ==
    /\ At(t, "nonce")
    /\ NextNonce(t)
    /\ IF call'[t].pc = "got" THEN Goto(t, "redeploy") ELSE UNCHANGED op
    /\ UNCHANGED <<storeVars, lock, nextId, boot, job, page, log>>

Redeploy(t) ==
    /\ At(t, "redeploy")
    /\ LET patched == [Running EXCEPT !.nonce = call[t].next]
       IN  (job' = patched /\ End(t, TRUE)) \/ Fails(t, patched)
    /\ call' = [call EXCEPT ![t] = NoCall]
    /\ UNCHANGED quiet

-----------------------------------------------------------------------------
(* failOp and succeedOp, and the deferred unlock.                          *)

Outcome(t) == IF op[t].ok THEN "succeeded" ELSE "failed"

Report(t) ==
    /\ At(t, "report")
    /\ Update(op[t].id, Outcome(t))
    /\ log' = Append(log, [id |-> op[t].id, status |-> Outcome(t)])
    /\ op' = [op EXCEPT ![t] =
                 IF lock = t THEN [@ EXCEPT !.pc = "unlock", !.told = TRUE] ELSE Idle]
    /\ UNCHANGED <<nonceVars, lock, nextId, boot, job, page>>

Unlock(t) ==
    /\ At(t, "unlock")
    /\ lock' = Nobody
    /\ op' = [op EXCEPT ![t] = IF @.told THEN Idle ELSE [@ EXCEPT !.pc = "report"]]
    /\ UNCHANGED <<nonceVars, storeVars, nextId, boot, job, page, log>>

-----------------------------------------------------------------------------
(* pollOperation: asks every two seconds while the answer is "running",    *)
(* then shows it; an answer "not found" is shown as an error.              *)
Poll ==
    /\ page # 0
    /\ Get(page) # "running"
    /\ page' = 0
    /\ UNCHANGED <<nonceVars, storeVars, op, lock, nextId, boot, job, log>>

(* Its own deadline passes, or a request of it does not get through.       *)
GiveUp ==
    /\ page # 0
    /\ page' = 0
    /\ UNCHANGED <<nonceVars, storeVars, op, lock, nextId, boot, job, log>>

(* The console restarts: operations, registry and locks are gone.  The     *)
(* counter of nanoseconds runs ahead of the clock only while that stands   *)
(* still or has been set back; a restart is taken to outlast that.         *)
Crash ==
    /\ \E t \in Caller : Busy(t)
    /\ clock >= last
    /\ Reseed
    /\ op' = [t \in Caller |-> Idle]
    /\ lock' = Nobody
    /\ tasks' = <<>>
    /\ finished' = <<>>
    /\ boot' = nextId
    /\ log' = <<>>
    /\ UNCHANGED <<nextId, job, page>>

Clock ==
    /\ Tick \/ SetBack
    /\ UNCHANGED <<storeVars, op, lock, nextId, boot, job, page, log>>

Step(t) ==
    \/ Work(t) \/ Stop(t) \/ WaitStopped(t) \/ StartAgain(t) \/ PatchState(t)
    \/ TakeNonce(t) \/ Redeploy(t) \/ Report(t) \/ Unlock(t)

Next ==
    \/ \E t \in Caller : (\E k \in Offered : Start(t, k)) \/ Lock(t) \/ Step(t)
    \/ Poll \/ GiveUp
    \/ Crash
    \/ Clock

Spec == Init /\ [][Next]_vars

(* Goroutines take their steps, a page keeps polling, and who waits for a  *)
(* lock that stays free gets it, which is less than Go's mutex promises.   *)
(* No fault, no request and no timeout is owed.                            *)
Fairness ==
    /\ \A t \in Caller : WF_vars(Step(t)) /\ WF_vars(Lock(t))
    /\ WF_vars(Poll)

FairSpec == Spec /\ Fairness

-----------------------------------------------------------------------------
(* The operator redeploys when it sees another nonce than before.  A       *)
(* Rollback, Revert or Promote that succeeds has shown it one, even when a *)
(* Promote, which takes no lock, patches in between.                       *)
RedeploysSeen ==
    [][\A t \in Caller : Redeploy(t) /\ job'.nonce = call[t].next => job.nonce # call[t].next]_vars

(* The registry is what the bounded map promises: exactly the operations   *)
(* at work and the MaxKeep that ended last, with their outcomes.  One at   *)
(* work is never evicted, however many end meanwhile.                      *)
AtWork == {op[t].id : t \in {u \in Caller : Busy(u) /\ ~op[u].told}}

Remembered == {log[i] : i \in {j \in DOMAIN log : j > Len(log) - MaxKeep}}

RegistryRemembers ==
    /\ DOMAIN tasks = AtWork \cup {e.id : e \in Remembered}
    /\ \A id \in AtWork : Get(id) = "running"
    /\ \A e \in Remembered : Get(e.id) = e.status

(* A page shows the outcome its operation had, and an operation as lost    *)
(* only when the console has restarted since or when MaxKeep others have   *)
(* ended after it.                                                         *)
HasEnded(id, status) == \E i \in DOMAIN log : log[i] = [id |-> id, status |-> status]

PushedOut(id) == \E i \in DOMAIN log : log[i].id = id /\ Len(log) - i >= MaxKeep

PageHonest ==
    [][Poll => IF Get(page) = NotFound THEN page < boot \/ PushedOut(page)
               ELSE HasEnded(page, Get(page))]_vars

(* Operations under the lock do not cut into one another: what a Restart   *)
(* starts again is what it has stopped itself, never a job that a user has *)
(* suspended meanwhile.                                                    *)
RestartUndoesItsOwn ==
    [][\A t \in Caller : StartAgain(t) => job.by \in {0, op[t].id}]_vars

(* A Restart that has been reported as succeeded has not left the job      *)
(* suspended; one that fails or dies with the console may.                 *)
NoSilentStop ==
    \A i \in DOMAIN log :
        log[i].status = "succeeded" => ~(job.state = "suspended" /\ job.by = log[i].id)

(* The inductive invariant behind them, part by part.                      *)

(* A nonce that is about to be stored is beyond the counter it was made    *)
(* from; one that waits to be used is neither the job's nor another's.     *)
NonceInv ==
    /\ issued <= last /\ job.nonce <= last
    /\ \A t \in Caller :
          /\ At(t, "redeploy") => call[t].pc = "got"
          /\ call[t].pc = "cas" => call[t].next > call[t].prev
          /\ call[t].pc = "got" => call[t].next <= last /\ call[t].next # job.nonce
    /\ \A t, u \in Caller :
          call[t].pc = "got" /\ call[u].pc = "got" /\ call[t].next = call[u].next => t = u

(* All but a Promote hold the lock from their first call to the unlocking, *)
(* so nobody else's suspension can come between a Restart's two patches.   *)
HoldsLock(t) ==
    Busy(t) =>
        /\ op[t].kind = "promote" => op[t].pc \in {"nonce", "redeploy"}
        /\ op[t].kind # "promote" /\ op[t].pc \notin {"lock", "report"} => lock = t
        /\ op[t].pc = "patch" => op[t].kind \in {"suspend", "resume"}
        /\ op[t].pc \in {"stop", "wait", "start"} => op[t].kind = "restart"
        /\ op[t].pc \in {"wait", "start"} => job.by \in {0, op[t].id}

LockInv == \A t \in Caller : HoldsLock(t)

(* Ids are used once.  Only a suspension that stands, or whose failure is  *)
(* about to be told, bears the name of an operation at work.               *)
Logged(id) == \E i \in DOMAIN log : log[i].id = id

SuspensionStands(t) ==
    \/ op[t].kind = "suspend"
    \/ op[t].kind = "restart" /\ (op[t].pc \in {"wait", "start"} \/ ~op[t].ok)

Named(t) ==
    Busy(t) =>
        /\ op[t].id \in 1 .. nextId - 1
        /\ op[t].pc \notin {"report", "unlock"} => op[t].told = (op[t].kind \notin Tracked)
        /\ op[t].kind \notin Tracked => op[t].told
        /\ op[t].pc = "report" => ~op[t].told
        /\ Logged(op[t].id) => op[t].told /\ op[t].kind \in Tracked
        /\ job.by = op[t].id => SuspensionStands(t)

IdInv ==
    /\ nextId > 0 /\ job.by < nextId /\ boot <= nextId /\ page < nextId
    /\ \A t \in Caller : Named(t)
    /\ \A t, u \in Caller : Busy(t) /\ Busy(u) /\ op[t].id = op[u].id => t = u
    /\ \A i \in DOMAIN log : log[i].id \in 1 .. nextId - 1
    /\ \A i, j \in DOMAIN log : log[i].id = log[j].id => i = j

(* The queue of finished entries is the end of the log.                    *)
StoreInv ==
    /\ RegistryRemembers
    /\ \A id \in DOMAIN tasks : tasks[id].finishedAt <=> tasks[id].status # "running"
    /\ Len(finished) = IF Len(log) < MaxKeep THEN Len(log) ELSE MaxKeep
    /\ \A i \in DOMAIN finished : finished[i] = log[Len(log) - Len(finished) + i].id

(* What a page of this process polls is at work or has ended.              *)
PageInv == page >= boot => page = 0 \/ page \in AtWork \/ Logged(page)

ConsoleInv ==
    NonceInv /\ LockInv /\ IdInv /\ NoSilentStop /\ StoreInv /\ PageInv

(* The page does not poll for ever: every operation comes to its end and   *)
(* says so, also one that fails, waits for the lock, or vanishes with the  *)
(* console.                                                                *)
PagesEnd == page # 0 ~> page = 0
=============================================================================
