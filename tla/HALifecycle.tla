---------------------------- MODULE HALifecycle ----------------------------
(***************************************************************************)
(* The HA switch of module HASwitch together with the Jobs page's Restart  *)
(* of the same FlinkDeployment: suspend, wait for the pod, resume, all     *)
(* under the deployment's lock (internal/flink).  Suspend and Resume take  *)
(* that lock, too.  The failover service does not: it patches the object   *)
(* through an accessor of its own, and no page looks at the other one's    *)
(* operations.                                                             *)
(***************************************************************************)
EXTENDS HASwitch

VARIABLES
    restart     \* the next call of each side's Restart, or "none"

lifeVars == <<vars, restart>>

Restarting(s) == restart[s] # "none"

LifeInit == Init /\ restart = [s \in Side |-> "none"]

(* The lock is free when no Restart runs: other operations hold it for one *)
(* patch, so that they are single steps.                                   *)
LockFree(s) == ~Restarting(s)

StartRestart(s) ==
    /\ LockFree(s)
    /\ ~calm
    /\ restart' = [restart EXCEPT ![s] = "stop"]
    /\ UNCHANGED vars

(* A patch that fails may have been applied, and ends the Restart.         *)
Patch(s, pc, newState, next) ==
    /\ restart[s] = pc
    /\ LET patched == [state EXCEPT ![s] = newState]
       IN  \/ state' = patched /\ restart' = [restart EXCEPT ![s] = next]
           \/ /\ Faulty("k8s")
              /\ state' \in {state, patched}
              /\ restart' = [restart EXCEPT ![s] = "none"]
    /\ UNCHANGED <<coordVars, path, jm, ran, bucket, op, calm, claims>>

RestartStop(s) == Patch(s, "stop", "suspended", "wait")

(* The wait ends without an error when StopTimeoutSec has passed.          *)
RestartWait(s) ==
    /\ restart[s] = "wait"
    /\ StopTimesOut \/ ~jm[s]
    /\ restart' = [restart EXCEPT ![s] = "start"]
    /\ UNCHANGED vars

RestartStart(s) == Patch(s, "start", "running", "none")

RestartStep(s) == RestartStop(s) \/ RestartWait(s) \/ RestartStart(s)

(* The console takes all its operations along.                             *)
ConsoleCrash(s) ==
    /\ Faulty("crash")
    /\ IF \E o \in Op : Running(o) /\ Me(o) = s
       THEN Crash(s)
       ELSE Restarting(s) /\ UNCHANGED vars
    /\ restart' = [restart EXCEPT ![s] = "none"]

LifeNext ==
    \/ /\ \/ \E o \in Op : Start(o) \/ Step(o)
          \/ \E s \in Side : PodStart(s) \/ PodStop(s) \/ PodLost(s) \/ Checkpoint(s)
          \/ \E s \in Side : LockFree(s) /\ (Suspend(s) \/ Resume(s))
          \/ CalmDown
       /\ UNCHANGED restart
    \/ \E s \in Side : StartRestart(s) \/ RestartStep(s) \/ ConsoleCrash(s)

LifeSpec == LifeInit /\ [][LifeNext]_lifeVars
=============================================================================
