------------------------------- MODULE Replay -------------------------------
(***************************************************************************)
(* One FlinkDeployment and its SQL ConfigMap under flink.Service: replay   *)
(* from a timestamp and its revert, with the lifecycle operations that     *)
(* share the deployment's lock.  The lock makes the operations one at a    *)
(* time; between their steps come the Flink operator, pod restarts, failed *)
(* calls and restarts of the console, which forget the operation.          *)
(*                                                                         *)
(* Outside src/: the operator, which stops and starts the job when the     *)
(* FlinkDeployment asks for it (any change of the spec does, except one of *)
(* upgradeMode alone); a JobManager, which reads the SQL when its pod      *)
(* starts; whoever deploys new SQL.                                        *)
(***************************************************************************)
EXTENDS Integers

CONSTANTS
    Offered,        \* what users ask for, see Request
    Faults,         \* what may go wrong, see Fault
    Millis,         \* timestamps a replay may start from
    MaxBase,        \* bound: the SQL is deployed this many times
    Panel,          \* TRUE: as the replay panel offers: revert in a session only
    CleanDeploys,   \* TRUE: SQL is deployed only when no backup is kept
    StopTimesOut    \* TRUE: StopTimeoutSec may pass before the pod is gone

Request == {"suspend", "resume", "rollback", "restart", "replay", "revert", "deploy"}
Fault == {"k8s", "pod", "crash"}

ASSUME ReplayAssumption ==
    /\ Offered \subseteq Request
    /\ Faults \subseteq Fault
    /\ Millis \subseteq Nat \ {0}
    /\ MaxBase \in Nat \ {0}
    /\ Panel \in BOOLEAN
    /\ CleanDeploys \in BOOLEAN
    /\ StopTimesOut \in BOOLEAN

VARIABLES
    sql,        \* the ConfigMap's job.sql
    backup,     \* its backup key, or NoSQL
    cr,         \* the FlinkDeployment: see CR
    pending,    \* what spec changes ask of the operator, beyond the state
    job,        \* the job: is it up, which SQL it read, where its state is from
    cur,        \* the operation that holds the deployment's lock, or Idle
    calm,       \* no more faults and no more users
    deployed,   \* history: which SQL was deployed last
    chosen      \* history: the upgradeMode the deployment came with

vars == <<sql, backup, cr, pending, job, cur, calm, deployed, chosen>>
history == <<deployed, chosen>>

-----------------------------------------------------------------------------
(* SQL is what was deployed and the timestamp its Kafka source was         *)
(* rewritten to start from (0: as deployed).                               *)
SQL == [base : 1 .. MaxBase, from : Millis \cup {0}]
NoSQL == [base |-> 0, from |-> 0]
Original == [base |-> deployed, from |-> 0]

(* rewriteForReplay sets the same keys again in SQL it has rewritten.      *)
Rewritten(s, millis) == [s EXCEPT !.from = millis]

(* An upgradeMode, in the spec or in the annotation, may be missing.       *)
Mode == {"stateless", "last-state", "savepoint"}
NoMode == "none"
NoPath == -1

(* What a replay notes of the mode it finds, and a revert of the note.     *)
OrLastState(mode) == IF mode = NoMode THEN "last-state" ELSE mode

(* A job's state, like the savepoint taken of it, is told apart by the     *)
(* timestamp the job started from when it last started without any state.  *)
Origin == Millis \cup {0}

(* The annotations active, from and prev are written and removed together. *)
CR ==
    [state : {"running", "suspended"}, mode : Mode \cup {NoMode}, path : Origin \cup {NoPath},
     active : BOOLEAN, from : Origin, prev : Mode \cup {NoMode}]

ReplayPC == {"backup", "rewrite", "patch"}
RevertPC == {"savepoint", "restore", "redeploy", "clear"}
RestartPC == {"suspend", "wait", "resume"}

Fields ==
    [pc : ReplayPC \cup RevertPC \cup RestartPC, sql : SQL \cup {NoSQL},
     had : BOOLEAN, from : Origin, mode : Mode, path : Origin]

(* The SQL is the one to back up and rewrite, or to restore.               *)
Operation == {o \in Fields : o.pc \in RestartPC \/ o.sql # NoSQL}

Idle == [pc |-> "idle"]

Begin(pc) ==
    [pc |-> pc, sql |-> NoSQL, had |-> FALSE, from |-> 0, mode |-> "last-state",
     path |-> 0]

Goto(pc) == cur' = [cur EXCEPT !.pc = pc]
Finish == cur' = Idle

Faulty(f) == f \in Faults /\ ~calm

(* RUNNING/STABLE: the status, which says so until the operator acts.      *)
Healthy == job.up

TypeOK ==
    /\ sql \in SQL
    /\ backup \in SQL \cup {NoSQL}
    /\ cr \in CR
    /\ cr.active <=> cr.prev # NoMode
    /\ pending \in {"none", "upgrade", "redeploy"}
    /\ pending = "redeploy" => cr.path # NoPath
    /\ job \in [up : BOOLEAN, sql : SQL, origin : Origin]
    /\ cur \in Operation \cup {Idle}
    /\ calm \in BOOLEAN
    /\ deployed \in 1 .. MaxBase
    /\ chosen \in Mode \cup {NoMode}

Init ==
    /\ deployed = 1
    /\ sql = Original
    /\ backup = NoSQL
    /\ chosen \in Mode \cup {NoMode}
    /\ cr = [state |-> "running", mode |-> chosen, path |-> NoPath,
             active |-> FALSE, from |-> 0, prev |-> NoMode]
    /\ pending = "none"
    /\ job = [up |-> TRUE, sql |-> sql, origin |-> 0]
    /\ cur = Idle
    /\ calm = FALSE

(* A user's request gets the deployment's lock.                            *)
Locks(request) == request \in Offered /\ ~calm /\ cur = Idle

(* A patch of the FlinkDeployment: it is applied and `then' follows, or    *)
(* its failure ends the operation, whether it was applied or not.          *)
Patch(newCR, newPending, then) ==
    \/ cr' = newCR /\ pending' = newPending /\ then
    \/ /\ Faulty("k8s") /\ Finish
       /\ \/ cr' = newCR /\ pending' = newPending
          \/ UNCHANGED <<cr, pending>>

-----------------------------------------------------------------------------
(* Operations of one patch.                                                *)

Patches(newCR, newPending) ==
    /\ cr' = newCR
    /\ pending' = newPending
    /\ UNCHANGED <<sql, backup, job, cur, calm, history>>

Suspend ==
    /\ Locks("suspend")
    /\ Patches([cr EXCEPT !.state = "suspended"], pending)

Resume ==
    /\ Locks("resume")
    /\ Patches([cr EXCEPT !.state = "running"], pending)

(* The path is any recovery point in the bucket.                           *)
Rollback ==
    /\ Locks("rollback")
    /\ \E p \in {0, job.origin} :
          Patches([cr EXCEPT !.state = "running", !.path = p], "redeploy")

-----------------------------------------------------------------------------
(* Restart: suspend, wait for the pod to go, resume.                       *)

StartRestart ==
    /\ Locks("restart")
    /\ cur' = Begin("suspend")
    /\ UNCHANGED <<sql, backup, cr, pending, job, calm, history>>

RestartSuspends ==
    /\ cur.pc = "suspend"
    /\ Patch([cr EXCEPT !.state = "suspended"], pending, Goto("wait"))
    /\ UNCHANGED <<sql, backup, job, calm, history>>

(* Variant: running out of time fails the Restart.                         *)
RestartGivesUp ==
    /\ cur.pc = "wait"
    /\ \/ ~job.up /\ Goto("resume")
       \/ StopTimesOut /\ job.up /\ Finish
    /\ UNCHANGED <<sql, backup, cr, pending, job, calm, history>>

RestartWaits ==
    /\ cur.pc = "wait"
    /\ StopTimesOut \/ ~job.up
    /\ Goto("resume")
    /\ UNCHANGED <<sql, backup, cr, pending, job, calm, history>>

RestartResumes ==
    /\ cur.pc = "resume"
    /\ Patch([cr EXCEPT !.state = "running"], pending, Finish)
    /\ UNCHANGED <<sql, backup, job, calm, history>>

-----------------------------------------------------------------------------
(* runReplay: back up the SQL, write the new one, then one patch.          *)

(* Variant: a session may be active already.                               *)
StartReplayInSession ==
    /\ Locks("replay")
    /\ \E t \in Millis :
          cur' = [Begin("backup") EXCEPT !.sql = sql, !.had = backup # NoSQL,
                                         !.from = t, !.mode = OrLastState(cr.mode)]
    /\ UNCHANGED <<sql, backup, cr, pending, job, calm, history>>

(* Preflight.  SQL in which no source can be rewritten is refused too, and *)
(* changes nothing.                                                        *)
StartReplay ==
    /\ Locks("replay")
    /\ ~cr.active
    /\ \E t \in Millis :
          cur' = [Begin("backup") EXCEPT !.sql = sql, !.had = backup # NoSQL,
                                         !.from = t, !.mode = OrLastState(cr.mode)]
    /\ UNCHANGED <<sql, backup, cr, pending, job, calm, history>>

(* Variant: the backup is always refreshed.                                *)
BackUpAlways ==
    /\ cur.pc = "backup"
    /\ \/ backup' = cur.sql /\ Goto("rewrite")
       \/ Faulty("k8s") /\ backup' \in {backup, cur.sql} /\ Finish
    /\ UNCHANGED <<sql, cr, pending, job, calm, history>>

BackUp ==
    /\ cur.pc = "backup"
    /\ \/ cur.had /\ Goto("rewrite") /\ UNCHANGED backup
       \/ ~cur.had /\ backup' = cur.sql /\ Goto("rewrite")
       \/ ~cur.had /\ Faulty("k8s") /\ backup' \in {backup, cur.sql} /\ Finish
    /\ UNCHANGED <<sql, cr, pending, job, calm, history>>

Rewrite ==
    /\ cur.pc = "rewrite"
    /\ LET new == Rewritten(cur.sql, cur.from)
       IN  \/ sql' = new /\ Goto("patch")
           \/ Faulty("k8s") /\ sql' \in {sql, new} /\ Finish
    /\ UNCHANGED <<backup, cr, pending, job, calm, history>>

(* Variants of replayForwardPatch: the mode is left alone; the previous    *)
(* mode is not noted.                                                      *)
ReplayForwardKeepsMode ==
    [cr EXCEPT !.active = TRUE, !.from = cur.from, !.prev = cur.mode]

ReplayForwardForgetsMode ==
    [cr EXCEPT !.mode = "stateless", !.active = TRUE, !.from = cur.from]

ReplayForward ==
    [cr EXCEPT !.mode = "stateless", !.active = TRUE, !.from = cur.from, !.prev = cur.mode]

(* Variant: the patch does not carry the new SQL's checksum.               *)
ChecksumUnchanged(p) == p

(* The new checksum asks for an upgrade, unless a redeploy is asked for.   *)
ChecksumChanged(p) == IF p = "redeploy" THEN p ELSE "upgrade"

PatchForward ==
    /\ cur.pc = "patch"
    /\ Patch(ReplayForward, ChecksumChanged(pending), Finish)
    /\ UNCHANGED <<sql, backup, job, calm, history>>

-----------------------------------------------------------------------------
(* runRevert: savepoint, restore the SQL, one patch, drop the backup.      *)

StartRevert ==
    /\ Locks("revert")
    /\ Panel => cr.active
    /\ Healthy
    /\ backup # NoSQL
    /\ cur' = [Begin("savepoint") EXCEPT !.sql = backup, !.mode = OrLastState(cr.prev)]
    /\ UNCHANGED <<sql, backup, cr, pending, job, calm, history>>

(* Nothing has been written yet: a failure, or a job that stops meanwhile, *)
(* leaves the replay as it is.                                             *)
TakeSavepoint ==
    /\ cur.pc = "savepoint"
    /\ \/ job.up /\ cur' = [cur EXCEPT !.pc = "restore", !.path = job.origin]
       \/ (~job.up \/ Faulty("k8s")) /\ Finish
    /\ UNCHANGED <<sql, backup, cr, pending, job, calm, history>>

(* Variant: the SQL is not restored.                                       *)
RestoreSkipped ==
    /\ cur.pc = "restore"
    /\ Goto("redeploy")
    /\ UNCHANGED <<sql, backup, cr, pending, job, calm, history>>

Restore ==
    /\ cur.pc = "restore"
    /\ \/ sql' = cur.sql /\ Goto("redeploy")
       \/ Faulty("k8s") /\ sql' \in {sql, cur.sql} /\ Finish
    /\ UNCHANGED <<backup, cr, pending, job, calm, history>>

(* Variants of revertRedeployPatch: it leaves alone the session, the mode, *)
(* or the state.                                                           *)
RevertRedeployKeepsSession ==
    [cr EXCEPT !.state = "running", !.mode = cur.mode, !.path = cur.path]

RevertRedeployKeepsMode ==
    [cr EXCEPT !.state = "running", !.path = cur.path,
               !.active = FALSE, !.from = 0, !.prev = NoMode]

RevertRedeployKeepsState ==
    [cr EXCEPT !.mode = cur.mode, !.path = cur.path,
               !.active = FALSE, !.from = 0, !.prev = NoMode]

RevertRedeploy ==
    [cr EXCEPT !.state = "running", !.mode = cur.mode, !.path = cur.path,
               !.active = FALSE, !.from = 0, !.prev = NoMode]

PatchRedeploy ==
    /\ cur.pc = "redeploy"
    /\ Patch(RevertRedeploy, "redeploy", Goto("clear"))
    /\ UNCHANGED <<sql, backup, job, calm, history>>

(* The error of this last step is dropped.                                 *)
ClearBackup ==
    /\ cur.pc = "clear"
    /\ \/ backup' = NoSQL
       \/ Faulty("k8s") /\ UNCHANGED backup
    /\ Finish
    /\ UNCHANGED <<sql, cr, pending, job, calm, history>>

-----------------------------------------------------------------------------
(* The world outside the service.                                          *)

OperatorStops ==
    /\ job.up
    /\ cr.state = "suspended" \/ pending # "none"
    /\ job' = [job EXCEPT !.up = FALSE]
    /\ pending' \in IF cr.state = "suspended" THEN {"none", pending} ELSE {pending}
    /\ UNCHANGED <<sql, backup, cr, cur, calm, history>>

(* A redeploy starts from the path, a stateless job from nothing, any      *)
(* other from the state it stopped with; stateless is the default.         *)
OperatorStarts ==
    /\ ~job.up
    /\ cr.state = "running"
    /\ job' = [up |-> TRUE, sql |-> sql,
               origin |-> IF pending = "redeploy" THEN cr.path
                          ELSE IF cr.mode \in {"stateless", NoMode} THEN sql.from
                          ELSE job.origin]
    /\ pending' = "none"
    /\ UNCHANGED <<sql, backup, cr, cur, calm, history>>

(* Kubernetes restarts the pod; Flink's HA metadata brings the state back. *)
PodRestarts ==
    /\ Faulty("pod")
    /\ job.up
    /\ job' = [job EXCEPT !.sql = sql]
    /\ UNCHANGED <<sql, backup, cr, pending, cur, calm, history>>

Crash ==
    /\ Faulty("crash")
    /\ cur # Idle
    /\ Finish
    /\ UNCHANGED <<sql, backup, cr, pending, job, calm, history>>

(* New SQL is deployed, and the deployment upgraded to it; not while a     *)
(* session is active or starting (the panel warns of that).                *)
Deploy ==
    /\ "deploy" \in Offered
    /\ ~calm
    /\ ~cr.active
    /\ cur = Idle
    /\ CleanDeploys => backup = NoSQL
    /\ deployed < MaxBase
    /\ deployed' = deployed + 1
    /\ sql' = [base |-> deployed + 1, from |-> 0]
    /\ pending' = ChecksumChanged(pending)
    /\ UNCHANGED <<backup, cr, job, cur, calm, chosen>>

(* Only liveness needs calm to come.                                       *)
CalmDown ==
    /\ ~calm
    /\ calm' = TRUE
    /\ UNCHANGED <<sql, backup, cr, pending, job, cur, history>>

-----------------------------------------------------------------------------
Start == Suspend \/ Resume \/ Rollback \/ StartRestart \/ StartReplay \/ StartRevert

RestartStep == RestartSuspends \/ RestartWaits \/ RestartResumes
ReplayStep == BackUp \/ Rewrite \/ PatchForward
RevertStep == TakeSavepoint \/ Restore \/ PatchRedeploy \/ ClearBackup
Step == RestartStep \/ ReplayStep \/ RevertStep

Environment == OperatorStops \/ OperatorStarts \/ PodRestarts \/ Crash \/ Deploy

Next == Start \/ Step \/ Environment \/ CalmDown

Spec == Init /\ [][Next]_vars

(* The goroutine that holds the lock goes on, and the operator reconciles. *)
Fairness == WF_vars(Step) /\ WF_vars(OperatorStops) /\ WF_vars(OperatorStarts)

FairSpec == Spec /\ Fairness

-----------------------------------------------------------------------------
(* Properties, for a service used through its panel and SQL deployed when  *)
(* no backup is kept.                                                      *)

(* runReplay backs up "so the true original is preserved": the SQL that    *)
(* was deployed is never lost, wherever a replay or a revert is cut short. *)
OriginalKept == sql = Original \/ backup = Original

(* A session can be reverted: while it is active, the backup is there and  *)
(* is the SQL that was deployed before.                                    *)
Revertible == cr.active => backup = Original

(* The inductive invariant behind OriginalKept and Revertible.             *)
ReplayInv ==
    /\ OriginalKept /\ Revertible
    /\ backup \in {Original, NoSQL}
    /\ sql.base = deployed
    /\ cur.pc = "backup" => cur.sql = sql /\ (cur.had <=> backup # NoSQL)
    /\ cur.pc \in ReplayPC => cur.sql.base = deployed
    /\ cur.pc \in {"rewrite", "patch"} \cup RevertPC => backup = Original
    /\ cur.pc \in RevertPC => cur.sql = Original
    /\ cur.pc \in {"redeploy", "clear"} => sql = Original
    /\ cur.pc = "clear" => ~cr.active

(* A session changes the upgradeMode and ends by giving the chosen one     *)
(* back, also when it is left and reverted only after failed attempts;     *)
(* where none was chosen, it ends with last-state.                         *)
ModeRestored ==
    IF cr.active THEN cr.mode = "stateless" ELSE cr.mode \in {chosen, OrLastState(chosen)}

(* Why ModeRestored stays true: who has the chosen mode in hand.           *)
ModeInv ==
    /\ ModeRestored
    /\ cr.active => cr.prev = OrLastState(chosen)
    /\ cur.pc \in ReplayPC => ~cr.active /\ cur.mode = OrLastState(chosen)
    /\ cur.pc \in RevertPC \ {"clear"} => cr.active /\ cur.mode = OrLastState(chosen)

(* What the comment on StartRevert says: out of a session, the deployment  *)
(* has the upgradeMode it had before.                                      *)
UpgradeModeRestored == ~cr.active => cr.mode = chosen

(* What replayVerdict tries to tell from the logs: once the operator has   *)
(* caught up, a job that runs the session's SQL has replayed from the      *)
(* session's timestamp, unless a Rollback chose its state since.           *)
SessionReplays ==
    cr.active /\ pending = "none" /\ job.up /\ job.sql.from = cr.from =>
        job.origin \in {cr.from, cr.path}

(* Why SessionReplays stays true: a job does not come to have started from *)
(* a timestamp by reading the session's SQL later, and what a revert       *)
(* restores starts from no timestamp.                                      *)
TimestampInv ==
    /\ cr.active /\ pending = "none" /\ job.up /\ cr.from \in {job.sql.from, sql.from} =>
           job.origin \in {cr.from, cr.path}
    /\ cr.active => cr.from # 0
    /\ IF backup = NoSQL THEN sql.from = 0 ELSE backup.from = 0
    /\ cur.pc = "backup" => cur.sql = sql /\ (cur.had <=> backup # NoSQL)
    /\ cur.pc = "rewrite" => backup # NoSQL
    /\ cur.pc \in ReplayPC => cur.from # 0
    /\ cur.pc \in RevertPC => cur.sql.from = 0
    /\ cur.pc \in {"redeploy", "clear"} => sql.from = 0

(* The inductive invariant behind ModeRestored and SessionReplays.         *)
SessionInv == ModeInv /\ TimestampInv

(* Once things are calm, a replay that has written its SQL ends with a     *)
(* job that replays, if the job is meant to run at all.                    *)
ReplayTakesHold ==
    calm /\ cur.pc = "patch" /\ cr.state = "running"
        ~> job.up /\ job.sql = sql /\ job.sql.from = cr.from /\ cr.active

(* Once things are calm, a revert past its savepoint ends with the         *)
(* deployed SQL running and no trace of the session.                       *)
RevertCompletes ==
    calm /\ cur.pc = "restore"
        ~> job.up /\ job.sql = Original /\ ~cr.active /\ backup = NoSQL

(* Once things are calm, a Restart ends with the job up.                   *)
RestartCompletes ==
    calm /\ cur.pc \in RestartPC ~> job.up /\ cr.state = "running" /\ cur = Idle

=============================================================================
