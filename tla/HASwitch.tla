------------------------------ MODULE HASwitch ------------------------------
(***************************************************************************)
(* The decentralized failover of one HA group (internal/failover).  Every  *)
(* side runs its own flinkui, which acts only on the local FlinkDeployment *)
(* and on the two shared S3 objects of module Coord.  A switch is a        *)
(* Release on one side and a Promote on the other; Claim is the cold-start *)
(* bootstrap.  Nothing in the services serialises them: each is a          *)
(* goroutine (Claim: a request) that walks through its steps.              *)
(*                                                                         *)
(* Outside src/: the Flink operator, which starts and stops the JobManager *)
(* pod to match spec.job.state, and the pod's fencing initContainer, which *)
(* lets a pod start only while the token is its own clusterId.             *)
(***************************************************************************)
EXTENDS Coord

CONSTANTS
    Op,             \* slots of running operations (a finished one is reused)
    Offered,        \* what operators ask for, see Request
    Faults,         \* what may go wrong, see Fault
    Wizard,         \* TRUE: operators act one at a time, as /ha and the manual say
    StopTimesOut,   \* TRUE: StopTimeoutSec may pass before the pod is gone
    MaxETag         \* bound: no operation starts after this many handoff writes

Request == {"release", "promote", "force", "claim", "suspend", "resume"}
Fault == {"s3", "k8s", "pod", "crash"}

ASSUME HAAssumption ==
    /\ Offered \subseteq Request
    /\ Faults \subseteq Fault
    /\ Wizard \in BOOLEAN
    /\ StopTimesOut \in BOOLEAN
    /\ MaxETag \in Nat

VARIABLES
    state,      \* spec.job.state of each side's FlinkDeployment
    path,       \* spec.job.initialSavepointPath of each side
    jm,         \* is the side's JobManager pod there (and its job running)?
    op,         \* the running operations
    calm,       \* no more faults and no more Jobs-page actions
    claims,     \* history: the epochs won by a Promote's conditional write
    ran,        \* history: the epoch whose owner's job last ran (a Claim does
                \* not change the owner)
    bucket      \* the newest checkpoint and the newest savepoint in the job's
                \* directories, which both sides share

jobVars == <<state, path, jm, ran, bucket>>
vars == <<token, handoff, etag, state, path, jm, op, calm, claims, ran, bucket>>

-----------------------------------------------------------------------------
(* Running operations.  pc is the next remote call the goroutine makes.    *)

ReleasePC == {"savepoint", "suspend", "wait", "neutral", "reread", "publish"}
PromotePC == {"read", "cas", "token", "start"}
ClaimPC == {"claimtoken", "claimread", "claimwrite"}

Attempts == 3   \* of writeReleasedHandoff

Operation ==
    [pc : ReleasePC \cup PromotePC \cup ClaimPC, side : Side, force : BOOLEAN,
     rec : HandoffRecord, etag : Nat, point : Point, tries : 0 .. Attempts - 1]

Idle == [pc |-> "idle"]

Begin(s, pc, force) ==
    [pc |-> pc, side |-> s, force |-> force, rec |-> NoRecord, etag |-> 0,
     point |-> NoPoint, tries |-> 0]

Running(o) == op[o] # Idle
Me(o) == op[o].side
Quiet == \A o \in Op : ~Running(o)

Goto(o, pc) == op' = [op EXCEPT ![o].pc = pc]
Finish(o) == op' = [op EXCEPT ![o] = Idle]

Faulty(f) == f \in Faults /\ ~calm

(* RUNNING/STABLE, what the savepoint step and the Release button ask for: *)
(* the job's status, not the state its spec asks for.                      *)
Healthy(s) == jm[s]

TypeOK ==
    /\ CoordTypeOK
    /\ state \in [Side -> {"running", "suspended"}]
    /\ path \in [Side -> Point]
    /\ jm \in [Side -> BOOLEAN]
    /\ op \in [Op -> Operation \cup {Idle}]
    /\ calm \in BOOLEAN
    /\ claims \subseteq [epoch : Nat, side : Side, etag : Nat]
    /\ ran \in Nat
    /\ bucket \in [checkpoint : Point, savepoint : Point]

Init ==
    /\ \E p \in Side :
          /\ CoordInit(p)
          /\ state = [s \in Side |-> IF s = p THEN "running" ELSE "suspended"]
          /\ jm = [s \in Side |-> s = p]
    /\ op = [o \in Op |-> Idle]
    /\ path = [s \in Side |-> NoPoint]
    /\ calm = FALSE
    /\ claims = {}
    /\ ran = handoff.epoch
    /\ bucket = [checkpoint |-> NoPoint, savepoint |-> NoPoint]

-----------------------------------------------------------------------------
(* Starting an operation.  The handlers refuse nothing (a force needs its  *)
(* acknowledgement, which is the operator's); the buttons of the /ha page  *)
(* do, and they alone.  The manual adds that Claim is for the side that    *)
(* runs.                                                                   *)

Launch(o, operation) ==
    /\ ~Running(o)
    /\ etag < MaxETag
    /\ op' = [op EXCEPT ![o] = operation]
    /\ UNCHANGED <<coordVars, jobVars, calm, claims>>

Release(o, s) ==
    /\ "release" \in Offered
    /\ Wizard => Quiet /\ Healthy(s)
    /\ Launch(o, Begin(s, "savepoint", FALSE))

Promote(o, s, force) ==
    /\ IF force THEN "force" \in Offered ELSE "promote" \in Offered
    /\ Wizard => Quiet /\ token # s
    /\ Launch(o, Begin(s, "read", force))

Claim(o, s) ==
    /\ "claim" \in Offered
    /\ Wizard => Quiet /\ token = NoOne /\ Healthy(s)
    /\ Launch(o, Begin(s, "claimtoken", FALSE))

-----------------------------------------------------------------------------
(* doRelease.                                                              *)

(* 1. Savepoint if healthy; its failure is not the Release's failure, and  *)
(* may be no more than a lost answer.                                      *)
Savepoint(o) ==
    /\ op[o].pc = "savepoint"
    /\ \E p \in {NoPoint} \cup (IF Healthy(Me(o)) THEN {ran} ELSE {}) :
          /\ op' = [op EXCEPT ![o] = [@ EXCEPT !.pc = "suspend", !.point = p]]
          /\ \/ Healthy(Me(o)) /\ bucket' = [bucket EXCEPT !.savepoint = ran]
             \/ p = NoPoint /\ UNCHANGED bucket
    /\ UNCHANGED <<coordVars, state, path, jm, ran, calm, claims>>

(* 2. Suspend the local job.  A failed call may have been applied.         *)
SuspendLocal(o) ==
    /\ op[o].pc = "suspend"
    /\ LET suspended == [state EXCEPT ![Me(o)] = "suspended"]
       IN  \/ state' = suspended /\ Goto(o, "wait")
           \/ Faulty("k8s") /\ state' \in {state, suspended} /\ Finish(o)
    /\ UNCHANGED <<coordVars, path, jm, ran, bucket, calm, claims>>

(* Variant: the wait is not waited for.                                    *)
WaitSkipped(o) ==
    /\ op[o].pc = "wait"
    /\ Goto(o, "neutral")
    /\ UNCHANGED <<coordVars, jobVars, calm, claims>>

(* 3. Wait for the pod to go; running out of time goes on just the same.   *)
WaitStopped(o) ==
    /\ op[o].pc = "wait"
    /\ StopTimesOut \/ ~jm[Me(o)]
    /\ Goto(o, "neutral")
    /\ UNCHANGED <<coordVars, jobVars, calm, claims>>

(* Variant: the token stays on the side that steps down.                   *)
TokenKept(o) ==
    /\ op[o].pc = "neutral"
    /\ Goto(o, "reread")
    /\ UNCHANGED <<coordVars, jobVars, calm, claims>>

(* 4. Neutral token.                                                       *)
TokenNeutral(o) ==
    /\ op[o].pc = "neutral"
    /\ \/ WriteToken(Neutral) /\ Goto(o, "reread")
       \/ Faulty("s3") /\ token' \in {token, Neutral} /\ Finish(o)
    /\ UNCHANGED <<handoff, etag, jobVars, calm, claims>>

(* 5. writeReleasedHandoff: read, then conditional write, up to Attempts.  *)
ReadForRelease(o) ==
    /\ op[o].pc = "reread"
    /\ \/ LET r == ReadHandoffWithETag
          IN  op' = [op EXCEPT ![o] =
                        [@ EXCEPT !.pc = "publish", !.rec = r.rec, !.etag = r.etag]]
       \/ Faulty("s3") /\ Finish(o)
    /\ UNCHANGED <<coordVars, jobVars, calm, claims>>

(* Variant: the record is built anew instead of updated.                   *)
ReleasedRecordRebuilt(o) ==
    [NoRecord EXCEPT !.phase = "released", !.releasedBy = Me(o), !.point = op[o].point]

ReleasedRecord(o) ==
    [op[o].rec EXCEPT !.phase = "released", !.releasedBy = Me(o), !.point = op[o].point]

(* Variant: one attempt too many.                                          *)
RetryOnceMore(o) ==
    IF op[o].tries < Attempts
    THEN op' = [op EXCEPT ![o].pc = "reread", ![o].tries = @ + 1]
    ELSE Finish(o)

Retry(o) ==
    IF op[o].tries + 1 < Attempts
    THEN op' = [op EXCEPT ![o].pc = "reread", ![o].tries = @ + 1]
    ELSE Finish(o)

PublishReleased(o) ==
    /\ op[o].pc = "publish"
    /\ \/ /\ WriteHandoffCAS(ReleasedRecord(o), op[o].etag)
          /\ \/ Finish(o)
             \/ Faulty("s3") /\ Retry(o)   \* answer lost, the client's own retry gets 412
       \/ ~Precondition(op[o].etag) /\ Retry(o) /\ UNCHANGED <<handoff, etag>>
       \/ Faulty("s3") /\ Finish(o) /\ UNCHANGED <<handoff, etag>>
    /\ UNCHANGED <<token, jobVars, calm, claims>>

-----------------------------------------------------------------------------
(* doPromote.                                                              *)

(* The read's error is dropped, so the promotion may see no record.        *)
PromoteReads == {ReadHandoffWithETag} \cup (IF Faulty("s3") THEN {EmptyRead} ELSE {})

(* Variant: any record will do.                                            *)
GateOpenOnRecord(force, rec) == force \/ rec # NoRecord

GateOpen(force, rec) == force \/ rec.phase = "released"

(* The newest checkpoint of the listing, of whatever epoch it is; a        *)
(* savepoint, however new, only where there is no checkpoint at all.       *)
Listed == IF bucket.checkpoint # NoPoint THEN bucket.checkpoint ELSE bucket.savepoint

(* Variant: what is in the bucket goes before what the record says.        *)
PickListedFirst(rec) == IF Listed # NoPoint THEN {Listed} ELSE {rec.point}

(* The record's own recovery point first; else what the bucket lists now,  *)
(* and nothing when it cannot be listed.                                   *)
PickRecoveryPoint(rec) ==
    IF rec.point # NoPoint THEN {rec.point} ELSE {NoPoint, Listed}

(* 1.-2. Read the handoff, gate on it, pick the recovery point.            *)
ReadAndPick(o) ==
    /\ op[o].pc = "read"
    /\ \E r \in PromoteReads :
          /\ GateOpen(op[o].force, r.rec)
          /\ \E p \in PickRecoveryPoint(r.rec) :
                op' = [op EXCEPT ![o] =
                          [@ EXCEPT !.pc = "cas", !.rec = r.rec, !.etag = r.etag, !.point = p]]
    /\ UNCHANGED <<coordVars, jobVars, calm, claims>>

RefusePromote(o) ==
    /\ op[o].pc = "read"
    /\ \E r \in PromoteReads : ~GateOpen(op[o].force, r.rec)
    /\ Finish(o)
    /\ UNCHANGED <<coordVars, jobVars, calm, claims>>

(* Variants: the epoch is not advanced; the release is not consumed.       *)
PromotedRecordSameEpoch(o) ==
    [active |-> Me(o), epoch |-> op[o].rec.epoch, phase |-> "stable",
     releasedBy |-> NoOne, point |-> op[o].point]

PromotedRecordSamePhase(o) ==
    [active |-> Me(o), epoch |-> op[o].rec.epoch + 1, phase |-> op[o].rec.phase,
     releasedBy |-> NoOne, point |-> op[o].point]

PromotedRecord(o) ==
    [active |-> Me(o), epoch |-> op[o].rec.epoch + 1, phase |-> "stable",
     releasedBy |-> NoOne, point |-> op[o].point]

(* 3a. Claim the handoff: the conditional write decides the race.          *)
CASHandoff(o) ==
    /\ op[o].pc = "cas"
    /\ \/ /\ WriteHandoffCAS(PromotedRecord(o), op[o].etag)
          /\ claims' = claims \cup
                {[epoch |-> PromotedRecord(o).epoch, side |-> Me(o), etag |-> etag + 1]}
          /\ \/ Goto(o, "token")
             \/ Faulty("s3") /\ Finish(o)
       \/ /\ ~Precondition(op[o].etag) \/ Faulty("s3")
          /\ Finish(o)
          /\ UNCHANGED <<handoff, etag, claims>>
    /\ UNCHANGED <<token, jobVars, calm>>

(* Variant: the token is forgotten.                                        *)
TokenForgotten(o) ==
    /\ op[o].pc = "token"
    /\ Goto(o, "start")
    /\ UNCHANGED <<coordVars, jobVars, calm, claims>>

(* 3b. Point the token at this side, unconditionally.                      *)
TokenToSelf(o) ==
    /\ op[o].pc = "token"
    /\ \/ WriteToken(Me(o)) /\ Goto(o, "start")
       \/ Faulty("s3") /\ token' \in {token, Me(o)} /\ Finish(o)
    /\ UNCHANGED <<handoff, etag, jobVars, calm, claims>>

(* 4. Start the local job.  The verification that follows only observes.   *)
StartLocal(o) ==
    /\ op[o].pc = "start"
    /\ \/ /\ state' = [state EXCEPT ![Me(o)] = "running"]
          /\ path' = IF op[o].point = NoPoint THEN path
                     ELSE [path EXCEPT ![Me(o)] = op[o].point]
       \/ Faulty("k8s") /\ UNCHANGED <<state, path>>
    /\ Finish(o)
    /\ UNCHANGED <<coordVars, jm, ran, bucket, calm, claims>>

-----------------------------------------------------------------------------
(* Claim: token, read (its error dropped), unconditional write.            *)

ClaimToken(o) ==
    /\ op[o].pc = "claimtoken"
    /\ \/ WriteToken(Me(o)) /\ Goto(o, "claimread")
       \/ Faulty("s3") /\ token' \in {token, Me(o)} /\ Finish(o)
    /\ UNCHANGED <<handoff, etag, jobVars, calm, claims>>

ClaimRead(o) ==
    /\ op[o].pc = "claimread"
    /\ \E r \in PromoteReads :
          op' = [op EXCEPT ![o] = [@ EXCEPT !.pc = "claimwrite", !.rec = r.rec]]
    /\ UNCHANGED <<coordVars, jobVars, calm, claims>>

(* Variant: the epoch that was read is kept, also where there is none.     *)
ClaimedRecordAsRead(o) ==
    [active |-> Me(o), epoch |-> op[o].rec.epoch,
     phase |-> "stable", releasedBy |-> NoOne, point |-> NoPoint]

ClaimedRecord(o) ==
    [active |-> Me(o), epoch |-> IF op[o].rec.epoch > 1 THEN op[o].rec.epoch ELSE 1,
     phase |-> "stable", releasedBy |-> NoOne, point |-> NoPoint]

ClaimWrite(o) ==
    /\ op[o].pc = "claimwrite"
    /\ \/ WriteHandoff(ClaimedRecord(o))
       \/ Faulty("s3") /\ UNCHANGED <<handoff, etag>>
    /\ Finish(o)
    /\ UNCHANGED <<token, jobVars, calm, claims>>

-----------------------------------------------------------------------------
(* The Jobs page: Suspend and Resume patch the same field, under a lock    *)
(* the failover service does not take, and touch neither S3 object.        *)

JobsPage(request, s, newState) ==
    /\ request \in Offered
    /\ ~calm
    /\ Wizard => Quiet
    /\ state' = [state EXCEPT ![s] = newState]
    /\ UNCHANGED <<coordVars, path, jm, ran, bucket, op, calm, claims>>

Suspend(s) == JobsPage("suspend", s, "suspended")
Resume(s) == JobsPage("resume", s, "running")

-----------------------------------------------------------------------------
(* The cluster, and what may go wrong.                                     *)

PodStart(s) ==
    /\ state[s] = "running"
    /\ ~jm[s]
    /\ token = s
    /\ jm' = [jm EXCEPT ![s] = TRUE]
    /\ ran' = IF claims = {} THEN ran ELSE handoff.epoch
    /\ UNCHANGED <<coordVars, state, path, bucket, op, calm, claims>>

PodStop(s) ==
    /\ state[s] = "suspended"
    /\ jm[s]
    /\ jm' = [jm EXCEPT ![s] = FALSE]
    /\ UNCHANGED <<coordVars, state, path, ran, bucket, op, calm, claims>>

PodLost(s) ==
    /\ Faulty("pod")
    /\ jm[s]
    /\ jm' = [jm EXCEPT ![s] = FALSE]
    /\ UNCHANGED <<coordVars, state, path, ran, bucket, op, calm, claims>>

(* The running job takes a checkpoint.                                     *)
Checkpoint(s) ==
    /\ jm[s]
    /\ bucket' = [bucket EXCEPT !.checkpoint = ran]
    /\ UNCHANGED <<coordVars, state, path, jm, ran, op, calm, claims>>

(* The console process of side s restarts: its operations are only in      *)
(* memory and vanish where they were.                                      *)
Crash(s) ==
    /\ Faulty("crash")
    /\ \E o \in Op : Running(o) /\ Me(o) = s
    /\ op' = [o \in Op |-> IF Running(o) /\ Me(o) = s THEN Idle ELSE op[o]]
    /\ UNCHANGED <<coordVars, jobVars, calm, claims>>

(* Only the liveness of the documented procedure needs calm to come.       *)
CalmDown ==
    /\ Wizard
    /\ ~calm
    /\ calm' = TRUE
    /\ UNCHANGED <<coordVars, jobVars, op, claims>>

-----------------------------------------------------------------------------
ReleaseStep(o) ==
    \/ Savepoint(o) \/ SuspendLocal(o) \/ WaitStopped(o)
    \/ TokenNeutral(o) \/ ReadForRelease(o) \/ PublishReleased(o)

PromoteStep(o) ==
    \/ ReadAndPick(o) \/ RefusePromote(o) \/ CASHandoff(o)
    \/ TokenToSelf(o) \/ StartLocal(o)

ClaimStep(o) == ClaimToken(o) \/ ClaimRead(o) \/ ClaimWrite(o)

Step(o) == ReleaseStep(o) \/ PromoteStep(o) \/ ClaimStep(o)

Start(o) ==
    \E s \in Side : Release(o, s) \/ Claim(o, s) \/ \E f \in BOOLEAN : Promote(o, s, f)

Environment(s) ==
    \/ Suspend(s) \/ Resume(s) \/ Crash(s)
    \/ PodStart(s) \/ PodStop(s) \/ PodLost(s) \/ Checkpoint(s)

Next ==
    \/ \E o \in Op : Start(o) \/ Step(o)
    \/ \E s \in Side : Environment(s)
    \/ CalmDown

Spec == Init /\ [][Next]_vars

(* A goroutine that can take its next step takes it, and the operator      *)
(* keeps reconciling.  Operators and faults owe nothing.                   *)
Fairness ==
    /\ \A o \in Op : WF_vars(Step(o))
    /\ \A s \in Side : WF_vars(PodStart(s)) /\ WF_vars(PodStop(s))

FairSpec == Spec /\ Fairness

-----------------------------------------------------------------------------
(* Properties that hold for any interleaving of Releases and Promotes,     *)
(* forced or not, with crashes and lost answers; Claim is not offered.     *)

(* WriteHandoffCAS promises that exactly one side claims the handoff: no   *)
(* epoch is ever won by two promotions.                                    *)
UniqueClaim ==
    \A c, d \in claims : c.epoch = d.epoch => c = d

(* A pending conditional write whose ETag is still current holds the       *)
(* current record: what it decided on is still the case when it applies.   *)
PendingIsCurrent ==
    \A o \in Op : op[o].pc \in {"publish", "cas"} =>
        /\ op[o].etag <= etag
        /\ op[o].etag = etag => op[o].rec = handoff

(* A plain promotion that is about to write decided on a released record.  *)
PendingIsGated ==
    \A o \in Op : op[o].pc = "cas" =>
        /\ GateOpen(op[o].force, op[o].rec)
        /\ op[o].rec.point # NoPoint => op[o].point = op[o].rec.point

ClaimsAreBelow ==
    /\ etag = 0 => handoff = NoRecord
    /\ \A c \in claims : c.epoch <= handoff.epoch

(* Only what was asked for is running.                                     *)
OnlyOffered ==
    \A o \in Op : Running(o) =>
        /\ op[o].pc \in ClaimPC => "claim" \in Offered
        /\ op[o].force = TRUE => "force" \in Offered

(* The inductive invariant behind UniqueClaim and the refinement.          *)
CASInv ==
    UniqueClaim /\ PendingIsCurrent /\ PendingIsGated /\ ClaimsAreBelow /\ OnlyOffered

(* The handoff record is the atomic register of module Ownership: a        *)
(* Release never rolls back a Promote, a plain Promote consumes the        *)
(* release it answers and inherits its recovery point, and every Promote   *)
(* opens exactly one epoch, however reads and writes interleave.           *)
Register == INSTANCE Ownership WITH
    owner <- handoff.active, epoch <- handoff.epoch,
    phase <- handoff.phase, point <- handoff.point,
    ForceAllowed <- "force" \in Offered, ClaimAllowed <- "claim" \in Offered

ImplementsOwnership == Register!Spec

-----------------------------------------------------------------------------
(* Properties of a switch done the documented way: one operation at a      *)
(* time, offered by the /ha page, never forced, the pod gone before        *)
(* StopTimeoutSec; S3, Kubernetes, pods and consoles may still fail.       *)

(* The job never runs on two sides.                                        *)
NoDoubleRun ==
    \A s, t \in Side : jm[s] /\ jm[t] => s = t

(* Pods, token and record agree: a side that runs is the one the token     *)
(* names (unless it was never written) and the one the record names.       *)
RunnerOwns ==
    \A s \in Side : jm[s] =>
        /\ token \in {s, NoOne}
        /\ etag # 0 => handoff.active = s /\ handoff.phase = "stable"

(* What a plain Promote relies on: once released, nobody runs and nobody   *)
(* can start.                                                              *)
ReleasedMeansStopped ==
    handoff.phase = "released" => token = Neutral /\ \A s \in Side : ~jm[s]

(* Nothing overlaps, so what an operation has checked or written is still  *)
(* so at its next step.                                                    *)
OneAtATime == \A o, p \in Op : Running(o) /\ Running(p) => o = p

OnlyRuns(s) == \A t \in Side : jm[t] => t = s

OperationFenced(o) ==
    /\ op[o].pc \in {"reread", "publish"} => token = Neutral
    /\ op[o].pc = "read" => ~op[o].force
    /\ op[o].pc = "cas" => handoff.phase = "released"
    /\ op[o].pc = "token" =>
          token = Neutral /\ handoff.active = Me(o) /\ handoff.phase = "stable"
    /\ op[o].pc = "claimtoken" => token = NoOne
    /\ op[o].pc \in {"claimread", "claimwrite"} => token = Me(o) /\ etag = 0
    /\ op[o].pc = "claimwrite" => op[o].rec = NoRecord

OperationHolds(o) ==
    /\ OperationFenced(o)
    /\ op[o].pc \in {"savepoint", "suspend", "wait", "neutral"} =>
          token \in {Me(o), NoOne} /\ OnlyRuns(Me(o))
    /\ op[o].pc \in {"wait", "neutral"} => state[Me(o)] = "suspended"
    /\ op[o].pc = "neutral" => ~jm[Me(o)]
    /\ op[o].pc = "claimtoken" => OnlyRuns(Me(o))

(* A token that names a side names the record's side; before the first     *)
(* token there is no record.                                               *)
TokenMatchesRecord ==
    /\ token \in Side /\ etag # 0 => handoff.active = token /\ handoff.phase = "stable"
    /\ token = NoOne => etag = 0
    /\ etag = 0 => handoff = NoRecord

(* The inductive invariant behind NoDoubleRun, RunnerOwns and              *)
(* ReleasedMeansStopped.                                                   *)
WizardInv ==
    /\ NoDoubleRun /\ RunnerOwns /\ ReleasedMeansStopped
    /\ OneAtATime /\ TokenMatchesRecord /\ \A o \in Op : OperationHolds(o)

(* Even if a pod outlives the wait, or the Jobs page starts the job in     *)
(* mid-switch (HALifecycle): a pod only starts on the side that the record *)
(* names as its owner, if there is a record.  All that can still run       *)
(* elsewhere is a pod that was never stopped.                              *)
OwnerStarts ==
    [][\A s \in Side : PodStart(s) =>
          etag = 0 \/ (handoff.active = s /\ handoff.phase = "stable")]_vars

(* The inductive invariant behind it: a record without an owner keeps      *)
(* every pod from starting.                                                *)
FenceInv ==
    /\ OneAtATime /\ TokenMatchesRecord
    /\ handoff.phase = "released" => token = Neutral
    /\ etag = 0 => claims = {}
    /\ \A o \in Op : OperationFenced(o)

(* A take-over that answers a release with a recovery point restores the   *)
(* data of the job that ran last.  Without one it falls back on no less    *)
(* than the newest checkpoint, which may be older (NoEarlierStart).        *)
FreshRecovery ==
    [][\A o \in Op : ReadAndPick(o) =>
          /\ handoff.point # NoPoint => op'[o].point = ran
          /\ op'[o].point # NoPoint => op'[o].point \in bucket.checkpoint .. ran]_vars

(* What a Release carries, or has published, is a point of the last job;   *)
(* while its pod may still come back, that job is of the record's epoch.   *)
(* What is about to be written continues the record.  A Claim comes before *)
(* any promotion.                                                          *)
CarriesFresh(o) ==
    /\ op[o].pc \in ReleasePC \ {"savepoint"} => op[o].point \in {NoPoint, ran}
    /\ op[o].pc \in {"suspend", "wait", "neutral"} /\ op[o].point # NoPoint =>
          claims = {} \/ ran = handoff.epoch
    /\ op[o].pc \in {"publish", "cas"} => op[o].rec.epoch = handoff.epoch
    /\ op[o].pc \in ClaimPC => claims = {}

(* The inductive invariants behind FreshRecovery, with WizardInv.          *)
RecoveryInv ==
    /\ handoff.phase = "released" => handoff.point \in {NoPoint, ran}
    /\ claims # {} => etag # 0
    /\ claims # {} => \A s \in Side : jm[s] => ran = handoff.epoch
    /\ \A o \in Op : CarriesFresh(o)

(* No point is newer than the last job, nor that job than the record.      *)
BucketInv ==
    /\ bucket.checkpoint <= ran /\ bucket.savepoint <= ran
    /\ ran <= handoff.epoch

(* What the design doc says of a release without a recovery point, that    *)
(* the peer loses at most a checkpoint interval: the point it falls back   *)
(* on is not older than the one which the last owner itself started from.  *)
NoEarlierStart ==
    [][\A o \in Op, s \in Side :
          ReadAndPick(o) /\ handoff.active = s /\ op'[o].point # NoPoint =>
             op'[o].point >= path[s]]_vars

(* Once things are calm, a plain Promote answering a release ends with     *)
(* the job running on its side.                                            *)
Promoting(o, s) ==
    op[o].pc = "read" /\ Me(o) = s /\ handoff.phase = "released"

Switchover ==
    \A o \in Op, s \in Side : calm /\ Promoting(o, s) ~> jm[s]

=============================================================================
