---------------------------- MODULE HAFenceProofs ----------------------------
(***************************************************************************)
(* What is left of the switch's safety when pods outlive the wait and the  *)
(* Jobs page suspends and starts the job in mid-switch: the conditional    *)
(* writes, the register of module Ownership and the fence.  Proofs, for    *)
(* every set of sides and of operation slots and with every fault.         *)
(***************************************************************************)
EXTENDS HALifecycle, HAWizardProofs

(* The part of FenceInv about the two S3 objects.                          *)
FenceShared ==
    /\ TokenMatchesRecord
    /\ handoff.phase = "released" => token = Neutral
    /\ etag = 0 => claims = {}

LEMMA FenceSharedFrame ==
    ASSUME FenceShared, UNCHANGED <<token, handoff, etag, claims>>
    PROVE  FenceShared'
BY DEF FenceShared, TokenMatchesRecord

LEMMA IdleFenced ==
    ASSUME NEW o \in Op, op'[o] = Idle
    PROVE  OperationFenced(o)'
<1>1. op'[o].pc = "idle"
  BY DEF Idle
<1> QED BY <1>1 DEF OperationFenced

LEMMA AloneFenced ==
    ASSUME NEW o \in Op, \A p \in Op \ {o} : op'[p] = Idle, OperationFenced(o)', FenceShared'
    PROVE  FenceInv'
<1>1. OneAtATime'
  BY DEF OneAtATime, Running
<1>2. ASSUME NEW p \in Op PROVE OperationFenced(p)'
  BY IdleFenced
<1> QED BY <1>1, <1>2 DEF FenceInv, FenceShared

(* A step of the one operation that runs.                                  *)
LEMMA FencedStep ==
    ASSUME FenceInv, NEW o \in Op, op[o].pc # "idle",
           \A p \in Op \ {o} : op'[p] = op[p], OperationFenced(o)', FenceShared'
    PROVE  FenceInv'
<1>1. \A p \in Op \ {o} : op'[p] = Idle
  <2>1. OneAtATime
    BY DEF FenceInv
  <2> QED BY <2>1, OthersIdle
<1> QED BY <1>1, AloneFenced

(* A step that starts nothing and leaves both S3 objects alone.            *)
LEMMA FenceFrame ==
    ASSUME FenceInv, UNCHANGED <<token, handoff, etag, claims>>,
           \A o \in Op : op'[o] = op[o] \/ op'[o] = Idle
    PROVE  FenceInv'
<1>1. FenceShared'
  BY FenceSharedFrame DEF FenceInv, FenceShared
<1>2. ASSUME NEW o \in Op PROVE OperationFenced(o)'
  <2>1. CASE op'[o] = op[o]
    BY <2>1 DEF FenceInv, OperationFenced, Me
  <2> QED BY <2>1, IdleFenced
<1>3. OneAtATime'
  BY DEF FenceInv, OneAtATime, Running
<1> QED BY <1>1, <1>2, <1>3 DEF FenceInv, FenceShared

LEMMA InitFence == Init => FenceInv
<1> SUFFICES ASSUME Init PROVE FenceInv
  OBVIOUS
<1>1. WizardInv
  BY InitWizard
<1>2. handoff.phase = "released" => token = Neutral
  BY <1>1 DEF WizardInv, ReleasedMeansStopped
<1>3. \A o \in Op : OperationFenced(o)
  BY <1>1 DEF WizardInv, OperationHolds
<1> QED BY <1>1, <1>2, <1>3 DEF WizardInv, FenceInv, Init

-----------------------------------------------------------------------------
(* The operations, one at a time and never forced.                         *)

LEMMA StartFence ==
    ASSUME Wizard, "force" \notin Offered, TypeOK, FenceInv, NEW o \in Op, Start(o)
    PROVE  FenceInv'
<1>1. ASSUME NEW s \in Side, NEW pc \in {"savepoint", "claimtoken", "read"},
             NEW f \in BOOLEAN, Quiet, Launch(o, Begin(s, pc, f)),
             pc = "claimtoken" => token = NoOne, pc = "read" => ~f
      PROVE  FenceInv'
  <2>1. op'[o] = Begin(s, pc, f) /\ \A p \in Op \ {o} : op'[p] = op[p]
    BY <1>1, OneSlot DEF Launch
  <2>2. \A p \in Op \ {o} : op'[p] = Idle
    BY <1>1, <2>1 DEF Quiet, Running
  <2>3. op'[o].pc = pc /\ op'[o].force = f
    BY <2>1 DEF Begin
  <2>4. UNCHANGED <<token, handoff, etag, claims>>
    BY <1>1 DEF Launch, coordVars
  <2>5. OperationFenced(o)'
    BY <1>1, <2>3, <2>4 DEF OperationFenced
  <2>6. FenceShared'
    BY <2>4, FenceSharedFrame DEF FenceInv, FenceShared
  <2> QED BY <2>2, <2>5, <2>6, AloneFenced
<1>2. ASSUME NEW s \in Side, Release(o, s) PROVE FenceInv'
  BY <1>1, <1>2 DEF Release
<1>3. ASSUME NEW s \in Side, Claim(o, s) PROVE FenceInv'
  BY <1>1, <1>3 DEF Claim
<1>4. ASSUME NEW s \in Side, NEW f \in BOOLEAN, Promote(o, s, f) PROVE FenceInv'
  BY <1>1, <1>4 DEF Promote
<1> QED BY <1>2, <1>3, <1>4 DEF Start

(* A Release, also one whose wait ran out of time.                         *)
LEMMA ReleaseFence ==
    ASSUME TypeOK, FenceInv, NEW o \in Op, ReleaseStep(o)
    PROVE  FenceInv'
<1>1. op[o] \in Operation /\ op[o].pc # "idle"
  <2>1. op[o].pc # "idle"
    BY DEF ReleaseStep, Savepoint, SuspendLocal, WaitStopped, TokenNeutral, ReadForRelease,
           PublishReleased
  <2> QED BY <2>1, RunningOperation
<1>2. OperationFenced(o) /\ FenceShared
  BY DEF FenceInv, FenceShared
<1>3. ASSUME FenceShared', Finish(o) PROVE FenceInv'
  <2>1. op'[o] = Idle /\ \A p \in Op \ {o} : op'[p] = op[p]
    BY <1>3, FinishSlot
  <2> QED BY <1>1, <1>3, <2>1, IdleFenced, FencedStep
<1>4. ASSUME FenceShared', NEW pc \in PC, Goto(o, pc),
             pc \in {"wait", "neutral"} \/ (pc = "reread" /\ token' = Neutral)
      PROVE  FenceInv'
  <2>1. op'[o].pc = pc /\ \A p \in Op \ {o} : op'[p] = op[p]
    BY <1>1, <1>4, GotoSlot
  <2>2. OperationFenced(o)'
    BY <1>4, <2>1 DEF OperationFenced
  <2> QED BY <1>1, <1>4, <2>1, <2>2, FencedStep
<1>5. UNCHANGED <<token, handoff, etag, claims>> => FenceShared'
  BY <1>2, FenceSharedFrame
<1>6. CASE Savepoint(o)
  <2>1. PICK p \in {NoPoint} \cup (IF Healthy(Me(o)) THEN {ran} ELSE {}) :
          op' = [op EXCEPT ![o] = [op[o] EXCEPT !.pc = "suspend", !.point = p]]
    BY <1>6 DEF Savepoint
  <2>2. /\ op'[o] = [op[o] EXCEPT !.pc = "suspend", !.point = p]
        /\ \A q \in Op \ {o} : op'[q] = op[q]
    BY <2>1, OneSlot
  <2>3. op'[o].pc = "suspend"
    BY <1>1, <2>2 DEF Operation
  <2>4. OperationFenced(o)' /\ FenceShared'
    BY <1>5, <1>6, <2>3 DEF OperationFenced, Savepoint, coordVars
  <2> QED BY <1>1, <2>2, <2>4, FencedStep
<1>7. CASE SuspendLocal(o)
  BY <1>3, <1>4, <1>5, <1>7 DEF SuspendLocal, coordVars, PC, ReleasePC
<1>8. CASE WaitStopped(o)
  BY <1>4, <1>5, <1>8 DEF WaitStopped, coordVars, PC, ReleasePC
<1>9. CASE TokenNeutral(o)
  <2>1. UNCHANGED <<handoff, etag, claims>> /\ token' \in {token, Neutral}
    BY <1>9 DEF TokenNeutral, WriteToken
  <2>2. FenceShared'
    BY <1>2, <2>1, SideAssumption DEF FenceShared, TokenMatchesRecord
  <2> QED BY <1>3, <1>4, <1>9, <2>2 DEF TokenNeutral, WriteToken, PC, ReleasePC
<1>10. CASE ReadForRelease(o)
  <2>1. FenceShared' /\ token' = token /\ token = Neutral
    BY <1>2, <1>5, <1>10 DEF ReadForRelease, coordVars, OperationFenced
  <2>2. CASE op' = [op EXCEPT ![o] =
                      [op[o] EXCEPT !.pc = "publish", !.rec = handoff, !.etag = etag]]
    <3>1. /\ op'[o] = [op[o] EXCEPT !.pc = "publish", !.rec = handoff, !.etag = etag]
          /\ \A q \in Op \ {o} : op'[q] = op[q]
      BY <2>2, OneSlot
    <3>2. op'[o].pc = "publish"
      BY <1>1, <3>1 DEF Operation
    <3>3. OperationFenced(o)'
      BY <2>1, <3>2 DEF OperationFenced
    <3> QED BY <1>1, <2>1, <3>1, <3>3, FencedStep
  <2> QED BY <1>3, <1>10, <2>1, <2>2 DEF ReadForRelease, ReadHandoffWithETag
<1>11. CASE PublishReleased(o)
  <2>1. token' = token /\ token = Neutral /\ claims' = claims
    BY <1>2, <1>11 DEF PublishReleased, OperationFenced
  <2>2. FenceShared'
    <3>1. CASE WriteHandoff(ReleasedRecord(o))
      <4>1. etag' # 0
        BY <3>1 DEF WriteHandoff, TypeOK, CoordTypeOK
      <4> QED BY <2>1, <4>1, SideAssumption DEF FenceShared, TokenMatchesRecord
    <3>2. CASE UNCHANGED <<handoff, etag>>
      BY <1>5, <2>1, <3>2
    <3> QED BY <1>11, <3>1, <3>2 DEF PublishReleased, WriteHandoffCAS
  <2>3. CASE Finish(o)
    BY <1>3, <2>2, <2>3
  <2>4. CASE Retry(o)
    <3>1. /\ op'[o] = Idle \/ op'[o].pc = "reread"
          /\ \A p \in Op \ {o} : op'[p] = op[p]
      BY <1>1, <2>4, RetrySlot
    <3>2. OperationFenced(o)'
      <4>1. CASE op'[o].pc = "reread"
        BY <2>1, <4>1 DEF OperationFenced
      <4> QED BY <3>1, <4>1, IdleFenced
    <3> QED BY <1>1, <2>2, <3>1, <3>2, FencedStep
  <2> QED BY <1>11, <2>3, <2>4 DEF PublishReleased
<1> QED BY <1>6, <1>7, <1>8, <1>9, <1>10, <1>11 DEF ReleaseStep

(* A plain Promote.                                                        *)
LEMMA PromoteFence ==
    ASSUME TypeOK, FenceInv, NEW o \in Op, PromoteStep(o)
    PROVE  FenceInv'
<1>1. op[o] \in Operation /\ op[o].pc # "idle"
  <2>1. op[o].pc # "idle"
    BY DEF PromoteStep, ReadAndPick, RefusePromote, CASHandoff, TokenToSelf, StartLocal
  <2> QED BY <2>1, RunningOperation
<1>2. OperationFenced(o) /\ FenceShared
  BY DEF FenceInv, FenceShared
<1>3. ASSUME FenceShared', Finish(o) PROVE FenceInv'
  <2>1. op'[o] = Idle /\ \A p \in Op \ {o} : op'[p] = op[p]
    BY <1>3, FinishSlot
  <2> QED BY <1>1, <1>3, <2>1, IdleFenced, FencedStep
<1>4. Me(o) \in Side
  BY <1>1 DEF Me, Operation
<1>5. UNCHANGED <<token, handoff, etag, claims>> => FenceShared'
  BY <1>2, FenceSharedFrame
<1>6. CASE ReadAndPick(o)
  <2>1. PICK r \in PromoteReads :
          /\ GateOpen(op[o].force, r.rec)
          /\ \E p \in PickRecoveryPoint(r.rec) :
                op' = [op EXCEPT ![o] = [op[o] EXCEPT !.pc = "cas", !.rec = r.rec,
                                                      !.etag = r.etag, !.point = p]]
    BY <1>6 DEF ReadAndPick
  <2>2. PICK p \in PickRecoveryPoint(r.rec) :
          op' = [op EXCEPT ![o] = [op[o] EXCEPT !.pc = "cas", !.rec = r.rec,
                                                !.etag = r.etag, !.point = p]]
    BY <2>1
  <2>3. /\ op'[o] = [op[o] EXCEPT !.pc = "cas", !.rec = r.rec, !.etag = r.etag, !.point = p]
        /\ \A q \in Op \ {o} : op'[q] = op[q]
    BY <2>2, OneSlot
  <2>4. op'[o].pc = "cas"
    BY <1>1, <2>3 DEF Operation
  <2>5. handoff' = handoff /\ FenceShared'
    BY <1>5, <1>6 DEF ReadAndPick, coordVars
  <2>6. handoff.phase = "released"
    <3>1. r.rec.phase = "released"
      BY <1>2, <1>6, <2>1 DEF OperationFenced, ReadAndPick, GateOpen
    <3> QED BY <3>1 DEF PromoteReads, ReadHandoffWithETag, EmptyRead, NoRecord
  <2>7. OperationFenced(o)'
    BY <2>4, <2>5, <2>6 DEF OperationFenced
  <2> QED BY <1>1, <2>3, <2>5, <2>7, FencedStep
<1>7. CASE RefusePromote(o)
  BY <1>3, <1>5, <1>7 DEF RefusePromote, coordVars
<1>8. CASE CASHandoff(o)
  <2>1. token' = token /\ token = Neutral
    BY <1>2, <1>8 DEF CASHandoff, OperationFenced, FenceShared
  <2>2. FenceShared'
    <3>1. CASE WriteHandoff(PromotedRecord(o))
      <4>1. etag' # 0
        BY <3>1 DEF WriteHandoff, TypeOK, CoordTypeOK
      <4> QED BY <2>1, <4>1, SideAssumption DEF FenceShared, TokenMatchesRecord
    <3>2. CASE UNCHANGED <<handoff, etag, claims>>
      BY <1>5, <2>1, <3>2
    <3> QED BY <1>8, <3>1, <3>2 DEF CASHandoff, WriteHandoffCAS
  <2>3. CASE Finish(o)
    BY <1>3, <2>2, <2>3
  <2>4. CASE WriteHandoffCAS(PromotedRecord(o), op[o].etag) /\ Goto(o, "token")
    <3>1. /\ op'[o].pc = "token" /\ op'[o].side = op[o].side
          /\ \A p \in Op \ {o} : op'[p] = op[p]
      BY <1>1, <2>4, GotoSlot DEF PC, PromotePC
    <3>2. handoff'.active = Me(o) /\ handoff'.phase = "stable"
      BY <2>4 DEF WriteHandoffCAS, WriteHandoff, PromotedRecord
    <3>3. OperationFenced(o)'
      BY <2>1, <3>1, <3>2 DEF OperationFenced, Me
    <3> QED BY <1>1, <2>2, <3>1, <3>3, FencedStep
  <2> QED BY <1>8, <2>3, <2>4 DEF CASHandoff
<1>9. CASE TokenToSelf(o)
  <2>1. /\ UNCHANGED <<handoff, etag, claims>> /\ token' \in {token, Me(o)}
        /\ token = Neutral /\ handoff.active = Me(o) /\ handoff.phase = "stable"
    BY <1>2, <1>9 DEF TokenToSelf, WriteToken, OperationFenced
  <2>2. FenceShared'
    BY <1>2, <1>4, <2>1, SideAssumption DEF FenceShared, TokenMatchesRecord
  <2>3. CASE Finish(o)
    BY <1>3, <2>2, <2>3
  <2>4. CASE Goto(o, "start")
    <3>1. op'[o].pc = "start" /\ \A p \in Op \ {o} : op'[p] = op[p]
      BY <1>1, <2>4, GotoSlot DEF PC, PromotePC
    <3>2. OperationFenced(o)'
      BY <3>1 DEF OperationFenced
    <3> QED BY <1>1, <2>2, <3>1, <3>2, FencedStep
  <2> QED BY <1>9, <2>3, <2>4 DEF TokenToSelf
<1>10. CASE StartLocal(o)
  BY <1>3, <1>5, <1>10 DEF StartLocal, coordVars
<1> QED BY <1>6, <1>7, <1>8, <1>9, <1>10 DEF PromoteStep

(* A Claim, which comes before the first record and has S3 for itself.     *)
LEMMA ClaimFence ==
    ASSUME TypeOK, FenceInv, NEW o \in Op, ClaimStep(o)
    PROVE  FenceInv'
<1>1. op[o] \in Operation /\ op[o].pc # "idle"
  <2>1. op[o].pc # "idle"
    BY DEF ClaimStep, ClaimToken, ClaimRead, ClaimWrite
  <2> QED BY <2>1, RunningOperation
<1>2. OperationFenced(o) /\ FenceShared
  BY DEF FenceInv, FenceShared
<1>3. Me(o) \in Side
  BY <1>1 DEF Me, Operation
<1>4. ASSUME FenceShared', Finish(o) PROVE FenceInv'
  <2>1. op'[o] = Idle /\ \A p \in Op \ {o} : op'[p] = op[p]
    BY <1>4, FinishSlot
  <2> QED BY <1>1, <1>4, <2>1, IdleFenced, FencedStep
<1>5. CASE ClaimToken(o)
  <2>1. /\ UNCHANGED <<handoff, etag, claims>> /\ token' \in {token, Me(o)}
        /\ token = NoOne /\ etag = 0 /\ handoff.phase # "released"
    BY <1>2, <1>5, SideAssumption
       DEF ClaimToken, WriteToken, OperationFenced, FenceShared, TokenMatchesRecord
  <2>2. FenceShared'
    BY <1>2, <1>3, <2>1, SideAssumption DEF FenceShared, TokenMatchesRecord
  <2>3. CASE Finish(o)
    BY <1>4, <2>2, <2>3
  <2>4. CASE token' = Me(o) /\ Goto(o, "claimread")
    <3>1. /\ op'[o].pc = "claimread" /\ op'[o].side = op[o].side
          /\ \A p \in Op \ {o} : op'[p] = op[p]
      BY <1>1, <2>4, GotoSlot DEF PC, ClaimPC
    <3>2. OperationFenced(o)'
      BY <2>1, <2>4, <3>1 DEF OperationFenced, Me
    <3> QED BY <1>1, <2>2, <3>1, <3>2, FencedStep
  <2> QED BY <1>5, <2>3, <2>4 DEF ClaimToken, WriteToken
<1>6. CASE ClaimRead(o)
  <2>1. PICK r \in PromoteReads :
          op' = [op EXCEPT ![o] = [op[o] EXCEPT !.pc = "claimwrite", !.rec = r.rec]]
    BY <1>6 DEF ClaimRead
  <2>2. /\ op'[o] = [op[o] EXCEPT !.pc = "claimwrite", !.rec = r.rec]
        /\ \A q \in Op \ {o} : op'[q] = op[q]
    BY <2>1, OneSlot
  <2>3. op'[o].pc = "claimwrite" /\ op'[o].side = op[o].side /\ op'[o].rec = r.rec
    BY <1>1, <2>2 DEF Operation
  <2>4. UNCHANGED <<token, handoff, etag, claims>>
    BY <1>6 DEF ClaimRead, coordVars
  <2>5. r.rec = NoRecord
    BY <1>2, <1>6 DEF OperationFenced, ClaimRead, FenceShared, TokenMatchesRecord,
          PromoteReads, ReadHandoffWithETag, EmptyRead
  <2>6. OperationFenced(o)'
    BY <1>2, <1>6, <2>3, <2>4, <2>5 DEF OperationFenced, ClaimRead, Me
  <2> QED BY <1>1, <1>2, <2>2, <2>4, <2>6, FenceSharedFrame, FencedStep
<1>7. CASE ClaimWrite(o)
  <2>1. token' = token /\ token = Me(o) /\ claims' = claims
    BY <1>2, <1>7 DEF ClaimWrite, OperationFenced
  <2>2. CASE WriteHandoff(ClaimedRecord(o))
    <3>1. handoff'.active = Me(o) /\ handoff'.phase = "stable"
      BY <2>2 DEF WriteHandoff, ClaimedRecord
    <3>2. etag' # 0
      BY <2>2 DEF WriteHandoff, TypeOK, CoordTypeOK
    <3>3. FenceShared'
      BY <1>3, <2>1, <3>1, <3>2, SideAssumption DEF FenceShared, TokenMatchesRecord
    <3> QED BY <1>4, <1>7, <3>3 DEF ClaimWrite
  <2>3. CASE UNCHANGED <<handoff, etag>>
    BY <1>2, <1>4, <1>7, <2>1, <2>3, FenceSharedFrame DEF ClaimWrite
  <2> QED BY <1>7, <2>2, <2>3 DEF ClaimWrite
<1> QED BY <1>5, <1>6, <1>7 DEF ClaimStep

LEMMA NextFence ==
    ASSUME Wizard, "force" \notin Offered, TypeOK, FenceInv, [Next]_vars
    PROVE  FenceInv'
<1>1. ASSUME NEW o \in Op, Start(o) \/ Step(o) PROVE FenceInv'
  BY <1>1, StartFence, ReleaseFence, PromoteFence, ClaimFence DEF Step
<1>2. ASSUME NEW s \in Side, Environment(s) PROVE FenceInv'
  <2>1. /\ UNCHANGED <<token, handoff, etag, claims>>
        /\ \A o \in Op : op'[o] = op[o] \/ op'[o] = Idle
    BY <1>2 DEF Environment, Suspend, Resume, JobsPage, PodStart, PodStop, PodLost, Checkpoint, Crash,
          coordVars, jobVars
  <2> QED BY <2>1, FenceFrame
<1>3. CASE CalmDown \/ UNCHANGED vars
  <2>1. UNCHANGED <<token, handoff, etag, claims, op>>
    BY <1>3 DEF CalmDown, vars, coordVars
  <2> QED BY <2>1, FenceFrame
<1> QED BY <1>1, <1>2, <1>3 DEF Next

-----------------------------------------------------------------------------
(* The unconditional write of a Claim: it finds no record, and nobody else *)
(* is about to write one.                                                  *)

LEMMA FencedClaim ==
    ASSUME TypeOK, FenceInv, CASInv, NEW o \in Op, ClaimWrite(o)
    PROVE  /\ op[o] \in Operation /\ Me(o) \in Side
           /\ etag = 0 /\ handoff = NoRecord /\ claims = {} /\ claims' = {}
           /\ "claim" \in Offered
           /\ \A p \in Op : op'[p] = Idle
<1>1. op[o].pc = "claimwrite"
  BY DEF ClaimWrite
<1>2. op[o] \in Operation
  BY <1>1, RunningOperation
<1>3. etag = 0
  BY <1>1 DEF FenceInv, OperationFenced
<1>4. \A p \in Op \ {o} : op[p] = Idle
  <2>1. OneAtATime
    BY DEF FenceInv
  <2> QED BY <1>1, <2>1, OthersIdle
<1>5. \A p \in Op : op'[p] = Idle
  BY <1>4, FinishSlot DEF ClaimWrite
<1>6. "claim" \in Offered
  BY <1>1 DEF CASInv, OnlyOffered, Running, Idle, ClaimPC
<1>7. handoff = NoRecord /\ claims = {} /\ claims' = {}
  BY <1>3 DEF FenceInv, TokenMatchesRecord, ClaimWrite
<1> QED BY <1>2, <1>3, <1>5, <1>6, <1>7 DEF Me, Operation

LEMMA ClaimWriteCAS ==
    ASSUME TypeOK, FenceInv, CASInv, NEW o \in Op, ClaimWrite(o)
    PROVE  CASInv'
<1>1. /\ claims' = {} /\ etag = 0 /\ handoff = NoRecord
      /\ \A p \in Op : op'[p] = Idle
  BY FencedClaim
<1>2. UniqueClaim'
  BY <1>1 DEF UniqueClaim
<1>3. \A p \in Op : op'[p].pc = "idle"
  BY <1>1 DEF Idle
<1>4. PendingIsCurrent' /\ PendingIsGated'
  BY <1>3 DEF PendingIsCurrent, PendingIsGated
<1>5. OnlyOffered'
  BY <1>1 DEF OnlyOffered, Running
<1>6. ClaimsAreBelow'
  <2>1. etag' = 0 => handoff' = NoRecord
    BY <1>1 DEF ClaimWrite, WriteHandoff
  <2> QED BY <1>1, <2>1 DEF ClaimsAreBelow
<1> QED BY <1>2, <1>4, <1>5, <1>6 DEF CASInv

LEMMA ClaimWriteOwnership ==
    ASSUME TypeOK, FenceInv, CASInv, NEW o \in Op, ClaimWrite(o)
    PROVE  [Register!Next]_Register!regVars
<1>1. /\ op[o] \in Operation /\ Me(o) \in Side /\ handoff = NoRecord
      /\ "claim" \in Offered
  BY FencedClaim
<1>2. CASE WriteHandoff(ClaimedRecord(o))
  <2>1. op[o].rec = NoRecord
    BY DEF FenceInv, OperationFenced, ClaimWrite
  <2>2. Register!Bootstrap(Me(o))
    BY <1>1, <1>2, <2>1 DEF WriteHandoff, ClaimedRecord, NoRecord, Register!Bootstrap
  <2> QED BY <1>1, <2>2 DEF Register!Next
<1>3. CASE UNCHANGED <<handoff, etag>>
  BY <1>3 DEF Register!regVars
<1> QED BY <1>2, <1>3 DEF ClaimWrite

-----------------------------------------------------------------------------
(* Both together.  A Claim writes without looking, so it has to come       *)
(* alone; without Claims, anything may interleave.                         *)

Documented == Wizard /\ "force" \notin Offered

RecordInv == TypeOK /\ CASInv /\ (Documented => FenceInv)

LEMMA InitRecord == Init => RecordInv
BY InitType, InitCAS, InitFence DEF RecordInv

LEMMA NextRecord ==
    ASSUME "claim" \notin Offered \/ Documented, RecordInv, [Next]_vars
    PROVE  RecordInv' /\ [Register!Next]_Register!regVars
<1>1. TypeOK /\ CASInv /\ TypeOK'
  BY NextType DEF RecordInv
<1>2. Documented => FenceInv'
  BY <1>1, NextFence DEF RecordInv, Documented
<1>3. CASE \A o \in Op : ~ClaimWrite(o)
  BY <1>1, <1>2, <1>3, NextCAS, NextOwnership DEF RecordInv, Documented
<1>4. ASSUME NEW o \in Op, ClaimWrite(o)
      PROVE  RecordInv' /\ [Register!Next]_Register!regVars
  <2>1. FenceInv
    BY <1>1, <1>4, NoClaim DEF RecordInv
  <2> QED BY <1>1, <1>2, <1>4, <2>1, ClaimWriteCAS, ClaimWriteOwnership
          DEF RecordInv, Documented
<1> QED BY <1>3, <1>4

(* What the Jobs page's Restart adds to the steps of HASwitch: patches of  *)
(* spec.job.state.                                                         *)
Patched ==
    /\ UNCHANGED <<coordVars, path, jm, ran, bucket, op, calm, claims>>
    /\ state' \in [Side -> {"running", "suspended"}]

LEMMA LifeSteps ==
    ASSUME TypeOK, [LifeNext]_lifeVars
    PROVE  [Next]_vars \/ Patched
<1>1. ASSUME NEW s \in Side, NEW newState \in {"running", "suspended"}, NEW pc, NEW next,
             Patch(s, pc, newState, next)
      PROVE  Patched
  BY <1>1 DEF Patch, Patched, TypeOK
<1>2. ASSUME NEW s \in Side, RestartStep(s) PROVE Patched \/ UNCHANGED vars
  BY <1>1, <1>2 DEF RestartStep, RestartStop, RestartWait, RestartStart
<1>3. ASSUME NEW s \in Side, ConsoleCrash(s) PROVE Crash(s) \/ UNCHANGED vars
  BY <1>3 DEF ConsoleCrash
<1>4. ASSUME NEW s \in Side, StartRestart(s) PROVE UNCHANGED vars
  BY <1>4 DEF StartRestart
<1>5. CASE UNCHANGED lifeVars
  BY <1>5 DEF lifeVars
<1> QED BY <1>2, <1>3, <1>4, <1>5 DEF LifeNext, Next, Environment

LEMMA PatchedRecord ==
    ASSUME RecordInv, Patched
    PROVE  RecordInv' /\ [Register!Next]_Register!regVars
<1>1. UNCHANGED <<token, handoff, etag, op, claims>>
  BY DEF Patched, coordVars
<1>2. TypeOK'
  BY DEF RecordInv, Patched, TypeOK, CoordTypeOK, coordVars
<1>3. CASInv'
  BY <1>1, CASInvFrame DEF RecordInv, Harmless
<1>4. Documented => FenceInv'
  BY <1>1, FenceFrame DEF RecordInv, Documented
<1> QED BY <1>1, <1>2, <1>3, <1>4 DEF RecordInv, Documented, Register!regVars

LEMMA LifeRecord ==
    ASSUME "claim" \notin Offered \/ Documented, RecordInv, [LifeNext]_lifeVars
    PROVE  RecordInv' /\ [Register!Next]_Register!regVars
BY LifeSteps, NextRecord, PatchedRecord DEF RecordInv

(* The fence: whom the token lets start is whom the record names.          *)
LEMMA FenceStarts ==
    ASSUME FenceInv
    PROVE  \A s \in Side : PodStart(s) =>
              etag = 0 \/ (handoff.active = s /\ handoff.phase = "stable")
BY DEF FenceInv, TokenMatchesRecord, PodStart

-----------------------------------------------------------------------------
(* The variables of HASwitch keep their types when Restarts of the Jobs    *)
(* page run as well.                                                       *)
THEOREM LifeTypeCorrect == LifeSpec => []TypeOK
<1>1. LifeInit => TypeOK
  BY InitType DEF LifeInit
<1>2. TypeOK /\ [LifeNext]_lifeVars => TypeOK'
  <2>1. TypeOK /\ Patched => TypeOK'
    BY DEF Patched, TypeOK, CoordTypeOK, coordVars
  <2> QED BY <2>1, LifeSteps, NextType
<1> QED BY <1>1, <1>2, PTL DEF LifeSpec

(* Whatever the Jobs page does in mid-switch and however early a Release   *)
(* stops to wait: no epoch is won by two promotions.  Without Claims this  *)
(* holds for any interleaving; a Claim has to come alone, as the manual    *)
(* says.                                                                   *)
THEOREM LifeClaimsAreUnique ==
    ASSUME "claim" \notin Offered \/ Documented
    PROVE  LifeSpec => [](CASInv /\ UniqueClaim)
<1>1. LifeInit => RecordInv
  BY InitRecord DEF LifeInit
<1>2. RecordInv /\ [LifeNext]_lifeVars => RecordInv'
  BY LifeRecord
<1>3. RecordInv => CASInv /\ UniqueClaim
  BY DEF RecordInv, CASInv
<1> QED BY <1>1, <1>2, <1>3, PTL DEF LifeSpec

(* Likewise, the handoff record stays the atomic register of module        *)
(* Ownership, which a Claim bootstraps.                                    *)
THEOREM LifeRecordIsRegister ==
    ASSUME "claim" \notin Offered \/ Documented
    PROVE  LifeSpec => ImplementsOwnership
<1>1. LifeInit => RecordInv /\ Register!Init
  BY InitRecord, InitOwnership DEF LifeInit
<1>2. RecordInv /\ [LifeNext]_lifeVars => RecordInv' /\ [Register!Next]_Register!regVars
  BY LifeRecord
<1> QED BY <1>1, <1>2, PTL DEF LifeSpec, ImplementsOwnership, Register!Spec

(* Operators who act one at a time and never force: pods may outlive the   *)
(* wait and the Jobs page may start the job in mid-switch, yet token and   *)
(* record keep agreeing and a released record keeps every pod from         *)
(* starting.                                                               *)
THEOREM FenceHolds ==
    ASSUME Documented
    PROVE  LifeSpec => []FenceInv
<1>1. LifeInit => RecordInv
  BY InitRecord DEF LifeInit
<1>2. RecordInv /\ [LifeNext]_lifeVars => RecordInv'
  BY LifeRecord
<1>3. RecordInv => FenceInv
  BY DEF RecordInv
<1> QED BY <1>1, <1>2, <1>3, PTL DEF LifeSpec

(* So a pod only ever starts on the side that the record names as owner,   *)
(* if there is a record: what can run elsewhere is a pod never stopped.    *)
THEOREM OnlyTheOwnerStarts ==
    ASSUME Documented
    PROVE  LifeSpec => OwnerStarts
<1>1. LifeInit => RecordInv
  BY InitRecord DEF LifeInit
<1>2. RecordInv /\ [LifeNext]_lifeVars => RecordInv'
  BY LifeRecord
<1>3. RecordInv /\ [LifeNext]_lifeVars =>
        [\A s \in Side : PodStart(s) =>
            etag = 0 \/ (handoff.active = s /\ handoff.phase = "stable")]_vars
  BY FenceStarts DEF RecordInv
<1> QED BY <1>1, <1>2, <1>3, PTL DEF LifeSpec, OwnerStarts

(* The same of the switch alone, with its forced promotions left out: the  *)
(* manual's bootstrap by Claim and the switches after it.                  *)
THEOREM DocumentedRecordIsRegister ==
    ASSUME Documented
    PROVE  Spec => [](CASInv /\ UniqueClaim) /\ ImplementsOwnership
<1>1. Init => RecordInv /\ Register!Init
  BY InitRecord, InitOwnership
<1>2. RecordInv /\ [Next]_vars => RecordInv' /\ [Register!Next]_Register!regVars
  BY NextRecord
<1>3. RecordInv => CASInv /\ UniqueClaim
  BY DEF RecordInv, CASInv
<1> QED BY <1>1, <1>2, <1>3, PTL DEF Spec, ImplementsOwnership, Register!Spec
=============================================================================
