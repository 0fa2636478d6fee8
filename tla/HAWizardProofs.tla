--------------------------- MODULE HAWizardProofs ---------------------------
(***************************************************************************)
(* The documented switch procedure never runs the job twice and never      *)
(* takes over from an old recovery point, for any number of sides and of   *)
(* operation slots and with every fault: proofs.                           *)
(***************************************************************************)
EXTENDS HASwitchProofs

(* The part of WizardInv about the two S3 objects and the pods.            *)
SharedInv == NoDoubleRun /\ RunnerOwns /\ ReleasedMeansStopped /\ TokenMatchesRecord

LEMMA SharedFrame ==
    ASSUME SharedInv, UNCHANGED <<token, handoff, etag, jm>>
    PROVE  SharedInv'
BY DEF SharedInv, NoDoubleRun, RunnerOwns, ReleasedMeansStopped, TokenMatchesRecord

(* An idle slot asks nothing.                                              *)
LEMMA IdleHolds ==
    ASSUME NEW o \in Op, op[o] = Idle
    PROVE  OperationHolds(o)
<1>1. op[o].pc = "idle"
  BY DEF Idle
<1> QED BY <1>1 DEF OperationHolds, OperationFenced

LEMMA IdleHoldsNext ==
    ASSUME NEW o \in Op, op'[o] = Idle
    PROVE  OperationHolds(o)'
<1>1. op'[o].pc = "idle"
  BY DEF Idle
<1> QED BY <1>1 DEF OperationHolds, OperationFenced

(* While one operation is at work the others are idle.                     *)
LEMMA OthersIdle ==
    ASSUME OneAtATime, NEW o \in Op, op[o].pc # "idle"
    PROVE  \A p \in Op \ {o} : op[p] = Idle
BY DEF OneAtATime, Running, Idle

LEMMA Alone ==
    ASSUME NEW o \in Op, \A p \in Op \ {o} : op'[p] = Idle, OperationHolds(o)'
    PROVE  OneAtATime' /\ \A p \in Op : OperationHolds(p)'
<1>1. OneAtATime'
  BY DEF OneAtATime, Running
<1>2. ASSUME NEW p \in Op PROVE OperationHolds(p)'
  BY IdleHoldsNext
<1> QED BY <1>1, <1>2

(* A write of the record leaves a version other than 0.                    *)
LEMMA WriteOrNot ==
    ASSUME TypeOK, TokenMatchesRecord, NEW rec,
           WriteHandoff(rec) \/ UNCHANGED <<handoff, etag>>
    PROVE  etag' = 0 => handoff' = NoRecord
BY DEF TypeOK, CoordTypeOK, TokenMatchesRecord, WriteHandoff

LEMMA InitWizard == Init => WizardInv
<1> SUFFICES ASSUME Init PROVE WizardInv
  OBVIOUS
<1>1. PICK p \in Side :
        /\ CoordInit(p)
        /\ state = [s \in Side |-> IF s = p THEN "running" ELSE "suspended"]
        /\ jm = [s \in Side |-> s = p]
  BY DEF Init
<1>2. \A s \in Side : jm[s] => s = p
  BY <1>1
<1>3. \A o \in Op : op[o] = Idle
  BY DEF Init
<1>4. /\ token \in {NoOne, p}
      /\ etag = 0 => handoff = NoRecord /\ handoff.phase = "unset"
      /\ etag # 0 => handoff.active = p /\ handoff.phase = "stable" /\ token = p
  <2>1. CASE token \in {NoOne, p} /\ handoff = NoRecord /\ etag = 0
    BY <2>1 DEF NoRecord
  <2>2. CASE /\ token = p /\ etag = 1
             /\ handoff = [NoRecord EXCEPT !.active = p, !.epoch = 1, !.phase = "stable"]
    BY <2>2 DEF NoRecord
  <2> QED BY <1>1, <2>1, <2>2 DEF CoordInit
<1>5. handoff.phase # "released"
  BY <1>4
<1>6. NoDoubleRun /\ RunnerOwns /\ ReleasedMeansStopped
  BY <1>2, <1>4, <1>5 DEF NoDoubleRun, RunnerOwns, ReleasedMeansStopped
<1>7. TokenMatchesRecord
  BY <1>4, SideAssumption DEF TokenMatchesRecord
<1>8. OneAtATime /\ \A o \in Op : OperationHolds(o)
  BY <1>3, IdleHolds DEF OneAtATime, Running
<1> QED BY <1>6, <1>7, <1>8 DEF WizardInv

(* Starting an operation, the way the page allows.                         *)
LEMMA StartWizard ==
    ASSUME Wizard, "force" \notin Offered, TypeOK, WizardInv, NEW o \in Op, Start(o)
    PROVE  WizardInv'
<1>1. ASSUME NEW s \in Side, NEW pc \in PC, NEW f \in BOOLEAN, Quiet,
             Launch(o, Begin(s, pc, f)),
             pc = "savepoint" \/ pc = "claimtoken" => token \in {s, NoOne} /\ OnlyRuns(s),
             pc = "claimtoken" => token = NoOne,
             pc = "read" => ~f,
             pc \in {"savepoint", "claimtoken", "read"}
      PROVE  WizardInv'
  <2>1. op'[o] = Begin(s, pc, f) /\ \A p \in Op \ {o} : op'[p] = op[p]
    BY <1>1, OneSlot DEF Launch
  <2>2. \A p \in Op \ {o} : op'[p] = Idle
    BY <1>1, <2>1 DEF Quiet, Running
  <2>3. op'[o].pc = pc /\ op'[o].side = s /\ op'[o].force = f
    BY <2>1 DEF Begin
  <2>4. UNCHANGED <<token, handoff, etag, state, jm>>
    BY <1>1 DEF Launch, coordVars, jobVars
  <2>5. OperationHolds(o)'
    BY <1>1, <2>3, <2>4 DEF OperationHolds, OperationFenced, Me, OnlyRuns
  <2>6. SharedInv
    BY DEF SharedInv, WizardInv
  <2>7. SharedInv'
    BY <2>4, <2>6, SharedFrame
  <2> QED BY <2>2, <2>5, <2>7, Alone DEF WizardInv, SharedInv
<1>2. ASSUME NEW s \in Side, Healthy(s) PROVE token \in {s, NoOne} /\ OnlyRuns(s)
  BY <1>2 DEF WizardInv, Healthy, RunnerOwns, NoDoubleRun, OnlyRuns
<1>3. ASSUME NEW s \in Side, Release(o, s) PROVE WizardInv'
  BY <1>1, <1>2, <1>3 DEF Release, PC, ReleasePC
<1>4. ASSUME NEW s \in Side, Claim(o, s) PROVE WizardInv'
  BY <1>1, <1>2, <1>4 DEF Claim, PC, ClaimPC
<1>5. ASSUME NEW s \in Side, NEW f \in BOOLEAN, Promote(o, s, f) PROVE WizardInv'
  BY <1>1, <1>5 DEF Promote, PC, PromotePC
<1> QED BY <1>3, <1>4, <1>5 DEF Start

(* A step of the running operation that leaves both S3 objects and the     *)
(* pods alone.                                                             *)
LEMMA LocalStep ==
    ASSUME WizardInv, NEW o \in Op, op[o].pc # "idle",
           \A p \in Op \ {o} : op'[p] = op[p],
           UNCHANGED <<token, handoff, etag, jm>>, OperationHolds(o)'
    PROVE  WizardInv'
<1>1. \A p \in Op \ {o} : op'[p] = Idle
  <2>1. OneAtATime
    BY DEF WizardInv
  <2> QED BY <2>1, OthersIdle
<1>2. SharedInv
  BY DEF SharedInv, WizardInv
<1>3. SharedInv'
  BY <1>2, SharedFrame
<1> QED BY <1>1, <1>3, Alone DEF WizardInv, SharedInv

LEMMA SharedStep ==
    ASSUME WizardInv, NEW o \in Op, op[o].pc # "idle",
           \A p \in Op \ {o} : op'[p] = op[p], SharedInv', OperationHolds(o)'
    PROVE  WizardInv'
<1>1. \A p \in Op \ {o} : op'[p] = Idle
  <2>1. OneAtATime
    BY DEF WizardInv
  <2> QED BY <2>1, OthersIdle
<1> QED BY <1>1, Alone DEF WizardInv, SharedInv

(* A Release.  Until the neutral token is written only its own side can    *)
(* run; the wait ends when that pod is gone.                               *)
LEMMA ReleaseWizard ==
    ASSUME Wizard, ~StopTimesOut, TypeOK, WizardInv, NEW o \in Op, ReleaseStep(o)
    PROVE  WizardInv'
<1>1. op[o] \in Operation /\ op[o].pc # "idle"
  <2>1. op[o].pc # "idle"
    BY DEF ReleaseStep, Savepoint, SuspendLocal, WaitStopped, TokenNeutral, ReadForRelease,
           PublishReleased
  <2> QED BY <2>1, RunningOperation
<1>2. Me(o) \in Side
  BY <1>1 DEF Me, Operation
<1>3. OperationHolds(o)
  BY DEF WizardInv
<1>4. CASE Finish(o) /\ UNCHANGED <<token, handoff, etag, jm>>
  <2>1. op'[o] = Idle /\ \A p \in Op \ {o} : op'[p] = op[p]
    BY <1>4, FinishSlot
  <2> QED BY <1>1, <1>4, <2>1, IdleHoldsNext, LocalStep
<1>5. CASE Savepoint(o)
  <2>1. PICK p \in {NoPoint} \cup (IF Healthy(Me(o)) THEN {ran} ELSE {}) :
          op' = [op EXCEPT ![o] = [op[o] EXCEPT !.pc = "suspend", !.point = p]]
    BY <1>5 DEF Savepoint
  <2>2. /\ op'[o] = [op[o] EXCEPT !.pc = "suspend", !.point = p]
        /\ \A q \in Op \ {o} : op'[q] = op[q]
    BY <2>1, OneSlot
  <2>3. op'[o].pc = "suspend" /\ op'[o].side = op[o].side
    BY <1>1, <2>2 DEF Operation
  <2>4. UNCHANGED <<token, handoff, etag, jm>>
    BY <1>5 DEF Savepoint, coordVars, jobVars
  <2>5. OperationHolds(o)'
    BY <1>3, <1>5, <2>3, <2>4 DEF OperationHolds, OperationFenced, Savepoint, Me, OnlyRuns
  <2> QED BY <1>1, <2>2, <2>4, <2>5, LocalStep
<1>6. CASE SuspendLocal(o)
  <2>1. UNCHANGED <<token, handoff, etag, jm>>
    BY <1>6 DEF SuspendLocal, coordVars
  <2>2. CASE state' = [state EXCEPT ![Me(o)] = "suspended"] /\ Goto(o, "wait")
    <3>1. /\ op'[o].pc = "wait" /\ op'[o].side = op[o].side
          /\ \A p \in Op \ {o} : op'[p] = op[p]
      BY <1>1, <2>2, GotoSlot DEF PC, ReleasePC
    <3>2. state'[Me(o)] = "suspended"
      BY <1>2, <2>2 DEF TypeOK
    <3>3. OperationHolds(o)'
      BY <1>3, <1>6, <2>1, <3>1, <3>2 DEF OperationHolds, OperationFenced, SuspendLocal, Me, OnlyRuns
    <3> QED BY <1>1, <2>1, <3>1, <3>3, LocalStep
  <2> QED BY <1>4, <1>6, <2>1, <2>2 DEF SuspendLocal
<1>7. CASE WaitStopped(o)
  <2>1. UNCHANGED <<token, handoff, etag, jm, state>> /\ ~jm[Me(o)]
    BY <1>7 DEF WaitStopped, coordVars, jobVars
  <2>2. /\ op'[o].pc = "neutral" /\ op'[o].side = op[o].side
        /\ \A p \in Op \ {o} : op'[p] = op[p]
    BY <1>1, <1>7, GotoSlot DEF WaitStopped, PC, ReleasePC
  <2>3. OperationHolds(o)'
    BY <1>3, <1>7, <2>1, <2>2 DEF OperationHolds, OperationFenced, WaitStopped, Me, OnlyRuns
  <2> QED BY <1>1, <2>1, <2>2, <2>3, LocalStep
<1>8. CASE TokenNeutral(o)
  <2>1. UNCHANGED <<handoff, etag, jm>> /\ token' \in {token, Neutral}
    BY <1>8 DEF TokenNeutral, WriteToken, jobVars
  <2>2. \A s \in Side : ~jm[s]
    BY <1>2, <1>3, <1>8 DEF OperationHolds, OperationFenced, TokenNeutral, OnlyRuns
  <2>3. SharedInv'
    <3>1. CASE token' = token
      BY <2>1, <3>1, SharedFrame DEF WizardInv, SharedInv
    <3>2. CASE token' = Neutral
      BY <2>1, <2>2, <3>2, SideAssumption
         DEF WizardInv, SharedInv, NoDoubleRun, RunnerOwns, ReleasedMeansStopped, TokenMatchesRecord
    <3> QED BY <2>1, <3>1, <3>2
  <2>4. CASE Finish(o)
    <3>1. op'[o] = Idle /\ \A p \in Op \ {o} : op'[p] = op[p]
      BY <2>4, FinishSlot
    <3> QED BY <1>1, <2>3, <3>1, IdleHoldsNext, SharedStep
  <2>5. CASE token' = Neutral /\ Goto(o, "reread")
    <3>1. op'[o].pc = "reread" /\ \A p \in Op \ {o} : op'[p] = op[p]
      BY <1>1, <2>5, GotoSlot DEF PC, ReleasePC
    <3>2. OperationHolds(o)'
      BY <2>5, <3>1 DEF OperationHolds, OperationFenced
    <3> QED BY <1>1, <2>3, <3>1, <3>2, SharedStep
  <2> QED BY <1>8, <2>4, <2>5 DEF TokenNeutral, WriteToken
<1>9. CASE ReadForRelease(o)
  <2>1. UNCHANGED <<token, handoff, etag, jm>>
    BY <1>9 DEF ReadForRelease, coordVars, jobVars
  <2>2. CASE op' = [op EXCEPT ![o] =
                      [op[o] EXCEPT !.pc = "publish", !.rec = handoff, !.etag = etag]]
    <3>1. /\ op'[o] = [op[o] EXCEPT !.pc = "publish", !.rec = handoff, !.etag = etag]
          /\ \A q \in Op \ {o} : op'[q] = op[q]
      BY <2>2, OneSlot
    <3>2. op'[o].pc = "publish"
      BY <1>1, <3>1 DEF Operation
    <3>3. OperationHolds(o)'
      BY <1>3, <1>9, <2>1, <3>2 DEF OperationHolds, OperationFenced, ReadForRelease
    <3> QED BY <1>1, <2>1, <3>1, <3>3, LocalStep
  <2> QED BY <1>4, <1>9, <2>1, <2>2 DEF ReadForRelease, ReadHandoffWithETag
<1>10. CASE PublishReleased(o)
  <2>1. UNCHANGED <<token, jm>> /\ token = Neutral
    BY <1>3, <1>10 DEF PublishReleased, OperationHolds, OperationFenced, jobVars
  <2>2. \A s \in Side : ~jm[s]
    BY <2>1, SideAssumption DEF WizardInv, RunnerOwns
  <2>3. SharedInv'
    <3>1. etag' = 0 => handoff' = NoRecord
      BY <1>10, WriteOrNot DEF PublishReleased, WriteHandoffCAS, WizardInv
    <3> QED BY <2>1, <2>2, <3>1, SideAssumption
            DEF SharedInv, NoDoubleRun, RunnerOwns, ReleasedMeansStopped, TokenMatchesRecord
  <2>4. CASE Finish(o)
    <3>1. op'[o] = Idle /\ \A p \in Op \ {o} : op'[p] = op[p]
      BY <2>4, FinishSlot
    <3> QED BY <1>1, <2>3, <3>1, IdleHoldsNext, SharedStep
  <2>5. CASE Retry(o)
    <3>1. /\ op'[o] = Idle \/ op'[o].pc = "reread"
          /\ \A p \in Op \ {o} : op'[p] = op[p]
      BY <1>1, <2>5, RetrySlot
    <3>2. OperationHolds(o)'
      <4>1. CASE op'[o].pc = "reread"
        BY <2>1, <4>1 DEF OperationHolds, OperationFenced
      <4> QED BY <3>1, <4>1, IdleHoldsNext
    <3> QED BY <1>1, <2>3, <3>1, <3>2, SharedStep
  <2> QED BY <1>10, <2>4, <2>5 DEF PublishReleased
<1> QED BY <1>5, <1>6, <1>7, <1>8, <1>9, <1>10 DEF ReleaseStep

(* A plain Promote.  It starts from a released record, so nobody runs      *)
(* until its own token is written.                                         *)
LEMMA PromoteWizard ==
    ASSUME Wizard, TypeOK, WizardInv, NEW o \in Op, PromoteStep(o)
    PROVE  WizardInv'
<1>1. op[o] \in Operation /\ op[o].pc # "idle"
  <2>1. op[o].pc # "idle"
    BY DEF PromoteStep, ReadAndPick, RefusePromote, CASHandoff, TokenToSelf, StartLocal
  <2> QED BY <2>1, RunningOperation
<1>2. Me(o) \in Side
  BY <1>1 DEF Me, Operation
<1>3. OperationHolds(o)
  BY DEF WizardInv
<1>4. CASE Finish(o) /\ UNCHANGED <<token, handoff, etag, jm>>
  <2>1. op'[o] = Idle /\ \A p \in Op \ {o} : op'[p] = op[p]
    BY <1>4, FinishSlot
  <2> QED BY <1>1, <1>4, <2>1, IdleHoldsNext, LocalStep
<1>5. CASE ReadAndPick(o)
  <2>1. PICK r \in PromoteReads :
          /\ GateOpen(op[o].force, r.rec)
          /\ \E p \in PickRecoveryPoint(r.rec) :
                op' = [op EXCEPT ![o] = [op[o] EXCEPT !.pc = "cas", !.rec = r.rec,
                                                      !.etag = r.etag, !.point = p]]
    BY <1>5 DEF ReadAndPick
  <2>2. PICK p \in PickRecoveryPoint(r.rec) :
          op' = [op EXCEPT ![o] = [op[o] EXCEPT !.pc = "cas", !.rec = r.rec,
                                                !.etag = r.etag, !.point = p]]
    BY <2>1
  <2>3. /\ op'[o] = [op[o] EXCEPT !.pc = "cas", !.rec = r.rec, !.etag = r.etag, !.point = p]
        /\ \A q \in Op \ {o} : op'[q] = op[q]
    BY <2>2, OneSlot
  <2>4. op'[o].pc = "cas"
    BY <1>1, <2>3 DEF Operation
  <2>5. UNCHANGED <<token, handoff, etag, jm>>
    BY <1>5 DEF ReadAndPick, coordVars, jobVars
  <2>6. handoff.phase = "released"
    <3>1. r.rec.phase = "released"
      BY <1>3, <1>5, <2>1 DEF OperationHolds, OperationFenced, ReadAndPick, GateOpen
    <3> QED BY <3>1 DEF PromoteReads, ReadHandoffWithETag, EmptyRead, NoRecord
  <2>7. OperationHolds(o)'
    BY <2>4, <2>5, <2>6 DEF OperationHolds, OperationFenced
  <2> QED BY <1>1, <2>3, <2>5, <2>7, LocalStep
<1>6. CASE RefusePromote(o)
  BY <1>4, <1>6 DEF RefusePromote, coordVars, jobVars
<1>7. CASE CASHandoff(o)
  <2>1. token = Neutral /\ \A s \in Side : ~jm[s]
    BY <1>3, <1>7 DEF CASHandoff, OperationHolds, OperationFenced, WizardInv, ReleasedMeansStopped
  <2>2. UNCHANGED <<token, jm>>
    BY <1>7 DEF CASHandoff, jobVars
  <2>3. SharedInv'
    <3>1. etag' = 0 => handoff' = NoRecord
      BY <1>7, WriteOrNot DEF CASHandoff, WriteHandoffCAS, WizardInv
    <3> QED BY <2>1, <2>2, <3>1, SideAssumption
            DEF SharedInv, NoDoubleRun, RunnerOwns, ReleasedMeansStopped, TokenMatchesRecord
  <2>4. CASE Finish(o)
    <3>1. op'[o] = Idle /\ \A p \in Op \ {o} : op'[p] = op[p]
      BY <2>4, FinishSlot
    <3> QED BY <1>1, <2>3, <3>1, IdleHoldsNext, SharedStep
  <2>5. CASE WriteHandoffCAS(PromotedRecord(o), op[o].etag) /\ Goto(o, "token")
    <3>1. /\ op'[o].pc = "token" /\ op'[o].side = op[o].side
          /\ \A p \in Op \ {o} : op'[p] = op[p]
      BY <1>1, <2>5, GotoSlot DEF PC, PromotePC
    <3>2. handoff'.active = Me(o) /\ handoff'.phase = "stable"
      BY <2>5 DEF WriteHandoffCAS, WriteHandoff, PromotedRecord
    <3>3. OperationHolds(o)'
      BY <2>1, <2>2, <3>1, <3>2 DEF OperationHolds, OperationFenced, Me
    <3> QED BY <1>1, <2>3, <3>1, <3>3, SharedStep
  <2> QED BY <1>7, <2>4, <2>5 DEF CASHandoff
<1>8. CASE TokenToSelf(o)
  <2>1. /\ UNCHANGED <<handoff, etag, jm>> /\ token' \in {token, Me(o)} /\ token = Neutral
        /\ handoff.active = Me(o) /\ handoff.phase = "stable"
    BY <1>3, <1>8 DEF TokenToSelf, WriteToken, OperationHolds, OperationFenced, jobVars
  <2>2. \A s \in Side : ~jm[s]
    BY <2>1, SideAssumption DEF WizardInv, RunnerOwns
  <2>3. SharedInv'
    BY <1>2, <2>1, <2>2, SideAssumption
       DEF WizardInv, SharedInv, NoDoubleRun, RunnerOwns, ReleasedMeansStopped,
           TokenMatchesRecord
  <2>4. CASE Finish(o)
    <3>1. op'[o] = Idle /\ \A p \in Op \ {o} : op'[p] = op[p]
      BY <2>4, FinishSlot
    <3> QED BY <1>1, <2>3, <3>1, IdleHoldsNext, SharedStep
  <2>5. CASE Goto(o, "start")
    <3>1. op'[o].pc = "start" /\ \A p \in Op \ {o} : op'[p] = op[p]
      BY <1>1, <2>5, GotoSlot DEF PC, PromotePC
    <3>2. OperationHolds(o)'
      BY <3>1 DEF OperationHolds, OperationFenced
    <3> QED BY <1>1, <2>3, <3>1, <3>2, SharedStep
  <2> QED BY <1>8, <2>4, <2>5 DEF TokenToSelf
<1>9. CASE StartLocal(o)
  BY <1>4, <1>9 DEF StartLocal, coordVars
<1> QED BY <1>5, <1>6, <1>7, <1>8, <1>9 DEF PromoteStep

(* A Claim by the side that runs, before the first token.                  *)
LEMMA ClaimWizard ==
    ASSUME Wizard, TypeOK, WizardInv, NEW o \in Op, ClaimStep(o)
    PROVE  WizardInv'
<1>1. op[o] \in Operation /\ op[o].pc # "idle"
  <2>1. op[o].pc # "idle"
    BY DEF ClaimStep, ClaimToken, ClaimRead, ClaimWrite
  <2> QED BY <2>1, RunningOperation
<1>2. Me(o) \in Side
  BY <1>1 DEF Me, Operation
<1>3. OperationHolds(o)
  BY DEF WizardInv
<1>4. CASE ClaimToken(o)
  <2>1. /\ UNCHANGED <<handoff, etag, jm>> /\ token' \in {token, Me(o)}
        /\ token = NoOne /\ OnlyRuns(Me(o)) /\ etag = 0
    BY <1>3, <1>4
       DEF ClaimToken, WriteToken, OperationHolds, OperationFenced, jobVars, WizardInv, TokenMatchesRecord
  <2>2. handoff.phase # "released"
    BY <2>1, SideAssumption DEF WizardInv, ReleasedMeansStopped
  <2>3. SharedInv'
    BY <1>2, <2>1, <2>2, SideAssumption
       DEF WizardInv, SharedInv, NoDoubleRun, RunnerOwns, ReleasedMeansStopped,
           TokenMatchesRecord, OnlyRuns
  <2>4. CASE Finish(o)
    <3>1. op'[o] = Idle /\ \A p \in Op \ {o} : op'[p] = op[p]
      BY <2>4, FinishSlot
    <3> QED BY <1>1, <2>3, <3>1, IdleHoldsNext, SharedStep
  <2>5. CASE token' = Me(o) /\ Goto(o, "claimread")
    <3>1. /\ op'[o].pc = "claimread" /\ op'[o].side = op[o].side
          /\ \A p \in Op \ {o} : op'[p] = op[p]
      BY <1>1, <2>5, GotoSlot DEF PC, ClaimPC
    <3>2. OperationHolds(o)'
      BY <2>1, <2>5, <3>1 DEF OperationHolds, OperationFenced, Me
    <3> QED BY <1>1, <2>3, <3>1, <3>2, SharedStep
  <2> QED BY <1>4, <2>4, <2>5 DEF ClaimToken, WriteToken
<1>5. CASE ClaimRead(o)
  <2>1. PICK r \in PromoteReads :
          op' = [op EXCEPT ![o] = [op[o] EXCEPT !.pc = "claimwrite", !.rec = r.rec]]
    BY <1>5 DEF ClaimRead
  <2>2. /\ op'[o] = [op[o] EXCEPT !.pc = "claimwrite", !.rec = r.rec]
        /\ \A q \in Op \ {o} : op'[q] = op[q]
    BY <2>1, OneSlot
  <2>3. op'[o].pc = "claimwrite" /\ op'[o].side = op[o].side /\ op'[o].rec = r.rec
    BY <1>1, <2>2 DEF Operation
  <2>4. UNCHANGED <<token, handoff, etag, jm>>
    BY <1>5 DEF ClaimRead, coordVars, jobVars
  <2>5. r.rec = NoRecord
    BY <1>3, <1>5 DEF OperationHolds, OperationFenced, ClaimRead, WizardInv,
          TokenMatchesRecord, PromoteReads, ReadHandoffWithETag, EmptyRead
  <2>6. OperationHolds(o)'
    BY <1>3, <1>5, <2>3, <2>4, <2>5 DEF OperationHolds, OperationFenced, ClaimRead, Me
  <2> QED BY <1>1, <2>2, <2>4, <2>6, LocalStep
<1>6. CASE ClaimWrite(o)
  <2>1. UNCHANGED <<token, jm>> /\ token = Me(o)
    BY <1>3, <1>6 DEF ClaimWrite, OperationHolds, OperationFenced, jobVars
  <2>2. op'[o] = Idle /\ \A p \in Op \ {o} : op'[p] = op[p]
    BY <1>6, FinishSlot DEF ClaimWrite
  <2>3. SharedInv'
    <3>1. CASE WriteHandoff(ClaimedRecord(o))
      <4>1. handoff'.active = Me(o) /\ handoff'.phase = "stable"
        BY <3>1 DEF WriteHandoff, ClaimedRecord
      <4>2. \A s \in Side : jm[s] => s = Me(o)
        BY <1>2, <2>1, SideAssumption DEF WizardInv, RunnerOwns
      <4>3. etag' = 0 => handoff' = NoRecord
        BY <3>1, WriteOrNot DEF WizardInv
      <4> QED BY <1>2, <2>1, <4>1, <4>2, <4>3, SideAssumption
              DEF SharedInv, NoDoubleRun, RunnerOwns, ReleasedMeansStopped,
                  TokenMatchesRecord
    <3>2. CASE UNCHANGED <<handoff, etag>>
      BY <2>1, <3>2, SharedFrame DEF WizardInv, SharedInv
    <3> QED BY <1>6, <3>1, <3>2 DEF ClaimWrite
  <2> QED BY <1>1, <2>2, <2>3, IdleHoldsNext, SharedStep
<1> QED BY <1>4, <1>5, <1>6 DEF ClaimStep

(* The Jobs page, the cluster and the faults.                              *)
LEMMA EnvironmentWizard ==
    ASSUME Wizard, TypeOK, WizardInv, NEW s \in Side, Environment(s)
    PROVE  WizardInv'
<1>1. SharedInv /\ OneAtATime /\ \A o \in Op : OperationHolds(o)
  BY DEF WizardInv, SharedInv
<1>2. CASE Suspend(s) \/ Resume(s)
  <2>1. /\ UNCHANGED <<token, handoff, etag, jm, op>>
        /\ \A o \in Op : op[o] = Idle
    BY <1>2 DEF Suspend, Resume, JobsPage, coordVars, Quiet, Running
  <2>2. SharedInv'
    BY <1>1, <2>1, SharedFrame
  <2>3. \A o \in Op : OperationHolds(o)'
    BY <2>1, IdleHoldsNext
  <2> QED BY <1>1, <2>1, <2>2, <2>3 DEF WizardInv, SharedInv, OneAtATime, Running
<1>3. CASE PodStart(s)
  <2>1. /\ UNCHANGED <<token, handoff, etag, state, op>> /\ token = s
        /\ state[s] = "running" /\ \A t \in Side : jm'[t] => t = s \/ jm[t]
    BY <1>3 DEF PodStart, coordVars, TypeOK
  <2>2. \A t \in Side : jm'[t] => t = s
    BY <1>1, <2>1, SideAssumption DEF SharedInv, RunnerOwns
  <2>3. SharedInv'
    BY <1>1, <2>1, <2>2, SideAssumption
       DEF SharedInv, NoDoubleRun, RunnerOwns, ReleasedMeansStopped, TokenMatchesRecord
  <2>4. ASSUME NEW o \in Op PROVE OperationHolds(o)'
    <3>1. OperationHolds(o)
      BY <1>1
    <3>2. op[o].pc \in {"savepoint", "suspend", "wait", "neutral"} => Me(o) = s
      BY <2>1, <3>1, SideAssumption DEF OperationHolds, OperationFenced
    <3>3. op[o].pc \notin {"wait", "neutral", "claimtoken"}
      BY <2>1, <3>1, <3>2, SideAssumption DEF OperationHolds, OperationFenced
    <3> QED BY <2>1, <2>2, <3>1, <3>2, <3>3 DEF OperationHolds, OperationFenced, OnlyRuns, Me
  <2> QED BY <1>1, <2>1, <2>3, <2>4 DEF WizardInv, SharedInv, OneAtATime, Running
<1>4. CASE PodStop(s) \/ PodLost(s)
  <2>1. /\ UNCHANGED <<token, handoff, etag, state, op>>
        /\ \A t \in Side : jm'[t] => jm[t]
    BY <1>4 DEF PodStop, PodLost, coordVars, TypeOK
  <2>2. SharedInv'
    BY <1>1, <2>1
       DEF SharedInv, NoDoubleRun, RunnerOwns, ReleasedMeansStopped, TokenMatchesRecord
  <2>3. ASSUME NEW o \in Op PROVE OperationHolds(o)'
    <3>1. Me(o) \in Side \/ op[o].pc = "idle"
      BY RunningOperation DEF Me, Operation
    <3>2. OperationHolds(o)
      BY <1>1
    <3> QED BY <2>1, <3>1, <3>2 DEF OperationHolds, OperationFenced, OnlyRuns, Me
  <2> QED BY <1>1, <2>1, <2>2, <2>3 DEF WizardInv, SharedInv, OneAtATime, Running
<1>5. CASE Crash(s)
  <2>1. /\ UNCHANGED <<token, handoff, etag, state, jm>>
        /\ \A o \in Op : op'[o] = op[o] \/ op'[o] = Idle
    BY <1>5 DEF Crash, coordVars, jobVars
  <2>2. SharedInv'
    BY <1>1, <2>1, SharedFrame
  <2>3. ASSUME NEW o \in Op PROVE OperationHolds(o)'
    <3>1. CASE op'[o] = op[o]
      BY <1>1, <2>1, <3>1 DEF OperationHolds, OperationFenced, OnlyRuns, Me
    <3> QED BY <2>1, <3>1, IdleHoldsNext
  <2>4. OneAtATime'
    BY <1>1, <2>1 DEF OneAtATime, Running
  <2> QED BY <2>2, <2>3, <2>4 DEF WizardInv, SharedInv
<1>6. CASE Checkpoint(s)
  <2>1. UNCHANGED <<token, handoff, etag, state, jm, op>>
    BY <1>6 DEF Checkpoint, coordVars
  <2>2. SharedInv'
    BY <1>1, <2>1, SharedFrame
  <2>3. \A o \in Op : OperationHolds(o)'
    BY <1>1, <2>1 DEF OperationHolds, OperationFenced, OnlyRuns, Me
  <2> QED BY <1>1, <2>1, <2>2, <2>3 DEF WizardInv, SharedInv, OneAtATime, Running
<1> QED BY <1>2, <1>3, <1>4, <1>5, <1>6 DEF Environment

LEMMA NextWizard ==
    ASSUME Wizard, ~StopTimesOut, "force" \notin Offered
    PROVE  TypeOK /\ WizardInv /\ [Next]_vars => WizardInv'
<1> SUFFICES ASSUME TypeOK, WizardInv, [Next]_vars PROVE WizardInv'
  OBVIOUS
<1>1. ASSUME NEW o \in Op, Start(o) \/ Step(o) PROVE WizardInv'
  BY <1>1, StartWizard, ReleaseWizard, PromoteWizard, ClaimWizard DEF Step
<1>2. ASSUME NEW s \in Side, Environment(s) PROVE WizardInv'
  BY <1>2, EnvironmentWizard
<1>3. CASE CalmDown \/ UNCHANGED vars
  <2>1. UNCHANGED <<token, handoff, etag, state, jm, op>>
    BY <1>3 DEF CalmDown, vars, coordVars, jobVars
  <2>2. SharedInv'
    BY <2>1, SharedFrame DEF WizardInv, SharedInv
  <2>3. OneAtATime' /\ \A o \in Op : OperationHolds(o)'
    BY <2>1 DEF WizardInv, OneAtATime, Running, OperationHolds, OperationFenced, OnlyRuns, Me
  <2> QED BY <2>2, <2>3 DEF WizardInv, SharedInv
<1> QED BY <1>1, <1>2, <1>3 DEF Next

(* Operators who act one at a time as the page and the manual say and who  *)
(* never force, pods that are gone before StopTimeoutSec: then, whatever   *)
(* fails in S3, Kubernetes, the pods or the consoles, the job never runs   *)
(* twice, who runs is who token and record name, and a released record     *)
(* means that nobody runs and nobody can start.                            *)
THEOREM DocumentedSwitchIsSafe ==
    ASSUME Wizard, ~StopTimesOut, "force" \notin Offered
    PROVE  Spec => [](WizardInv /\ NoDoubleRun /\ RunnerOwns /\ ReleasedMeansStopped)
<1>1. Init => TypeOK /\ WizardInv
  BY InitType, InitWizard
<1>2. TypeOK /\ WizardInv /\ [Next]_vars => (TypeOK /\ WizardInv)'
  BY NextType, NextWizard
<1>3. TypeOK /\ WizardInv => NoDoubleRun /\ RunnerOwns /\ ReleasedMeansStopped
  BY DEF WizardInv
<1> QED BY <1>1, <1>2, <1>3, PTL DEF Spec

-----------------------------------------------------------------------------
(* A documented switch never takes over from a recovery point that is      *)
(* older than the job that ran last.                                       *)

LEMMA IdleCarries ==
    ASSUME NEW o \in Op, op'[o] = Idle
    PROVE  CarriesFresh(o)'
<1>1. op'[o].pc = "idle"
  BY DEF Idle
<1> QED BY <1>1 DEF CarriesFresh, ReleasePC, ClaimPC

(* A step of one operation that writes no record and starts no pod.        *)
LEMMA RecoveryStep ==
    ASSUME RecoveryInv, NEW o \in Op, \A p \in Op \ {o} : op'[p] = op[p],
           UNCHANGED <<handoff, etag, jm, ran, claims>>, CarriesFresh(o)'
    PROVE  RecoveryInv'
<1>1. ASSUME NEW p \in Op \ {o} PROVE CarriesFresh(p)'
  BY <1>1 DEF RecoveryInv, CarriesFresh
<1> QED BY <1>1 DEF RecoveryInv

LEMMA RecoveryFinish ==
    ASSUME TypeOK, RecoveryInv, NEW o \in Op, Finish(o),
           UNCHANGED <<handoff, etag, jm, ran, claims>>
    PROVE  RecoveryInv'
BY FinishSlot, IdleCarries, RecoveryStep

(* A step that writes the record, when nobody runs: only the new record    *)
(* and the operation itself matter.                                        *)
LEMMA RecoveryWrite ==
    ASSUME TypeOK, OneAtATime, NEW o \in Op, op[o].pc # "idle",
           \A p \in Op \ {o} : op'[p] = op[p], etag' = etag + 1,
           claims' # {} => \A s \in Side : ~jm'[s],
           handoff'.phase = "released" => handoff'.point \in {NoPoint, ran'},
           CarriesFresh(o)'
    PROVE  RecoveryInv'
<1>1. ASSUME NEW p \in Op \ {o} PROVE CarriesFresh(p)'
  <2>1. op'[p] = Idle
    BY <1>1, OthersIdle
  <2> QED BY <2>1, IdleCarries
<1>2. etag' # 0
  BY DEF TypeOK, CoordTypeOK
<1> QED BY <1>1, <1>2 DEF RecoveryInv

LEMMA InitRecovery == Init => RecoveryInv
<1> SUFFICES ASSUME Init PROVE RecoveryInv
  OBVIOUS
<1>1. PICK p \in Side : CoordInit(p)
  BY DEF Init
<1>2. handoff.phase # "released"
  <2>1. CASE handoff = NoRecord
    BY <2>1 DEF NoRecord
  <2>2. CASE handoff = [NoRecord EXCEPT !.active = p, !.epoch = 1, !.phase = "stable"]
    BY <2>2 DEF NoRecord
  <2> QED BY <1>1, <2>1, <2>2 DEF CoordInit
<1>3. claims = {} /\ \A o \in Op : op[o].pc = "idle"
  BY DEF Init, Idle
<1> QED BY <1>2, <1>3 DEF RecoveryInv, CarriesFresh, ReleasePC, ClaimPC

(* What the steps do to the point an operation carries.                    *)
LEMMA GotoPoint ==
    ASSUME TypeOK, NEW o \in Op, op[o] \in Operation, NEW pc, Goto(o, pc)
    PROVE  /\ op'[o].pc = pc /\ op'[o].point = op[o].point
           /\ \A p \in Op \ {o} : op'[p] = op[p]
BY DEF TypeOK, Goto, Operation

LEMMA RetryPoint ==
    ASSUME TypeOK, NEW o \in Op, op[o] \in Operation, Retry(o)
    PROVE  /\ \/ op'[o] = Idle
              \/ op'[o].pc = "reread" /\ op'[o].point = op[o].point
           /\ \A p \in Op \ {o} : op'[p] = op[p]
<1>1. CASE op' = [op EXCEPT ![o].pc = "reread", ![o].tries = @ + 1]
  BY <1>1 DEF TypeOK, Operation
<1>2. CASE Finish(o)
  BY <1>2, FinishSlot
<1> QED BY <1>1, <1>2 DEF Retry

LEMMA StartRecovery ==
    ASSUME Wizard, TypeOK, WizardInv, RecoveryInv, NEW o \in Op, Start(o)
    PROVE  RecoveryInv'
<1>1. ASSUME NEW s \in Side, NEW pc \in {"savepoint", "read", "claimtoken"},
             NEW f \in BOOLEAN, Launch(o, Begin(s, pc, f)),
             pc = "claimtoken" => claims = {}
      PROVE  RecoveryInv'
  <2>1. op'[o] = Begin(s, pc, f) /\ \A p \in Op \ {o} : op'[p] = op[p]
    BY <1>1, OneSlot DEF Launch
  <2>2. op'[o].pc = pc
    BY <2>1 DEF Begin
  <2>3. UNCHANGED <<handoff, etag, jm, ran, claims>>
    BY <1>1 DEF Launch, coordVars, jobVars
  <2>4. CarriesFresh(o)'
    BY <1>1, <2>2, <2>3 DEF CarriesFresh, ReleasePC, ClaimPC
  <2> QED BY <2>1, <2>3, <2>4, RecoveryStep
<1>2. token = NoOne => claims = {}
  BY DEF WizardInv, TokenMatchesRecord, RecoveryInv
<1>3. ASSUME NEW s \in Side, Release(o, s) PROVE RecoveryInv'
  BY <1>1, <1>3 DEF Release
<1>4. ASSUME NEW s \in Side, Claim(o, s) PROVE RecoveryInv'
  BY <1>1, <1>2, <1>4 DEF Claim
<1>5. ASSUME NEW s \in Side, NEW f \in BOOLEAN, Promote(o, s, f) PROVE RecoveryInv'
  BY <1>1, <1>5 DEF Promote
<1> QED BY <1>3, <1>4, <1>5 DEF Start

(* A Release carries the point of the job it suspends to the record.       *)
LEMMA ReleaseRecovery ==
    ASSUME Wizard, TypeOK, WizardInv, RecoveryInv, NEW o \in Op, ReleaseStep(o)
    PROVE  RecoveryInv'
<1>1. op[o] \in Operation /\ op[o].pc # "idle"
  <2>1. op[o].pc # "idle"
    BY DEF ReleaseStep, Savepoint, SuspendLocal, WaitStopped, TokenNeutral, ReadForRelease,
           PublishReleased
  <2> QED BY <2>1, RunningOperation
<1>2. Me(o) \in Side
  BY <1>1 DEF Me, Operation
<1>3. OperationHolds(o) /\ OneAtATime /\ CarriesFresh(o)
  BY DEF WizardInv, RecoveryInv
<1>4. ASSUME NEW pc \in {"wait", "neutral", "reread"}, Goto(o, pc),
             UNCHANGED <<handoff, etag, jm, ran, claims>>,
             op[o].pc \in {"suspend", "wait", "neutral"}
      PROVE  RecoveryInv'
  <2>1. /\ op'[o].pc = pc /\ op'[o].point = op[o].point
        /\ \A p \in Op \ {o} : op'[p] = op[p]
    BY <1>1, <1>4, GotoPoint
  <2>2. CarriesFresh(o)'
    BY <1>3, <1>4, <2>1 DEF CarriesFresh, ReleasePC, ClaimPC
  <2> QED BY <1>4, <2>1, <2>2, RecoveryStep
<1>5. CASE Savepoint(o)
  <2>1. PICK p \in {NoPoint} \cup (IF Healthy(Me(o)) THEN {ran} ELSE {}) :
          op' = [op EXCEPT ![o] = [op[o] EXCEPT !.pc = "suspend", !.point = p]]
    BY <1>5 DEF Savepoint
  <2>2. /\ op'[o] = [op[o] EXCEPT !.pc = "suspend", !.point = p]
        /\ \A q \in Op \ {o} : op'[q] = op[q]
    BY <2>1, OneSlot
  <2>3. op'[o].pc = "suspend" /\ op'[o].point = p
    BY <1>1, <2>2 DEF Operation
  <2>4. UNCHANGED <<handoff, etag, jm, ran, claims>>
    BY <1>5 DEF Savepoint, coordVars, jobVars
  <2>5. p # NoPoint => p = ran /\ (claims = {} \/ ran = handoff.epoch)
    BY <1>2, <2>1 DEF Healthy, RecoveryInv
  <2>6. CarriesFresh(o)'
    BY <2>3, <2>4, <2>5 DEF CarriesFresh, ClaimPC
  <2> QED BY <2>2, <2>4, <2>6, RecoveryStep
<1>6. CASE SuspendLocal(o)
  BY <1>4, <1>6, RecoveryFinish DEF SuspendLocal, coordVars
<1>7. CASE WaitStopped(o)
  BY <1>4, <1>7 DEF WaitStopped, coordVars, jobVars
<1>8. CASE TokenNeutral(o)
  BY <1>4, <1>8, RecoveryFinish DEF TokenNeutral, jobVars
<1>9. CASE ReadForRelease(o)
  <2>1. UNCHANGED <<handoff, etag, jm, ran, claims>>
    BY <1>9 DEF ReadForRelease, coordVars, jobVars
  <2>2. CASE op' = [op EXCEPT ![o] =
                      [op[o] EXCEPT !.pc = "publish", !.rec = handoff, !.etag = etag]]
    <3>1. /\ op'[o] = [op[o] EXCEPT !.pc = "publish", !.rec = handoff, !.etag = etag]
          /\ \A q \in Op \ {o} : op'[q] = op[q]
      BY <2>2, OneSlot
    <3>2. /\ op'[o].pc = "publish" /\ op'[o].point = op[o].point
          /\ op'[o].rec = handoff
      BY <1>1, <3>1 DEF Operation
    <3>3. CarriesFresh(o)'
      BY <1>3, <1>9, <2>1, <3>2 DEF CarriesFresh, ReadForRelease, ReleasePC, ClaimPC
    <3> QED BY <2>1, <3>1, <3>3, RecoveryStep
  <2> QED BY <1>9, <2>1, <2>2, RecoveryFinish DEF ReadForRelease, ReadHandoffWithETag
<1>10. CASE PublishReleased(o)
  <2>1. UNCHANGED <<token, jm, ran, claims>> /\ op[o].pc = "publish"
    BY <1>10 DEF PublishReleased, jobVars
  <2>2. \A s \in Side : ~jm[s]
    BY <1>3, <2>1, SideAssumption DEF OperationHolds, OperationFenced, WizardInv, RunnerOwns
  <2>3. op[o].point \in {NoPoint, ran}
    BY <1>3, <2>1 DEF CarriesFresh, ReleasePC
  <2>4. /\ op'[o] = Idle \/ (op'[o].pc = "reread" /\ op'[o].point = op[o].point)
        /\ \A p \in Op \ {o} : op'[p] = op[p]
    <3>1. CASE Finish(o)
      BY <3>1, FinishSlot
    <3>2. CASE Retry(o)
      BY <1>1, <3>2, RetryPoint
    <3> QED BY <1>10, <3>1, <3>2 DEF PublishReleased
  <2>5. CarriesFresh(o)'
    <3>1. CASE op'[o].pc = "reread" /\ op'[o].point = op[o].point
      BY <2>1, <2>3, <3>1 DEF CarriesFresh, ClaimPC
    <3> QED BY <2>4, <3>1, IdleCarries
  <2>6. CASE WriteHandoffCAS(ReleasedRecord(o), op[o].etag)
    <3>1. etag' = etag + 1 /\ handoff' = ReleasedRecord(o)
      BY <2>6 DEF WriteHandoffCAS, WriteHandoff
    <3>2. handoff'.point = op[o].point
      BY <1>1, <3>1 DEF ReleasedRecord, Operation, HandoffRecord
    <3> QED BY <1>1, <1>3, <2>1, <2>2, <2>3, <2>4, <2>5, <3>1, <3>2, RecoveryWrite
  <2>7. CASE UNCHANGED <<handoff, etag>>
    BY <2>1, <2>4, <2>5, <2>7, RecoveryStep
  <2> QED BY <1>10, <2>6, <2>7 DEF PublishReleased
<1> QED BY <1>5, <1>6, <1>7, <1>8, <1>9, <1>10 DEF ReleaseStep

(* A plain Promote that goes on has seen the record, and that it is a      *)
(* released one.                                                           *)
LEMMA PickReadsRecord ==
    ASSUME TypeOK, WizardInv, NEW o \in Op, ReadAndPick(o)
    PROVE  /\ handoff.phase = "released"
           /\ op'[o].pc = "cas" /\ op'[o].rec = handoff
           /\ op'[o].point \in PickRecoveryPoint(handoff)
           /\ \A p \in Op \ {o} : op'[p] = op[p]
<1>1. op[o] \in Operation /\ ~op[o].force
  <2>1. op[o].pc = "read" /\ OperationHolds(o)
    BY DEF ReadAndPick, WizardInv
  <2> QED BY <2>1, RunningOperation DEF OperationHolds, OperationFenced
<1>2. PICK r \in PromoteReads :
        /\ GateOpen(op[o].force, r.rec)
        /\ \E p \in PickRecoveryPoint(r.rec) :
              op' = [op EXCEPT ![o] = [op[o] EXCEPT !.pc = "cas", !.rec = r.rec,
                                                    !.etag = r.etag, !.point = p]]
  BY DEF ReadAndPick
<1>3. PICK p \in PickRecoveryPoint(r.rec) :
        op' = [op EXCEPT ![o] = [op[o] EXCEPT !.pc = "cas", !.rec = r.rec,
                                              !.etag = r.etag, !.point = p]]
  BY <1>2
<1>4. /\ op'[o] = [op[o] EXCEPT !.pc = "cas", !.rec = r.rec, !.etag = r.etag, !.point = p]
      /\ \A q \in Op \ {o} : op'[q] = op[q]
  BY <1>3, OneSlot
<1>5. op'[o].pc = "cas" /\ op'[o].rec = r.rec /\ op'[o].point = p
  BY <1>1, <1>4 DEF Operation
<1>6. r.rec = handoff /\ handoff.phase = "released"
  BY <1>1, <1>2 DEF GateOpen, PromoteReads, ReadHandoffWithETag, EmptyRead, NoRecord
<1> QED BY <1>3, <1>4, <1>5, <1>6

(* A plain Promote claims the record while nobody runs.                    *)
LEMMA PromoteRecovery ==
    ASSUME Wizard, TypeOK, WizardInv, RecoveryInv, NEW o \in Op, PromoteStep(o)
    PROVE  RecoveryInv'
<1>1. op[o] \in Operation /\ op[o].pc # "idle"
  <2>1. op[o].pc # "idle"
    BY DEF PromoteStep, ReadAndPick, RefusePromote, CASHandoff, TokenToSelf, StartLocal
  <2> QED BY <2>1, RunningOperation
<1>2. OperationHolds(o) /\ OneAtATime
  BY DEF WizardInv
<1>3. CASE ReadAndPick(o)
  <2>1. op'[o].pc = "cas" /\ op'[o].rec = handoff /\ \A p \in Op \ {o} : op'[p] = op[p]
    BY <1>3, PickReadsRecord
  <2>2. UNCHANGED <<handoff, etag, jm, ran, claims>>
    BY <1>3 DEF ReadAndPick, coordVars, jobVars
  <2>3. CarriesFresh(o)'
    BY <2>1, <2>2 DEF CarriesFresh, ReleasePC, ClaimPC
  <2> QED BY <2>1, <2>2, <2>3, RecoveryStep
<1>4. CASE RefusePromote(o)
  BY <1>4, RecoveryFinish DEF RefusePromote, coordVars, jobVars
<1>5. CASE CASHandoff(o)
  <2>1. UNCHANGED <<jm, ran>> /\ \A s \in Side : ~jm[s]
    BY <1>2, <1>5 DEF CASHandoff, OperationHolds, OperationFenced, WizardInv, ReleasedMeansStopped, jobVars
  <2>2. CASE WriteHandoffCAS(PromotedRecord(o), op[o].etag) /\ (Goto(o, "token") \/ Finish(o))
    <3>1. etag' = etag + 1 /\ handoff'.phase = "stable"
      BY <2>2 DEF WriteHandoffCAS, WriteHandoff, PromotedRecord
    <3>2. /\ op'[o].pc \in {"token", "idle"}
          /\ \A p \in Op \ {o} : op'[p] = op[p]
      BY <1>1, <2>2, GotoPoint, FinishSlot
    <3>3. CarriesFresh(o)'
      BY <3>2 DEF CarriesFresh, ReleasePC, ClaimPC
    <3> QED BY <1>1, <1>2, <2>1, <3>1, <3>2, <3>3, RecoveryWrite
  <2>3. CASE Finish(o) /\ UNCHANGED <<handoff, etag, claims>>
    BY <2>1, <2>3, RecoveryFinish
  <2> QED BY <1>5, <2>2, <2>3 DEF CASHandoff
<1>6. CASE TokenToSelf(o)
  <2>1. UNCHANGED <<handoff, etag, jm, ran, claims>>
    BY <1>6 DEF TokenToSelf, jobVars
  <2>2. CASE Goto(o, "start")
    <3>1. op'[o].pc = "start" /\ \A p \in Op \ {o} : op'[p] = op[p]
      BY <1>1, <2>2, GotoPoint
    <3>2. CarriesFresh(o)'
      BY <3>1 DEF CarriesFresh, ReleasePC, ClaimPC
    <3> QED BY <2>1, <3>1, <3>2, RecoveryStep
  <2> QED BY <1>6, <2>1, <2>2, RecoveryFinish DEF TokenToSelf
<1>7. CASE StartLocal(o)
  BY <1>7, RecoveryFinish DEF StartLocal, coordVars
<1> QED BY <1>3, <1>4, <1>5, <1>6, <1>7 DEF PromoteStep

LEMMA ClaimRecovery ==
    ASSUME Wizard, TypeOK, WizardInv, RecoveryInv, NEW o \in Op, ClaimStep(o)
    PROVE  RecoveryInv'
<1>1. op[o] \in Operation /\ op[o].pc \in ClaimPC
  <2>1. op[o].pc \in ClaimPC
    BY DEF ClaimStep, ClaimToken, ClaimRead, ClaimWrite, ClaimPC
  <2>2. op[o].pc # "idle"
    BY <2>1 DEF ClaimPC
  <2> QED BY <2>1, <2>2, RunningOperation
<1>2. claims = {} /\ UNCHANGED <<jm, ran, claims>> /\ OneAtATime
  BY <1>1 DEF RecoveryInv, CarriesFresh, ClaimStep, ClaimToken, ClaimRead, ClaimWrite,
              jobVars, WizardInv
<1>3. ASSUME NEW pc \in ClaimPC, op'[o].pc = pc, \A p \in Op \ {o} : op'[p] = op[p],
             UNCHANGED <<handoff, etag>>
      PROVE  RecoveryInv'
  <2>1. CarriesFresh(o)'
    BY <1>2, <1>3 DEF CarriesFresh, ClaimPC, ReleasePC
  <2> QED BY <1>2, <1>3, <2>1, RecoveryStep
<1>4. CASE ClaimToken(o)
  <2>1. CASE Goto(o, "claimread")
    BY <1>1, <1>3, <1>4, <2>1, GotoPoint DEF ClaimToken, ClaimPC
  <2> QED BY <1>2, <1>4, <2>1, RecoveryFinish DEF ClaimToken
<1>5. CASE ClaimRead(o)
  <2>1. PICK t : t.pc = "claimwrite" /\ op' = [op EXCEPT ![o] = t]
    BY <1>1, <1>5 DEF ClaimRead, Operation
  <2>2. op'[o].pc = "claimwrite" /\ \A p \in Op \ {o} : op'[p] = op[p]
    BY <2>1, OneSlot
  <2> QED BY <1>3, <1>5, <2>2 DEF ClaimRead, coordVars, ClaimPC
<1>6. CASE ClaimWrite(o)
  <2>1. op'[o] = Idle /\ \A p \in Op \ {o} : op'[p] = op[p]
    BY <1>6, FinishSlot DEF ClaimWrite
  <2>2. CASE WriteHandoff(ClaimedRecord(o))
    <3>1. etag' = etag + 1 /\ handoff'.phase = "stable"
      BY <2>2 DEF WriteHandoff, ClaimedRecord
    <3> QED BY <1>1, <1>2, <2>1, <3>1, IdleCarries, RecoveryWrite DEF ClaimPC
  <2> QED BY <1>2, <1>6, <2>2, RecoveryFinish DEF ClaimWrite
<1> QED BY <1>4, <1>5, <1>6 DEF ClaimStep

(* A pod that starts between a Release's steps is the job the Release has  *)
(* taken its point of.                                                     *)
LEMMA EnvironmentRecovery ==
    ASSUME Wizard, TypeOK, WizardInv, RecoveryInv, NEW s \in Side, Environment(s)
    PROVE  RecoveryInv'
<1>1. \A o \in Op : CarriesFresh(o) /\ OperationHolds(o)
  BY DEF RecoveryInv, WizardInv
<1>2. CASE PodStart(s)
  <2>1. /\ UNCHANGED <<token, handoff, etag, op, claims>> /\ token = s
        /\ ran' = IF claims = {} THEN ran ELSE handoff.epoch
    BY <1>2 DEF PodStart, coordVars
  <2>2. handoff.phase # "released"
    BY <2>1, SideAssumption DEF WizardInv, ReleasedMeansStopped
  <2>3. ASSUME NEW o \in Op PROVE CarriesFresh(o)'
    <3>1. op[o].pc \notin {"reread", "publish"}
      BY <1>1, <2>1, SideAssumption DEF OperationHolds, OperationFenced
    <3> QED BY <1>1, <2>1, <3>1 DEF CarriesFresh, ReleasePC
  <2> QED BY <2>1, <2>2, <2>3 DEF RecoveryInv
<1>3. CASE PodStop(s) \/ PodLost(s)
  <2>1. /\ UNCHANGED <<handoff, etag, op, ran, claims>>
        /\ \A t \in Side : jm'[t] => jm[t]
    BY <1>3 DEF PodStop, PodLost, coordVars, TypeOK
  <2>2. \A o \in Op : CarriesFresh(o)'
    BY <1>1, <2>1 DEF CarriesFresh
  <2> QED BY <2>1, <2>2 DEF RecoveryInv
<1>4. CASE Suspend(s) \/ Resume(s)
  <2>1. UNCHANGED <<handoff, etag, jm, op, ran, claims>>
    BY <1>4 DEF Suspend, Resume, JobsPage, coordVars
  <2>2. \A o \in Op : CarriesFresh(o)'
    BY <1>1, <2>1 DEF CarriesFresh
  <2> QED BY <2>1, <2>2 DEF RecoveryInv
<1>5. CASE Crash(s)
  <2>1. /\ UNCHANGED <<handoff, etag, jm, ran, claims>>
        /\ \A o \in Op : op'[o] = op[o] \/ op'[o] = Idle
    BY <1>5 DEF Crash, coordVars, jobVars
  <2>2. ASSUME NEW o \in Op PROVE CarriesFresh(o)'
    <3>1. CASE op'[o] = op[o]
      BY <1>1, <2>1, <3>1 DEF CarriesFresh
    <3> QED BY <2>1, <3>1, IdleCarries
  <2> QED BY <2>1, <2>2 DEF RecoveryInv
<1>6. CASE Checkpoint(s)
  <2>1. UNCHANGED <<handoff, etag, jm, op, ran, claims>>
    BY <1>6 DEF Checkpoint, coordVars
  <2>2. \A o \in Op : CarriesFresh(o)'
    BY <1>1, <2>1 DEF CarriesFresh
  <2> QED BY <2>1, <2>2 DEF RecoveryInv
<1> QED BY <1>2, <1>3, <1>4, <1>5, <1>6 DEF Environment

LEMMA NextRecovery ==
    ASSUME Wizard, TypeOK, WizardInv, RecoveryInv, [Next]_vars
    PROVE  RecoveryInv'
<1>1. ASSUME NEW o \in Op, Start(o) \/ Step(o) PROVE RecoveryInv'
  BY <1>1, StartRecovery, ReleaseRecovery, PromoteRecovery, ClaimRecovery DEF Step
<1>2. ASSUME NEW s \in Side, Environment(s) PROVE RecoveryInv'
  BY <1>2, EnvironmentRecovery
<1>3. CASE CalmDown \/ UNCHANGED vars
  <2>1. UNCHANGED <<handoff, etag, jm, op, ran, claims>>
    BY <1>3 DEF CalmDown, vars, coordVars, jobVars
  <2>2. \A o \in Op : CarriesFresh(o)'
    BY <2>1 DEF RecoveryInv, CarriesFresh
  <2> QED BY <2>1, <2>2 DEF RecoveryInv
<1> QED BY <1>1, <1>2, <1>3 DEF Next

(* The bucket never holds anything of a job to come.                       *)
LEMMA InitBucket == Init => BucketInv
<1> SUFFICES ASSUME Init PROVE BucketInv
  OBVIOUS
<1>1. handoff.epoch \in Nat
  BY InitType DEF TypeOK, CoordTypeOK, HandoffRecord
<1> QED BY <1>1 DEF Init, BucketInv, NoPoint

LEMMA NextBucket ==
    ASSUME TypeOK, WizardInv, RecoveryInv, BucketInv, [Next]_vars
    PROVE  BucketInv'
<1>1. handoff.epoch \in Nat /\ ran \in Nat /\ bucket \in [checkpoint : Point, savepoint : Point]
  BY DEF TypeOK, CoordTypeOK, HandoffRecord
<1>2. CASE UNCHANGED <<ran, bucket>> /\ handoff'.epoch \in Nat /\ handoff'.epoch >= handoff.epoch
  BY <1>1, <1>2 DEF BucketInv, Point, NoPoint
<1>3. CASE UNCHANGED <<ran, bucket, handoff>>
  BY <1>3 DEF BucketInv
<1>4. ASSUME NEW o \in Op, Savepoint(o) PROVE BucketInv'
  <2>1. UNCHANGED <<ran, handoff>> /\ bucket' \in {bucket, [bucket EXCEPT !.savepoint = ran]}
    BY <1>4 DEF Savepoint, coordVars
  <2> QED BY <1>1, <2>1 DEF BucketInv
<1>5. ASSUME NEW o \in Op, PublishReleased(o) PROVE BucketInv'
  <2>1. op[o] \in Operation /\ op[o].pc = "publish" /\ UNCHANGED <<ran, bucket>>
    BY <1>5, RunningOperation DEF PublishReleased, jobVars
  <2>2. op[o].rec.epoch = handoff.epoch
    BY <2>1 DEF RecoveryInv, CarriesFresh
  <2>3. handoff' = handoff \/ handoff' = ReleasedRecord(o)
    BY <1>5 DEF PublishReleased, WriteHandoffCAS, WriteHandoff
  <2>4. ReleasedRecord(o).epoch = handoff.epoch
    BY <2>1, <2>2 DEF ReleasedRecord, Operation, HandoffRecord
  <2> QED BY <1>1, <1>2, <2>1, <2>3, <2>4
<1>6. ASSUME NEW o \in Op, CASHandoff(o) PROVE BucketInv'
  <2>1. op[o].pc = "cas" /\ UNCHANGED <<ran, bucket>>
    BY <1>6 DEF CASHandoff, jobVars
  <2>2. op[o].rec.epoch = handoff.epoch
    BY <2>1 DEF RecoveryInv, CarriesFresh
  <2>3. handoff' = handoff \/ handoff' = PromotedRecord(o)
    BY <1>6 DEF CASHandoff, WriteHandoffCAS, WriteHandoff
  <2>4. PromotedRecord(o).epoch = handoff.epoch + 1
    BY <2>2 DEF PromotedRecord
  <2> QED BY <1>1, <1>2, <2>1, <2>3, <2>4
<1>7. ASSUME NEW o \in Op, ClaimWrite(o) PROVE BucketInv'
  <2>1. /\ op[o] \in Operation /\ op[o].pc = "claimwrite" /\ UNCHANGED <<ran, bucket>>
        /\ OperationFenced(o)
    BY <1>7, RunningOperation DEF ClaimWrite, jobVars, WizardInv, OperationHolds
  <2>2. handoff.epoch = 0
    BY <2>1 DEF OperationFenced, WizardInv, TokenMatchesRecord, NoRecord
  <2>3. handoff' = handoff \/ handoff' = ClaimedRecord(o)
    BY <1>7 DEF ClaimWrite, WriteHandoff
  <2>4. ClaimedRecord(o).epoch \in Nat
    BY <2>1, ClaimedRecordType DEF HandoffRecord
  <2> QED BY <1>1, <1>2, <2>1, <2>2, <2>3, <2>4
<1>8. ASSUME NEW o \in Op,
             Start(o) \/ SuspendLocal(o) \/ WaitStopped(o) \/ TokenNeutral(o)
                \/ ReadForRelease(o) \/ ReadAndPick(o) \/ RefusePromote(o) \/ TokenToSelf(o)
                \/ StartLocal(o) \/ ClaimToken(o) \/ ClaimRead(o)
      PROVE  BucketInv'
  <2>1. UNCHANGED <<ran, bucket, handoff>>
    BY <1>8 DEF Start, Release, Promote, Claim, Launch, SuspendLocal, WaitStopped,
          TokenNeutral, ReadForRelease, ReadAndPick, RefusePromote, TokenToSelf, StartLocal,
          ClaimToken, ClaimRead, coordVars, jobVars
  <2> QED BY <1>3, <2>1
<1>9. ASSUME NEW s \in Side, PodStart(s) PROVE BucketInv'
  <2>1. UNCHANGED <<handoff, bucket>> /\ ran' \in {ran, handoff.epoch}
    BY <1>9 DEF PodStart, coordVars
  <2> QED BY <1>1, <2>1 DEF BucketInv, Point, NoPoint
<1>10. ASSUME NEW s \in Side, Checkpoint(s) PROVE BucketInv'
  <2>1. UNCHANGED <<ran, handoff>> /\ bucket' = [bucket EXCEPT !.checkpoint = ran]
    BY <1>10 DEF Checkpoint, coordVars
  <2> QED BY <1>1, <2>1 DEF BucketInv
<1>11. ASSUME NEW s \in Side, Environment(s) PROVE BucketInv'
  <2>1. PodStart(s) \/ Checkpoint(s) \/ UNCHANGED <<ran, bucket, handoff>>
    BY <1>11 DEF Environment, Suspend, Resume, JobsPage, PodStop, PodLost, Crash, coordVars,
          jobVars
  <2> QED BY <1>3, <1>9, <1>10, <2>1
<1>12. CASE CalmDown \/ UNCHANGED vars
  BY <1>3, <1>12 DEF CalmDown, vars, coordVars, jobVars
<1> QED BY <1>4, <1>5, <1>6, <1>7, <1>8, <1>11, <1>12
        DEF Next, Step, ReleaseStep, PromoteStep, ClaimStep

(* A plain Promote picks the point of the release it answers, which is of  *)
(* the job that ran last; without one, the newest checkpoint or something  *)
(* newer.                                                                  *)
LEMMA PickIsFresh ==
    ASSUME TypeOK, WizardInv, RecoveryInv, BucketInv, NEW o \in Op, ReadAndPick(o)
    PROVE  /\ handoff.point # NoPoint => op'[o].point = ran
           /\ op'[o].point # NoPoint => op'[o].point \in bucket.checkpoint .. ran
<1>1. handoff.phase = "released" /\ op'[o].point \in PickRecoveryPoint(handoff)
  BY PickReadsRecord
<1>2. handoff.point \in {NoPoint, ran}
  BY <1>1 DEF RecoveryInv
<1>3. ran \in Nat /\ bucket.checkpoint \in Point /\ bucket.savepoint \in Point
  BY DEF TypeOK
<1>4. CASE handoff.point # NoPoint
  BY <1>1, <1>2, <1>3, <1>4 DEF PickRecoveryPoint, BucketInv, Point, NoPoint
<1>5. CASE handoff.point = NoPoint
  <2>1. op'[o].point \in {NoPoint, Listed}
    BY <1>1, <1>5 DEF PickRecoveryPoint
  <2>2. Listed # NoPoint => Listed \in bucket.checkpoint .. ran
    BY <1>3 DEF Listed, BucketInv, Point, NoPoint
  <2> QED BY <1>5, <2>1, <2>2
<1> QED BY <1>4, <1>5

(* Under the assumptions of DocumentedSwitchIsSafe, a take-over restores   *)
(* what the release it answers has left of the last job, wherever earlier  *)
(* Releases and Promotes were cut short; a release without a recovery      *)
(* point leaves it with the newest checkpoint, at worst.                   *)
THEOREM RecoveryIsFresh ==
    ASSUME Wizard, ~StopTimesOut, "force" \notin Offered
    PROVE  Spec => [](RecoveryInv /\ BucketInv) /\ FreshRecovery
<1>1. TypeOK /\ WizardInv /\ RecoveryInv /\ [Next]_vars => RecoveryInv'
  BY NextRecovery
<1>2. TypeOK /\ WizardInv /\ RecoveryInv /\ BucketInv /\ [Next]_vars => BucketInv'
  BY NextBucket
<1>3. TypeOK /\ WizardInv /\ RecoveryInv /\ BucketInv =>
        \A o \in Op : ReadAndPick(o) =>
           /\ handoff.point # NoPoint => op'[o].point = ran
           /\ op'[o].point # NoPoint => op'[o].point \in bucket.checkpoint .. ran
  BY PickIsFresh
<1> QED BY InitRecovery, InitBucket, TypeCorrect, DocumentedSwitchIsSafe, <1>1, <1>2, <1>3, PTL
        DEF Spec, FreshRecovery
=============================================================================
