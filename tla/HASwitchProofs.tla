--------------------------- MODULE HASwitchProofs ---------------------------
(* Proofs about HASwitch for every set of sides and of operation slots.    *)
EXTENDS HASwitch, TLAPS

-----------------------------------------------------------------------------
(* Type correctness.                                                       *)

PC == ReleasePC \cup PromotePC \cup ClaimPC

(* A slot whose pc is not "idle" holds an operation.                       *)
LEMMA RunningOperation ==
    ASSUME TypeOK, NEW o \in Op, op[o].pc # "idle"
    PROVE  op[o] \in Operation
BY DEF TypeOK, Idle

(* The ways in which the actions change a slot keep it well typed.         *)
LEMMA GotoType ==
    ASSUME TypeOK, NEW o \in Op, op[o] \in Operation, NEW pc \in PC, Goto(o, pc)
    PROVE  op' \in [Op -> Operation \cup {Idle}]
BY DEF TypeOK, Goto, Operation, PC

LEMMA UpdateType ==
    ASSUME NEW t \in Operation, NEW pc \in PC, NEW r \in HandoffRecord, NEW e \in Nat,
           NEW p \in Point
    PROVE  /\ [t EXCEPT !.pc = pc, !.point = p] \in Operation
           /\ [t EXCEPT !.pc = pc, !.rec = r] \in Operation
           /\ [t EXCEPT !.pc = pc, !.rec = r, !.etag = e] \in Operation
           /\ [t EXCEPT !.pc = pc, !.rec = r, !.etag = e, !.point = p] \in Operation
BY DEF Operation, PC

LEMMA StoreType ==
    ASSUME TypeOK, NEW o \in Op, NEW t \in Operation, op' = [op EXCEPT ![o] = t]
    PROVE  op' \in [Op -> Operation \cup {Idle}]
BY DEF TypeOK

LEMMA FinishType ==
    ASSUME TypeOK, NEW o \in Op, Finish(o)
    PROVE  op' \in [Op -> Operation \cup {Idle}]
BY DEF TypeOK, Finish

LEMMA RetryType ==
    ASSUME TypeOK, NEW o \in Op, op[o] \in Operation, Retry(o)
    PROVE  op' \in [Op -> Operation \cup {Idle}]
BY DEF TypeOK, Retry, Finish, Operation, Attempts, ReleasePC

LEMMA BeginType ==
    ASSUME SideAssumption, NEW s \in Side, NEW pc \in PC, NEW f \in BOOLEAN
    PROVE  Begin(s, pc, f) \in Operation
BY DEF Begin, Operation, PC, NoRecord, HandoffRecord, Phase, Point, NoPoint, Attempts

LEMMA NoRecordType == NoRecord \in HandoffRecord
BY DEF NoRecord, HandoffRecord, Phase, Point, NoPoint

LEMMA ReleasedRecordType ==
    ASSUME NEW o \in Op, op[o] \in Operation
    PROVE  ReleasedRecord(o) \in HandoffRecord
BY DEF ReleasedRecord, Me, Operation, HandoffRecord, Phase

LEMMA PromotedRecordType ==
    ASSUME NEW o \in Op, op[o] \in Operation
    PROVE  PromotedRecord(o) \in HandoffRecord
BY DEF PromotedRecord, Me, Operation, HandoffRecord, Phase

LEMMA ClaimedRecordType ==
    ASSUME NEW o \in Op, op[o] \in Operation
    PROVE  ClaimedRecord(o) \in HandoffRecord
BY DEF ClaimedRecord, Me, Operation, HandoffRecord, Phase, Point, NoPoint

LEMMA InitType == Init => TypeOK
<1> SUFFICES ASSUME Init PROVE TypeOK
  OBVIOUS
<1>1. PICK p \in Side :
        /\ CoordInit(p)
        /\ state = [s \in Side |-> IF s = p THEN "running" ELSE "suspended"]
        /\ jm = [s \in Side |-> s = p]
  BY DEF Init
<1>2. /\ handoff \in HandoffRecord
      /\ etag \in Nat
      /\ token \in Side \cup {Neutral, NoOne}
  <2>1. [NoRecord EXCEPT !.active = p, !.epoch = 1, !.phase = "stable"] \in HandoffRecord
    BY NoRecordType DEF HandoffRecord, Phase
  <2> QED BY <1>1, <2>1, NoRecordType DEF CoordInit
<1>3. handoff.epoch \in Nat
  BY <1>2 DEF HandoffRecord
<1>4. jm \in [Side -> BOOLEAN] /\ state \in [Side -> {"running", "suspended"}]
  BY <1>1
<1>5. /\ path \in [Side -> Point] /\ op \in [Op -> Operation \cup {Idle}]
      /\ bucket \in [checkpoint : Point, savepoint : Point]
  BY DEF Init, Point, NoPoint
<1> QED BY <1>2, <1>3, <1>4, <1>5 DEF Init, TypeOK, CoordTypeOK

LEMMA NextType == TypeOK /\ [Next]_vars => TypeOK'
<1> SUFFICES ASSUME TypeOK, [Next]_vars PROVE TypeOK'
  OBVIOUS
<1> USE SideAssumption
<1>1. ASSUME NEW o \in Op, Start(o) PROVE TypeOK'
  <2>1. ASSUME NEW s \in Side, NEW pc \in PC, NEW f \in BOOLEAN, Launch(o, Begin(s, pc, f))
        PROVE  TypeOK'
    BY <2>1, BeginType DEF Launch, TypeOK, CoordTypeOK, coordVars, jobVars
  <2>2. ASSUME NEW s \in Side, Release(o, s) PROVE TypeOK'
    BY <2>1, <2>2 DEF Release, PC, ReleasePC
  <2>3. ASSUME NEW s \in Side, Claim(o, s) PROVE TypeOK'
    BY <2>1, <2>3 DEF Claim, PC, ClaimPC
  <2>4. ASSUME NEW s \in Side, NEW f \in BOOLEAN, Promote(o, s, f) PROVE TypeOK'
    BY <2>1, <2>4 DEF Promote, PC, PromotePC
  <2> QED BY <1>1, <2>2, <2>3, <2>4 DEF Start
<1>2. ASSUME NEW o \in Op, Savepoint(o) PROVE TypeOK'
  <2>1. op[o] \in Operation
    BY <1>2, RunningOperation DEF Savepoint
  <2>2. op' \in [Op -> Operation \cup {Idle}]
    <3>1. PICK p \in {NoPoint} \cup (IF Healthy(Me(o)) THEN {ran} ELSE {}) :
            op' = [op EXCEPT ![o] = [op[o] EXCEPT !.pc = "suspend", !.point = p]]
      BY <1>2 DEF Savepoint
    <3>2. p \in Point /\ "suspend" \in PC
      BY DEF Point, TypeOK, PC, ReleasePC
    <3> QED BY <2>1, <3>1, <3>2, NoRecordType, UpdateType, StoreType
  <2>3. bucket' \in [checkpoint : Point, savepoint : Point]
    BY <1>2 DEF Savepoint, TypeOK, Point
  <2> QED BY <1>2, <2>2, <2>3 DEF Savepoint, TypeOK, CoordTypeOK, coordVars
<1>3. ASSUME NEW o \in Op, SuspendLocal(o) PROVE TypeOK'
  <2>1. op[o] \in Operation
    BY <1>3, RunningOperation DEF SuspendLocal
  <2>2. op' \in [Op -> Operation \cup {Idle}]
    BY <1>3, <2>1, GotoType, FinishType DEF SuspendLocal, PC, ReleasePC
  <2> QED BY <1>3, <2>2 DEF SuspendLocal, TypeOK, CoordTypeOK, coordVars
<1>4. ASSUME NEW o \in Op, WaitStopped(o) PROVE TypeOK'
  <2>1. op[o] \in Operation
    BY <1>4, RunningOperation DEF WaitStopped
  <2>2. op' \in [Op -> Operation \cup {Idle}]
    BY <1>4, <2>1, GotoType DEF WaitStopped, PC, ReleasePC
  <2> QED BY <1>4, <2>2 DEF WaitStopped, TypeOK, CoordTypeOK, coordVars, jobVars
<1>5. ASSUME NEW o \in Op, TokenNeutral(o) PROVE TypeOK'
  <2>1. op[o] \in Operation
    BY <1>5, RunningOperation DEF TokenNeutral
  <2>2. op' \in [Op -> Operation \cup {Idle}]
    BY <1>5, <2>1, GotoType, FinishType DEF TokenNeutral, PC, ReleasePC
  <2> QED BY <1>5, <2>2 DEF TokenNeutral, WriteToken, TypeOK, CoordTypeOK, jobVars
<1>6. ASSUME NEW o \in Op, ReadForRelease(o) PROVE TypeOK'
  <2>1. op[o] \in Operation
    BY <1>6, RunningOperation DEF ReadForRelease
  <2>2. op' \in [Op -> Operation \cup {Idle}]
    <3>1. CASE op' = [op EXCEPT ![o] =
                        [op[o] EXCEPT !.pc = "publish", !.rec = handoff, !.etag = etag]]
      <4>1. "publish" \in PC /\ handoff \in HandoffRecord /\ etag \in Nat /\ NoPoint \in Point
        BY DEF PC, ReleasePC, TypeOK, CoordTypeOK, Point
      <4> QED BY <2>1, <3>1, <4>1, UpdateType, StoreType
    <3> QED BY <1>6, <3>1, FinishType DEF ReadForRelease, ReadHandoffWithETag
  <2> QED BY <1>6, <2>2 DEF ReadForRelease, TypeOK, CoordTypeOK, coordVars, jobVars
<1>7. ASSUME NEW o \in Op, PublishReleased(o) PROVE TypeOK'
  <2>1. op[o] \in Operation
    BY <1>7, RunningOperation DEF PublishReleased
  <2>2. op' \in [Op -> Operation \cup {Idle}]
    BY <1>7, <2>1, RetryType, FinishType DEF PublishReleased
  <2>3. handoff' \in HandoffRecord /\ etag' \in Nat
    BY <1>7, <2>1, ReleasedRecordType
       DEF PublishReleased, WriteHandoffCAS, WriteHandoff, TypeOK, CoordTypeOK
  <2> QED BY <1>7, <2>2, <2>3 DEF PublishReleased, TypeOK, CoordTypeOK, jobVars
<1>8. ASSUME NEW o \in Op, ReadAndPick(o) PROVE TypeOK'
  <2>1. op[o] \in Operation
    BY <1>8, RunningOperation DEF ReadAndPick
  <2>2. PICK r \in PromoteReads :
          \E p \in PickRecoveryPoint(r.rec) :
             op' = [op EXCEPT ![o] = [op[o] EXCEPT !.pc = "cas", !.rec = r.rec,
                                                   !.etag = r.etag, !.point = p]]
    BY <1>8 DEF ReadAndPick
  <2>3. r.rec \in HandoffRecord /\ r.etag \in Nat
    BY NoRecordType DEF PromoteReads, ReadHandoffWithETag, EmptyRead, TypeOK, CoordTypeOK
  <2>4. PickRecoveryPoint(r.rec) \subseteq Point
    BY <2>3 DEF PickRecoveryPoint, Listed, HandoffRecord, Point, NoPoint, TypeOK
  <2>5. op' \in [Op -> Operation \cup {Idle}]
    <3>1. PICK p \in PickRecoveryPoint(r.rec) :
            op' = [op EXCEPT ![o] = [op[o] EXCEPT !.pc = "cas", !.rec = r.rec,
                                                  !.etag = r.etag, !.point = p]]
      BY <2>2
    <3>2. p \in Point /\ "cas" \in PC
      BY <2>4 DEF PC, PromotePC
    <3> QED BY <2>1, <2>3, <3>1, <3>2, UpdateType, StoreType
  <2> QED BY <1>8, <2>5 DEF ReadAndPick, TypeOK, CoordTypeOK, coordVars, jobVars
<1>9. ASSUME NEW o \in Op, RefusePromote(o) PROVE TypeOK'
  BY <1>9, FinishType DEF RefusePromote, TypeOK, CoordTypeOK, coordVars, jobVars
<1>10. ASSUME NEW o \in Op, CASHandoff(o) PROVE TypeOK'
  <2>1. op[o] \in Operation
    BY <1>10, RunningOperation DEF CASHandoff
  <2>2. op' \in [Op -> Operation \cup {Idle}]
    BY <1>10, <2>1, GotoType, FinishType DEF CASHandoff, PC, PromotePC
  <2>3. handoff' \in HandoffRecord /\ etag' \in Nat
    BY <1>10, <2>1, PromotedRecordType
       DEF CASHandoff, WriteHandoffCAS, WriteHandoff, TypeOK, CoordTypeOK
  <2>4. Me(o) \in Side /\ PromotedRecord(o).epoch \in Nat
    BY <2>1, PromotedRecordType DEF Me, Operation, HandoffRecord
  <2>5. claims' \subseteq [epoch : Nat, side : Side, etag : Nat]
    BY <1>10, <2>4 DEF CASHandoff, TypeOK, CoordTypeOK
  <2> QED BY <1>10, <2>2, <2>3, <2>5 DEF CASHandoff, TypeOK, CoordTypeOK, jobVars
<1>11. ASSUME NEW o \in Op, TokenToSelf(o) PROVE TypeOK'
  <2>1. op[o] \in Operation
    BY <1>11, RunningOperation DEF TokenToSelf
  <2>2. op' \in [Op -> Operation \cup {Idle}]
    BY <1>11, <2>1, GotoType, FinishType DEF TokenToSelf, PC, PromotePC
  <2>3. Me(o) \in Side
    BY <2>1 DEF Me, Operation
  <2> QED BY <1>11, <2>2, <2>3 DEF TokenToSelf, WriteToken, TypeOK, CoordTypeOK, jobVars
<1>12. ASSUME NEW o \in Op, StartLocal(o) PROVE TypeOK'
  <2>1. op[o] \in Operation
    BY <1>12, RunningOperation DEF StartLocal
  <2>2. op[o].point \in Point
    BY <2>1 DEF Operation
  <2> QED BY <1>12, <2>2, FinishType DEF StartLocal, TypeOK, CoordTypeOK, coordVars
<1>13. ASSUME NEW o \in Op, ClaimToken(o) PROVE TypeOK'
  <2>1. op[o] \in Operation
    BY <1>13, RunningOperation DEF ClaimToken
  <2>2. op' \in [Op -> Operation \cup {Idle}]
    BY <1>13, <2>1, GotoType, FinishType DEF ClaimToken, PC, ClaimPC
  <2>3. Me(o) \in Side
    BY <2>1 DEF Me, Operation
  <2> QED BY <1>13, <2>2, <2>3 DEF ClaimToken, WriteToken, TypeOK, CoordTypeOK, jobVars
<1>14. ASSUME NEW o \in Op, ClaimRead(o) PROVE TypeOK'
  <2>1. op[o] \in Operation
    BY <1>14, RunningOperation DEF ClaimRead
  <2>2. \A r \in PromoteReads : r.rec \in HandoffRecord
    BY NoRecordType DEF PromoteReads, ReadHandoffWithETag, EmptyRead, TypeOK, CoordTypeOK
  <2>3. op' \in [Op -> Operation \cup {Idle}]
    <3>1. PICK r \in PromoteReads :
            op' = [op EXCEPT ![o] = [op[o] EXCEPT !.pc = "claimwrite", !.rec = r.rec]]
      BY <1>14 DEF ClaimRead
    <3>2. "claimwrite" \in PC /\ 0 \in Nat /\ NoPoint \in Point
      BY DEF PC, ClaimPC, Point
    <3> QED BY <2>1, <2>2, <3>1, <3>2, UpdateType, StoreType
  <2> QED BY <1>14, <2>3 DEF ClaimRead, TypeOK, CoordTypeOK, coordVars, jobVars
<1>15. ASSUME NEW o \in Op, ClaimWrite(o) PROVE TypeOK'
  <2>1. op[o] \in Operation
    BY <1>15, RunningOperation DEF ClaimWrite
  <2>2. handoff' \in HandoffRecord /\ etag' \in Nat
    BY <1>15, <2>1, ClaimedRecordType DEF ClaimWrite, WriteHandoff, TypeOK, CoordTypeOK
  <2> QED BY <1>15, <2>2, FinishType DEF ClaimWrite, TypeOK, CoordTypeOK, jobVars
<1>16. ASSUME NEW s \in Side, Environment(s) PROVE TypeOK'
  <2>1. CASE Suspend(s) \/ Resume(s)
    BY <2>1 DEF Suspend, Resume, JobsPage, TypeOK, CoordTypeOK, coordVars
  <2>2. CASE PodStart(s)
    BY <2>2 DEF PodStart, TypeOK, CoordTypeOK, HandoffRecord, coordVars
  <2>3. CASE PodStop(s) \/ PodLost(s)
    BY <2>3 DEF PodStop, PodLost, TypeOK, CoordTypeOK, coordVars
  <2>4. CASE Crash(s)
    BY <2>4 DEF Crash, TypeOK, CoordTypeOK, coordVars, jobVars
  <2>5. CASE Checkpoint(s)
    BY <2>5 DEF Checkpoint, TypeOK, CoordTypeOK, Point, coordVars
  <2> QED BY <1>16, <2>1, <2>2, <2>3, <2>4, <2>5 DEF Environment
<1>17. CASE CalmDown
  BY <1>17 DEF CalmDown, TypeOK, CoordTypeOK, coordVars, jobVars
<1>18. CASE UNCHANGED vars
  BY <1>18 DEF vars, TypeOK, CoordTypeOK
<1> QED
  BY <1>1, <1>2, <1>3, <1>4, <1>5, <1>6, <1>7, <1>8, <1>9, <1>10, <1>11, <1>12, <1>13,
     <1>14, <1>15, <1>16, <1>17, <1>18
     DEF Next, Step, ReleaseStep, PromoteStep, ClaimStep

(* The variables of HASwitch keep their types, whatever operators do.      *)
THEOREM TypeCorrect == Spec => []TypeOK
<1>1. Init => TypeOK
  BY InitType
<1>2. TypeOK /\ [Next]_vars => TypeOK'
  BY NextType
<1> QED BY <1>1, <1>2, PTL DEF Spec
-----------------------------------------------------------------------------
(* The conditional writes.                                                 *)

(* Moving one slot: the others are what they were.                         *)
LEMMA OneSlot ==
    ASSUME TypeOK, NEW o \in Op, NEW t, op' = [op EXCEPT ![o] = t]
    PROVE  op'[o] = t /\ \A p \in Op \ {o} : op'[p] = op[p]
BY DEF TypeOK

LEMMA GotoSlot ==
    ASSUME TypeOK, NEW o \in Op, op[o] \in Operation, NEW pc \in PC, Goto(o, pc)
    PROVE  /\ op'[o] \in Operation
           /\ op'[o].pc = pc /\ op'[o].force = op[o].force /\ op'[o].side = op[o].side
           /\ \A p \in Op \ {o} : op'[p] = op[p]
BY DEF TypeOK, Goto, Operation, PC

LEMMA FinishSlot ==
    ASSUME TypeOK, NEW o \in Op, Finish(o)
    PROVE  op'[o] = Idle /\ op'[o].pc = "idle" /\ \A p \in Op \ {o} : op'[p] = op[p]
BY DEF TypeOK, Finish, Idle

LEMMA RetrySlot ==
    ASSUME TypeOK, NEW o \in Op, op[o] \in Operation, Retry(o)
    PROVE  /\ \/ op'[o] = Idle /\ op'[o].pc = "idle"
              \/ /\ op'[o].pc = "reread" /\ op'[o].force = op[o].force
                 /\ op'[o].side = op[o].side
           /\ \A p \in Op \ {o} : op'[p] = op[p]
<1>1. CASE op' = [op EXCEPT ![o].pc = "reread", ![o].tries = @ + 1]
  BY <1>1 DEF TypeOK, Operation
<1>2. CASE Finish(o)
  BY <1>2, FinishSlot
<1> QED BY <1>1, <1>2 DEF Retry

(* A slot that stays, finishes, or goes where no decision on the record is *)
(* pending, doing only what was asked for.                                 *)
Harmless(o) ==
    \/ op'[o] = op[o]
    \/ op'[o] = Idle
    \/ /\ op'[o].pc \notin {"publish", "cas"}
       /\ op'[o].pc \in ClaimPC => "claim" \in Offered
       /\ op'[o].force = TRUE => "force" \in Offered

LEMMA OnlyOfferedFrame ==
    ASSUME OnlyOffered,
           \A o \in Op : \/ Harmless(o)
                         \/ /\ op'[o].pc \in ClaimPC => "claim" \in Offered
                            /\ op'[o].force = TRUE => "force" \in Offered
    PROVE  OnlyOffered'
BY DEF OnlyOffered, Running, Harmless, Idle, ClaimPC

(* A step that leaves the record alone.                                    *)
LEMMA CASInvFrame ==
    ASSUME CASInv, UNCHANGED <<handoff, etag, claims>>, \A o \in Op : Harmless(o)
    PROVE  CASInv'
<1>1. UniqueClaim' /\ ClaimsAreBelow'
  BY DEF CASInv, UniqueClaim, ClaimsAreBelow
<1>2. PendingIsCurrent'
  BY DEF CASInv, PendingIsCurrent, Harmless, Idle
<1>3. PendingIsGated'
  BY DEF CASInv, PendingIsGated, Harmless, Idle
<1>4. OnlyOffered'
  BY OnlyOfferedFrame DEF CASInv
<1> QED BY <1>1, <1>2, <1>3, <1>4 DEF CASInv

(* A write of the record makes every other pending decision stale.         *)
LEMMA WriteMakesStale ==
    ASSUME TypeOK, CASInv, NEW o \in Op, etag' = etag + 1,
           \A p \in Op \ {o} : op'[p] = op[p],
           op'[o].pc \notin {"publish", "cas"}
    PROVE  PendingIsCurrent' /\ PendingIsGated'
<1>1. PendingIsCurrent'
  <2> SUFFICES ASSUME NEW p \in Op, op'[p].pc \in {"publish", "cas"}
               PROVE  op'[p].etag <= etag' /\ op'[p].etag # etag'
    BY DEF PendingIsCurrent
  <2>1. p # o /\ op'[p] = op[p]
    OBVIOUS
  <2>2. op[p].etag <= etag
    BY <2>1 DEF CASInv, PendingIsCurrent
  <2>3. op[p] \in Operation
    BY <2>1, RunningOperation
  <2>4. op[p].etag \in Nat /\ etag \in Nat
    BY <2>3 DEF Operation, TypeOK, CoordTypeOK
  <2> QED BY <2>1, <2>2, <2>4
<1>2. PendingIsGated'
  BY DEF CASInv, PendingIsGated
<1> QED BY <1>1, <1>2

LEMMA InitCAS == Init => CASInv
<1> SUFFICES ASSUME Init PROVE CASInv
  OBVIOUS
<1>1. op = [o \in Op |-> Idle] /\ claims = {}
  BY DEF Init
<1>2. etag = 0 => handoff = NoRecord
  BY DEF Init, CoordInit
<1> QED
  BY <1>1, <1>2
     DEF CASInv, UniqueClaim, PendingIsCurrent, PendingIsGated, ClaimsAreBelow, OnlyOffered,
         Running, Idle

(* Only a Claim's write is unconditional.                                  *)
LEMMA NextCAS ==
    ASSUME TypeOK, CASInv, [Next]_vars, \A o \in Op : ~ClaimWrite(o)
    PROVE  CASInv'
<1>1. ASSUME NEW o \in Op, Start(o) PROVE CASInv'
  <2>1. ASSUME NEW s \in Side, NEW pc \in {"savepoint", "read", "claimtoken"}, NEW f \in BOOLEAN,
               f = TRUE => "force" \in Offered, pc = "claimtoken" => "claim" \in Offered,
               Launch(o, Begin(s, pc, f))
        PROVE  CASInv'
    <3>1. op'[o] = Begin(s, pc, f) /\ \A p \in Op \ {o} : op'[p] = op[p]
      BY <2>1, OneSlot DEF Launch
    <3>2. \A p \in Op : Harmless(p)
      BY <2>1, <3>1 DEF Harmless, Begin, ClaimPC
    <3> QED BY <2>1, <3>2, CASInvFrame DEF Launch, coordVars
  <2>2. ASSUME NEW s \in Side, Release(o, s) PROVE CASInv'
    BY <2>1, <2>2 DEF Release
  <2>3. ASSUME NEW s \in Side, Claim(o, s) PROVE CASInv'
    BY <2>1, <2>3 DEF Claim
  <2>4. ASSUME NEW s \in Side, NEW f \in BOOLEAN, Promote(o, s, f) PROVE CASInv'
    BY <2>1, <2>4 DEF Promote
  <2> QED BY <1>1, <2>2, <2>3, <2>4 DEF Start
<1>2. ASSUME NEW o \in Op, Step(o) PROVE CASInv'
  <2>1. op[o] \in Operation /\ op[o].pc # "idle"
    <3>1. op[o].pc # "idle"
      BY <1>2 DEF Step, ReleaseStep, PromoteStep, ClaimStep, Savepoint, SuspendLocal,
            WaitStopped, TokenNeutral, ReadForRelease, PublishReleased, ReadAndPick,
            RefusePromote, CASHandoff, TokenToSelf, StartLocal, ClaimToken, ClaimRead,
            ClaimWrite
    <3> QED BY <3>1, RunningOperation
  <2>2. /\ op[o].pc \in ClaimPC => "claim" \in Offered
        /\ op[o].force = TRUE => "force" \in Offered
    BY <2>1 DEF CASInv, OnlyOffered, Running, Idle
  \* The steps that write nothing.
  <2>3. ASSUME NEW pc \in PC, Goto(o, pc) \/ Finish(o),
               pc \notin {"publish", "cas"}, pc \in ClaimPC => op[o].pc \in ClaimPC,
               UNCHANGED <<handoff, etag, claims>>
        PROVE  CASInv'
    <3>1. CASE Goto(o, pc)
      <4>1. \A p \in Op : Harmless(p)
        BY <2>1, <2>2, <2>3, <3>1, GotoSlot DEF Harmless
      <4> QED BY <2>3, <4>1, CASInvFrame
    <3>2. CASE Finish(o)
      <4>1. \A p \in Op : Harmless(p)
        BY <3>2, FinishSlot DEF Harmless
      <4> QED BY <2>3, <4>1, CASInvFrame
    <3> QED BY <2>3, <3>1, <3>2
  <2>4. CASE Savepoint(o)
    <3>1. PICK p \in {NoPoint} \cup (IF Healthy(Me(o)) THEN {ran} ELSE {}) :
            op' = [op EXCEPT ![o] = [op[o] EXCEPT !.pc = "suspend", !.point = p]]
      BY <2>4 DEF Savepoint
    <3>2. /\ op'[o] = [op[o] EXCEPT !.pc = "suspend", !.point = p]
          /\ \A q \in Op \ {o} : op'[q] = op[q]
      BY <3>1, OneSlot
    <3>3. op'[o].pc = "suspend" /\ op'[o].force = op[o].force
      BY <2>1, <3>2 DEF Operation
    <3>4. \A q \in Op : Harmless(q)
      BY <2>2, <3>2, <3>3 DEF Harmless, ClaimPC
    <3> QED BY <2>4, <3>4, CASInvFrame DEF Savepoint, coordVars
  <2>5. CASE SuspendLocal(o)
    BY <2>3, <2>5 DEF SuspendLocal, coordVars, PC, ReleasePC, ClaimPC
  <2>6. CASE WaitStopped(o)
    BY <2>3, <2>6 DEF WaitStopped, coordVars, PC, ReleasePC, ClaimPC
  <2>7. CASE TokenNeutral(o)
    BY <2>3, <2>7 DEF TokenNeutral, PC, ReleasePC, ClaimPC
  <2>8. CASE RefusePromote(o)
    BY <2>3, <2>8 DEF RefusePromote, coordVars, PC, ReleasePC, ClaimPC
  <2>9. CASE TokenToSelf(o)
    BY <2>3, <2>9 DEF TokenToSelf, PC, PromotePC, ClaimPC
  <2>10. CASE StartLocal(o)
    BY <2>3, <2>10 DEF StartLocal, coordVars, PC, PromotePC, ClaimPC
  \* The reads a conditional write will depend on.
  <2>11. CASE ReadForRelease(o)
    <3>1. CASE op' = [op EXCEPT ![o] =
                        [op[o] EXCEPT !.pc = "publish", !.rec = handoff, !.etag = etag]]
      <4>1. /\ op'[o] = [op[o] EXCEPT !.pc = "publish", !.rec = handoff, !.etag = etag]
            /\ \A q \in Op \ {o} : op'[q] = op[q]
        BY <3>1, OneSlot
      <4>2. /\ op'[o].pc = "publish" /\ op'[o].rec = handoff /\ op'[o].etag = etag
            /\ op'[o].force = op[o].force
        BY <2>1, <4>1 DEF Operation
      <4>3. UNCHANGED <<handoff, etag, claims>>
        BY <2>11 DEF ReadForRelease, coordVars
      <4>4. PendingIsCurrent'
        <5>1. etag <= etag
          BY DEF TypeOK, CoordTypeOK
        <5> QED BY <4>1, <4>2, <4>3, <5>1 DEF CASInv, PendingIsCurrent
      <4>5. PendingIsGated'
        BY <4>1, <4>2 DEF CASInv, PendingIsGated
      <4>6. UniqueClaim' /\ ClaimsAreBelow'
        BY <4>3 DEF CASInv, UniqueClaim, ClaimsAreBelow
      <4>7. OnlyOffered'
        BY <2>2, <4>1, <4>2, OnlyOfferedFrame DEF CASInv, ClaimPC, Harmless
      <4> QED BY <4>4, <4>5, <4>6, <4>7 DEF CASInv
    <3>2. CASE Finish(o)
      BY <2>3, <2>11, <3>2 DEF ReadForRelease, coordVars, PC, ReleasePC, ClaimPC
    <3> QED BY <2>11, <3>1, <3>2 DEF ReadForRelease, ReadHandoffWithETag
  <2>12. CASE ReadAndPick(o)
    <3>1. PICK r \in PromoteReads :
            /\ GateOpen(op[o].force, r.rec)
            /\ \E p \in PickRecoveryPoint(r.rec) :
                  op' = [op EXCEPT ![o] = [op[o] EXCEPT !.pc = "cas", !.rec = r.rec,
                                                        !.etag = r.etag, !.point = p]]
      BY <2>12 DEF ReadAndPick
    <3>2. PICK p \in PickRecoveryPoint(r.rec) :
            op' = [op EXCEPT ![o] = [op[o] EXCEPT !.pc = "cas", !.rec = r.rec,
                                                  !.etag = r.etag, !.point = p]]
      BY <3>1
    <3>3. /\ op'[o] = [op[o] EXCEPT !.pc = "cas", !.rec = r.rec, !.etag = r.etag, !.point = p]
          /\ \A q \in Op \ {o} : op'[q] = op[q]
      BY <3>2, OneSlot
    <3>4. /\ op'[o].pc = "cas" /\ op'[o].rec = r.rec /\ op'[o].etag = r.etag
          /\ op'[o].point = p /\ op'[o].force = op[o].force
      BY <2>1, <3>3 DEF Operation
    <3>5. UNCHANGED <<handoff, etag, claims>>
      BY <2>12 DEF ReadAndPick, coordVars
    <3>6. r.etag <= etag /\ (r.etag = etag => r.rec = handoff)
      BY DEF PromoteReads, ReadHandoffWithETag, EmptyRead, TypeOK, CoordTypeOK, CASInv,
             ClaimsAreBelow
    <3>7. PendingIsCurrent'
      BY <3>3, <3>4, <3>5, <3>6 DEF CASInv, PendingIsCurrent
    <3>8. PendingIsGated'
      <4>1. r.rec.point # NoPoint => p = r.rec.point
        BY <3>2 DEF PickRecoveryPoint
      <4> QED BY <3>1, <3>3, <3>4, <4>1 DEF CASInv, PendingIsGated
    <3>9. UniqueClaim' /\ ClaimsAreBelow'
      BY <3>5 DEF CASInv, UniqueClaim, ClaimsAreBelow
    <3>10. OnlyOffered'
      BY <2>2, <3>3, <3>4, OnlyOfferedFrame DEF CASInv, ClaimPC, Harmless
    <3> QED BY <3>7, <3>8, <3>9, <3>10 DEF CASInv
  \* The conditional writes.
  <2>13. CASE PublishReleased(o)
    <3>1. /\ \/ op'[o] = Idle
             \/ op'[o].pc = "reread" /\ op'[o].force = op[o].force
          /\ \A q \in Op \ {o} : op'[q] = op[q]
          /\ op'[o].pc \in {"idle", "reread"}
      BY <2>1, <2>13, FinishSlot, RetrySlot DEF PublishReleased
    <3>2. \A q \in Op : Harmless(q)
      BY <2>2, <3>1 DEF Harmless, ClaimPC
    <3>3. CASE WriteHandoffCAS(ReleasedRecord(o), op[o].etag)
      <4>1. op[o].etag = etag /\ handoff' = ReleasedRecord(o) /\ etag' = etag + 1
        BY <3>3 DEF WriteHandoffCAS, WriteHandoff, Precondition
      <4>2. op[o].rec = handoff
        BY <2>13, <4>1 DEF PublishReleased, CASInv, PendingIsCurrent
      <4>3. handoff'.epoch = handoff.epoch /\ claims' = claims /\ etag' # 0
        BY <2>1, <2>13, <4>1, <4>2
           DEF ReleasedRecord, PublishReleased, TypeOK, CoordTypeOK, HandoffRecord
      <4>4. UniqueClaim' /\ ClaimsAreBelow'
        BY <4>3 DEF CASInv, UniqueClaim, ClaimsAreBelow
      <4>5. PendingIsCurrent' /\ PendingIsGated'
        BY <3>1, <4>1, WriteMakesStale
      <4>6. OnlyOffered'
        BY <3>2, OnlyOfferedFrame DEF CASInv
      <4> QED BY <4>4, <4>5, <4>6 DEF CASInv
    <3>4. CASE UNCHANGED <<handoff, etag>>
      BY <2>13, <3>2, <3>4, CASInvFrame DEF PublishReleased
    <3> QED BY <2>13, <3>3, <3>4 DEF PublishReleased
  <2>14. CASE CASHandoff(o)
    <3>1. /\ \/ op'[o] = Idle
             \/ op'[o].pc = "token" /\ op'[o].force = op[o].force
          /\ \A q \in Op \ {o} : op'[q] = op[q]
          /\ op'[o].pc \in {"idle", "token"}
      BY <2>1, <2>14, FinishSlot, GotoSlot DEF CASHandoff, PC, PromotePC
    <3>2. \A q \in Op : Harmless(q)
      BY <2>2, <3>1 DEF Harmless, ClaimPC
    <3>3. CASE /\ WriteHandoffCAS(PromotedRecord(o), op[o].etag)
               /\ claims' = claims \cup
                    {[epoch |-> PromotedRecord(o).epoch, side |-> Me(o), etag |-> etag + 1]}
      <4>1. op[o].etag = etag /\ handoff' = PromotedRecord(o) /\ etag' = etag + 1
        BY <3>3 DEF WriteHandoffCAS, WriteHandoff, Precondition
      <4>2. op[o].rec = handoff
        BY <2>14, <4>1 DEF CASHandoff, CASInv, PendingIsCurrent
      <4>3. PromotedRecord(o).epoch = handoff.epoch + 1
        BY <4>2 DEF PromotedRecord
      <4>4. etag \in Nat /\ handoff.epoch \in Nat /\ \A c \in claims : c.epoch \in Nat
        BY DEF TypeOK, CoordTypeOK, HandoffRecord
      <4>5. \A c \in claims : c.epoch <= handoff.epoch
        BY DEF CASInv, ClaimsAreBelow
      <4>6. UniqueClaim'
        BY <3>3, <4>3, <4>4, <4>5 DEF CASInv, UniqueClaim
      <4>7. ClaimsAreBelow'
        BY <3>3, <4>1, <4>3, <4>4, <4>5 DEF ClaimsAreBelow
      <4>8. PendingIsCurrent' /\ PendingIsGated'
        BY <3>1, <4>1, WriteMakesStale
      <4>9. OnlyOffered'
        BY <3>2, OnlyOfferedFrame DEF CASInv
      <4> QED BY <4>6, <4>7, <4>8, <4>9 DEF CASInv
    <3>4. CASE UNCHANGED <<handoff, etag, claims>>
      BY <3>2, <3>4, CASInvFrame
    <3> QED BY <2>14, <3>3, <3>4 DEF CASHandoff
  <2>15. CASE ClaimToken(o)
    BY <2>3, <2>15 DEF ClaimToken, PC, ClaimPC
  <2>16. CASE ClaimRead(o)
    <3>1. PICK r \in PromoteReads :
            op' = [op EXCEPT ![o] = [op[o] EXCEPT !.pc = "claimwrite", !.rec = r.rec]]
      BY <2>16 DEF ClaimRead
    <3>2. /\ op'[o] = [op[o] EXCEPT !.pc = "claimwrite", !.rec = r.rec]
          /\ \A q \in Op \ {o} : op'[q] = op[q]
      BY <3>1, OneSlot
    <3>3. op'[o].pc = "claimwrite" /\ op'[o].force = op[o].force
      BY <2>1, <3>2 DEF Operation
    <3>4. op[o].pc = "claimread"
      BY <2>16 DEF ClaimRead
    <3>5. \A q \in Op : Harmless(q)
      BY <2>2, <3>2, <3>3, <3>4 DEF Harmless, ClaimPC
    <3> QED BY <2>16, <3>5, CASInvFrame DEF ClaimRead, coordVars
  <2> QED
    BY <1>2, <2>4, <2>5, <2>6, <2>7, <2>8, <2>9, <2>10, <2>11, <2>12, <2>13, <2>14, <2>15,
       <2>16
       DEF Step, ReleaseStep, PromoteStep, ClaimStep
<1>3. ASSUME NEW s \in Side, Environment(s) PROVE CASInv'
  <2>1. \A p \in Op : Harmless(p)
    BY <1>3 DEF Environment, Suspend, Resume, JobsPage, PodStart, PodStop, PodLost, Checkpoint, Crash,
          Harmless
  <2>2. UNCHANGED <<handoff, etag, claims>>
    BY <1>3 DEF Environment, Suspend, Resume, JobsPage, PodStart, PodStop, PodLost, Checkpoint, Crash,
          coordVars
  <2> QED BY <2>1, <2>2, CASInvFrame
<1>4. CASE CalmDown \/ UNCHANGED vars
  <2>1. (\A p \in Op : Harmless(p)) /\ UNCHANGED <<handoff, etag, claims>>
    BY <1>4 DEF CalmDown, vars, coordVars, Harmless
  <2> QED BY <2>1, CASInvFrame
<1> QED BY <1>1, <1>2, <1>3, <1>4 DEF Next

LEMMA NoClaim ==
    ASSUME CASInv, "claim" \notin Offered, NEW o \in Op
    PROVE  ~ClaimWrite(o)
<1>1. op[o].pc \in ClaimPC => ~Running(o)
  BY DEF CASInv, OnlyOffered
<1> QED
  BY <1>1 DEF ClaimWrite, ClaimPC, Running, Idle

(* However Releases and Promotes of the two sides interleave, forced or    *)
(* not, with lost answers and restarts, no epoch is won by two promotions: *)
(* what WriteHandoffCAS promises.                                          *)
THEOREM ClaimsAreUnique ==
    ASSUME "claim" \notin Offered
    PROVE  Spec => [](CASInv /\ UniqueClaim)
<1>1. Init => TypeOK /\ CASInv
  BY InitType, InitCAS
<1>2. TypeOK /\ CASInv /\ [Next]_vars => (TypeOK /\ CASInv)'
  BY NextType, NextCAS, NoClaim
<1>3. TypeOK /\ CASInv => CASInv /\ UniqueClaim
  BY DEF CASInv
<1> QED BY <1>1, <1>2, <1>3, PTL DEF Spec
-----------------------------------------------------------------------------
(* The handoff record as the register of module Ownership.                 *)

LEMMA InitOwnership == Init => Register!Init
<1> SUFFICES ASSUME Init PROVE Register!Init
  OBVIOUS
<1>1. PICK p \in Side : CoordInit(p)
  BY DEF Init
<1>2. CASE handoff = NoRecord
  BY <1>2 DEF NoRecord, Register!Init
<1>3. CASE handoff = [NoRecord EXCEPT !.active = p, !.epoch = 1, !.phase = "stable"]
  BY <1>3 DEF NoRecord, Register!Init
<1> QED BY <1>1, <1>2, <1>3 DEF CoordInit

(* Only the conditional writes touch the record.                           *)
LEMMA RecordWriters ==
    ASSUME TypeOK, CASInv, [Next]_vars, \A o \in Op : ~ClaimWrite(o)
    PROVE  \/ handoff' = handoff
           \/ \E o \in Op : /\ PublishReleased(o)
                            /\ WriteHandoffCAS(ReleasedRecord(o), op[o].etag)
           \/ \E o \in Op : /\ CASHandoff(o)
                            /\ WriteHandoffCAS(PromotedRecord(o), op[o].etag)
<1>1. ASSUME NEW o \in Op, Start(o) PROVE handoff' = handoff
  BY <1>1 DEF Start, Release, Claim, Promote, Launch, coordVars
<1>2. ASSUME NEW o \in Op, ClaimStep(o) PROVE handoff' = handoff
  BY <1>2 DEF ClaimStep, ClaimToken, ClaimRead, coordVars
<1>3. ASSUME NEW o \in Op, PublishReleased(o)
      PROVE  handoff' = handoff \/ WriteHandoffCAS(ReleasedRecord(o), op[o].etag)
  BY <1>3 DEF PublishReleased
<1>4. ASSUME NEW o \in Op, CASHandoff(o)
      PROVE  handoff' = handoff \/ WriteHandoffCAS(PromotedRecord(o), op[o].etag)
  BY <1>4 DEF CASHandoff
<1>5. ASSUME NEW o \in Op, ReleaseStep(o) \/ PromoteStep(o)
      PROVE  handoff' = handoff \/ PublishReleased(o) \/ CASHandoff(o)
  BY <1>5 DEF ReleaseStep, PromoteStep, Savepoint, SuspendLocal, WaitStopped, TokenNeutral,
        ReadForRelease, ReadAndPick, RefusePromote, TokenToSelf, StartLocal, coordVars
<1>6. ASSUME NEW s \in Side, Environment(s) PROVE handoff' = handoff
  BY <1>6 DEF Environment, Suspend, Resume, JobsPage, PodStart, PodStop, PodLost, Checkpoint, Crash,
        coordVars
<1>7. CASE CalmDown \/ UNCHANGED vars
  BY <1>7 DEF CalmDown, vars, coordVars
<1> QED BY <1>1, <1>2, <1>3, <1>4, <1>5, <1>6, <1>7 DEF Next, Step

LEMMA NextOwnership ==
    ASSUME TypeOK, CASInv, [Next]_vars, \A o \in Op : ~ClaimWrite(o)
    PROVE  [Register!Next]_Register!regVars
<1>1. CASE handoff' = handoff
  BY <1>1 DEF Register!regVars
<1>2. ASSUME NEW o \in Op, PublishReleased(o),
             WriteHandoffCAS(ReleasedRecord(o), op[o].etag)
      PROVE  Register!StepDown
  <2>1. handoff' = ReleasedRecord(o) /\ op[o].rec = handoff /\ op[o] \in Operation
    BY <1>2, RunningOperation
       DEF PublishReleased, WriteHandoffCAS, WriteHandoff, Precondition, CASInv,
           PendingIsCurrent
  <2>2. /\ handoff'.active = handoff.active /\ handoff'.epoch = handoff.epoch
        /\ handoff'.phase = "released" /\ handoff'.point = op[o].point
    <3>1. handoff \in HandoffRecord
      BY DEF TypeOK, CoordTypeOK
    <3>2. handoff' = [handoff EXCEPT !.phase = "released", !.releasedBy = Me(o),
                                     !.point = op[o].point]
      BY <2>1 DEF ReleasedRecord
    <3> QED BY <3>1, <3>2 DEF HandoffRecord
  <2>3. op[o].point \in Point
    BY <2>1 DEF Operation
  <2> QED BY <2>2, <2>3 DEF Register!StepDown
<1>3. ASSUME NEW o \in Op, CASHandoff(o),
             WriteHandoffCAS(PromotedRecord(o), op[o].etag)
      PROVE  \E s \in Side : Register!TakeOver(s)
  <2>1. /\ op[o].pc = "cas" /\ handoff' = PromotedRecord(o) /\ op[o].rec = handoff
        /\ op[o] \in Operation
    BY <1>3, RunningOperation
       DEF CASHandoff, WriteHandoffCAS, WriteHandoff, Precondition, CASInv, PendingIsCurrent
  <2>2. /\ handoff'.active = Me(o) /\ handoff'.epoch = handoff.epoch + 1
        /\ handoff'.phase = "stable" /\ handoff'.point = op[o].point
    BY <2>1 DEF PromotedRecord
  <2>3. op[o].point \in Point /\ Me(o) \in Side
    BY <2>1 DEF Operation, Me
  <2>4. "force" \in Offered \/ handoff.phase = "released"
    <3>1. GateOpen(op[o].force, handoff)
      BY <2>1 DEF CASInv, PendingIsGated
    <3>2. op[o].force = TRUE => "force" \in Offered
      BY <2>1 DEF CASInv, OnlyOffered, Running, Idle
    <3>3. op[o].force \in BOOLEAN
      BY <2>1 DEF Operation
    <3> QED BY <3>1, <3>2, <3>3 DEF GateOpen
  <2>5. handoff.point # NoPoint => handoff'.point = handoff.point
    BY <2>1, <2>2 DEF CASInv, PendingIsGated
  <2>6. Register!TakeOver(Me(o))
    BY <2>2, <2>3, <2>4, <2>5 DEF Register!TakeOver
  <2> QED BY <2>3, <2>6
<1> QED BY <1>1, <1>2, <1>3, RecordWriters DEF Register!Next

(* However Releases and Promotes interleave, the handoff record moves as   *)
(* the atomic register does: what its writers read before they write is    *)
(* still so when the write is accepted.                                    *)
THEOREM RecordIsRegister ==
    ASSUME "claim" \notin Offered
    PROVE  Spec => ImplementsOwnership
<1>1. Init => TypeOK /\ CASInv /\ Register!Init
  BY InitType, InitCAS, InitOwnership
<1>2. TypeOK /\ CASInv /\ [Next]_vars => (TypeOK /\ CASInv)'
  BY NextType, NextCAS, NoClaim
<1>3. TypeOK /\ CASInv /\ [Next]_vars => [Register!Next]_Register!regVars
  BY NextOwnership, NoClaim
<1> QED BY <1>1, <1>2, <1>3, PTL DEF Spec, ImplementsOwnership, Register!Spec

-----------------------------------------------------------------------------
(* Operations end.  How many more steps an operation has at most: as many  *)
(* as if every conditional write were refused for writeReleasedHandoff.    *)

CallsLeft(o) ==
    CASE op[o].pc = "savepoint" -> 2 * Attempts + 4
      [] op[o].pc = "suspend" -> 2 * Attempts + 3
      [] op[o].pc = "wait" -> 2 * Attempts + 2
      [] op[o].pc = "neutral" -> 2 * Attempts + 1
      [] op[o].pc = "reread" -> 2 * (Attempts - op[o].tries)
      [] op[o].pc = "publish" -> 2 * (Attempts - op[o].tries) - 1
      [] op[o].pc = "read" -> 4
      [] op[o].pc \in {"cas", "claimtoken"} -> 3
      [] op[o].pc \in {"token", "claimread"} -> 2
      [] op[o].pc \in {"start", "claimwrite"} -> 1
      [] OTHER -> 0

LEMMA CallsLeftType ==
    ASSUME TypeOK, NEW o \in Op
    PROVE  /\ CallsLeft(o) \in 0 .. 2 * Attempts + 4
           /\ CallsLeft(o) = 0 <=> op[o].pc = "idle"
<1>1. CASE op[o] = Idle
  BY <1>1 DEF CallsLeft, Idle, Attempts
<1>2. CASE op[o] \in Operation
  BY <1>2 DEF CallsLeft, Operation, ReleasePC, PromotePC, ClaimPC, Attempts
<1> QED BY <1>1, <1>2 DEF TypeOK

(* Every step of an operation leaves it fewer.                             *)
LEMMA StepSpendsCall ==
    ASSUME TypeOK, NEW o \in Op, Step(o)
    PROVE  /\ CallsLeft(o)' < CallsLeft(o)
           /\ \A p \in Op \ {o} : op'[p] = op[p]
<1>1. op[o].pc # "idle"
  BY DEF Step, ReleaseStep, PromoteStep, ClaimStep, Savepoint, SuspendLocal, WaitStopped,
         TokenNeutral, ReadForRelease, PublishReleased, ReadAndPick, RefusePromote, CASHandoff,
         TokenToSelf, StartLocal, ClaimToken, ClaimRead, ClaimWrite
<1>2. /\ op[o] \in Operation
      /\ CallsLeft(o) \in 0 .. 2 * Attempts + 4 /\ CallsLeft(o) # 0
  BY <1>1, RunningOperation, CallsLeftType
<1>3. op[o].tries \in 0 .. 2 /\ Attempts = 3
  BY <1>2 DEF Operation, Attempts
<1>4. ASSUME Finish(o)
      PROVE  CallsLeft(o)' < CallsLeft(o) /\ \A p \in Op \ {o} : op'[p] = op[p]
  <2>1. CallsLeft(o)' = 0
    BY <1>4, FinishSlot DEF CallsLeft
  <2> QED BY <1>2, <1>3, <1>4, <2>1, FinishSlot
<1>5. ASSUME NEW pc \in PC, Goto(o, pc),
             \/ op[o].pc = "suspend" /\ pc = "wait"
             \/ op[o].pc = "wait" /\ pc = "neutral"
             \/ op[o].pc = "neutral" /\ pc = "reread"
             \/ op[o].pc = "cas" /\ pc = "token"
             \/ op[o].pc = "token" /\ pc = "start"
             \/ op[o].pc = "claimtoken" /\ pc = "claimread"
      PROVE  CallsLeft(o)' < CallsLeft(o) /\ \A p \in Op \ {o} : op'[p] = op[p]
  <2>1. /\ op'[o] \in Operation /\ op'[o].pc = pc
        /\ \A p \in Op \ {o} : op'[p] = op[p]
    BY <1>2, <1>5, GotoSlot
  <2>2. op'[o].tries \in 0 .. 2
    BY <2>1 DEF Operation, Attempts
  <2> QED BY <1>3, <1>5, <2>1, <2>2 DEF CallsLeft
<1>6. ASSUME NEW t, op' = [op EXCEPT ![o] = t], t.tries = op[o].tries,
             \/ op[o].pc = "savepoint" /\ t.pc = "suspend"
             \/ op[o].pc = "reread" /\ t.pc = "publish"
             \/ op[o].pc = "read" /\ t.pc = "cas"
             \/ op[o].pc = "claimread" /\ t.pc = "claimwrite"
      PROVE  CallsLeft(o)' < CallsLeft(o) /\ \A p \in Op \ {o} : op'[p] = op[p]
  <2>1. op'[o] = t /\ \A p \in Op \ {o} : op'[p] = op[p]
    BY <1>6, OneSlot
  <2> QED BY <1>3, <1>6, <2>1 DEF CallsLeft
<1>7. CASE Savepoint(o)
  <2>1. PICK p \in {NoPoint} \cup (IF Healthy(Me(o)) THEN {ran} ELSE {}) :
          op' = [op EXCEPT ![o] = [op[o] EXCEPT !.pc = "suspend", !.point = p]]
    BY <1>7 DEF Savepoint
  <2> DEFINE t == [op[o] EXCEPT !.pc = "suspend", !.point = p]
  <2>2. t.tries = op[o].tries /\ t.pc = "suspend" /\ op[o].pc = "savepoint"
    BY <1>2, <1>7 DEF Operation, Savepoint
  <2> QED BY <1>6, <2>1, <2>2
<1>8. CASE SuspendLocal(o)
  BY <1>4, <1>5, <1>8 DEF SuspendLocal, PC, ReleasePC
<1>9. CASE WaitStopped(o)
  BY <1>5, <1>9 DEF WaitStopped, PC, ReleasePC
<1>10. CASE TokenNeutral(o)
  BY <1>4, <1>5, <1>10 DEF TokenNeutral, PC, ReleasePC
<1>11. CASE ReadForRelease(o)
  <2>1. CASE op' = [op EXCEPT ![o] =
                      [op[o] EXCEPT !.pc = "publish", !.rec = handoff, !.etag = etag]]
    <3> DEFINE t == [op[o] EXCEPT !.pc = "publish", !.rec = handoff, !.etag = etag]
    <3>1. t.tries = op[o].tries /\ t.pc = "publish" /\ op[o].pc = "reread"
      BY <1>2, <1>11 DEF Operation, ReadForRelease
    <3> QED BY <1>6, <2>1, <3>1
  <2> QED BY <1>4, <1>11, <2>1 DEF ReadForRelease, ReadHandoffWithETag
<1>12. CASE PublishReleased(o)
  <2>1. CASE op' = [op EXCEPT ![o].pc = "reread", ![o].tries = @ + 1] /\ op[o].tries + 1 < Attempts
    <3>1. /\ op'[o].pc = "reread" /\ op'[o].tries = op[o].tries + 1
          /\ \A p \in Op \ {o} : op'[p] = op[p]
      BY <1>2, <2>1 DEF TypeOK, Operation
    <3>2. op[o].pc = "publish"
      BY <1>12 DEF PublishReleased
    <3> QED BY <1>3, <3>1, <3>2 DEF CallsLeft
  <2> QED BY <1>4, <1>12, <2>1 DEF PublishReleased, Retry
<1>13. CASE ReadAndPick(o)
  <2>1. PICK r \in PromoteReads :
          \E p \in PickRecoveryPoint(r.rec) :
             op' = [op EXCEPT ![o] = [op[o] EXCEPT !.pc = "cas", !.rec = r.rec,
                                                   !.etag = r.etag, !.point = p]]
    BY <1>13 DEF ReadAndPick
  <2>2. PICK p \in PickRecoveryPoint(r.rec) :
          op' = [op EXCEPT ![o] = [op[o] EXCEPT !.pc = "cas", !.rec = r.rec,
                                                !.etag = r.etag, !.point = p]]
    BY <2>1
  <2> DEFINE t == [op[o] EXCEPT !.pc = "cas", !.rec = r.rec, !.etag = r.etag, !.point = p]
  <2>3. t.tries = op[o].tries /\ t.pc = "cas" /\ op[o].pc = "read"
    BY <1>2, <1>13 DEF Operation, ReadAndPick
  <2> QED BY <1>6, <2>2, <2>3
<1>14. CASE RefusePromote(o) \/ StartLocal(o) \/ ClaimWrite(o)
  BY <1>4, <1>14 DEF RefusePromote, StartLocal, ClaimWrite
<1>15. CASE CASHandoff(o)
  BY <1>4, <1>5, <1>15 DEF CASHandoff, PC, PromotePC
<1>16. CASE TokenToSelf(o)
  BY <1>4, <1>5, <1>16 DEF TokenToSelf, PC, PromotePC
<1>17. CASE ClaimToken(o)
  BY <1>4, <1>5, <1>17 DEF ClaimToken, PC, ClaimPC
<1>18. CASE ClaimRead(o)
  <2>1. PICK r \in PromoteReads :
          op' = [op EXCEPT ![o] = [op[o] EXCEPT !.pc = "claimwrite", !.rec = r.rec]]
    BY <1>18 DEF ClaimRead
  <2> DEFINE t == [op[o] EXCEPT !.pc = "claimwrite", !.rec = r.rec]
  <2>2. t.tries = op[o].tries /\ t.pc = "claimwrite" /\ op[o].pc = "claimread"
    BY <1>2, <1>18 DEF Operation, ClaimRead
  <2> QED BY <1>6, <2>1, <2>2
<1> QED
  BY <1>7, <1>8, <1>9, <1>10, <1>11, <1>12, <1>13, <1>14, <1>15, <1>16, <1>17, <1>18
     DEF Step, ReleaseStep, PromoteStep, ClaimStep

(* An operation that runs: its own steps bring it nearer to its end, and   *)
(* no other step of anyone brings it farther from it.                      *)
OperationsEnd ==
    [][\A o \in Op : op[o] # Idle =>
          /\ CallsLeft(o)' <= CallsLeft(o)
          /\ Step(o) => CallsLeft(o)' < CallsLeft(o)]_vars

LEMMA NextSpends ==
    ASSUME TypeOK, [Next]_vars, NEW o \in Op, op[o] # Idle
    PROVE  CallsLeft(o)' <= CallsLeft(o)
<1>1. CallsLeft(o) \in Nat
  BY CallsLeftType DEF Attempts
<1>2. ASSUME op'[o] = op[o] PROVE CallsLeft(o)' <= CallsLeft(o)
  <2>1. CallsLeft(o)' = CallsLeft(o)
    BY <1>2 DEF CallsLeft
  <2> QED BY <1>1, <2>1
<1>3. ASSUME NEW p \in Op, Step(p) PROVE CallsLeft(o)' <= CallsLeft(o)
  <2>1. CASE p = o
    <3>1. CallsLeft(o)' < CallsLeft(o)
      BY <1>3, <2>1, StepSpendsCall
    <3>2. CallsLeft(o)' \in Nat
      <4>1. TypeOK'
        BY NextType
      <4>2. op'[o] = Idle \/ op'[o] \in Operation
        BY <4>1 DEF TypeOK
      <4> QED BY <4>2 DEF CallsLeft, Idle, Operation, Attempts
    <3> QED BY <1>1, <3>1, <3>2
  <2>2. CASE p # o
    BY <1>2, <1>3, <2>2, StepSpendsCall
  <2> QED BY <2>1, <2>2
<1>4. ASSUME NEW p \in Op, Start(p) PROVE CallsLeft(o)' <= CallsLeft(o)
  <2>1. PICK t : ~Running(p) /\ op' = [op EXCEPT ![p] = t]
    BY <1>4 DEF Start, Release, Claim, Promote, Launch
  <2>2. op'[o] = op[o]
    BY <2>1, OneSlot DEF Running
  <2> QED BY <1>2, <2>2
<1>5. ASSUME NEW s \in Side, Crash(s) PROVE CallsLeft(o)' <= CallsLeft(o)
  <2>1. op'[o] = op[o] \/ op'[o] = Idle
    BY <1>5 DEF Crash
  <2>2. CASE op'[o] = Idle
    <3>1. CallsLeft(o)' = 0
      BY <2>2 DEF CallsLeft, Idle
    <3> QED BY <1>1, <3>1
  <2> QED BY <1>2, <2>1, <2>2
<1>6. ASSUME NEW s \in Side, Environment(s), ~Crash(s) PROVE CallsLeft(o)' <= CallsLeft(o)
  BY <1>2, <1>6 DEF Environment, Suspend, Resume, JobsPage, PodStart, PodStop, PodLost, Checkpoint
<1>7. CASE CalmDown \/ UNCHANGED vars
  BY <1>2, <1>7 DEF CalmDown, vars
<1> QED BY <1>3, <1>4, <1>5, <1>6, <1>7 DEF Next

(* A Release, Promote or Claim takes at most 2 * Attempts + 4 steps of its *)
(* own, whatever the others write meanwhile: the retries of                *)
(* writeReleasedHandoff cannot go on for ever.                             *)
THEOREM OperationsAreBounded ==
    Spec => OperationsEnd /\ [](\A o \in Op : CallsLeft(o) \in 0 .. 2 * Attempts + 4)
<1>1. Init => TypeOK
  BY InitType
<1>2. TypeOK /\ [Next]_vars => TypeOK'
  BY NextType
<1>3. TypeOK => \A o \in Op : CallsLeft(o) \in 0 .. 2 * Attempts + 4
  BY CallsLeftType
<1>4. TypeOK /\ [Next]_vars =>
        [\A o \in Op : op[o] # Idle =>
            /\ CallsLeft(o)' <= CallsLeft(o)
            /\ Step(o) => CallsLeft(o)' < CallsLeft(o)]_vars
  BY NextSpends, StepSpendsCall
<1> QED BY <1>1, <1>2, <1>3, <1>4, PTL DEF Spec, OperationsEnd
=============================================================================
