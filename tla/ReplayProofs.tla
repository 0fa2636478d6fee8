---------------------------- MODULE ReplayProofs ----------------------------
(* Proofs about Replay for every set of timestamps, number of deployments, *)
(* offered requests and faults.                                            *)
EXTENDS Replay, TLAPS

PC == ReplayPC \cup RevertPC \cup RestartPC

-----------------------------------------------------------------------------
(* Type correctness.                                                       *)

(* Whoever holds the lock is an operation.                                 *)
LEMMA Holder ==
    ASSUME TypeOK, cur.pc # "idle"
    PROVE  cur \in Operation
BY DEF TypeOK, Idle

(* The ways in which the steps change the holder keep it well typed.       *)
LEMMA GotoType ==
    ASSUME cur \in Operation, NEW pc \in PC, Goto(pc),
           pc \in RestartPC \/ cur.pc \notin RestartPC
    PROVE  cur' \in Operation
BY DEF Goto, Operation, Fields, PC, RestartPC

LEMMA BeginType ==
    ASSUME NEW pc \in PC
    PROVE  Begin(pc) \in Fields
BY DEF Begin, Fields, PC, Origin, Mode

LEMMA BeginReplayType ==
    ASSUME NEW s \in SQL, NEW h \in BOOLEAN, NEW f \in Origin, NEW m \in Mode
    PROVE  [Begin("backup") EXCEPT !.sql = s, !.had = h, !.from = f, !.mode = m] \in Operation
<1>1. Begin("backup") \in Fields
  BY BeginType DEF PC, ReplayPC
<1>2. s # NoSQL
  BY DEF SQL, NoSQL
<1> QED
  BY <1>1, <1>2 DEF Operation, Fields

LEMMA BeginRevertType ==
    ASSUME NEW s \in SQL, NEW m \in Mode
    PROVE  [Begin("savepoint") EXCEPT !.sql = s, !.mode = m] \in Operation
<1>1. Begin("savepoint") \in Fields
  BY BeginType DEF PC, RevertPC
<1>2. s # NoSQL
  BY DEF SQL, NoSQL
<1> QED
  BY <1>1, <1>2 DEF Operation, Fields

(* The deployed SQL and its rewritings are SQL.                            *)
LEMMA OriginalType ==
    ASSUME deployed \in 1 .. MaxBase
    PROVE  Original \in SQL
BY DEF Original, SQL

LEMMA RewrittenType ==
    ASSUME NEW s \in SQL, NEW t \in Origin
    PROVE  Rewritten(s, t) \in SQL
BY DEF Rewritten, SQL, Origin

(* The two patches of a session write and remove its annotations together. *)
LEMMA ReplayForwardType ==
    ASSUME TypeOK, cur \in Operation
    PROVE  /\ ReplayForward \in CR
           /\ ReplayForward.active <=> ReplayForward.prev # NoMode
           /\ ReplayForward.path = cr.path
<1>1. cr \in CR /\ cur.mode \in Mode /\ cur.from \in Origin
  BY DEF TypeOK, Operation, Fields
<1>2. ReplayForward \in CR
  BY <1>1 DEF CR, ReplayForward, Mode
<1>3. ReplayForward.active = TRUE
  BY <1>1 DEF CR, ReplayForward
<1>4. ReplayForward.prev # NoMode
  BY <1>1 DEF CR, ReplayForward, Mode, NoMode
<1>5. ReplayForward.path = cr.path
  BY <1>1 DEF CR, ReplayForward
<1> QED
  BY <1>2, <1>3, <1>4, <1>5

LEMMA RevertRedeployType ==
    ASSUME TypeOK, cur \in Operation
    PROVE  /\ RevertRedeploy \in CR
           /\ RevertRedeploy.active <=> RevertRedeploy.prev # NoMode
           /\ RevertRedeploy.path # NoPath
<1>1. cr \in CR /\ cur.mode \in Mode /\ cur.path \in Origin
  BY DEF TypeOK, Operation, Fields
<1>2. RevertRedeploy \in CR
  BY <1>1 DEF CR, RevertRedeploy, Origin
<1>3. RevertRedeploy.active = FALSE
  BY <1>1 DEF CR, RevertRedeploy
<1>4. RevertRedeploy.prev = NoMode
  BY <1>1 DEF CR, RevertRedeploy
<1>5. RevertRedeploy.path # NoPath
  BY <1>1, ReplayAssumption DEF CR, RevertRedeploy, Origin, NoPath
<1> QED
  BY <1>2, <1>3, <1>4, <1>5

LEMMA StateType ==
    ASSUME TypeOK, NEW st \in {"running", "suspended"}
    PROVE  /\ [cr EXCEPT !.state = st] \in CR
           /\ [cr EXCEPT !.state = st].active <=> [cr EXCEPT !.state = st].prev # NoMode
           /\ [cr EXCEPT !.state = st].path = cr.path
BY DEF TypeOK, CR

LEMMA PathType ==
    ASSUME TypeOK, NEW p \in Origin
    PROVE  /\ [cr EXCEPT !.state = "running", !.path = p] \in CR
           /\ [cr EXCEPT !.state = "running", !.path = p].active <=>
                 [cr EXCEPT !.state = "running", !.path = p].prev # NoMode
           /\ [cr EXCEPT !.state = "running", !.path = p].path # NoPath
<1> DEFINE c == [cr EXCEPT !.state = "running", !.path = p]
<1>1. cr \in CR /\ (cr.active <=> cr.prev # NoMode)
  BY DEF TypeOK
<1>2. c \in CR
  BY <1>1 DEF CR
<1>3. c.active = cr.active /\ c.prev = cr.prev
  BY <1>1 DEF CR
<1>4. c.path = p
  BY <1>1 DEF CR
<1>5. p # NoPath
  BY ReplayAssumption DEF Origin, NoPath
<1> QED
  BY <1>1, <1>2, <1>3, <1>4, <1>5

(* What is noted of a mode is a mode: the one there is, if there is one.   *)
LEMMA NotedType ==
    /\ \A m \in Mode \cup {NoMode} : OrLastState(m) \in Mode
    /\ \A m \in Mode : OrLastState(m) = m
BY DEF OrLastState, Mode, NoMode

LEMMA InitTypeOK == Init => TypeOK
<1> SUFFICES ASSUME Init PROVE TypeOK
  OBVIOUS
<1>1. deployed \in 1 .. MaxBase
  BY ReplayAssumption DEF Init
<1>2. sql \in SQL
  BY <1>1, OriginalType DEF Init
<1>3. cr \in CR /\ (cr.active <=> cr.prev # NoMode)
  BY DEF Init, CR, Mode, NoMode, Origin
<1> QED
  BY <1>1, <1>2, <1>3 DEF Init, TypeOK, Origin

LEMMA NextTypeOK == TypeOK /\ [Next]_vars => TypeOK'
<1> SUFFICES ASSUME TypeOK, [Next]_vars PROVE TypeOK'
  OBVIOUS
<1> USE DEF history
<1>1. CASE Suspend
  <2>1. cr' \in CR /\ (cr'.active <=> cr'.prev # NoMode) /\ (pending' = "redeploy" => cr'.path # NoPath)
    BY <1>1, StateType DEF Suspend, Patches, TypeOK, Origin
  <2> QED
    BY <1>1, <2>1 DEF Suspend, Patches, TypeOK
<1>2. CASE Resume
  <2>1. cr' \in CR /\ (cr'.active <=> cr'.prev # NoMode) /\ (pending' = "redeploy" => cr'.path # NoPath)
    BY <1>2, StateType DEF Resume, Patches, TypeOK, Origin
  <2> QED
    BY <1>2, <2>1 DEF Resume, Patches, TypeOK
<1>3. CASE Rollback
  <2>1. cr' \in CR /\ (cr'.active <=> cr'.prev # NoMode) /\ (pending' = "redeploy" => cr'.path # NoPath)
    <3>1. PICK p \in {0, job.origin} :
            Patches([cr EXCEPT !.state = "running", !.path = p], "redeploy")
      BY <1>3 DEF Rollback
    <3>2. p \in Origin
      BY DEF TypeOK, Origin
    <3> QED
      BY <3>1, <3>2, PathType DEF Patches
  <2> QED
    BY <1>3, <2>1 DEF Rollback, Patches, TypeOK
<1>4. CASE StartRestart
  <2>1. cur' \in Operation
    BY <1>4, BeginType DEF StartRestart, Operation, Begin, PC, RestartPC
  <2> QED
    BY <1>4, <2>1 DEF StartRestart, TypeOK
<1>5. CASE StartReplay
  <2>1. PICK t \in Millis :
          cur' = [Begin("backup") EXCEPT !.sql = sql, !.had = backup # NoSQL,
                                         !.from = t, !.mode = OrLastState(cr.mode)]
    BY <1>5 DEF StartReplay
  <2>2. cur' \in Operation
    BY <2>1, BeginReplayType, NotedType DEF TypeOK, CR, Origin
  <2> QED
    BY <1>5, <2>2 DEF StartReplay, TypeOK
<1>6. CASE StartRevert
  <2>1. cur' \in Operation
    <3>1. backup \in SQL
      BY <1>6 DEF StartRevert, TypeOK
    <3>2. OrLastState(cr.prev) \in Mode
      BY NotedType DEF TypeOK, CR
    <3> QED
      BY <1>6, <3>1, <3>2, BeginRevertType DEF StartRevert
  <2> QED
    BY <1>6, <2>1 DEF StartRevert, TypeOK
<1>7. CASE RestartSuspends
  <2>1. cur \in Operation
    BY <1>7, Holder DEF RestartSuspends
  <2>2. cr' \in CR /\ (cr'.active <=> cr'.prev # NoMode) /\ (pending' = "redeploy" => cr'.path # NoPath)
    BY <1>7, StateType DEF RestartSuspends, Patch, TypeOK, Origin
  <2>3. cur' \in Operation \cup {Idle}
    BY <1>7, <2>1, GotoType DEF RestartSuspends, Patch, Finish, PC, RestartPC
  <2> QED
    BY <1>7, <2>2, <2>3 DEF RestartSuspends, Patch, TypeOK
<1>8. CASE RestartWaits
  <2>1. cur' \in Operation
    BY <1>8, Holder, GotoType DEF RestartWaits, PC, RestartPC
  <2> QED
    BY <1>8, <2>1 DEF RestartWaits, TypeOK
<1>9. CASE RestartResumes
  <2>1. cr' \in CR /\ (cr'.active <=> cr'.prev # NoMode) /\ (pending' = "redeploy" => cr'.path # NoPath)
    BY <1>9, StateType DEF RestartResumes, Patch, TypeOK, Origin
  <2> QED
    BY <1>9, <2>1 DEF RestartResumes, Patch, Finish, TypeOK
<1>10. CASE BackUp
  <2>1. cur \in Operation
    BY <1>10, Holder DEF BackUp
  <2>2. cur' \in Operation \cup {Idle}
    BY <1>10, <2>1, GotoType DEF BackUp, Finish, PC, ReplayPC, RestartPC
  <2> QED
    BY <1>10, <2>1, <2>2 DEF BackUp, TypeOK, Operation, Fields, RestartPC
<1>11. CASE Rewrite
  <2>1. cur \in Operation
    BY <1>11, Holder DEF Rewrite
  <2>2. Rewritten(cur.sql, cur.from) \in SQL
    BY <1>11, <2>1, RewrittenType DEF Rewrite, Operation, Fields, ReplayPC, RestartPC
  <2>3. cur' \in Operation \cup {Idle}
    BY <1>11, <2>1, GotoType DEF Rewrite, Finish, PC, ReplayPC, RestartPC
  <2> QED
    BY <1>11, <2>2, <2>3 DEF Rewrite, TypeOK
<1>12. CASE PatchForward
  <2>1. cur \in Operation
    BY <1>12, Holder DEF PatchForward
  <2>2. cr' \in CR /\ (cr'.active <=> cr'.prev # NoMode) /\ (pending' = "redeploy" => cr'.path # NoPath)
    BY <1>12, <2>1, ReplayForwardType DEF PatchForward, Patch, TypeOK, ChecksumChanged
  <2> QED
    BY <1>12, <2>2 DEF PatchForward, Patch, Finish, TypeOK, ChecksumChanged
<1>13. CASE TakeSavepoint
  <2>1. cur \in Operation
    BY <1>13, Holder DEF TakeSavepoint
  <2>2. cur' \in Operation \cup {Idle}
    BY <1>13, <2>1 DEF TakeSavepoint, Finish, TypeOK, Operation, Fields, RevertPC, RestartPC
  <2> QED
    BY <1>13, <2>2 DEF TakeSavepoint, TypeOK
<1>14. CASE Restore
  <2>1. cur \in Operation
    BY <1>14, Holder DEF Restore
  <2>2. cur' \in Operation \cup {Idle}
    BY <1>14, <2>1, GotoType DEF Restore, Finish, PC, RevertPC, RestartPC
  <2> QED
    BY <1>14, <2>1, <2>2 DEF Restore, TypeOK, Operation, Fields, RestartPC
<1>15. CASE PatchRedeploy
  <2>1. cur \in Operation
    BY <1>15, Holder DEF PatchRedeploy
  <2>2. cr' \in CR /\ (cr'.active <=> cr'.prev # NoMode) /\ (pending' = "redeploy" => cr'.path # NoPath)
    BY <1>15, <2>1, RevertRedeployType DEF PatchRedeploy, Patch, TypeOK
  <2>3. cur' \in Operation \cup {Idle}
    BY <1>15, <2>1, GotoType DEF PatchRedeploy, Patch, Finish, PC, RevertPC, RestartPC
  <2> QED
    BY <1>15, <2>2, <2>3 DEF PatchRedeploy, Patch, TypeOK
<1>16. CASE ClearBackup
  BY <1>16 DEF ClearBackup, Finish, TypeOK
<1>17. CASE OperatorStops
  BY <1>17 DEF OperatorStops, TypeOK
<1>18. CASE OperatorStarts
  BY <1>18 DEF OperatorStarts, TypeOK, SQL, Origin, CR
<1>19. CASE PodRestarts
  BY <1>19 DEF PodRestarts, TypeOK
<1>20. CASE Crash
  BY <1>20 DEF Crash, Finish, TypeOK
<1>21. CASE Deploy
  BY <1>21, ReplayAssumption DEF Deploy, TypeOK, SQL, ChecksumChanged
<1>22. CASE CalmDown
  BY <1>22 DEF CalmDown, TypeOK
<1>23. CASE UNCHANGED vars
  BY <1>23 DEF vars, TypeOK
<1> QED
  BY <1>1, <1>2, <1>3, <1>4, <1>5, <1>6, <1>7, <1>8, <1>9, <1>10, <1>11, <1>12, <1>13,
     <1>14, <1>15, <1>16, <1>17, <1>18, <1>19, <1>20, <1>21, <1>22, <1>23
  DEF Next, Start, Step, RestartStep, ReplayStep, RevertStep, Environment

(* Every state of the replay service is well typed; in particular the      *)
(* session's annotations are always there together or not at all.          *)
THEOREM TypeCorrect == Spec => []TypeOK
BY InitTypeOK, NextTypeOK, PTL DEF Spec

-----------------------------------------------------------------------------
(* The deployed SQL is never lost.                                         *)

(* What the steps do to the holder.                                        *)
LEMMA GotoKeeps ==
    ASSUME cur \in Operation, NEW pc, Goto(pc)
    PROVE  /\ cur'.pc = pc /\ cur'.sql = cur.sql /\ cur'.had = cur.had
           /\ cur'.mode = cur.mode /\ cur'.from = cur.from
BY DEF Goto, Operation, Fields

LEMMA FinishIdles ==
    ASSUME Finish
    PROVE  /\ cur'.pc = "idle"
           /\ cur'.pc \notin ReplayPC \cup RevertPC
BY DEF Finish, Idle, ReplayPC, RevertPC

(* Preflights note what they have read.                                    *)
LEMMA BeginReplayNotes ==
    ASSUME NEW s \in SQL, NEW h \in BOOLEAN, NEW f \in Origin, NEW m \in Mode,
           cur' = [Begin("backup") EXCEPT !.sql = s, !.had = h, !.from = f, !.mode = m]
    PROVE  cur'.pc = "backup" /\ cur'.sql = s /\ (cur'.had <=> h) /\ cur'.mode = m
BY DEF Begin

LEMMA BeginRevertNotes ==
    ASSUME NEW s \in SQL, NEW m \in Mode,
           cur' = [Begin("savepoint") EXCEPT !.sql = s, !.mode = m]
    PROVE  cur'.pc = "savepoint" /\ cur'.sql = s /\ cur'.mode = m
BY DEF Begin

(* A rewriting keeps what was deployed.                                    *)
LEMMA RewrittenBase ==
    ASSUME NEW s \in SQL, NEW t \in Origin
    PROVE  Rewritten(s, t).base = s.base
BY DEF Rewritten, SQL

LEMMA OriginalIsSQL ==
    ASSUME TypeOK
    PROVE  Original \in SQL /\ Original # NoSQL /\ Original.base = deployed
BY DEF TypeOK, Original, SQL, NoSQL

LEMMA InitReplayInv == Init => ReplayInv
<1> SUFFICES ASSUME Init PROVE ReplayInv
  OBVIOUS
<1>1. sql = Original /\ backup = NoSQL /\ cr.active = FALSE
  BY DEF Init
<1>2. sql.base = deployed
  BY <1>1 DEF Original
<1>3. cur.pc = "idle"
  BY DEF Init, Idle
<1> QED
  BY <1>1, <1>2, <1>3 DEF ReplayInv, OriginalKept, Revertible, ReplayPC, RevertPC

LEMMA NextReplayInv ==
    ASSUME CleanDeploys = TRUE, TypeOK, ReplayInv, [Next]_vars
    PROVE  ReplayInv'
<1> USE DEF history
<1>0. UNCHANGED deployed => Original' = Original
  BY DEF Original
<1>1. CASE Suspend
  BY <1>0, <1>1 DEF Suspend, Patches, ReplayInv, OriginalKept, Revertible, TypeOK, CR
<1>2. CASE Resume
  BY <1>0, <1>2 DEF Resume, Patches, ReplayInv, OriginalKept, Revertible, TypeOK, CR
<1>3. CASE Rollback
  BY <1>0, <1>3 DEF Rollback, Patches, ReplayInv, OriginalKept, Revertible, TypeOK, CR
<1>4. CASE StartRestart
  BY <1>0, <1>4 DEF StartRestart, Begin, ReplayInv, OriginalKept, Revertible, ReplayPC, RevertPC
<1>5. CASE StartReplay
  <2>1. PICK t \in Millis :
          cur' = [Begin("backup") EXCEPT !.sql = sql, !.had = backup # NoSQL,
                                         !.from = t, !.mode = OrLastState(cr.mode)]
    BY <1>5 DEF StartReplay
  <2>2. cur'.pc = "backup" /\ cur'.sql = sql /\ (cur'.had <=> backup # NoSQL)
    BY <2>1, BeginReplayNotes, NotedType DEF TypeOK, CR, Origin
  <2>3. sql.base = deployed
    BY <1>5 DEF ReplayInv, StartReplay
  <2> QED
    BY <1>0, <1>5, <2>2, <2>3
    DEF StartReplay, Locks, Idle, ReplayInv, OriginalKept, Revertible, ReplayPC, RevertPC
<1>6. CASE StartRevert
  <2>1. backup \in SQL /\ OrLastState(cr.prev) \in Mode
    BY <1>6, NotedType DEF StartRevert, TypeOK, CR
  <2>2. cur'.pc = "savepoint" /\ cur'.sql = backup
    BY <1>6, <2>1, BeginRevertNotes DEF StartRevert
  <2> QED
    BY <1>0, <1>6, <2>2
    DEF StartRevert, ReplayInv, OriginalKept, Revertible, ReplayPC, RevertPC
<1>7. CASE RestartSuspends
  <2>1. cur'.pc \notin ReplayPC \cup RevertPC
    BY <1>7, Holder, GotoKeeps, FinishIdles
    DEF RestartSuspends, Patch, ReplayPC, RevertPC
  <2>2. cr'.active = cr.active
    BY <1>7 DEF RestartSuspends, Patch, TypeOK, CR
  <2> QED
    BY <1>0, <1>7, <2>1, <2>2
    DEF RestartSuspends, ReplayInv, OriginalKept, Revertible, ReplayPC, RevertPC
<1>8. CASE RestartWaits
  <2>1. cur'.pc \notin ReplayPC \cup RevertPC
    BY <1>8, Holder, GotoKeeps DEF RestartWaits, ReplayPC, RevertPC
  <2> QED
    BY <1>0, <1>8, <2>1
    DEF RestartWaits, ReplayInv, OriginalKept, Revertible, ReplayPC, RevertPC
<1>9. CASE RestartResumes
  <2>1. cur'.pc \notin ReplayPC \cup RevertPC
    BY <1>9, FinishIdles DEF RestartResumes, Patch
  <2>2. cr'.active = cr.active
    BY <1>9 DEF RestartResumes, Patch, TypeOK, CR
  <2> QED
    BY <1>0, <1>9, <2>1, <2>2
    DEF RestartResumes, ReplayInv, OriginalKept, Revertible, ReplayPC, RevertPC
<1>10. CASE BackUp
  <2>1. cur \in Operation
    BY <1>10, Holder DEF BackUp
  <2>2. \/ backup' = Original
        \/ backup' = backup /\ cur'.pc = "idle"
    <3>1. CASE cur.had
      BY <1>10, <3>1 DEF BackUp, ReplayInv
    <3>2. CASE ~cur.had
      <4>1. backup = NoSQL /\ cur.sql = sql
        BY <1>10, <3>2 DEF BackUp, ReplayInv
      <4>2. cur.sql = Original
        BY <4>1, OriginalIsSQL DEF ReplayInv, OriginalKept
      <4> QED
        BY <1>10, <3>2, <4>2, FinishIdles DEF BackUp
    <3> QED
      BY <3>1, <3>2
  <2>3. (cur'.pc = "rewrite" /\ cur'.sql = cur.sql) \/ cur'.pc = "idle"
    BY <1>10, <2>1, GotoKeeps, FinishIdles DEF BackUp
  <2> QED
    BY <1>0, <1>10, <2>2, <2>3
    DEF BackUp, ReplayInv, OriginalKept, Revertible, ReplayPC, RevertPC
<1>11. CASE Rewrite
  <2>1. cur \in Operation
    BY <1>11, Holder DEF Rewrite
  <2>2. (cur'.pc = "patch" /\ cur'.sql = cur.sql) \/ cur'.pc = "idle"
    BY <1>11, <2>1, GotoKeeps, FinishIdles DEF Rewrite
  <2>3. sql'.base = deployed
    BY <1>11, <2>1, RewrittenBase
    DEF Rewrite, Operation, Fields, ReplayPC, RestartPC, ReplayInv
  <2> QED
    BY <1>0, <1>11, <2>2, <2>3
    DEF Rewrite, ReplayInv, OriginalKept, Revertible, ReplayPC, RevertPC
<1>12. CASE PatchForward
  <2>1. cur'.pc = "idle" /\ backup = Original
    BY <1>12, FinishIdles DEF PatchForward, Patch, ReplayInv
  <2> QED
    BY <1>0, <1>12, <2>1
    DEF PatchForward, ReplayInv, OriginalKept, Revertible, ReplayPC, RevertPC
<1>13. CASE TakeSavepoint
  <2>1. cur \in Operation
    BY <1>13, Holder DEF TakeSavepoint
  <2>2. (cur'.pc = "restore" /\ cur'.sql = cur.sql) \/ cur'.pc = "idle"
    BY <1>13, <2>1, FinishIdles DEF TakeSavepoint, Operation, Fields
  <2> QED
    BY <1>0, <1>13, <2>2
    DEF TakeSavepoint, ReplayInv, OriginalKept, Revertible, ReplayPC, RevertPC
<1>14. CASE Restore
  <2>1. cur \in Operation
    BY <1>14, Holder DEF Restore
  <2>2. \/ cur'.pc = "redeploy" /\ cur'.sql = cur.sql /\ sql' = cur.sql
        \/ cur'.pc = "idle"
    BY <1>14, <2>1, GotoKeeps, FinishIdles DEF Restore
  <2>3. sql'.base = deployed
    BY <1>14, OriginalIsSQL DEF Restore, ReplayInv, RevertPC
  <2> QED
    BY <1>0, <1>14, <2>2, <2>3
    DEF Restore, ReplayInv, OriginalKept, Revertible, ReplayPC, RevertPC
<1>15. CASE PatchRedeploy
  <2>1. cur \in Operation
    BY <1>15, Holder DEF PatchRedeploy
  <2>2. RevertRedeploy.active = FALSE
    BY DEF RevertRedeploy, TypeOK, CR
  <2>3. \/ cur'.pc = "clear" /\ cur'.sql = cur.sql /\ cr' = RevertRedeploy
        \/ cur'.pc = "idle"
    BY <1>15, <2>1, GotoKeeps, FinishIdles DEF PatchRedeploy, Patch
  <2>4. sql = Original /\ backup = Original /\ cur.sql = Original
    BY <1>15 DEF PatchRedeploy, ReplayInv, RevertPC
  <2> QED
    BY <1>0, <1>15, <2>2, <2>3, <2>4
    DEF PatchRedeploy, ReplayInv, OriginalKept, Revertible, ReplayPC, RevertPC
<1>16. CASE ClearBackup
  <2>1. sql = Original /\ ~cr.active /\ cur'.pc = "idle"
    BY <1>16, FinishIdles DEF ClearBackup, ReplayInv
  <2> QED
    BY <1>0, <1>16, <2>1
    DEF ClearBackup, ReplayInv, OriginalKept, Revertible, ReplayPC, RevertPC
<1>17. CASE OperatorStops
  BY <1>0, <1>17 DEF OperatorStops, ReplayInv, OriginalKept, Revertible
<1>18. CASE OperatorStarts
  BY <1>0, <1>18 DEF OperatorStarts, ReplayInv, OriginalKept, Revertible
<1>19. CASE PodRestarts
  BY <1>0, <1>19 DEF PodRestarts, ReplayInv, OriginalKept, Revertible
<1>20. CASE Crash
  <2>1. cur'.pc = "idle"
    BY <1>20, FinishIdles DEF Crash
  <2> QED
    BY <1>0, <1>20, <2>1
    DEF Crash, ReplayInv, OriginalKept, Revertible, ReplayPC, RevertPC
<1>21. CASE Deploy
  <2>1. sql' = Original' /\ backup' = NoSQL /\ cur' = Idle /\ sql'.base = deployed'
    BY <1>21 DEF Deploy, Original
  <2> QED
    BY <1>21, <2>1
    DEF Deploy, Idle, ReplayInv, OriginalKept, Revertible, ReplayPC, RevertPC
<1>22. CASE CalmDown
  BY <1>0, <1>22 DEF CalmDown, ReplayInv, OriginalKept, Revertible
<1>23. CASE UNCHANGED vars
  BY <1>0, <1>23 DEF vars, ReplayInv, OriginalKept, Revertible
<1> QED
  BY <1>1, <1>2, <1>3, <1>4, <1>5, <1>6, <1>7, <1>8, <1>9, <1>10, <1>11, <1>12, <1>13,
     <1>14, <1>15, <1>16, <1>17, <1>18, <1>19, <1>20, <1>21, <1>22, <1>23
  DEF Next, Start, Step, RestartStep, ReplayStep, RevertStep, Environment

(* As long as SQL is deployed only when no backup is kept, the SQL that    *)
(* was deployed is never lost and an active session can be reverted to it, *)
(* wherever operations fail or are cut short.                              *)
THEOREM OriginalIsKept ==
    ASSUME CleanDeploys = TRUE
    PROVE  Spec => [](ReplayInv /\ OriginalKept /\ Revertible)
<1>1. TypeOK /\ ReplayInv /\ [Next]_vars => ReplayInv'
  BY NextReplayInv
<1>2. ReplayInv => OriginalKept /\ Revertible
  BY DEF ReplayInv
<1> QED
  BY InitReplayInv, TypeCorrect, <1>1, <1>2, PTL DEF Spec
-----------------------------------------------------------------------------
(* A session gives the upgradeMode back.                                   *)

LEMMA InitModeInv == Init => ModeInv
<1> SUFFICES ASSUME Init PROVE ModeInv
  OBVIOUS
<1>1. cr.mode = chosen /\ cr.active = FALSE
  BY DEF Init
<1>2. cur.pc = "idle"
  BY DEF Init, Idle
<1> QED
  BY <1>1, <1>2 DEF ModeInv, ModeRestored, ReplayPC, RevertPC

(* A patch of the state or the path alone.                                 *)
LEMMA StateKeepsMode ==
    ASSUME TypeOK, NEW st, NEW p,
           cr' \in {cr, [cr EXCEPT !.state = st], [cr EXCEPT !.state = st, !.path = p]}
    PROVE  cr'.mode = cr.mode /\ cr'.active = cr.active /\ cr'.prev = cr.prev
BY DEF TypeOK, CR

LEMMA NextModeInv ==
    ASSUME Panel = TRUE, TypeOK, ModeInv, [Next]_vars
    PROVE  ModeInv'
<1> USE DEF history
<1>1. CASE Suspend
  BY <1>1, StateKeepsMode DEF Suspend, Patches, ModeInv, ModeRestored
<1>2. CASE Resume
  BY <1>2, StateKeepsMode DEF Resume, Patches, ModeInv, ModeRestored
<1>3. CASE Rollback
  <2>1. PICK p \in {0, job.origin} : cr' = [cr EXCEPT !.state = "running", !.path = p]
    BY <1>3 DEF Rollback, Patches
  <2>2. cr'.mode = cr.mode /\ cr'.active = cr.active /\ cr'.prev = cr.prev
    BY <2>1, StateKeepsMode
  <2> QED
    BY <1>3, <2>2 DEF Rollback, Patches, ModeInv, ModeRestored
<1>4. CASE StartRestart
  BY <1>4 DEF StartRestart, Begin, ModeInv, ModeRestored, ReplayPC, RevertPC
<1>5. CASE StartReplay
  <2>1. PICK t \in Millis :
          cur' = [Begin("backup") EXCEPT !.sql = sql, !.had = backup # NoSQL,
                                         !.from = t, !.mode = OrLastState(cr.mode)]
    BY <1>5 DEF StartReplay
  <2>2. cur'.pc = "backup" /\ cur'.mode = OrLastState(cr.mode)
    BY <2>1 DEF Begin
  <2>3. ~cr.active /\ cr.mode \in {chosen, OrLastState(chosen)}
    BY <1>5 DEF StartReplay, ModeInv, ModeRestored
  <2>4. OrLastState(cr.mode) = OrLastState(chosen)
    BY <2>3, NotedType DEF TypeOK
  <2> QED
    BY <1>5, <2>2, <2>3, <2>4 DEF StartReplay, ModeInv, ModeRestored, ReplayPC, RevertPC
<1>6. CASE StartRevert
  <2>1. cr.active /\ cr.prev = OrLastState(chosen) /\ cr.prev \in Mode /\ backup \in SQL
    BY <1>6, NotedType DEF StartRevert, ModeInv, TypeOK
  <2>2. OrLastState(cr.prev) = OrLastState(chosen) /\ OrLastState(cr.prev) \in Mode
    BY <2>1, NotedType
  <2>3. cur'.pc = "savepoint" /\ cur'.mode = OrLastState(chosen)
    BY <1>6, <2>1, <2>2, BeginRevertNotes DEF StartRevert
  <2> QED
    BY <1>6, <2>1, <2>3 DEF StartRevert, ModeInv, ModeRestored, ReplayPC, RevertPC
<1>7. CASE RestartSuspends
  <2>1. cur'.pc \notin ReplayPC \cup RevertPC
    BY <1>7, Holder, GotoKeeps, FinishIdles
    DEF RestartSuspends, Patch, ReplayPC, RevertPC
  <2>2. cr'.mode = cr.mode /\ cr'.active = cr.active /\ cr'.prev = cr.prev
    BY <1>7, StateKeepsMode DEF RestartSuspends, Patch
  <2> QED
    BY <1>7, <2>1, <2>2 DEF RestartSuspends, ModeInv, ModeRestored
<1>8. CASE RestartWaits
  <2>1. cur'.pc \notin ReplayPC \cup RevertPC
    BY <1>8, Holder, GotoKeeps DEF RestartWaits, ReplayPC, RevertPC
  <2> QED
    BY <1>8, <2>1 DEF RestartWaits, ModeInv, ModeRestored
<1>9. CASE RestartResumes
  <2>1. cur'.pc \notin ReplayPC \cup RevertPC
    BY <1>9, FinishIdles DEF RestartResumes, Patch
  <2>2. cr'.mode = cr.mode /\ cr'.active = cr.active /\ cr'.prev = cr.prev
    BY <1>9, StateKeepsMode DEF RestartResumes, Patch
  <2> QED
    BY <1>9, <2>1, <2>2 DEF RestartResumes, ModeInv, ModeRestored
<1>10. CASE BackUp
  <2>1. cur'.pc \in {"rewrite", "idle"} /\ (cur'.pc = "rewrite" => cur'.mode = cur.mode)
    BY <1>10, Holder, GotoKeeps, FinishIdles DEF BackUp
  <2> QED
    BY <1>10, <2>1 DEF BackUp, ModeInv, ModeRestored, ReplayPC, RevertPC
<1>11. CASE Rewrite
  <2>1. cur'.pc \in {"patch", "idle"} /\ (cur'.pc = "patch" => cur'.mode = cur.mode)
    BY <1>11, Holder, GotoKeeps, FinishIdles DEF Rewrite
  <2> QED
    BY <1>11, <2>1 DEF Rewrite, ModeInv, ModeRestored, ReplayPC, RevertPC
<1>12. CASE PatchForward
  <2>1. cur'.pc \notin ReplayPC \cup RevertPC
    BY <1>12, FinishIdles DEF PatchForward, Patch
  <2>2. cur.mode = OrLastState(chosen)
    BY <1>12 DEF PatchForward, ModeInv, ReplayPC
  <2>3. /\ ReplayForward.mode = "stateless"
        /\ ReplayForward.active = TRUE
        /\ ReplayForward.prev = OrLastState(chosen)
    BY <2>2 DEF ReplayForward, TypeOK, CR
  <2>4. cr' \in {cr, ReplayForward}
    BY <1>12 DEF PatchForward, Patch
  <2> QED
    BY <1>12, <2>1, <2>3, <2>4 DEF PatchForward, ModeInv, ModeRestored
<1>13. CASE TakeSavepoint
  <2>1. \/ cur'.pc = "restore" /\ cur'.mode = cur.mode
        \/ cur'.pc = "idle"
    BY <1>13, Holder, FinishIdles DEF TakeSavepoint, Operation, Fields
  <2> QED
    BY <1>13, <2>1 DEF TakeSavepoint, ModeInv, ModeRestored, ReplayPC, RevertPC
<1>14. CASE Restore
  <2>1. \/ cur'.pc = "redeploy" /\ cur'.mode = cur.mode
        \/ cur'.pc = "idle"
    BY <1>14, Holder, GotoKeeps, FinishIdles DEF Restore
  <2> QED
    BY <1>14, <2>1 DEF Restore, ModeInv, ModeRestored, ReplayPC, RevertPC
<1>15. CASE PatchRedeploy
  <2>1. cur'.pc \in {"clear", "idle"}
    BY <1>15, Holder, GotoKeeps, FinishIdles DEF PatchRedeploy, Patch
  <2>2. cur.mode = OrLastState(chosen)
    BY <1>15 DEF PatchRedeploy, ModeInv, RevertPC
  <2>3. RevertRedeploy.mode = OrLastState(chosen) /\ RevertRedeploy.active = FALSE
    BY <2>2 DEF RevertRedeploy, TypeOK, CR
  <2>4. cr' \in {cr, RevertRedeploy}
    BY <1>15 DEF PatchRedeploy, Patch
  <2> QED
    BY <1>15, <2>1, <2>3, <2>4
    DEF PatchRedeploy, ModeInv, ModeRestored, ReplayPC, RevertPC
<1>16. CASE ClearBackup
  <2>1. cur'.pc \notin ReplayPC \cup RevertPC
    BY <1>16, FinishIdles DEF ClearBackup
  <2> QED
    BY <1>16, <2>1 DEF ClearBackup, ModeInv, ModeRestored
<1>17. CASE OperatorStops
  BY <1>17 DEF OperatorStops, ModeInv, ModeRestored
<1>18. CASE OperatorStarts
  BY <1>18 DEF OperatorStarts, ModeInv, ModeRestored
<1>19. CASE PodRestarts
  BY <1>19 DEF PodRestarts, ModeInv, ModeRestored
<1>20. CASE Crash
  <2>1. cur'.pc \notin ReplayPC \cup RevertPC
    BY <1>20, FinishIdles DEF Crash
  <2> QED
    BY <1>20, <2>1 DEF Crash, ModeInv, ModeRestored
<1>21. CASE Deploy
  BY <1>21 DEF Deploy, ModeInv, ModeRestored
<1>22. CASE CalmDown
  BY <1>22 DEF CalmDown, ModeInv, ModeRestored
<1>23. CASE UNCHANGED vars
  BY <1>23 DEF vars, ModeInv, ModeRestored
<1> QED
  BY <1>1, <1>2, <1>3, <1>4, <1>5, <1>6, <1>7, <1>8, <1>9, <1>10, <1>11, <1>12, <1>13,
     <1>14, <1>15, <1>16, <1>17, <1>18, <1>19, <1>20, <1>21, <1>22, <1>23
  DEF Next, Start, Step, RestartStep, ReplayStep, RevertStep, Environment

(* As long as reverts are asked for in a session only, as the panel does,  *)
(* the upgradeMode is stateless during a session and the one the           *)
(* deployment came with outside, or last-state if it came without one,     *)
(* wherever replays and reverts fail or are cut short.                     *)
THEOREM ModeIsRestored ==
    ASSUME Panel = TRUE
    PROVE  Spec => [](ModeInv /\ ModeRestored)
<1>1. TypeOK /\ ModeInv /\ [Next]_vars => ModeInv'
  BY NextModeInv
<1>2. ModeInv => ModeRestored
  BY DEF ModeInv
<1> QED
  BY InitModeInv, TypeCorrect, <1>1, <1>2, PTL DEF Spec
-----------------------------------------------------------------------------
(* A session replays from its own timestamp.                               *)

LEMMA InitTimestampInv == Init => TimestampInv
<1> SUFFICES ASSUME Init PROVE TimestampInv
  OBVIOUS
<1>1. cr.active = FALSE /\ backup = NoSQL /\ sql.from = 0
  BY DEF Init, Original
<1>2. cur.pc = "idle"
  BY DEF Init, Idle
<1> QED
  BY <1>1, <1>2 DEF TimestampInv, ReplayPC, RevertPC

(* A patch of the state, or of the path as well, keeps the session.        *)
LEMMA StateKeepsSession ==
    ASSUME TypeOK, NEW st, cr' \in {cr, [cr EXCEPT !.state = st]}
    PROVE  cr'.active = cr.active /\ cr'.from = cr.from /\ cr'.path = cr.path
BY DEF TypeOK, CR

LEMMA PathKeepsSession ==
    ASSUME TypeOK, NEW st, NEW p, cr' = [cr EXCEPT !.state = st, !.path = p]
    PROVE  cr'.active = cr.active /\ cr'.from = cr.from
BY DEF TypeOK, CR

LEMMA BeginReplayStarts ==
    ASSUME NEW s, NEW h, NEW t, NEW m,
           cur' = [Begin("backup") EXCEPT !.sql = s, !.had = h, !.from = t, !.mode = m]
    PROVE  cur'.pc = "backup" /\ cur'.sql = s /\ cur'.had = h /\ cur'.from = t
BY DEF Begin

(* What starts from a timestamp is a job that reads the session's SQL      *)
(* without any state.                                                      *)
LEMMA StartReplays ==
    ASSUME TypeOK, ModeInv, OperatorStarts, cr.active, cr.from = sql.from
    PROVE  job'.origin \in {cr.from, cr.path}
<1>1. cr.mode = "stateless"
  BY DEF ModeInv, ModeRestored
<1> QED
  BY <1>1 DEF OperatorStarts

LEMMA NextTimestampInv ==
    ASSUME TypeOK, ModeInv, TimestampInv, [Next]_vars
    PROVE  TimestampInv'
<1> USE DEF history
<1>1. CASE Suspend
  <2>1. cr'.active = cr.active /\ cr'.from = cr.from /\ cr'.path = cr.path
    BY <1>1, StateKeepsSession DEF Suspend, Patches
  <2> QED
    BY <1>1, <2>1 DEF Suspend, Patches, TimestampInv
<1>2. CASE Resume
  <2>1. cr'.active = cr.active /\ cr'.from = cr.from /\ cr'.path = cr.path
    BY <1>2, StateKeepsSession DEF Resume, Patches
  <2> QED
    BY <1>2, <2>1 DEF Resume, Patches, TimestampInv
<1>3. CASE Rollback
  <2>1. PICK p \in {0, job.origin} : cr' = [cr EXCEPT !.state = "running", !.path = p]
    BY <1>3 DEF Rollback, Patches
  <2>2. cr'.active = cr.active /\ cr'.from = cr.from
    BY <2>1, PathKeepsSession
  <2> QED
    BY <1>3, <2>2 DEF Rollback, Patches, TimestampInv
<1>4. CASE StartRestart
  BY <1>4 DEF StartRestart, Begin, TimestampInv, ReplayPC, RevertPC
<1>5. CASE StartReplay
  <2>1. PICK t \in Millis :
          cur' = [Begin("backup") EXCEPT !.sql = sql, !.had = backup # NoSQL,
                                         !.from = t, !.mode = OrLastState(cr.mode)]
    BY <1>5 DEF StartReplay
  <2>2. cur'.pc = "backup" /\ cur'.sql = sql /\ (cur'.had <=> backup # NoSQL) /\ cur'.from = t
    BY <2>1, BeginReplayStarts
  <2>3. t # 0
    BY ReplayAssumption
  <2> QED
    BY <1>5, <2>2, <2>3 DEF StartReplay, TimestampInv, ReplayPC, RevertPC
<1>6. CASE StartRevert
  <2>1. backup \in SQL /\ OrLastState(cr.prev) \in Mode
    BY <1>6, NotedType DEF StartRevert, TypeOK, CR
  <2>2. cur'.pc = "savepoint" /\ cur'.sql = backup
    BY <1>6, <2>1, BeginRevertNotes DEF StartRevert
  <2>3. backup.from = 0
    BY <1>6 DEF StartRevert, TimestampInv
  <2> QED
    BY <1>6, <2>2, <2>3 DEF StartRevert, TimestampInv, ReplayPC, RevertPC
<1>7. CASE RestartSuspends
  <2>1. cur'.pc \notin ReplayPC \cup RevertPC
    BY <1>7, Holder, GotoKeeps, FinishIdles
    DEF RestartSuspends, Patch, ReplayPC, RevertPC
  <2>2. cr'.active = cr.active /\ cr'.from = cr.from /\ cr'.path = cr.path
    BY <1>7, StateKeepsSession DEF RestartSuspends, Patch
  <2>3. pending' = pending
    BY <1>7 DEF RestartSuspends, Patch
  <2> QED
    BY <1>7, <2>1, <2>2, <2>3 DEF RestartSuspends, TimestampInv, ReplayPC, RevertPC
<1>8. CASE RestartWaits
  <2>1. cur'.pc \notin ReplayPC \cup RevertPC
    BY <1>8, Holder, GotoKeeps DEF RestartWaits, ReplayPC, RevertPC
  <2> QED
    BY <1>8, <2>1 DEF RestartWaits, TimestampInv, ReplayPC, RevertPC
<1>9. CASE RestartResumes
  <2>1. cur'.pc \notin ReplayPC \cup RevertPC
    BY <1>9, FinishIdles DEF RestartResumes, Patch
  <2>2. cr'.active = cr.active /\ cr'.from = cr.from /\ cr'.path = cr.path
    BY <1>9, StateKeepsSession DEF RestartResumes, Patch
  <2>3. pending' = pending
    BY <1>9 DEF RestartResumes, Patch
  <2> QED
    BY <1>9, <2>1, <2>2, <2>3 DEF RestartResumes, TimestampInv, ReplayPC, RevertPC
<1>10. CASE BackUp
  <2>1. cur \in Operation /\ cur.sql # NoSQL
    BY <1>10, Holder DEF BackUp, Operation, RestartPC
  <2>2. cur'.pc = "idle" \/ (cur'.pc = "rewrite" /\ cur'.from = cur.from /\ backup' # NoSQL)
    <3>1. cur'.pc = "idle" \/ (cur'.pc = "rewrite" /\ cur'.from = cur.from)
      BY <1>10, <2>1, GotoKeeps, FinishIdles DEF BackUp
    <3>2. cur'.pc = "idle" \/ backup' # NoSQL
      BY <1>10, <2>1, FinishIdles DEF BackUp, TimestampInv
    <3> QED
      BY <3>1, <3>2
  <2>3. IF backup' = NoSQL THEN sql'.from = 0 ELSE backup'.from = 0
    BY <1>10, <2>1 DEF BackUp, TimestampInv
  <2> QED
    BY <1>10, <2>2, <2>3 DEF BackUp, TimestampInv, ReplayPC, RevertPC
<1>11. CASE Rewrite
  <2>1. ~cr.active /\ backup # NoSQL
    BY <1>11 DEF Rewrite, ModeInv, ReplayPC, TimestampInv
  <2>2. cur'.pc = "idle" \/ (cur'.pc = "patch" /\ cur'.from = cur.from)
    BY <1>11, Holder, GotoKeeps, FinishIdles DEF Rewrite
  <2> QED
    BY <1>11, <2>1, <2>2 DEF Rewrite, TimestampInv, ReplayPC, RevertPC
<1>12. CASE PatchForward
  <2>1. cur'.pc = "idle"
    BY <1>12, FinishIdles DEF PatchForward, Patch
  <2>2. ~cr.active /\ cur.from # 0
    BY <1>12 DEF PatchForward, ModeInv, TimestampInv, ReplayPC
  <2>3. ReplayForward.from = cur.from /\ ChecksumChanged(pending) # "none"
    BY DEF ReplayForward, TypeOK, CR, ChecksumChanged
  <2>4. \/ cr' = ReplayForward /\ pending' = ChecksumChanged(pending)
        \/ cr' = cr
    BY <1>12 DEF PatchForward, Patch
  <2> QED
    BY <1>12, <2>1, <2>2, <2>3, <2>4 DEF PatchForward, TimestampInv, ReplayPC, RevertPC
<1>13. CASE TakeSavepoint
  <2>1. (cur'.pc = "restore" /\ cur'.sql = cur.sql) \/ cur'.pc = "idle"
    BY <1>13, Holder, FinishIdles DEF TakeSavepoint, Operation, Fields
  <2> QED
    BY <1>13, <2>1 DEF TakeSavepoint, TimestampInv, ReplayPC, RevertPC
<1>14. CASE Restore
  <2>1. cur.sql.from = 0
    BY <1>14 DEF Restore, TimestampInv, RevertPC
  <2>2. \/ cur'.pc = "redeploy" /\ cur'.sql = cur.sql /\ sql' = cur.sql
        \/ cur'.pc = "idle" /\ sql' \in {sql, cur.sql}
    BY <1>14, Holder, GotoKeeps, FinishIdles DEF Restore
  <2>3. sql'.from \in {0, sql.from}
    BY <2>1, <2>2
  <2> QED
    BY <1>14, <2>1, <2>2, <2>3 DEF Restore, TimestampInv, ReplayPC, RevertPC
<1>15. CASE PatchRedeploy
  <2>1. (cur'.pc = "clear" /\ cur'.sql = cur.sql) \/ cur'.pc = "idle"
    BY <1>15, Holder, GotoKeeps, FinishIdles DEF PatchRedeploy, Patch
  <2>2. RevertRedeploy.active = FALSE
    BY DEF RevertRedeploy, TypeOK, CR
  <2>3. cr' = RevertRedeploy \/ (cr' = cr /\ pending' = pending)
    BY <1>15 DEF PatchRedeploy, Patch
  <2> QED
    BY <1>15, <2>1, <2>2, <2>3 DEF PatchRedeploy, TimestampInv, ReplayPC, RevertPC
<1>16. CASE ClearBackup
  <2>1. cur'.pc = "idle" /\ sql.from = 0
    BY <1>16, FinishIdles DEF ClearBackup, TimestampInv
  <2> QED
    BY <1>16, <2>1 DEF ClearBackup, TimestampInv, ReplayPC, RevertPC
<1>17. CASE OperatorStops
  <2>1. job'.up = FALSE
    BY <1>17 DEF OperatorStops, TypeOK
  <2> QED
    BY <1>17, <2>1 DEF OperatorStops, TimestampInv
<1>18. CASE OperatorStarts
  <2>1. job'.sql = sql
    BY <1>18 DEF OperatorStarts
  <2>2. cr.active /\ cr.from = sql.from => job'.origin \in {cr.from, cr.path}
    BY <1>18, StartReplays
  <2> QED
    BY <1>18, <2>1, <2>2 DEF OperatorStarts, TimestampInv
<1>19. CASE PodRestarts
  <2>1. job'.sql = sql /\ job'.origin = job.origin
    BY <1>19 DEF PodRestarts, TypeOK
  <2> QED
    BY <1>19, <2>1 DEF PodRestarts, TimestampInv
<1>20. CASE Crash
  <2>1. cur'.pc = "idle"
    BY <1>20, FinishIdles DEF Crash
  <2> QED
    BY <1>20, <2>1 DEF Crash, TimestampInv, ReplayPC, RevertPC
<1>21. CASE Deploy
  <2>1. sql'.from = 0 /\ cur'.pc = "idle" /\ ~cr.active
    BY <1>21 DEF Deploy, Idle
  <2> QED
    BY <1>21, <2>1 DEF Deploy, TimestampInv, ReplayPC, RevertPC
<1>22. CASE CalmDown
  BY <1>22 DEF CalmDown, TimestampInv
<1>23. CASE UNCHANGED vars
  BY <1>23 DEF vars, TimestampInv
<1> QED
  BY <1>1, <1>2, <1>3, <1>4, <1>5, <1>6, <1>7, <1>8, <1>9, <1>10, <1>11, <1>12, <1>13,
     <1>14, <1>15, <1>16, <1>17, <1>18, <1>19, <1>20, <1>21, <1>22, <1>23
  DEF Next, Start, Step, RestartStep, ReplayStep, RevertStep, Environment

(* As long as reverts are asked for in a session only, a job that runs the *)
(* session's SQL has replayed from the session's timestamp once the        *)
(* operator has caught up, unless a Rollback chose its state since.        *)
THEOREM SessionsReplay ==
    ASSUME Panel = TRUE
    PROVE  Spec => [](SessionInv /\ SessionReplays)
<1>1. Init => SessionInv
  BY InitModeInv, InitTimestampInv DEF SessionInv
<1>2. TypeOK /\ SessionInv /\ [Next]_vars => SessionInv'
  BY NextModeInv, NextTimestampInv DEF SessionInv
<1>3. SessionInv => SessionReplays
  BY DEF SessionInv, TimestampInv, SessionReplays
<1> QED
  BY TypeCorrect, <1>1, <1>2, <1>3, PTL DEF Spec
=============================================================================
