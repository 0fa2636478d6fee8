--------------------------- MODULE ConsoleProofs ---------------------------
(* Proofs about Console for every number of slots, every retention and     *)
(* every bound.                                                            *)
EXTENDS Console, TLAPS

-----------------------------------------------------------------------------
(* Type correctness.                                                       *)

(* A slot that is busy holds an operation.                                 *)
LEMMA BusyType ==
    ASSUME TypeOK, NEW t \in Caller, Busy(t)
    PROVE  op[t] \in Operation
BY DEF TypeOK, Busy

LEMMA FirstCallType ==
    ASSUME NEW k \in Kind
    PROVE  /\ FirstCall[k] \in {"work", "stop", "nonce", "patch"}
           /\ k = "promote" => FirstCall[k] = "nonce"
           /\ FirstCall[k] = "stop" => k = "restart"
           /\ FirstCall[k] = "patch" => k \in {"suspend", "resume"}
BY DEF FirstCall, Kind, Locked, Tracked

LEMMA BegunType ==
    ASSUME nextId \in Nat, NEW k \in Kind
    PROVE  Begun(k) \in Operation
<1>1. FirstCall[k] \in Calls
  BY FirstCallType DEF Calls
<1> QED
  BY <1>1 DEF Begun, Operation

LEMMA GotoType ==
    ASSUME TypeOK, NEW t \in Caller, Busy(t),
           NEW pc \in Calls \cup {"lock", "report", "unlock"}, Goto(t, pc)
    PROVE  op' \in [Caller -> Operation \cup {Idle}]
<1>1. op[t] \in Operation
  BY BusyType
<1>2. [op[t] EXCEPT !.pc = pc] \in Operation
  BY <1>1 DEF Operation
<1> QED
  BY <1>2 DEF Goto, TypeOK

(* What End leaves behind: nothing of a Promote, otherwise an operation    *)
(* that has still to report or to unlock.                                  *)
LEMMA EndIs ==
    ASSUME TypeOK, NEW t \in Caller, Busy(t), NEW ok \in BOOLEAN, End(t, ok)
    PROVE  /\ op' \in [Caller -> Operation \cup {Idle}]
           /\ \A u \in Caller : u # t => op'[u] = op[u]
           /\ op[t].kind = "promote" => op'[t] = Idle
           /\ op[t].kind # "promote" =>
                 /\ op'[t] \in Operation
                 /\ op'[t].pc \in {"report", "unlock"}
                 /\ op'[t].pc = "report" => op[t].kind \in {"restart", "replay", "revert"}
                 /\ op'[t].ok = ok
                 /\ op'[t].kind = op[t].kind
                 /\ op'[t].id = op[t].id
                 /\ op'[t].told = op[t].told
<1>1. op[t] \in Operation
  BY BusyType
<1>2. /\ Over(t, ok) \in {"report", "unlock"}
      /\ Over(t, ok) = "report" => op[t].kind \in {"restart", "replay", "revert"}
  BY DEF Over
<1>3. [op[t] EXCEPT !.pc = Over(t, ok), !.ok = ok] \in Operation
  BY <1>1, <1>2 DEF Operation
<1> QED
  BY <1>1, <1>2, <1>3 DEF End, TypeOK, Operation

LEMMA SuspendedType ==
    ASSUME TypeOK, NEW t \in Caller, Busy(t)
    PROVE  /\ Suspended(t) \in [state : {"running", "suspended"}, by : Nat, nonce : Nat]
           /\ Suspended(t).by = op[t].id
           /\ Suspended(t).nonce = job.nonce
<1>1. op[t].id \in Nat
  BY BusyType DEF Operation
<1> QED
  BY <1>1 DEF TypeOK, Suspended

LEMMA RunningType ==
    ASSUME TypeOK
    PROVE  /\ Running \in [state : {"running", "suspended"}, by : Nat, nonce : Nat]
           /\ Running.state = "running"
           /\ Running.by = 0
           /\ Running.nonce = job.nonce
BY DEF TypeOK, Running

LEMMA RedeployedType ==
    ASSUME TypeOK, NEW t \in Caller
    PROVE  /\ [Running EXCEPT !.nonce = call[t].next]
                 \in [state : {"running", "suspended"}, by : Nat, nonce : Nat]
           /\ [Running EXCEPT !.nonce = call[t].next].state = "running"
           /\ [Running EXCEPT !.nonce = call[t].next].by = 0
           /\ [Running EXCEPT !.nonce = call[t].next].nonce = call[t].next
<1>1. call[t].next \in Nat
  BY DEF TypeOK, NonceTypeOK, Call
<1> QED
  BY <1>1, RunningType DEF TypeOK

LEMMA NoCallType == NoCall \in Call /\ [NoCall EXCEPT !.pc = "load"] \in Call
BY DEF NoCall, Call

LEMMA AskType ==
    ASSUME TypeOK, NEW t \in Caller, AskNonce(t)
    PROVE  call' \in [Caller -> Call]
BY NoCallType DEF AskNonce, TypeOK, NonceTypeOK

(* The registry of entries stays one.                                      *)
LEMMA CreateType ==
    ASSUME StoreTypeOK, NEW id \in Nat, Create(id)
    PROVE  StoreTypeOK'
BY DEF Create, StoreTypeOK, Task, Status

LEMMA KeptType ==
    ASSUME NEW ids \in Seq(Nat)
    PROVE  Kept(ids) \in Seq(Nat)
<1> USE MaxKeepAssumption
<1>1. CASE Len(ids) > MaxKeep
  <2>1. Len(ids) - MaxKeep + 1 \in 1 .. Len(ids) + 1
    BY <1>1
  <2>2. \A i \in Len(ids) - MaxKeep + 1 .. Len(ids) : ids[i] \in Nat
    BY <2>1
  <2> QED
    BY <1>1, <2>1, <2>2 DEF Kept
<1> QED
  BY <1>1 DEF Kept

LEMMA UpdateType ==
    ASSUME StoreTypeOK, NEW id \in Nat, NEW status \in Ended, Update(id, status)
    PROVE  StoreTypeOK'
<1>1. CASE id \notin DOMAIN tasks
  BY <1>1 DEF Update, storeVars, StoreTypeOK
<1>2. CASE id \in DOMAIN tasks
  <2> DEFINE ends == status # "running" /\ ~tasks[id].finishedAt
             queue == IF ends THEN Append(finished, id) ELSE finished
             kept == IF ends THEN Kept(queue) ELSE queue
             task == [status |-> status, finishedAt |-> tasks[id].finishedAt \/ ends]
  <2>0. queue \in Seq(Nat)
    BY DEF StoreTypeOK
  <2>1. kept \in Seq(Nat)
    <3> HIDE DEF queue, ends
    <3> QED
      BY <2>0, KeptType
  <2>2. tasks[id].finishedAt \in BOOLEAN
    BY <1>2 DEF StoreTypeOK, Task
  <2>3. task \in Task
    BY <2>2 DEF Task, Status
  <2>4. finished' = kept
    BY <1>2 DEF Update
  <2>5. DOMAIN tasks' \subseteq DOMAIN tasks
    BY <1>2 DEF Update
  <2>6. \A i \in DOMAIN tasks' : tasks'[i] = IF i = id THEN task ELSE tasks[i]
    BY <1>2 DEF Update
  <2> HIDE DEF kept, task
  <2> QED
    BY <2>1, <2>3, <2>4, <2>5, <2>6 DEF StoreTypeOK
<1> QED
  BY <1>1, <1>2

LEMMA TypeInit == Init => TypeOK
<1> SUFFICES ASSUME Init PROVE TypeOK
  OBVIOUS
<1>1. NonceTypeOK
  BY NoCallType DEF Init, NonceInit, NonceTypeOK
<1>2. StoreTypeOK
  BY DEF Init, EmptyStore, StoreTypeOK
<1> QED
  BY <1>1, <1>2 DEF Init, TypeOK

(* The steps that leave the nonce and the registry alone except for a call *)
(* that begins or is over.                                                 *)
LEMMA StartType ==
    ASSUME TypeOK, NEW t \in Caller, NEW k \in Kind, Start(t, k)
    PROVE  TypeOK'
<1>1. op' \in [Caller -> Operation \cup {Idle}]
  BY BegunType DEF Start, TypeOK
<1>2. StoreTypeOK'
  <2>1. CASE k \in Tracked
    BY <2>1, CreateType DEF Start, TypeOK
  <2>2. CASE k \notin Tracked
    BY <2>2 DEF Start, TypeOK, storeVars, StoreTypeOK
  <2> QED
    BY <2>1, <2>2
<1>3. page' \in Nat
  BY DEF Start, TypeOK
<1>4. call' \in [Caller -> Call]
  BY AskType DEF Start, TypeOK, NonceTypeOK
<1> QED
  BY <1>1, <1>2, <1>3, <1>4 DEF Start, TypeOK, NonceTypeOK

LEMMA LockType ==
    ASSUME TypeOK, NEW t \in Caller, Lock(t)
    PROVE  TypeOK'
<1>1. op[t] \in Operation
  BY BusyType DEF Lock, At
<1>2. FirstCall[op[t].kind] \in Calls
  BY <1>1, FirstCallType DEF Operation, Calls
<1>3. op' \in [Caller -> Operation \cup {Idle}]
  BY <1>2, GotoType DEF Lock, At
<1>4. call' \in [Caller -> Call]
  BY AskType DEF Lock, TypeOK, NonceTypeOK
<1>5. StoreTypeOK'
  BY DEF Lock, storeVars, TypeOK, StoreTypeOK
<1> QED
  BY <1>3, <1>4, <1>5 DEF Lock, TypeOK, NonceTypeOK

LEMMA QuietType ==
    ASSUME TypeOK, UNCHANGED quiet,
           op' \in [Caller -> Operation \cup {Idle}],
           call' \in [Caller -> Call],
           job' \in [state : {"running", "suspended"}, by : Nat, nonce : Nat]
    PROVE  TypeOK'
<1>1. StoreTypeOK'
  BY DEF quiet, storeVars, TypeOK, StoreTypeOK
<1> QED
  BY <1>1 DEF quiet, TypeOK, NonceTypeOK

LEMMA CallsType ==
    ASSUME TypeOK, NEW t \in Caller,
           \/ Work(t) \/ Stop(t) \/ WaitStopped(t) \/ StartAgain(t)
           \/ PatchState(t) \/ Redeploy(t)
    PROVE  TypeOK'
<1> USE BusyType, GotoType, EndIs, SuspendedType, RunningType DEF At, Fails
<1>1. call \in [Caller -> Call]
         /\ job \in [state : {"running", "suspended"}, by : Nat, nonce : Nat]
  BY DEF TypeOK, NonceTypeOK
<1>2. CASE Work(t)
  <2>1. op' \in [Caller -> Operation \cup {Idle}]
    BY <1>2 DEF Work, Calls
  <2>2. call' \in [Caller -> Call]
    BY <1>1, <1>2, AskType DEF Work
  <2> QED
    BY <1>1, <1>2, <2>1, <2>2, QuietType DEF Work
<1>3. CASE Stop(t)
  <2>1. op' \in [Caller -> Operation \cup {Idle}]
    BY <1>3 DEF Stop, Calls
  <2> QED
    BY <1>1, <1>3, <2>1, QuietType DEF Stop
<1>4. CASE WaitStopped(t)
  <2>1. op' \in [Caller -> Operation \cup {Idle}]
    BY <1>4 DEF WaitStopped, Calls
  <2> QED
    BY <1>1, <1>4, <2>1, QuietType DEF WaitStopped
<1>5. CASE StartAgain(t)
  BY <1>1, <1>5, QuietType DEF StartAgain
<1>6. CASE PatchState(t)
  BY <1>1, <1>6, QuietType DEF PatchState
<1>7. CASE Redeploy(t)
  <2>1. call' \in [Caller -> Call]
    BY <1>1, <1>7, NoCallType DEF Redeploy
  <2>2. job' \in [state : {"running", "suspended"}, by : Nat, nonce : Nat]
    BY <1>1, <1>7, RedeployedType DEF Redeploy
  <2> QED
    BY <1>7, <2>1, <2>2, QuietType DEF Redeploy
<1> QED
  BY <1>2, <1>3, <1>4, <1>5, <1>6, <1>7

LEMMA NextNonceType ==
    ASSUME NonceTypeOK, NEW t \in Caller, NextNonce(t)
    PROVE  NonceTypeOK'
<1> USE DEF NonceTypeOK, Call
<1>1. CASE LoadLast(t)
  BY <1>1 DEF LoadLast
<1>2. CASE ReadClock(t)
  <2>1. Successor(call[t].prev) \in Nat
    BY DEF Successor
  <2> QED
    BY <1>2, <2>1 DEF ReadClock
<1>3. CASE CompareAndSwap(t)
  BY <1>3 DEF CompareAndSwap
<1> QED
  BY <1>1, <1>2, <1>3 DEF NextNonce

LEMMA ReportType ==
    ASSUME TypeOK, NEW t \in Caller, Report(t) \/ Unlock(t) \/ TakeNonce(t)
    PROVE  TypeOK'
<1>1. op[t] \in Operation
  BY BusyType DEF Report, Unlock, TakeNonce, At
<1>2. CASE Report(t)
  <2>1. Outcome(t) \in Ended /\ op[t].id \in Nat
    BY <1>1 DEF Outcome, Ended, Operation
  <2>2. StoreTypeOK'
    BY <1>2, <2>1, UpdateType DEF Report, TypeOK
  <2>3. op' \in [Caller -> Operation \cup {Idle}]
    BY <1>1, <1>2 DEF Report, TypeOK, Operation
  <2>4. log' \in Seq([id : Nat, status : Ended])
    BY <1>2, <2>1 DEF Report, TypeOK
  <2> QED
    BY <1>2, <2>2, <2>3, <2>4 DEF Report, TypeOK, nonceVars, NonceTypeOK
<1>3. CASE Unlock(t)
  <2>1. op' \in [Caller -> Operation \cup {Idle}]
    BY <1>1, <1>3 DEF Unlock, TypeOK, Operation
  <2>2. StoreTypeOK'
    BY <1>3 DEF Unlock, storeVars, TypeOK, StoreTypeOK
  <2> QED
    BY <1>3, <2>1, <2>2 DEF Unlock, TypeOK, nonceVars, NonceTypeOK
<1>4. CASE TakeNonce(t)
  <2>1. op' \in [Caller -> Operation \cup {Idle}]
    BY <1>4, GotoType DEF TakeNonce, TypeOK, Calls, At
  <2>2. NonceTypeOK'
    BY <1>4, NextNonceType DEF TakeNonce, TypeOK
  <2>3. StoreTypeOK'
    BY <1>4 DEF TakeNonce, storeVars, TypeOK, StoreTypeOK
  <2> QED
    BY <1>4, <2>1, <2>2, <2>3 DEF TakeNonce, TypeOK
<1> QED
  BY <1>2, <1>3, <1>4

LEMMA TypeNext == TypeOK /\ [Next]_vars => TypeOK'
<1> SUFFICES ASSUME TypeOK, [Next]_vars PROVE TypeOK'
  OBVIOUS
<1>1. CASE \E t \in Caller, k \in Offered : Start(t, k)
  BY <1>1, StartType, ConsoleAssumption
<1>2. CASE \E t \in Caller : Lock(t)
  BY <1>2, LockType
<1>3. CASE \E t \in Caller : Step(t)
  BY <1>3, CallsType, ReportType DEF Step
<1>4. CASE Poll \/ GiveUp
  BY <1>4 DEF Poll, GiveUp, TypeOK, nonceVars, storeVars, NonceTypeOK, StoreTypeOK
<1>5. CASE Crash
  <2>1. StoreTypeOK'
    BY <1>5 DEF Crash, StoreTypeOK
  <2>2. NonceTypeOK'
    BY <1>5, NoCallType DEF Crash, Reseed, TypeOK, NonceTypeOK
  <2>3. op' \in [Caller -> Operation \cup {Idle}]
    BY <1>5 DEF Crash
  <2> QED
    BY <1>5, <2>1, <2>2, <2>3 DEF Crash, TypeOK
<1>6. CASE Clock
  <2>1. NonceTypeOK'
    BY <1>6, NonceAssumption DEF Clock, Tick, SetBack, TypeOK, NonceTypeOK
  <2>2. StoreTypeOK'
    BY <1>6 DEF Clock, storeVars, TypeOK, StoreTypeOK
  <2> QED
    BY <1>6, <2>1, <2>2 DEF Clock, TypeOK
<1>7. CASE UNCHANGED vars
  BY <1>7 DEF vars, nonceVars, storeVars, TypeOK, NonceTypeOK, StoreTypeOK
<1> QED
  BY <1>1, <1>2, <1>3, <1>4, <1>5, <1>6, <1>7 DEF Next

(* Every variable keeps its type: the lock is held by a slot or by nobody, *)
(* the registry maps ids to entries, the log holds outcomes.               *)
THEOREM TypeCorrect == Spec => []TypeOK
BY TypeInit, TypeNext, PTL DEF Spec

-----------------------------------------------------------------------------
(* Nonces.                                                                 *)

LEMMA NonceInvInit == Init => NonceInv
BY DEF Init, NonceInit, NonceInv, NoCall, At, Busy

(* What the redeploying operations at work have drawn is not touched.      *)
LEMMA NonceFrame ==
    ASSUME NonceInv, UNCHANGED <<last, issued, call>>, job'.nonce = job.nonce,
           \A u \in Caller : At(u, "redeploy")' => At(u, "redeploy")
    PROVE  NonceInv'
BY DEF NonceInv

(* A caller that asks anew, or has used its nonce, holds none.             *)
LEMMA NonceAsk ==
    ASSUME TypeOK, NonceInv, NEW t \in Caller,
           UNCHANGED <<last, issued>>, job'.nonce = job.nonce,
           NEW c \in Call, c.pc \in {"none", "load"}, call' = [call EXCEPT ![t] = c],
           ~At(t, "redeploy")',
           \A u \in Caller : u # t => op'[u] = op[u]
    PROVE  NonceInv'
<1>1. call \in [Caller -> Call]
  BY DEF TypeOK, NonceTypeOK
<1>2. \A u \in Caller : call'[u] = IF u = t THEN c ELSE call[u]
  BY <1>1
<1>3. \A u \in Caller : At(u, "redeploy")' => u # t /\ At(u, "redeploy")
  BY DEF At, Busy
<1> QED
  BY <1>2, <1>3 DEF NonceInv

LEMMA NonceTake ==
    ASSUME TypeOK, NonceInv, NEW t \in Caller, TakeNonce(t)
    PROVE  NonceInv'
<1>1. /\ call \in [Caller -> Call] /\ last \in Nat /\ clock \in Nat /\ issued \in Nat
      /\ job.nonce \in Nat
  BY DEF TypeOK, NonceTypeOK
<1>2. \A u \in Caller : u # t => call'[u] = call[u] /\ op'[u] = op[u]
  BY <1>1 DEF TakeNonce, NextNonce, LoadLast, ReadClock, CompareAndSwap, Goto, TypeOK
<1>3. UNCHANGED job
  BY DEF TakeNonce
<1>4. \A u \in Caller : At(u, "redeploy")' => call'[u].pc = "got"
  <2>1. \A u \in Caller : u # t /\ At(u, "redeploy")' => call'[u].pc = "got"
    BY <1>2 DEF At, Busy, NonceInv
  <2>2. At(t, "redeploy")' => call'[t].pc = "got"
    BY DEF TakeNonce, At, Busy
  <2> QED
    BY <2>1, <2>2
<1>5. CASE LoadLast(t)
  <2>1. call'[t].pc = "clock"
    BY <1>1, <1>5 DEF LoadLast, Call
  <2>2. \A u \in Caller : call'[u].pc \in {"cas", "got"} => call'[u] = call[u]
    BY <1>2, <2>1
  <2>3. UNCHANGED <<last, issued>>
    BY <1>5 DEF LoadLast
  <2> QED
    BY <1>3, <1>4, <2>2, <2>3 DEF NonceInv
<1>6. CASE ReadClock(t)
  <2>1. call'[t].pc = "cas" /\ call'[t].next > call'[t].prev
    BY <1>1, <1>6 DEF ReadClock, Successor, Call
  <2>2. \A u \in Caller : call'[u].pc = "got" => call'[u] = call[u]
    BY <1>2, <2>1
  <2>3. UNCHANGED <<last, issued>>
    BY <1>6 DEF ReadClock
  <2>4. \A u \in Caller : call'[u].pc = "cas" => call'[u].next > call'[u].prev
    BY <1>2, <2>1 DEF NonceInv
  <2> QED
    BY <1>3, <1>4, <2>2, <2>3, <2>4 DEF NonceInv
<1>7. CASE CompareAndSwap(t) /\ Unchanged(call[t].prev)
  <2>1. call'[t].pc = "got" /\ call'[t].next = call[t].next
    BY <1>1, <1>7 DEF CompareAndSwap, Call
  <2>2. last' = call[t].next /\ issued' = last' /\ last' > last
    BY <1>1, <1>7 DEF CompareAndSwap, Unchanged, NonceInv
  <2>3. \A u \in Caller : call[u].pc = "got" => call[u].next <= last
    BY DEF NonceInv
  <2>4. \A u \in Caller : call[u].next \in Nat
    BY <1>1 DEF Call
  <2>5. \A u \in Caller : call'[u].pc = "got" =>
            call'[u].next <= last' /\ call'[u].next # job'.nonce
    BY <1>1, <1>2, <1>3, <2>1, <2>2, <2>3, <2>4 DEF NonceInv
  <2>6. \A u, v \in Caller :
            call'[u].pc = "got" /\ call'[v].pc = "got" /\ call'[u].next = call'[v].next => u = v
    <3> SUFFICES ASSUME NEW u \in Caller, NEW v \in Caller,
                        call'[u].pc = "got", call'[v].pc = "got",
                        call'[u].next = call'[v].next, u # v
                 PROVE  FALSE
      OBVIOUS
    <3>1. CASE u = t
      BY <1>2, <2>1, <2>2, <2>3, <2>4, <3>1, <1>1
    <3>2. CASE v = t
      BY <1>2, <2>1, <2>2, <2>3, <2>4, <3>2, <1>1
    <3>3. CASE u # t /\ v # t
      BY <1>2, <3>3 DEF NonceInv
    <3> QED
      BY <3>1, <3>2, <3>3
  <2>7. \A u \in Caller : call'[u].pc = "cas" => call'[u].next > call'[u].prev
    BY <1>2, <2>1 DEF NonceInv
  <2>8. issued' <= last' /\ job'.nonce <= last'
    BY <1>1, <1>3, <2>2, <2>4 DEF NonceInv
  <2> QED
    BY <1>4, <2>5, <2>6, <2>7, <2>8 DEF NonceInv
<1>8. CASE CompareAndSwap(t) /\ ~Unchanged(call[t].prev)
  <2>1. call'[t].pc = "load"
    BY <1>1, <1>8 DEF CompareAndSwap, Call
  <2> QED
    BY <1>2, <1>3, <1>4, <1>8, <2>1 DEF CompareAndSwap, NonceInv
<1> QED
  BY <1>5, <1>6, <1>7, <1>8 DEF TakeNonce, NextNonce

LEMMA NonceRedeploy ==
    ASSUME TypeOK, NonceInv, NEW t \in Caller, Redeploy(t)
    PROVE  NonceInv'
<1>1. call \in [Caller -> Call] /\ NoCall.pc = "none"
  BY DEF TypeOK, NonceTypeOK, NoCall
<1>2. \A u \in Caller : call'[u] = IF u = t THEN NoCall ELSE call[u]
  BY <1>1 DEF Redeploy
<1>3. At(t, "redeploy") /\ call[t].pc = "got"
  BY DEF Redeploy, NonceInv
<1>4. \A u \in Caller : At(u, "redeploy")' => u # t /\ At(u, "redeploy")
  BY <1>3, EndIs DEF Redeploy, Fails, At, Busy
<1>5. job'.nonce \in {job.nonce, call[t].next}
  BY RedeployedType DEF Redeploy, Fails
<1>6. UNCHANGED <<last, issued>>
  BY DEF Redeploy, quiet
<1>7. \A u \in Caller : u # t /\ call[u].pc = "got" => call[u].next # call[t].next
  BY <1>3 DEF NonceInv
<1>8. job'.nonce <= last
  BY <1>3, <1>5 DEF NonceInv
<1>9. \A u \in Caller : call'[u].pc \in {"cas", "got"} => u # t /\ call'[u] = call[u]
  BY <1>1, <1>2
<1>10. \A u \in Caller : call'[u].pc = "got" =>
            call'[u].next <= last' /\ call'[u].next # job'.nonce
  BY <1>5, <1>6, <1>7, <1>9 DEF NonceInv
<1>11. \A u \in Caller : At(u, "redeploy")' => call'[u].pc = "got"
  BY <1>2, <1>4 DEF NonceInv
<1>12. \A u, v \in Caller :
          call'[u].pc = "got" /\ call'[v].pc = "got" /\ call'[u].next = call'[v].next => u = v
  BY <1>9 DEF NonceInv
<1>13. \A u \in Caller : call'[u].pc = "cas" => call'[u].next > call'[u].prev
  BY <1>9 DEF NonceInv
<1> QED
  BY <1>6, <1>8, <1>10, <1>11, <1>12, <1>13 DEF NonceInv

LEMMA NonceCalls ==
    ASSUME TypeOK, NonceInv, NEW t \in Caller,
           \/ Work(t) \/ Stop(t) \/ WaitStopped(t) \/ StartAgain(t) \/ PatchState(t)
           \/ Report(t) \/ Unlock(t)
    PROVE  NonceInv'
<1>1. op \in [Caller -> Operation \cup {Idle}] /\ Busy(t) /\ op[t] \in Operation
  BY BusyType DEF TypeOK, Work, Stop, WaitStopped, StartAgain, PatchState, Report, Unlock, At
<1>2. /\ \A u \in Caller : u # t => op'[u] = op[u]
      /\ ~At(t, "redeploy")'
  <2>1. ASSUME NEW ok \in BOOLEAN, End(t, ok)
        PROVE  /\ \A u \in Caller : u # t => op'[u] = op[u]
               /\ ~At(t, "redeploy")'
    BY <1>1, <2>1, EndIs DEF At, Busy
  <2>2. ASSUME NEW pc \in {"wait", "start", "nonce"}, Goto(t, pc)
        PROVE  /\ \A u \in Caller : u # t => op'[u] = op[u]
               /\ ~At(t, "redeploy")'
    BY <1>1, <2>2 DEF Goto, At, Operation
  <2>3. CASE Report(t) \/ Unlock(t)
    BY <1>1, <2>3 DEF Report, Unlock, At, Busy, Operation
  <2> QED
    BY <2>1, <2>2, <2>3
    DEF Work, Stop, WaitStopped, StartAgain, PatchState, Fails
<1>3. UNCHANGED <<last, issued>> /\ job'.nonce = job.nonce
  BY <1>1, SuspendedType, RunningType
  DEF Work, Stop, WaitStopped, StartAgain, PatchState, Report, Unlock, Fails, quiet, nonceVars
<1>4. CASE UNCHANGED call
  BY <1>2, <1>3, <1>4, NonceFrame DEF At, Busy
<1>5. CASE AskNonce(t)
  BY <1>2, <1>3, <1>5, NonceAsk, NoCallType DEF AskNonce, NoCall
<1> QED
  BY <1>4, <1>5
  DEF Work, Stop, WaitStopped, StartAgain, PatchState, Report, Unlock, nonceVars

LEMMA NonceStart ==
    ASSUME TypeOK, NonceInv, NEW t \in Caller,
           Lock(t) \/ \E k \in Kind : Start(t, k)
    PROVE  NonceInv'
<1>1. op \in [Caller -> Operation \cup {Idle}]
  BY DEF TypeOK
<1>2. ~At(t, "redeploy")' /\ \A u \in Caller : u # t => op'[u] = op[u]
  <2>1. CASE Lock(t)
    <3>1. op[t] \in Operation
      BY <2>1, BusyType DEF Lock, At
    <3>2. FirstCall[op[t].kind] # "redeploy"
      BY <3>1, FirstCallType DEF Operation
    <3> QED
      BY <1>1, <2>1, <3>1, <3>2 DEF Lock, Goto, At, Operation
  <2>2. ASSUME NEW k \in Kind, Start(t, k)
        PROVE  ~At(t, "redeploy")' /\ \A u \in Caller : u # t => op'[u] = op[u]
    <3>1. Begun(k).pc # "redeploy"
      BY FirstCallType DEF Begun
    <3> QED
      BY <1>1, <2>2, <3>1 DEF Start, At
  <2> QED
    BY <2>1, <2>2
<1>3. UNCHANGED <<last, issued, job>>
  BY DEF Lock, Start
<1>4. CASE UNCHANGED call
  BY <1>2, <1>3, <1>4, NonceFrame DEF At, Busy
<1>5. CASE AskNonce(t)
  BY <1>2, <1>3, <1>5, NonceAsk, NoCallType DEF AskNonce, NoCall
<1> QED
  BY <1>4, <1>5 DEF Lock, Start

LEMMA NonceInvNext == TypeOK /\ NonceInv /\ [Next]_vars => NonceInv'
<1> SUFFICES ASSUME TypeOK, NonceInv, [Next]_vars PROVE NonceInv'
  OBVIOUS
<1>1. CASE \E t \in Caller : Lock(t) \/ \E k \in Offered : Start(t, k)
  BY <1>1, NonceStart, ConsoleAssumption
<1>2. CASE \E t \in Caller : Step(t)
  BY <1>2, NonceCalls, NonceTake, NonceRedeploy DEF Step
<1>3. CASE Crash
  <2>1. /\ last \in Nat /\ clock \in Nat /\ issued \in Nat /\ job.nonce \in Nat
        /\ issued <= last /\ job.nonce <= last
    BY DEF TypeOK, NonceTypeOK, NonceInv
  <2>2. last' >= last /\ UNCHANGED <<issued, job>>
    BY <1>3, <2>1 DEF Crash, Reseed
  <2>3. \A u \in Caller : call'[u].pc = "none" /\ ~At(u, "redeploy")'
    BY <1>3 DEF Crash, Reseed, NoCall, At, Busy
  <2>4. last' \in Nat
    BY <1>3, <2>1 DEF Crash, Reseed
  <2> QED
    BY <2>1, <2>2, <2>3, <2>4 DEF NonceInv
<1>4. CASE Poll \/ GiveUp \/ Clock \/ UNCHANGED vars
  <2>1. UNCHANGED <<last, issued, call, job, op>>
    BY <1>4 DEF Poll, GiveUp, Clock, Tick, SetBack, vars, nonceVars
  <2> QED
    BY <2>1, NonceFrame DEF At, Busy
<1> QED
  BY <1>1, <1>2, <1>3, <1>4 DEF Next

LEMMA NonceInvAlways == Spec => []NonceInv
BY NonceInvInit, NonceInvNext, TypeCorrect, PTL DEF Spec

(* However many callers draw from the counter at once, and whatever the    *)
(* clock does, each gets a nonce greater than the one before.              *)
THEOREM NoncesIncrease == Spec => IncreasingNonces
<1>1. TypeOK /\ NonceInv /\ [Next]_vars =>
      [\A c \in Caller : CompareAndSwap(c) /\ call'[c].pc = "got" => call[c].next > issued]_nonceVars
  <2> SUFFICES ASSUME TypeOK, NonceInv, NEW c \in Caller,
                      CompareAndSwap(c), call'[c].pc = "got"
               PROVE  call[c].next > issued
    OBVIOUS
  <2>1. /\ call \in [Caller -> Call] /\ last \in Nat /\ issued \in Nat
    BY DEF TypeOK, NonceTypeOK
  <2>2. Unchanged(call[c].prev)
    BY <2>1 DEF CompareAndSwap, Call
  <2>3. call[c].next > call[c].prev /\ issued <= last
    BY DEF CompareAndSwap, NonceInv
  <2>4. call[c].next \in Nat
    BY <2>1 DEF Call
  <2> QED
    BY <2>1, <2>2, <2>3, <2>4 DEF Unchanged
<1> QED
  BY <1>1, TypeCorrect, NonceInvAlways, PTL DEF Spec, IncreasingNonces

(* Every redeploy that is applied changes the nonce the operator looks at, *)
(* under the lock or not, before a restart of the console or after.        *)
THEOREM RedeploysAreSeen == Spec => RedeploysSeen
<1>1. NonceInv => \A t \in Caller : Redeploy(t) => job.nonce # call[t].next
  BY DEF NonceInv, Redeploy
<1>2. NonceInv /\ [Next]_vars =>
      [\A t \in Caller :
          Redeploy(t) /\ job'.nonce = call[t].next => job.nonce # call[t].next]_vars
  BY <1>1
<1> QED
  BY <1>2, NonceInvAlways, PTL DEF Spec, RedeploysSeen

-----------------------------------------------------------------------------
(* The lock.                                                               *)

LEMMA LockInvInit == Init => LockInv
BY DEF Init, LockInv, HoldsLock, Busy

(* A step of t that does not pass the lock on keeps what the others rely   *)
(* on, if it suspends the job under the lock only.                         *)
LEMMA LockFrame ==
    ASSUME LockInv, NEW t \in Caller,
           \A u \in Caller : u # t => op'[u] = op[u],
           lock' = lock, job'.by \in {0, job.by} \/ lock = t,
           HoldsLock(t)'
    PROVE  LockInv'
<1> SUFFICES ASSUME NEW u \in Caller, u # t PROVE HoldsLock(u)'
  BY DEF LockInv
<1>1. HoldsLock(u)
  BY DEF LockInv
<1>2. op'[u] = op[u]
  OBVIOUS
<1>3. CASE job'.by \in {0, job.by}
  BY <1>1, <1>2, <1>3 DEF HoldsLock, Busy
<1>4. CASE lock = t
  BY <1>1, <1>2, <1>4 DEF HoldsLock, Busy
<1> QED
  BY <1>3, <1>4

LEMMA LockStarts ==
    ASSUME TypeOK, LockInv, NEW t \in Caller, Lock(t) \/ \E k \in Kind : Start(t, k)
    PROVE  LockInv'
<1>1. op \in [Caller -> Operation \cup {Idle}]
  BY DEF TypeOK
<1>2. CASE Lock(t)
  <2>1. op[t] \in Operation /\ op[t].pc = "lock" /\ op[t].kind # "promote"
    BY <1>2, BusyType DEF Lock, At, LockInv, HoldsLock
  <2>2. /\ FirstCall[op[t].kind] \in {"work", "stop", "nonce", "patch"}
        /\ FirstCall[op[t].kind] = "stop" => op[t].kind = "restart"
        /\ FirstCall[op[t].kind] = "patch" => op[t].kind \in {"suspend", "resume"}
    BY <2>1, FirstCallType DEF Operation
  <2>3. op'[t].pc = FirstCall[op[t].kind] /\ op'[t].kind = op[t].kind
    BY <1>1, <1>2, <2>1 DEF Lock, Goto, Operation
  <2>4. HoldsLock(t)'
    BY <1>2, <2>1, <2>2, <2>3 DEF HoldsLock, Lock
  <2>5. \A u \in Caller : u # t => HoldsLock(u)'
    <3> SUFFICES ASSUME NEW u \in Caller, u # t PROVE HoldsLock(u)'
      OBVIOUS
    <3>1. op'[u] = op[u] /\ lock = Nobody /\ job' = job /\ u # Nobody
      BY <1>1, <1>2, ConsoleAssumption DEF Lock, LockFree, Goto
    <3>2. HoldsLock(u)
      BY DEF LockInv
    <3> QED
      BY <3>1, <3>2 DEF HoldsLock, Busy
  <2> QED
    BY <2>4, <2>5 DEF LockInv
<1>3. ASSUME NEW k \in Kind, Start(t, k)
      PROVE  LockInv'
  <2>1. op'[t] = Begun(k) /\ \A u \in Caller : u # t => op'[u] = op[u]
    BY <1>1, <1>3 DEF Start
  <2>2. k \notin Locked => k = "promote"
    BY DEF Kind
  <2>3. HoldsLock(t)'
    BY <2>1, <2>2, FirstCallType DEF HoldsLock, Begun, Locked, Tracked
  <2> QED
    BY <1>3, <2>1, <2>3, LockFrame DEF Start
<1> QED
  BY <1>2, <1>3

LEMMA LockSteps ==
    ASSUME TypeOK, LockInv, NEW t \in Caller, Step(t)
    PROVE  LockInv'
<1>1. op \in [Caller -> Operation \cup {Idle}] /\ Busy(t) /\ op[t] \in Operation
  BY BusyType
  DEF TypeOK, Step, Work, Stop, WaitStopped, StartAgain, PatchState, TakeNonce, Redeploy,
      Report, Unlock, At
<1>2. HoldsLock(t)
  BY DEF LockInv
<1>3. ASSUME NEW ok \in BOOLEAN, End(t, ok), lock' = lock,
             op[t].pc \notin {"lock", "report"}
      PROVE  HoldsLock(t)' /\ \A u \in Caller : u # t => op'[u] = op[u]
  BY <1>1, <1>2, <1>3, EndIs DEF HoldsLock, Busy
<1>4. ASSUME NEW pc \in {"wait", "start", "nonce", "redeploy"}, Goto(t, pc)
      PROVE  /\ op'[t].pc = pc /\ op'[t].kind = op[t].kind /\ op'[t].id = op[t].id
             /\ \A u \in Caller : u # t => op'[u] = op[u]
  BY <1>1, <1>4 DEF Goto, Operation
<1>5. CASE Work(t)
  <2>1. op[t].pc = "work" /\ lock' = lock /\ job' = job
    BY <1>5 DEF Work, At, quiet
  <2>2. CASE \E ok \in BOOLEAN : End(t, ok)
    BY <1>3, <2>1, <2>2, LockFrame
  <2>3. CASE Goto(t, "nonce")
    <3>1. HoldsLock(t)'
      BY <1>1, <1>2, <1>4, <2>1, <2>3 DEF HoldsLock
    <3> QED
      BY <1>4, <2>1, <2>3, <3>1, LockFrame
  <2> QED
    BY <1>5, <2>2, <2>3 DEF Work
<1>6. CASE Stop(t)
  <2>1. op[t].pc = "stop" /\ lock' = lock /\ lock = t /\ op[t].kind = "restart"
    BY <1>1, <1>2, <1>6 DEF Stop, At, quiet, HoldsLock
  <2>2. CASE \E ok \in BOOLEAN : End(t, ok)
    BY <1>3, <2>1, <2>2, LockFrame
  <2>3. CASE Goto(t, "wait") /\ job' = Suspended(t)
    <3>1. HoldsLock(t)'
      BY <1>1, <1>4, <2>1, <2>3, SuspendedType DEF HoldsLock
    <3> QED
      BY <1>4, <2>1, <2>3, <3>1, LockFrame
  <2> QED
    BY <1>6, <2>2, <2>3 DEF Stop, Fails
<1>7. CASE WaitStopped(t)
  <2>1. op[t].pc = "wait" /\ lock' = lock /\ job' = job /\ Goto(t, "start")
    BY <1>7 DEF WaitStopped, At, quiet
  <2>2. HoldsLock(t)'
    BY <1>1, <1>2, <1>4, <2>1 DEF HoldsLock
  <2> QED
    BY <1>4, <2>1, <2>2, LockFrame
<1>8. CASE StartAgain(t)
  <2>1. op[t].pc = "start" /\ lock' = lock /\ job'.by \in {0, job.by}
    BY <1>8, RunningType DEF StartAgain, At, quiet, Fails
  <2> QED
    BY <1>3, <1>8, <2>1, LockFrame DEF StartAgain, Fails
<1>9. CASE PatchState(t)
  <2>1. op[t].pc = "patch" /\ lock' = lock /\ lock = t
    BY <1>1, <1>2, <1>9 DEF PatchState, At, quiet, HoldsLock
  <2>2. \E ok \in BOOLEAN : End(t, ok)
    BY <1>9 DEF PatchState, Fails
  <2> QED
    BY <1>3, <2>1, <2>2, LockFrame
<1>10. CASE TakeNonce(t)
  <2>1. op[t].pc = "nonce" /\ lock' = lock /\ job' = job
    BY <1>10 DEF TakeNonce, At
  <2>2. CASE UNCHANGED op
    <3>1. HoldsLock(t)'
      BY <1>2, <2>1, <2>2 DEF HoldsLock, Busy
    <3> QED
      BY <2>1, <2>2, <3>1, LockFrame
  <2>3. CASE Goto(t, "redeploy")
    <3>1. HoldsLock(t)'
      BY <1>1, <1>2, <1>4, <2>1, <2>3 DEF HoldsLock
    <3> QED
      BY <1>4, <2>1, <2>3, <3>1, LockFrame
  <2> QED
    BY <1>10, <2>2, <2>3 DEF TakeNonce
<1>11. CASE Redeploy(t)
  <2>1. op[t].pc = "redeploy" /\ lock' = lock /\ job'.by \in {0, job.by}
    BY <1>11, RedeployedType DEF Redeploy, At, quiet, Fails
  <2>2. \E ok \in BOOLEAN : End(t, ok)
    BY <1>11 DEF Redeploy, Fails
  <2> QED
    BY <1>3, <2>1, <2>2, LockFrame
<1>12. CASE Report(t)
  <2>1. lock' = lock /\ job' = job /\ \A u \in Caller : u # t => op'[u] = op[u]
    BY <1>1, <1>12 DEF Report
  <2>2. op[t].kind # "promote"
    BY <1>1, <1>2, <1>12 DEF Report, At, HoldsLock
  <2>3. CASE lock = t
    <3>1. op'[t].pc = "unlock" /\ op'[t].kind = op[t].kind
      BY <1>1, <1>12, <2>3 DEF Report, Operation
    <3>2. HoldsLock(t)'
      BY <2>1, <2>2, <2>3, <3>1 DEF HoldsLock
    <3> QED
      BY <2>1, <3>2, LockFrame
  <2>4. CASE lock # t
    <3>1. op'[t] = Idle
      BY <1>1, <1>12, <2>4 DEF Report
    <3>2. HoldsLock(t)'
      BY <3>1 DEF HoldsLock, Busy
    <3> QED
      BY <2>1, <3>2, LockFrame
  <2> QED
    BY <2>3, <2>4
<1>13. CASE Unlock(t)
  <2>1. op[t].pc = "unlock" /\ job' = job /\ \A u \in Caller : u # t => op'[u] = op[u]
    BY <1>1, <1>13 DEF Unlock, At
  <2>2. op[t].kind # "promote" /\ lock = t
    BY <1>1, <1>2, <2>1 DEF HoldsLock
  <2>3. op'[t] = Idle \/ (op'[t].pc = "report" /\ op'[t].kind = op[t].kind)
    BY <1>1, <1>13 DEF Unlock, Operation
  <2>4. HoldsLock(t)'
    BY <2>2, <2>3 DEF HoldsLock, Busy
  <2>5. \A u \in Caller : u # t => HoldsLock(u)'
    <3> SUFFICES ASSUME NEW u \in Caller, u # t PROVE HoldsLock(u)'
      OBVIOUS
    <3>1. HoldsLock(u) /\ op'[u] = op[u]
      BY <2>1 DEF LockInv
    <3> QED
      BY <2>1, <2>2, <3>1 DEF HoldsLock, Busy
  <2> QED
    BY <2>4, <2>5 DEF LockInv
<1> QED
  BY <1>5, <1>6, <1>7, <1>8, <1>9, <1>10, <1>11, <1>12, <1>13 DEF Step

LEMMA LockInvNext == TypeOK /\ LockInv /\ [Next]_vars => LockInv'
<1> SUFFICES ASSUME TypeOK, LockInv, [Next]_vars PROVE LockInv'
  OBVIOUS
<1>1. CASE \E t \in Caller : Lock(t) \/ \E k \in Offered : Start(t, k)
  BY <1>1, LockStarts, ConsoleAssumption
<1>2. CASE \E t \in Caller : Step(t)
  BY <1>2, LockSteps
<1>3. CASE Crash
  BY <1>3 DEF Crash, LockInv, HoldsLock, Busy
<1>4. CASE Poll \/ GiveUp \/ Clock \/ UNCHANGED vars
  <2>1. UNCHANGED <<op, lock, job>>
    BY <1>4 DEF Poll, GiveUp, Clock, vars
  <2> QED
    BY <2>1 DEF LockInv, HoldsLock, Busy
<1> QED
  BY <1>1, <1>2, <1>3, <1>4 DEF Next

LEMMA LockInvAlways == Spec => []LockInv
BY LockInvInit, LockInvNext, TypeCorrect, PTL DEF Spec

(* A Restart that starts the job again finds it as it has left it, or      *)
(* started by a Promote already: no suspension by another operation of the *)
(* lifecycle is undone, however long the wait for the pods has been.       *)
THEOREM RestartKeepsToItsOwn == Spec => RestartUndoesItsOwn
<1>1. LockInv => \A t \in Caller : StartAgain(t) => job.by \in {0, op[t].id}
  BY DEF LockInv, HoldsLock, StartAgain, At
<1>2. LockInv /\ [Next]_vars =>
      [\A t \in Caller : StartAgain(t) => job.by \in {0, op[t].id}]_vars
  BY <1>1
<1> QED
  BY <1>2, LockInvAlways, PTL DEF Spec, RestartUndoesItsOwn

-----------------------------------------------------------------------------
(* Ids, and the suspensions that bear them.                                *)

LEMMA IdInvInit == Init => IdInv /\ NoSilentStop
BY DEF Init, IdInv, Named, NoSilentStop, Busy

(* Names stay in order when an operation goes on, by whatever it patches.  *)
LEMMA IdFrame ==
    ASSUME TypeOK, IdInv, NEW t \in Caller, Busy(t),
           \A u \in Caller : u # t => op'[u] = op[u],
           Busy(t)' => op'[t].id = op[t].id,
           Named(t)',
           job'.by \in {0, job.by, op[t].id},
           UNCHANGED <<nextId, boot, page, log>>
    PROVE  IdInv'
<1>1. nextId \in Nat /\ job.by \in Nat /\ op[t].id \in 1 .. nextId - 1
  BY DEF TypeOK, IdInv, Named
<1>2. \A u \in Caller : Named(u)'
  <2> SUFFICES ASSUME NEW u \in Caller, u # t PROVE Named(u)'
    OBVIOUS
  <2>1. Named(u) /\ op'[u] = op[u]
    BY DEF IdInv
  <2>2. Busy(u) => op[u].id # op[t].id /\ op[u].id # 0
    BY DEF IdInv, Named
  <2>3. Busy(u) /\ job'.by = op[u].id => job.by = op[u].id
    BY <2>2
  <2>4. SuspensionStands(u) => SuspensionStands(u)'
    BY <2>1 DEF SuspensionStands
  <2> QED
    BY <2>1, <2>3, <2>4 DEF Named, Busy, Logged
<1>3. job'.by < nextId
  BY <1>1 DEF IdInv
<1>4. \A u, v \in Caller : Busy(u)' /\ Busy(v)' /\ op'[u].id = op'[v].id => u = v
  BY DEF IdInv, Busy
<1> QED
  BY <1>2, <1>3, <1>4 DEF IdInv

(* Nothing reported as succeeded comes to be the suspension that stands.   *)
LEMMA StopFrame ==
    ASSUME TypeOK, IdInv, NoSilentStop, NEW t \in Caller, UNCHANGED log,
           \/ job' = job
           \/ job'.by = 0
           \/ job'.by = op[t].id /\ Busy(t) /\ ~Logged(op[t].id)
    PROVE  NoSilentStop'
<1> SUFFICES ASSUME NEW i \in DOMAIN log,
                    log[i].status = "succeeded", job'.state = "suspended",
                    job'.by = log[i].id
             PROVE  FALSE
  BY DEF NoSilentStop
<1>1. log[i].id # 0
  BY DEF IdInv
<1>2. CASE job' = job
  BY <1>2 DEF NoSilentStop
<1>3. CASE job'.by = op[t].id /\ ~Logged(op[t].id)
  BY <1>3 DEF Logged
<1> QED
  BY <1>1, <1>2, <1>3

LEMMA IdStart ==
    ASSUME TypeOK, IdInv, NEW t \in Caller, NEW k \in Kind, Start(t, k)
    PROVE  IdInv'
<1>1. /\ op \in [Caller -> Operation \cup {Idle}] /\ nextId \in Nat /\ page \in Nat
      /\ boot \in Nat /\ job.by \in Nat
  BY DEF TypeOK
<1>2. op'[t] = Begun(k) /\ \A u \in Caller : u # t => op'[u] = op[u]
  BY <1>1 DEF Start
<1>3. nextId' = nextId + 1 /\ UNCHANGED <<boot, job, log>> /\ page' \in {page, nextId}
  BY DEF Start
<1>4. ~Logged(nextId)
  BY <1>1 DEF Logged, IdInv
<1>5. /\ Begun(k).id = nextId /\ Begun(k).told = (k \notin Tracked) /\ Begun(k).kind = k
      /\ Begun(k).pc \notin {"report", "unlock"}
  BY FirstCallType DEF Begun
<1>6. Named(t)'
  <2>1. nextId \in 1 .. nextId' - 1 /\ job'.by # nextId
    BY <1>1, <1>3 DEF IdInv
  <2>2. \A i \in DOMAIN log' : log'[i].id # nextId
    BY <1>3, <1>4 DEF Logged
  <2>3. /\ op'[t].id = nextId /\ op'[t].told = (k \notin Tracked) /\ op'[t].kind = k
        /\ op'[t].pc \notin {"report", "unlock"}
    BY <1>2, <1>5
  <2>4. ~Logged(op[t].id)'
    BY <2>2, <2>3 DEF Logged
  <2> QED
    BY <2>1, <2>3, <2>4 DEF Named
<1>7. \A u \in Caller : u # t => Named(u)'
  <2> SUFFICES ASSUME NEW u \in Caller, u # t PROVE Named(u)'
    OBVIOUS
  <2>1. Named(u) /\ op'[u] = op[u]
    BY <1>2 DEF IdInv
  <2>2. SuspensionStands(u) => SuspensionStands(u)'
    BY <2>1 DEF SuspensionStands
  <2> QED
    BY <1>1, <1>3, <2>1, <2>2 DEF Named, Busy, Logged
<1>8. \A u \in Caller : u # t /\ Busy(u) => op[u].id # nextId
  BY <1>1 DEF IdInv, Named
<1>9. \A u, v \in Caller : Busy(u)' /\ Busy(v)' /\ op'[u].id = op'[v].id => u = v
  <2> SUFFICES ASSUME NEW u \in Caller, NEW v \in Caller, u # v, Busy(u)', Busy(v)',
                      op'[u].id = op'[v].id
               PROVE  FALSE
    OBVIOUS
  <2>1. CASE u = t
    BY <1>2, <1>5, <1>8, <2>1 DEF Busy
  <2>2. CASE v = t
    BY <1>2, <1>5, <1>8, <2>2 DEF Busy
  <2>3. CASE u # t /\ v # t
    BY <1>2, <2>3 DEF IdInv, Busy
  <2> QED
    BY <2>1, <2>2, <2>3
<1>10. /\ nextId' > 0 /\ job'.by < nextId' /\ boot' <= nextId' /\ page' < nextId'
  BY <1>1, <1>3 DEF IdInv
<1>11. /\ \A i \in DOMAIN log : log[i].id \in 1 .. nextId' - 1
       /\ \A i, j \in DOMAIN log : log[i].id = log[j].id => i = j
  BY <1>1, <1>3 DEF IdInv
<1> QED
  BY <1>3, <1>6, <1>7, <1>9, <1>10, <1>11 DEF IdInv

LEMMA IdCalls ==
    ASSUME TypeOK, IdInv, LockInv, NoSilentStop, NEW t \in Caller,
           \/ Lock(t) \/ Work(t) \/ Stop(t) \/ WaitStopped(t) \/ StartAgain(t)
           \/ PatchState(t) \/ TakeNonce(t) \/ Redeploy(t) \/ Unlock(t)
    PROVE  IdInv' /\ NoSilentStop'
<1>1. op \in [Caller -> Operation \cup {Idle}] /\ Busy(t) /\ op[t] \in Operation
  BY BusyType
  DEF TypeOK, Lock, Work, Stop, WaitStopped, StartAgain, PatchState, TakeNonce, Redeploy,
      Unlock, At
<1>2. Named(t) /\ HoldsLock(t)
  BY DEF LockInv, IdInv
<1>3. UNCHANGED <<nextId, boot, page, log>>
  BY DEF Lock, Work, Stop, WaitStopped, StartAgain, PatchState, TakeNonce, Redeploy,
         Unlock, quiet
<1>4. op[t].id # 0
  BY <1>1, <1>2 DEF Named, Operation
(* What becomes of t when it goes on or when its calls are over.           *)
<1>5. ASSUME NEW ok \in BOOLEAN, End(t, ok), op[t].pc \notin {"report", "unlock"},
             job'.by = op[t].id =>
                op[t].kind = "suspend" \/ (op[t].kind = "restart" /\ ~ok)
      PROVE  /\ \A u \in Caller : u # t => op'[u] = op[u]
             /\ Busy(t)' => op'[t].id = op[t].id
             /\ Named(t)'
  BY <1>1, <1>2, <1>3, <1>5, EndIs DEF Named, Busy, Logged, SuspensionStands, Tracked
<1>6. ASSUME NEW pc \in Calls, Goto(t, pc), op[t].pc \notin {"report", "unlock"},
             job'.by = op[t].id =>
                \/ op[t].kind = "suspend"
                \/ op[t].kind = "restart" /\ (pc \in {"wait", "start"} \/ ~op[t].ok)
      PROVE  /\ \A u \in Caller : u # t => op'[u] = op[u]
             /\ Busy(t)' => op'[t].id = op[t].id
             /\ Named(t)'
  <2>1. /\ op'[t].pc = pc /\ op'[t].kind = op[t].kind /\ op'[t].id = op[t].id
        /\ op'[t].told = op[t].told /\ op'[t].ok = op[t].ok
        /\ \A u \in Caller : u # t => op'[u] = op[u]
    BY <1>1, <1>6 DEF Goto, Operation
  <2>2. pc \notin {"report", "unlock"}
    BY DEF Calls
  <2> QED
    BY <1>1, <1>2, <1>3, <1>6, <2>1, <2>2 DEF Named, Busy, Logged, SuspensionStands
<1>7. CASE Lock(t)
  <2>1. FirstCall[op[t].kind] \in Calls /\ op[t].pc = "lock" /\ job' = job
    BY <1>1, <1>7, FirstCallType DEF Lock, At, Operation, Calls
  <2>2. job.by = op[t].id =>
           op[t].kind = "suspend" \/ (op[t].kind = "restart" /\ ~op[t].ok)
    BY <1>1, <1>2, <2>1 DEF Named, SuspensionStands
  <2> QED
    BY <1>1, <1>3, <1>6, <1>7, <2>1, <2>2, IdFrame, StopFrame DEF Lock
<1>8. CASE Work(t)
  <2>1. op[t].pc = "work" /\ job' = job /\ "nonce" \in Calls
    BY <1>8 DEF Work, At, Calls
  <2>2. job.by = op[t].id =>
           op[t].kind = "suspend" \/ (op[t].kind = "restart" /\ ~op[t].ok)
    BY <1>1, <1>2, <2>1 DEF Named, SuspensionStands
  <2>3. CASE End(t, FALSE)
    BY <1>1, <1>3, <1>5, <2>1, <2>2, <2>3, IdFrame, StopFrame
  <2>4. CASE op[t].kind \in {"savepoint", "replay"} /\ End(t, TRUE)
    BY <1>1, <1>3, <1>5, <2>1, <2>2, <2>4, IdFrame, StopFrame
  <2>5. CASE Goto(t, "nonce")
    BY <1>1, <1>3, <1>6, <2>1, <2>2, <2>5, IdFrame, StopFrame
  <2> QED
    BY <1>8, <2>3, <2>4, <2>5 DEF Work
<1>9. CASE Stop(t)
  <2>1. op[t].pc = "stop" /\ op[t].kind = "restart" /\ "wait" \in Calls
    BY <1>1, <1>2, <1>9 DEF Stop, At, HoldsLock, Calls
  <2>2. job'.by \in {0, job.by, op[t].id} /\ (job' = job \/ job'.by = op[t].id)
    BY <1>1, <1>9, SuspendedType DEF Stop, Fails
  <2>3. ~Logged(op[t].id)
    BY <1>1, <1>2, <2>1 DEF Named, Tracked
  <2>4. CASE End(t, FALSE)
    BY <1>1, <1>3, <1>5, <2>1, <2>2, <2>3, <2>4, IdFrame, StopFrame
  <2>5. CASE Goto(t, "wait")
    BY <1>1, <1>3, <1>6, <2>1, <2>2, <2>3, <2>5, IdFrame, StopFrame
  <2> QED
    BY <1>9, <2>4, <2>5 DEF Stop, Fails
<1>10. CASE WaitStopped(t)
  <2>1. op[t].pc = "wait" /\ op[t].kind = "restart" /\ "start" \in Calls /\ job' = job
    BY <1>1, <1>2, <1>10 DEF WaitStopped, At, HoldsLock, Calls
  <2> QED
    BY <1>1, <1>3, <1>6, <1>10, <2>1, IdFrame, StopFrame DEF WaitStopped
<1>11. CASE StartAgain(t)
  <2>1. op[t].pc = "start" /\ op[t].kind = "restart"
    BY <1>1, <1>2, <1>11 DEF StartAgain, At, HoldsLock
  <2>2. \/ job'.by = 0 /\ End(t, TRUE)
        \/ (job' = job \/ job'.by = 0) /\ End(t, FALSE)
    BY <1>11, RunningType DEF StartAgain, Fails
  <2> QED
    BY <1>1, <1>3, <1>4, <1>5, <2>1, <2>2, IdFrame, StopFrame
<1>12. CASE PatchState(t)
  <2>1. op[t].pc = "patch" /\ op[t].kind \in {"suspend", "resume"}
    BY <1>1, <1>2, <1>12 DEF PatchState, At, HoldsLock
  <2>2. \/ job' = job
        \/ job'.by = 0
        \/ job'.by = op[t].id /\ op[t].kind = "suspend"
    BY <1>1, <1>12, <2>1, RunningType, SuspendedType DEF PatchState, Fails
  <2>3. ~Logged(op[t].id)
    BY <1>1, <1>2, <2>1 DEF Named, Tracked
  <2>4. job.by = op[t].id => op[t].kind = "suspend"
    BY <1>1, <1>2, <2>1 DEF Named, SuspensionStands
  <2>5. \E ok \in BOOLEAN : End(t, ok)
    BY <1>12 DEF PatchState, Fails
  <2> QED
    BY <1>1, <1>3, <1>4, <1>5, <2>1, <2>2, <2>3, <2>4, <2>5, IdFrame, StopFrame
<1>13. CASE TakeNonce(t)
  <2>1. op[t].pc = "nonce" /\ job' = job /\ "redeploy" \in Calls
    BY <1>13 DEF TakeNonce, At, Calls
  <2>2. job.by = op[t].id =>
           op[t].kind = "suspend" \/ (op[t].kind = "restart" /\ ~op[t].ok)
    BY <1>1, <1>2, <2>1 DEF Named, SuspensionStands
  <2>3. CASE Goto(t, "redeploy")
    BY <1>1, <1>3, <1>6, <2>1, <2>2, <2>3, IdFrame, StopFrame
  <2>4. CASE UNCHANGED op
    <3>1. Named(t)'
      BY <1>2, <1>3, <2>1, <2>4 DEF Named, Busy, Logged, SuspensionStands
    <3> QED
      BY <1>1, <1>3, <2>1, <2>4, <3>1, IdFrame, StopFrame
  <2> QED
    BY <1>13, <2>3, <2>4 DEF TakeNonce
<1>14. CASE Redeploy(t)
  <2>1. op[t].pc = "redeploy"
    BY <1>14 DEF Redeploy, At
  <2>2. job.by = op[t].id =>
           op[t].kind = "suspend" \/ (op[t].kind = "restart" /\ ~op[t].ok)
    BY <1>1, <1>2, <2>1 DEF Named, SuspensionStands
  <2>3. \/ job'.by = 0 /\ End(t, TRUE)
        \/ (job' = job \/ job'.by = 0) /\ End(t, FALSE)
    BY <1>14, RedeployedType DEF Redeploy, Fails
  <2> QED
    BY <1>1, <1>3, <1>4, <1>5, <2>1, <2>2, <2>3, IdFrame, StopFrame
<1>15. CASE Unlock(t)
  <2>1. op[t].pc = "unlock" /\ job' = job /\ \A u \in Caller : u # t => op'[u] = op[u]
    BY <1>1, <1>15 DEF Unlock, At
  <2>2. \/ op'[t] = Idle
        \/ /\ ~op[t].told /\ op'[t].pc = "report" /\ op'[t].kind = op[t].kind
           /\ op'[t].id = op[t].id /\ op'[t].told = op[t].told /\ op'[t].ok = op[t].ok
    BY <1>1, <1>15 DEF Unlock, Operation
  <2>3. Named(t)'
    BY <1>1, <1>2, <1>3, <2>1, <2>2 DEF Named, Busy, Logged, SuspensionStands
  <2>4. Busy(t)' => op'[t].id = op[t].id
    BY <2>2 DEF Busy
  <2> QED
    BY <1>1, <1>3, <2>1, <2>3, <2>4, IdFrame, StopFrame
<1> QED
  BY <1>7, <1>8, <1>9, <1>10, <1>11, <1>12, <1>13, <1>14, <1>15

LEMMA IdReport ==
    ASSUME TypeOK, IdInv, NoSilentStop, NEW t \in Caller, Report(t)
    PROVE  IdInv' /\ NoSilentStop'
<1>1. op \in [Caller -> Operation \cup {Idle}] /\ At(t, "report") /\ op[t] \in Operation
  BY BusyType DEF TypeOK, Report, At
<1>2. Named(t) /\ ~op[t].told /\ op[t].kind \in Tracked /\ ~Logged(op[t].id)
  BY <1>1 DEF IdInv, Named, At
<1>3. /\ log \in Seq([id : Nat, status : Ended])
      /\ [id |-> op[t].id, status |-> Outcome(t)] \in [id : Nat, status : Ended]
  BY <1>1 DEF TypeOK, Operation, Outcome, Ended
<1>4. /\ DOMAIN log' = 1 .. Len(log) + 1 /\ DOMAIN log = 1 .. Len(log) /\ Len(log) \in Nat
      /\ \A i \in DOMAIN log : log'[i] = log[i]
      /\ log'[Len(log) + 1] = [id |-> op[t].id, status |-> Outcome(t)]
  BY <1>3 DEF Report
<1>5. UNCHANGED <<nextId, boot, page, job>> /\ \A u \in Caller : u # t => op'[u] = op[u]
  BY <1>1 DEF Report, At
<1>6. \/ op'[t] = Idle
      \/ /\ op'[t].pc = "unlock" /\ op'[t].told /\ op'[t].kind = op[t].kind
         /\ op'[t].id = op[t].id /\ op'[t].ok = op[t].ok
  BY <1>1 DEF Report, Operation
<1>7. Named(t)'
  BY <1>1, <1>2, <1>5, <1>6 DEF Named, Busy, At, Tracked, SuspensionStands
<1>8. \A u \in Caller : u # t => Named(u)'
  <2> SUFFICES ASSUME NEW u \in Caller, u # t PROVE Named(u)'
    OBVIOUS
  <2>1. Named(u) /\ op'[u] = op[u] /\ (Busy(u) => op[u].id # op[t].id)
    BY <1>1, <1>5 DEF IdInv, At
  <2>2. Busy(u) /\ Logged(op[u].id)' => Logged(op[u].id)
    BY <1>4, <2>1 DEF Logged
  <2>3. SuspensionStands(u) => SuspensionStands(u)'
    BY <2>1 DEF SuspensionStands
  <2> QED
    BY <1>5, <2>1, <2>2, <2>3 DEF Named, Busy
<1>9. \A u, v \in Caller : Busy(u)' /\ Busy(v)' /\ op'[u].id = op'[v].id => u = v
  <2>1. \A u \in Caller : Busy(u)' => Busy(u) /\ op'[u].id = op[u].id
    BY <1>1, <1>5, <1>6 DEF Busy, At
  <2> QED
    BY <2>1 DEF IdInv
<1>10. \A i \in DOMAIN log' : log'[i].id \in 1 .. nextId' - 1
  BY <1>1, <1>2, <1>4, <1>5 DEF IdInv, Named, At
<1>11. \A i, j \in DOMAIN log' : log'[i].id = log'[j].id => i = j
  BY <1>2, <1>4 DEF IdInv, Logged
<1>12. IdInv'
  BY <1>5, <1>7, <1>8, <1>9, <1>10, <1>11 DEF IdInv
<1>13. op[t].ok => job.by # op[t].id
  BY <1>1, <1>2 DEF Named, SuspensionStands, At, Tracked
<1>14. NoSilentStop'
  <2> SUFFICES ASSUME NEW i \in DOMAIN log', log'[i].status = "succeeded",
                      job'.state = "suspended", job'.by = log'[i].id
               PROVE  FALSE
    BY DEF NoSilentStop
  <2>1. CASE i \in DOMAIN log
    BY <1>4, <1>5, <2>1 DEF NoSilentStop
  <2>2. CASE i = Len(log) + 1
    BY <1>4, <1>5, <1>13, <2>2 DEF Outcome
  <2> QED
    BY <1>4, <2>1, <2>2
<1> QED
  BY <1>12, <1>14

LEMMA IdInvNext ==
    TypeOK /\ LockInv /\ IdInv /\ NoSilentStop /\ [Next]_vars => IdInv' /\ NoSilentStop'
<1> SUFFICES ASSUME TypeOK, LockInv, IdInv, NoSilentStop, [Next]_vars
             PROVE  IdInv' /\ NoSilentStop'
  OBVIOUS
<1>1. CASE \E t \in Caller, k \in Offered : Start(t, k)
  BY <1>1, IdStart, StopFrame, ConsoleAssumption DEF Start
<1>2. CASE \E t \in Caller : Lock(t) \/ Step(t)
  BY <1>2, IdCalls, IdReport DEF Step
<1>3. CASE Crash
  <2>1. nextId \in Nat
    BY DEF TypeOK
  <2>2. \A u \in Caller : ~Busy(u)'
    BY <1>3 DEF Crash, Busy
  <2>3. DOMAIN log' = {} /\ boot' = nextId /\ UNCHANGED <<nextId, job, page>>
    BY <1>3 DEF Crash
  <2> QED
    BY <2>1, <2>2, <2>3 DEF IdInv, Named, NoSilentStop
<1>4. CASE Poll \/ GiveUp \/ Clock \/ UNCHANGED vars
  <2>1. UNCHANGED <<op, nextId, boot, job, log>> /\ page' \in {0, page}
    BY <1>4 DEF Poll, GiveUp, Clock, vars
  <2> QED
    BY <2>1 DEF IdInv, Named, NoSilentStop, Busy, Logged, SuspensionStands
<1> QED
  BY <1>1, <1>2, <1>3, <1>4 DEF Next

LEMMA IdInvAlways == Spec => [](IdInv /\ NoSilentStop)
BY IdInvInit, IdInvNext, TypeCorrect, LockInvAlways, PTL DEF Spec

(* A Restart that is shown as succeeded has never left the job suspended.  *)
THEOREM NoRestartStopsSilently == Spec => []NoSilentStop
BY IdInvAlways, PTL

-----------------------------------------------------------------------------
(* The registry.                                                           *)

(* Pruning after one more entry: all are kept up to the limit, beyond it   *)
(* the first goes.                                                         *)
LEMMA KeptAppend ==
    ASSUME NEW ids \in Seq(Nat), NEW id \in Nat, Len(ids) <= MaxKeep
    PROVE  /\ Len(ids) < MaxKeep => Kept(Append(ids, id)) = Append(ids, id)
           /\ Len(ids) = MaxKeep =>
                 /\ Len(Kept(Append(ids, id))) = MaxKeep
                 /\ \A i \in 1 .. MaxKeep : Kept(Append(ids, id))[i] = Append(ids, id)[i + 1]
<1> USE MaxKeepAssumption
<1>1. Append(ids, id) \in Seq(Nat) /\ Len(Append(ids, id)) = Len(ids) + 1
  OBVIOUS
<1>2. CASE Len(ids) < MaxKeep
  BY <1>1, <1>2 DEF Kept
<1>3. CASE Len(ids) = MaxKeep
  <2>1. Kept(Append(ids, id)) = SubSeq(Append(ids, id), 2, MaxKeep + 1)
    BY <1>1, <1>3 DEF Kept
  <2> QED
    BY <1>1, <1>3, <2>1
<1> QED
  BY <1>1, <1>2, <1>3

(* The queue of finished entries is the end of the log.                    *)
TailOf(f, l) ==
    /\ Len(f) = IF Len(l) < MaxKeep THEN Len(l) ELSE MaxKeep
    /\ \A i \in DOMAIN f : f[i] = l[Len(l) - Len(f) + i].id

(* A queue that is the end of a log has the ids of its last entries.       *)
LEMMA QueueIsTail ==
    ASSUME NEW l \in Seq([id : Nat, status : Ended]), NEW f \in Seq(Nat),
           TailOf(f, l)
    PROVE  \A x : InSeq(x, f) <=> \E j \in DOMAIN l : j > Len(l) - MaxKeep /\ l[j].id = x
<1> USE MaxKeepAssumption DEF TailOf
<1> SUFFICES ASSUME NEW x
             PROVE  InSeq(x, f) <=> \E j \in DOMAIN l : j > Len(l) - MaxKeep /\ l[j].id = x
  OBVIOUS
<1>1. DOMAIN f = 1 .. Len(f) /\ DOMAIN l = 1 .. Len(l) /\ Len(l) \in Nat /\ Len(f) \in Nat
  OBVIOUS
<1>2. ASSUME NEW i \in DOMAIN f, f[i] = x
      PROVE  \E j \in DOMAIN l : j > Len(l) - MaxKeep /\ l[j].id = x
  <2>1. Len(l) - Len(f) + i \in DOMAIN l /\ Len(l) - Len(f) + i > Len(l) - MaxKeep
    BY <1>1
  <2> QED
    BY <1>2, <2>1
<1>3. ASSUME NEW j \in DOMAIN l, j > Len(l) - MaxKeep, l[j].id = x
      PROVE  \E i \in DOMAIN f : f[i] = x
  <2>1. j - Len(l) + Len(f) \in DOMAIN f
    BY <1>1, <1>3
  <2>2. Len(l) - Len(f) + (j - Len(l) + Len(f)) = j
    BY <1>1
  <2>3. f[j - Len(l) + Len(f)] = l[j].id
    BY <2>1, <2>2
  <2> QED
    BY <1>3, <2>1, <2>3
<1> QED
  BY <1>2, <1>3 DEF InSeq

(* Appending to the log l and pruning the queue f keep the one the end of  *)
(* the other: q and m are queue and log with the new entry e, k is what is *)
(* kept of q; n and c are the lengths of l and f, d is that of k.          *)
Appending(l, f, q, m, k, n, c, d, e) ==
    /\ n \in Nat /\ c = IF n < MaxKeep THEN n ELSE MaxKeep
    /\ DOMAIN f = 1 .. c /\ \A i \in 1 .. c : f[i] = l[n - c + i].id
    /\ DOMAIN q = 1 .. c + 1 /\ (\A i \in 1 .. c : q[i] = f[i]) /\ q[c + 1] = e.id
    /\ (\A i \in 1 .. n : m[i] = l[i]) /\ m[n + 1] = e
    /\ c < MaxKeep => k = q
    /\ c = MaxKeep => DOMAIN k = 1 .. MaxKeep /\ \A i \in 1 .. MaxKeep : k[i] = q[i + 1]
    /\ d = IF n + 1 < MaxKeep THEN n + 1 ELSE MaxKeep

Within(k, q) == \A x : InSeq(x, k) => InSeq(x, q)

Appended(q, m, k, n, d) ==
    /\ DOMAIN k = 1 .. d
    /\ \A i \in DOMAIN k : k[i] = m[n + 1 - d + i].id
    /\ \A i \in DOMAIN k : \E j \in DOMAIN q : q[j] = k[i]

LEMMA AppendingTail ==
    ASSUME NEW l, NEW f, NEW q, NEW m, NEW k, NEW n, NEW c, NEW d, NEW e,
           Appending(l, f, q, m, k, n, c, d, e)
    PROVE  Appended(q, m, k, n, d)
<1> USE MaxKeepAssumption DEF Appending, Appended
<1>1. CASE c < MaxKeep
  <2>1. c = n /\ d = n + 1 /\ k = q
    BY <1>1
  <2>2. \A i \in 1 .. n : k[i] = l[i].id
    <3> SUFFICES ASSUME NEW i \in 1 .. n PROVE k[i] = l[i].id
      OBVIOUS
    <3>1. k[i] = f[i] /\ f[i] = l[n - c + i].id /\ n - c + i = i
      BY <2>1
    <3> QED
      BY <3>1
  <2>3. \A i \in 1 .. n + 1 : k[i] = m[i].id
    BY <2>1, <2>2
  <2>4. \A i \in 1 .. n + 1 : n + 1 - d + i = i
    BY <2>1
  <2> QED
    BY <2>1, <2>3, <2>4
<1>2. CASE c = MaxKeep
  <2>1. d = MaxKeep /\ n >= MaxKeep /\ DOMAIN k = 1 .. MaxKeep
    BY <1>2
  <2>2. \A i \in 1 .. MaxKeep : k[i] = q[i + 1] /\ i + 1 \in DOMAIN q
    BY <1>2
  <2>3. \A i \in 1 .. MaxKeep : q[i + 1] = m[n + 1 - d + i].id
    <3> SUFFICES ASSUME NEW i \in 1 .. MaxKeep PROVE q[i + 1] = m[n + 1 - d + i].id
      OBVIOUS
    <3>1. CASE i = MaxKeep
      <4>1. n + 1 - d + i = n + 1 /\ i + 1 = c + 1
        BY <1>2, <2>1, <3>1
      <4> QED
        BY <4>1
    <3>2. CASE i < MaxKeep
      <4>1. i + 1 \in 1 .. c
        BY <1>2, <3>2
      <4>2. q[i + 1] = l[n - c + (i + 1)].id
        BY <4>1
      <4>3. n - c + (i + 1) = n + 1 - d + i /\ n + 1 - d + i \in 1 .. n
        BY <1>2, <2>1, <3>2
      <4> QED
        BY <4>2, <4>3
    <3> QED
      BY <3>1, <3>2
  <2> QED
    BY <2>1, <2>2, <2>3
<1> QED
  BY <1>1, <1>2

LEMMA TailStep ==
    ASSUME NEW l, NEW f, NEW q, NEW m \in Seq([id : Nat, status : Ended]), NEW k \in Seq(Nat),
           NEW c, NEW d, NEW e,
           Appending(l, f, q, m, k, Len(l), c, d, e), Len(m) = Len(l) + 1
    PROVE  TailOf(k, m) /\ Within(k, q)
<1>1. Appended(q, m, k, Len(l), d)
  BY AppendingTail, Zenon
<1>2. d \in Nat /\ d = IF Len(l) + 1 < MaxKeep THEN Len(l) + 1 ELSE MaxKeep
  BY MaxKeepAssumption DEF Appending
<1>3. Len(k) = d
  BY <1>1, <1>2 DEF Appended
<1>4. Len(k) = IF Len(m) < MaxKeep THEN Len(m) ELSE MaxKeep
  BY <1>2, <1>3
<1>5. ASSUME NEW i \in DOMAIN k PROVE k[i] = m[Len(m) - Len(k) + i].id
  <2>1. Len(m) - Len(k) + i = Len(l) + 1 - d + i
    BY <1>3
  <2>2. k[i] = m[Len(l) + 1 - d + i].id
    BY <1>1 DEF Appended
  <2> QED
    BY <2>1, <2>2, Zenon
<1>6. Within(k, q)
  BY <1>1 DEF InSeq, Appended, Within
<1> QED
  BY <1>4, <1>5, <1>6 DEF TailOf

LEMMA TailKept ==
    ASSUME NEW l \in Seq([id : Nat, status : Ended]), NEW f \in Seq(Nat),
           NEW e \in [id : Nat, status : Ended], TailOf(f, l)
    PROVE  /\ Kept(Append(f, e.id)) \in Seq(Nat)
           /\ Append(l, e) \in Seq([id : Nat, status : Ended])
           /\ TailOf(Kept(Append(f, e.id)), Append(l, e))
           /\ Within(Kept(Append(f, e.id)), Append(f, e.id))
<1>a. PICK q : q = Append(f, e.id)
  OBVIOUS
<1>b. PICK k : k = Kept(q)
  OBVIOUS
<1>c. PICK m : m = Append(l, e)
  OBVIOUS
<1> USE MaxKeepAssumption DEF TailOf
<1>1. /\ q \in Seq(Nat) /\ DOMAIN q = 1 .. Len(f) + 1 /\ q[Len(f) + 1] = e.id
      /\ \A i \in 1 .. Len(f) : q[i] = f[i]
  BY <1>a
<1>2. /\ m \in Seq([id : Nat, status : Ended]) /\ Len(m) = Len(l) + 1 /\ m[Len(l) + 1] = e
      /\ \A i \in 1 .. Len(l) : m[i] = l[i]
  BY <1>c
<1>3. k \in Seq(Nat)
  BY <1>1, <1>b, KeptType
<1>4. /\ Len(f) <= MaxKeep /\ Len(f) \in Nat /\ Len(l) \in Nat /\ DOMAIN f = 1 .. Len(f)
      /\ e.id \in Nat
  OBVIOUS
<1>5. /\ Len(f) < MaxKeep => k = q
      /\ Len(f) = MaxKeep =>
            Len(k) = MaxKeep /\ \A i \in 1 .. MaxKeep : k[i] = q[i + 1]
  BY <1>4, <1>a, <1>b, KeptAppend, Zenon
<1>6. Len(f) = MaxKeep => DOMAIN k = 1 .. MaxKeep
  BY <1>3, <1>5
<1>7. Appending(l, f, q, m, k, Len(l), Len(f),
                IF Len(l) + 1 < MaxKeep THEN Len(l) + 1 ELSE MaxKeep, e)
  BY <1>1, <1>2, <1>4, <1>5, <1>6 DEF Appending
<1>8. TailOf(k, m) /\ Within(k, q)
  <2> HIDE DEF TailOf
  <2> QED
    BY <1>2, <1>3, <1>7, TailStep, Zenon
<1> HIDE DEF TailOf
<1> QED
  BY <1>2, <1>3, <1>8, <1>a, <1>b, <1>c

(* Which operations are at work is for the registry alone to know: a step  *)
(* that leaves a slot's report to come leaves its name, too.               *)
Pending(t) == Busy(t) /\ ~op[t].told

LEMMA AtWorkFrame ==
    ASSUME \A u \in Caller : Pending(u)' <=> Pending(u),
           \A u \in Caller : Pending(u) => op'[u].id = op[u].id
    PROVE  AtWork' = AtWork
BY DEF AtWork, Pending

LEMMA CallsFrame ==
    ASSUME TypeOK, IdInv, NEW t \in Caller,
           \/ Lock(t) \/ Work(t) \/ Stop(t) \/ WaitStopped(t) \/ StartAgain(t)
           \/ PatchState(t) \/ TakeNonce(t) \/ Redeploy(t) \/ Unlock(t)
    PROVE  AtWork' = AtWork /\ UNCHANGED <<storeVars, log, page, boot>>
<1>1. op \in [Caller -> Operation \cup {Idle}] /\ Busy(t) /\ op[t] \in Operation
  BY BusyType
  DEF TypeOK, Lock, Work, Stop, WaitStopped, StartAgain, PatchState, TakeNonce, Redeploy,
      Unlock, At
<1>2. UNCHANGED <<storeVars, log, page, boot>>
  BY DEF Lock, Work, Stop, WaitStopped, StartAgain, PatchState, TakeNonce, Redeploy, Unlock,
         Fails, quiet
<1> SUFFICES AtWork' = AtWork
  BY <1>2
<1>3. op[t].kind = "promote" => op[t].told
  BY <1>1 DEF IdInv, Named, Tracked
<1>4. ASSUME NEW ok \in BOOLEAN, End(t, ok) PROVE AtWork' = AtWork
  <2>1. /\ \A u \in Caller : u # t => op'[u] = op[u]
        /\ op[t].kind = "promote" => op'[t] = Idle
        /\ op[t].kind # "promote" =>
              op'[t] # Idle /\ op'[t].told = op[t].told /\ op'[t].id = op[t].id
    BY <1>1, <1>4, EndIs DEF Idle, Operation
  <2> QED
    BY <1>1, <1>3, <2>1, AtWorkFrame DEF Pending, Busy
<1>5. ASSUME NEW pc \in Calls \cup {"lock", "report", "unlock"}, Goto(t, pc) PROVE AtWork' = AtWork
  <2>1. /\ \A u \in Caller : u # t => op'[u] = op[u]
        /\ op'[t] # Idle /\ op'[t].told = op[t].told /\ op'[t].id = op[t].id
    BY <1>1, <1>5 DEF Goto, Idle, Operation
  <2> QED
    BY <1>1, <2>1, AtWorkFrame DEF Pending, Busy
<1>6. CASE Unlock(t)
  <2>1. /\ \A u \in Caller : u # t => op'[u] = op[u]
        /\ op[t].told => op'[t] = Idle
        /\ ~op[t].told =>
              op'[t] # Idle /\ op'[t].told = op[t].told /\ op'[t].id = op[t].id
    BY <1>1, <1>6 DEF Unlock, Idle, Operation
  <2> QED
    BY <1>1, <2>1, AtWorkFrame DEF Pending, Busy
<1>7. CASE UNCHANGED op
  BY <1>7 DEF AtWork, Busy
<1>8. CASE Lock(t) \/ WaitStopped(t)
  <2>1. "start" \in Calls /\ FirstCall[op[t].kind] \in Calls
    BY <1>1, FirstCallType DEF Calls, Operation
  <2> QED
    BY <1>5, <1>8, <2>1 DEF Lock, WaitStopped
<1>9. CASE Work(t) \/ Stop(t)
  BY <1>4, <1>5, <1>9 DEF Work, Stop, Fails, Calls
<1>10. CASE StartAgain(t) \/ PatchState(t) \/ Redeploy(t)
  BY <1>4, <1>10 DEF StartAgain, PatchState, Redeploy, Fails
<1>11. CASE TakeNonce(t)
  BY <1>5, <1>7, <1>11 DEF TakeNonce, Calls
<1> QED
  BY <1>6, <1>8, <1>9, <1>10, <1>11

LEMMA StoreFrame ==
    ASSUME StoreInv, AtWork' = AtWork, UNCHANGED <<storeVars, log>>
    PROVE  StoreInv'
<1>1. UNCHANGED <<tasks, finished, log>>
  BY DEF storeVars
<1>2. Remembered' = Remembered /\ \A id : Get(id)' = Get(id)
  BY <1>1 DEF Remembered, Get
<1>3. RegistryRemembers'
  BY <1>1, <1>2 DEF StoreInv, RegistryRemembers
<1> QED
  BY <1>1, <1>3 DEF StoreInv

LEMMA PageFrame ==
    ASSUME PageInv, AtWork' = AtWork, UNCHANGED <<log, boot>>, page' \in {0, page}
    PROVE  PageInv'
BY DEF PageInv, Logged

(* A new operation is at work and in the map.                              *)
LEMMA StartFrame ==
    ASSUME TypeOK, IdInv, NEW t \in Caller, NEW k \in Kind, Start(t, k)
    PROVE  /\ AtWork' = IF k \in Tracked THEN AtWork \cup {nextId} ELSE AtWork
           /\ k \notin Tracked => UNCHANGED <<storeVars, page>>
           /\ k \in Tracked => Create(nextId) /\ page' \in {page, nextId}
           /\ UNCHANGED <<log, boot>>
<1>1. op \in [Caller -> Operation \cup {Idle}] /\ ~Busy(t)
  BY DEF TypeOK, Start
<1>2. op'[t] = Begun(k) /\ \A u \in Caller : u # t => op'[u] = op[u]
  BY <1>1 DEF Start
<1>3. /\ Begun(k) # Idle /\ Begun(k).id = nextId /\ Begun(k).told = (k \notin Tracked)
  BY DEF Begun, Idle
<1>4. CASE k \in Tracked
  <2>1. AtWork' = AtWork \cup {nextId}
    BY <1>1, <1>2, <1>3, <1>4 DEF AtWork, Busy
  <2> QED
    BY <1>4, <2>1 DEF Start
<1>5. CASE k \notin Tracked
  <2>1. \A u \in Caller : (Pending(u)' <=> Pending(u)) /\ (Pending(u) => op'[u].id = op[u].id)
    BY <1>1, <1>2, <1>3, <1>5 DEF Pending, Busy
  <2>2. AtWork' = AtWork
    BY <2>1, AtWorkFrame
  <2> QED
    BY <1>5, <2>2 DEF Start
<1> QED
  BY <1>4, <1>5

LEMMA StoreStart ==
    ASSUME TypeOK, IdInv, StoreInv, NEW t \in Caller, NEW k \in Kind, Start(t, k)
    PROVE  StoreInv'
<1>1. CASE k \notin Tracked
  BY <1>1, StartFrame, StoreFrame
<1>2. CASE k \in Tracked
  <2>1. /\ AtWork' = AtWork \cup {nextId} /\ UNCHANGED <<finished, log>>
        /\ DOMAIN tasks' = DOMAIN tasks \cup {nextId}
        /\ \A i \in DOMAIN tasks' :
              tasks'[i] = IF i = nextId THEN [status |-> "running", finishedAt |-> FALSE]
                          ELSE tasks[i]
    BY <1>2, StartFrame DEF Create
  <2>2. Remembered' = Remembered
    BY <2>1 DEF Remembered
  <2>3. \A id \in AtWork : id # nextId
    BY DEF TypeOK, IdInv, Named, AtWork
  <2>4. \A e \in Remembered : e.id # nextId
    BY DEF TypeOK, IdInv, Remembered
  <2>5. \A id : Get(id)' = IF id = nextId THEN "running" ELSE Get(id)
    BY <2>1 DEF Get
  <2>6. DOMAIN tasks' = AtWork' \cup {e.id : e \in Remembered'}
    BY <2>1, <2>2 DEF StoreInv, RegistryRemembers
  <2>7. \A id \in AtWork' : Get(id)' = "running"
    BY <2>1, <2>5 DEF StoreInv, RegistryRemembers
  <2>8. \A e \in Remembered' : Get(e.id)' = e.status
    BY <2>2, <2>4, <2>5 DEF StoreInv, RegistryRemembers
  <2>9. RegistryRemembers'
    BY <2>6, <2>7, <2>8 DEF RegistryRemembers
  <2>10. ASSUME NEW id \in DOMAIN tasks'
         PROVE  tasks'[id].finishedAt <=> tasks'[id].status # "running"
    <3>1. CASE id = nextId
      <4>1. tasks'[id] = [status |-> "running", finishedAt |-> FALSE]
        BY <2>1, <3>1
      <4> QED
        BY <4>1
    <3>2. CASE id # nextId
      <4>1. tasks'[id] = tasks[id] /\ id \in DOMAIN tasks
        BY <2>1, <3>2
      <4> QED
        BY <4>1, Zenon DEF StoreInv
    <3> QED
      BY <3>1, <3>2
  <2> QED
    BY <2>1, <2>9, <2>10 DEF StoreInv
<1> QED
  BY <1>1, <1>2

(* Reporting takes one operation from those at work and appends it to the  *)
(* log and, pruned, to the queue.                                          *)
LEMMA ReportFrame ==
    ASSUME TypeOK, IdInv, StoreInv, NEW t \in Caller, Report(t),
           NEW x, x = op[t].id
    PROVE  /\ x \in AtWork /\ x \in Nat /\ ~Logged(x) /\ AtWork' = AtWork \ {x}
           /\ Outcome(t) \in Ended /\ UNCHANGED <<page, boot>>
           /\ log' = Append(log, [id |-> x, status |-> Outcome(t)])
           /\ finished' = Kept(Append(finished, x))
           /\ DOMAIN tasks' = {j \in DOMAIN tasks : InSeq(j, Append(finished, x)) => InSeq(j, finished')}
           /\ \A i \in DOMAIN tasks' :
                 tasks'[i] = IF i = x THEN [status |-> Outcome(t), finishedAt |-> TRUE] ELSE tasks[i]
<1>1. op \in [Caller -> Operation \cup {Idle}] /\ At(t, "report") /\ op[t] \in Operation
  BY BusyType DEF TypeOK, Report, At
<1>2. Named(t) /\ ~op[t].told /\ ~Logged(x) /\ Busy(t) /\ x \in Nat
  BY <1>1 DEF IdInv, Named, At, Operation
<1>3. x \in AtWork
  BY <1>2 DEF AtWork
<1>4. /\ \A u \in Caller : u # t => op'[u] = op[u]
      /\ op'[t] = Idle \/ op'[t].told
  BY <1>1 DEF Report, Operation
<1>5. \A u \in Caller : u # t /\ Busy(u) => op[u].id # x
  BY <1>2 DEF IdInv
<1>6. AtWork' = AtWork \ {x}
  BY <1>2, <1>4, <1>5 DEF AtWork, Busy
<1>7. Outcome(t) \in Ended /\ Outcome(t) # "running"
  BY DEF Outcome, Ended
<1>8. x \in DOMAIN tasks /\ tasks[x].finishedAt = FALSE
  BY <1>3 DEF StoreInv, RegistryRemembers, Get
<1>9. Update(x, Outcome(t)) /\ UNCHANGED <<page, boot>>
      /\ log' = Append(log, [id |-> x, status |-> Outcome(t)])
  BY DEF Report
<1>10. /\ finished' = Kept(Append(finished, x))
       /\ tasks' = [i \in {j \in DOMAIN tasks :
                              ~(InSeq(j, Append(finished, x)) /\ ~InSeq(j, Kept(Append(finished, x))))} |->
                       IF i = x THEN [status |-> Outcome(t), finishedAt |-> TRUE] ELSE tasks[i]]
  BY <1>7, <1>8, <1>9, Zenon DEF Update
<1> QED
  BY <1>2, <1>3, <1>6, <1>7, <1>9, <1>10, Zenon

LEMMA StoreReport ==
    ASSUME TypeOK, IdInv, StoreInv, NEW t \in Caller, Report(t)
    PROVE  StoreInv'
<1> DEFINE x == op[t].id
           e == [id |-> x, status |-> Outcome(t)]
           queue == Append(finished, x)
<1>1. /\ x \in AtWork /\ x \in Nat /\ ~Logged(x) /\ AtWork' = AtWork \ {x}
      /\ Outcome(t) \in Ended
      /\ log' = Append(log, e) /\ finished' = Kept(queue)
      /\ DOMAIN tasks' = {j \in DOMAIN tasks : InSeq(j, queue) => InSeq(j, finished')}
      /\ \A i \in DOMAIN tasks' :
            tasks'[i] = IF i = x THEN [status |-> Outcome(t), finishedAt |-> TRUE] ELSE tasks[i]
  BY ReportFrame, Zenon
<1>2. /\ log \in Seq([id : Nat, status : Ended]) /\ finished \in Seq(Nat)
      /\ e \in [id : Nat, status : Ended] /\ e.id = x
      /\ TailOf(finished, log)
  BY <1>1 DEF TypeOK, StoreTypeOK, StoreInv, TailOf
<1>3. /\ finished' \in Seq(Nat) /\ log' \in Seq([id : Nat, status : Ended])
      /\ TailOf(finished', log') /\ Within(finished', queue)
  <2>1. queue = Append(finished, e.id)
    BY <1>2
  <2>2. finished' = Kept(queue) /\ log' = Append(log, e)
    BY <1>1
  <2> HIDE DEF queue, e, x
  <2>3. /\ Kept(queue) \in Seq(Nat)
        /\ Append(log, e) \in Seq([id : Nat, status : Ended])
        /\ TailOf(Kept(queue), Append(log, e))
        /\ Within(Kept(queue), queue)
    BY <1>2, <2>1, TailKept, Zenon
  <2> QED
    BY <2>2, <2>3, Zenon
<1>4. /\ DOMAIN log' = 1 .. Len(log) + 1 /\ DOMAIN log = 1 .. Len(log) /\ Len(log) \in Nat
      /\ Len(log') = Len(log) + 1
      /\ \A i \in DOMAIN log : log'[i] = log[i]
      /\ log'[Len(log) + 1] = e
  BY <1>1, <1>2
<1>5. \A j : InSeq(j, queue) <=> InSeq(j, finished) \/ j = x
  <2>1. /\ DOMAIN queue = 1 .. Len(finished) + 1 /\ DOMAIN finished = 1 .. Len(finished)
        /\ Len(finished) \in Nat /\ queue[Len(finished) + 1] = x
        /\ \A i \in 1 .. Len(finished) : queue[i] = finished[i]
    BY <1>1, <1>2
  <2> HIDE DEF queue, x
  <2> QED
    BY <2>1 DEF InSeq
<1>6. \A j : InSeq(j, finished) <=> \E r \in Remembered : r.id = j
  <2>1. \A j : InSeq(j, finished) <=> \E i \in DOMAIN log : i > Len(log) - MaxKeep /\ log[i].id = j
    BY <1>2, QueueIsTail, Zenon
  <2> QED
    BY <2>1 DEF Remembered
<1>7. \A j : InSeq(j, finished') <=> \E r \in Remembered' : r.id = j
  <2>1. \A j : InSeq(j, finished') <=> \E i \in DOMAIN log' : i > Len(log') - MaxKeep /\ log'[i].id = j
    BY <1>3, QueueIsTail, Zenon
  <2> QED
    BY <2>1 DEF Remembered
<1>8. \A j \in AtWork : ~InSeq(j, finished)
  <2>1. \A j \in AtWork : ~Logged(j)
    BY DEF AtWork, IdInv, Named
  <2> QED
    BY <1>6, <2>1 DEF Remembered, Logged
<1> HIDE DEF x, e, queue
<1>9. DOMAIN tasks = AtWork \cup {r.id : r \in Remembered}
  BY DEF StoreInv, RegistryRemembers
<1>10. DOMAIN tasks' = AtWork' \cup {r.id : r \in Remembered'}
  <2>1. ASSUME NEW j \in DOMAIN tasks' PROVE j \in AtWork' \/ \E r \in Remembered' : r.id = j
    BY <1>1, <1>5, <1>6, <1>7, <1>9
  <2>2. ASSUME NEW j \in AtWork' PROVE j \in DOMAIN tasks'
    BY <1>1, <1>5, <1>8, <1>9
  <2>3. ASSUME NEW r \in Remembered' PROVE r.id \in DOMAIN tasks'
    <3>1. InSeq(r.id, finished')
      BY <1>7
    <3>2. InSeq(r.id, finished) \/ r.id = x
      BY <1>3, <1>5, <3>1 DEF Within
    <3>3. r.id \in DOMAIN tasks
      BY <1>1, <1>6, <1>9, <3>2
    <3> QED
      BY <1>1, <3>1, <3>3
  <2> QED
    BY <2>1, <2>2, <2>3
<1>11. \A i \in DOMAIN tasks' : i # x => Get(i)' = Get(i)
  BY <1>1 DEF Get
<1>12. \A id \in AtWork' : Get(id)' = "running"
  BY <1>1, <1>10, <1>11 DEF StoreInv, RegistryRemembers
<1>13. ASSUME NEW r \in Remembered' PROVE Get(r.id)' = r.status
  <2>1. r.id \in DOMAIN tasks'
    BY <1>10
  <2>2. PICK i \in DOMAIN log' : i > Len(log') - MaxKeep /\ r = log'[i]
    BY DEF Remembered
  <2>3. CASE i = Len(log) + 1
    <3>1. r.id = x /\ r.status = Outcome(t)
      BY <1>4, <2>2, <2>3 DEF e
    <3> QED
      BY <1>1, <2>1, <3>1 DEF Get
  <2>4. CASE i \in DOMAIN log
    <3>1. r = log[i] /\ r \in Remembered
      BY <1>4, <2>2, <2>4, MaxKeepAssumption DEF Remembered
    <3>2. r.id # x
      BY <1>1, <2>4, <3>1 DEF Logged
    <3> QED
      BY <1>11, <2>1, <3>1, <3>2 DEF StoreInv, RegistryRemembers
  <2> QED
    BY <1>4, <2>2, <2>3, <2>4
<1>14. RegistryRemembers'
  BY <1>10, <1>12, <1>13 DEF RegistryRemembers
<1>15. ASSUME NEW id \in DOMAIN tasks'
       PROVE  tasks'[id].finishedAt <=> tasks'[id].status # "running"
  <2>1. CASE id = x
    <3>1. tasks'[id] = [status |-> Outcome(t), finishedAt |-> TRUE] /\ Outcome(t) # "running"
      BY <1>1, <2>1 DEF Ended
    <3> QED
      BY <3>1
  <2>2. CASE id # x
    <3>1. tasks'[id] = tasks[id] /\ id \in DOMAIN tasks
      BY <1>1, <2>2
    <3> QED
      BY <3>1, Zenon DEF StoreInv
  <2> QED
    BY <2>1, <2>2
<1> QED
  BY <1>3, <1>14, <1>15 DEF StoreInv, TailOf

LEMMA StoreInvInit == Init => StoreInv /\ PageInv
<1> SUFFICES ASSUME Init PROVE StoreInv /\ PageInv
  OBVIOUS
<1>1. DOMAIN tasks = {} /\ log = <<>> /\ finished = <<>> /\ page = 0
  BY DEF Init, EmptyStore
<1>2. AtWork = {} /\ Remembered = {}
  BY <1>1 DEF Init, AtWork, Busy, Remembered
<1> QED
  BY <1>1, <1>2, MaxKeepAssumption DEF StoreInv, RegistryRemembers, PageInv

LEMMA StoreInvNext ==
    TypeOK /\ IdInv /\ StoreInv /\ PageInv /\ [Next]_vars => StoreInv' /\ PageInv'
<1> SUFFICES ASSUME TypeOK, IdInv, StoreInv, PageInv, [Next]_vars
             PROVE  StoreInv' /\ PageInv'
  OBVIOUS
<1>1. ASSUME NEW t \in Caller, NEW k \in Offered, Start(t, k) PROVE StoreInv' /\ PageInv'
  <2>1. k \in Kind
    BY ConsoleAssumption
  <2>2. PageInv'
    <3>1. CASE k \notin Tracked
      BY <1>1, <2>1, <3>1, StartFrame, PageFrame
    <3>2. CASE k \in Tracked
      <4>1. /\ AtWork' = AtWork \cup {nextId} /\ page' \in {page, nextId}
            /\ UNCHANGED <<log, boot>>
        BY <1>1, <2>1, <3>2, StartFrame
      <4> QED
        BY <4>1 DEF PageInv, Logged
    <3> QED
      BY <3>1, <3>2
  <2> QED
    BY <1>1, <2>1, <2>2, StoreStart
<1>2. ASSUME NEW t \in Caller,
             \/ Lock(t) \/ Work(t) \/ Stop(t) \/ WaitStopped(t) \/ StartAgain(t)
             \/ PatchState(t) \/ TakeNonce(t) \/ Redeploy(t) \/ Unlock(t)
      PROVE  StoreInv' /\ PageInv'
  <2>1. AtWork' = AtWork /\ UNCHANGED <<storeVars, log, page, boot>>
    BY <1>2, CallsFrame
  <2> QED
    BY <2>1, StoreFrame, PageFrame
<1>3. ASSUME NEW t \in Caller, Report(t) PROVE StoreInv' /\ PageInv'
  <2> DEFINE x == op[t].id
             e == [id |-> x, status |-> Outcome(t)]
  <2>1. /\ AtWork' = AtWork \ {x} /\ UNCHANGED <<page, boot>> /\ log' = Append(log, e)
        /\ x \in Nat /\ Outcome(t) \in Ended
    BY <1>3, ReportFrame, Zenon
  <2>2. \A y : Logged(y) \/ y = x => Logged(y)'
    <3>1. log \in Seq([id : Nat, status : Ended]) /\ e \in [id : Nat, status : Ended] /\ e.id = x
      BY <2>1 DEF TypeOK
    <3>2. /\ DOMAIN log' = 1 .. Len(log) + 1 /\ DOMAIN log = 1 .. Len(log) /\ Len(log) \in Nat
          /\ \A i \in DOMAIN log : log'[i] = log[i]
          /\ log'[Len(log) + 1] = e
      BY <2>1, <3>1
    <3> HIDE DEF x, e
    <3>3. ASSUME NEW y, Logged(y) PROVE Logged(y)'
      BY <3>2, <3>3 DEF Logged
    <3>4. Len(log) + 1 \in DOMAIN log'
      BY <3>2
    <3>5. ASSUME NEW y, y = x PROVE \E i \in DOMAIN log' : log'[i].id = y
      BY <3>1, <3>2, <3>4, <3>5
    <3> QED
      BY <3>3, <3>5 DEF Logged
  <2>3. PageInv'
    BY <2>1, <2>2 DEF PageInv
  <2> QED
    BY <1>3, <2>3, StoreReport
<1>4. CASE Crash
  <2>1. AtWork' = {}
    BY <1>4 DEF Crash, AtWork, Busy
  <2>2. DOMAIN tasks' = {} /\ log' = <<>> /\ finished' = <<>> /\ boot' = nextId /\ page' = page
    BY <1>4 DEF Crash
  <2>3. Remembered' = {}
    BY <2>2 DEF Remembered
  <2>4. StoreInv'
    BY <2>1, <2>2, <2>3, MaxKeepAssumption DEF StoreInv, RegistryRemembers
  <2>5. ~(page' >= boot')
    BY <2>2 DEF IdInv, TypeOK
  <2> QED
    BY <2>4, <2>5 DEF PageInv
<1>5. CASE Poll \/ GiveUp \/ Clock \/ UNCHANGED vars
  <2>1. UNCHANGED <<storeVars, op, log, boot>> /\ page' \in {0, page}
    BY <1>5 DEF Poll, GiveUp, Clock, vars
  <2>2. AtWork' = AtWork
    BY <2>1 DEF AtWork, Busy
  <2> QED
    BY <2>1, <2>2, StoreFrame, PageFrame
<1> QED
  BY <1>1, <1>2, <1>3, <1>4, <1>5 DEF Next, Step

LEMMA StoreInvAlways == Spec => [](StoreInv /\ PageInv)
BY StoreInvInit, StoreInvNext, TypeCorrect, IdInvAlways, PTL DEF Spec

(* The registry holds the operations at work and the MaxKeep that ended    *)
(* last, and nothing else.                                                 *)
THEOREM RegistryIsBounded == Spec => []RegistryRemembers
<1>1. StoreInv => RegistryRemembers
  BY DEF StoreInv
<1> QED
  BY <1>1, StoreInvAlways, PTL

(* All parts of the invariant together.                                    *)
THEOREM ConsoleInvAlways == Spec => []ConsoleInv
<1>1. NonceInv /\ LockInv /\ (IdInv /\ NoSilentStop) /\ (StoreInv /\ PageInv) => ConsoleInv
  BY DEF ConsoleInv
<1> QED
  BY <1>1, NonceInvAlways, LockInvAlways, IdInvAlways, StoreInvAlways, PTL

(* What a page shows when its polling ends is the outcome of its operation,*)
(* or there is a reason why it is lost.                                    *)
THEOREM PagesAreHonest == Spec => PageHonest
<1>1. ASSUME TypeOK, StoreInv, PageInv, Poll
      PROVE  IF Get(page) = NotFound THEN page < boot \/ PushedOut(page)
             ELSE HasEnded(page, Get(page))
  <2>1. page # 0 /\ Get(page) # "running" /\ page \in Nat /\ boot \in Nat
    BY <1>1 DEF Poll, TypeOK
  <2>2. log \in Seq([id : Nat, status : Ended])
    BY <1>1 DEF TypeOK
  <2>3. page \notin AtWork
    BY <1>1, <2>1 DEF StoreInv, RegistryRemembers
  <2>4. CASE page \notin DOMAIN tasks
    <3>1. Get(page) = NotFound
      BY <2>4 DEF Get
    <3>2. ASSUME ~(page < boot) PROVE PushedOut(page)
      <4>1. PICK i \in DOMAIN log : log[i].id = page
        BY <1>1, <2>1, <2>3, <3>2 DEF PageInv, Logged
      <4>2. log[i] \notin Remembered
        BY <1>1, <2>4, <4>1 DEF StoreInv, RegistryRemembers
      <4>3. ~(i > Len(log) - MaxKeep)
        BY <4>2 DEF Remembered
      <4>4. Len(log) - i >= MaxKeep
        BY <2>2, <4>3, MaxKeepAssumption
      <4> QED
        BY <4>1, <4>4 DEF PushedOut
    <3> QED
      BY <3>1, <3>2
  <2>5. CASE page \in DOMAIN tasks
    <3>1. PICK e \in Remembered : e.id = page
      BY <1>1, <2>3, <2>5 DEF StoreInv, RegistryRemembers
    <3>2. Get(page) = e.status
      BY <1>1, <3>1 DEF StoreInv, RegistryRemembers
    <3>3. PICK i \in DOMAIN log : log[i] = e
      BY <3>1 DEF Remembered
    <3>4. e \in [id : Nat, status : Ended]
      <4> DEFINE Entry == [id : Nat, status : Ended]
      <4>1. log \in Seq(Entry) /\ DOMAIN log = 1 .. Len(log)
        BY <2>2
      <4> HIDE DEF Entry
      <4>2. log[i] \in Entry
        BY <4>1
      <4> QED
        BY <3>3, <4>2, Zenon DEF Entry
    <3>5. e = [id |-> page, status |-> Get(page)] /\ Get(page) # NotFound
      BY <3>1, <3>2, <3>4 DEF Ended, NotFound
    <3> QED
      BY <3>3, <3>5 DEF HasEnded
  <2> QED
    BY <2>4, <2>5
<1>2. TypeOK /\ StoreInv /\ PageInv =>
        [Poll => IF Get(page) = NotFound THEN page < boot \/ PushedOut(page)
                 ELSE HasEnded(page, Get(page))]_vars
  BY <1>1
<1> QED
  BY <1>2, TypeCorrect, StoreInvAlways, PTL DEF PageHonest
=============================================================================
