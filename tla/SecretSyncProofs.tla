-------------------------- MODULE SecretSyncProofs --------------------------
(* Proofs about SecretSync for every number of items, every configuration, *)
(* any number of callers and any faults.                                   *)
EXTENDS SecretSync, FiniteSets, FiniteSetTheorems, TLAPS

-----------------------------------------------------------------------------
(* Type correctness.                                                       *)

LEMMA Running ==
    ASSUME TypeOK, NEW c \in Caller, sync[c].pc # "idle"
    PROVE  sync[c] \in Cycle /\ sync[c] # Idle
BY DEF TypeOK, Idle

LEMMA GotoFacts ==
    ASSUME TypeOK, NEW c \in Caller, NEW r \in Cycle \cup {Idle}, Goto(c, r)
    PROVE  /\ sync' \in [Caller -> Cycle \cup {Idle}]
           /\ sync'[c] = r
           /\ \A b \in Caller : b # c => sync'[b] = sync[b]
BY DEF TypeOK, Goto

LEMMA BeginType == Begin \in Cycle
BY SyncAssumption DEF Begin, Cycle, CyclePC, Item, Content, Nothing, Version, Absent

LEMMA AbsentType == Absent \in Version
BY SyncAssumption DEF Absent, Version

(* The ways in which the steps change a cycle keep it well typed.          *)
LEMMA AfterType ==
    ASSUME NEW r \in Cycle
    PROVE  After(r) \in Cycle
<1>a. Absent \in Version
  BY AbsentType
<1>1. ASSUME r.at < N PROVE NextItem(r) \in Cycle
  <2>1. r.at + 1 \in Item
    BY <1>1, SyncAssumption DEF Cycle, Item
  <2>2. NextItem(r) = [r EXCEPT !.pc = "read", !.at = r.at + 1, !.data = Absent]
    BY DEF NextItem, Cycle
  <2> QED
    BY <1>a, <2>1, <2>2 DEF Cycle, CyclePC
<1>2. Restarts(r) \in Cycle
  <2> DEFINE t == {d \in Dep \ r.failed : r.merged[d] # Nothing}
  <2>1. t \subseteq Dep
    OBVIOUS
  <2>2. Restarts(r) = [r EXCEPT !.pc = "inspect", !.data = Absent, !.todo = t]
    BY DEF Restarts
  <2> HIDE DEF t
  <2> QED
    BY <1>a, <2>1, <2>2 DEF Cycle, CyclePC
<1> QED
  BY <1>1, <1>2 DEF After

LEMMA MarkFailedType ==
    ASSUME NEW r \in Cycle
    PROVE  MarkFailed(r) \in Cycle
<1>1. Targets[r.at] \subseteq Dep
  BY SyncAssumption DEF Cycle
<1> QED
  BY <1>1 DEF Cycle, MarkFailed

LEMMA MergeType ==
    ASSUME NEW r \in Cycle
    PROVE  Merge(r) \in Cycle
<1>1. r.at \in Item /\ r.data \in Version /\ r.merged \in [Dep -> Content]
  BY DEF Cycle
<1> DEFINE m == [d \in Dep |-> IF d \in Targets[r.at]
                                THEN [r.merged[d] EXCEPT ![r.at] = r.data] ELSE r.merged[d]]
<1>2. m \in [Dep -> Content]
  BY <1>1 DEF Content
<1>3. Merge(r) = [r EXCEPT !.merged = m]
  BY DEF Merge, Cycle
<1> HIDE DEF m
<1> QED
  BY <1>2, <1>3 DEF Cycle

LEMMA ResolvedType ==
    ASSUME NEW r \in Cycle
    PROVE  Resolved(r) \in Cycle
BY DEF Cycle, Resolved

LEMMA LeftType ==
    ASSUME NEW r \in Cycle, NEW d \in Dep
    PROVE  Left(r, d) \in Cycle
BY DEF Cycle, CyclePC, Left

LEMMA InitTypeOK == Init => TypeOK
<1> SUFFICES ASSUME Init PROVE TypeOK
  OBVIOUS
<1>1. Nothing \in Content /\ kv \in [Item -> Version \ {Absent}]
  BY SyncAssumption DEF Init, Nothing, Content, Version, Absent
<1>2. token \in [Dep -> {"self", "neutral", "peer"}]
  BY DEF Init
<1>3. wanted \in [Dep -> {"running", "suspended"}]
  BY <1>2 DEF Init
<1>4. seen \in Seen
  BY DEF Init, Seen
<1> QED
  BY <1>1, <1>2, <1>3, <1>4 DEF Init, TypeOK

LEMMA StepTypeOK ==
    ASSUME TypeOK, NEW c \in Caller, Step(c)
    PROVE  TypeOK'
<1> DEFINE r == sync[c]
<1>r. r \in Cycle
  <2>1. r.pc \in CyclePC
    BY DEF Step, Phase1, Phase2, ResolveFails, ReadKV, ApplySecret, Inspect, Guard, GuardToken,
           PatchRestart, FinishCycle, CyclePC
  <2> QED
    BY <2>1, Running DEF CyclePC
<1>f. /\ r.at \in Item /\ r.data \in Version /\ r.merged \in [Dep -> Content]
      /\ r.todo \subseteq Dep /\ r.dep \in Dep \cup {NoDep} /\ r.up \in BOOLEAN
  BY <1>r DEF Cycle
<1>1. CASE ResolveFails(c)
  <2>1. [r EXCEPT !.listed = "failed"] \in Cycle
    BY <1>r DEF Cycle
  <2>2. After([r EXCEPT !.listed = "failed"]) \in Cycle
    BY <2>1, AfterType
  <2> QED
    BY <1>1, <2>2, GotoFacts DEF ResolveFails, TypeOK, world, specVars, jobVars
<1>2. CASE ReadKV(c)
  <2>1. Resolved(r) \in Cycle
    BY <1>r, ResolvedType
  <2>2. kv[r.at] \in Version
    BY <1>f DEF TypeOK
  <2>3. [Resolved(r) EXCEPT !.pc = "apply", !.data = kv[r.at]] \in Cycle
    BY <2>1, <2>2 DEF Cycle, CyclePC
  <2>4. After(MarkFailed(Resolved(r))) \in Cycle
    BY <2>1, AfterType, MarkFailedType
  <2> QED
    BY <1>2, <2>3, <2>4, GotoFacts DEF ReadKV, TypeOK, world, specVars, jobVars
<1>3. CASE ApplySecret(c)
  <2>1. After(Merge(r)) \in Cycle /\ After(MarkFailed(r)) \in Cycle
    BY <1>r, AfterType, MarkFailedType, MergeType
  <2>2. [secret EXCEPT ![r.at] = r.data] \in Content
    BY <1>f DEF TypeOK, Content
  <2>3. secret' \in Content
    BY <1>3, <2>2 DEF ApplySecret, TypeOK
  <2> QED
    BY <1>3, <2>1, <2>3, GotoFacts DEF ApplySecret, TypeOK, specVars, jobVars
<1>4. CASE Inspect(c)
  <2>1. PICK d \in r.todo : \/ Goto(c, Left(r, d))
                            \/ Goto(c, [r EXCEPT !.pc = "guard", !.dep = d])
    BY <1>4 DEF Inspect
  <2>2. Left(r, d) \in Cycle
    BY <1>r, <1>f, LeftType
  <2>3. [r EXCEPT !.pc = "guard", !.dep = d] \in Cycle
    BY <1>r, <1>f DEF Cycle, CyclePC
  <2> QED
    BY <1>4, <2>1, <2>2, <2>3, GotoFacts DEF Inspect, TypeOK, world, specVars, jobVars
<1>5. CASE Guard(c)
  <2>1. [r EXCEPT !.pc = "patch"] \in Cycle
    BY <1>r DEF Cycle, CyclePC
  <2>2. ASSUME NEW read \in BOOLEAN
        PROVE  [r EXCEPT !.pc = "token", !.up = read] \in Cycle
    BY <1>r DEF Cycle, CyclePC
  <2>3. r.dep \in HADep => up[r.dep] \in BOOLEAN
    BY SyncAssumption DEF TypeOK
  <2>4. \E n \in Cycle : Goto(c, n)
    BY <1>5, <2>1, <2>2, <2>3 DEF Guard
  <2> QED
    BY <1>5, <2>4, GotoFacts DEF Guard, TypeOK, world, specVars, jobVars
<1>6. CASE GuardToken(c)
  <2>1. [r EXCEPT !.pc = "patch"] \in Cycle
    BY <1>r DEF Cycle, CyclePC
  <2>2. Left(r, r.dep) \in Cycle
    BY <1>r DEF Cycle, CyclePC, Left
  <2> QED
    BY <1>6, <2>1, <2>2, GotoFacts DEF GuardToken, TypeOK, world, specVars, jobVars
<1>7. CASE PatchRestart(c)
  <2>1. Left(r, r.dep) \in Cycle
    BY <1>r DEF Cycle, CyclePC, Left
  <2>2. restart' \in [Dep -> BOOLEAN]
    BY <1>7 DEF PatchRestart, TypeOK
  <2>3. r.dep \in Dep => r.merged[r.dep] \in Content
    BY <1>f
  <2>4. hash' \in [Dep -> Content]
    BY <1>7, <2>3 DEF PatchRestart, TypeOK
  <2> QED
    BY <1>7, <2>1, <2>2, <2>4, GotoFacts DEF PatchRestart, TypeOK, jobVars
<1>8. CASE FinishCycle(c)
  BY <1>8, GotoFacts DEF FinishCycle, TypeOK, world, specVars, jobVars
<1> QED
  BY <1>1, <1>2, <1>3, <1>4, <1>5, <1>6, <1>7, <1>8 DEF Step, Phase1, Phase2

LEMMA EnvironmentTypeOK ==
    ASSUME TypeOK, NEW d \in Dep, Environment(d)
    PROVE  TypeOK'
<1>s. Started(d) \in Content
  BY AbsentType DEF Started, TypeOK, Content
<1>1. CASE OperatorStops(d)
  BY <1>1 DEF OperatorStops, TypeOK, specVars
<1>2. CASE OperatorStarts(d)
  BY <1>2, <1>s DEF OperatorStarts, TypeOK
<1>3. CASE PodRestarts(d)
  BY <1>3, <1>s DEF PodRestarts, TypeOK, specVars
<1>4. CASE BeginReplay(d)
  BY <1>4 DEF BeginReplay, TypeOK, jobVars
<1>5. CASE EndReplay(d)
  BY <1>5 DEF EndReplay, TypeOK, jobVars, Seen
<1>6. CASE SetState(d)
  BY <1>6 DEF SetState, TypeOK, jobVars
<1>7. CASE MoveToken(d)
  BY <1>7 DEF MoveToken, TypeOK, specVars, jobVars, Seen
<1> QED
  BY <1>1, <1>2, <1>3, <1>4, <1>5, <1>6, <1>7 DEF Environment

LEMMA NextTypeOK == TypeOK /\ [Next]_vars => TypeOK'
<1> SUFFICES ASSUME TypeOK, [Next]_vars PROVE TypeOK'
  OBVIOUS
<1>1. ASSUME NEW c \in Caller, StartCycle(c) PROVE TypeOK'
  BY <1>1, BeginType, GotoFacts DEF StartCycle, TypeOK, specVars, jobVars, Seen, QuietNow, OwnedNow
<1>2. ASSUME NEW i \in Item, Rotate(i) PROVE TypeOK'
  BY <1>2, SyncAssumption DEF Rotate, TypeOK, specVars, jobVars, Version, Absent
<1>3. CASE Crash
  BY <1>3 DEF Crash, TypeOK, world, specVars, jobVars
<1>4. CASE CalmDown
  BY <1>4 DEF CalmDown, TypeOK, specVars, jobVars
<1>5. CASE UNCHANGED vars
  BY <1>5 DEF TypeOK, vars, world, specVars, jobVars
<1> QED
  BY <1>1, <1>2, <1>3, <1>4, <1>5, StepTypeOK, EnvironmentTypeOK DEF Next

(* Every reachable state of secret sync is well typed.                     *)
THEOREM TypeCorrect == Spec => []TypeOK
BY InitTypeOK, NextTypeOK, PTL DEF Spec

-----------------------------------------------------------------------------
(* The inductive invariant, of a cycle told with the values it depends on. *)

Merged(r, s, h) ==
    \A d \in Dep, i \in Item :
        /\ r.merged[d][i] <= s[i]
        /\ r.merged[d][i] # Absent => d \in Targets[i] /\ h[d][i] <= r.merged[d][i]

Applying(r, k, s) ==
    r.pc = "apply" =>
        /\ Absent < r.data /\ s[r.at] <= r.data /\ r.data <= k[r.at]
        /\ NeedsList(r.at) => r.listed = "ok"

Chosen(r, h) ==
    /\ r.pc \in {"guard", "token", "patch"} <=> r.dep # NoDep
    /\ r.dep # NoDep => r.dep \in r.todo /\ r.merged[r.dep] # h[r.dep]
    /\ r.pc \in {"read", "apply"} => r.todo = {}
    /\ \A d \in r.todo : \A i \in ItemsOf(d) : r.merged[d][i] # Absent \/ i \in LeftOut(r, d)

CycleAt(r, k, s, h) == Applying(r, k, s) /\ Merged(r, s, h) /\ Covered(r) /\ Chosen(r, h)

Cycles == OneCycle /\ \A c \in Caller : sync[c] # Idle => CycleAt(sync[c], kv, secret, hash)

LEMMA SyncInvParts == SyncInv <=> Delivered /\ Ordered /\ Cycles
BY DEF SyncInv, Cycles, CycleAt, CycleOrdered, Whole, Applying, Merged, Chosen

LEMMA SyncInvPartsNext == SyncInv' <=> Delivered' /\ Ordered' /\ Cycles'
BY DEF SyncInv, Cycles, CycleAt, CycleOrdered, Whole, Applying, Merged, Chosen

(* A step of a cycle concerns no other.                                    *)
LEMMA StepCycles ==
    ASSUME TypeOK, SyncInv, NEW c \in Caller, sync[c] # Idle,
           NEW n \in Cycle, Goto(c, n), CycleAt(n, kv', secret', hash')
    PROVE  Cycles'
<1>1. \A b \in Caller : sync'[b] = IF b = c THEN n ELSE Idle
  BY GotoFacts DEF SyncInv, OneCycle
<1> QED
  BY <1>1 DEF Cycles, OneCycle

LEMMA EndCycles ==
    ASSUME TypeOK, SyncInv, NEW c \in Caller, sync[c] # Idle, Goto(c, Idle)
    PROVE  Cycles'
<1>1. \A b \in Caller : sync'[b] = Idle
  BY GotoFacts DEF SyncInv, OneCycle
<1> QED
  BY <1>1 DEF Cycles, OneCycle

(* Without a step of a cycle, values may only get newer.                   *)
LEMMA OtherCycles ==
    ASSUME TypeOK, SyncInv, TypeOK', UNCHANGED <<sync, secret, hash>>,
           \A i \in Item : kv[i] <= kv'[i]
    PROVE  Cycles'
<1>1. ASSUME NEW c \in Caller, sync'[c] # Idle
      PROVE  CycleAt(sync'[c], kv', secret', hash')
  <2> DEFINE r == sync[c]
  <2>1. CycleAt(r, kv, secret, hash)
    BY <1>1, SyncInvParts DEF Cycles
  <2>2. r \in Cycle
    BY <1>1 DEF TypeOK
  <2>3. r.at \in Item /\ r.data \in Int
    BY <2>2, SyncAssumption DEF Cycle, Version
  <2>4. kv[r.at] \in Int /\ kv'[r.at] \in Int
    BY <2>3, SyncAssumption DEF TypeOK, Version
  <2>5. Applying(r, kv', secret)
    BY <2>1, <2>3, <2>4 DEF CycleAt, Applying
  <2> QED
    BY <2>1, <2>5 DEF CycleAt
<1> QED
  BY <1>1 DEF Cycles, SyncInv, OneCycle

-----------------------------------------------------------------------------
(* What follows an item.                                                   *)

CoveredTo(r) ==
    /\ \A d \in Dep : \A i \in ItemsOf(d) : i <= r.at =>
          \/ r.merged[d][i] # Absent
          \/ d \in r.failed
          \/ NeedsList(i) /\ r.listed = "failed"
    /\ r.listed # "ok" => \A d \in Dep, i \in Item : NeedsList(i) => r.merged[d][i] = Absent

Resting(r) ==
    /\ r.pc \in {"read", "inspect"}
    /\ r.dep = NoDep
    /\ r.pc = "read" => r.todo = {}
    /\ \A d \in r.todo : \A i \in ItemsOf(d) : r.merged[d][i] # Absent \/ i \in LeftOut(r, d)
    /\ Covered(r)

LEMMA RestingAt ==
    ASSUME NEW r, NEW k, NEW s, NEW h, Resting(r), Merged(r, s, h)
    PROVE  CycleAt(r, k, s, h)
BY DEF Resting, CycleAt, Applying, Chosen

(* A deployment with anything merged has everything merged unless an item  *)
(* has failed, or is left out beside one that does not need the list.      *)
LEMMA RestartsWhole ==
    ASSUME NEW r \in Cycle, r.at = N, CoveredTo(r),
           NEW d \in Dep \ r.failed, r.merged[d] # Nothing, NEW i \in ItemsOf(d),
           \A j \in Item : r.merged[d][j] # Absent => d \in Targets[j]
    PROVE  r.merged[d][i] # Absent \/ i \in LeftOut(r, d)
<1>1. PICK j \in Item : r.merged[d][j] # Absent
  <2>1. r.merged[d] \in Content
    BY DEF Cycle
  <2> QED
    BY <2>1 DEF Content, Nothing
<1>2. j \in ItemsOf(d) /\ i \in Item /\ i <= r.at
  BY <1>1, SyncAssumption DEF ItemsOf, Item
<1>3. CASE NeedsList(i) /\ r.listed = "failed"
  <2>1. ~NeedsList(j)
    BY <1>1, <1>2, <1>3 DEF CoveredTo
  <2> QED
    BY <1>2, <1>3, <2>1 DEF LeftOut
<1>4. CASE ~(NeedsList(i) /\ r.listed = "failed")
  BY <1>2, <1>4 DEF CoveredTo
<1> QED
  BY <1>3, <1>4

LEMMA AfterRests ==
    ASSUME NEW r \in Cycle, r.todo = {}, r.dep = NoDep, CoveredTo(r),
           \A d \in Dep, j \in Item : r.merged[d][j] # Absent => d \in Targets[j]
    PROVE  Resting(After(r)) /\ After(r).merged = r.merged
<1>0. r.at \in Int /\ r.at <= N /\ N \in Int /\ Item \subseteq Int
  BY SyncAssumption DEF Cycle, Item
<1>1. CASE r.at < N
  <2> DEFINE n == NextItem(r)
  <2>1. /\ n.pc = "read" /\ n.at = r.at + 1 /\ n.merged = r.merged /\ n.failed = r.failed
        /\ n.listed = r.listed /\ n.todo = {} /\ n.dep = NoDep
    BY DEF NextItem, Cycle
  <2>2. \A i \in Item : Done(n, i) => i <= r.at
    BY <2>1, <1>0 DEF Done
  <2>3. \A d \in Dep : ItemsOf(d) \subseteq Item
    BY DEF ItemsOf
  <2> HIDE DEF n
  <2>4. Covered(n)
    BY <2>1, <2>2, <2>3 DEF Covered, CoveredTo
  <2>5. Resting(n)
    BY <2>1, <2>4 DEF Resting
  <2> QED
    BY <1>1, <2>1, <2>5 DEF After, n
<1>2. CASE r.at = N
  <2> DEFINE n == Restarts(r)
             t == {d \in Dep \ r.failed : r.merged[d] # Nothing}
  <2>1. /\ n.pc = "inspect" /\ n.merged = r.merged /\ n.failed = r.failed
        /\ n.listed = r.listed /\ n.todo = t /\ n.dep = NoDep
    BY DEF Restarts, Cycle
  <2>2. \A d \in Dep : \A i \in ItemsOf(d) : i <= r.at
    BY <1>2, <1>0, SyncAssumption DEF ItemsOf, Item
  <2>3. \A d \in t : \A i \in ItemsOf(d) : r.merged[d][i] # Absent \/ i \in LeftOut(r, d)
    BY <1>2, RestartsWhole
  <2> HIDE DEF n, t
  <2>4. Covered(n)
    BY <2>1, <2>2 DEF Covered, CoveredTo
  <2>5. Resting(n)
    BY <2>1, <2>3, <2>4 DEF Resting, LeftOut
  <2> QED
    BY <1>0, <1>2, <2>1, <2>5 DEF After, n
<1> QED
  BY <1>0, <1>1, <1>2

LEMMA LeftRests ==
    ASSUME NEW r \in Cycle, NEW d, NEW h, Covered(r), Chosen(r, h), r.pc \notin {"read", "apply"}
    PROVE  Resting(Left(r, d)) /\ Left(r, d).merged = r.merged
<1> DEFINE n == Left(r, d)
<1>1. /\ n.pc = "inspect" /\ n.merged = r.merged /\ n.failed = r.failed
      /\ n.listed = r.listed /\ n.todo = r.todo \ {d} /\ n.dep = NoDep
  BY DEF Left, Cycle
<1> HIDE DEF n
<1>2. Covered(n)
  BY <1>1 DEF Covered, Done
<1>3. Resting(n)
  BY <1>1, <1>2 DEF Resting, Chosen, LeftOut
<1> QED
  BY <1>1, <1>3 DEF n

LEMMA MarkFailedCovers ==
    ASSUME NEW r \in Cycle, r.pc \in {"read", "apply"}, Covered(r)
    PROVE  /\ CoveredTo(MarkFailed(r))
           /\ MarkFailed(r).merged = r.merged /\ MarkFailed(r).todo = r.todo
           /\ MarkFailed(r).dep = r.dep
<1> DEFINE n == MarkFailed(r)
<1>1. /\ n.failed = r.failed \cup Targets[r.at] /\ n.merged = r.merged /\ n.todo = r.todo
      /\ n.dep = r.dep /\ n.listed = r.listed /\ n.at = r.at
  BY DEF MarkFailed, Cycle
<1> HIDE DEF n
<1>2. ASSUME NEW d \in Dep, NEW i \in ItemsOf(d), i <= n.at
      PROVE  n.merged[d][i] # Absent \/ d \in n.failed \/ (NeedsList(i) /\ n.listed = "failed")
  <2>1. i < r.at \/ i = r.at
    BY <1>1, <1>2, SyncAssumption DEF ItemsOf, Item, Cycle
  <2>2. CASE i < r.at
    BY <1>1, <1>2, <2>2 DEF Covered, Done
  <2>3. CASE i = r.at
    BY <1>1, <2>3 DEF ItemsOf
  <2> QED
    BY <2>1, <2>2, <2>3
<1>3. CoveredTo(n)
  BY <1>1, <1>2 DEF CoveredTo, Covered
<1> QED
  BY <1>1, <1>3 DEF n

LEMMA MergeCovers ==
    ASSUME TypeOK, NEW r \in Cycle, NEW s \in Content, r.pc = "apply",
           Ordered, Covered(r), Applying(r, kv, secret), Merged(r, secret, hash),
           s = [secret EXCEPT ![r.at] = r.data]
    PROVE  /\ CoveredTo(Merge(r))
           /\ Merged(Merge(r), s, hash)
           /\ Merge(r).todo = r.todo /\ Merge(r).dep = r.dep
<1> DEFINE n == Merge(r)
           m == [d \in Dep |-> IF d \in Targets[r.at]
                               THEN [r.merged[d] EXCEPT ![r.at] = r.data] ELSE r.merged[d]]
<1>1. n = [r EXCEPT !.merged = m]
  BY DEF Merge, Cycle
<1> HIDE DEF m
<1>2. /\ n.failed = r.failed /\ n.merged = m /\ n.todo = r.todo
      /\ n.dep = r.dep /\ n.listed = r.listed /\ n.at = r.at
  BY <1>1 DEF Cycle
<1>3. r.at \in Item /\ r.merged \in [Dep -> Content] /\ r.data \in Int
  BY SyncAssumption DEF Cycle, Version
<1>4. ASSUME NEW d \in Dep, NEW i \in Item
      PROVE  m[d][i] = IF i = r.at /\ d \in Targets[i] THEN r.data ELSE r.merged[d][i]
  BY <1>3 DEF m, Content
<1>5. \A i \in Item : secret[i] \in Int /\ secret[i] <= s[i] /\ s[r.at] = r.data
  BY <1>3, SyncAssumption DEF TypeOK, Content, Version, Applying
<1>6. \A d \in Dep, i \in Item : hash[d][i] \in Int /\ r.merged[d][i] \in Int /\ s[i] \in Int
  BY <1>3, SyncAssumption DEF TypeOK, Content, Version
<1> HIDE DEF n
<1>7. Merged(n, s, hash)
  <2> SUFFICES ASSUME NEW d \in Dep, NEW i \in Item
               PROVE  /\ m[d][i] <= s[i]
                      /\ m[d][i] # Absent => d \in Targets[i] /\ hash[d][i] <= m[d][i]
    BY <1>2 DEF Merged
  <2>1. CASE i = r.at /\ d \in Targets[i]
    <3>1. hash[d][i] <= secret[i]
      BY DEF Ordered
    <3> QED
      BY <1>4, <1>5, <1>6, <2>1, <3>1
  <2>2. CASE ~(i = r.at /\ d \in Targets[i])
    BY <1>4, <1>5, <1>6, <2>2 DEF Merged
  <2> QED
    BY <2>1, <2>2
<1>8. ASSUME NEW d \in Dep, NEW i \in ItemsOf(d), i <= n.at
      PROVE  n.merged[d][i] # Absent \/ d \in n.failed \/ (NeedsList(i) /\ n.listed = "failed")
  <2>0. i \in Item /\ d \in Targets[i]
    BY DEF ItemsOf
  <2>1. i < r.at \/ i = r.at
    BY <1>2, <1>8, <2>0, SyncAssumption DEF Item, Cycle
  <2>2. CASE i < r.at
    <3>1. m[d][i] = r.merged[d][i]
      BY <1>4, <2>0, <2>2, SyncAssumption DEF Item, Cycle
    <3> QED
      BY <1>2, <2>2, <3>1 DEF Covered, Done
  <2>3. CASE i = r.at
    BY <1>2, <1>3, <1>4, <2>0, <2>3 DEF Applying, Absent
  <2> QED
    BY <2>1, <2>2, <2>3
<1>9. ASSUME n.listed # "ok", NEW d \in Dep, NEW i \in Item, NeedsList(i)
      PROVE  n.merged[d][i] = Absent
  <2>1. i # r.at
    BY <1>2, <1>9 DEF Applying
  <2> QED
    BY <1>2, <1>4, <1>9, <2>1 DEF Covered
<1>10. CoveredTo(n)
  BY <1>8, <1>9 DEF CoveredTo
<1> QED
  BY <1>2, <1>7, <1>10 DEF n

-----------------------------------------------------------------------------
(* Every step preserves the invariant.                                     *)

LEMMA StepSyncInv ==
    ASSUME TypeOK, TypeOK', SyncInv, NEW c \in Caller, Step(c)
    PROVE  SyncInv'
<1> DEFINE r == sync[c]
<1>r. r \in Cycle /\ r # Idle /\ r.pc \in CyclePC
  <2>1. r.pc \in CyclePC
    BY DEF Step, Phase1, Phase2, ResolveFails, ReadKV, ApplySecret, Inspect, Guard, GuardToken,
           PatchRestart, FinishCycle, CyclePC
  <2> QED
    BY <2>1, Running DEF CyclePC
<1>i. Delivered /\ Ordered /\ CycleAt(r, kv, secret, hash)
  BY <1>r, SyncInvParts DEF Cycles
<1>m. \A d \in Dep, j \in Item : r.merged[d][j] # Absent => d \in Targets[j]
  BY <1>i DEF CycleAt, Merged
<1>0. r.pc \in {"read", "apply"} => r.todo = {} /\ r.dep = NoDep
  BY <1>i DEF CycleAt, Chosen
<1>f. /\ r.at \in Item /\ r.data \in Version /\ r.merged \in [Dep -> Content]
      /\ r.todo \subseteq Dep /\ r.dep \in Dep \cup {NoDep}
  BY <1>r DEF Cycle
<1>u. UNCHANGED world => Delivered' /\ Ordered'
  BY <1>i DEF Delivered, Ordered, world, specVars, jobVars
<1>c. ASSUME NEW n \in Cycle, Goto(c, n), UNCHANGED world, CycleAt(n, kv, secret, hash)
      PROVE  SyncInv'
  <2>1. CycleAt(n, kv', secret', hash')
    BY <1>c DEF world, specVars
  <2> QED
    BY <1>c, <1>r, <1>u, <2>1, StepCycles, SyncInvPartsNext
<1>1. CASE ResolveFails(c)
  <2> DEFINE n == [r EXCEPT !.listed = "failed"]
  <2>1. n \in Cycle /\ n.merged = r.merged /\ n.todo = {} /\ n.dep = NoDep /\ n.at = r.at
        /\ n.failed = r.failed /\ n.listed = "failed"
    BY <1>r, <1>0, <1>1 DEF Cycle, ResolveFails
  <2>2. r.pc = "read" /\ NeedsList(r.at) /\ r.listed # "ok"
    BY <1>1 DEF ResolveFails
  <2> HIDE DEF n
  <2>3. ASSUME NEW d \in Dep, NEW i \in ItemsOf(d), i <= n.at
        PROVE  n.merged[d][i] # Absent \/ d \in n.failed \/ NeedsList(i)
    <3>1. i < r.at \/ i = r.at
      BY <1>f, <2>1, <2>3, SyncAssumption DEF ItemsOf, Item
    <3>2. CASE i < r.at
      BY <1>i, <2>1, <3>2 DEF CycleAt, Covered, Done
    <3> QED
      BY <2>2, <3>1, <3>2
  <2>4. CoveredTo(n)
    BY <1>i, <2>1, <2>2, <2>3 DEF CoveredTo, CycleAt, Covered
  <2>5. Resting(After(n)) /\ After(n).merged = r.merged /\ After(n) \in Cycle
    BY <1>m, <2>1, <2>4, AfterRests, AfterType
  <2>6. Merged(After(n), secret, hash)
    BY <1>i, <2>5 DEF CycleAt, Merged
  <2>7. Goto(c, After(n)) /\ UNCHANGED world
    BY <1>1 DEF ResolveFails, n
  <2> QED
    BY <1>c, <2>5, <2>6, <2>7, RestingAt
<1>2. CASE ReadKV(c)
  <2> DEFINE n == Resolved(r)
  <2>1. n \in Cycle /\ n.merged = r.merged /\ n.todo = {} /\ n.dep = NoDep /\ n.at = r.at
        /\ n.failed = r.failed /\ n.pc = "read"
    BY <1>r, <1>0, <1>2 DEF Cycle, ReadKV, Resolved
  <2>2. n.listed = IF NeedsList(r.at) THEN "ok" ELSE r.listed
    BY <1>r DEF Resolved, Cycle
  <2>3. NeedsList(r.at) => r.listed # "failed"
    BY <1>2 DEF ReadKV
  <2> HIDE DEF n
  <2>4. Covered(n)
    <3>1. r.pc = "read"
      BY <1>2 DEF ReadKV
    <3> QED
      BY <1>i, <2>1, <2>2, <2>3, <3>1 DEF CycleAt, Covered, Done
  <2>5. CASE Goto(c, [n EXCEPT !.pc = "apply", !.data = kv[r.at]]) /\ UNCHANGED world
    <3> DEFINE a == [n EXCEPT !.pc = "apply", !.data = kv[r.at]]
    <3>1. kv[r.at] \in Version /\ Absent < kv[r.at] /\ secret[r.at] <= kv[r.at]
      BY <1>f, <1>i, SyncAssumption DEF TypeOK, Version, Absent, Ordered
    <3>2. a \in Cycle /\ a.merged = r.merged /\ a.todo = {} /\ a.dep = NoDep /\ a.at = r.at
          /\ a.failed = r.failed /\ a.pc = "apply" /\ a.data = kv[r.at] /\ a.listed = n.listed
      BY <2>1, <3>1 DEF Cycle, CyclePC
    <3> HIDE DEF a
    <3>3. Covered(a)
      BY <2>1, <2>4, <3>2 DEF Covered, Done
    <3>4. Applying(a, kv, secret)
      BY <2>2, <3>1, <3>2, SyncAssumption DEF Applying, Version
    <3>5. Merged(a, secret, hash)
      BY <1>i, <3>2 DEF CycleAt, Merged
    <3>6. Chosen(a, hash)
      BY <3>2 DEF Chosen
    <3>7. Goto(c, a)
      BY <2>5 DEF a
    <3> QED
      BY <1>c, <2>5, <3>2, <3>3, <3>4, <3>5, <3>6, <3>7 DEF CycleAt
  <2>6. CASE Goto(c, After(MarkFailed(n))) /\ UNCHANGED world
    <3> DEFINE a == MarkFailed(n)
    <3>1. a \in Cycle /\ CoveredTo(a) /\ a.merged = r.merged /\ a.todo = {} /\ a.dep = NoDep
      BY <2>1, <2>4, MarkFailedCovers, MarkFailedType
    <3>2. Resting(After(a)) /\ After(a).merged = r.merged /\ After(a) \in Cycle
      BY <1>m, <3>1, AfterRests, AfterType
    <3>3. Merged(After(a), secret, hash)
      BY <1>i, <3>2 DEF CycleAt, Merged
    <3> QED
      BY <1>c, <2>6, <3>2, <3>3, RestingAt
  <2> QED
    BY <1>2, <2>5, <2>6 DEF ReadKV, n
<1>3. CASE ApplySecret(c)
  <2> DEFINE w == [secret EXCEPT ![r.at] = r.data]
             n == Merge(r)
             a == MarkFailed(r)
  <2>0. r.pc = "apply" /\ UNCHANGED <<kv, hash, up, restart, env>> /\ secret' \in {secret, w}
    BY <1>3 DEF ApplySecret, specVars, jobVars
  <2>1. w \in Content
    BY <1>f DEF TypeOK, Content
  <2>2. \A j \in Item : secret[j] \in Int /\ w[j] \in Int /\ kv[j] \in Int
                          /\ secret[j] <= w[j] /\ w[j] <= kv[j]
    BY <1>f, <1>i, <2>0, <2>1, SyncAssumption
       DEF TypeOK, Content, Version, CycleAt, Applying, Ordered
  <2>3. \A j \in Item : secret'[j] \in Int /\ secret[j] <= secret'[j] /\ secret'[j] <= kv[j]
    <3>1. CASE secret' = secret
      BY <2>2, <3>1
    <3>2. CASE secret' = w
      <4> HIDE DEF w
      <4> QED
        BY <2>2, <3>2
    <3> QED
      BY <2>0, <3>1, <3>2
  <2>4. Delivered' /\ Ordered'
    <3>1. \A d \in Dep, j \in Item : env[d][j] \in Int /\ hash[d][j] \in Int
      BY SyncAssumption DEF TypeOK, Content, Version
    <3>2. \A d \in Dep, j \in Item : env[d][j] <= secret'[j] /\ hash[d][j] <= secret'[j]
      BY <1>i, <2>2, <2>3, <3>1 DEF Ordered
    <3> QED
      BY <1>i, <2>0, <2>3, <3>2 DEF Delivered, Ordered
  <2>5. CASE secret' = w /\ Goto(c, After(n))
    <3>1. n \in Cycle
      BY <1>r, MergeType
    <3>2. CoveredTo(n) /\ Merged(n, w, hash) /\ n.todo = {} /\ n.dep = NoDep
      BY <1>r, <1>i, <1>0, <2>0, <2>1, MergeCovers DEF CycleAt
    <3>3. \A d \in Dep, j \in Item : n.merged[d][j] # Absent => d \in Targets[j]
      BY <3>2 DEF Merged
    <3> HIDE DEF n, w
    <3>4. Resting(After(n)) /\ After(n).merged = n.merged /\ After(n) \in Cycle
      BY <3>1, <3>2, <3>3, AfterRests, AfterType
    <3>5. Merged(After(n), secret', hash')
      BY <2>0, <2>5, <3>2, <3>4 DEF Merged
    <3>6. CycleAt(After(n), kv', secret', hash')
      BY <3>4, <3>5, RestingAt
    <3> QED
      BY <1>r, <2>4, <2>5, <3>4, <3>6, StepCycles, SyncInvPartsNext
  <2>6. CASE Goto(c, After(a))
    <3>1. a \in Cycle /\ CoveredTo(a) /\ a.merged = r.merged /\ a.todo = {} /\ a.dep = NoDep
      BY <1>r, <1>i, <1>0, <2>0, MarkFailedCovers, MarkFailedType DEF CycleAt
    <3> HIDE DEF a
    <3>2. Resting(After(a)) /\ After(a).merged = r.merged /\ After(a) \in Cycle
      BY <1>m, <3>1, AfterRests, AfterType
    <3>3. \A d \in Dep, j \in Item : r.merged[d][j] \in Int
      BY <1>f, SyncAssumption DEF Content, Version
    <3>4. Merged(After(a), secret', hash')
      BY <1>i, <2>0, <2>2, <2>3, <3>2, <3>3 DEF CycleAt, Merged
    <3>5. CycleAt(After(a), kv', secret', hash')
      BY <3>2, <3>4, RestingAt
    <3> QED
      BY <1>r, <2>4, <2>6, <3>2, <3>5, StepCycles, SyncInvPartsNext
  <2> QED
    BY <1>3, <2>5, <2>6 DEF ApplySecret
<1>l. ASSUME NEW d \in Dep, Goto(c, Left(r, d)), UNCHANGED world,
             r.pc \notin {"read", "apply"}
      PROVE  SyncInv'
  <2>1. Resting(Left(r, d)) /\ Left(r, d).merged = r.merged /\ Left(r, d) \in Cycle
    BY <1>r, <1>i, <1>l, LeftRests, LeftType DEF CycleAt
  <2>2. Merged(Left(r, d), secret, hash)
    BY <1>i, <2>1 DEF CycleAt, Merged
  <2> QED
    BY <1>c, <1>l, <2>1, <2>2, RestingAt
<1>4. CASE Inspect(c)
  <2>1. PICK d \in r.todo : \/ Goto(c, Left(r, d))
                            \/ hash[d] # r.merged[d] /\ Goto(c, [r EXCEPT !.pc = "guard", !.dep = d])
    BY <1>4 DEF Inspect
  <2>2. d \in Dep /\ d # NoDep /\ r.pc = "inspect" /\ UNCHANGED world
    BY <1>4, <1>f, SyncAssumption DEF Inspect
  <2>3. CASE Goto(c, Left(r, d))
    BY <1>l, <2>2, <2>3
  <2>4. CASE hash[d] # r.merged[d] /\ Goto(c, [r EXCEPT !.pc = "guard", !.dep = d])
    <3> DEFINE n == [r EXCEPT !.pc = "guard", !.dep = d]
    <3>1. n \in Cycle /\ n.merged = r.merged /\ n.todo = r.todo /\ n.dep = d /\ n.at = r.at
          /\ n.failed = r.failed /\ n.pc = "guard" /\ n.listed = r.listed
      BY <1>r, <2>2 DEF Cycle, CyclePC
    <3>2. Goto(c, n)
      BY <2>4
    <3> HIDE DEF n
    <3>3. Covered(n)
      BY <1>i, <2>2, <3>1 DEF CycleAt, Covered, Done
    <3>4. Chosen(n, hash)
      BY <1>i, <2>1, <2>2, <2>4, <3>1 DEF CycleAt, Chosen, LeftOut
    <3>5. Applying(n, kv, secret) /\ Merged(n, secret, hash)
      BY <1>i, <3>1 DEF CycleAt, Applying, Merged
    <3> QED
      BY <1>c, <2>2, <3>1, <3>2, <3>3, <3>4, <3>5 DEF CycleAt
  <2> QED
    BY <2>1, <2>3, <2>4
<1>g. ASSUME r.pc \in {"guard", "token"}, NEW pc \in {"token", "patch"}, NEW b \in BOOLEAN,
             Goto(c, [r EXCEPT !.pc = pc, !.up = b]), UNCHANGED world
      PROVE  SyncInv'
  <2> DEFINE n == [r EXCEPT !.pc = pc, !.up = b]
  <2>1. n \in Cycle /\ n.merged = r.merged /\ n.todo = r.todo /\ n.dep = r.dep /\ n.at = r.at
        /\ n.failed = r.failed /\ n.pc = pc /\ n.listed = r.listed
    BY <1>r, <1>g DEF Cycle, CyclePC
  <2>2. Goto(c, n)
    BY <1>g
  <2> HIDE DEF n
  <2>3. Covered(n)
    BY <1>i, <1>g, <2>1 DEF CycleAt, Covered, Done
  <2>4. Chosen(n, hash)
    BY <1>i, <1>g, <2>1 DEF CycleAt, Chosen, LeftOut
  <2>5. Applying(n, kv, secret) /\ Merged(n, secret, hash)
    BY <1>i, <1>g, <2>1 DEF CycleAt, Applying, Merged
  <2> QED
    BY <1>c, <1>g, <2>1, <2>2, <2>3, <2>4, <2>5 DEF CycleAt
<1>p. [r EXCEPT !.pc = "patch"] = [r EXCEPT !.pc = "patch", !.up = r.up] /\ r.up \in BOOLEAN
  BY <1>r DEF Cycle
<1>5. CASE Guard(c)
  <2>1. r.pc = "guard" /\ UNCHANGED world
    BY <1>5 DEF Guard
  <2>2. r.dep \in HADep => up[r.dep] \in BOOLEAN
    BY SyncAssumption DEF TypeOK
  <2>3. \E pc \in {"token", "patch"}, b \in BOOLEAN : Goto(c, [r EXCEPT !.pc = pc, !.up = b])
    BY <1>5, <1>p, <2>2 DEF Guard
  <2> QED
    BY <1>g, <2>1, <2>3
<1>d. r.pc \in {"guard", "token", "patch"} => r.dep \in Dep
  BY <1>i, <1>f DEF CycleAt, Chosen
<1>6. CASE GuardToken(c)
  <2>1. r.pc = "token" /\ UNCHANGED world
    BY <1>6 DEF GuardToken
  <2>2. \/ Goto(c, Left(r, r.dep))
        \/ Goto(c, [r EXCEPT !.pc = "patch", !.up = r.up])
    BY <1>6, <1>p DEF GuardToken
  <2> QED
    BY <1>g, <1>l, <1>d, <1>p, <2>1, <2>2
<1>7. CASE PatchRestart(c)
  <2>0. r.pc = "patch" /\ r.dep \in Dep /\ UNCHANGED <<kv, secret, up, env>>
    BY <1>7, <1>d DEF PatchRestart, jobVars
  <2>1. Resting(Left(r, r.dep)) /\ Left(r, r.dep).merged = r.merged /\ Left(r, r.dep) \in Cycle
    BY <1>r, <1>i, <2>0, LeftRests, LeftType DEF CycleAt
  <2>2. \/ /\ hash' = [hash EXCEPT ![r.dep] = r.merged[r.dep]]
           /\ restart' = [restart EXCEPT ![r.dep] = TRUE]
        \/ UNCHANGED <<hash, restart>>
    BY <1>7 DEF PatchRestart
  <2>h. hash \in [Dep -> Content] /\ restart \in [Dep -> BOOLEAN]
    BY DEF TypeOK
  <2>3. \A d \in Dep : hash'[d] = hash[d] \/ (d = r.dep /\ hash'[d] = r.merged[d])
    BY <2>0, <2>2, <2>h
  <2>r. \A d \in Dep : ~restart'[d] => ~restart[d] /\ hash'[d] = hash[d]
    <3>1. CASE UNCHANGED <<hash, restart>>
      BY <3>1
    <3>2. CASE /\ hash' = [hash EXCEPT ![r.dep] = r.merged[r.dep]]
               /\ restart' = [restart EXCEPT ![r.dep] = TRUE]
      BY <2>0, <2>h, <3>2
    <3> QED
      BY <2>2, <3>1, <3>2
  <2>4. \A d \in Dep, j \in Item : r.merged[d][j] \in Int
    BY <1>f, SyncAssumption DEF Content, Version
  <2>5. Merged(Left(r, r.dep), secret', hash')
    BY <1>i, <2>0, <2>1, <2>3, <2>4 DEF CycleAt, Merged
  <2>6. Delivered'
    BY <1>i, <2>0, <2>r DEF Delivered
  <2>7. Ordered'
    BY <1>i, <2>0, <2>3 DEF Ordered, CycleAt, Merged, ItemsOf
  <2>8. Goto(c, Left(r, r.dep))
    BY <1>7 DEF PatchRestart
  <2> QED
    BY <1>r, <2>1, <2>5, <2>6, <2>7, <2>8, RestingAt, StepCycles, SyncInvPartsNext
<1>8. CASE FinishCycle(c)
  BY <1>8, <1>r, <1>u, EndCycles, SyncInvPartsNext DEF FinishCycle
<1> QED
  BY <1>1, <1>2, <1>3, <1>4, <1>5, <1>6, <1>7, <1>8 DEF Step, Phase1, Phase2

LEMMA EnvironmentSyncInv ==
    ASSUME TypeOK, TypeOK', SyncInv, NEW d \in Dep, Environment(d)
    PROVE  SyncInv'
<1>i. Delivered /\ Ordered
  BY SyncInvParts
<1>u. UNCHANGED <<kv, secret, hash, sync>>
  BY DEF Environment, OperatorStops, OperatorStarts, PodRestarts, BeginReplay, EndReplay,
         SetState, MoveToken, specVars
<1>c. Cycles'
  BY <1>u, OtherCycles, SyncAssumption DEF TypeOK, Version
<1>s. \A j \in Item : Started(d)[j] = IF j \in ItemsOf(d) THEN secret[j] ELSE Absent
  BY DEF Started
<1>t. \A e \in Dep, j \in Item : secret[j] \in Int /\ Absent <= secret[j]
  BY SyncAssumption DEF TypeOK, Content, Version, Absent
<1>a. ASSUME UNCHANGED env, \A e \in Dep : up'[e] /\ ~restart'[e] => up[e] /\ ~restart[e]
      PROVE  SyncInv'
  BY <1>a, <1>u, <1>i, <1>c, SyncInvPartsNext DEF Delivered, Ordered
<1>b. ASSUME env' = [env EXCEPT ![d] = Started(d)],
             \A e \in Dep \ {d} : up'[e] /\ ~restart'[e] => up[e] /\ ~restart[e]
      PROVE  SyncInv'
  <2>1. \A e \in Dep : env'[e] = IF e = d THEN Started(d) ELSE env[e]
    BY <1>b DEF TypeOK
  <2>2. Ordered'
    <3> SUFFICES ASSUME NEW e \in Dep, NEW j \in Item
                 PROVE  /\ env'[e][j] <= secret[j]
                        /\ j \notin ItemsOf(e) => env'[e][j] = Absent
      BY <1>u, <1>i DEF Ordered
    <3>1. CASE e = d
      BY <1>s, <1>t, <2>1, <3>1
    <3>2. CASE e # d
      BY <1>i, <2>1, <3>2 DEF Ordered
    <3> QED
      BY <3>1, <3>2
  <2>3. Delivered'
    <3> SUFFICES ASSUME NEW e \in Dep, up'[e] /\ ~restart'[e], NEW j \in ItemsOf(e)
                 PROVE  hash[e][j] <= env'[e][j]
      BY <1>u DEF Delivered
    <3>0. j \in Item
      BY DEF ItemsOf
    <3>1. CASE e = d
      BY <1>s, <1>i, <2>1, <3>0, <3>1 DEF Ordered
    <3>2. CASE e # d
      BY <1>b, <1>i, <2>1, <3>2 DEF Delivered
    <3> QED
      BY <3>1, <3>2
  <2> QED
    BY <1>c, <2>2, <2>3, SyncInvPartsNext
<1>1. CASE OperatorStops(d)
  BY <1>1, <1>a DEF OperatorStops, TypeOK, specVars
<1>2. CASE OperatorStarts(d)
  BY <1>2, <1>b DEF OperatorStarts, TypeOK
<1>3. CASE PodRestarts(d)
  BY <1>3, <1>b DEF PodRestarts, specVars
<1>4. CASE BeginReplay(d)
  BY <1>4, <1>a DEF BeginReplay, TypeOK, jobVars
<1>5. CASE EndReplay(d)
  BY <1>5, <1>a DEF EndReplay, TypeOK, jobVars
<1>6. CASE SetState(d)
  BY <1>6, <1>a DEF SetState, jobVars
<1>7. CASE MoveToken(d)
  BY <1>7, <1>a DEF MoveToken, specVars, jobVars
<1> QED
  BY <1>1, <1>2, <1>3, <1>4, <1>5, <1>6, <1>7 DEF Environment

LEMMA InitSyncInv == Init => SyncInv
<1> SUFFICES ASSUME Init PROVE SyncInv
  OBVIOUS
<1>1. \A i \in Item : secret[i] = 0 /\ kv[i] = 1
  BY DEF Init, Nothing, Absent
<1>2. \A d \in Dep, i \in Item : env[d][i] = 0 /\ hash[d][i] = 0
  BY DEF Init, Nothing, Absent
<1>3. Ordered
  BY <1>1, <1>2 DEF Ordered, Absent
<1>4. Delivered /\ Cycles
  BY DEF Init, Delivered, Cycles, OneCycle
<1> QED
  BY <1>3, <1>4, SyncInvParts

LEMMA NextSyncInv ==
    ASSUME TypeOK, TypeOK', SyncInv, [Next]_vars
    PROVE  SyncInv'
<1>i. Delivered /\ Ordered
  BY SyncInvParts
<1>1. ASSUME NEW c \in Caller, StartCycle(c) PROVE SyncInv'
  <2>1. UNCHANGED <<kv, secret, hash, restart, up, env>> /\ Goto(c, Begin)
    BY <1>1 DEF StartCycle, specVars, jobVars
  <2>2. \A b \in Caller : sync'[b] = IF b = c THEN Begin ELSE Idle
    BY <1>1, <2>1, BeginType, GotoFacts DEF StartCycle
  <2> DEFINE n == Begin
  <2>3. /\ n.pc = "read" /\ n.at = 1 /\ n.todo = {} /\ n.dep = NoDep
        /\ \A d \in Dep, j \in Item : n.merged[d][j] = 0
    BY DEF Begin, Nothing, Absent
  <2> HIDE DEF n
  <2>4. \A j \in Item : secret[j] \in Int /\ 0 <= secret[j] /\ j \in Int /\ 1 <= j
    BY SyncAssumption DEF TypeOK, Content, Version, Item
  <2>5. Covered(n)
    BY <2>3, <2>4 DEF Covered, Done, ItemsOf, Absent
  <2>6. CycleAt(n, kv', secret', hash')
    BY <2>1, <2>3, <2>4, <2>5 DEF CycleAt, Applying, Merged, Chosen, Absent
  <2>7. Cycles'
    BY <2>2, <2>6 DEF Cycles, OneCycle, n
  <2> QED
    BY <1>i, <2>1, <2>7, SyncInvPartsNext DEF Delivered, Ordered
<1>2. ASSUME NEW i \in Item, Rotate(i) PROVE SyncInv'
  <2>1. UNCHANGED <<secret, hash, restart, up, env, sync>>
    BY <1>2 DEF Rotate, specVars, jobVars
  <2>2. \A j \in Item : secret[j] \in Int /\ kv[j] \in Int
    BY SyncAssumption DEF TypeOK, Content, Version
  <2>3. \A j \in Item : kv'[j] \in Int /\ kv[j] <= kv'[j]
    BY <1>2, <2>2, SyncAssumption DEF Rotate, TypeOK, Version
  <2>4. Cycles'
    BY <2>1, <2>3, OtherCycles
  <2> QED
    BY <1>i, <2>1, <2>2, <2>3, <2>4, SyncInvPartsNext DEF Delivered, Ordered
<1>3. CASE Crash
  BY <1>3, <1>i, SyncInvPartsNext
     DEF Crash, world, specVars, jobVars, Delivered, Ordered, Cycles, OneCycle
<1>4. CASE CalmDown
  BY <1>4, <1>i, SyncInvParts, SyncInvPartsNext
     DEF CalmDown, specVars, jobVars, Delivered, Ordered, Cycles, OneCycle
<1>5. CASE UNCHANGED vars
  BY <1>5, <1>i, SyncInvParts, SyncInvPartsNext
     DEF vars, world, specVars, jobVars, Delivered, Ordered, Cycles, OneCycle
<1> QED
  BY <1>1, <1>2, <1>3, <1>4, <1>5, StepSyncInv, EnvironmentSyncInv DEF Next

(* Values get older along their way from OpenBao to pods and records, and, *)
(* a deployment about to be restarted has its whole content merged, but    *)
(* for what is left out, wherever a cycle fails or is cut short.           *)
THEOREM Inductive == Spec => []SyncInv
<1>1. TypeOK /\ TypeOK' /\ SyncInv /\ [Next]_vars => SyncInv'
  BY NextSyncInv
<1> QED
  BY <1>1, InitSyncInv, TypeCorrect, PTL DEF Spec

-----------------------------------------------------------------------------
(* What follows from it.                                                   *)

(* A job that is up runs with what is recorded for it or a newer value, or *)
(* its restart is under way.                                               *)
THEOREM RecordsAreHonest == Spec => []Delivered
<1>1. SyncInv => Delivered
  BY SyncInvParts
<1> QED
  BY <1>1, Inductive, PTL

(* What a restart is asked for differs from what is recorded, and no item  *)
(* that the cycle has merged is older than recorded.                       *)
LEMMA PatchFacts ==
    ASSUME TypeOK, SyncInv, NEW c \in Caller, sync[c].pc = "patch"
    PROVE  LET r == sync[c]
           IN  /\ r \in Cycle /\ r.dep \in Dep /\ r.merged[r.dep] # hash[r.dep]
               /\ \A j \in ItemsOf(r.dep) :
                     r.merged[r.dep][j] # Absent => r.merged[r.dep][j] >= hash[r.dep][j]
               /\ \A j \in ItemsOf(r.dep) :
                     r.merged[r.dep][j] # Absent \/ j \in LeftOut(r, r.dep)
<1> DEFINE r == sync[c]
<1>1. r \in Cycle /\ r # Idle
  BY Running
<1>2. CycleAt(r, kv, secret, hash)
  BY <1>1, SyncInvParts DEF Cycles
<1>3. r.dep \in Dep /\ r.dep \in r.todo /\ r.merged[r.dep] # hash[r.dep]
  BY <1>1, <1>2 DEF CycleAt, Chosen, Cycle
<1>4. \A j \in Item : hash[r.dep][j] \in Int /\ r.merged[r.dep][j] \in Int
  BY <1>1, <1>3, SyncAssumption DEF TypeOK, Cycle, Content, Version
<1>5. \A j \in ItemsOf(r.dep) : j \in Item
  BY DEF ItemsOf
<1>6. \A j \in ItemsOf(r.dep) :
         r.merged[r.dep][j] # Absent => r.merged[r.dep][j] >= hash[r.dep][j]
  BY <1>2, <1>3, <1>4, <1>5 DEF CycleAt, Merged
<1> QED
  BY <1>1, <1>2, <1>3, <1>6 DEF CycleAt, Chosen

NeverBack ==
    \A c \in Caller : sync[c].pc = "patch" =>
        LET d == sync[c].dep
            m == sync[c].merged[d]
        IN  m # hash[d] /\ \A i \in ItemsOf(d) : m[i] # Absent => m[i] >= hash[d][i]

(* In whatever configuration and after whatever failures, a restart is     *)
(* asked for only for a content other than the recorded one, no item of    *)
(* which is older: a missing item is all that can be wrong with it.        *)
THEOREM RestartsNeverGoBack == Spec => []NeverBack
<1>1. TypeOK /\ SyncInv => NeverBack
  BY PatchFacts DEF NeverBack
<1> QED
  BY <1>1, Inductive, TypeCorrect, PTL

(* In whatever configuration, a restart is asked for only for a content    *)
(* other than the recorded one, no item of which is older or gone but      *)
(* those left out because the deployments could not be listed, beside one  *)
(* that names its targets.                                                 *)
THEOREM RestartsHaveCause == Spec => []RestartHasCause
<1>1. TypeOK /\ SyncInv => RestartHasCause
  BY PatchFacts DEF RestartHasCause
<1> QED
  BY <1>1, Inductive, TypeCorrect, PTL

(* Jobs get values OpenBao has had, and only ever newer ones.              *)
THEOREM SyncImplementsDelivery == Spec => ImplementsDelivery
<1> SUFFICES Spec => Delivery!Spec
  BY DEF ImplementsDelivery
<1>1. Init => Delivery!Init
  BY SyncAssumption DEF Init, Delivery!Init, Nothing, Absent
<1>2. ASSUME TypeOK, TypeOK', SyncInv, [Next]_vars
      PROVE  [Delivery!Next]_<<kv, env>>
  <2>n. /\ \A j \in Item : kv[j] \in Nat /\ kv'[j] \in Nat /\ secret[j] \in Nat
        /\ \A d \in Dep, j \in Item : env[d][j] \in Nat /\ env'[d][j] \in Nat
    BY <1>2, SyncAssumption DEF TypeOK, Content, Version
  <2>t. kv' \in [Item -> Nat] /\ env' \in [Dep -> [Item -> Nat]]
    BY <1>2, SyncAssumption DEF TypeOK, Content, Version
  <2>o. Ordered
    BY <1>2, SyncInvParts
  <2>1. ASSUME NEW d \in Dep, env' = [env EXCEPT ![d] = Started(d)], kv' = kv
        PROVE  Delivery!Next
    <3> SUFFICES ASSUME NEW e \in Dep, NEW j \in Item
                 PROVE  env'[e][j] \in env[e][j] .. kv[j]
      BY <2>1, <2>t DEF Delivery!Next, Delivery!Deliver
    <3>1. env[e][j] <= secret[j] /\ secret[j] <= kv[j]
      BY <2>o DEF Ordered
    <3>2. CASE e = d /\ j \in ItemsOf(d)
      <4>1. env'[e][j] = secret[j]
        BY <1>2, <2>1, <3>2 DEF TypeOK, Started
      <4> QED
        BY <2>n, <3>1, <4>1
    <3>3. CASE e = d /\ j \notin ItemsOf(d)
      <4>1. env'[e][j] = env[e][j]
        BY <1>2, <2>1, <2>o, <3>3 DEF TypeOK, Started, Ordered
      <4> QED
        BY <2>n, <3>1, <4>1
    <3>4. CASE e # d
      <4>1. env'[e][j] = env[e][j]
        BY <1>2, <2>1, <3>4 DEF TypeOK
      <4> QED
        BY <2>n, <3>1, <4>1
    <3> QED
      BY <3>2, <3>3, <3>4
  <2>2. ASSUME NEW i \in Item, Rotate(i) PROVE Delivery!Next
    <3>1. UNCHANGED env /\ \A j \in Item : kv'[j] >= kv[j]
      BY <1>2, <2>2, <2>n, SyncAssumption DEF Rotate, jobVars, TypeOK, Version
    <3> QED
      BY <2>t, <3>1 DEF Delivery!Next, Delivery!Rotate
  <2>3. CASE \E d \in Dep : Environment(d)
    <3>1. PICK d \in Dep : Environment(d)
      BY <2>3
    <3>2. CASE OperatorStarts(d) \/ PodRestarts(d)
      BY <2>1, <3>2 DEF OperatorStarts, PodRestarts
    <3>3. CASE ~(OperatorStarts(d) \/ PodRestarts(d))
      BY <3>1, <3>3 DEF Environment, OperatorStops, BeginReplay, EndReplay, SetState, MoveToken,
                        jobVars
    <3> QED
      BY <3>2, <3>3
  <2>4. ASSUME NEW c \in Caller, StartCycle(c) \/ Step(c) PROVE UNCHANGED <<kv, env>>
    BY <2>4 DEF StartCycle, Step, Phase1, Phase2, ResolveFails, ReadKV, ApplySecret, Inspect, Guard,
                GuardToken, PatchRestart, FinishCycle, world, jobVars
  <2>5. CASE Crash \/ CalmDown \/ UNCHANGED vars
    BY <2>5 DEF Crash, CalmDown, vars, world, jobVars
  <2> QED
    BY <1>2, <2>2, <2>3, <2>4, <2>5 DEF Next
<1>3. TypeOK /\ TypeOK' /\ SyncInv /\ [Next]_vars => [Delivery!Next]_(Delivery!deliveryVars)
  BY <1>2 DEF Delivery!deliveryVars
<1> QED
  BY <1>1, <1>3, Inductive, TypeCorrect, PTL DEF Spec, Delivery!Spec

-----------------------------------------------------------------------------
(* The interlocks.                                                         *)

(* While a cycle runs, seen has what is so now; what it has checked of the *)
(* deployment at hand has been seen.  Only a group's token moves.          *)
Witnessed(r) ==
    /\ \A d \in Dep : ~replay[d] => d \in seen.quiet
    /\ \A d \in Dep : token[d] = "self" => d \in seen.owned
    /\ r.pc \in {"guard", "token", "patch"} => r.dep \in Dep /\ r.dep \in seen.quiet
    /\ r.pc = "patch" => r.dep \in seen.owned

InterlockInv ==
    /\ \A d \in Dep \ HADep : token[d] = "self"
    /\ \A c \in Caller : sync[c] # Idle => Witnessed(sync[c])

LEMMA AfterPC ==
    ASSUME NEW r \in Cycle
    PROVE  After(r).pc \in {"read", "inspect"}
BY DEF After, NextItem, Restarts, Cycle

LEMMA StepInterlockInv ==
    ASSUME TypeOK, InterlockInv, NEW c \in Caller, Step(c)
    PROVE  InterlockInv'
<1> DEFINE r == sync[c]
<1>r. r \in Cycle /\ r # Idle
  <2>1. r.pc \in CyclePC
    BY DEF Step, Phase1, Phase2, ResolveFails, ReadKV, ApplySecret, Inspect, Guard, GuardToken,
           PatchRestart, FinishCycle, CyclePC
  <2> QED
    BY <2>1, Running DEF CyclePC
<1>u. UNCHANGED <<replay, token, seen>>
  BY DEF Step, Phase1, Phase2, ResolveFails, ReadKV, ApplySecret, Inspect, Guard, GuardToken,
         PatchRestart, FinishCycle, world, specVars
<1>w. Witnessed(r)
  BY <1>r DEF InterlockInv
<1>g. ASSUME NEW n \in Cycle \cup {Idle}, Goto(c, n), n # Idle => Witnessed(n)
      PROVE  InterlockInv'
  <2>1. ASSUME NEW b \in Caller, sync'[b] # Idle
        PROVE  /\ \A d \in Dep : ~replay'[d] => d \in seen'.quiet
               /\ \A d \in Dep : token'[d] = "self" => d \in seen'.owned
               /\ sync'[b].pc \in {"guard", "token", "patch"} =>
                     sync'[b].dep \in Dep /\ sync'[b].dep \in seen'.quiet
               /\ sync'[b].pc = "patch" => sync'[b].dep \in seen'.owned
    <3>1. CASE b = c
      BY <1>g, <1>u, <2>1, <3>1, GotoFacts DEF Witnessed
    <3>2. CASE b # c
      BY <1>g, <1>u, <2>1, <3>2, GotoFacts DEF InterlockInv, Witnessed
    <3> QED
      BY <3>1, <3>2
  <2> QED
    BY <1>u, <2>1 DEF InterlockInv, Witnessed
<1>a. ASSUME NEW n \in Cycle, n.pc \in {"read", "inspect", "apply"}
      PROVE  Witnessed(n)
  BY <1>a, <1>w DEF Witnessed
<1>1. CASE ResolveFails(c)
  <2>1. [r EXCEPT !.listed = "failed"] \in Cycle
    BY <1>r DEF Cycle
  <2> QED
    BY <1>1, <1>a, <1>g, <2>1, AfterPC, AfterType DEF ResolveFails
<1>2. CASE ReadKV(c)
  <2>1. Resolved(r) \in Cycle /\ kv[r.at] \in Version
    BY <1>r, ResolvedType DEF TypeOK, Cycle
  <2>2. /\ [Resolved(r) EXCEPT !.pc = "apply", !.data = kv[r.at]] \in Cycle
        /\ [Resolved(r) EXCEPT !.pc = "apply", !.data = kv[r.at]].pc = "apply"
    BY <2>1 DEF Cycle, CyclePC
  <2>3. MarkFailed(Resolved(r)) \in Cycle
    BY <2>1, MarkFailedType
  <2> QED
    BY <1>2, <1>a, <1>g, <2>2, <2>3, AfterPC, AfterType DEF ReadKV
<1>3. CASE ApplySecret(c)
  <2>1. Merge(r) \in Cycle /\ MarkFailed(r) \in Cycle
    BY <1>r, MergeType, MarkFailedType
  <2> QED
    BY <1>3, <1>a, <1>g, <2>1, AfterPC, AfterType DEF ApplySecret
<1>l. ASSUME NEW d \in Dep, Goto(c, Left(r, d)) PROVE InterlockInv'
  <2>1. Left(r, d) \in Cycle /\ Left(r, d).pc = "inspect"
    BY <1>r, LeftType DEF Left, Cycle
  <2> QED
    BY <1>a, <1>g, <1>l, <2>1
<1>4. CASE Inspect(c)
  <2>1. PICK d \in r.todo : \/ Goto(c, Left(r, d))
                            \/ ~replay[d] /\ Goto(c, [r EXCEPT !.pc = "guard", !.dep = d])
    BY <1>4 DEF Inspect
  <2>2. d \in Dep
    BY <1>r DEF Cycle
  <2> DEFINE n == [r EXCEPT !.pc = "guard", !.dep = d]
  <2>3. n \in Cycle /\ n.pc = "guard" /\ n.dep = d
    BY <1>r, <2>2 DEF Cycle, CyclePC
  <2> HIDE DEF n
  <2>4. ~replay[d] => Witnessed(n)
    BY <1>w, <2>2, <2>3 DEF Witnessed
  <2> QED
    BY <1>g, <1>l, <2>1, <2>2, <2>3, <2>4 DEF n
<1>5. CASE Guard(c)
  <2>1. r.pc = "guard"
    BY <1>5 DEF Guard
  <2>2. CASE r.dep \notin HADep /\ Goto(c, [r EXCEPT !.pc = "patch"])
    <3> DEFINE n == [r EXCEPT !.pc = "patch"]
    <3>1. n \in Cycle /\ n.pc = "patch" /\ n.dep = r.dep
      BY <1>r DEF Cycle, CyclePC
    <3>2. Goto(c, n)
      BY <2>2
    <3> HIDE DEF n
    <3>3. Witnessed(n)
      BY <1>w, <2>1, <2>2, <3>1 DEF Witnessed, InterlockInv
    <3> QED
      BY <1>g, <3>1, <3>2, <3>3
  <2>3. ASSUME NEW b \in BOOLEAN, Goto(c, [r EXCEPT !.pc = "token", !.up = b])
        PROVE  InterlockInv'
    <3> DEFINE n == [r EXCEPT !.pc = "token", !.up = b]
    <3>1. n \in Cycle /\ n.pc = "token" /\ n.dep = r.dep
      BY <1>r DEF Cycle, CyclePC
    <3>2. Goto(c, n)
      BY <2>3
    <3> HIDE DEF n
    <3>3. Witnessed(n)
      BY <1>w, <2>1, <3>1 DEF Witnessed
    <3> QED
      BY <1>g, <3>1, <3>2, <3>3
  <2>4. r.dep \in HADep => up[r.dep] \in BOOLEAN
    BY SyncAssumption DEF TypeOK
  <2> QED
    BY <1>5, <2>2, <2>3, <2>4 DEF Guard
<1>6. CASE GuardToken(c)
  <2>1. r.pc = "token" /\ r.dep \in Dep
    BY <1>6, <1>w DEF GuardToken, Witnessed
  <2>2. CASE RoleActive(r.dep) /\ Goto(c, [r EXCEPT !.pc = "patch"])
    <3> DEFINE n == [r EXCEPT !.pc = "patch"]
    <3>1. n \in Cycle /\ n.pc = "patch" /\ n.dep = r.dep
      BY <1>r DEF Cycle, CyclePC
    <3>2. Goto(c, n)
      BY <2>2
    <3> HIDE DEF n
    <3>3. Witnessed(n)
      BY <1>w, <2>1, <2>2, <3>1 DEF Witnessed, RoleActive
    <3> QED
      BY <1>g, <3>1, <3>2, <3>3
  <2> QED
    BY <1>6, <1>l, <2>1, <2>2 DEF GuardToken
<1>7. CASE PatchRestart(c)
  <2>1. r.dep \in Dep /\ Goto(c, Left(r, r.dep))
    BY <1>7, <1>w DEF PatchRestart, Witnessed
  <2> QED
    BY <1>l, <2>1
<1>8. CASE FinishCycle(c)
  BY <1>8, <1>g DEF FinishCycle
<1> QED
  BY <1>1, <1>2, <1>3, <1>4, <1>5, <1>6, <1>7, <1>8 DEF Step, Phase1, Phase2

LEMMA NextInterlockInv == TypeOK /\ InterlockInv /\ [Next]_vars => InterlockInv'
<1> SUFFICES ASSUME TypeOK, InterlockInv, [Next]_vars PROVE InterlockInv'
  OBVIOUS
<1>1. ASSUME NEW c \in Caller, StartCycle(c) PROVE InterlockInv'
  <2>1. UNCHANGED <<token, replay>> /\ Goto(c, Begin) /\ seen' = [quiet |-> QuietNow, owned |-> OwnedNow]
    BY <1>1 DEF StartCycle, specVars
  <2>2. \A b \in Caller : sync'[b] = IF b = c THEN Begin ELSE Idle
    BY <1>1, <2>1, BeginType, GotoFacts DEF StartCycle
  <2>3. Begin.pc = "read"
    BY DEF Begin
  <2> QED
    BY <2>1, <2>2, <2>3 DEF InterlockInv, Witnessed, QuietNow, OwnedNow
<1>2. ASSUME NEW i \in Item, Rotate(i) PROVE InterlockInv'
  BY <1>2 DEF Rotate, specVars, InterlockInv, Witnessed
<1>3. CASE Crash
  BY <1>3 DEF Crash, world, InterlockInv, Witnessed
<1>4. CASE CalmDown \/ UNCHANGED vars
  BY <1>4 DEF CalmDown, vars, world, specVars, InterlockInv, Witnessed
<1>5. ASSUME NEW d \in Dep, Environment(d) PROVE InterlockInv'
  <2>1. CASE OperatorStops(d) \/ OperatorStarts(d) \/ PodRestarts(d) \/ SetState(d)
    BY <2>1 DEF OperatorStops, OperatorStarts, PodRestarts, SetState, specVars,
                InterlockInv, Witnessed
  <2>2. CASE BeginReplay(d) \/ EndReplay(d)
    <3>1. UNCHANGED <<token, sync>>
      BY <2>2 DEF BeginReplay, EndReplay
    <3>2. seen'.owned = seen.owned /\ seen.quiet \subseteq seen'.quiet
      BY <2>2 DEF BeginReplay, EndReplay, TypeOK, Seen
    <3>3. \A e \in Dep : ~replay'[e] => ~replay[e] \/ e \in seen'.quiet
      BY <2>2 DEF BeginReplay, EndReplay, TypeOK, Seen
    <3> QED
      BY <3>1, <3>2, <3>3 DEF InterlockInv, Witnessed
  <2>3. CASE MoveToken(d)
    <3>1. UNCHANGED <<replay, sync>> /\ d \in HADep
      BY <2>3 DEF MoveToken, specVars
    <3>2. seen'.quiet = seen.quiet /\ seen.owned \subseteq seen'.owned
      BY <2>3 DEF MoveToken, TypeOK, Seen
    <3>3. \A e \in Dep : token'[e] = "self" => token[e] = "self" \/ e \in seen'.owned
      BY <2>3 DEF MoveToken, TypeOK, Seen
    <3>4. \A e \in Dep \ HADep : token'[e] = token[e]
      BY <2>3, <3>1 DEF MoveToken, TypeOK
    <3> QED
      BY <3>1, <3>2, <3>3, <3>4 DEF InterlockInv, Witnessed
  <2> QED
    BY <1>5, <2>1, <2>2, <2>3 DEF Environment
<1> QED
  BY <1>1, <1>2, <1>3, <1>4, <1>5, StepInterlockInv DEF Next

(* Whatever else happens, a cycle asks for a restart only of a deployment  *)
(* that it has had without a replay, and of which this side was the owner, *)
(* at some time since the cycle began.                                     *)
THEOREM RestartsAreInterlocked == Spec => []RestartsInterlocked
<1>1. Init => InterlockInv
  BY DEF Init, InterlockInv
<1>2. TypeOK /\ InterlockInv => RestartsInterlocked
  BY Running DEF InterlockInv, Witnessed, RestartsInterlocked
<1> QED
  BY <1>1, <1>2, NextInterlockInv, TypeCorrect, PTL DEF Spec

-----------------------------------------------------------------------------
(* A cycle ends, and asks for at most one restart of a deployment.         *)

(* The most steps phase 2 takes: four for a deployment, and the last.      *)
PhaseTwo(n) == 4 * n + 1

(* The most steps a cycle has left.                                        *)
StepsLeft(r) ==
    CASE r.pc = "read" -> 2 * (N - r.at) + 2 + PhaseTwo(Cardinality(Dep))
      [] r.pc = "apply" -> 2 * (N - r.at) + 1 + PhaseTwo(Cardinality(Dep))
      [] r.pc = "inspect" -> PhaseTwo(Cardinality(r.todo))
      [] r.pc = "guard" -> PhaseTwo(Cardinality(r.todo)) - 1
      [] r.pc = "token" -> PhaseTwo(Cardinality(r.todo)) - 2
      [] r.pc = "patch" -> PhaseTwo(Cardinality(r.todo)) - 3
      [] OTHER -> 0

(* Once the restarts have begun, a deployment that has been dealt with is  *)
(* not looked at again, and contents no longer change.                     *)
RestartsAreOver(r, s) == s.todo \subseteq r.todo /\ s.merged = r.merged

CyclesEnd ==
    [][\A c \in Caller : sync[c] # Idle =>
          \/ sync'[c] = sync[c]
          \/ sync'[c] = Idle
          \/ StepsLeft(sync'[c]) < StepsLeft(sync[c])]_vars

OncePerCycle ==
    [][\A c \in Caller : sync[c].pc \in {"inspect", "guard", "token", "patch"} =>
          /\ sync'[c] # Idle => RestartsAreOver(sync[c], sync'[c])
          /\ PatchRestart(c) => sync[c].dep \in sync[c].todo \ sync'[c].todo]_vars

LEMMA TodoSize ==
    ASSUME IsFiniteSet(Dep), NEW S \in SUBSET Dep
    PROVE  /\ Cardinality(S) \in Nat /\ Cardinality(Dep) \in Nat
           /\ Cardinality(S) <= Cardinality(Dep)
           /\ \A d \in S : Cardinality(S \ {d}) = Cardinality(S) - 1
<1>1. IsFiniteSet(S) /\ Cardinality(S) <= Cardinality(Dep)
  BY FS_Subset
<1>2. Cardinality(S) \in Nat /\ Cardinality(Dep) \in Nat
  BY <1>1, FS_CardinalityType
<1>3. ASSUME NEW d \in S PROVE Cardinality(S \ {d}) = Cardinality(S) - 1
  BY <1>1, FS_RemoveElement
<1> QED BY <1>1, <1>2, <1>3

LEMMA AfterSpends ==
    ASSUME IsFiniteSet(Dep), NEW r \in Cycle, r.pc \in {"read", "apply"}
    PROVE  StepsLeft(After(r)) <= 2 * (N - r.at) + PhaseTwo(Cardinality(Dep))
<1>1. r.at \in Int /\ r.at <= N /\ N \in Int
  BY SyncAssumption DEF Cycle, Item
<1>2. CASE r.at < N
  <2>1. After(r) = [r EXCEPT !.pc = "read", !.at = r.at + 1, !.data = Absent]
    BY <1>2 DEF After, NextItem, Cycle
  <2>2. After(r).pc = "read" /\ After(r).at = r.at + 1
    BY <2>1 DEF Cycle
  <2>3. Cardinality(Dep) \in Nat
    BY FS_CardinalityType
  <2>4. StepsLeft(After(r)) = 2 * (N - (r.at + 1)) + 2 + PhaseTwo(Cardinality(Dep))
    BY <2>2 DEF StepsLeft
  <2> QED BY <1>1, <2>3, <2>4 DEF PhaseTwo
<1>3. CASE ~(r.at < N)
  <2> DEFINE t == {d \in Dep \ r.failed : r.merged[d] # Nothing}
  <2>1. After(r) = [r EXCEPT !.pc = "inspect", !.data = Absent, !.todo = t]
    BY <1>3 DEF After, Restarts
  <2>2. t \subseteq Dep
    OBVIOUS
  <2>3. /\ Cardinality(t) \in Nat /\ Cardinality(Dep) \in Nat
        /\ Cardinality(t) <= Cardinality(Dep)
    BY <2>2, TodoSize
  <2> HIDE DEF t
  <2>4. After(r).pc = "inspect" /\ After(r).todo = t
    BY <2>1 DEF Cycle
  <2>5. StepsLeft(After(r)) = PhaseTwo(Cardinality(t))
    BY <2>4 DEF StepsLeft
  <2> QED BY <1>1, <2>3, <2>5 DEF PhaseTwo
<1> QED BY <1>2, <1>3

LEMMA LeftSpends ==
    ASSUME IsFiniteSet(Dep), NEW r \in Cycle, NEW d \in r.todo,
           r.pc \in {"inspect", "token", "patch"}
    PROVE  /\ StepsLeft(Left(r, d)) < StepsLeft(r)
           /\ RestartsAreOver(r, Left(r, d)) /\ d \notin Left(r, d).todo
<1>1. r.todo \in SUBSET Dep
  BY DEF Cycle
<1>2. /\ Cardinality(r.todo) \in Nat
      /\ Cardinality(r.todo \ {d}) = Cardinality(r.todo) - 1
  BY <1>1, TodoSize
<1>3. /\ Left(r, d).pc = "inspect" /\ Left(r, d).todo = r.todo \ {d}
      /\ Left(r, d).merged = r.merged
  BY DEF Left, Cycle
<1>4. StepsLeft(Left(r, d)) = PhaseTwo(Cardinality(r.todo) - 1)
  BY <1>2, <1>3 DEF StepsLeft
<1>5. StepsLeft(r) \in {PhaseTwo(Cardinality(r.todo)) - k : k \in 0 .. 3}
  BY <1>2 DEF StepsLeft, PhaseTwo
<1> QED BY <1>2, <1>3, <1>4, <1>5 DEF PhaseTwo, RestartsAreOver

LEMMA Phase1Spends ==
    ASSUME IsFiniteSet(Dep), TypeOK, NEW c \in Caller, sync[c] # Idle, Phase1(c)
    PROVE  /\ StepsLeft(sync'[c]) < StepsLeft(sync[c])
           /\ sync[c].pc \in {"read", "apply"}
<1> DEFINE r == sync[c]
<1>1. r \in Cycle
  BY DEF TypeOK
<1>2. Cardinality(Dep) \in Nat /\ r.at \in Int /\ N \in Int
  BY <1>1, FS_CardinalityType, SyncAssumption DEF Cycle, Item
<1>3. ASSUME NEW s \in Cycle, s.pc = r.pc, s.at = r.at, sync'[c] = After(s),
             r.pc \in {"read", "apply"}
      PROVE  StepsLeft(sync'[c]) < StepsLeft(r)
  <2>1. StepsLeft(sync'[c]) <= 2 * (N - r.at) + PhaseTwo(Cardinality(Dep))
    BY <1>3, AfterSpends
  <2>2. After(s) \in Cycle
    BY <1>3, AfterType
  <2>3. StepsLeft(sync'[c]) \in Int
    <3>1. s.at < N \/ ~(s.at < N)
      OBVIOUS
    <3>2. After(s).pc \in {"read", "inspect"}
      BY DEF After, NextItem, Restarts, Cycle
    <3>3. After(s).at \in Int /\ Cardinality(After(s).todo) \in Nat
      BY <2>2, TodoSize DEF Cycle, Item
    <3> QED BY <1>2, <1>3, <3>2, <3>3 DEF StepsLeft, PhaseTwo
  <2>4. StepsLeft(r) \in {2 * (N - r.at) + k + PhaseTwo(Cardinality(Dep)) : k \in {1, 2}}
    BY <1>3 DEF StepsLeft
  <2> HIDE DEF r
  <2> QED BY <1>2, <2>1, <2>3, <2>4 DEF PhaseTwo
<1>4. CASE ResolveFails(c)
  <2> DEFINE s == [r EXCEPT !.listed = "failed"]
  <2>1. s \in Cycle /\ s.pc = r.pc /\ s.at = r.at /\ r.pc = "read"
    BY <1>1, <1>4 DEF Cycle, ResolveFails
  <2>2. Goto(c, After(s))
    BY <1>4 DEF ResolveFails
  <2>3. sync'[c] = After(s)
    BY <2>1, <2>2, AfterType, GotoFacts
  <2> QED BY <1>3, <2>1, <2>3
<1>5. CASE ReadKV(c)
  <2> DEFINE s == Resolved(r)
             t == [s EXCEPT !.pc = "apply", !.data = kv[r.at]]
  <2>1. s \in Cycle /\ s.pc = r.pc /\ s.at = r.at /\ r.pc = "read"
    BY <1>1, <1>5, ResolvedType DEF Resolved, Cycle, ReadKV
  <2>2. CASE Goto(c, t)
    <3>1. t.pc = "apply" /\ t.at = r.at
      BY <2>1 DEF Cycle
    <3>2. t \in Cycle
      <4>1. kv[r.at] \in Version
        BY <1>1 DEF TypeOK, Cycle
      <4> QED BY <2>1, <4>1 DEF Cycle, CyclePC
    <3>3. sync'[c] = t
      BY <2>2, <3>2, GotoFacts
    <3>4. StepsLeft(t) = 2 * (N - r.at) + 1 + PhaseTwo(Cardinality(Dep))
      BY <3>1 DEF StepsLeft
    <3>5. StepsLeft(r) = 2 * (N - r.at) + 2 + PhaseTwo(Cardinality(Dep))
      BY <2>1 DEF StepsLeft
    <3>6. StepsLeft(t) < StepsLeft(r)
      <4> HIDE DEF r, t
      <4> QED BY <1>2, <3>4, <3>5 DEF PhaseTwo
    <3> QED BY <2>1, <3>3, <3>6
  <2>3. CASE Goto(c, After(MarkFailed(s)))
    <3>1. MarkFailed(s) \in Cycle /\ MarkFailed(s).pc = r.pc /\ MarkFailed(s).at = r.at
      BY <2>1, MarkFailedType DEF MarkFailed, Cycle
    <3>2. sync'[c] = After(MarkFailed(s))
      BY <2>3, <3>1, AfterType, GotoFacts
    <3> QED BY <1>3, <2>1, <3>1, <3>2
  <2> QED BY <1>5, <2>2, <2>3 DEF ReadKV
<1>6. CASE ApplySecret(c)
  <2>1. r.pc = "apply"
    BY <1>6 DEF ApplySecret
  <2>2. ASSUME NEW s, s \in {Merge(r), MarkFailed(r)}, Goto(c, After(s))
        PROVE  StepsLeft(sync'[c]) < StepsLeft(r)
    <3>1. s \in Cycle /\ s.pc = r.pc /\ s.at = r.at
      BY <1>1, <2>2, MergeType, MarkFailedType DEF Merge, MarkFailed, Cycle
    <3>2. sync'[c] = After(s)
      BY <2>2, <3>1, AfterType, GotoFacts
    <3> QED BY <1>3, <2>1, <3>1, <3>2
  <2> QED BY <1>6, <2>1, <2>2 DEF ApplySecret
<1> QED BY <1>4, <1>5, <1>6 DEF Phase1, ResolveFails, ReadKV, ApplySecret

LEMMA Phase2Spends ==
    ASSUME IsFiniteSet(Dep), TypeOK, SyncInv, NEW c \in Caller, sync[c] # Idle, Phase2(c)
    PROVE  /\ sync'[c] = Idle \/ /\ StepsLeft(sync'[c]) < StepsLeft(sync[c])
                                 /\ RestartsAreOver(sync[c], sync'[c])
           /\ PatchRestart(c) => sync[c].dep \in sync[c].todo \ sync'[c].todo
<1> DEFINE r == sync[c]
<1>1. r \in Cycle
  BY DEF TypeOK
<1>2. r.pc \in {"guard", "token", "patch"} => r.dep \in r.todo
  BY DEF SyncInv, Whole
<1>3. Cardinality(r.todo) \in Nat
  BY <1>1, TodoSize DEF Cycle
<1>4. ASSUME NEW d \in r.todo, Goto(c, Left(r, d)), r.pc \in {"inspect", "token", "patch"}
      PROVE  /\ StepsLeft(sync'[c]) < StepsLeft(r) /\ RestartsAreOver(r, sync'[c])
             /\ d \notin sync'[c].todo
  <2>1. d \in Dep
    BY <1>1 DEF Cycle
  <2>2. Left(r, d) \in Cycle
    BY <1>1, <2>1, LeftType
  <2>3. sync'[c] = Left(r, d)
    BY <1>4, <2>2, GotoFacts
  <2> QED BY <1>1, <1>4, <2>3, LeftSpends
<1>5. ASSUME NEW s \in Cycle, Goto(c, s), s.todo = r.todo, s.merged = r.merged,
             <<r.pc, s.pc>> \in {<<"inspect", "guard">>, <<"guard", "token">>,
                                 <<"guard", "patch">>, <<"token", "patch">>}
      PROVE  StepsLeft(sync'[c]) < StepsLeft(r) /\ RestartsAreOver(r, sync'[c])
  <2>1. sync'[c] = s
    BY <1>5, GotoFacts
  <2>2. StepsLeft(s) < StepsLeft(r)
    BY <1>3, <1>5 DEF StepsLeft, PhaseTwo
  <2> QED BY <1>5, <2>1, <2>2 DEF RestartsAreOver
<1>6. CASE Inspect(c)
  <2>1. PICK d \in r.todo :
          Goto(c, Left(r, d)) \/ Goto(c, [r EXCEPT !.pc = "guard", !.dep = d])
    BY <1>6 DEF Inspect
  <2>2. r.pc = "inspect"
    BY <1>6 DEF Inspect
  <2>3. [r EXCEPT !.pc = "guard", !.dep = d] \in Cycle
    BY <1>1, <2>1 DEF Cycle, CyclePC
  <2>4. CASE Goto(c, [r EXCEPT !.pc = "guard", !.dep = d])
    <3> DEFINE s == [r EXCEPT !.pc = "guard", !.dep = d]
    <3>1. s.pc = "guard" /\ s.todo = r.todo /\ s.merged = r.merged
      BY <1>1 DEF Cycle
    <3> HIDE DEF s
    <3> QED BY <1>5, <2>2, <2>3, <2>4, <3>1 DEF s, PatchRestart
  <2> QED BY <1>4, <2>1, <2>2, <2>4 DEF PatchRestart
<1>7. CASE Guard(c)
  <2>1. r.pc = "guard"
    BY <1>7 DEF Guard
  <2>2. CASE Goto(c, [r EXCEPT !.pc = "patch"])
    <3> DEFINE s == [r EXCEPT !.pc = "patch"]
    <3>1. s \in Cycle /\ s.pc = "patch" /\ s.todo = r.todo /\ s.merged = r.merged
      BY <1>1 DEF Cycle, CyclePC
    <3> HIDE DEF s
    <3> QED BY <1>5, <2>1, <2>2, <3>1 DEF s, PatchRestart
  <2>3. ASSUME NEW read \in BOOLEAN, Goto(c, [r EXCEPT !.pc = "token", !.up = read])
        PROVE  StepsLeft(sync'[c]) < StepsLeft(r) /\ RestartsAreOver(r, sync'[c])
    <3> DEFINE s == [r EXCEPT !.pc = "token", !.up = read]
    <3>1. s \in Cycle /\ s.pc = "token" /\ s.todo = r.todo /\ s.merged = r.merged
      BY <1>1 DEF Cycle, CyclePC
    <3> HIDE DEF s
    <3> QED BY <1>5, <2>1, <2>3, <3>1 DEF s
  <2>4. \A x \in {up[r.dep]} \cup (IF Faulty("k8s") THEN {FALSE} ELSE {}) : x \in BOOLEAN
    BY <1>1, <1>2, <2>1 DEF TypeOK, Cycle
  <2> QED BY <1>7, <2>1, <2>2, <2>3, <2>4 DEF Guard, PatchRestart
<1>8. CASE GuardToken(c)
  <2>1. r.pc = "token" /\ r.dep \in r.todo
    BY <1>2, <1>8 DEF GuardToken
  <2>2. CASE Goto(c, [r EXCEPT !.pc = "patch"])
    <3> DEFINE s == [r EXCEPT !.pc = "patch"]
    <3>1. s \in Cycle /\ s.pc = "patch" /\ s.todo = r.todo /\ s.merged = r.merged
      BY <1>1 DEF Cycle, CyclePC
    <3> HIDE DEF s
    <3> QED BY <1>5, <2>1, <2>2, <3>1 DEF s, PatchRestart
  <2> QED BY <1>4, <1>8, <2>1, <2>2 DEF GuardToken, PatchRestart
<1>9. CASE PatchRestart(c)
  <2>1. r.pc = "patch" /\ Goto(c, Left(r, r.dep)) /\ r.dep \in r.todo
    BY <1>2, <1>9 DEF PatchRestart
  <2> QED BY <1>4, <2>1
<1>10. CASE FinishCycle(c)
  <2>1. sync'[c] = Idle
    BY <1>10, GotoFacts DEF FinishCycle
  <2>2. ~PatchRestart(c)
    BY <1>10 DEF FinishCycle, PatchRestart
  <2> QED BY <2>1, <2>2
<1> QED BY <1>6, <1>7, <1>8, <1>9, <1>10 DEF Phase2

LEMMA NextSpends ==
    ASSUME IsFiniteSet(Dep), TypeOK, SyncInv, [Next]_vars, NEW c \in Caller, sync[c] # Idle
    PROVE  /\ \/ sync'[c] = sync[c]
              \/ sync'[c] = Idle
              \/ StepsLeft(sync'[c]) < StepsLeft(sync[c])
           /\ sync[c].pc \in {"inspect", "guard", "token", "patch"} =>
                 /\ sync'[c] # Idle => RestartsAreOver(sync[c], sync'[c])
                 /\ PatchRestart(c) => sync[c].dep \in sync[c].todo \ sync'[c].todo
<1>1. CASE Step(c)
  BY <1>1, Phase1Spends, Phase2Spends DEF Step
<1>2. CASE ~Step(c) /\ (sync'[c] = sync[c] \/ sync'[c] = Idle)
  BY <1>2 DEF RestartsAreOver, Step, Phase2
<1>3. ASSUME NEW b \in Caller, StartCycle(b) PROVE FALSE
  BY <1>3 DEF StartCycle
<1>4. ASSUME NEW b \in Caller, b # c, Step(b) PROVE sync'[c] = sync[c]
  BY <1>4 DEF Step, Phase1, Phase2, ResolveFails, ReadKV, ApplySecret, Inspect, Guard,
              GuardToken, PatchRestart, FinishCycle, Goto, TypeOK
<1>5. ASSUME NEW d \in Dep, Environment(d) PROVE sync'[c] = sync[c]
  BY <1>5 DEF Environment, OperatorStops, OperatorStarts, PodRestarts, BeginReplay,
              EndReplay, SetState, MoveToken
<1>6. ASSUME NEW i \in Item, Rotate(i) PROVE sync'[c] = sync[c]
  BY <1>6 DEF Rotate
<1>7. CASE Crash \/ CalmDown \/ UNCHANGED vars
  <2>1. sync'[c] = sync[c] \/ sync'[c] = Idle
    BY <1>7 DEF Crash, CalmDown, vars
  <2> QED BY <1>1, <1>2, <2>1
<1> QED BY <1>1, <1>2, <1>3, <1>4, <1>5, <1>6, <1>7 DEF Next

(* With finitely many deployments a cycle ends after at most two steps for *)
(* an item and four for a deployment, and "restarted exactly ONCE per      *)
(* cycle" holds: whoever has been asked to restart is not asked again, and *)
(* what would be recorded is settled before the first restart.             *)
THEOREM CyclesAreBounded ==
    ASSUME IsFiniteSet(Dep)
    PROVE  Spec => CyclesEnd /\ OncePerCycle
<1>1. TypeOK /\ SyncInv /\ [Next]_vars =>
        /\ [\A c \in Caller : sync[c] # Idle =>
              \/ sync'[c] = sync[c]
              \/ sync'[c] = Idle
              \/ StepsLeft(sync'[c]) < StepsLeft(sync[c])]_vars
        /\ [\A c \in Caller : sync[c].pc \in {"inspect", "guard", "token", "patch"} =>
              /\ sync'[c] # Idle => RestartsAreOver(sync[c], sync'[c])
              /\ PatchRestart(c) => sync[c].dep \in sync[c].todo \ sync'[c].todo]_vars
  BY NextSpends DEF Idle
<1> QED BY <1>1, Inductive, TypeCorrect, PTL DEF Spec, CyclesEnd, OncePerCycle
=============================================================================
