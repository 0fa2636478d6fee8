----------------------------- MODULE SecretSync -----------------------------
(***************************************************************************)
(* One console's secret sync (internal/secretsync): a cycle copies every   *)
(* item from OpenBao to a Kubernetes Secret and then asks for a restart of *)
(* each deployment whose combined content has changed, unless a replay is  *)
(* active or the HA guard (failover.Service.SafeToRestart) objects.        *)
(*                                                                         *)
(* Outside src/: OpenBao, whose values change; the Flink operator, which   *)
(* restarts a job when restartNonce changes and stops and starts it with   *)
(* the state asked for; pods, which read the Secrets when they start.      *)
(* Replays and switches are those of Replay and HASwitch, told only as far *)
(* as secret sync can see them.                                            *)
(***************************************************************************)
EXTENDS Integers

CONSTANTS
    N,              \* number of secret_sync.items
    Dep,            \* FlinkDeployments
    Mode,           \* each item's restart mode
    Targets,        \* the deployments the mode of an item stands for
    HADep,          \* deployments in an HA group
    ReplayDep,      \* deployments that replays are asked for
    Caller,         \* who runs cycles: Ticker, and a manual "Sync now"
    Ticker,
    NoDep,
    Faults,         \* what may go wrong: calls to OpenBao, calls to Kubernetes
                    \* and S3, pods, the console itself
    MaxVersion      \* bound: versions of each item

Item == 1 .. N
RestartMode == {"none", "list", "references", "all"}
Fault == {"bao", "k8s", "pod", "crash"}

ASSUME SyncAssumption ==
    /\ N \in Nat \ {0}
    /\ Mode \in [Item -> RestartMode]
    /\ Targets \in [Item -> SUBSET Dep]
    /\ \A i \in Item : Mode[i] = "none" => Targets[i] = {}
    /\ HADep \subseteq Dep
    /\ ReplayDep \subseteq Dep
    /\ Ticker \in Caller
    /\ NoDep \notin Dep
    /\ Faults \subseteq Fault
    /\ MaxVersion \in Nat \ {0}

VARIABLES
    kv,         \* OpenBao's version of each item
    secret,     \* the version in each item's Secret, or Absent
    hash,       \* the content each deployment's hash annotation stands for
    restart,    \* deployments whose restart the operator still owes
    replay,     \* deployments with an active replay session
    wanted,     \* spec.job.state of each deployment
    token,      \* the fencing token, as classifyToken sees it
    up,         \* is the deployment's job up?
    env,        \* the versions a deployment's job was last started with
    sync,       \* the cycle each caller is running, or Idle
    calm,       \* no more faults, rotations, replays and switches
    seen        \* history: see Seen

jobVars == <<up, env>>
specVars == <<hash, restart, replay, wanted>>
world == <<kv, secret, specVars, token, jobVars, calm, seen>>
vars == <<world, sync>>

-----------------------------------------------------------------------------
(* A Secret's content is a version, a deployment's combined content the    *)
(* version of each item merged into it (Absent for the others).            *)
Absent == 0
Version == 0 .. MaxVersion
Content == [Item -> Version]
Nothing == [i \in Item |-> Absent]

(* The items a change of which concerns a deployment, assumed to be those  *)
(* whose Secrets its pods read.                                            *)
ItemsOf(d) == {i \in Item : d \in Targets[i]}

NeedsList(i) == Mode[i] \in {"references", "all"}

CyclePC == {"read", "apply", "inspect", "guard", "token", "patch"}

Cycle ==
    [pc : CyclePC,
     at : Item,                         \* phase 1: the item at hand
     listed : {"no", "ok", "failed"},   \* deploymentCache
     data : Version,                    \* read for the item at hand
     merged : [Dep -> Content],
     failed : SUBSET Dep,
     todo : SUBSET Dep,                 \* phase 2: deployments left
     dep : Dep \cup {NoDep},            \* the one at hand
     up : BOOLEAN]                      \* its status, as the guard has read it

Idle == [pc |-> "idle"]

Begin ==
    [pc |-> "read", at |-> 1, listed |-> "no", data |-> Absent,
     merged |-> [d \in Dep |-> Nothing], failed |-> {}, todo |-> {},
     dep |-> NoDep, up |-> FALSE]

Goto(c, r) == sync' = [sync EXCEPT ![c] = r]

Faulty(f) == f \in Faults /\ ~calm

(* Since the running cycle began: which deployments have been without a    *)
(* replay, and of which has this side been the owner, at some time.        *)
Seen == [quiet : SUBSET Dep, owned : SUBSET Dep]
QuietNow == {d \in Dep : ~replay[d]}
OwnedNow == {d \in Dep : token[d] = "self"}

TypeOK ==
    /\ kv \in [Item -> Version \ {Absent}]
    /\ secret \in Content
    /\ hash \in [Dep -> Content]
    /\ restart \in [Dep -> BOOLEAN]
    /\ replay \in [Dep -> BOOLEAN]
    /\ wanted \in [Dep -> {"running", "suspended"}]
    /\ token \in [Dep -> {"self", "neutral", "peer"}]
    /\ up \in [Dep -> BOOLEAN]
    /\ env \in [Dep -> Content]
    /\ sync \in [Caller -> Cycle \cup {Idle}]
    /\ calm \in BOOLEAN
    /\ seen \in Seen

Init ==
    /\ kv = [i \in Item |-> 1]
    /\ secret = Nothing
    /\ hash = [d \in Dep |-> Nothing]
    /\ restart = [d \in Dep |-> FALSE]
    /\ replay = [d \in Dep |-> FALSE]
    /\ token \in {f \in [Dep -> {"self", "peer"}] : \A d \in Dep \ HADep : f[d] = "self"}
    /\ wanted = [d \in Dep |-> IF token[d] = "self" THEN "running" ELSE "suspended"]
    /\ up = [d \in Dep |-> FALSE]
    /\ env = [d \in Dep |-> Nothing]
    /\ sync = [c \in Caller |-> Idle]
    /\ calm = FALSE
    /\ seen = [quiet |-> {}, owned |-> {}]

-----------------------------------------------------------------------------
(* Phase 1: every item in turn.                                            *)

(* Variant: without runMu.                                                 *)
StartCycleUnlocked(c) ==
    /\ sync[c] = Idle
    /\ c # Ticker => ~calm
    /\ Goto(c, Begin)
    /\ seen' = [quiet |-> QuietNow, owned |-> OwnedNow]
    /\ UNCHANGED <<kv, secret, specVars, token, jobVars, calm>>

(* Cycles exclude each other (runMu).  One that cannot log in to OpenBao   *)
(* changes nothing.                                                        *)
StartCycle(c) ==
    /\ \A b \in Caller : sync[b] = Idle
    /\ c # Ticker => ~calm
    /\ Goto(c, Begin)
    /\ seen' = [quiet |-> QuietNow, owned |-> OwnedNow]
    /\ UNCHANGED <<kv, secret, specVars, token, jobVars, calm>>

NextItem(r) == [r EXCEPT !.pc = "read", !.at = @ + 1, !.data = Absent]

(* Phase 2 leaves out the deployments one of whose items has failed.       *)
Restarts(r) ==
    [r EXCEPT !.pc = "inspect", !.data = Absent,
              !.todo = {d \in Dep \ r.failed : r.merged[d] # Nothing}]

(* Variant: one item too many.                                             *)
AfterOneMore(r) == IF r.at <= N THEN NextItem(r) ELSE Restarts(r)

After(r) == IF r.at < N THEN NextItem(r) ELSE Restarts(r)

(* Variant: a failed read leaves the targets alone.                        *)
MarkNone(r) == r

MarkFailed(r) == [r EXCEPT !.failed = @ \cup Targets[r.at]]

Merge(r) ==
    [r EXCEPT !.merged = [d \in Dep |->
        IF d \in Targets[r.at] THEN [@[d] EXCEPT ![r.at] = r.data] ELSE @[d]]]

(* restartTargets: the deployments are listed once per cycle, and so fails *)
(* once for all items that need the list; such an item is left out, not    *)
(* failed.                                                                 *)
ResolveFails(c) ==
    LET r == sync[c]
    IN  /\ r.pc = "read"
        /\ NeedsList(r.at)
        /\ \/ r.listed = "failed"
           \/ r.listed = "no" /\ Faulty("k8s")
        /\ Goto(c, After([r EXCEPT !.listed = "failed"]))
        /\ UNCHANGED world

Resolved(r) == IF NeedsList(r.at) THEN [r EXCEPT !.listed = "ok"] ELSE r

ReadKV(c) ==
    LET r == sync[c]
    IN  /\ r.pc = "read"
        /\ NeedsList(r.at) => r.listed # "failed"
        /\ \/ Goto(c, [Resolved(r) EXCEPT !.pc = "apply", !.data = kv[r.at]])
           \/ Faulty("bao") /\ Goto(c, After(MarkFailed(Resolved(r))))
        /\ UNCHANGED world

(* Variant: a write that fails is merged all the same.                     *)
ApplySecretUnchecked(c) ==
    LET r == sync[c]
        written == [secret EXCEPT ![r.at] = r.data]
    IN  /\ r.pc = "apply"
        /\ \/ secret' = written
           \/ Faulty("k8s") /\ secret' \in {secret, written}
        /\ Goto(c, After(Merge(r)))
        /\ UNCHANGED <<kv, specVars, token, jobVars, calm, seen>>

ApplySecret(c) ==
    LET r == sync[c]
        written == [secret EXCEPT ![r.at] = r.data]
    IN  /\ r.pc = "apply"
        /\ \/ secret' = written /\ Goto(c, After(Merge(r)))
           \/ /\ Faulty("k8s")
              /\ secret' \in {secret, written}
              /\ Goto(c, After(MarkFailed(r)))
        /\ UNCHANGED <<kv, specVars, token, jobVars, calm, seen>>

-----------------------------------------------------------------------------
(* Phase 2: every deployment that is left, in any order.                   *)

Left(r, d) ==
    [r EXCEPT !.pc = "inspect", !.todo = @ \ {d}, !.dep = NoDep, !.up = FALSE]

(* Variant: the content is recorded although the guard may yet object.     *)
InspectRecords(c) ==
    LET r == sync[c]
    IN  /\ r.pc = "inspect"
        /\ \E d \in r.todo :
              \/ /\ Faulty("k8s") \/ hash[d] = r.merged[d] \/ replay[d]
                 /\ Goto(c, Left(r, d)) /\ UNCHANGED hash
              \/ /\ hash[d] # r.merged[d] /\ ~replay[d]
                 /\ Goto(c, [r EXCEPT !.pc = "guard", !.dep = d])
                 /\ hash' = [hash EXCEPT ![d] = r.merged[d]]
        /\ UNCHANGED <<kv, secret, restart, replay, wanted, token, jobVars, calm, seen>>

(* The annotations: nothing to do for an unchanged content, nor as yet for *)
(* a deployment in replay.                                                 *)
Inspect(c) ==
    LET r == sync[c]
    IN  /\ r.pc = "inspect"
        /\ \E d \in r.todo :
              \/ /\ Faulty("k8s") \/ hash[d] = r.merged[d] \/ replay[d]
                 /\ Goto(c, Left(r, d))
              \/ /\ hash[d] # r.merged[d] /\ ~replay[d]
                 /\ Goto(c, [r EXCEPT !.pc = "guard", !.dep = d])
        /\ UNCHANGED world

(* A deployment in no group may be restarted.  For the others LocalView    *)
(* reads the status first, an unreadable one as not healthy, ...           *)
Guard(c) ==
    LET r == sync[c]
    IN  /\ r.pc = "guard"
        /\ \/ r.dep \notin HADep /\ Goto(c, [r EXCEPT !.pc = "patch"])
           \/ /\ r.dep \in HADep
              /\ \E read \in {up[r.dep]} \cup IF Faulty("k8s") THEN {FALSE} ELSE {} :
                    Goto(c, [r EXCEPT !.pc = "token", !.up = read])
        /\ UNCHANGED world

(* Variant: the role is not asked about.                                   *)
RoleIgnored(d) == TRUE

RoleActive(d) == token[d] = "self"

(* ... and then the token, from which alone it derives the role.           *)
GuardToken(c) ==
    LET r == sync[c]
    IN  /\ r.pc = "token"
        /\ \/ RoleActive(r.dep) /\ r.up /\ Goto(c, [r EXCEPT !.pc = "patch"])
           \/ /\ ~(RoleActive(r.dep) /\ r.up) \/ Faulty("k8s")
              /\ Goto(c, Left(r, r.dep))
        /\ UNCHANGED world

(* One patch: the hash annotation and a new restartNonce, which the        *)
(* operator takes for new; the run nonce_reseed has when it is not.        *)
PatchRestart(c) ==
    LET r == sync[c]
        Applied == /\ hash' = [hash EXCEPT ![r.dep] = r.merged[r.dep]]
                   /\ restart' = [restart EXCEPT ![r.dep] = TRUE]
    IN  /\ r.pc = "patch"
        /\ \/ Applied
           \/ Faulty("k8s") /\ UNCHANGED <<hash, restart>>
        /\ Goto(c, Left(r, r.dep))
        /\ UNCHANGED <<kv, secret, replay, wanted, token, jobVars, calm, seen>>

FinishCycle(c) ==
    /\ sync[c].pc = "inspect"
    /\ sync[c].todo = {}
    /\ Goto(c, Idle)
    /\ UNCHANGED world

(* The console restarts, and with it every cycle ends.                     *)
Crash ==
    /\ Faulty("crash")
    /\ \E c \in Caller : sync[c] # Idle
    /\ sync' = [c \in Caller |-> Idle]
    /\ UNCHANGED world

-----------------------------------------------------------------------------
(* The world outside the sync.                                             *)

(* A value that goes back to an earlier one is not modelled.               *)
Rotate(i) ==
    /\ ~calm
    /\ \E v \in kv[i] + 1 .. MaxVersion : kv' = [kv EXCEPT ![i] = v]
    /\ UNCHANGED <<secret, specVars, token, jobVars, calm, seen, sync>>

OperatorStops(d) ==
    /\ up[d]
    /\ restart[d] \/ wanted[d] = "suspended"
    /\ up' = [up EXCEPT ![d] = FALSE]
    /\ UNCHANGED <<kv, secret, specVars, token, env, calm, seen, sync>>

Started(d) == [i \in Item |-> IF i \in ItemsOf(d) THEN secret[i] ELSE Absent]

(* A pod waits for its Secrets, and for the token (fencing).               *)
OperatorStarts(d) ==
    /\ ~up[d]
    /\ wanted[d] = "running"
    /\ token[d] = "self"
    /\ \A i \in ItemsOf(d) : secret[i] # Absent
    /\ up' = [up EXCEPT ![d] = TRUE]
    /\ env' = [env EXCEPT ![d] = Started(d)]
    /\ restart' = [restart EXCEPT ![d] = FALSE]
    /\ UNCHANGED <<kv, secret, hash, replay, wanted, token, calm, seen, sync>>

PodRestarts(d) ==
    /\ Faulty("pod")
    /\ up[d]
    /\ token[d] = "self"
    /\ env' = [env EXCEPT ![d] = Started(d)]
    /\ UNCHANGED <<kv, secret, specVars, token, up, calm, seen, sync>>

(* A replay and its revert each redeploy the job.                          *)
BeginReplay(d) ==
    /\ d \in ReplayDep
    /\ ~calm /\ ~replay[d]
    /\ replay' = [replay EXCEPT ![d] = TRUE]
    /\ restart' = [restart EXCEPT ![d] = TRUE]
    /\ UNCHANGED <<kv, secret, hash, wanted, token, jobVars, calm, seen, sync>>

EndReplay(d) ==
    /\ ~calm /\ replay[d]
    /\ replay' = [replay EXCEPT ![d] = FALSE]
    /\ restart' = [restart EXCEPT ![d] = TRUE]
    /\ seen' = [seen EXCEPT !.quiet = @ \cup {d}]
    /\ UNCHANGED <<kv, secret, hash, wanted, token, jobVars, calm, sync>>

(* A switch suspends the job before the token leaves this side, and starts *)
(* it after the token has come back; a forced take-over by the peer just   *)
(* takes the token.                                                        *)
SetState(d) ==
    /\ d \in HADep
    /\ ~calm
    /\ \E state \in {"running", "suspended"} \ {wanted[d]} :
          /\ state = "running" => token[d] = "self"
          /\ wanted' = [wanted EXCEPT ![d] = state]
    /\ UNCHANGED <<kv, secret, hash, restart, replay, token, jobVars, calm, seen, sync>>

MoveToken(d) ==
    /\ d \in HADep
    /\ ~calm
    /\ \E t \in {"self", "neutral", "peer"} \ {token[d]} :
          /\ t # "peer" => wanted[d] = "suspended" /\ ~up[d]
          /\ token' = [token EXCEPT ![d] = t]
          /\ seen' = IF t = "self" THEN [seen EXCEPT !.owned = @ \cup {d}] ELSE seen
    /\ UNCHANGED <<kv, secret, specVars, jobVars, calm, sync>>

CalmDown ==
    /\ ~calm
    /\ calm' = TRUE
    /\ UNCHANGED <<kv, secret, specVars, token, jobVars, seen, sync>>

-----------------------------------------------------------------------------
Phase1(c) == ResolveFails(c) \/ ReadKV(c) \/ ApplySecret(c)

Phase2(c) ==
    \/ Inspect(c) \/ Guard(c) \/ GuardToken(c)
    \/ PatchRestart(c) \/ FinishCycle(c)

Step(c) == Phase1(c) \/ Phase2(c)

Environment(d) ==
    \/ OperatorStops(d) \/ OperatorStarts(d) \/ PodRestarts(d)
    \/ BeginReplay(d) \/ EndReplay(d) \/ SetState(d) \/ MoveToken(d)

Next ==
    \/ \E c \in Caller : StartCycle(c) \/ Step(c)
    \/ \E i \in Item : Rotate(i)
    \/ \E d \in Dep : Environment(d)
    \/ Crash \/ CalmDown

Spec == Init /\ [][Next]_vars

(* The ticker starts a cycle every interval, a cycle goes on, and the      *)
(* operator reconciles.                                                    *)
Fairness ==
    /\ WF_vars(StartCycle(Ticker))
    /\ \A c \in Caller : WF_vars(Step(c))
    /\ \A d \in Dep : WF_vars(OperatorStops(d)) /\ WF_vars(OperatorStarts(d))

FairSpec == Spec /\ Fairness

-----------------------------------------------------------------------------
(* The items of a deployment that a cycle leaves out, not as failed, while *)
(* it goes on with others: those that need the list of deployments, if it  *)
(* could not be had, of a deployment with an item that does not.           *)
LeftOut(r, d) ==
    {i \in ItemsOf(d) :
        r.listed = "failed" /\ NeedsList(i) /\ \E j \in ItemsOf(d) : ~NeedsList(j)}

(* The annotation never runs ahead of the job: a job that is up runs with  *)
(* the content recorded for it or a newer one, or its restart is under     *)
(* way, although records, Secrets and pods are written at different times. *)
Delivered ==
    \A d \in Dep : up[d] /\ ~restart[d] =>
        \A i \in ItemsOf(d) : hash[d][i] <= env[d][i]

(* When a cycle comes to ask for a restart, its content differs from what  *)
(* is recorded by then, and no item is older or gone but those left out    *)
(* for want of the list, whatever modes are mixed and whatever else fails. *)
RestartHasCause ==
    \A c \in Caller : sync[c].pc = "patch" =>
        LET r == sync[c]
            m == r.merged[r.dep]
        IN  /\ m # hash[r.dep]
            /\ \A i \in ItemsOf(r.dep) : m[i] >= hash[r.dep][i] \/ i \in LeftOut(r, r.dep)

(* What syncOnce says of phase 1: a restart is asked for only when the     *)
(* combined content of ALL the deployment's Secrets has changed.  With     *)
(* modes mixed it is also asked for when part of the content was left out. *)
RestartOnlyOnChange ==
    \A c \in Caller : sync[c].pc = "patch" =>
        LET d == sync[c].dep
        IN  /\ sync[c].merged[d] # hash[d]
            /\ \A i \in ItemsOf(d) : sync[c].merged[d][i] >= hash[d][i]

(* The interlocks: a restart is asked for only if, since its cycle began,  *)
(* the deployment has been without a replay and this side its owner.       *)
RestartsInterlocked ==
    \A c \in Caller : sync[c].pc = "patch" =>
        sync[c].dep \in seen.quiet \cap seen.owned

(* A job's Secrets are values OpenBao has had and only get newer, although *)
(* the ticker and users start cycles, which fail and are cut short.        *)
Delivery == INSTANCE SecretDelivery WITH current <- kv, running <- env

ImplementsDelivery == Delivery!Spec

(* The inductive invariant behind Delivered and RestartHasCause.           *)
OneCycle == \A b, c \in Caller : sync[b] # Idle /\ sync[c] # Idle => b = c

(* Values are copied from OpenBao to a Secret, from there to pods and to   *)
(* what is recorded, so they are older and older along that way; what a    *)
(* cycle has merged is in the Secrets and no older than what is recorded.  *)
Ordered ==
    /\ \A i \in Item : secret[i] <= kv[i]
    /\ \A d \in Dep, i \in Item : env[d][i] <= secret[i] /\ hash[d][i] <= secret[i]
    /\ \A d \in Dep, i \in Item :
          i \notin ItemsOf(d) => hash[d][i] = Absent /\ env[d][i] = Absent

CycleOrdered(r) ==
    /\ r.pc = "apply" =>
          /\ Absent < r.data /\ secret[r.at] <= r.data /\ r.data <= kv[r.at]
          /\ NeedsList(r.at) => r.listed = "ok"
    /\ \A d \in Dep, i \in Item : r.merged[d][i] <= secret[i]
    /\ \A d \in Dep, i \in Item :
          r.merged[d][i] # Absent => d \in Targets[i] /\ hash[d][i] <= r.merged[d][i]

(* An item that is done has been merged unless it has failed or could not  *)
(* be resolved; none that needs the list is merged without it.             *)
Done(r, i) == i < r.at \/ r.pc \notin {"read", "apply"}

Covered(r) ==
    /\ \A d \in Dep : \A i \in ItemsOf(d) : Done(r, i) =>
          \/ r.merged[d][i] # Absent
          \/ d \in r.failed
          \/ NeedsList(i) /\ r.listed = "failed"
    /\ r.listed # "ok" => \A d \in Dep, i \in Item : NeedsList(i) => r.merged[d][i] = Absent

(* A deployment that may be restarted has content merged that differs from *)
(* what is recorded: the whole of its content but for what is left out.    *)
Whole(r) ==
    /\ r.pc \in {"guard", "token", "patch"} <=> r.dep # NoDep
    /\ r.dep # NoDep => r.dep \in r.todo /\ r.merged[r.dep] # hash[r.dep]
    /\ r.pc \in {"read", "apply"} => r.todo = {}
    /\ \A d \in r.todo : \A i \in ItemsOf(d) : r.merged[d][i] # Absent \/ i \in LeftOut(r, d)

SyncInv ==
    /\ Delivered /\ OneCycle /\ Ordered
    /\ \A c \in Caller : sync[c] # Idle =>
          CycleOrdered(sync[c]) /\ Covered(sync[c]) /\ Whole(sync[c])

(* Once things are calm, every job that may be restarted ends up running   *)
(* with OpenBao's values.                                                  *)
UpToDate(d) == up[d] /\ \A i \in ItemsOf(d) : env[d][i] = kv[i]

Converges ==
    \A d \in Dep :
        calm /\ wanted[d] = "running" /\ token[d] = "self" /\ ~replay[d] ~> UpToDate(d)
=============================================================================
