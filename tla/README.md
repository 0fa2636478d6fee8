# Verification of flinkui

flinkui is a console for Flink jobs that the Flink Kubernetes operator runs. It keeps almost no
state of its own: it patches FlinkDeployments, ConfigMaps and Secrets, and, for high availability
over two clusters, two objects in a shared S3 bucket. What can go wrong is therefore in the order
of remote calls: several goroutines, the consoles of two sides, the operator, restarts and lost
answers. This directory models those protocols in TLA+, checks them with TLC on small instances,
and proves the most important properties with TLAPS for every instance.

Status: the HA switch, replay/revert, the lifecycle operations with their registry, lock and nonces,
secret sync with its guard, and the SQL rewrite are modelled and checked, and every safety property of the
passing runs is proved. What is left is under "Plan" and "Not modelled".

Run a check with `tlc -workers 2 -config <run>.cfg <module>` and a proof with `tlapm <module>.tla`.

## Inventory

Paths are relative to `src/`.

### Components with state or protocol

| component | code | state | operations | hard behaviour | what makes it correct |
|---|---|---|---|---|---|
| HA switch | `internal/failover/switch.go` | running goroutines and their steps (in memory only) | Claim, Release, Promote (plain, forced) | any number at once on two sides; S3 and Kubernetes fail, answers get lost, the console restarts | the job never runs on two sides; no epoch has two owners; a take-over loses no data; a switch can complete |
| coordination store | `internal/store/coord.go` | token and handoff record in S3 | reads with ETag, unconditional and conditional writes | a conditional write whose answer is lost; two objects that no operation writes together | the record behaves as one atomic register |
| HA view and guard | `internal/failover/service.go` | none (derives a role) | Get, List, SafeToRestart | reads that fail; a token and a record that disagree | a restart that the guard lets through never disturbs the peer |
| HA page | `frontend/app/ha/page.tsx` | a polled view | offers buttons | the view is stale by up to a poll | only documented operations are offered |
| lifecycle | `internal/flink/service.go`, `operations.go`, `savepoint.go` | one lock per FlinkDeployment | Suspend, Resume, Restart, Rollback, Savepoint | the lock is held over waits of minutes; HA patches the same object without it | a Restart ends with the job up, from its state; it undoes no one else's Suspend; a page is told the outcome |
| replay | `internal/flink/replay.go` | ConfigMap keys and annotations | StartReplay, StartRevert | two Kubernetes objects, cut short anywhere; the operator and pods restart in between | deployed SQL and upgradeMode are never lost; a session replays; a revert completes |
| SQL rewrite | `internal/flink/sqlrewrite.go` | none | rewriteForReplay | comments, quotes, nested parentheses | only three options of one table change |
| registries | `operations.go`, `switch.go` (taskStore) | maps of operations and tasks, bounded | create, update, get | eviction while a page still polls | exactly those at work and the last ones to end are there, with their outcomes |
| redeploy nonce | `internal/flink/nonce.go`, `secretsync/syncer.go` | last nonce | NextRedeployNonce, nextNonce | clock ticks that coincide, a clock that steps back, a restart | nonces grow; no redeploy goes unseen |
| secret sync | `internal/secretsync/*.go` | last status; hashes in annotations | sync cycle, aggregated restarts | Secrets written and restarts deferred by the guard; partial failure; annotations read before they are patched | every deployment ends up running with the Secrets last written, restarted once per change |
| recovery points | `internal/store/s3.go` | none | list savepoints and checkpoints | a listing that fails or is empty | newest first, complete ones only |
| status and health | `internal/flink/service.go` | five-second reachability cache | List, Status | overlapping probes | classes are exhaustive and failures come first |
| configuration | `internal/config/config.go` | read once | Load | defaults against validation | names map one to one |

### Components without a protocol of their own

HTTP routing and handlers (`internal/api/server.go`, `handlers*.go`), WebSocket push, Flink UI
proxy, audit log, login and LDAP, metrics, the OpenBao client, the Kubernetes accessor and the rest
of the frontend decode, authenticate, forward or display. They are listed in `PROJECT.json` as not
modelled, each with its reason.

### How they interact

- Both sides of an HA group share the S3 token and record and nothing else. Each console patches
  only its own FlinkDeployment. The pod's fencing initContainer (outside `src/`) lets a JobManager
  start only while the token names its cluster.
- Lifecycle, replay and revert on one FlinkDeployment take its lock (`lockFor`). The HA switch
  and secret sync patch the same object without it.
- The operator (outside `src/`) watches the FlinkDeployment and stops and starts the job: on a
  change of `spec.job.state`, of `savepointRedeployNonce`, or of the configuration, where the SQL
  checksum is put for that purpose. A JobManager reads the SQL from the mounted ConfigMap when its
  pod starts, whoever restarted it.
- Secret sync asks the HA guard before it restarts a deployment.
- Operations and tasks live in memory: a restart of the console forgets them in mid-course and
  nothing resumes them.

The hazards that follow from this are listed with their lines in `PROJECT.json`, each with the
properties that cover it or the reason why none does yet.

## Modules

| module | what it is |
|---|---|
| `Coord` | the two S3 objects and the ways to read and write them, with failures |
| `HASwitch` | Claim, Release and Promote of one HA group over `Coord`, both sides, pods, consoles |
| `Ownership` | the abstract specification of the handoff record: one atomic register, which a cold start bootstraps |
| `MCHASwitch` | two sides and one or two operations, for TLC |
| `HASwitchProofs` | type correctness, CASInv, unique claims, the refinement, operations that end |
| `HAWizardProofs` | WizardInv and the safety of the documented procedure; RecoveryInv and the freshness of recovery points |
| `HAFenceProofs` | what is safe even if pods outlive the wait and the Jobs page acts in mid-switch: FenceInv, who may start, the register |
| `Replay` | one FlinkDeployment and its SQL: replay, revert, Suspend, Resume, Restart, Rollback |
| `ReplayProofs` | type correctness, the kept original, the restored mode |
| `Nonce` | the counter behind redeploys and restarts, a compare-and-swap loop over the clock |
| `TaskStore` | the bounded in-memory registry of operations |
| `Console` | one console's operations on one FlinkDeployment, over `Nonce` and `TaskStore` |
| `MCConsole` | two slots for operations, for TLC |
| `ConsoleProofs` | type correctness, ConsoleInv, the registry, nonces, locks, pages |
| `HALifecycle` | `HASwitch` with Restarts of the Jobs page |
| `HAView` | the role and the warning the /ha page shows, over `HASwitch` |
| `SqlRewrite` | the SQL rewrite of a replay and what Flink reads of the text |
| `MCSqlRewrite` | the texts TLC tries |
| `SqlRewriteProofs` | what a rewrite does to any text: the scanner, the parser and the upsert by induction over positions |
| `SqlReadingProofs` | what a rewrite does to what Flink reads: the code finds the tables that Flink reads, and changes the options of one |
| `SecretSync` | one console's sync cycles among rotations, replays, switches and the operator |
| `SecretDelivery` | the abstract specification: jobs get values OpenBao has had, ever newer ones |
| `MCSecretSync` | two items shared by one or two deployments, for TLC |
| `SecretSyncProofs` | type correctness, SyncInv, its consequences, the refinement, the interlocks, cycles that end |

A definition whose comment calls it a *Variant* is no part of the specification. It is a slip in
the code that a property has to notice; checking with the Variant in the place of the definition
after it shows that it does.

### Coord and HASwitch

State: `token`, `handoff` and `etag` are the two S3 objects; `state` and `path` are
`spec.job.state` and `initialSavepointPath` of each side; `jm` is whether a side's JobManager pod is
there; `bucket` has the newest checkpoint and the newest savepoint in the directories that both sides
share; `op` holds the running goroutines, each with the next remote call it makes (`pc`) and what
it read before (`rec`, `etag`, `point`, `tries`). `claims` and `ran` are history: which promotions won
which epoch, and the epoch whose owner's job last ran.

Every remote call of the three services is an action:

- Release: `Savepoint`, `SuspendLocal`, `WaitStopped`, `TokenNeutral`, `ReadForRelease`,
  `PublishReleased` with its retry loop of three attempts;
- Promote: `ReadAndPick` or `RefusePromote`, `CASHandoff`, `TokenToSelf`, `StartLocal`;
- Claim: `ClaimToken`, `ClaimRead`, `ClaimWrite`.

A failing call may have been applied. A conditional write has a third outcome: applied, its
answer lost, and the client's retry refused by the object it wrote itself (`Coord!WriteHandoffCAS`).
`Crash` is a restart of a side's console: its goroutines are gone. `Suspend` and `Resume` are those of
the Jobs page, `Checkpoint` is Flink's.

A promotion takes the record's recovery point, and without one what the bucket lists (`PickRecoveryPoint`,
`Listed`): the newest checkpoint, whichever owner took it, a savepoint only if there is no checkpoint at
all, nothing if the listing fails. A savepoint whose answer is lost is in the bucket all the same. A job
need not take a checkpoint before it stops, so what is listed may be older than what the last owner
started from.

A recovery point is abstracted to the epoch of the data it holds, an ETag to the number of writes
of the record (`UpdatedAt` makes every write's content different). Display texts, per-step status
and durations are left out.

`Wizard` says how operators use it. TRUE is the documented procedure: one operation at a time, and
only what the /ha page offers. FALSE is everything the API accepts. `Offered` and `Faults` restrict a
run to the requests and faults it is about; `StopTimesOut` says whether the wait for the pod may
run out.

### Replay

State: `sql` and `backup` are the two ConfigMap keys; `cr` is the FlinkDeployment (desired state,
upgradeMode, initialSavepointPath and the session's annotations); `pending` is what spec changes ask
of the operator beyond that: nothing, an upgrade, or a redeploy from the path; `job` is the running
job, the SQL its pod read and where its state started from; `cur` is the operation that holds the
deployment's lock. `deployed` and `chosen` are history: the SQL deployed last and the upgradeMode
the deployment came with. It may have come without one (`NoMode`), which the operator takes for
stateless; what a replay notes of it, and what a revert makes of a missing note, is last-state
(`OrLastState`).

- replay: `StartReplay` (preflight), `BackUp`, `Rewrite`, `PatchForward`;
- revert: `StartRevert` (preflight), `TakeSavepoint`, `Restore`, `PatchRedeploy`, `ClearBackup`;
- Restart: `StartRestart`, `RestartSuspends`, `RestartWaits`, `RestartResumes`;
- `Suspend`, `Resume`, `Rollback`: one patch each.

The lock makes operations exclude one another, so one slot is enough. An operation whose context
runs out is one whose next call fails. Reads in a preflight are one step: under the lock only the
operator and deployments change what they read, and SQL is not deployed while a replay starts (see
below).

Outside `src/`: `OperatorStops`, `OperatorStarts`, `PodRestarts`, `Deploy`. The operator acts on any
change of the spec except one of the upgradeMode alone; a redeploy starts from the path, a stateless
job from nothing, any other from the state it stopped with. `Deploy` merges: keys of the ConfigMap it
does not know stay.

SQL is abstracted to what was deployed and the timestamp its source starts from (0: as deployed);
a job's state to the timestamp from which the job last started without state. One source table is
assumed; with several, an unreverted rewriting of one table may be left under that of another, and
the revert restores the whole text all the same.

`Panel` TRUE is how the panel offers a revert: in a session only. The API accepts it always, and takes
last-state for the mode to return to if there is no session's annotation (`replay_api_revert.cfg`).
`CleanDeploys` TRUE says that new SQL is deployed only when no backup is kept.

### SecretSync

State: `kv` is OpenBao, `secret` the Kubernetes Secrets, `hash` what each deployment's hash annotation
stands for; `restart` says that the operator still owes a restart; `wanted`, `replay` and `token` are
what the guard and the operator read of a deployment; `up` and `env` are its job and the Secrets its
pod read when it started; `sync` is the cycle each caller runs. `seen` is history: the deployments
that have been without a replay, and owned by this side, since the running cycle began.

- phase 1, item by item: `StartCycle` (under `runMu`), `ResolveFails`, `ReadKV`, `ApplySecret`;
- phase 2, deployment by deployment in any order (a Go map): `Inspect` (annotations), `Guard` and
  `GuardToken` (the two reads of `SafeToRestart`), `PatchRestart`, `FinishCycle`;
- `Crash`: the console restarts in mid-cycle.

Outside `src/`, or told only as far as the sync sees it: `Rotate`, `OperatorStops`, `OperatorStarts`,
`PodRestarts`, `BeginReplay`, `EndReplay`, `SetState`, `MoveToken`.

A value is abstracted to its version, and an annotated hash to the versions of the items it was
made from: equal hashes are equal contents. `restartNonce` is assumed to be new each time (`nonce_reseed`
shows when it is not). Pods are assumed to read exactly the Secrets of the items that
target them. Items may name their targets or find them by reference or in the whole namespace, in any mix,
as in `deploy/examples/secretsync.example.yaml`; the runs have an item by reference and one by name. If the
list of deployments cannot be read, the items that need it are skipped without marking anything as failed
(`ResolveFails`), and a deployment that also has others is judged by these alone; `LeftOut` are the items
that go missing that way. A fault "k8s" is a failed call to Kubernetes or to S3, which may have been applied; a
cycle that cannot log in to OpenBao changes nothing and is not told apart from none. The status
snapshot for the page is left out.

Two assumptions matter. A value never returns to an earlier one: if it does while a restart is put
off, the recorded hash matches again although a pod restart may have loaded the value in between,
and `Converges` does not hold; the hazard is listed. And groups are the declared ones: with
`ha.auto_all` the guard's list of groups may itself fail to be read.

### Nonce, TaskStore and Console

`Nonce`: `last` is the counter, `clock` the wall clock, `call` where each caller is in the loop:
`LoadLast`, `ReadClock`, `CompareAndSwap` are one step each, so that callers interleave between any two.
The clock may stand still and be set back. `NonceSpec` is the counter by itself, with `Reseed` for a
restart of the process, which is how `nonce_reseed` looks at secret sync's counter of seconds.

`TaskStore`: `tasks` and `finished` are the map and the queue of `operationStore`; `Update` is its
`update`, which notes the end of an operation once and evicts the oldest finished ones.
The HA switch's `taskStore` is the same code.

`Console`: `op` holds in each slot the goroutine (Savepoint, Restart, Replay, Revert) or the request
(Suspend, Resume, Rollback, a Promote's redeploy) that runs there, with its next step `pc`; `lock` is the
deployment's mutex; `job` is the desired state, which operation has suspended it, and the redeploy nonce;
`page` is the operation that one page polls. `log` and `boot` are history: what this process has ended,
and the first id it gave out.

- `Start` is a request; `Lock` and `Unlock` the mutex; `Report` is `failOp` or `succeedOp`. Restart reports
  and then unlocks, as Replay and Revert do when they succeed; a Savepoint, and a Replay or Revert that
  fails, unlocks before it reports.
- `Work` is all that a savepoint or a replay does remotely (`Replay` has it in detail); Restart is `Stop`,
  `WaitStopped`, `StartAgain`; Suspend and Resume `PatchState`; Rollback, the end of a Revert and Promote
  take a nonce (`TakeNonce`) and patch (`Redeploy`).
- Every call may fail, applied or not. An operation's deadline runs while it waits for the lock, so its
  first call may fail like its last; the model has no clock for it.
- `Poll` and `GiveUp` are the page's loop (`pollOperation`); one page, of any operation, is enough, as
  pages only read. `Crash` is a restart of the console.

A Release's patches are left to `HALifecycle`; of a Promote there is only the redeploy, which is what
takes a nonce. `Crash` asks that the clock has reached the counter: it counts nanoseconds, and a restart
takes longer than a clock's correction.

### HALifecycle and HAView

`HALifecycle` adds one variable to `HASwitch`, the next call of each side's Restart (`RestartStop`,
`RestartWait`, `RestartStart`), and lets Suspend and Resume wait for its lock. The HA switch does not look
at the lock. `HAView` adds operators: `PointsTo`, `Role` and `Warned` are `classifyToken` and `deriveRole`.

### SqlRewrite

A text is a sequence of atoms: CREATE TABLE with the first word behind it, WITH, quoted strings, punctuation,
the two kinds of comment, line ends, and what the code never looks at. The first word is what the code takes for
the table's name. Where it is another, `IF` of `IF NOT EXISTS t` or the database of `db.t`, an atom "name"
behind it is the name (`NameOf`); `KafkaTables` are the Kafka tables by word, `KafkaNames` by name. `Skip`,
`FindWithOpen`, `MatchParen`, `StripComments`, `Options`, `Upsert`, `Rendered` and `RewriteForReplay` follow the
functions of those names and the end of `upsertWithOptions`; the regular expressions are `FindWithBlocks` (which
tables there are) and `Options`. `Words` are the names, keys and values there are, `NoName` the empty string.
The state is the text in the ConfigMap, the deployed text, and the last request per table; `Rewrite` is a
replay, `Restore` a revert. The second half of the module is the reference, what Flink reads, written without a
look at the code: `NextMode` says where comments begin and end, `Statements` are the atoms outside them, split
at semicolons, `Meaning` is a statement's head and its options.

`WellFormed` says which texts the properties are about: those that Flink can read (`Parses`: there are a mode, in
code or in a comment, and a place, such as behind a WITH or an option's key, for every atom), in which the
option keys of a table differ, and so do the words by which the code knows the Kafka tables. Comments may stand
anywhere. One condition is the code's, not Flink's: no CREATE TABLE is commented out (`sql_commented` shows what
happens then). A comment between WITH and its parenthesis hides the table from the code, which looks past
blanks only (`sqlrewrite.go:67`): a replay that names the table is refused, one without a name falls on another
Kafka table if there is just one (`sql_overlooked.cfg`). `NothingHides` are the texts without such a comment. TLC
checks that the texts of a run are well formed (`MCTextsAssumption`).

Left out: a comment behind CREATE or TABLE (the code then sees no table), a CREATE TABLE within a quoted string
(the code takes it for a table), two Kafka tables of the same first word, such as two created IF NOT EXISTS (the first is
taken), doubled quotes, comments that touch a quote or one another, upper and lower case, indentation. The
comments of a block that is rewritten are lost, which no property is about.

## Runs

| run | expected | what it shows |
|---|---|---|
| `ha_concurrent` | pass | Releases and plain Promotes of both sides overlap freely, with S3 failures, lost answers and restarts: no epoch is won twice; the record implements `Ownership` (a Release never rolls back a take-over, a Promote consumes the release it answers and inherits its point) |
| `ha_wizard` | pass | the documented procedure under every fault: no double run, pods, token and record agree, a released record means stopped, a pod starts only on the side the record names, a take-over restores what the release it answers has left and falls back on no less than the newest checkpoint, the record implements `Ownership` from its cold start by Claim on, and a Promote that answers a release ends with a running job |
| `replay` | pass | replays and reverts among lifecycle operations and deployments under every fault: see the properties below |
| `console` | pass | three operations, two at a time, under every fault: see the properties below |
| `sql` | pass | replays and reverts of 240 texts, with comments behind WITH and IF NOT EXISTS among them: only the startup options of the table that was meant change, in the text and in what Flink reads, and, where no comment hides a table's options, a request that is unclear is refused |
| `ha_lifecycle` | violation | two jobs run after a Restart that overlaps a Release |
| `ha_half_promoted` | violation | a half-done Promote of which the view does not warn |
| `nonce_reseed` | violation | a nonce of secret sync handed out twice |
| `sql_commented` | violation | a rewrite that breaks out of a comment |
| `sync` | pass | ticker and manual cycles over two deployments that share an item, under every fault: no record runs ahead of the job, no restart without a cause, ever newer values |
| `sync_mixed` | violation | a restart without a change, for the hash of one of two items |
| `sync_interlocks` | pass | a deployment that is replayed and switched meanwhile: restarts are interlocked, and once things are calm the job ends up with OpenBao's values |

Properties of `replay`: the deployed SQL is in the SQL key or in the backup (`OriginalKept`), in the backup
while a session is active (`Revertible`); the upgradeMode is stateless in a session and outside the one the
deployment came with, or last-state if it came without one (`ModeRestored`; that a missing mode is missing again
afterwards is `UpgradeModeRestored`, which does not hold); once the operator has caught up, a job running the
session's SQL started from the session's timestamp or from a Rollback's path (`SessionReplays`); what is not cut
short completes (`ReplayTakesHold`, `RevertCompletes`, `RestartCompletes`). `ReplayInv`, and in other runs
`CASInv`, `WizardInv`, `ConsoleInv` and `SyncInv`, are inductive invariants of the proofs, checked as well;
`SessionInv`, `RecoveryInv`, `BucketInv` and `FenceInv` are proved only.

Properties of `console`: the registry has exactly the operations at work, as running, and the `MaxKeep` that
ended last, with their outcomes (`RegistryRemembers`); a page shows the outcome its operation had, and "not
found" only after a restart or when it was pushed out (`PageHonest`); nonces are strictly increasing
(`IncreasingNonces`), and no redeploy carries the nonce the operator has seen last, although a Promote patches
without the lock (`RedeploysSeen`); a Restart never starts again a job that someone else has suspended
(`RestartUndoesItsOwn`), and one that is reported as succeeded has not left it suspended (`NoSilentStop`); every
page stops polling (`PagesEnd`). A Restart that fails between its patches leaves the job suspended and says so.

Properties of `sql`: `OnlyStartupChanges` compares, statement by statement, what Flink reads of the
rewritten text with what it reads of the deployed one; `RefusesTheUnclear` says that a request falls on a Kafka
table that goes by the word it gives, that, with `NothingHides`, it is carried out exactly when there is one such
table, and that no two tables share a WITH block. `FindsTheNamed` says it of names instead of words and of
every text, as the messages and the interface do, and does not hold.
`RewriteIsLocal` is about the text itself, whatever Flink makes of it: all that is outside one pair of
parentheses behind the CREATE TABLE asked for stays, and in there the code reads, of what it wrote, the
options it had read, with the startup options set, each the last of its key.

Properties of `sync` and `sync_interlocks`: a job that is up, with no restart under way, has what is recorded
for it or newer (`Delivered`); when a restart is asked for, the content differs from what is recorded, and no
item is older or gone but those of `LeftOut` (`RestartHasCause`); the job's values are values OpenBao has had
and never get older (`ImplementsDelivery`, the refinement of `SecretDelivery`); since the cycle began the
deployment has been without a replay and this side its owner (`RestartsInterlocked`, which is what the code can
keep, since it reads before it patches; a replay or a switch that begins in between is not excluded); a job that
may be restarted ends up with OpenBao's values (`Converges`). `RestartOnlyOnChange` is what the comment at
`syncer.go:172` claims, that nothing is ever left out: with modes mixed it does not hold (`sync_mixed`). All the
others hold for any modes.

Of `ha_wizard`, `FreshRecovery`: when the record has a recovery point, a take-over restores it and it is the
last job's; when it has none, what is picked from the bucket is not older than the newest checkpoint there, nor
newer than the last job. That it is never older than what the last owner started from (`NoEarlierStart`, the
"at most a checkpoint interval" of `docs/failover-decentralized-design.md:62`) does not hold.

The violation runs each check one statement of a document or a comment that the code does not keep.
`PROJECT.json` quotes the line under "findings". None needs a clock that goes back or a use of the API
that the pages do not offer; `ha_half_promoted` and `nonce_reseed` need a restart of the console, `sync_mixed` a
list of deployments that cannot be read.

Five more configurations, not among the runs, each end in a counterexample to something that a document, a comment
or a message says and that a passing run has in the weaker form that does hold:

| configuration | module | violated |
|---|---|---|
| `ha_stale_point.cfg` | `HASwitch` | `NoEarlierStart`: an owner that has taken no checkpoint releases without a recovery point (its savepoint failed, or the answer was lost), and the peer falls back on a checkpoint of an earlier epoch, older than what that owner started from (`switch.go:361`; `docs/failover-decentralized-design.md:62`). `FreshRecovery` is what holds |
| `replay_unset_mode.cfg` | `Replay` | `UpgradeModeRestored`: a deployment without an upgradeMode has last-state after a replay and its revert (`replay.go:314`; comment at `replay.go:368`). `ModeRestored` is what holds |
| `replay_api_revert.cfg` | `Replay` | `ModeRestored`, once the API is used where the panel offers no revert: a replay is cut short after its backup, and the revert gives last-state to a deployment of another mode (`replay.go:408`) |
| `sql_names.cfg` | `MCSqlRewrite` | `FindsTheNamed`: of CREATE TABLE IF NOT EXISTS t1 the code takes IF for the name and refuses a replay of t1 (`sqlrewrite.go:31`). `RefusesTheUnclear` is what holds |
| `sql_overlooked.cfg` | `MCSqlRewrite` | `FindsTheNamed`: with a comment behind WITH one of two Kafka tables is overlooked, and a replay that names no table, which is to be refused (`sqlrewrite.go:243`), falls on the other (`sqlrewrite.go:67`) |

### What breaks under other constants

The passing runs state their assumptions as constants. Changing one of them shows what it is for; with the
named property alone in the cfg, since the inductive invariants, which contain more, break earlier:

| run | change | violated |
|---|---|---|
| `ha_wizard` | `StopTimesOut = TRUE` | `ReleasedMeansStopped`: Release publishes although its wait ran out (`switch.go:392`) |
| `ha_wizard` | add `"force"` to `Offered` | `FreshRecovery`: a forced take-over picks up the point of the switch before (`switch.go:354`), or, since the error of its read is dropped (`switch.go:280`), none although the record has one |
| `replay` | `CleanDeploys = FALSE` | `Revertible`: a backup that outlived its session is kept although new SQL was deployed (`replay.go:337`) |

What does not break is proved: with `StopTimesOut = TRUE` and with Restarts of the Jobs page in mid-switch
(`LifeSpec`), `OwnerStarts` and `ImplementsOwnership` still hold (`HAFenceProofs`), so a pod that outlives the
wait is all that can run beside the owner's job. The theorems about secret sync hold with any modes.

### Bounds and why they are enough

- Two sides: an HA group has two. One operation slot under `Wizard` (one at a time); two without,
  the least with which read-decide-write sequences interleave. Slots are reused, so a behaviour has
  more operations than slots.
- `MaxETag`: no operation starts once the record has been written 3 times in `ha_concurrent` (a switch and the
  next Release, with two operations at any point of it), 5 times in `ha_wizard` (a cold start and two
  switches, back and forth), 7 in `ha_stale_point.cfg`. A complete switch is two writes. Symmetry over sides and
  slots is used only in the run with safety properties alone.
- `Millis = {1, 2}`: two sessions with different timestamps. 
- `MaxBase = 2`: a deployment of new SQL before, between and after sessions; what a third would
  replace is in the same relation to the backup as the second. The theorems have no such bound.
- Secret sync: two items, because a content must be able to change in part; two deployments that
  share an item, or one with both where replays and switches come in; two callers; `MaxVersion = 2`,
  so that every item changes once, at any point of a cycle. The theorems have no such bound.
- Console: two slots, since one holds the lock while another waits or, being a Promote, passes it by; three
  operations, so that a slot is used again and one kept entry (`MaxKeep = 1`) pushes out another while a
  third runs; two clock values, so that the clock stands still, advances, and is set back under a
  running loop. Replays are left out: to this module a replay is a revert without its redeploy, and takes no step
  that a savepoint, a restart or a revert does not. The theorems have no such bound.
- SQL: two statements and at most one before them; every kind of comment, quote and parenthesis in the head and
  in the options, every position of the startup options, two timestamps so that a text is rewritten twice; `IF
  NOT EXISTS` and a comment behind WITH, each before every second statement. The texts are finite, the number of
  rewritings is not bounded.
- Nothing else is bounded: operations, faults, restarts and operator actions may occur any number
  of times.

Deadlock is not checked in the runs over `HASwitch`, `Replay` and `SecretSync`: once the bound is reached
and things are calm, a suspended job with no operation running is a state in which nothing has to
happen. In `console` and `sql` something can always happen (time, a revert), and the check says nothing.

### Fairness

- Weak fairness of an operation's steps: a goroutine goes on. It makes one remote call after the
  other with a timeout on each; nothing waits for a user.
- Weak fairness of the operator: it reconciles periodically.
- Weak fairness of the ticker's cycles, which start every interval, and of a cycle's steps, each
  a call with a timeout.
- `Console`: weak fairness of each operation's steps, of the page's poll (a timer of two seconds) and of `Lock`.
  Go's mutex promises more: it hands itself to the waiter at the head of its queue once that has waited for a
  millisecond. With finitely many operations asked for, each of which ends, weak fairness is enough; with requests
  that never cease it is the queue that lets every one have its turn.
- None for users, faults or restarts. Liveness is stated from `calm` on, a point after which no
  fault occurs and no request is made: no retry by a user or by chance is counted on. `calm` covers
  the deadline of an operation's context as well.

## Proofs

Assumptions are those of the modules (`SideAssumption`, `HAAssumption`, `ReplayAssumption`,
`SyncAssumption`, `NonceAssumption`, `MaxKeepAssumption`, `ConsoleAssumption`, `SqlAssumption`) and those a theorem names;
TLC evaluates the former in every run.

| theorem | statement | argument |
|---|---|---|
| `HASwitchProofs!TypeCorrect` | `Spec => []TypeOK` | action by action |
| `HASwitchProofs!ClaimsAreUnique` | unless Claim is offered, `Spec => []UniqueClaim` | `CASInv` |
| `HASwitchProofs!RecordIsRegister` | unless Claim is offered, `Spec => Register!Spec` | `CASInv`; each step is a step-down, a take-over or a stutter |
| `HASwitchProofs!OperationsAreBounded` | every step of an operation lowers `CallsLeft`, which is at most `2 * Attempts + 4` | each action against the rank |
| `HAWizardProofs!DocumentedSwitchIsSafe` | with `Wizard`, nothing forced, no timeout of the wait: `NoDoubleRun`, `RunnerOwns`, `ReleasedMeansStopped` | `WizardInv` |
| `HAWizardProofs!RecoveryIsFresh` | under the same assumptions, `Spec => FreshRecovery` | `RecoveryInv` and `BucketInv`, with `WizardInv` |
| `HAFenceProofs!LifeTypeCorrect` | `LifeSpec => []TypeOK` | the steps of `LifeNext` are those of `Next` or leave the switch alone |
| `HAFenceProofs!LifeClaimsAreUnique`, `!LifeRecordIsRegister` | without Claim, or with `Documented` requests: `LifeSpec` implies `UniqueClaim` and `Register!Spec` | `CASInv`; for a Claim, `FenceInv` |
| `HAFenceProofs!DocumentedRecordIsRegister` | with `Documented` requests, `Spec` implies `UniqueClaim` and `Register!Spec`, a cold start by Claim included | the same |
| `HAFenceProofs!FenceHolds` | with `Documented` requests, `LifeSpec => []FenceInv` | action by action |
| `HAFenceProofs!OnlyTheOwnerStarts` | with `Documented` requests, `LifeSpec => OwnerStarts` | `FenceInv` |
| `ReplayProofs!TypeCorrect` | `Spec => []TypeOK` | action by action |
| `ReplayProofs!OriginalIsKept` | with `CleanDeploys`, `Spec => [](OriginalKept /\ Revertible)` | `ReplayInv` |
| `ReplayProofs!ModeIsRestored` | with `Panel`, `Spec => []ModeRestored`, which lets last-state stand for a missing mode | `ModeInv` |
| `ReplayProofs!SessionsReplay` | with `Panel`, `Spec => []SessionReplays` | `SessionInv`, which is `ModeInv` and `TimestampInv` |
| `SecretSyncProofs!TypeCorrect` | `Spec => []TypeOK` | action by action |
| `SecretSyncProofs!Inductive` | `Spec => []SyncInv` | action by action |
| `SecretSyncProofs!RecordsAreHonest` | `Spec => []Delivered` | `SyncInv` |
| `SecretSyncProofs!RestartsNeverGoBack` | `Spec`: a restart is for another content, no item of which is older | `SyncInv` |
| `SecretSyncProofs!RestartsHaveCause` | `Spec => []RestartHasCause` | `SyncInv` |
| `SecretSyncProofs!SyncImplementsDelivery` | `Spec => Delivery!Spec` | `SyncInv`; a pod's start delivers, a rotation rotates, all else stutters |
| `SecretSyncProofs!RestartsAreInterlocked` | `Spec => []RestartsInterlocked` | `InterlockInv` |
| `SecretSyncProofs!CyclesAreBounded` | with finitely many deployments: every step of a cycle lowers `StepsLeft`; once it has come to the restarts, what it would record is settled and whoever was asked to restart is not asked again | each action against the rank |
| `ConsoleProofs!TypeCorrect` | `Spec => []TypeOK` | action by action |
| `ConsoleProofs!ConsoleInvAlways` | `Spec => []ConsoleInv` | action by action, part by part |
| `ConsoleProofs!NoncesIncrease`, `!RedeploysAreSeen` | the two action properties of nonces | `NonceInv` |
| `ConsoleProofs!RestartKeepsToItsOwn` | `Spec => RestartUndoesItsOwn` | `LockInv` |
| `ConsoleProofs!NoRestartStopsSilently` | `Spec => []NoSilentStop` | `IdInv` |
| `ConsoleProofs!RegistryIsBounded` | `Spec => []RegistryRemembers` | `StoreInv` |
| `ConsoleProofs!PagesAreHonest` | `Spec => PageHonest` | `PageInv`, `StoreInv` |
| `SqlRewriteProofs!TypeCorrect` | `Spec => []TypeOK` | each function of the rewrite returns texts or options |
| `SqlRewriteProofs!RewritesAreLocal` | `Spec => []RewriteIsLocal` | of any text: where blocks lie, what a rendered block reads as, what an upsert leaves |
| `SqlReadingProofs!OnlyStartupsChange` | if the deployed texts are well formed, `Spec => []OnlyStartupChanges` | `Inv`: the text is read as the requests want |
| `SqlReadingProofs!UnclearIsRefused` | under the same assumption, `Spec => []RefusesTheUnclear` | `Inv`, and that the code's Kafka blocks are the deployed Kafka tables |
| `SqlReadingProofs!TextsStayReadable` | under the same assumption, the text stays readable; the Kafka blocks the code finds are different deployed Kafka tables, with `NothingHides` all of them | the same |
| `SqlRewriteProofs!LastRequestWins` | a rewritten block is found again at the same CREATE TABLE, and rewriting it for a second request makes of the text what that request alone would have made | the two texts agree up to the parenthesis, nothing in a rendered block opens, closes or hides one; an upsert overwrites one of its key, and those of keys that are there commute |

Why the invariants are as they are:

- `CASInv`. `UniqueClaim` is not inductive: a step must know that a winning conditional write decided
  on the record it replaces. `PendingIsCurrent` says so of every operation about to write, by its
  ETag; `PendingIsGated` that a plain Promote decided on a released record and on its point;
  `ClaimsAreBelow` that won epochs are not above the record's, so the next is new.
- `WizardInv`. With one operation at a time, what an operation has established holds at its next
  step; `OperationHolds` lists it per step (at `neutral` the local pod is gone, at `token` the record
  names this side, and so on). `TokenMatchesRecord` ties the two S3 objects together between
  operations.
- `ReplayInv`. It says for each step what is where: from the rewriting on, the backup is the
  deployed SQL; in a revert the SQL to restore is; from the redeploy on, it is restored; at the
  last step the session is over, so the backup may go. It holds without regard to which calls
  failed, since every failure ends in the idle state whose conjuncts it implies.
- `ModeInv`. A session notes the mode the deployment came with, or last-state for none; replay begins without
  a session, with that mode in hand; a revert has one, with the noted mode in hand.
- `FenceInv`. What is left of `WizardInv` when a pod may outlive the wait and anyone may start the job: nothing
  about pods and desired states. `TokenMatchesRecord`, a released record with a neutral token, one operation
  at a time, and `OperationFenced`: what an operation has read or written still holds at its next step.
  `Documented` is `Wizard` with nothing forced. The page offers a Claim while there is no record,
  and only its being alone keeps another operation from writing between its read and its write.
- `CallsLeft` and `StepsLeft` are the numbers of steps an operation of the switch and a sync cycle have left
  at most. Liveness itself, which takes fairness, stays with TLC; what the proofs say is that no loop of
  retries and no order of items and deployments goes on for ever.
- `RecoveryInv`. Between a Release's savepoint and its neutral token the pod may die and come back. The
  job that comes back is of the record's epoch, since a promotion is won only while nobody runs; so the
  point in hand is still the last job's. From the neutral token on no pod starts, and a released record
  keeps its point until a Promote consumes it. What an operation is about to write continues the record's
  epoch. `BucketInv`: points in the bucket are not newer than the last job, nor that job than the record;
  it bounds what a take-over falls back on.
- `TimestampInv`. `SessionReplays` is about the SQL a job has read, but a pod that restarts reads the SQL
  again. So the invariant says the same of a job that would read the session's SQL now, and that
  what a revert restores is no session's SQL: the backup, if there is one, starts from no timestamp, and
  without one the SQL does not.
- `SyncInv`. `Ordered`: values are copied from OpenBao to the Secret and from there to pods and records, and so
  get older along that way. For that a cycle must hold no value older than the Secret's when it writes one
  (`CycleOrdered`), which needs that cycles exclude each other (`OneCycle`). `RestartHasCause` further needs
  that a deployment left for a restart has all of its content merged but for `LeftOut` (the last part of
  `Whole`). `Covered` is why: an item that is done is merged, has marked its targets as failed, or could not be
  resolved. In the last case nothing that needs the list is merged either, and the deployment is left for a
  restart only if it has an item that does not. No conjunct mentions `restart` but `Delivered`: a record and the
  request for a restart are written by one patch.
- `InterlockInv`. While a cycle runs, `seen` contains what holds now, and what the cycle has checked
  of the deployment at hand is in `seen`; only a group's token moves.
- `ConsoleInv`. `NonceInv`: a nonce is beyond the counter it was made from until the compare-and-swap
  succeeds, and then neither the job's nor another caller's. `LockInv`: who is past `Lock` and before
  `Unlock` holds the lock, so between a Restart's patches the job's suspension is its own. `IdInv`: ids are
  used once, and only a suspension that stands, or whose failure is about to be told, bears the name of an
  operation at work. `StoreInv`: the queue is the end of the log, which `RegistryRemembers` alone does not
  say. `PageInv`: what a page of this process polls is at work or has ended.

The proofs of `SqlRewriteProofs` need no invariant beyond `TypeOK`, for they are about every text, but induction
over positions. The library's induction theorems take an operator as a parameter, which none of the
provers can instantiate. `LeastNumber` therefore derives from the well-foundedness of inclusion
among finite sets that a set of numbers has a least one, `Downward` that what carries over from all later
positions to each one holds of all, and `Recursion` that a function may be defined that way (a recursive
definition in TLA+ is a CHOOSE, and that something is there to choose is what has to be shown). `Finds`,
`Matches`, `Strips` and `Pairs` unfold the four scanners; `FindsOpen` and `FindsClose` say where a block
ends, `ReadsRendered` that a block written from options reads as these options, and `FindsAgain` and
`ClosesAt` that the scanner comes to the same block in a rewritten text: each quote, comment and blank that
ended before the parenthesis ends there still (`SameSkip`, `SameBlanks`), and between the parentheses there
is nothing that opens, closes or hides one. `BlockFoundAgain` puts these together; with `LastUpsertsWin` it
gives `LastRequestWins`. That theorem is about a block, not about the choice among several of the same name,
which `RefusesTheUnclear` has.

The proofs of `SqlReadingProofs` relate the two halves of the module. They go along a *path* through the text,
the mode and the place of each atom that `Parses` speaks of (`Path`), and along what is read from each position
on (`Along`). `FindsColumnsEnd`, `WithOpens` and `ClosesBody` say that the code's scanners, which know neither,
stop where the path does: at the WITH or semicolon behind a table's columns, at its parenthesis, at the
parenthesis that closes its options; where a comment stands before the parenthesis, they find no block
(`FindsNothing`). `BlockMeans` says that the pairs the code finds in a block, without its comments, are the
options that Flink reads, and `BlockDescribed` and `TableHasBlock` that every block is a table's and, with
`NothingHides`, every table with options has one; rewriting keeps to that (`WrittenHidesNothing`).
`BlockWritten` leads the path through a rendered block and on behind it as before, so the new text is readable
again (`ParsedAgain`) and reads as the old one but for that table's options (`OtherOptions`). `ReplayedIs` says
that three upserts make of a list of options what the reference calls `Replayed`, and by `LastUpsertsWin` it
does not matter that the list is what earlier requests have left. The inductive invariant `Inv` is then short:
`TypeOK`, the text is readable, and each table is read as the last request for it wants (`Replays`).
`OnlyStartupChanges` alone would not do: that the text can be read at all, by Flink and by the code, is what the
next rewrite starts from. The assumption is about the deployed texts only; that rewritten texts satisfy it is
part of what is proved.

Model-checked only: liveness (`Switchover`, `ReplayTakesHold`, `RevertCompletes`, `RestartCompletes`,
`Converges`, `PagesEnd`), which is out of this prover's reach. Every safety property of the passing runs is
proved.

## Plan

1. Done: HA switch, replay and lifecycle, secret sync, with their theorems and two refinements; the
   console's operations, registry and nonces, with their theorems; the switch among lifecycle
   operations; the SQL rewrite.
2. Done: every safety property of the passing runs as a theorem.
3. Left for later: the automatic groups of the guard (`ha.auto_all`, `internal/failover/service.go:237`);
   values that go back to earlier ones in secret sync.
4. Stateless parts with TLC only, if they come to matter to an operation: status and health classes,
   recovery-point order, configuration defaults.

## Not modelled

Real time (timeouts are choices), wording, layout and JSON; the S3 and Kubernetes clients' own
retries except where they change an outcome; authentication; metrics, logs and the log-based replay
verdict (a display that decides nothing); the mounted ConfigMap's propagation delay (a pod that
starts right after a write may still see the old SQL for some seconds; the kubelet is outside
`src/`); Flink's own failures (a job that cannot start, a corrupt savepoint). Status and health classes,
recovery-point order and configuration defaults are stateless functions that one table of cases tests
fully; the models have what operations take from them.
