# Vozka in TLA+

Vozka is a deploy control plane on Cloudflare: a push, a poll or a button creates a *run*; a queue
consumer takes a per-target lock, hands the run to a container, and whoever survives writes down how
it ended. Around this path stand the registry and its API, the secret vault, the deploy engine that the
containers and the platform's own workflow execute, and the wizard that brings a platform up. This
directory is its verification project: TLA+ modules of the parts, TLC configurations that check them
on small instances, and TLAPS proofs that hold for every instance. Paths below are relative to
`src/packages/`.

Run it from this directory: `tlc -config LifecycleFaults.cfg RunLifecycleMC`, `tlapm RunLifecycleProofs.tla`.
`PROJECT.json` lists every run, its properties, the mutation that each property catches, the source
lines behind every definition, the known divergences and the hazards the properties answer.

## Inventory

| Component | State it keeps | Operations | What is hard | What makes it correct |
|---|---|---|---|---|
| Deploy lock (`worker/src/DeployLock.ts`) | one lease per `<app>:<env>`: holder, expiry | `acquire`, `release` | lapses by time; non-reentrant; holders die | nobody deploys to a target on another's lease |
| Run lifecycle (`worker/src/run-lifecycle.ts`, `index.ts`) | an invocation: its message, where it is, how long it has run | `executeDeploy`, `queue`, `scheduled` | every await can be the last; duplicate and redelivered messages; contention | a run is started at most once and always settled |
| Runs table (`worker/src/db.ts`, `runner/src/finish-run.ts`) | one row per run: status, exit code, stamps | `createRun`, `markRunStarted`, `markRunFinished`/`finishRun`, `sweepStaleRuns`, cascade | four concurrent writers; ageing | the first settlement stays, and is true |
| vozka-runner (`runner/src/worker.ts`, `RunnerContainer.ts`) | the container and its scheduled backstop | `startRun`, `armBackstop`, `backstopCheck` | survives its caller on purpose; unreachable containers; its own failures | an armed backstop settles the run |
| Log relay (`runner/src/relay.ts`), tail (`worker/src/api/runs.ts`, `dashboard/src/components/LogView.tsx`) | accumulated log, R2 objects; cursor and screen | `relayRun`, `tailRunLog`, `LogView` | un-awaited puts, a stream that breaks, the backstop's rewrite, a reader that races the end | the stored log is the run's log, and the screen shows all of it once |
| Container server, engine (`runner/src/server.ts`, `runner.ts`) | the one run, its log buffer, subscribers | `/run`, `/logs`, `/status`, clone, install, deploy | bounded buffer, spawn failures | one run at a time; a terminal status is final |
| Webhook, manual trigger (`worker/src/webhook.ts`, `api/runs.ts`, `ref-match.ts`) | none | verify, match refs, create and send | several runs per push, failure in the middle, a registry that changes meanwhile, deferred runs that overtake each other | everyone who subscribed is triggered, and the last push wins |
| Poller (`worker/src/repo-poll.ts`) | ETag, cursor, last error per environment | `pollPublicRepos` | 304s, changed trigger refs, crash between row, message and cursor | every new head is deployed, none is missed |
| Registry API (`worker/src/api/registry.ts`, `db.ts`) | apps, app_envs, secrets' refs, vars | CRUD, `registerApp` | overlapping requests, cascades, a failure between two writes | rows refer to what exists, answers are true |
| Router, ACL (`worker/src/api/router.ts`, `iam.ts`) | per request | authenticate, `can` | eleven operations with their own action and scope | what stands in the registry was written by who may |
| Vault (`worker/src/vault.ts`, `api/vault.ts`, `secret-resolver.ts`) | encrypted values by id | set, rotate, delete, `reencryptAll`, resolve | concurrent set/rotate, refs read before use, an interrupted re-encryption | a ref resolves to the last value set |
| Deploy engine (`core/src/deploy.ts`, `plan.ts`, `cli.ts`) | the plan's steps; Cloudflare's state of a component | `buildPlan`, `deploy`, `platform deploy` | stops halfway, dry runs, a laptop's deploy beside the workflow's | schema before worker, nothing after a failure, a success is a success |
| `vozka init` (`cli/src/init.ts`, ...) | `.env`, the checkout, GitHub's repository and Environment | a resumable wizard | a crash between an external creation and its record | re-running neither creates twice nor mixes what it has |
| Dashboard (`dashboard/src`) | the page of runs: filter, cursor, list | load, filter, load more, reset | pages that are loaded while runs come and go | no run twice, none left out |
| Bring-up scripts (`scripts/`) | - | - | - | not modelled |

How they meet: producers (webhook, poller, button) insert a `pending` row, then send a message with
its id. The consumer reads the row, asks the lock (a Durable Object), moves the row to `running`,
assembles the job from registry and vault, and calls `RUNNER_SVC.startRun`, which boots the
container, arms the backstop, posts the job and tails it to the end. Both sides then write the
terminal row with the same guarded UPDATE. The backstop (an alarm of the container's Durable Object)
and the cron sweep write it too if nobody else did. Everything shared is in D1, the lock object, R2
and the queue; nothing is in memory across invocations.

## Modules

| Module | Models | State |
|---|---|---|
| `RunTypes` | vocabulary: runs, targets `(app, env)`, the three ways a deploy can end | - |
| `RunStatus` | abstract specification of a row: created, started, settled once with its exit code, removed | `status`, `exit` |
| `DeployPromise` | abstract specification of a deploy: its row follows `RunStatus`; its work happens once, begins while the row is running, and the row is settled with what the work ended with or as failed without an exit code | `status`, `exit`, `work`, `ended` |
| `DeployLock` | `DeployLock.ts` | `holder`, `left` (time to `expiresAt`) |
| `RunsTable` | the SQL statements of `db.ts` on `runs`, one operator each | `status`, `exit`, `age` (of `COALESCE(started_at, created_at)`) |
| `RunnerContainer` | container, in-container run and backstop | `cont`, `result`, `life`, `phase`, `deadline`, `verdict` |
| `RunLifecycle` | composes the above with the queue, the invocations, producers, the cron, the registry and time | `queue`, `unsent`, `pc`, `job`, `tries`, `held`, `out`, `faults`, `apps`, `registered`, `abandoned` |
| `RunLifecycleMC` | instances for TLC, symmetry, and the platform that is never slow | - |
| `RunLifecycleProofs` | every safety property of the lifecycle, `RunLifecycle` implements `RunStatus` and `DeployPromise`, open runs near their settlement (TLAPS) | - |
| `RunLog` | one run's log: `runner.ts`'s buffer and states, `server.ts`'s replay, `relay.ts`, the backstop's flush, R2, `tailRunLog` and `LogView` | `state`, `stuck`, `printed`, `oldest`; `relay`, `first`, `last`, `outcome`, `flying`; `object`; `row`, `by`; `backstop`, `held`, `seen`; `viewer`, `cursor`, `shown`, `done` |
| `RunLogProofs` | `LogInv`, `ShownInOrder`, `StoppedShowsAll` (TLAPS) | - |
| `Triggers` | `webhook.ts`, `ref-match.ts`, `triggerDeploy`, the queue's deferrals, the clone that decides the commit, and the registry calls that change who subscribes | `apps`, `trigger`; `head`, `pushed`; per delivery `pc`, `todo`, `hook`; `runs`, `unsent`, `queue`; `work`, `deployed`; history `steady` |
| `TriggersMC`, `TriggersProofs` | an instance; `TriggersInv`, `BranchNeverGoesBack`, what `PushesArrive` rests on (TLAPS) | - |
| `RepoPoll` | `repo-poll.ts` await by await under `scheduled()`, the feeds, and the registry calls that change what is polled | `poll`, `sub`, `apps`, `content`; per cron invocation `pc`, `todo`, `item`, `prior`, `new`; history `sent` |
| `RepoPollMC`, `RepoPollProofs` | an instance; type correctness, `HeadsAreSent`, what `EveryHeadTriggers` and `SweepRecurs` rest on (TLAPS) | - |
| `ApiServer` | `router.ts`, `iam.ts`'s `can`, the handlers of `registry.ts` and `runs.ts`, the tables with their foreign keys, and the dashboard's page of runs | `app`, `row`, `runs`, `minted`; per request `req`, `pc`, `id`; the page's `form`, `applied`, `shown`, `cursor`, `opened`; history `by`, `made`, `since` |
| `ApiServerMC`, `ApiProofs` | an instance; `ApiInv`, `AppKeepsIdentity`, `RowsAreGranted`, `PagesCoverHistory` (TLAPS) | - |
| `SecretSlots` | abstract specification: what a secret resolves to changes only as the whole effect of a request | `value`, `open`, `drops` |
| `Vault` | `api/vault.ts`, `vault.ts`, `secret-resolver.ts` and the secret loop of `assembleJob`; implements `SecretSlots` | `row` (app_secrets), `entry` (vault), `key`; per request `pc`, `req`, `ref`; `job`, `master`; history `acked` |
| `VaultMC`, `VaultProofs` | instances; refs, values, jobs, master-key rotation, what opens without `Maintenance`, `Vault` implements `SecretSlots` (TLAPS) | - |
| `DeployEngine` | `buildPlan`, `deploy`'s loop, `platform deploy`'s stages, and a deploy of the control plane beside them | `cloud` (resources, schemas, worker, authz vocabulary, secrets per component), `job`, `chain`, `others`, `faults` |
| `DeployEngineMC`, `EngineProofs` | the base as its configs declare it; `EngineInv`, `SucceededIsDeployed`, what `BaseComesUp` rests on (TLAPS) | - |
| `InitWizard` | `vozka init`: prompts, keys, GitHub App, repository, Environment, and the workflow that reads it | `run`, `pc`, `client`, `id`, `at`; `env`; `apps`; `repo`, `local`; `conf`, `due`, `base`; `cli` |
| `WizardProofs` | `WizardInv`, `BaseIsWhole`, `KeysAreDurable`, what `Finishes` rests on (TLAPS) | - |

`RunsTable`, `DeployLock` and the first half of `RunnerContainer` define operations; `RunLifecycle`
turns each await of `executeDeploy` and `startRun` into an action that calls them. `pc[c]` is the
await an invocation is at:

```
idle -> read -> acquire -> start -> load -> boot -> arm -> post -> tail -> rfinish -> record
          |        |          \________________\_______\______\______\_______\______ fail
         ack    requeue -> ack                                        release | rerelease -> ack | idle
```

`boot` to `rfinish` are the awaits inside the RPC; `fail` is the `catch`, `release` the `finally`
(`rerelease` when the `catch` itself throws, after which the message is retried). An invocation can
die at any of them (`Dies`): no catch, no finally, the RPC and the relay with it.

Abstractions. Job contents, logs and refs are data the lifecycle never branches on and are left out;
`LoadJob` may succeed or throw. Exit codes are `zero`, `nonzero` or `none` (SQL NULL). Timers are
countdowns and ages that one `Tick` moves together; `Tick` waits only for what the platform itself
enforces (an invocation at its limit, a container at its hard kill). The requeue and retry delays are
left out: a message may be taken at any time. A container that is stopped stays unreachable for
`/status`; if the platform's library starts an empty one in its place, `/status` is a 404 whose body
decides like an unreachable container.

The other modules are specifications of their own; each takes what it needs of its neighbours in the
form their modules show it: `RepoPoll`, `Triggers` and `ApiServer` meet the lifecycle in a run
they create and send, `Vault` in a job it makes fail (`LoadJob`'s throw), `RunLog` in `startRun`'s
inside, `DeployEngine` in the `vozka deploy` a container executes.

*Log.* A line is its number, a text a sequence of consecutive ones, so losing, repeating and reordering
lines are visible. `flying` holds the puts nobody awaits; they land in any order or not at all.
`disturbed` remembers that the object stopped being extended, in one of three ways (below). The log of a
container that was started anew is its 404 (`Refusal`). `stuck` is a `run()` that has
thrown. `MaxBuffer` and `Dropped` stand for `MAX_BUFFER_LINES` and its tenth.

*Triggers.* A push's number is its commit. Of the lifecycle only what orders deploys is kept: one at a
time per target (`Locked`), a locked target's message goes round the queue, and a clone takes what the
ref points at by then. `steady` is the history the promise is about: who has subscribed without a
break since the delivery arrived. Verifying the signature and decoding come before `Receive`, whose
only input is a push that GitHub has delivered. Clones whose ref is not a branch or tag are covered by an
error (`Clone`).

*Poller.* A `Ref` stands for repository URL and trigger ref together, so changing either is
`PutAppEnv`. A feed is the list GitHub serves and its ETag is that list at that URL. A branch feed
lists at most its newest commit, a tags feed all tags. The batch's `ORDER BY` is left out (a set of
environments, polled in any order), as are `last_error`, `last_polled_at` and private apps, which are
never polled; an app that is switched from public to private is not modelled. Nothing in the code
or the platform's cron keeps one invocation from overlapping the next, so `Batch` may have several. `under`, a
history field of a row, is the ref whose pattern was applied to the list its ETag stands for; nothing branches on it.

*API.* An app has one environment, one secret and one var: nested rows of one kind share their
handler, and layers are `Vault`'s. A row's content is the request that wrote it. Ids are numbers in the
order they are drawn, as uuidv7 is; drawing (`CheckEnv`) and inserting (`CreateRun`) are two steps, so
rows may be inserted out of order. Grants are on an app or on everything; the environment
dimension of a scope is left out (only `GET /runs?env=` asks for it, which reads), and so is how a principal is
authenticated.

*Vault.* A request stands for everything fresh about it: the value it writes, the data key, the id
of the entry it inserts. Encryption is what it has to do: an entry opens under a master key if its
wrap is under that key and holds the data key its value was sealed with. Refs kept elsewhere
(`secretstore:`, `env:`, `literal:`) are one value, `Foreign`, which always resolves. The registry's
`PUT .../secrets` is modelled for `Foreign` refs only: pointing a second row at a copied `vault:<id>`
would make two secrets share one entry, which the API does not refuse and this model does not cover.
`Load` and `Update` are `rotate()`'s SELECT and UPDATE; when the entry goes between them the UPDATE
changes nothing and the request is still answered `ok` (as if it had come just before). A request's master key is
the binding's when it came (`req[q].key`), a job's when it began.

*Engine.* What a command does to the cloud is the version it leaves behind; migrations only add, so a
schema's version is the highest one applied. `Commands` gives a step's commands from the config (a
database to migrate, a secret to put) and from whether the environment has `PROPUSTKA_URL` (`url`); a step that does
not apply has none. `adopts` are databases that a worker binds and another component migrates: vozka-runner writes the
control plane's. `alone` records that no other deploy of the component overlapped or followed.

*Wizard.* A value stands for the run of the wizard that typed, generated or created it, so "the same key as before"
is equality. Two prompts are open choices (the client id, the hidden OIDC secret), the others are answered. `gh` and
`git` are what they leave behind: `repo` the templates pushed, `local` the checkout. `WorkflowRuns` reads the
Environment at any moment after it was triggered. `Save` is one step, where `persistEnv` reads `.env` and writes it
anew: that a process killed inside that write leaves a file cut short is not modelled.

The M2 route `POST /api/runs` (a job straight into `startRun`, no row and no lock) is not part of
the model: exclusion is claimed for runs that come through the queue.

## Bounds

*Lifecycle.* One target, one or two runs, one or two overlapping invocations. Two runs and two
invocations are what it takes to contend for a lock, to defer and to overtake; runs of different targets
share nothing but the queue. The disturbances are budgeted (`Budget`): each run of TLC says how many
failed RPCs, failed store calls, deaths, duplicate deliveries, dead producers and removals it allows. The
budgets are per kind, so a single counter-example may combine all kinds. Timers keep the order of the
real ones and are as short as the order allows: `MaxInvocation` = 1 (15 min), `HardKill` = 1 (15 min),
`BackstopMax` = 2 (18 min), `StaleAge` = 2 and `LockTTL` = 2 (30 min each). So limit and hard kill add up to exactly
the TTL, as deployed. (`lost_call` has a TTL of 3, so that its overlap is not one at the hard kill.)

*Log.* Five lines into a buffer of three, one dropped at a time: the relay can be opened before and after
lines are dropped, and the backstop's text can start later than the relay's. One interval put in flight
beside the final one is what it takes for an overtaken put.

*Triggers.* Two apps (registered from the start or later) with one environment each, a branch, a tag and a tag
pattern, two pushes, two runs and one disturbance of any kind (registry change, manual trigger, deletion of a ref,
lost delivery, failing call, failing deploy, sweep): two runs of one target that overtake each other, or two targets
of one push with a failure between them. `MaxRun` = 2 cuts off a third run; behaviours with more are proved
(`TriggersProofs`), not checked.

*Poller.* One environment and two overlapping invocations (what one of them may overwrite is what another stored;
environments share nothing but the batch and the uniqueness of refs), a branch, two tag patterns on one feed and a
ref that cannot be polled, two commits or tags (a head and a newer one), one fault (a fetch, a store or queue call,
an invocation), two pushes, two registry changes.

*API.* Two apps, four users (a bootstrap admin, an app's owner, its secrets' keeper, an operator), two
overlapping requests, any operation on any app; one may fail at any step. Three runs from before and one
to come, pages of two: a list has two pages, of which the first is full.

*Vault.* The two layers of one secret name and three requests, which is what it takes for one to read, one
to replace and one to delete, and to tell a superseded value from a current one; one death, one registry
change, two attempts at the master key.

*Engine.* The base of three components as it is declared, two versions, one deploy of the control plane beside the
workflow (dry or not, without a secret, without `PROPUSTKA_URL`), one command that fails: enough for an old worker
on a new schema, a newer version overtaken by an older one, and a rerun after a failure.

*Wizard.* Four runs, two of them ended early, two releases of the CLI: created by one run, resumed by the
next, changed by a third.

Requests and invocations are interchangeable, which the symmetry of the safety runs uses; liveness runs
use none. Runs `logs`, `engine`, `init`, `triggers` and `api` do not check for deadlock, as their systems do
come to rest (a run is over, the versions and requests are used up); all others do, and there is none.

## What the runs check

| Run | Instance | Shows |
|---|---|---|
| `exclusion` | 2 runs, 2 invocations, a failed RPC and a death | `ExclusiveDeploy`: two containers work on one target only if one of them was given up by its caller or is at its hard kill. `LeaseCoversDeploy`: a deploy that was not given up is under a live lease of its own run until its container is as old as TTL minus invocation limit, even after its invocation died. `SweepSparesLiveDeploys`: the sweep never fails a run whose container works. `OnlyFailuresDropRuns`: a pending run is given up by the queue only on a failure of the last retry (a call or the `catch` block throws, or it dies), never for having waited (there are no retries here, so one that waiting used up would show at once). |
| `faults` | 1 run, 2 invocations, a failed store call, a death, a duplicate, a retry | `RecordedOutcomeIsReal`: a `succeeded` row or an exit code is what the container really ended with. `PromiseKept`: `RunLifecycle` implements `DeployPromise`, and with it `RunStatus` (`status` and `exit` are themselves, `work` is the container's `none` until it has accepted the run, `ended` its result once it is over). `AtMostOneExecution`: no container is booted or given the run twice. `NoDeployOfSettledRun`: no deploy begins for a run that is failed already. `TypeOK`. |
| `settles` | 1 run, 1 invocation, every disturbance | `EveryRunSettles` under `CronSpec`. |
| `lost_call` | 2 runs, 2 invocations, 1 failed RPC, `PromptSpec` | refutes `MutualExclusion` (below) |
| `logs` | 5 lines, a buffer of 3, a relay, engine and container that may stop anywhere, the backstop, a dashboard | `LogInv`: when the relay has returned, R2 has every line from the first it was replayed to the last one printed, unless the object was disturbed. `ShownInOrder`: the screen has no line twice and skips none. `StoppedShowsAll`: a tail that ends because the relay recorded the run has shown the last line. `Recorded`: every run gets a terminal row. |
| `triggers` | 2 apps, 2 pushes, one disturbance | `TriggersInv`: a delivery answered with 200 has triggered every environment that had subscribed throughout, and no clone is newer than its ref. `BranchNeverGoesBack`: a target never goes back on its branch, however its runs were deferred and reordered. `PushesArrive`: an answered push is deployed, or a later one, or its run failed. |
| `poll` | 1 environment, 2 overlapping invocations, every disturbance, `CronSpec` | `HeadsAreSent`: no cursor is stored before its head is in the queue, and no ETag that would earn a 304 before the head of the feed, by the pattern of its time, is. `EveryHeadTriggers`: a head that stays is sent, unless `Hidden`: a changed pattern meets an unchanged feed. `PollingQuietens`: when everything rests, so do the deploys. `SweepRecurs`: the sweep after the poll is reached again and again. `TypeOK`. |
| `api` | 2 apps, 4 users, 2 overlapping requests, a page of runs | `ApiInv`: no row outlives its app whichever requests overlap, a success has changed the registry and a 4xx has not. `AppKeepsIdentity`: of two overlapping creations one wins. `RowsAreGranted`: whatever stands was written by who may. `PagesCoverHistory`: a list that was loaded to its end has every run of when it was begun, and none twice. |
| `vault` | 3 requests on 2 layers, a death, a registry change, jobs | `SlotsChangeByRequest`: `Vault` implements `SecretSlots` with `value` = what each row resolves to and `open` = the requests under way. `NoValueReturns`: what a request has replaced never comes back. `RefsResolve`: a row's vault ref dangles only if its value was deleted. `JobSecretsSound`: an assembled job lacks no secret and has no superseded one. `TypeOK`. |
| `vault_master` | 3 requests, 2 attempts, an interruption | `EveryEntryOpens` and `SwapCompletes` when the API rests during the rotation. An interrupted attempt cannot be resumed: the next one stops at the first row that is under the new key already (`RewrapFails`), so the swap may never be reached, but no value is lost. |
| `engine` | 3 components, 2 versions, a deploy of the control plane beside the workflow, a failing command | `EngineInv`: no worker is live on a schema of its own that is older than it was written for; the runner, on the control plane's, from the workflow's migrations until it starts over (`AdoptersFollow`); the control plane follows what it stands on, and what a deploy has run lasts. `SucceededIsDeployed`: a deploy that reports success has left its version with everything that its plan deploys, the vocabulary only with a `PROPUSTKA_URL`, unless another one of the component overlapped or followed. `BaseComesUp`: re-running the workflow brings up the base. |
| `init` | 4 runs of the wizard, 2 failures, 2 releases | `WizardInv`: `.env`, the Environment and what was deployed fit together wherever a run ends. `KeysAreDurable`: a deployed control plane keeps its keys, account and GitHub App. `BaseIsWhole`: it is deployed with all of its keys, or not at all. `Finishes`: running it again finishes, unless the checkout is stranded (below). |

**Fairness.** It is assumed of what a platform or an operator does by itself, and of nothing the code has
to do on its own account after it has stopped.

- `RunLifecycle`, `CronSpec`: weak fairness of the clock, the end of an invocation at its limit, the hard
  kill and the cron. Consumers, producers, relays and containers may stop anywhere and for ever. `PromptSpec`,
  for `lost_call`, is the system on a platform that is never slow: time passes only while every
  invocation tails a container and no message waits for anything but a lock or a free invocation. A
  counterexample under it needs no unlucky delays.
- `RunLog`: weak fairness of the backstop's alarm (a Durable Object alarm is redelivered) and of
  the platform's hard kill. The relay, the engine and the dashboard may stop for ever.
- `RepoPoll`, `CronSpec`: weak fairness of an invocation's own steps (`Progress`): the cron fires every
  five minutes and every call it awaits returns, throws or is cut off. Throwing, dying, pushes and registry
  calls are not fair and, being budgeted, end.
- `Triggers`: weak fairness of a handler's and a container's steps (each call returns or throws) and, per
  message, strong fairness of `Begin`: a locked target's message is re-enqueued, so it is possible to begin
  its run only now and then; the queue hands every message out over and over, and with two runs one of them
  cannot keep the lock for ever.
- `DeployEngine`: a started deploy goes on, and the operator runs the workflow again until it has
  succeeded (`Unfinished`). `InitWizard`, `PatientSpec`: every prompt is answered, and a wizard that
  failed is run again. Failures are budgeted in both.

## What the code does not do

*A lost call frees the lock under a live deploy* (`lost_call`). `DeployLock.ts:4` promises "mutual
exclusion per target". The container deliberately outlives its caller, but when `startRun` rejects
(a broken log stream, a lost answer), `executeDeploy`'s `catch` fails the run and
its `finally` releases the lease, while the container deploys on. The next run of the target joins
it. `abandoned` names exactly these runs, and `ExclusiveDeploy` shows that there is no other way but, with the
timers as deployed, the moment of a hard kill (*Margins*).

The rest stands out in the code and is, where a module is named, part of the models as the code does it; no
run is about it.

*Lifecycle.* The sweep fails runs that only wait. `index.ts:153` says "the age guard means only genuinely
orphaned runs are swept". A pending run has no `started_at`, so it ages from `created_at` while it is
deferred behind its predecessor's lease; when that predecessor's invocation dies under the lock, the lease and
the age limit are both 30 minutes, and the sweep fails the waiting run while its message is still being
redelivered (`RunLifecycle`). The narrower secret layer wins by the query planner's leave:
`run-lifecycle.ts:98` says "rows are ordered by name, then the env-specific row, last write wins", while
`db.ts:259` has `ORDER BY name`; the order of the two rows of one name is unspecified (`Vault`, `Resolve`).

*Poller.* All patterns of a repository share the tags feed. When `trigger_ref` is changed from one pattern to
another, the stored ETag still matches, GitHub answers 304, and the newest tag of the new pattern is not deployed
until somebody tags again, although `repo-poll.ts:6` and `migrations/0004_repo_poll.sql:20` say that a differing
head triggers a deploy. The instance has two patterns on one feed, so this happens in it: `Hidden` names exactly
these states, `EveryHeadTriggers` excepts them, and TLC finds it violated without the exception. `repo-poll.ts:155`
says "Any failure is recorded as a SHORT `last_error` and the batch continues", but `recordError` is itself awaited
in the `catch`; if its upsert throws (the app has just been deleted, so the row's foreign key fails, or D1 is
unavailable) the loop ends, and with it `scheduled()`, sweep included (`BatchThrows`). `SweepRecurs` shows that this
heals at a later tick.

*Vault.* `api/vault.ts:131`: "so no orphaned ciphertext lingers". Two overlapping sets of one secret read the
same prior ref; the entry of the first to upsert is overwritten on the row and nobody deletes it. (Nor does a
death between insert and upsert, nor the removal of the row or of the app, clean up.) `vault.ts:26`
describes calling `reencryptAll` and then swapping the binding, "or" as a maintenance task, and `:236` says
each row is readable under one of the keys. Its UPDATE matches on the id alone: a `rotate()` between the
SELECT and the UPDATE gets the old data key written over its own, and that value opens under neither key.
`Maintenance` = TRUE is the restriction under which `EveryEntryOpens` and `SwapCompletes` hold, and are proved.

*Log* (`RunLog`). The interval's puts are not awaited (`relay.ts:121`): one that lands after the final put
leaves a shorter log in R2 for good, and a tail whose cursor has moved past it shows lines again. The backstop writes
the full log from the container's buffer, which may have dropped its first lines, over the relay's
object, although `runner.ts:14` calls the bound one of the buffer, "never the durable R2 log". And when the fetch of
`/status` starts an empty container in the place of one that has gone, its 404 passes for a status: past the deadline
the backstop fetches `/logs`, another 404, and puts that body over the stored log (`RunnerContainer.ts:93`). All three
are `disturbed`, and the properties say what holds otherwise. A `Bun.spawn` that throws (no such command)
rejects `run()`, documented as never rejecting, and leaves the run without an end (`stuck`); the backstop
that finds it past its deadline then waits for the end of `/logs` until the container is killed, contrary to
`finish-run.ts:58`.

*Triggers* (`Triggers`). `runs.commit_sha` is what the webhook said, not what was cloned: `setRunCommit` is
called by nothing, although `0001_init.sql` says the column is filled once resolved. A full sha is no
branch for `git clone --branch`, although `protocol.ts:22` lists it. A push that deletes a branch triggers
a deploy, whose clone fails. When an app is deleted in the middle of a delivery, the insert of its run violates
the foreign key and the other apps' triggers wait for GitHub's redelivery, if somebody asks for it.

*API* (`ApiServer`). `dashboard/src/routes/apps/detail.tsx:67` says "Run history is kept" when an app is deleted,
and the foreign key of `runs` cascades. "Load more" asks with the filter as edited, not as applied, behind the
cursor of the latter; `PagesCoverHistory` excepts lists made that way. The list's loader also fetches `/apps`, for
which a user needs a global grant. `registerApp` that fails between its two writes leaves the app without its
environment: its retry is a 409. An update of an app that has gone meanwhile is audited before it is answered with
404. `updateApp` cannot clear a field (`COALESCE`), while `PUT .../envs` without a `triggerRef` clears it. The
router's comment calls triggering scoped to app and environment (`router.ts:226`); the check names no scope, so that
only a grant on everything passes it.

*Engine* (`DeployEngine`). vozka-runner binds and writes the control plane's D1 (`vozka-runner.config.ts:85`) and is
deployed a stage before that database is migrated: it runs ahead of the schema until vozka's migrations have run,
and, if the workflow fails in between, until it is run again. Without `PROPUSTKA_URL` the plan has no
`reconcile-schema` (`plan.ts:88`): `vozka deploy` then succeeds and leaves the vocabulary as it was, or none.
Secrets are put after the new worker is live, so for a moment it runs with those of its predecessor or none.
`vozka.config.ts:162` says that the provisioning key may be omitted at deploy, but it is one of the pipeline's
secrets, whose absence fails that step. `deploy` writes `ctx.vars` into `process.env`, where they stay for the
components that the same process deploys next.

*Wizard* (`InitWizard`). `envfile.ts:2` promises that "an abort (or a crash) at ANY point can be recovered by simply
re-running". Three places fall short. The App's id is saved after its private key and webhook secret
(`init.ts:283`); a run that resumes in between configures an id of 0 (`"0"` is written, never the real one:
`BaseIsWhole` excepts it). A failed `git push` is not repeated by a rerun if the commit before it succeeded
(`scaffold.ts:98`). A first run that ends between `git init` and the first push leaves a checkout that later runs
refuse, or an empty repository that they take for a scaffolded one (`Stranded`; a `gh repo view` that fails for
another reason reads as "no repository", too). Answers other than secrets are not saved, and an OIDC secret that
stands for "none" is reused when a client id is given later.

## Proofs

Every theorem is about the specification the runs check, for all values of its constants, under the named
`ASSUME`s of the modules (each evaluated by TLC) and the hypotheses named here.

`RunLifecycleProofs` proves `Spec => []TypeOK` for every set of runs, targets and invocations, all
timers and all budgets. `TypeOK` alone is not inductive: what is written into a row must be an outcome,
so the invariant carries `OutcomesKnown` (the relay has one only after the container is done, the
backstop only after it has decided). One lemma per component says that its operations keep it typed;
the step lemmas combine them, one case per action.

The refinement `RowsImplementLifecycle` needs one fact more, that an open row has no exit code: then each
statement of `RunsTable` is one of `RunStatus`'s steps, and every action contains at most one of them.

How much of the timers a property needs is part of what the proofs show:

| Hypothesis | Deployed | Needed by |
|---|---|---|
| none | | `RowsImplementLifecycle`, `AtMostOneExecution`, `RecordedOutcomeIsReal`, `OnlyFailuresDropRuns`, `OpenRunsNearSettlement` |
| `InvocationFits`: `MaxInvocation < LockTTL` | 15 < 30 | `LeaseInv`, `LockIsMutex`, `LeaseCoversDeploy` |
| and `TimersFit`: `MaxInvocation + HardKill <= LockTTL` | 15 + 15 <= 30 | `ExclusiveDeploy`, `ExclusionUntilLostCall` |
| `SweepIsLate`: `MaxInvocation + HardKill <= StaleAge` | 15 + 15 <= 30 | `SweepSparesLiveDeploys` |
| `InvocationFits`, `LaunchIsQuick`: `MaxInvocation <= StaleAge`, `MaxInvocation < BackstopMax` | 15 <= 30, 15 < 18 | `NoDeployOfSettledRun`, `LifecycleKeepsPromise` |

`LeaseInv` has four parts, none of which is inductive without the others: an invocation past `acquire()` holds
its target's lease with `left + held >= LockTTL` (`HolderHasLease`), it is the only one (`OneHolder`), it has no
deploy under way except while it tails one (`OnlyTailDeploys`), and until its container is old enough to
outlast any lease (`Outlasts`: `life + MaxInvocation >= LockTTL`) a deploy's lease lasts until the container
gets that old (`LeaseSpansDeploy`). The argument per action: a granted lease was not live, so by the first and
last part nobody else is past `acquire()` and no deploy of that age is covered by it; a release is by the
holder after its deploy; `Post` starts a deploy at most `MaxInvocation` into the lease; a tick takes the
same from both sides of each inequality. Under `TimersFit` a container is as old as `Outlasts` only at its hard kill.

`LossesCounted` (a run is given up only by an RPC that was counted) turns `ExclusiveDeploy` into
`ExclusionUntilLostCall`: until a `startRun` rejects, `MutualExclusion`, which `lost_call` refutes, holds but for a
container at its hard kill.

That a run is executed once does not rest on the lock. `ExecInv`: the guarded UPDATE of `markRunStarted` lets one
invocation start a run (`OneLauncher`), a row does not come back to `pending`, and until that invocation has posted
the run its container has not accepted one. `RealInv`: each of the four who settle a row writes either `failed`
without an exit code or what it read from a container that was over; a container accepts one run, so what it was
read to be it remains. The two properties of the sweep follow from ages. `AgeInv`: the row is stamped by the
invocation that starts the run, so it is never older than that, or than `MaxInvocation` plus its container's
age. `LaunchInv`: while an invocation launches a run, neither the sweep nor the backstop has reached it, and no second
invocation of the run can fail it; this one does need the lock, and TLC finds `NoDeployOfSettledRun` violated with a
TTL of 1 and invocations of 2. `OnlyFailuresDropRuns`: who carries a run names one that exists (`CarryInv`).

`LifecycleKeepsPromise` puts these together: every step changes rows or containers, not both; a row's step is
`RunStatus`'s and records what is known (`RealInv`), a container's launches once (`ExecInv`) and only for a running or
removed row (`LaunchInv`). Exclusion between runs is left out of `DeployPromise`, because it has
exceptions.

`OpenRunsNearSettlement` is what `EveryRunSettles` rests on, whatever the timers: `TimeLeft`, the ticks that an open
row can still be away from the sweep, never rises, falls with each tick until the row is stale, and a sweep leaves
no stale row open.

`RunLogProofs` proves `LogInv`, `ShownInOrder` and `StoppedShowsAll` for logs of any length, any bound of the buffer
and any number of puts in flight. Every text there is, wherever it is held, is a text of consecutive lines
(`TextsInv`): the relay's from its first to its last line, a put's a prefix of that, the backstop's what the buffer
has. Undisturbed, the object is what the relay has put (`Stored`) and the screen is the object's
first `cursor` lines (`ScreenFits`), because an object that is only extended keeps the lines that a
tail has seen. That a stopped tail has shown all is an order of four awaits: object before row, in `relay.ts`,
row before object, in `tailRunLog` (`RowFits`).

`RepoPollProofs` proves the poller's `TypeOK`; with no hypothesis that a cursor is stored only after its head was
sent (`CursorsSent`), that a 304 hides nothing from the pattern of its time (`HeadsAreSent`), and nothing at all
from a branch or from a tag pattern alone on its feed (`NotModifiedHidesNothing`). The invariant follows a row from
the response to the table: whatever an invocation holds (`prior`, or `new` once it is past `send`) and whatever is
stored is safe for its environment, where *safe* means that its cursor was sent and that its ETag is of a list of
its ref's feed whose newest match for that ref was sent. Sent messages are never taken back, so an older invocation
that writes last writes a safe row, too. From the same invariant follows what `EveryHeadTriggers` and `SweepRecurs`
rest on: a fetch for a subscription that stands finds the head, unless it was sent or the row it read was filled
under another pattern (`HeadsAreFound`); an invocation takes what it found to the queue unless a call throws, it
dies or the app has gone (`HeadsAreSentOn`); and each of its own steps brings it nearer to the sweep
(`SweepIsReached`).

`TriggersProofs` proves `TriggersInv` and `BranchNeverGoesBack`. Rows are only appended and keep their target and
push (`Kept`), so what a delivery has triggered stays triggered. `HandlerFor(n)` says that whoever has subscribed
since delivery `n` arrived is in an app it has yet to look at, a match it has yet to trigger, or triggered; an
answered delivery has nothing of the first two. A registry change takes those it touches out of `steady`.
`CommitsInv` orders commits: a push is newer than all before it, a clone takes the head of its branch, and nobody
else clones for that target until it is deployed (`Locked`), so what it replaces is not newer. `PushesMoveOn` is
what `PushesArrive` rests on, with no fairness: everyone who subscribed throughout has a run of an answered push
that waits in the queue, is at work, has deployed that push or a newer one, or failed or went with its app. Its
invariant says where an unfinished run can be (`RowsFit`, `WorkFits`), that a branch which is not gone is at or past
every push on it (`HeadsFit`), that a delivery goes on only after it has sent the message of its last run
(`UnsentFits`), and that a subscriber it is past has a run (`CarriedInv`).

`VaultProofs` proves `TypeOK`; `RefsResolve` by the invariant that rows and requests only refer to the entries of
sets on the same slot that are past their upsert, so that nobody deletes an entry before a row refers to it
(`FreshStays`), and that a set deletes what it has replaced only when no row can refer to it any more
(`PurgedIsReplaced`); and, with `Maintenance`, `EveryEntryOpens` and `SwapCompletes` by the invariant that during a
rotation nobody writes and every entry is either still to come, as it was read, or under the new key. Without
`Maintenance`, where TLC finds `EveryEntryOpens` violated, `UnrotatedOpen` says what is left of it: only entries
that an answered `rotate()` wrote can be lost, because every other one still has the data key it was inserted with,
which is what a re-wrapping that read it earlier puts back (`AsInserted`). `NoValueReturns` holds for any overlap:
an entry has the value of the set that inserted it or of an answered rotation (`WrittenBy`), and from the moment a
request has found its row, only requests answered later change that row (`RowsMoveOn`); so what it replaces,
re-seals or deletes is what was current, and nobody refers to it again (`SetsReplace`, `RotationsReseal`,
`DeletionsRemove`). From there `JobSecretsSound`: of a job's rows, none resolves to what had been superseded when
they were read, even if its entry is re-sealed or deleted before its turn comes (`JobInv`). With `Maintenance`, what
a slot resolves to is what its entry holds (`ValuesHold`), and `SlotsChangeByRequest` follows step by step: a set
takes effect at its upsert, a rotation at its UPDATE, a deletion when it removes the entry, and no other step
changes a value.

`ApiProofs` proves `ApiInv`, `AppKeepsIdentity` and `RowsAreGranted` for any apps, users, grants and overlapping
requests. Checks are stale by the time of the write, so `RowsHaveApps` rests on the foreign keys alone: an insert
needs its app, a deletion takes the app's rows with it. `Progress` follows each request from its dispatch to its
answer; a request's grant is decided at dispatch and its user and operation do not change after. `PagesCoverHistory`
is proved for any page size and history: `ListsInv` says that down to its cursor a list has every run that it was
begun with and that is left, once. A page adds what is newest below the cursor (`NewestFirst`, about the sizes of
finite sets), and `IdsInv` that no run is inserted later under an id that a list was begun with.

`EngineProofs` proves `EngineInv` and `SucceededIsDeployed` for any configs and versions. Schemas only rise and
secrets only accumulate, which makes `Lasting` stable under everybody's steps; `Replaceable` is kept by `alone`,
which every other deploy of the component that starts takes away. `SchemaBeforeWorker` then follows at the step that
puts the worker live, because its plan's migrations have run. `AdoptersFollow` follows from the order of the stages:
what the workflow has put live before the control plane's stage is of that stage's version (`NotAhead`), and `Lasting`
keeps the schema that the stage has migrated at that version. What `BaseComesUp` rests on is proved for any configs
in which the control plane alone has a vocabulary and shares propustka's key (`KeyShared`, proved of the declared
ones): no command of the workflow is turned down (`WorkflowFindsWhatItNeeds`). For all configs: its success brings
the whole base up (`WorkflowBringsUp`), which no later deploy, failing or old, undoes (`StaysUp`). Workers and
secrets that a stage has brought stay (`BringUp`).

`WizardProofs` proves `WizardInv`, `BaseIsWhole` and `KeysAreDurable` for any number of runs, failures and releases.
A value in `.env` does not change once it is depended on, which needs all of `OneApp`: a second App can only be
created while no webhook secret is stored. Signing keys are the last durable setting to be written and the workflow
deploys nothing without them (`SignedLast`), so a deployment that has them has all. `GoesForward` is what `Finishes`
rests on: `Stages` orders the awaits, and a run that is not cut short goes to a later one with each step, or ends at
a stranded checkout or repository or after a `gh repo view` it misread; what the checkout and the repository are at
each await is an invariant of its own (`EveryRunOnTheWay`).

Every safety property of a passing run is proved. Only model-checked are the liveness properties (`EveryRunSettles`,
`Recorded`, `PushesArrive`, `EveryHeadTriggers`, `PollingQuietens`, `SweepRecurs`, `BaseComesUp`, `Finishes`):
fairness is out of the prover's reach. Of all but `Recorded` and `PollingQuietens` the part that is not fairness is
proved, as said above: that nothing is lost on the way, or that each step comes nearer to the end.

### Margins

A 15-minute consumer limit and a hard kill "~15 min" in add up to the 30-minute TTL: there is no margin. What is
checked and proved is what holds at equality: a deploy is covered by its lease until its container is TTL minus limit,
15 minutes, old, and two deploys of one target overlap at most while one is at its hard kill. That the lease is not
seen to lapse before the kill is due to a container that is posted to well before the invocation's limit; lengthening
a build step before `/run`, or shortening `DEPLOY_LOCK_TTL_MS`, uses up what is not there on paper. The mutation
`AcquireBriefly` (a TTL one unit shorter) shows a live deploy without a lease.

## Plan

The modules above came in the order of what a failure costs: the lifecycle with its lock, the poller and
the vault, then logs, triggers, engine, wizard and API. Their safety is proved.
What is left is composition: the master key swapped while requests are under way (what `Maintenance`
excludes, and the code does not defend against), jobs of the lifecycle assembled from a `Vault` that changes, and
runs of `Triggers` that go through `RunLifecycle`'s queue instead of a queue of their own.

## Not modelled

- *Bring-up scripts* (`src/scripts`): a straight line of shell commands and prompts whose steps `vozka init`
  and `platform deploy` have taken over and `InitWizard` and `DeployEngine` model. (`vozka-bringup.ts` still
  sets repository secrets whose names begin with `GITHUB_`, which GitHub rejects.)
- *The dashboard's other pages*: forms over one API call each, without state beyond the form.
- *Authentication* (propustka's library, dev personas, cookies, the bounce to the login page), the
  minting of tokens, signatures and encryption: calls of cryptography or of services outside the
  repository. The models start from who the user is, and from what opens under which key.
- *The environment dimension of a grant's scope*, which only `GET /runs?env=` asks for, and layers in `ApiServer`.
- *A write of `.env` cut short* (`persistEnv` rewrites the whole file).
- *What wrangler and oblaka do* inside a command; migrations are one effect, so one that stops halfway
  through a file is not seen.
- *The M2 route* `POST /api/runs`, health and static assets.

`PROJECT.json` states it per component.
