# Makeway control plane: specification and verification

TLA+ models of Makeway, an internal developer platform: what its control plane,
queue, state machine and workers do with an application's desired state, what
TLC checks about them on small instances and what TLAPS proves for all of them.
Paths are relative to the repository (`src/`); `PROJECT.json` maps every
definition to the lines it models.

## 1. The system

| part | state it keeps | operations | talks to |
|---|---|---|---|
| Request intake (`app_creation_service`, `app_update_service`, `app_delete_service`) | `App`, `Service`, `Capability`, `CapabilityAccess`, `Request`, `Job` rows | `submit` of a create, an update, a delete of an environment; `purge_app` | database (one session and one commit per call), then SQS |
| Queue and consumer (`workers/sqs_consumer`, `terraform/modules/sqs`) | messages, receive counts, dead-letter queue | receive, start an execution under a deterministic name, acknowledge, redrive | Step Functions |
| State machine (`terraform/modules/app_creation_step_functions/main.tf`) | one execution per request: state, attempt counter, retries | Step1, Apply, (Wait, Check)*, Extract, ReportFailed | worker Lambdas |
| Step 1 worker | GitHub repositories, the app's folder of the platform repository | scaffold or strip an app, push, merge, report | control plane, GitHub |
| Step 2 worker | Crossplane objects, IAM users, secrets | `apply`, `check`, `extract`, `report_failed` | control plane, Kubernetes, AWS |
| Callbacks (`internal_api_service`) | the same rows, from the other side | request details, status update with the purge a SUCCESS triggers, deployment setup | called by all workers |
| Health reporter (`workers/health_reporter`) | none of its own | scheduled sweep: list Applications, resolve services, report | Kubernetes, control plane |
| Deployment setups (`deployment_setup_repository`) | one row per service, meant | upsert, purge, derive health | - |
| Cluster registry (`cluster_service`) | `Cluster` rows, one per environment, meant | register, refresh, rename, deregister | read by everything above |
| Status read side (`app_status_service`) | - | the status of an application, put together from some ten queries | database |
| Users and teams, frontend, manifests, scripts | - | - | - |

What is hard here, and where:

* **Two writers of one row set.** HTTP calls check, then commit; callbacks of a
  pipeline run change the same rows minutes later. Nothing but
  `_reject_in_flight` keeps two runs of one app apart, and it is a read.
* **Callbacks are applied unconditionally.** `update_request_status` looks at
  neither the present status nor the step: order is everything.
* **At-least-once everything.** SQS redelivers, Step Functions retries a Lambda
  that already did its work, EventBridge may run two sweeps at once.
* **Failures between two effects.** Commit then publish; work then report;
  report then re-raise; the check that never reports.
* **Names against ids.** A purge selects rows by service name, and a service can
  be added again under its old name. Claims, secrets and IAM users have no record
  but their name, computed anew from application, environment and slug.
* **Derived ownership.** A capability row names neither application nor
  environment: both come from its access edges. Without an edge nobody sees it,
  and what a removal leaves is decided at submission and acted on at SUCCESS.
* **One folder, five writers.** Step 1, Step 2's extract, the services' CI, a
  reviewer and other applications commit to the main branch ArgoCD deploys from.
  Nobody locks; contents are read by one call and committed by another.
* **A key the schema does not know.** Everything finds a cluster by its
  environment; unique is its name, and what refers to it is its id.
* **Status by hearsay.** What is shown of a capability is what a run reported last:
  a submission resets it, polls report some, extract the rest, a removal nothing.
* **Torn reads.** A status response sees what is committed at each of its queries.
* **Limits.** The attempt budget, the redrive limit, the sweep's 120 seconds.

What makes each part correct: at most one request of an app is under way;
a request ends once; SUCCESS means the delta is in place; a row is deleted only
on behalf of a younger request; no row outlives what it refers to; a key names
one request; a capability belongs to one environment and keeps an accessor; it is
forgotten only when its infrastructure is gone, and is shown as successful when and only when it
is there; a secret key AWS tells once is not
lost; a closed execution has reported its end; somebody acts for every request until it is resolved;
a lasting failure is shown, a lasting recovery too; no setup row outlives its
service; main is what a merged run was asked for, every overlay builds, nothing torn
down comes back and nobody's commit is lost; a service stands on a registered cluster
of its environment, and an environment's services on one; a response that says success
shows nothing the request deleted. The hazards are listed line by line in `PROJECT.json`.

## 2. The modules

| module | what it is |
|---|---|
| `RequestLifecycle` | intake, queue, consumer, state machine, worker control flow and callbacks, composed |
| `AppReconciliation` | the abstract specification: one request at a time changes an app |
| `RequestLifecycleProofs`, `RequestOutcomeProofs` | the theorems of `RequestLifecycle`, the second with the refinement of `AppReconciliation` (TLAPS) |
| `HealthReporter` | sweeps, deployment setups and their purge |
| `HealthReporterProofs` | the theorems of `HealthReporter` (TLAPS) |
| `DesiredState` | services, capabilities, access edges; the overlays, instances, secrets and injection patches a run makes of them |
| `CapabilityStatus` | the status of every capability, which the runs of `DesiredState` report |
| `DesiredStateProofs`, `ProvisionedProofs` | the theorems of `DesiredState`, the second with those of `CapabilityStatus` (TLAPS) |
| `GitOpsRepo` | an application's folder of the platform repository and all its writers |
| `GitOpsRepoProofs` | its theorems (TLAPS) |
| `ClusterRegistry` | the cluster table and the creates, updates, deletes and purges that go by it |
| `EnvironmentRouting` | the abstract specification: an environment leads to one cluster, which is not replaced under what was placed there |
| `AppStatus` | `ClusterRegistry` with readers of the status endpoint beside it |
| `ClusterRegistryProofs`, `AppStatusProofs` | their theorems, the first with the refinement of `EnvironmentRouting` (TLAPS) |
| `RequestLifecycleMC`, `HealthReporterMC`, `DesiredStateMC`, `GitOpsRepoMC`, `AppStatusMC` | instances for TLC |

### RequestLifecycle: how it corresponds to the code

| variable | in the code |
|---|---|
| `session[s]` | one HTTP call between its reads and its commit, and between the commit and the publish |
| `owner[a]` | the `App` row of a name; its value is the request that created it, standing for `appId` |
| `rows[a][x]` | the `Service` row `x` of the app, valued by the request that added it (so a row added again is a different row) |
| `status`, `payload` | the `Request` row (`requestStatus`, `rawRequest`, `idempotencyKey`, `appId`) and its `Job` |
| `queue`, `receives` | SQS messages and their receive counts |
| `exec[r]` | the execution of a request: the state it is in, the phase of the Lambda that state invokes, `$.attempt`, the retries used and the services Step 1 will name |
| `late` | callbacks the worker gave up on (HTTP timeout) and the control plane has not yet applied |

`Receive*` are the reads and checks of a call up to its first write,
`CommitRequest`/`CommitPurge`/`Rollback` the one commit with what the schema
refuses, `Publish`/`PublishFails` the rest. `Deliver*`, `DeadLetter` are queue and
consumer. `GetDetails` ... `PollFails` are the phases of the Lambda handlers (each
phase ends with the HTTP call or the piece of work that others can see),
`Transition`, `Retry` the state machine's moves, `ApplyLate` a callback that
arrives after its worker gave up. Which failures the environment inflicts is the
constant `Faults`; each kind is explained where `FaultKinds` is defined.

Abstractions, and why they are sound for what is checked:

* The reads of a call happen in one step, its commit in another: what matters is
  that others act in between. A callback is one step: it is one transaction that
  locks the rows it writes.
* `Job` and `Request` are written together by every operation: one status.
* Sequence order of `requestId` is commit order.
* A service is one environment's `Service` row; a delete of an environment is
  the removal of its services. Prod confirmation, team membership, field limits
  and the cluster lookup only refuse calls, and every call may be refused anyway
  by not being made.
* Capabilities and access edges are in `DesiredState`; a callback they would
  refuse is covered here by the fault `refuse`.
* What a worker does to GitHub, Kubernetes and AWS is one step that succeeds or
  raises; `DesiredState` tells what the step does.
* A Lambda runs on after Step Functions gave up on it only as far as its last
  callback goes (`late`).

### HealthReporter: how it corresponds to the code

`sweep[w]` is one invocation of the reporter (the clusters still to visit, the
Applications it listed, the verdict and the services it is reporting, the row it
read, the seconds it lost to hanging calls); `setup[x]` the `DeploymentSetup` rows of a
service, oldest first; `svc[x]` its `Service` row, which the purge of a SUCCESS
callback deletes in two steps (setups, then service); `argo[g]` the Application of
an (app, environment) pair, which ArgoCD changes at will.
`record_deployment_setup` is `ReadSetup` then `WriteSetup`: another sweep, or the
purge, may come between. The write merges as SQLAlchemy does, column by column
against the row that was read.

Left out: Applications without the labels (skipped at once), the fallback
cluster of an empty registry, `lastSyncedAt` and `argocdAppName`, the time of calls
to the control plane (so a sweep never runs out of time for that reason), the
purge of several services in one transaction (services are independent of each
other here).

### DesiredState: how it corresponds to the code

| variable | in the code |
|---|---|
| `rows` | the `Service` rows, the `Capability` rows (`config` keeps the slugs of its instances) and the `CapabilityAccess` edges of one application |
| `sent`, `request`, `status` | the committed requests, what `rawRequest` of the latest says, its `requestStatus` |
| `phase`, `done` | the Lambda that runs and the claims its loop is through with |
| `overlay[e]`, `inject[e][slug]`, `merged` | the GitOps tree on main: the services `envs/<e>/` deploys, those `inject/<slug>-env.yaml` patches, whether the last pull request is on main |
| `xr[i]` | a Crossplane instance, named by environment, type and slug: `absent`, `settling`, `ready`; being deleted, with the conditions of a ready one (`lingering`) or with conditions that show it (`terminating`) |
| `strayed` | history: the capabilities a patch bound in an environment it was not for |
| `misread` | history: the instances this run's check took for ready although they were being deleted |
| `secret[i]`, `key[i]` | the fields of `makeway/<app>/<env>/<slug>`, and whether the IAM user of that name has an access key |

`Create`, `Update`, `Delete` are the three `submit` calls, with all of the
validation of an update that is about capabilities (`ValidEntry`,
`PatchesResolve`) and the merge into the rows (`Merged`, with `Targets` for what a patch binds to). `Step1` is the push of
the overlays, merged or left to review. `ApplyClaim`, `DeleteClaim`, `EndApply`,
`CheckReady`, `ExtractClaim` are Step 2's actions claim by claim, so that a run can
fail, or a Lambda start over, between any two claims; `ExtractDies` is a death
between `create_access_key` and the write of the secret. `Succeed` is the callback
that purges what the request removed. `Settle`, `Notice`, `Vanish` are Crossplane.

Two things the code does deserve a word, because the properties make exceptions for them.

*A check that cannot see a deletion.* `_claim_status` (handler.py, 986-994) looks at the conditions `Ready` and
`Synced`, and `_check` (1043-1048) at nothing else, the `deletionTimestamp` in particular. When
Crossplane changes the conditions of an instance that is being deleted is not said in the repository, so the
model leaves it open: a deleted instance that was ready lingers with its old conditions until `Notice`, which
may come at any time. A run that fails after it deleted an instance, and one after it that keeps the capability,
can therefore report success of an instance that is about to vanish. `Provisioned` excepts
the instances so misread by this run's check and no others; `StatusIsEarned` has them in `undone`.

*A patch that goes astray.* `submit` leaves the loop of the validation with the service table of the
last entry, and `_apply_access_patch` looks the names of EVERY entry's patches up there
(app_update_service.py, 255-256, 657-661). In the last entry's own environment the names are right. Elsewhere a name
that is not in the table raises KeyError and nothing is written (`PatchesResolve`); but a name that reads like a row of the other
environment is found: with `a-prod-qa` and `a-prod`, a patch of qa for `a-prod` binds the row of prod.
`Alike` says which base names read so, and `Targets` binds what the code binds. The capability then has edges into two environments,
and its claims, secrets and removal follow whichever edge is found first (`CapabilityEnv`). The docstring
(649-652) says that "a capability row can hold bindings across environments"; `_validate_access_patch` and
`_find_capability` are written as if it could not, and everywhere else the code keeps it so.
`OneEnvironmentEach` claims this of every capability no patch led astray, and the other properties that
speak of a capability's environment leave out the same ones, not what stands beside them.

One request is under way at a time: `OneInFlight` below proves when that is so, and
`race` shows when it is not. `DesiredStateAssumption` besides assumes of callers that
an entry of an update names a capability type once and a create an environment
once: the code refuses neither (it does refuse an update that names an environment
twice), and what it makes of them is left out. Likewise an update patches a capability once: what a second patch of it would
make of the first is left out.

`AccessEnds` excepts a service that the request itself removes, and needs to: the payload of extract
is built from the rows before the purge (internal_api_service.py, 130-165), so `_extract` (handler.py,
1601) writes the removed service into the patch of every capability it had access to, beside an overlay that no longer
deploys it. Step 1 has dropped the service from the overlay in the same run, so the patch has no target there
until the next successful run writes it anew. Nothing in the repository says what should happen instead, so there is no
run that refutes a claim about it.

What it abstracts or leaves out:

* A capability is named by the request that added it, its environment, type and a
  number, which stands for its id; the code derives the environment, and so does
  the model (`CapabilityEnv`); the field `env` is only read where a name of the row
  is needed in a property or a proof.
* Which of two capabilities of a type `get_by_app` yields first is fixed (`CHOOSE`), and so is
  which of two environments' edges of a stray capability is found first.
* One application: the sweep of IAM users by the prefix `makeway-<app>-<env>-`, which
  another application's name may share, and names cut at 64 characters need two.
* A pull request left open is not merged by a person later; ArgoCD, which acts on
  main, is outside.
* An instance that is ready stays so until it is deleted (a patch may unsettle it
  for a while); a failing composition is a run that fails.
* The `outputs` and `errorMessage` of a capability, database passwords, policies,
  namespaces and quotas; its `status` is in `CapabilityStatus`.
* An upsert that gives a capability another slug leaves the instance of the old one
  behind: claims are computed from the rows (handler.py, 410-552), which hold the new name only, so no later run
  or removal knows of it. `PurgeAfterTeardown` speaks of the config a row has when it is purged.
* A create with a capability and no service to bind it to: it has no edge from
  birth, and `NoOrphaning` speaks of capabilities that had one.

What the properties leave out is told in their comments, and each exception is a
limit of the code that the model reaches: a second capability of a type in an
environment can be orphaned, since the orphan rule counts grants the upsert gives
to its twin; a queue and a database of one slug overwrite each other's secret and
patch; a delete's run provisions nothing, so what a failed update added elsewhere
waits for the next update; a capability bound across environments, and an instance whose deletion the check
cannot see, are told of above; a secret key is lost when a Lambda dies holding it, or
when a skipped cleanup leaves the IAM user behind its secret.

### CapabilityStatus: how it corresponds to the code

It extends `DesiredState` with the column a user looks at, `Capability.status`
(`shown`), and conjoins to each step what it writes there; the other steps are
`Silent`.

| in the code | here |
|---|---|
| `submit` of a create (app_creation_service.py, 131-147) and of an update (`_upsert_capability`, `_apply_access_patch`): `PENDING` | `ShowCreate`, `ShowUpdate` with `Reopened` |
| the progress report of `_check` (handler.py, 1057-1085), which may be lost; the poll goes on | `ReportPending` and `ReportReady`, beside `CheckReady` with nothing reported |
| the report of `_extract` when all went well, when some capabilities failed (it goes on after each and reports all) | `ReportAll`, `ReportSome` |
| `_apply_capability_outputs` | `Polled`, `Rolled` |

Two history variables say what the column does not tell. `early`: success is shown
on the word of a poll, extract has not stored the connection yet. A delete polls the
capabilities of the other environments too, but its extract reports none (handler.py, 1547-1554): one whose
extract failed is shown as successful after the delete, whether or not its
connection was ever stored. `undone`: success is shown, but a removal (which writes no status) has begun to take
the instance or the secret away; if the removal fails half way, success is shown of what is gone until
the next poll of a run that keeps the capability, and beyond it if the poll reads conditions from before the
deletion (`Lingering`, `Misread`). `StatusIsEarned` names both exceptions, and the runs reach them.

A poll reads all its instances in one step: an instance that becomes ready while it
reads is reported by the next. A report is applied at once or lost; one that is applied after
its run ended is in `RequestLifecycle` (`late`). `PARTIALLY_FAILED` is never written by a worker.
The `unchanged snapshot posts nothing` of `_check` is not kept: such a report would change nothing.

### GitOpsRepo: how it corresponds to the code

| variable | in the code |
|---|---|
| `rows`, `sent`, `request` | the `Service` and `Capability` rows of one application, its committed requests, what the latest asks for |
| `pc` | the call the run makes next |
| `work` | Step 1's locals: the files it rendered, the paths it deletes, whether the pull request was merged |
| `claim` | extract's locals: the claims to do, the one in hand, the kustomization as it was read, the tree of the head its commit is based on |
| `main`, `branch`, `pr` | the folder `argocd/apps/<app>/` on main and on `makeway/apps/<app>`, the open pull request |
| `builds`, `workflows` | image tags CI pinned; services whose CI workflow the services repository has |
| `moved` | whether main moved since extract read its head: what GitHub knows when it refuses the PATCH of the reference |
| `stale`, `branch.behind`, `branch.by` | history: what was overwritten from contents another writer had changed since they were read; the request the branch was pushed for |

A tree is a function from paths to contents. A kustomization is the services,
external secrets and patches it lists, a patch file the image tag it pins, any other file only
there or not. `Render` is `_argocd_app_files` with everything it reads of main;
`SyncBranch`, `PushTree`, `TryMerge` are the three calls after it, between any two of which others act;
`TakeClaim`/`ReadKustomization`, `ReadHead`, `CommitClaim` are the three of each of extract's commits.
`Bump`, `Review`, `Elsewhere` are CI, a reviewer, other applications. `Fail` and
`Restart` may strike between any two calls.

Three windows are open in the code, and the properties except what falls into them,
named by the history variables:

* What CI or a reviewer puts on main after Step 1 read the file and before it resets the branch to main
  is in the base of the branch and overwritten by its commit: a tag falls back to the
  one that was read, although `docs/design/GitOps-and-CI-Pipeline.md` (44-46) says re-runs do not revert it.
* Extract reads a kustomization before it reads the head it commits on: a merge in
  between is overwritten (`stale`), one after is refused by GitHub.
* A pull request left open removes a service or a claim; a later request adds it again, and before
  Step 1 of that request resets the branch, a reviewer merges the old one: main loses what the
  rows now ask for (`branch.by # sent`) until the new run's merge puts it back.

A pull request GitHub does not merge at once is success for the run: the rows of a removal
are purged then, and the next run, which re-points the branch, drops what it would
have removed unless it still knows it (`Published` speaks of merged runs for that reason).
`NoResurrection` holds for applications no service of which is left in one
environment only: every overlay lists the base services of all environments
(finding 5), so what one environment lost comes back with the next run otherwise.

Left out: what the services repository holds beside the workflows (every update pushes
the golden-path files again over what developers made of them), the contents of
rendered files, the ArgoCD Application of an environment beyond its overlay, and
the kinds of update `DesiredState` is about.

### ClusterRegistry and AppStatus: how they correspond to the code

| variable | in the code |
|---|---|
| `clusters`, `nextId` | the `cluster` table and its sequence |
| `calls[k]` | one HTTP call on the registry: its body, the id it is about, the row it read, the read or commit that comes next |
| `services`, `requests`, `deploys[a]` | the `Service` rows, the requests with their jobs, and a create or update between `get_by_env` and its commit |
| `contested` | history: environments two registrations entered although each found them free |
| `view[r]` (`AppStatus`) | what one status request has read so far |

Every read and every commit of `cluster_service` is an action, with what the schema refuses at the commit:
a taken name, a service that still refers to the row. An UPDATE sets only the columns that differ from what the
call had read (`Written`), as SQLAlchemy does. `Resolve`/`Commit` are the create and update beside it, `Delete`/`Succeed` the
delete of an environment and its purge, which looks up the cluster by environment each time anew.
`AppStatus` adds the reads of `GET /app/{name}/status` in the order of the code.

`get_by_env` takes any of several rows, `get_by_app` with a cluster the services on
that cluster. Two registrations of one environment that overlap both
succeed (the code has no constraint against it), and what that breaks is excepted by
`contested`. `EnvironmentRouting` is what is left when the
table, its names and the calls are hidden: `Routes` and `Placed` are the refinement mapping, and they
leave out the contested environments. Two overlapping refreshes may leave the endpoint of one beside the token
of the other: no column is lost, but nobody registered the pair.

Left out: probing the cluster's API before a registration (it only refuses), field limits,
`purge_app` and the capabilities of a deleted environment, connectivity and capabilities in a status response.

## 3. The runs

| run | bounds | checks |
|---|---|---|
| `orderly` | 1 app, 2 services in 2 environments, 3 requests, 2 calls at once, budget 1, faults publish, check, crash, consumer, sdk, late, within `OneFaultAtATime`; under `OrderlySpec` | `TypeOK`, `AtMostOneInFlight`, `SuccessIsApplied`, `TerminalIsFinal`, `OnlyYoungerRequestsPurge`, `OneAtATime`, `AbandonedBlocks` |
| `hostile` | 2 apps, 1 service, 2 requests, 2 keys, 2 calls at once, faults late, sdk, publish, check, crash, consumer, within `OneFaultAtATime` | `ReferentialIntegrity`, `UniqueKeys` |
| `progress` | 1 app, 1 service, 2 requests, budget 2, faults work, duplicate, reuse; fairness | `ClosedIsReported`, `NobodyForgotten`, `Resolved` |
| `health` | 2 overlapping sweeps, a flaky cluster before the healthy one, 1 service; fairness | `TypeOK`, `NoOrphanSetup`, `FailureIsSeen` |
| `desired` | 2 environments, 2 services, 2 types (one with IAM keys), 2 slugs, up to 2 capabilities of a type, 3 requests out of 2 creates, 11 updates and 2 deletes, one name of qa that reads like a row of prod, faults cleanup, halfway, unmerged; under `ShownSpec` | `TypeOK`, `SuccessIsShown`, `StatusIsEarned`, `OneEnvironmentEach`, `Provisioned`, `AccessEnds`, `NoOrphaning`, `PurgeAfterTeardown`, `StoredKeySurvives`, `RemovedIsWithdrawn` |
| `gitops` | 1 app, 2 environments, 2 services, 1 claim slug, 4 requests out of 4, 1 build, every fault | `TypeOK`, `OverlaysResolve`, `Published`, `NoResurrection`, `NothingLost` |
| `registry` | 2 callers, 2 clusters ever, 3 calls out of 5 forms, 1 app, 2 environments, 3 requests, 1 reader | `TypeOK`, `ServicesRouted`, `OnePerEnvironment`, `EnvironmentOnOneCluster`, `DeletedIsGone`, `CredentialSurvives`, `RoutesEnvironments`, `SuccessIsWhole`, `BlocksNamed` |
| `check_raises` | fault check | refutes `ClosedIsReported` |
| `race` | two calls at once, no fault | refutes `AtMostOneInFlight` |
| `rerun` | fault sdk | refutes `OnlyYoungerRequestsPurge` |
| `health_recovery` | one sweep, nothing fails; fairness | refutes `RecoveryIsSeen` |
| `desired_footprint` | as `desired`, 2 requests, no fault | refutes `FootprintMatches` |

Why the bounds are enough: three requests are the least that remove a service,
add it again and let the first act once more; two environments tell a delete
from an update's removal; in `progress` a budget of 2 takes the loop once round and runs out;
one app suffices elsewhere, because no operation but the key's lookup reads another app's
rows; `hostile` has two for that key. Two sessions are
all a check-then-commit race needs; two sweeps all a duplicated row needs.
In `desired`, three requests are a create, a run that fails half way (or a removal)
and the run that has to repair it or meets what it left; the updates listed in
`DesiredStateMC` hold one of each kind of delta and the pairs that interact
(removal with hand-over, grants in one environment and removals in another, in both directions,
patches in the entry that resolves, in one that does not, and in one that resolves to another environment's service). Two slugs let a queue and a
database share a name and a capability be renamed.
`OneFaultAtATime` keeps a re-invoked Lambda from meeting a late callback, and either
from meeting a second app: the whole product is out of TLC's reach (the theorems
below, `IntegrityHolds` and `KeysUnique`, are not so bounded).
In `gitops`, four requests are one that fills main, one that takes something away, one that
puts it back while the pull request of the second may still be open, and one that meets what all
of them left; one tag is enough to be lost, one
claim to be overwritten. In `registry`, two rows are an old and a new cluster of an
environment, two callers every race of two, and the third call what undoes
the first; three requests add, add or delete, and delete.
`FailureIsSeen` is checked with one flaky cluster: two that hang use up the sweep's
120 s, and the clusters behind them are then never visited.
All runs but those of health stop when keys, ids and calls are used up, so deadlock is not
checked there; the health runs never stop, and it is.

Fairness: a session runs to its end, Lambda keeps polling the queue, Step
Functions and the Lambdas it invoked run on (`WF` of `Finish`, `Consume`, `Work`,
`Transition`); the schedule keeps firing and a transaction ends. Nobody has to send a
request, and no flaky call ever has to succeed. Crashes, refused calls and failed
publishes have no repair in the code, which is why `Resolved` is checked without
them: with any of them a request may stay PENDING or IN_PROGRESS, and then does so for good
(`AbandonedBlocks`, which is proved).

What the violations show is told in `PROJECT.json` under `findings`, each
with the sentence of the code base it contradicts:

1. a check that raises leaves the request IN_PROGRESS for ever (`check_raises`);
2. two calls at once both pass the in-flight check (`race`);
3. extract, invoked again, purges rows a later request added (`rerun`);
4. an error message is never cleared, a recovered service stays UNHEALTHY
   (`health_recovery`);
5. every overlay lists the base services of all environments, so a service of qa
   is deployed in prod too (`desired_footprint`).

## 4. The proofs

`RequestLifecycleProofs` (the first five) and `RequestOutcomeProofs`
prove, for every value of the constants that satisfies `ConstantsAssumption`:

| theorem | assumes | argument |
|---|---|---|
| `TypeCorrect`: `Spec => []TypeOK` | - | `Typed == TypeOK /\ Shape` is inductive: `Shape` says that a session past its reads carries a call, a committed one an id, and a live request a payload, without which neither the commit nor a purge can be typed; the attempt counter stays within the budget by the `>=` of `Step2 Attempt?` |
| `KeysUnique`: `Spec => []UniqueKeys` | - | `CommitRequest` is the only step that adds a request, and its constraint looks at the live rows, not at what the session read |
| `IntegrityHolds`: `Spec => []ReferentialIntegrity` | - | `Integrity` adds that no id at or above `nextId` is in use and that live requests name known apps: then a creating request is older than all that hangs off the app |
| `OneInFlight`: `OrderlySpec => []AtMostOneInFlight` | - | `Serial`: of an app's requests all but the latest have ended; a checked session still finds the app quiet; no execution is ahead of its request's status, and neither is a late callback (`SentByARun`); a request that ended has nothing left to say |
| `EndIsFinal`: `Spec => TerminalIsFinal` | `Calm` | `EndTold`, the part of `Serial` that is about runs and takes no turns: an execution that is not through with its handler has a request that has not ended, or will only report that end again. `NextEndTold` keeps it by `NothingAfterTheEnd` alone, and `CalmAfterTheEnd` gives that where no callback is late, no Lambda invoked anew, no name accepted again |
| `ClosedReported`: `Spec => []ClosedIsReported` | `Heard` | `Truthful`: a run that is over, or about to be noticed as over, has a request in a terminal status (`Honest`); a request committed now was never handed to the state machine (`Unstarted`), so no old execution answers for it |
| `CalmIsOrderly`: `Spec => OrderlySpec` | `OneCaller`, `Calm` | no callback is ever late (`late = {}` is inductive), so nothing is left that could be done after an end |
| `SuccessApplied`: `OrderlySpec => []SuccessIsApplied` | - | `Footing`: every row was asked for by the request whose id it carries (`RowsAsked`), no request adds what it removes (`Apart`), what a call under way found is still there when it commits (`StillThere`), and what a request adds is there until it has ended (`InPlace`). So the purge, later, takes what it should and nothing of its own |
| `PurgesAreYounger`: `OrderlySpec => OnlyYoungerRequestsPurge` | - | the same invariant: the request a success speaks for is, by `Serial`, the youngest of its app, and it does not remove what it added itself |
| `Unforgotten`: `Spec => []NobodyForgotten` | `Heard`, `Delivered` | `Waiting`: a request the state machine has not heard of was never received, and is in the queue or with the call that committed it. Receives run out, and names are used again, only for one that has an execution; and a closed execution has reported (`Truthful`) |
| `AbandonedForGood`: `OrderlySpec => AbandonedBlocks` | - | nobody takes the request up again (`NobodyNew`): ids are not used again, messages not made up, executions not started without one. And its app stands still (`AppStands`): `StillQuiet` keeps commits and purges away, and by `Serial` a callback for another request of the app repeats a failure |
| `Implements`: `OrderlySpec => OneAtATime` | - | the steps that touch the tables are a commit, a callback and `purge_app`, and map to the abstract steps; all others stutter. An app is busy in the abstraction while a live request of it has not ended, and `Serial` says there is one at most |

`OrderlySpec` is `Spec` whose steps satisfy `Orderly`: no two calls on one app are
both between their reads and their commit (`TakingTurns`; the run `race` refutes the
theorem without it), and for a request that has ended no execution is started
again under its name, no Lambda invoked again, no late callback applied
(`NothingAfterTheEnd`; the run `rerun` refutes it without). Neither is enforced by the
code: they are what it would have to enforce, and nothing else is needed. `NothingAfterTheEnd` is a strong
condition: what is invoked again, redelivered or applied late for a request that HAS ended is left out of every theorem and run
about `OrderlySpec`, not shown to be harmless. It is not: a late IN_PROGRESS, or a Lambda invoked
anew after it reported a failure, does reopen a request. `TerminalIsFinal` in `orderly` is about the work still under way when
a request ends; `EndIsFinal` names the faults without which nothing comes later. Calls on
different apps overlap, Lambdas are invoked again and callbacks applied late while the
request is under way, crashes, failing work, failing calls, duplicated and lost
messages come as they like. `OneCaller` (one HTTP session at a time) and `Calm` (no
re-used names, re-invoked Lambdas or late callbacks) are enough for both, by
`CalmIsOrderly`.
`Heard` excludes what keeps a report from
the control plane: checks that raise (finding 1), crashes, refused or late callbacks, re-invoked
Lambdas; callers may overlap. `Delivered` excludes a publish and a consumer that fail. The two, together
with `AbandonedForGood`, tell apart the faults a request survives and those after which its application is
closed for good, until somebody edits the database.
The proofs are one lemma per action and conjunct, assembled by `PTL`.

`DesiredStateProofs` proves, for every value of the constants that satisfies
`DesiredStateAssumption` (any environments, services, types, slugs, deltas, number
of requests and faults):

| theorem | argument |
|---|---|
| `TypeCorrect`: `Spec => []TypeOK` | `Inv == TypeOK /\ Home /\ Born /\ Gone` is inductive. `Merged` needs the validation: an edge of a patch must find its capability (`ValidPatch`) and its services (`ValidEntry`), or it dangles |
| `OneEnvironment`: `Spec => []OneEnvironmentEach` | `Home`: every edge leads into the environment its capability was added for. An upsert finds a row by its derived environment, a patch is refused elsewhere, so `Home` is what makes the derivation and the validation agree. It holds of every capability outside `strayed`, and `Merged` adds to `strayed` exactly those of which a patch was looked up elsewhere |
| `PurgeWaits`: `Spec => PurgeAfterTeardown` | `Gone`: after `CheckReady` the removed claims read absent and, as extract applies none and Crossplane makes none, still do at `Succeed`. `Born` (no row is younger than the latest request) says that a create has nothing to overwrite |
| `KeySurvives`: `Spec => StoredKeySurvives` | the three steps that touch secrets: a deletion names what is removed, a sweep what is deleted, `ExtractClaim` merges into what is stored |
| `NoOrphans`: `Spec => NoOrphaning` | `Held`, inductive together with `Inv`: while a request is under way, every capability it does not tear down, and that has no twin, has an accessor it does not remove (`Held`, for capabilities outside `strayed`). The orphan rule establishes it over the rows as they will be after the merge (a patch may revoke the edge it counted on, then the patch's own services hold; a grant it counted on goes to this capability because it has no twin), and the purge uses it, any number of steps later |
| `SuccessProvisions`: `Spec => []Provisioned` (`ProvisionedProofs`) | `Progress`, inductive beside `Inv`, says how far the run is: behind Step 1 the overlays list what stays (`Deployed`), behind the check every instance that stays is ready or was misread (`Checked`), in extract each claim that is done has its connection, and its patch unless another capability in the environment uses its slug (`Stored`, `Alone`). A retry takes nothing back but starts the loop over; Crossplane unsettles nothing; the purge takes only what was torn down |
| `AccessRevoked`: `Spec => []AccessEnds` (`ProvisionedProofs`) | `Exact`: a claim extract is through with injects its accessors and nobody else, as long as no other capability that stays uses its slug (then the later of the two would overwrite the patch). After the purge these are the accessors that are left and the services the request removed |
| `RemovalWithdraws`: `Spec => RemovedIsWithdrawn` (`ProvisionedProofs`) | `Withdrawn`: Step 1's push leaves out the services that are to leave and empties the patches of the capabilities that are to go; extract writes patches of claims that stay, and one of these is a removed claim's only if they share the slug |

| `ShowsSuccess`: `ShownSpec => []SuccessIsShown` (`ProvisionedProofs`) | `ShownSpec` takes the steps of `Spec` (`ShownSteps`), so `Inv` and `Progress` are at hand. At SUCCESS all kept claims are done, every capability visible after the purge was kept (`PurgeKeeps`), so `Rolled` says success of each and takes it out of `early` |
| `EarnsStatus`: `ShownSpec => []StatusIsEarned` (`ProvisionedProofs`) | `ShownInv`, with `Earned` for all rows instead of the visible ones, as a merge may bring an orphan back. An update resets the rows whose config it writes; a deletion takes an instance or a secret by its name, so `undone` must hold every capability that uses the name, twins and sharers of a slug included; a poll says success of what it read as ready, extract of what it stored (`ServedStands`) |

Of callers these assume what `DesiredStateAssumption` says, of faults nothing: runs
fail, start over, and skip cleanups as they like, and of Crossplane nothing but that an instance it
holds ready stays so until it is deleted.

`ClusterRegistryProofs` and `AppStatusProofs` prove, for every value of the constants that
satisfies `RegistryAssumption` (any number of overlapping calls, applications,
environments, clusters, requests and readers):

| theorem | argument |
|---|---|
| `Types`: `Spec => [](TypeOK /\ Asked)` | `Asked` says that a call under way is one of `Inputs` and that what inserts registers: a row is complete only for that reason. Ids and names are unique since a commit looks at the live rows |
| `Routed`: `Spec => []ServicesRouted` | `Inv` adds `FoundStands`, `FoundOld`: whatever row has the id that a create found is of the same environment, because ids are not used again and no update moves a cluster. The foreign key does the rest, in both directions |
| `OneEach`: `Spec => []OnePerEnvironment` | `FreeStill`: a registration about to insert, that nobody overtook, still finds its environment free; so two rows need an overtaken one |
| `Together`: `Spec => []EnvironmentOnOneCluster` | from the two above |
| `DeletesWholly`: `Spec => DeletedIsGone` | the purge looks on the one cluster of the environment, where by `Routed` all its services are |
| `KeepsCredentials`: `Spec => CredentialSurvives` | a written field is what was stored or what the call gives, never what it had read |
| `ImplementsRouting`: `Spec => RoutesEnvironments` | every commit maps to one step on one environment. `FreeStill` makes an insert open a closed environment, `FoundStands` makes a create place its service where the environment leads now, the foreign key and `OneEach` make a deregistration close one that is empty, and the purge clears one wholly (`FindsAll`) and nothing else; `Dated` (services bear the number of their request) makes what is placed new. Renames, refreshes and all reads stutter |
| `Whole`: `StatusSpec => []SuccessIsWhole` | readers change no table, so all of the above holds beside them. `Deleted` (services of a deleted environment are younger than the request that deleted it) is inductive; a reader that read the request before the services gets from it what it needs, and no later step takes that back |
| `Named`: `StatusSpec => []BlocksNamed` | `Snapshot`, `Blocks`: the clusters of services a reader holds keep their environment as long as they are there, and an id that is gone stays gone |

`HealthReporterProofs` proves, for every value of the constants that satisfies
`HealthAssumption` (finitely many sweeps; any services, clusters, Applications, time limits):

| theorem | argument |
|---|---|
| `TypeCorrect`: `Spec => []TypeOK` | `IInv` adds `Counted`: the rows of a service and the sweeps about to insert one are together no more than the sweeps. A write of a sweep that found no row turns one into the other; a sweep becomes one that inserts only while there is no row |
| `NoOrphans`: `Spec => []NoOrphanSetup` | `Known`: a sweep reports only services that were there, and a report to one that is purged is refused; the purge commits only if it has read all rows there are |

`GitOpsRepoProofs` proves, for every value of the constants that satisfies
`GitOpsAssumption` (any environments, services, claims, requests, builds and faults):

| theorem | assumes | argument |
|---|---|---|
| `TypeCorrect`: `Spec => []TypeOK` | - | `Typed == TypeOK /\ Shape`; the one fact that is not bookkeeping is `RenderTyped`: a path Step 1 renders is never among those it removes in the same push, whatever the rows and main are |
| `KeepsOthers`: `Spec => NothingLost` | - | `Careful`: what is rendered keeps what was read (`Rendered`), the branch starts from main and remembers where main had moved on (`Synced`), so what it changes keeps what its base had (`Faithful`) for as long as its request is the latest; a commit that GitHub would accept is based on main (`OnHead`). A merge without conflict replaces a file only where main is still the base, and so loses nothing |
| `PublishesRows`: `Spec /\ []Homed => []Published` | `Homed` | `Tidy`: what Step 1 is about to push (`Plan`) is what the request asks for; from the reset of the branch to the merge main changes by tags only (`Settled`), because a reviewer who merges in between finds nothing to merge yet or leaves Step 1 nothing; so what is merged is what was pushed (`Ready`) |
| `NothingReturns`: `Spec /\ []Homed => NoResurrection` | `Homed` | the same invariant: an overlay the branch adds has a service that outlasts the purge (`Homeward`), so it is still deployed when a reviewer merges much later; extract commits only for claims that have rows (`Held`) |
| `OverlaysBuild`: `Spec /\ []Homed => []OverlaysResolve` | `Homed` | `OnMain /\ InRun`, inductive beside the two: Step 1 pushes what its kustomizations list or leaves it where it read it (`Listed`), so the branch resolves (`TreeResolves`); until somebody merges it main only grows (`Grown`), and never by a line whose file the branch takes away (`NotTaken`), because the claims extract serves are not among those the request releases and have an overlay (`Spared`, `Housed`) |

`Homed` says that no update takes the last service of an environment while others keep
theirs. Without it `Published` and `NoResurrection` are false, by finding 5: the code renders an
overlay, listing the services of the other environments, for the one that has just lost
its last. The requests of `gitops` are such that it holds.

Only model-checked: liveness (`Resolved` and `FailureIsSeen`, which hold, `RecoveryIsSeen`, which does
not), because it needs fairness and is outside the prover.

## 5. What is done, what is left

Done: the nine components of section 1 that keep state, but for the parts named as left out
above; the hazards with a property in `PROJECT.json`.

Left, in this order:

1. The `outputs` and `errorMessage` of a capability: the callback writes what is not None, as for
   deployment setups, where `health_recovery` shows what that leads to.
2. Two applications on one prefix of names (IAM users, secrets).

Not modelled, and why:

* Authentication and team membership (stateless checks), HTTP routing and DTO formats
  (no state), migrations (the resulting constraints are modelled where they refuse a
  commit), the frontend (views over the API), Crossplane compositions, ArgoCD manifests and Terraform
  (inputs of external controllers; their limits are constants here), operator
  scripts (sequential callers of the same API).
* The password of a database. `_apply_claim` of Step 2 (handler.py, 769-795) generates one and merges it into
  the secret `<claim>-creds` on every apply, although its comment speaks of generating it once;
  the check then passes on the conditions of the earlier apply, and extract mirrors
  whatever connection the provider published by then. Which password the database has at that moment is decided by
  the provider, which is not in this repository: a model would only choose.
* Two unreachable clusters at once in a sweep (see the bounds above): that the clusters behind them are
  never reported follows from two time limits, 90 s in 120 s, and needs no model.
