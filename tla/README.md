# Insurance Hub in TLA+

Insurance Hub sells and manages insurance policies. The repository holds it
twice: the legacy Micronaut services under `src/legacy`, and the Go services
under `src/services` that replace them one by one. The two meet in Kafka: the
legacy policy service publishes `policy-registered-v1` and
`policy-terminated-v1`, and the Go services project them into Elasticsearch.
Python scripts administer what the services depend on: database roles,
Elasticsearch identities, Kafka topics and the Kubernetes Secrets that carry
their credentials.

This directory models the parts of the system that keep state and run
concurrently or can stop half way: the projection workers, the life of a
service, and the scripts that operators and pipelines run against PostgreSQL,
Elasticsearch, Kafka, Kubernetes, Flux, LXD and Docker. TLC checks them on small
instances; TLAPS proves for all instances what does not depend on fairness or on
a fold: the types and all but a few of the safety properties.

## Inventory

| Component | State | Operations | Talks to |
|---|---|---|---|
| Projection workers (`dashboard-service`, `policy-search-service`: `internal/kafka`, `internal/application`, `internal/elasticsearch`) | a consumer group's partitions and committed offsets; per worker the batch in hand and what was polled; Elasticsearch documents by policy number | poll, decode, project, skip, break, auto-commit, rebalance callbacks, shutdown | Kafka, Elasticsearch |
| Service lifecycle (`internal/service/service.go` of both, `libs/servicekit/health`) | the resources in hand, the readiness flag, the handler tracker, two budgets | acquire in order, select, shut down in order; probe; admit a request | everything in the process |
| Worker readiness (`Worker.Check`) | the assigned flag | set and cleared by rebalance callbacks, sampled by readiness | lifecycle |
| Product administration (`product-service/internal/administration`) | schema version, roles and grants, seed rows, one advisory lock | migrate, grant, seed | PostgreSQL |
| Product roles (`scripts/product_deployment/reader.py`, `administration.py`) | role passwords, membership and target marker in PostgreSQL; three role Secrets and a target Secret; protected recovery files | provision, verify, rotate, revoke, each for a reader and an administration profile | PostgreSQL, Kubernetes |
| Dashboard and search administration (`dashboard-service/scripts/reader_administration.py`, `event_administration.py`, `policy-search-service/scripts/cutover_administration.py`, `fixture_administration.py`) | Elasticsearch index, roles and users; Secrets; CAs; Kafka topic | ensure, rotate, set up, verify, migrate, retire | Elasticsearch, Kubernetes, Kafka |
| Deployment and release (`scripts/go/service`, the three `*_deployment_checks.py`, `go-release-svc.yml`) | Deployment, Pods, administration Job, qualification Pods; the release bundle on `main`, Flux owners | preflight, load, deploy, status, verify, stop; push, release, retry | Kubernetes, Git, registry, Flux |
| Cluster administration (`k8s/scripts/admin`) | virtual machines and snapshots, K3s, kubeconfig, platform Secrets and copies, Zipkin's and MinIO's users, Kind cluster, forwards | create, snapshot, restore, pull, deploy, configure, aggregate, forward | LXD, kubectl, helm, kind, docker |
| Disposable deployments (`*/scripts/disposable_deployment.py`, `deployment_lifecycle.py`) | a namespace, its service, stores and probe Pods | deploy, disturb, replace, remove | Kubernetes |
| Observability acceptance (`k8s/scripts/alloy`) | containers, a network, counters on their way, evidence files | load, break, replace, compare, tear down, aggregate | Docker, Alloy, Prometheus, Loki, Tempo |
| Monitoring administration, shared and legacy releases, topology (`k8s/scripts/monitoring`, `scripts/go`, `scripts/legacy`) | Git documents, charts | validate, install, publish a tag | Git, registries, helm |
| Product catalogue (`product-service/internal/http`, `postgres`, `service`) | none of its own; a compatibility state per connection | list, get; own lifecycle | PostgreSQL |
| Policies (legacy `policy-service`) | offers, policies and their versions | create offer, create policy, terminate | PostgreSQL, Kafka |
| Payments (legacy `payment-service`) | policy accounts and their entries, bank statement files | open an account on an event, import a statement | Kafka, PostgreSQL, MinIO |
| Documents (legacy `documents-service`) | documents in MinIO, a row for each | generate on an event, find | Kafka, JSReport, MinIO, PostgreSQL |
| Telemetry and diagnostics (`libs/servicekit/telemetry`) | a bounded span queue, a rate limiter | enqueue, report saturation | OpenTelemetry |
| Dashboard and search queries, gateways, gRPC transports | none | translate | Elasticsearch |
| Pricing, authentication, chat, web clients | tariffs, users, chat rooms | calculate, log in, talk | |

### What is hard here, and what correctness means

* **Projection workers.** franz-go commits on its own what was polled *before*
  the current batch, while the loop decides by `continue` and `break` which
  records of the batch it looks at. Members change in the middle of that,
  processes die, Elasticsearch may apply a request its client gave up. Correct
  means: what is committed was handled or given up for a known reason; events
  are written at least once when nothing failed; committed offsets do not go
  back; one bad record costs at most the rest of its batch and blocks nothing;
  a document ends at the newest event of its policy.
* **Service lifecycle.** Any step of startup may fail, cancellation and
  failures arrive at any time, everything that is waited for may hang. Correct
  means: nothing that was acquired is left behind, nobody loses what they still
  use, no request slips in behind the drain, a probe never says "ready" during
  a shutdown, and the process ends.
* **Worker readiness.** A flag set by one goroutine and sampled by another.
  Correct means: ready is not reported for longer than documented without an
  assignment.
* **Product administration.** Overlapping jobs take one advisory lock in
  separate transactions. Correct means: they do not interleave, rerunning is
  harmless, a job that fails leaves the previous state.
* **Product roles.** Every script changes two systems without a common
  transaction, a call may be applied and still be reported as failed, a signal
  ends a script without its undo, and nothing keeps two operators apart.
  Correct means: a script that says *passed*, *restored* or *compensated* left
  the roles and Secrets that this implies; a credential that was replaced can
  be found again; a failure leaves a state that the scripts accept.
* **Dashboard and search administration.** The same over more resources, with
  retries that must recognise their own half of the work. Correct means: a
  script that passed did what it was run for, a rotation that says it was
  rolled back left a Secret that logs in, running a setup again takes no login
  away, and wherever scripts stopped another goes on.
* **Deployment and release.** Commands observe a Deployment through a status
  that is written later, and a release is rebuilt, retried and overtaken while
  Flux applies it. Correct means: a command that passed deployed, verified or
  stopped what it says; what a verification creates is removed; no API runs
  before its own release's initialization; a release drops no prerequisite.
* **Cluster administration.** Commands stop between two machines or between a
  password and its copies. Correct means: paused machines are resumed, a
  restore is one cut, copies agree when an aggregate passed, credentials made
  for a command are gone after it.
* **Disposable deployments and acceptance.** The checks themselves: a wait that
  is satisfied by state from before the disturbance proves nothing, and what
  they create must go whatever fails. Correct means: "passed" is said of the
  state after the disturbance, evidence is of what was tested, a script that
  passes leaves nothing, and one that fails nothing that it had noted as its own.
* **Policies.** Events are published inside the database transaction that may
  still roll back; two terminations can read the same last version. Correct
  means: version numbers are unique and dense, covers do not overlap, an event
  is published for what was committed.
* **Payments.** The statement is moved before the payments commit; the job may
  run twice; accounts are opened by check-then-act. Correct means: a payment
  is registered exactly once or the failure is known.
* **Documents.** The object is stored before the row, and redelivery repeats
  both.

PROJECT.json lists these hazards at their lines, with the property that covers
each.

## Modules

| Module | What it is |
|---|---|
| `PolicyEventWorker` | both Kafka workers, their group, topic and index |
| `MCPolicyEventWorker` | its instances for TLC |
| `PolicyEventWorkerProofs` | theorems about it, among them that the documents converge |
| `ServiceLifecycle` | `run`, `shutdown`, handler tracker and readiness of both services |
| `ServiceLifecycleProofs` | theorems about it |
| `RoleAdministration` | the Product role scripts, with both profiles on one database |
| `RoleAdministrationProofs` | theorems about it, for one operator at a time |
| `ElasticAdministration` | the four scripts for Elasticsearch identities, index, topic and Secrets |
| `ElasticAdministrationProofs` | theorems about the four scripts, by outlines of their steps |
| `ClusterAdministration` | the commands of `k8s/scripts/admin` |
| `ClusterAdministrationProofs` | theorems about them |
| `ServiceDeployment` | deployment commands, release preparation, the release workflow and Flux |
| `MCAdministration` | the three of them side by side, for TLC |
| `ServiceDeploymentProofs` | theorems about `ServiceDeployment`, and about `MCAdministration` from those of its parts |
| `DisposableDeployment` | the scripts that deploy a service to a namespace of their own |
| `DisposableDeploymentProofs` | theorems about it, and its safety refinement of `OwnedEnvironment` |
| `ObservabilityAcceptance` | the telemetry checks on containers of their own |
| `OwnedEnvironment` | what those scripts promise: an abstract specification |
| `MCAcceptance` | the two of them and the refinement, for TLC |
| `ObservabilityAcceptanceProofs` | theorems about `ObservabilityAcceptance`, its safety refinement of `OwnedEnvironment`, and theorems about `MCAcceptance` from those of its parts |

### PolicyEventWorker

The two `consumer.go` files have the same control and differ in what they
decode: the constant `Decode` maps the *shape* of a record to `event`,
`failure` (a handler failure: the rest of the batch is left) or `malformed`
(the record is skipped). A worker subscribes to one topic, so a topic is a set
of partitions and `Subscription` gives the partitions of a worker.

* Broker: `log`, `committed`, `owner`. Offsets count from 1, and
  `committed[p]` is the number of records committed.
* Worker: `pc` (`idle` in or before a poll, `handling` a batch, `stopped` after
  `Run`, `down`), the cancelled context, and for each partition three
  positions: `head`, what auto-commit may commit; `cursor`, what was handled;
  `position`, what was polled. These three are what `consumer.go` and
  franz-go's `autocommit` keep between them.
* Index: `doc[n]` names the record that document `n` was made from; `late` are
  requests the client gave up that Elasticsearch may still apply.
* History: `written`, `skipped`, `failed`, `abandoned`, `dropped`, `overdue`
  say what became of each record. No guard reads them.

`Poll`, `PollCancelled` and `StopRun` are the loop of `Run` (dashboard consumer.go
231-244); `SkipMalformed`, `FailDecode`, `Project` and `FailProject` its body
(245-288) with the projection and the writer; `Shutdown` is `Worker.Shutdown`;
`Assign`, `Revoke` and `Expire` the coordinator with the callbacks of
`NewWorker`; `AutoCommit` the client's loop; `Exit` a crash or the end of the
process; `Start` the next one. The broker and the client are not under `src/`:
their actions model how `consumer.go` configures and uses them
(`AutoCommitMarks` is off, `BlockRebalanceOnPoll` is on, user callbacks on
revocation replace the client's commit).

### ServiceLifecycle

`Startup` is the sequence of resources a service acquires, `held` what
`runningService` holds, and `pc` a stage of `run` or a phase of `shutdown`
(`ShutdownOrder`). Startup may fail at any acquisition (`FailAcquire`), at the
checks of the stores and of the workers, and while the servers are composed;
each of them goes through `Fail` into the same shutdown. Beside `run` act the
workers, the three servers, requests on their way through the tracker and the
gRPC server, the readiness probe, cancellation and the graceful deadline. The
two services differ in four definitions of `service`, which the initial state
chooses: order of acquisition, workers, whether a
failed `NewWorker` leaves a nil pointer in the interface field
(`KeepsFailedWorker`), and whether the first select watches worker results
(`WatchesWorkers`). What both do alike is to keep the result of a failed
`NewServer` of gRPC: `LeftBehind` is the nil pointer that a constructor leaves
in a field shutdown finds not nil, and shutdown panics where it calls it. So
`Released` says that `run` returns with everything released, and that a failed
start which left such a pointer is the only way not to return.

### RoleAdministration

The two scripts share the reader role and its Secret, so one module has both:
`database` is what PostgreSQL holds (role passwords, the reader's `SELECT`, the
migrator's membership, the target marker), `secrets` the three role Secrets and
the target Secret, `recovery` the contents of the protected files, and `op[o]`
the attempt of operator `o` with what it read (`seen`, `held`), what it wrote
and where it is. Passwords and the target's instance id are random, so the
number of the attempt that drew them stands for them.

Every external call is one step (`Call`), with the transaction or the Secret as
its effect: it succeeds, fails without effect, or fails although it was
applied, because `command()` gives up after 30 seconds. What a failure leads to
is `Failing`: the compensation of `provision` (`UndoSecret`, `UndoSql`,
`UndoCheck`) or the restoration of `rotate` (`RestoreSql`, `RestoreSecret`). A
signal (`Interrupt`) raises `ProductSignal`, which no `except Exception`
catches. `Inputs` are the preconditions, `CheckState` and `CheckLogin` the
verification. The Deployment and the Jobs that forbid a revocation are inputs
of `Begin`; `GrantReader` is the migration Job. The consumer gate and the
privilege details of `check_boundary` are reduced to the role and its `SELECT`.
The product table exists, as the inventory of the reader requires.

### The scripts

Five modules share a form. A script is a *sequence of steps*, put together
from one operator for each function of the source (`ReaderRotate`,
`SnapshotNodes`, `ProductVerify`, `SearchLoss`, `RecoveryPhase`, ...) in the
order of its calls. A step is one external call, one wait or one check: the
pair of what is done and what it is done to. `world` is everything that
outlives the script, `run` the script under way: the steps to do (`todo`), what
it has to take back (`owed`), what it read, and its verdict. The actions are
the same for all steps:

* `Perform` (`Step`): what the step asks holds (`Holds`, `Accepts`), its
  `Effect` happens, the script `Learns` and goes on;
* `Refuse`: what it asks does not hold, a wait is at its deadline, or a check
  whose data the model leaves out (`"judge"`) does not pass;
* `Fail`: the call fails, before its effect or after it (the answer was lost);
* `Interrupt`, `Exhaust`: a signal or the end of a time budget;
* `Kill`: the script ends without any cleanup.

Which of them the `except` and `finally` blocks catch differs by script and is
what `Failing`, `Raised`, `Finally` and `Cleaning` say. Contents of manifests,
responses and metrics are steps of kind `"judge"`, which may pass or fail at
any time: their control is there, their data is not.

* **ElasticAdministration.** `world` has the index and its documents, roles,
  users, Secrets, CAs and the topic, each absent, ours or foreign. A password
  is the number of its drawing. `AfterFailure` and `Rolls` are the undo of
  the reader's rotation, the only one there is. `Write` is the workload and
  `Renew` the operators that renew a CA. The four initial profiles include an
  object that belongs to somebody else.
* **ClusterAdministration.** Three profiles: the QA machines (`qa.py`), the
  platform on them, the local cluster (`cluster.py`). A step that makes
  something to be undone puts that in `owed` beforehand (`Owes`, `Owing`), as
  the code opens its `try` before the call. A command that asks which machines
  exist (`Asking`) may miss some (`Seen`, `missed`), because a query that fails
  is answered with no. An error while debts are paid is remembered (`errors`) and
  said only if nothing had failed before (`Told`): else it is a note of the
  first error, and notes are not printed. The first signal raises, later ones
  are ignored; one that comes while debts are paid ends the command there. A
  forward whose start a signal cuts off may run without being on the list of
  those to end. `CutOff` is the end of an aggregate's
  time or a signal while a target that it called through make is at work: the
  target is ended with some seconds of grace, too few for its own cleanup.
* **ServiceDeployment.** `Deploy`, `ProductVerify`, `DashboardVerify`,
  `SearchVerify`, `ProductStop` and `Stop` are `execute()` with the service's
  checks. Beside them act the Deployment's controller (`Rolls`), kubelet
  (`PodMoves`), the status writer (`StatusWritten`), the Job controller and, in
  QA, the chain from a push to Flux: `PushSource`, `StartRelease`,
  `FinishRelease`, `RunAgain`, `Retry`, `ApplyBundle`, `InitializeReady`,
  `ApiApplied`, `ApiReady`. Two of fifteen qualification Pods are modelled, one
  for each of the two namespaces. `Interrupt` is the exception of SIGINT, and of
  SIGTERM in Product's command, which ignores all further ones; SIGTERM ends the
  other two without cleanup (`Kill`). A removal of the clean-up that is
  interrupted is not begun again (`Cleaning`). A step without an answer may have
  been done (`Unanswered`): a Pod whose creation was not answered, and forwards
  that dashboard and policy search start before the `try` that ends them, are
  then left.
* **DisposableDeployment.** The three scripts with the controllers between
  them and what they observe: `CreatePod`, `RetirePod`, `PodReady`,
  `PodUnready`, `PodGone`, `UpdateStatus`, `UpdateSlice`, `StartElastic`,
  `StartKafka`, `Project`, `RemoveNamespace`. Two simplifications: Product looks
  at its outage over and over for 35 seconds, which is one check here; and the
  kill of Elasticsearch, whose exit code the script ignores, raises as other
  calls do, which in the code only its time limit or an interrupt makes it do.
* **ObservabilityAcceptance.** A counter takes its way from Product (`made`)
  through Alloy (`held`, `sent`) to Prometheus (`stored`), `Export` and
  `Deliver` moving it behind the script's back. The phases leave evidence
  files that a later aggregate reads.
* **OwnedEnvironment** is the abstract specification of the last two: an
  environment is acquired and released while a script runs, the script ends,
  when it says "passed" nothing is left, and when it says "failed" nothing that
  it had noted as its own (`held`). What it was making and had not noted
  (`making`) may be left by a script that fails, and that is what the code does:
  the dashboard does not note a namespace whose creation got no answer, and the
  policy search notes its probe image only when it is built *and* loaded into
  Kind. `MCAcceptance` maps the two to the namespace and the probe image of a
  deployment script, by whether the script has noted them, and `held` to all
  containers and networks of a telemetry check, and checks the implementation as
  a property.

`MCAdministration` and `MCAcceptance` put parts that do not interact side by
side, so that their properties are checked in one run each: the first extends
`ServiceDeployment` and instantiates the two modules on stores and clusters
with variables of their own (`site`, `command`), the second extends
`ObservabilityAcceptance` and instantiates `DisposableDeployment` on `cluster`
and `script`. `tool` chooses the part that moves in the initial state, and the
others stay where they begin.

## Runs

| Run | Instance | Shows |
|---|---|---|
| `worker_poison` | 1 worker, 2 partitions, 3 records that may fail, 1 restart | types; without failures or cut-off polls every committed event was written; a failure costs at most the rest of its batch |
| `worker_overlap` | 2 workers, 1 partition, 2 records, 1 restart, 1 rebalance | everything committed is accounted for; offsets never go back |
| `worker_topics` | 2 workers, 2 topics with events of one number | documents end at the newest event of one of the topics |
| `worker_progress` | 1 worker, 1 partition, fair | every record is passed, whatever it decodes to |
| `lifecycle` | both services, fair, every failure, 2 requests, a probe, everything may hang | everything is released, users before providers, unless a failed constructor left a nil pointer; a cancelled policy-search-service is no error; no late admission; ready means serving; the process ends |
| `lifecycle_bad_worker` | dashboard-service, `NewWorker` fails | violation: see Findings |
| `lifecycle_cancelled_start` | dashboard-service, cancelled while starting | violation: see Findings |
| `roles` | 1 operator, 3 provisions or rotations, any verifications and revocations, 2 failing calls (applied or not), 1 signal | passed, restored and compensated mean what they say; replaced credentials are kept; failures leave a way forward |
| `roles_lost_answer` | 1 call that is applied and reported as failed | violation: see Findings |
| `roles_recovery_input` | 2 failing calls in a rotation | violation: see Findings |
| `acceptance` | each disposable deployment and telemetry script, fair; 1 failing step and 1 kill, 4 telemetry scripts, 2 candidates | the waits after a disturbance are not satisfied by what was before it (`SearchReplaced`, `Recovered`, `NothingMissing`); evidence is true; the log follower ends; `OwnedEnvironment` is implemented: a pass leaves nothing, a failure nothing that was noted |
| `administration` | 3 commands on stores or clusters with 1 trouble, 2 on a deployment with 2; 2 images, 2 attempts; 1 CA renewal, 1 change by others | reports are so (`PassedMeansProvided`, `RestoredMeansRestored`, `ClusterDone`, `Served`); interrupted work is resumed or can go on (`Resumed`, `RestoredTogether`, `WayForward`); nothing is taken away (`RerunKeepsLogins`, `RefusedBeforeEffects`) or left, except by a clean-up that met an error (`NothingLeft`); releases keep their order (`Unlocked`, `Retains`) |

**Bounds.** `MaxLog`, `MaxEvents`, `MaxRestarts` and `MaxRebalances` bound what
the environment does, never what the worker does. Three records against
`MaxPoll = 2` give a full batch, a partial one and a record beyond it; a
failure with records before and after it in the batch and after it in the next
batch needs no more. One restart and one rebalance for each of two members
give every overlap of an old and a new owner; a third member adds nothing,
because a partition has one owner and positions are kept by member. The counter
bounds make the models finite and are why the worker runs say
`CHECK_DEADLOCK FALSE`: once everything is produced, handled and committed the
model may rest. The lifecycle ends by itself when `run` returns. Two requests
are enough for one that is inside while another arrives; the run checks
liveness and uses no symmetry. In `RoleAdministration`
three attempts that draw credentials give a state left by one, repaired or
worsened by another and judged by a third; two failing calls are one for the
attempt and one for its undo; the one signal can come at any point of any of
them. In `administration` three commands are one that is cut off, one that finds
what it left and one that is judged; one trouble is enough for that, because the
scripts on stores and clusters have one undo and its own failure ends the
report ("rollback failed", "resume failed"). Deployments get two faults in two
commands, for a lost answer in a verification and a failing cleanup. Two images
and two attempts give a release overtaken by another and by a retry. In
`acceptance` every script is run whole, with one failure anywhere in it, and
four telemetry scripts are three phases and an aggregate, or a failed phase and
its repetition.

**Fairness.** `FairSpec` of the worker asks that its own loop (`Poll`,
`Handle`, `StopRun`), the client's auto-commit, a shutdown that was asked for
and the restart of a stopped process go on, and that the coordinator assigns
free partitions and expires dead members: these are loops without exit
conditions in `Run`, in franz-go, in the broker and in Kubernetes. Nothing is
asked of producers, failures, cancellation or late requests. `FairSpec` of the
lifecycle asks that `run` takes its next step when it can and that timers
fire. Nothing is asked of workers, handlers, RPCs or probes: they may hang.
`MCAcceptance` asks that a script goes on, because each of its calls and waits
has a deadline after which it is refused; that Kubernetes removes a namespace
that is deleted; and that `docker logs --follow` ends with its container.
Nothing is asked of controllers, Alloy or Prometheus. The other runs check
safety only.

## Proofs

Every theorem is proved for all values of the constants of its module. Those
bounds are arbitrary, so the theorems hold of runs of any length. The
assumptions: `Partition` is finite (the code enumerates it), `MaxPoll` is
positive, the bounds of the worker and the lifecycle are naturals;
`OneOperator` for the role scripts (see there); `Bounds` for deployments and
telemetry, that there is an image, an attempt at its release, a candidate and a
Pod, and for the stores that documents and renewals are bounded by naturals;
`AnyBounds` for the compositions, the bounds of their parts together;
and for `EvidenceTrue` that no candidate is replaced during a script, which is
the finding above from the other side.

### PolicyEventWorkerProofs

For all workers, partitions, numbers, shapes and decoders:

| Theorem | Statement |
|---|---|
| `TypeCorrect` | `Spec => []TypeOK` |
| `CommittedAccounted` | `Spec => []Accounted` |
| `DeliveredAtLeastOnce` | `Spec => []AtLeastOnce` |
| `CommitsMoveForward` | `Spec => CommitMonotone` |
| `CollateralIsBounded` | `Spec => CollateralBounded` |
| `DocumentsConverge` | `Spec => []Converged` |

`Accounted` is not inductive: it says nothing of the worker that is about to
commit. The inductive invariant `IInv` adds

* `Positions`: `committed <= head <= cursor <= position <= Len(log)` for the
  owner of a partition. A member that lost the partition keeps stale positions,
  and the broker refuses its commits; without the condition on the owner the
  invariant is false, and without the order a late commit could move an offset
  back.
* `HandledSettled`: what a worker's cursor has passed is settled. Committing up
  to `head`, or up to `position` with the rest recorded as dropped, then keeps
  `Accounted`.
* `Reasons`: only events are written or abandoned to a failure, and abandoned
  records have a failed one, which is what `AtLeastOnce` needs.

`CollateralIsBounded` uses a second invariant, `BatchBounded`: a worker has at
most `MaxPoll` unhandled records (a cardinality, over all its partitions).

`Converged` speaks of a quiet moment, in which every partition has been read
to its end. On the way there a document may well be older than it was, in the
middle of a replay after a crash. What is invariant is that a document is
never older than an event that the worker of its partition has passed since it
was assigned, nor than a committed one (`Replayed`). That a new owner starts at
what is committed carries this over a rebalance, and `Ahead` over a commit: a
worker that reads a partition, fenced or not, is not behind what is committed,
so that what a commit adds has been passed. `Documents` and `Origins` say where
documents come from. All of it holds while no handler failed, no poll was cut
off and no request was given up (`Calm`), as the property demands; if any of
them happened the property says nothing.

### ServiceLifecycleProofs

For both services and any set of requests:

| Theorem | Statement |
|---|---|
| `LifecycleInvariant` | `Spec => []IInv` |
| `LifecycleTypeOK` | `Spec => []TypeOK` |
| `EverythingReleased` | `Spec => []Released` |
| `UsersOutliveTheirResources` | `Spec => []NoUseAfterRelease` |
| `NothingAdmittedLate` | `Spec => NoLateAdmission` |
| `ReadyOnlyWhileServing` | `Spec => ReadyMeansServing` |
| `SearchStopsCleanly` | `Spec => SearchStopsClean` |
| `PanicsOnNil` | `Spec => []Panics` |
| `SearchCleansProjection` | `Spec => [](service = "policy-search" /\ NilServer \notin held => FailureCleansProjection)` |

The properties say nothing of how far startup and shutdown are, so none is
inductive. `IInv` ties everything to `pc`: `Growing` is what a stage of startup
holds, `Shrinking` what each phase of shutdown has taken away for good
(`Past...` are the phases behind it), `Flags` what `ready`, `halting` and
`draining` say of the phase. `Complete` and `Employed` are the ones the other
direction needs: a request, a readiness flag or a started worker is a sign that
startup got through, so what shutdown has not released since is still there.
`Waited` says whom a shutdown within its budget has seen off. The argument for
`NoUseAfterRelease` is then the order of the phases: each resource is released
behind the phase that waits for its last user.
`EverythingReleased` needs one more invariant, `Panics`: a nil pointer is left
only by a startup that failed, only dashboard-service ever keeps the nil worker,
and shutdown panics on nothing else. `SearchCleansProjection` is the statement
that dashboard-service violates (see Findings); policy-search-service keeps it
unless its `NewServer` fails.

### RoleAdministrationProofs

For any mixture of failures, lost answers and signals:

| Theorem | Statement, assuming `OneOperator` |
|---|---|
| `RoleInvariant` | `Spec => []IInv` |
| `RoleTypeOK` | `Spec => []TypeOK` |
| `PredecessorNeverLost` | `Spec => []PredecessorKept` |
| `PassedIsDone` | `Spec => PassedMeansDone` |
| `RestoredIsRestored` | `Spec => RestoredMeansRestored` |
| `CompensationIsRegular` | `Spec => RegularCompensation` |
| `FailuresLeaveOne` | `Spec => FailuresLeaveAWayForward` |

The hypothesis `OneOperator` (`Operator` has at most one element) is not a
convenience: `reader.py:615` and `administration.py:521` read, decide and
write without a lock, and with two operators TLC violates every one of the
report properties. The theorems say what the scripts promise an operator who
is alone, as the runbook has it.

What a report claims depends on everything the attempt has done so far. `IInv`
has a part `Sound` for the attempt, which says for each step how the database
and the Secrets differ from what the attempt read before it changed anything:
nothing before the first transaction (`Beginning`), the roles it created and the
Secrets that were absent during a provision (`Made`, `Added`), the new password
on the roles and an old one in a recovery file during a rotation (`Replaced`,
`Turning`), the roles that are gone during a revocation (`Removing`). `Added`
is where a lost answer matters: a Secret that changed is in the attempt's list
`written` unless an answer was lost, which is the finding of `roles_lost_answer`.
`PredecessorKept` holds between attempts too and is carried along (`Kept`).
Every step is proved as a lemma about data - a database, Secrets, recovery
files and an attempt - and the actions apply it to the primed state.
`Reporting` says which step ends an attempt with which report; the four report
theorems go through it.

### ServiceDeploymentProofs

For any images, attempts, failures and overlapping releases:

| Theorem | Statement, assuming `Bounds` |
|---|---|
| `DeploymentInvariant` | `Spec => []IInv` |
| `DeploymentTypeOK` | `Spec => []TypeOK` |
| `ProductUnlocked` | `Spec => []Unlocked` |
| `MainRetains` | `Spec => Retains` |

Two ways lead to a Product Pod, and `Unlocked` needs an argument for each. In
QA Flux applies the API's owner when the owner it depends on is ready:
`Initialized` says that a ready owner has seen its Job complete, and `Grown`,
with `MainRetains`, that no release prunes the Job, because everything that was
applied is still on `main`. In local-dev a command applies the Deployment
itself, and the reason is in the steps that it has ahead: in `Guarded` no
`apply` comes before the wait for the Job, unless the Job is complete already.
That is proved once of the step sequences the commands are composed of, and
kept by every step, because a step that fails and is collected skips the steps
that depend on it. `Behind` is `Unlocked` with the image that the Deployment
will run.

The second half of the module is about `MCAdministration`, which is what the
run checks. `AnyBounds` asks for naturals as `MaxDocuments`, `MaxRenewals` and
`MaxValues` besides `Bounds`:

| Theorem | Statement, assuming `AnyBounds` |
|---|---|
| `AnyInvariance` | `AnySpec => []AnyInv` |
| `StoresProvided` | `AnySpec => PassedMeansProvided` |
| `StoresRestored` | `AnySpec => RestoredMeansRestored` |
| `StoresKeepLogins` | `AnySpec => RerunKeepsLogins` |
| `StoresRefuseFirst` | `AnySpec => RefusedBeforeEffects` |
| `AllTyped` | `AnySpec => []AllTypeOK` |
| `AnyUnlocked` | `AnySpec => []Unlocked` |
| `ClustersResumed` | `AnySpec => Resumed` |
| `ClustersTogether` | `AnySpec => RestoredTogether` |
| `ClustersDone` | `AnySpec => ClusterDone` |
| `AnyOrderly` | `AnySpec => []Orderly(world, run)` |
| `AnyServed` | `AnySpec => Served` |
| `AnyNothingLeft` | `AnySpec => NothingLeft` |

`Served` and the deployments' part of `NothingLeft` need to know where in its
script a command is. The steps a command has left are always the end of its
script (`Placed`), so that their number says it, and `Orderly` is stated by that
number. `Debts` is what a verification owes with so many steps left; `Done` is
what a command has seen done by then: the image that was applied, the Pods that
a wait on the status found, and, as the status may be old, `Told` says what a
status of the latest generation implies of the Pods. `Covered` is the other half
of the debts: every forward, Pod and namespace that is there is owed, or the
command has lost something (`lost`), in which case it does not pass.
`Closing` says what that amounts to when the last step is done.

`AnyInv` is the invariant of each part, for the part that is looked at. The
step lemmas of the parts' own modules are used through instances of these
(`Proofs`, `ClusterProofs`); `SameStores` and `SameClusters` say that these
instances and the ones in `MCAdministration` have the same definitions.

### ElasticAdministrationProofs

For any number of scripts, failures, lost answers, kills and renewed CAs, and
whatever somebody else owns of what the scripts look at:

| Theorem | Statement, assuming `Bounds` |
|---|---|
| `TypeCorrect` | `Spec => []TypeOK` |
| `Passed` | `Spec => [][PassedMeansProvided]_vars` |
| `Restored` | `Spec => [][RestoredMeansRestored]_vars` |
| `Rerun` | `Spec => [][RerunKeepsLogins]_vars` |
| `Refused` | `Spec => [][RefusedBeforeEffects]_vars` |
| `Stopped` | `Spec => []ForwardStopped` |

The scripts share no transaction with the stores, the Secrets or the CAs, and
each of them is a sequence of calls in which anything may fail. What a script may rely on is what its calls found or made, and a mark of
the outline is that: a set of *facts* (the role is ours, the user has the
password drawn, the Secret has it too, nothing was changed yet, ...) with the
meaning `Known`. `Follows` says which facts a call establishes, by a check or
by its effect, and which it destroys; `Allowed` what a script may call where,
by what it promises: one that refuses before effects (`"strict"`, `"final"`,
`"index"`) must know beforehand that its later calls will not be refused
(`Met`), one that keeps logins may give a user a password only when the Secret,
if there is one, already has it (`kept`). The outlines of the sixteen scripts
(`Leads`, composed as the scripts are) lead to the `Goal` of each verb. The
inductive invariant `IInv` says that the calls which are left lead from facts
that are true now to the goal, and the undo of a rotation to the login that the
rotation found. It was model-checked before it was proved.

The difficult cases are those in which a fact survives what is not atomic: a
rotation draws a password, writes the user, then the Secret, and its undo must
have the previous password from before the first of them (`guarded`,
`previous`); a retry after a kill finds the Secret of a user whose password it
does not know and takes it from there (`kept`).

### ClusterAdministrationProofs

For any number of commands, failures, signals, kills and changes by others:

| Theorem | Statement, assuming `Bounds` |
|---|---|
| `TypeCorrect` | `Spec => []TypeOK` |
| `MachinesResumed` | `Spec => [][Resumed]_vars` |
| `Together` | `Spec => [][RestoredTogether]_vars` |
| `NothingKept` | `Spec => [][ProtectedGone]_vars` |
| `ZipkinSet` | `Spec => [][ZipkinDone]_vars` |
| `AllInStep` | `Spec => [][InStep]_vars` |
| `ConfigKept` | `Spec => [][PreviousKept]_vars` |

Each property is about the moment in which a command ends with a verdict, and
what it says then was decided many calls before. The invariant `Good` has two
parts for that. `Covered` looks back: whatever the command has changed for a
time - a paused machine, a token, an archive, a credential file, the request and
the Pod of Zipkin's job, a forward - is in `owed`, from before the call that
changes it, so that a call whose answer is lost is covered too; or the command
has met an error in its clean-up (`errors`): it then does not pass, and the
properties except what it does not tell. `Ahead` looks forward:
the steps that are left in the body still do what "passed" will claim. For the
scripts whose result depends on the order (`zipkin`, `services`, `pull`) it
says what has been read, written or copied with so many steps left; for
`snapshot` and `restore`, that every machine that exists and was not missed has
its step ahead or its cut already, in an order in which all pauses precede the
first cut.
`Machines` holds between commands: a complete set of snapshots is one quiet cut.

A command settles when the last thing it owes is done. What is owed comes to be
done in reverse, one debt at a time, and the world changes under each. `Settles`
says of every action that, if it ends the command, the clean-up left nothing
that `Covered` speaks of, and that `Ahead` holds with nothing left if the
verdict is "passed"; `Outcome` is that for all actions, and the six action
properties follow from it.

### ObservabilityAcceptanceProofs

For any number of scripts, failures, signals and candidates:

| Theorem | Statement, assuming `Bounds` |
|---|---|
| `AcceptanceTypeOK` | `Spec => []TypeOK` |
| `BaselineComplete` | `Spec => []NothingMissing` |
| `EvidenceNamesTested` | `~Rebuilds` implies `Spec => []EvidenceTrue` |
| `OwnsItsEnvironment` | `Spec => Environment!Safety` |

The scripts have up to some sixty steps, and samples move between any two of
them. `BaselineComplete` is proved with an outline of the scripts in the manner
of Floyd and Hoare: a *mark* says what the script knows of the counter between
two steps (Product is gone, Alloy drained, Prometheus reset, everything stored,
noted as the baseline, one request since then, ...), `Takes` says which step
leads from which mark to which, and `Leads` composes steps to the sequences the
scripts are written from. `ScriptsOutlined` is the result: every script leads
from a clean environment through marks. The invariant then is that a mark
stands from which the steps that are left lead on (`Body`). That
export and delivery keep a mark rests on `Flow`: nothing is sent that was not
held, held that was not made, or stored beyond what Alloy holds of it.

`OwnsItsEnvironment` is the refinement of `OwnedEnvironment`, each step a step
or a stutter of it. Everything that exists was claimed by its name before it
could be created (`Body`), so the teardown begins with the removal of all of it
ahead, and keeps that until a removal fails, which it records (`Tears`).
`EvidenceNamesTested` carries what was proved from the end of the teardown to
the write of the evidence (`Writes`), and uses the mark `agreed` for the
aggregate.

The last part is about `MCAcceptance`, the composition that the run checks:

| Theorem | Statement, assuming `AnyBounds` |
|---|---|
| `AllTyped` | `AnySpec => []AllTypeOK` |
| `RestartReplaces` | `AnySpec => SearchReplaced` |
| `EveryScriptOwnsItsEnvironment` | `AnySpec => Kept!Safety` |

They join the invariants and step lemmas of this module and of
`DisposableDeploymentProofs`, as `ServiceDeploymentProofs` does for the
administration. `Kept!Safety` is `KeepsItsEnvironment` without its fairness.

### DisposableDeploymentProofs

For any number of failing calls, refused waits, interrupts and signals, any
delay of the controllers and any positive number of Pods:

| Theorem | Statement, assuming `Bounds` |
|---|---|
| `Invariance` | `Spec => []IInv` |
| `DeploymentTypeOK` | `Spec => []TypeOK` |
| `DeploymentOwnsItsEnvironment` | `Spec => Environment!Safety` |
| `RestartReplacesThePod` | `Spec => [][SearchReplaced]_vars` |

The abstract specification sees the end of a script only; the invariant is
about the finally blocks on the way there. `Ahead` lists what may be left of
each and what that means: with the namespace owned, its deletion or the wait
for it is among the steps that are left; the policy-search comes to its image
with the namespace gone, or with the verdict "left over". Three facts keep it:
the step under way changes the namespace and the image only as `Changes` says
(`EffectOK`, object by object), the script learns of ownership in two steps
and never forgets it (`LearnsOK`), and the controllers never bring back what
is gone (`ControllersOK`). An exception is the delicate case: `RaisedOK`
allows for a call that failed after its effect as well as before. `ScriptsOK`
says that the scripts consist of steps, and that only the policy-search builds
an image, so that nobody else has one to remove. What a script makes and what it
has noted differ for some steps; `Noting` says that while they do, the step that
notes it is still ahead in the body, so that a script which passes has noted all
it made, and its finally blocks remove all of it.

`RestartReplacesThePod` needs to know where the body of the policy-search is.
The restart begins ten steps before its end, so `Replacing` speaks of the
number of steps left: from the choice of a Pod on, its number is used up; from
its deletion on, it is the deleted one; from the wait for its disappearance on,
it is gone. It stays gone because the controllers create Pods with new numbers
only (`Follows`), and every Pod has the event worker because a policy-search
with a replica was never given another template (`PodsOfTemplate`). The rollout
wait contributes nothing, as its status may be old; the last query contributes
an address of the slice at which a Pod is ready.

### Only model-checked

* Liveness: `NeverBlocked`, the end of the lifecycle (`Stops`), `FollowerGone`
  and the fairness part of `KeepsItsEnvironment` for both kinds of scripts. The
  prover has no rule for `WF_` over these actions' `ENABLED`.
* `WayForward` of `ElasticAdministration` folds the steps of a script over the
  world. What a fold computes for every sequence is an induction over data, and
  the prover cannot instantiate the induction theorems.
* `Recovered` of `DisposableDeployment`. It depends on what every observation
  of a phase saw and on what the controllers did since, for each script in its
  own way; the outlines of `ObservabilityAcceptanceProofs` are the form its proof
  would take.
* The four violations under Findings.

## Findings

* **A failed `NewWorker` of dashboard-service panics in shutdown.**
  `runtime.worker, err = openWorker(...)` stores a nil `*Worker` in an interface
  field before the error is looked at, and shutdown's `worker != nil` is true.
  The test for this path uses an injected function that returns a nil interface
  and states that the projection is cleaned up. Run `lifecycle_bad_worker`.
  Both services store the result of a failed `NewServer` of gRPC the same way,
  and panic in `GracefulStop` before they close what comes after it; `Released`
  names that exception.
* **A cancelled start of dashboard-service reports a worker failure.** The
  first select takes a worker result without looking at the context, which the
  second one does. Run `lifecycle_cancelled_start`.
* **A compensated provision may leave a Secret.** `provision` remembers a
  Secret only after the call that writes it has returned. If that call timed
  out and was applied, compensation drops the role, misses the Secret and says
  that the partial state is compensated; the retry that the runbook asks for is
  refused. Run `roles_lost_answer`. As long as answers arrive,
  `RegularCompensation` holds.
* **The recovery input cannot be used when it is asked for.** After a rotation
  and its recovery have failed, `reader.py` says "use protected recovery
  input". Only `rotate` reads that input, after it has logged in with the
  Secret, which does not work in that state. Run `roles_recovery_input`.

Seen on the way, without a statement in the repository that they contradict:
a signal between the last role Secret and the target Secret of a first
provision leaves a marker whose instance id no Secret holds, which no script
removes; a revocation of the administration profile that fails after its
transaction cannot be repeated; and with two operators at once, attempts
overwrite what the other finished and none of the reports can be trusted.
`FailuresLeaveAWayForward` is stated for provisions and rotations that no
signal ended, and the runs have one operator.

The same for the scripts. Where a property is named, its definition or its
comment excludes the case:

* `reader_administration.py`: after ECK renewed the CA, `ensure` and `rotate`
  both refuse the copy in the workload's Secret and nothing replaces it
  (`WayForward`); a `put_identity` of `rotate` that fails after its effect is
  outside the block that restores (`RestoredMeansRestored` speaks of
  "restored" only).
* `event_administration.py`: `setup` writes both identities before it looks at
  the owners of the Secrets, the CA and the topic, so that a refusal may come
  after effects (`RefusedBeforeEffects` asks it of the retirement only).
* `policy-search-service/scripts/*_administration.py`: an interruption between
  the start of `kubectl port-forward` and its readiness leaves the process,
  because `__exit__` is not called then (`ForwardStopped`).
* `qa.py snapshot`: a command that fails half way leaves snapshots of one name
  from two moments, which `restore` accepts (`RestoredTogether` speaks of
  complete sets). `snapshot` and `restore` take a machine whose existence query
  fails or takes too long for one that does not exist, pass over it, and pass
  (`RestoredTogether` speaks of the others). The kubeconfig is merged without a
  lock: what somebody writes between the read and the replacement is lost
  (`PreviousKept`).
* `cluster.py`, `runtime.py`: errors of a clean-up that follow another error
  become notes of it, and `cli_error` prints the error without its notes, so
  that an operator does not learn of a credential file or a token that is left; a
  signal that comes in the clean-up ends it; one between the start of a forward
  and its place on the list leaves the forward (`Untold` in `Resumed` and
  `ProtectedGone`).
* `dashboard_deployment_checks.py`: in local-dev `verify` looks at the
  Deployment and not at its Pods; `stop` of dashboard and policy search believes
  a status that may be older than the scaling (`Served`); a
  qualification Pod whose creation got no answer stays, and so does what a
  removal that failed or was interrupted was for; `verify` of dashboard and
  policy search starts its forwards before the `try` that ends them
  (`ProbesGone`).
* `release.py`: two overlapping releases change the same lines, the second
  fails at its rebase and has to be run again (`FinishRelease`).
* `dashboard-service/scripts/disposable_deployment.py`: the restart check
  deletes with `--wait=false` and may pass on the status of the Pod before; a
  namespace whose creation got no answer is not removed (`Making`).
* `policy-search-service/scripts/disposable_deployment.py` assigns `probe_image`
  when `build_probe` returns: an image that was built and could not be loaded into
  Kind stays, and the script says that it failed and nothing of the image
  (`Making`).
* `policy-search-service/scripts/cutover_administration.py`: its verification looks
  at no CA and takes an index that is not there (`PassedMeansProvided` promises
  its two Secrets only).
* `disposable_acceptance.py` waits for the request counter before it reads
  the baseline, and then reads the count of the histogram, which may be behind;
  only the counter is modelled (`NothingMissing`).
* `disposable_acceptance_phase.py` reads the candidate's identity after the
  phase: if images are rebuilt meanwhile, the evidence names what was not
  tested. `Rebuilds = TRUE` violates `EvidenceTrue`.

## Plan

Done: all modules of the table, with proofs about each of the components and of
the compositions; `DisposableDeployment` and `ObservabilityAcceptance` as
refinements of `OwnedEnvironment`.

Worth proving next: `Recovered` of `DisposableDeployment`, with outlines of its
scripts as in `ObservabilityAcceptanceProofs`.

Worth modelling next: the Product administration Job from inside (migrations,
grants and seed under the advisory lock 190001 taken in separate transactions)
with one atomic step each as its abstract specification; the records of
policy-search-service without a number; the parallel shutdown of
product-service.

## Not modelled

* Dashboard queries, gateways, transports, configuration, logging and pricing
  are stateless translations; the web clients and manifests have no protocol of
  their own; the superseded legacy services are thin adapters.
* Policies, payments and documents (legacy): where their transactions begin and
  end, what is flushed when, and what a redelivered message meets is decided by
  Micronaut and Hibernate, which are not in the repository. Their
  hazards are listed.
* `Worker.Check`, the compatibility listener, the Product lifecycle and its
  administration Job from inside, telemetry batching: see the plan.
* `topology.py`, `shared_release.py`, `scripts/legacy/release.py`,
  `monitoring/operations.py`: one pass over documents or one command without
  state between runs.
* Of the modelled scripts: what manifests, responses, privileges, latencies and
  resources contain (steps of kind `"judge"`), and how long anything takes: a
  wait may give up at any time.
