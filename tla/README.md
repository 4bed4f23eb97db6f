# Open Conveyor: TLA+ models, checks and proofs

Open Conveyor runs one-shot coding agents on Kubernetes. A `Task` names an
agent class; the controller turns it into a Job with its own ServiceAccount,
Role, NetworkPolicy and ConfigMaps, follows the Job, records the agent's Result
and deletes the Task after its TTL. A webhook adapter turns events of GitHub and
the like into Tasks. The agents are shell scripts around `claude` that push
branches, open pull requests and post reviews. This directory holds models of
all three, small instances that TLC checks, and theorems that TLAPS proves for
every instance.

## The parts of the system

| Part | Source | Here |
|---|---|---|
| Task reconciler | `internal/controller/task_controller.go` | `TaskController` |
| Status, phases, TTL | `internal/controller/status.go` | `TaskController`, `TaskTypes` |
| Agent Result | `internal/controller/result.go` | `TaskController`, `TaskTypes` |
| Life of a Task as users see it | `internal/controller/status.go`, `result.go` | `TaskLifecycle` |
| Job builder, validation | `internal/controller/build.go`, `validate.go` | `AgentJob`, `TaskBuild` |
| Prompt, config, Secret projections | `internal/policy/prompt.go`, `config.go`, `secrets.go` | `AgentJob`, `TaskBuild` |
| Egress allowlist and NetworkPolicy | `internal/policy/networkpolicy.go`, `labels.go` | `Egress`, `TaskBuild` |
| Result contract | `internal/policy/result.go`, `agents/common/lib.sh` | `ResultFile`, `TaskBuild` |
| Webhook adapter | `internal/trigger/*.go` | `Webhook` |
| API types | `api/v1alpha1/*.go` | `TaskTypes`, `Webhook` |
| Metrics | `internal/metrics/metrics.go` | the count of terminal transitions |
| Manager binary | `cmd/main.go` | what it wires up: `Init` of `TaskController` and `Webhook`, their cached and live readers |
| Manifests | `config/`, `dist/` | not modelled |
| Agents and their library | `agents/*/entrypoint.sh`, `agents/common/lib.sh` | `Agents` |
| Git and GitHub | not in this repository | `GitHost` |
| Kubernetes | not in this repository | `Cluster` |

The controller and the adapter share nothing but the Tasks in the API server; the
controller and an agent share the Job and the Result file.
Tasks of different names share nothing but their agent class: every owned
resource carries the Task's name, and the work queue never runs two reconciles
of one name at a time. One name is therefore modelled. Leader election
(`config/manager/manager.yaml`, `dist/chart/values.yaml`) leaves one active
reconciler; the webhook server runs on every replica (`NeedLeaderElection`
returns false), which `Webhook` covers with concurrent requests.

## Modules

`TaskTypes` has the objects and the pure functions on them: `derivePhase`,
`ParseResult`, `isTerminal`, and which owned resources a spec wants. Specs are
reduced to the facts the reconcile branches on.

`Cluster` is the environment: users, the Job controller, kubelet, garbage
collector, TTL-after-finished, DNS and time. All of it is external; it is
written from what the controller relies on. `Disturbances` selects which events
outside of the normal course an instance has.

`TaskController` is the reconciler.

| State | Code |
|---|---|
| `cTask`, `cJob`, `cPods`, `cOwned`, `cClass` | the informer caches behind `r.Get` and `r.List`; each lags on its own |
| `unseenJob` | the watch still holds the creation of a Job, also when the Job is gone again |
| `pc`, `work`, `wClass`, `wJob` | the running reconcile: its next call, its local `task`, `agent`, `job` |
| `queued`, `timer` | the work queue, a pending `RequeueAfter` |
| `reports` | how often the end of a Task was reported (Event and metric) |

| Action | Code |
|---|---|
| `Reconcile` | the cached read of the Task and the branch for terminal Tasks |
| `ValidateTask` | `validateTask`, the class lookup, `markWaitingForAgentClass` |
| `Ensure(k)` | one entry of the list of steps: `ensureOwned`, `deleteIfExists`, or `failTask` on NXDOMAIN |
| `EnsureJob` | `ensureJob`, or `failTask` when the config has no delivery path |
| `SyncStatus`, `Report` | `syncStatus`: the write, then the Event and the metric |
| `RecordTerminalResult`, `CollectTerminal` | the functions of these names |
| `SyncTask`, `SyncJob`, `SyncPods`, `SyncOwned`, `SyncClass` | the watches of `SetupWithManager`, with `tasksForAgentClass` and `taskForPod` |
| `CallFails`, `Restart` | an error from any call; the process dies and a new leader lists everything |

A reconcile is cut where it writes. `Update` succeeds when the copy it starts
from equals the live object: that is what the resourceVersion compares. `Create`
of an object that exists fails. A lost answer is the step followed by
`CallFails`.

A cache that lags jumps to the live object: the states in between are passed at
once. For a Job this would lose an event. One that is created and deleted before
its informer looks leaves the cache as it was, yet the watch delivers both
events and each queues the Task. `unseenJob` keeps the first of them; without it
a Task could rest without a Job. (A watch that is cut and listed anew at
that very moment could miss both; the model does not have this.)

`Webhook` is the adapter. A request goes through `Receive` (method, body, cached
class by path), `LookupSecret` (live Secret, `VerifyHMAC`, `ApplyFilters`,
`BuildTask`), `FindActiveDuplicate` (live list) and `Create`. `CallFails`,
`GivesUp` and `LateCreate` are failing calls, dead replicas and creates whose
answer was lost. A redelivery is another request with the same event. Classes
and Secrets change at any time. The histories `published`, `rotated`, `created`
and `raced` serve the properties only. Abstractions: one `uniqueBy` key, one
filter, paths after the trailing slash is removed, class names that are label
values (the CRD asks for it), a signing algorithm that is not supported counts
as an empty Secret (both give 500), and a create rejected because a mapped name
exists is a failed call.

`TaskLifecycle` is the contract of a Task without caches, Jobs and calls: it is
created, progresses through the phases that are not terminal, ends once with one
of five outcomes, has its Result decided once, is reported at most once, and is
deleted. `TaskController` maps to it with `Lifecycle` (an `INSTANCE ... WITH`):
the live status, the uids given, the report that a reconcile has still to make.
`ImplementsLifecycle` is the contract as a property of the controller.

`Agents` has the entrypoints. A run is one container: its program counter, what
it checked out and committed, its partial Result, the Result file and the exit
code. Its steps are the calls of git and gh with their error paths: `die`, an
exit under `set -e`, or a warning. `Terminate` is SIGTERM with `_on_term`,
`OnExit` the EXIT trap, `Kill` SIGKILL or a lost node.

| Mode | Steps |
|---|---|
| implement | `ViewIssue`, `Clone`, (`Initial`), `List`, (`Checkout`), `Claude`, `CommitChange`, `Push`, `Pushed`, (`CreatePR`), `Unlabel`, `Relabel`, `Final` |
| iterate | `ViewPR`, `Threads`, (`Nothing`), `Clone`, `Checkout`, `Claude`, `CommitChange`, `Push`, `Pushed`, `Reply`, `Unlabel`, `Relabel`, `Final` |
| review | `FetchDiff`, `Compose`, `PostReview`, `Final` |
| report | `Gather`, `Compose`, `PostReport`, `Final` |
| answer (no repository) | `Answer`, `Final` |

`GitHost` is the host as the scripts use it: one repository, one issue with its
branch, the pull requests of that branch, labels, comments, review threads. A
commit is the set of its ancestors and itself, so that a fast-forward is a
superset; commits and comments have the order of one clock. People comment,
push, close and merge. A call that takes effect and still fails is modelled for
pushes, pull requests and reviews. The events of the review label go through the
dedupe of the adapter (`onReviewLabel`): an event creates a review Task (`due`,
until its run starts) unless one of the pull request is active. `asked` and
`dropped` are histories of the two cases, `quiet` of the comments made while no
run was at work.

`Egress`, `ResultFile` and `AgentJob` have the builders as operators, with the
contents that `TaskController` reduces to a number. An egress entry is a text
with or without padding; a summary is its length, the bytes of a character and the
places of white space and of format characters, which the two sides of the Result
file trim, cut and drop in different orders; a volume is its name and source, and a
mount its volume, its path and its key. `admitted` is the part of the API server's
validation that the names and paths of the builders have to pass. A loop of the code is a function on the numbers of
its iterations, and a map that the code sorts becomes a sequence by `sorted`: one
order for each set, whichever it is. `TaskBuild` puts them in sequence for one Task:
validation, NetworkPolicy, ConfigMaps, Job, refreshes under changing DNS
answers, then the Result that an agent writes and the controller parses.

`MCTaskController`, `MCWebhook` and `MCPolicy` give the instances their values. The
`*Proofs` modules hold the theorems. Operators marked "Variant" are the code
with a plausible mistake; each property of the runs below is violated when the
variant named for it in `PROJECT.json` takes the place of the definition.

## Properties

Safety of the controller:

* `PolicyCoversPod`: a pod of a live Task's Job runs only with the NetworkPolicy in place.
* `TerminalIsFinal`, `ResultIsFinal`: terminal phase and Result never change, whatever stale copy a reconcile has.
* `ReportedOnce`: the end of a Task is reported at most once.
* `PhaseIsHonest`, `ResultIsHonest`: phase and Result stem from a Job, and a container, of this very Task.
* `SettledIsConverged`: when queue and caches are quiet, a Task that is not terminal waits for its class with a timer, or has its Job, the status of it and exactly the resources its spec asks for.
* `CollectsOnlyExpired`: the TTL never takes a Task that is not terminal and expired, such as one that took the name over.

* `ImplementsLifecycle`: what a client sees of a Task, and the reports, is a behaviour of `TaskLifecycle`.

Liveness of the controller: `OutcomeReachesTask`, `TerminalGetsResult`,
`ExpiredIsCollected`, `WaitingTaskStarts`.

The adapter: `OneActivePerSubject` (two checked Tasks of a subject are active
together only if their requests overlapped between list and create),
`AnswerIsHonest` (200 means created; anything but 200, 500 or no answer means
never created), `TaskIsAuthentic` (each Task fits one version of its class and a
key its Secret had).

The agents:

* `NamedIsPublished`: a commit that a Result or a reply names is on the host.
* `ExitTellsResult`: a run that was not killed leaves a Result, one that tells of success after exit code 0, and such a Result with another code only after SIGTERM. The phase of the Task comes from the one, its Result from the other.
* `SuccessIsDelivered`: a successful implementer run links a pull request that exists and names a commit the host has; it made that commit unless `git commit` failed.
* `DeliveredStays`: while the pull request of a successful run is open, the branch has the commit of the run, whoever else pushes, merges or creates the branch anew.
* `ReviewFollowsPush`: after the push of a successful run a review was triggered that sees its commit, or the event was dropped because an earlier review was still active, also when runs relabel at once.
* `QuietFeedbackIsRead`: an iteration that is about to push has read every comment that its push makes old, except those made while a run was at work.

The builders:

* `PolicyIsCanonical`: order and repetitions of a DNS answer do not change the policy.
* `RefreshedIfItMatters`: `HasHostnames` is true exactly when another answer can give another policy.
* `RetriedForAReason`: a spec that `validateTask` accepts is retried only for the DNS, for a Secret whose name is no DNS label, or for inputs that the class mounts on one path; never for a missing prompt or for volumes and mounts that meet one another.
* `ConfigReachesAgent`: every field of the config reaches the agent, though env vars of one name hide one another.
* `PodIsComplete`: a ConfigMap that the pod projects exists with its key, and the prompt is where the class wants it.
* `WrittenIsRecorded`: of what `result_write` writes, every visible character and every link that the allowlist permits is recorded, but for the one size named below.
* `LinkIsReachable`: a recorded link to an address is one that the NetworkPolicy lets through.

## Runs

Runs that pass (states are distinct states):

| Configuration | What happens in it | States |
|---|---|---|
| `MCLifecycle` | one Task; every cache lags; class comes and goes; deadlines, lost pods, failing calls, restarts | 371,066 |
| `MCResources` | all six owned kinds, hostname egress, spec edits, class changes, rotating and vanishing DNS answers, a lagging NetworkPolicy cache | 2,439,024 |
| `MCReuse` | two Tasks of one name, TTL, deletes, a stale Task cache; agents that fail | 1,008,820 |
| `MCPods` | suspend and resume, foreign pods, removed pods, all kinds of messages | 1,763,500 |
| `MCExpiry` | the Job goes at any time; stale Task and Job caches; failing calls, lost answers, restarts | 1,096,736 |
| `MCEventually` | liveness with faults, lost pods, TTL, stale Job and class caches, and a class that comes and goes | 28,056 |
| `MCWebhook` | two requests of every form, redeliveries among them; edits of classes and Secrets; faults | 1,502,616 |
| `MCAgents` | two runs in any of five modes on one issue, an empty repository too; comments, pushes, closed and merged pull requests; failing calls and commits, SIGTERM and SIGKILL around one run | 1,830,744 |
| `MCPolicy` | egress lists, prompts, configs, Secrets and resources with every form of class; changing DNS answers; Results at the limits | 277,752 |

`MCLifecycle` and `MCReuse` check the refinement, which implies `TerminalIsFinal`,
`ResultIsFinal` and `ReportedOnce` there; where the three are checked by name, the
refinement is not. Deadlock is not checked: a
finished Task, run or request leaves nothing to do.

Runs that find a disagreement between a document, or a comment, and the code:

| Configuration | Statement | What happens |
|---|---|---|
| `MCRunsAfterTerminal` | "never reconciles a terminal Task into a Job again" (`docs/architecture.md`) | the phase is read from a stale cache |
| `MCAdoptsJob` | "the user deletes the Task and applies it again" (`task_controller.go`) | the new Task adopts the old Job and its outcome |
| `MCLeftOver` | "A finished Task never blocks a new run [...] reuses the open PR" (`docs/phone-workflow.md`) | a branch without an open pull request is not reused; the push of the new run is rejected |

`PhaseIsHonest` and `PolicyCoversPod` hold in the passing runs because there a
name is used once; where a name is used again `MCAdoptsJob` shows what happens.

### Deviations

Behaviours of the code, met while modelling, that differ from what a document or
comment leads a reader to expect and that have no run of their own:

* `ensureOwned` keeps the owner reference of an existing object
  (`task_controller.go:251`). A Task that is deleted and applied again relies on
  the old Task's NetworkPolicy until garbage collection removes it and the
  delete event brings it back. `PolicyInPlace` is proved for a name that is used
  once for this reason.
* The egress refresh of a running Task fails it with `EgressResolveFailed` on
  NXDOMAIN (`task_controller.go:171`); `docs/status-reference.md:104` takes such
  a Task for one that never ran a Job.
* A Task that completes on `SuccessCriteriaMet` never gets its completion time
  (`status.go:144`; `docs/status-reference.md:121`).
* A Job that expires or is deleted before its outcome is on the Task is created
  again, so that the agent runs twice (`MCExpiry`; ADR-0001 says "Each CR
  represents a single run").
* A Running Task whose class is deleted turns Pending with `AgentClassMissing`
  while its agent runs (`MCLifecycle`; the state diagram of
  `docs/status-reference.md` has no such edge).
* `commit_change` runs in `$(...)`, where `set -e` is off: a failing
  `git commit` goes unnoticed and the run reports success with the old commit
  (`entrypoint.sh:320` of the implementer; `SuccessIsDelivered` states it).
* `_on_term` writes the partial Result also over a final one (`lib.sh:245`; the
  comment at `lib.sh:218-220` says of the trap "unless the entrypoint already wrote
  a final Result", and `lib_test.sh:92-94` has such a Result kept with a failing
  exit, though not for SIGTERM). `ExitTellsResult` allows either: a Result of success
  with exit code 143 is what the comment promises, and what the code never leaves.
* A Result whose JSON has exactly 2048 bytes passes the check of `result_write`
  and, with its line break, is too large for `ParseResult` (`lib.sh:195`;
  `WrittenIsRecorded` excepts it).
* `docs/phone-workflow.md:113-114` has an iteration read "the comments and the reviews
  since its last push"; the script counts from the date of the last commit on the
  branch (`entrypoint.sh:390` and `414`). A comment made while an iteration or an
  implement run is at work is older than the commit that follows, and so is every
  comment before a person's own push: the next iteration skips them.
  `QuietFeedbackIsRead` is about the others.
* `docs/phone-workflow.md:120-121` and `examples/github-pr-claude-code/trigger.yaml:13-15`
  say that relabelling after an iteration starts a new review. The adapter drops the
  event while a review Task of the pull request is active; when that review had
  fetched its diff before the push, the new commit stays without a review until the
  label is set again. `ReviewFollowsPush` has it as the second case (`dropped`).
* A timeout below one second is valid and becomes a deadline of 0 seconds
  (`build.go:197`).
* `secretVolumeName` takes a Secret name for a DNS label ("Secret names already obey
  DNS-1123", `secrets.go:63-66`); a name with a dot, or one that the prefix makes
  longer than 63 characters, gives a Job that the API server refuses in every retry.
  So do inputs of a class that share a path with each other, with `/tmp` or with a
  Secret. The Task stays Pending; `docs/status-reference.md:74` has a spec that "cannot
  become a Job" as `InvalidSpec`. `RetriedForAReason` says that there are no other causes.
* `deleteIfExists` removes `<task>-prompt` and `<task>-config` whoever owns them
  (`task_controller.go:393`).

### Bounds

* `MaxTasks` 1 or 2: one Task, or one and its successor of the same name.
* `MaxJobs` 1 or 2: the last Job of an instance stays; two are enough for a Job that is created again.
* `MaxPods` 1 or 2: a suspended Job starts a second pod.
* `MaxGen` 2: one spec edit, before, during or after any step.
* `MaxAnswer` 1 or 2: NXDOMAIN and two address sets.
* `Lagging`: the caches that may be stale; the others follow before any other step. Each instance lets those lag that its properties depend on; `MCLifecycle` lets all lag. In `MCEventually` the class cache must be among them: a class that changes for ever, with a cache that has to follow at once, would leave the worker no moment to run in, which is no fault of the worker.
* `Managed`: the owned kinds in the instance. The NetworkPolicy is always there; `MCResources` has all six, and leaves faults to `MCLifecycle` and `MCExpiry` in exchange.
* `MaxTasks`, `MaxChanges` of `Webhook`: Tasks stored, and edits of classes and Secrets. `SYMMETRY` is over requests, which nothing tells apart.

* `MaxTime` of `Agents` 3: commits and comments together; two runs that both commit and a person in between. `Runs` 2, one of them in `Faulty`: faults around one run, the other for its race partner or its successor.
* `Faults`, `People`: what goes wrong and what people do.
* `Cases` of `MCPolicy`: egress lists of up to two entries of each form, split between Task and class; every prompt source set; configs with scalar, nested and badly named fields against each form of class; Secrets with and without a DNS label for a name, and inputs on free, equal and taken paths; `Reports` with sizes on both sides of 512 characters, 8 links and 2048 bytes, and with white space and format characters at the ends and at the cut.

Every cycle of the code (a retry, a redelivery, a requeue) is possible any
number of times within these bounds; they limit only what users and the cluster
do.

### Fairness

`FairSpec` asks for weak fairness of the informers, the timers, the worker and
the clock: controller-runtime keeps them running. It asks for strong fairness of
each call: a call that is retried for ever does not fail for ever. It asks
nothing of users, pods and the Job controller. Where the class may vanish, the
liveness properties assume that it exists for good from some time on, since
`Reconcile` looks at it first. `EgressRefreshInterval` is taken to be positive,
its default.

## Proofs

Every safety property of the runs that pass, `DeliveredStays` excepted, is also a theorem. The theorems hold
for all constants that satisfy the named assumptions `ClusterAssumption`,
`ControllerAssumption`, `WebhookAssumption`, `HostAssumption`,
`AgentsAssumption`, `EgressAssumption`, `JobAssumption` and `BuildAssumption`:
any number of Tasks, Jobs, pods, edits, requests, classes, runs, commits,
comments, egress entries, config fields, Secrets and links, and any sets of
lagging caches, managed kinds and faults. The assumptions give the constants
their types; what they say beyond that is that the forms of egress entries
exclude one another (a text is a name, an address or a block), that a
single address is the block of itself, that a config has finitely many fields,
and that every name may fail to resolve.

The controller:

* `TaskControllerProofs`: `TypeCorrect`, `TerminalPhaseIsFinal`,
  `RecordedResultIsFinal`. The inductive invariant `IInv` adds to the types that
  a running reconcile holds a Task, one that is not terminal outside of the
  branch for terminal Tasks, and a Job at `syncStatus`. Without it a write could
  start from a terminal copy. A write takes effect only when its copy is the
  live Task, so a copy that is not terminal means a live Task that is not.
* `TaskReportProofs`: `TerminalReportedOnce`. `RInv` says that uids are not used
  twice, that a reported Task is terminal or gone, and that a reconcile about
  to report has no report yet. The types do not exclude a second report; the
  write before the report does.
  Then `StatusHasSource`, `PhaseHonest` and `ResultHonest`. `HInv` says of every
  copy of a Task, a Job or a pod, however old, that what it tells happened: an
  outcome is in the history of ends, a message in the history of what containers
  wrote. It must be of all copies, since a status is written from a cached Job
  and a Result from cached pods. `StatusHasSource` holds however often a name is
  used; that the Job was the Task's own (`PhaseIsHonest`, `ResultIsHonest`)
  is proved for a name that is used once (`MaxTasks <= 1`), and is what
  `MCAdoptsJob` refutes for two.
* `TaskSettledProofs`: `SettledConverges`. While the key is not queued, no cache
  that the reconcile reads has changed since it started, for every event queues
  the key. `SInv` says how far such a reconcile has come (`Underway`): each
  resource it has passed is as the cached spec asks for, or its informer owes an
  event. At the end that is `Resting`, and when all caches are current nothing
  is owed. `GenOK`, that generations grow, is needed so that a Task which differs
  from its cached copy differs until the informer delivers it.
* `TaskLifecycleProofs`: `Implementation`, that every step of the controller is a
  step of `TaskLifecycle` or a stutter, and `OnlyExpiredCollected`. Phases and
  reasons go in pairs (`derivePhase` and `failTask` give no others), and the
  copy of a reconcile in the branch for terminal Tasks is terminal and, by its
  uid, was the Task of the name: `CopiesInvariance`. Each action is reduced to
  what it does to the status, the uids and the report that is owed.
  Then `PolicyInPlace`, for a name that is used once (`MaxTasks <= 1`; see
  Deviations for why). `PInv` says that the policy exists once a reconcile is
  past it or a Job was created, and that a cache never shows a policy that is
  gone.

The agents:

* `AgentsProofs`: `AgentsInvariant` and from it `AgentsTypes`,
  `CommitsArePublished`, `CodesTellResults`, `SuccessDelivers`.
  `AInv` says of the host that branches and replies hold published commits only,
  and of every run that it is `Sound`: a commit that its partial or final Result
  names is published once it is past the push (`Named`), exit code and Result
  fit the place where the script is (`Coded`), its commit extends what it
  checked out (`Based`), and its commits are of the past (`Dated`). Without
  `Dated` a push could publish a commit that the clock gives out again.
* `AgentsFeedbackProofs`: `ReviewersFollow` and `QuietFeedbackHeard`, from
  `FInv`. A run that took the review label off and found it on again relies on
  another run that put it on after this one's push: `Reviewed` says so at every
  step from the removal on, of the commits there were at the last `labeled` event
  (`seen`). An iteration between reading the comments and its push has read all
  quiet ones that are newer than the branch (`fresh`, `Heard`): its own push, which
  makes them old, comes after. Both need that the branch has at most one open pull
  request.

The adapter:

* `WebhookProofs`: `WebhookTypes`, `AnswersAreHonest`, `TasksAreAuthentic`,
  `DedupeHolds`. `AnswersOK`: a request that can still create has neither
  answered nor created. `AdmittedOK`: the class copy of a request was
  published, its key and action passed. `PassesOK`: two holders of a pass, or a
  holder and an active checked Task, of one subject mean that it raced. Each
  call is first reduced to what it does (`Looks`, `Dedupes`, `Stores`, `Fails`).

The builders:

* `TaskBuildProofs`: one theorem for each of the seven properties. `BInv` says that
  what was built was built from this Task, class and some answer, and that a retry
  has its reason. The work is in what the builders compute. Loops are handled by
  `LoopExists`: a function with the recursion of a loop exists and has its values in
  the range of the loop's variable. From it come what the merging of egress entries
  (`Merging`) and the loops over links (`Keeping`, `LinkBytes`) give for lists of
  any length, that a list of links only gets shorter, and that the size of a
  Result stays in its bound.
  `RetriesHaveReasons` joins the volumes and mounts of the builders one after the
  other (`Fine`, `Placed`): names and paths of different builders are apart, and
  each mount has its volume, so that `admitted` can fail only for a name or a path
  that Task or class chose. `ResultsAreRecorded` follows the visible characters of
  a summary through both sides: what is trimmed is never visible (`Trimmed`), and
  a summary that the writer cut has no character beyond the reader's cut
  (`Sanitized`).

The proofs for the builders need induction over the length of a list. The
induction theorems of the library take an operator as parameter, which the
provers do not instantiate. `Least` takes the place of them: the set of numbers
for which a fact fails would have a least element, by the well-foundedness of
`<`, and that set is an ordinary term. The modules that the proofs use avoid
`SequencesExt`, whose library of theorems every obligation would carry along.

Only model-checked: `OutcomeReachesTask`, `TerminalGetsResult`,
`ExpiredIsCollected` and `WaitingTaskStarts`, since fairness and ENABLED are
outside of what the prover handles, and `DeliveredStays`. No module has a RECURSIVE operator.

## Not modelled

* Security context, labels, image and command of the pod: constants that the
  builder copies. Message texts, and metrics other than the count of ends.
* CEL admission rules; `TaskController` has an invalid spec as one flag, and
  `AgentJob` the rules of `validateTask`.
* Events and metrics of transitions that are not terminal.
* An edit of the TTL that the cache has not seen: the delete has the UID as its
  only precondition, and nothing promises more.
* JSONPath mappings, TLS, listener and shutdown of the webhook server: I/O.
* JSON decoding, and the control characters of a summary: both sides of the Result
  file remove them, so `Summary` begins without them.
* Implement mode without an issue number: every run has a branch of its own
  there, named by the time, and shares nothing with another. Pull requests of
  forks are refused before anything happens. A Result file that cannot be
  written; errors of local commands such as `node` or `git checkout`. A review that a
  person asks for by setting the label.
* Export of Secrets and the git credential setup in `lib.sh`: I/O.
* Liveness of the agents: a run has no retry and no wait but for `claude`, and the
  deadline of the Job ends it.
