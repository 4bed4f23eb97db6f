--------------------------- MODULE TaskController ---------------------------
(***************************************************************************)
(* The Task reconciler (internal/controller).                              *)
(*                                                                         *)
(* Reads go to informer caches that lag the API server, each kind on its   *)
(* own; writes go to the API server.  A reconcile is a sequence of steps,  *)
(* one per call that writes; every step includes the cached reads that     *)
(* lead to its write.  Between two steps the cluster moves, the process    *)
(* restarts, or the call fails and the work queue retries.                 *)
(*                                                                         *)
(* An Update carries the resourceVersion of the copy it started from, and  *)
(* the API server rejects it when the object has changed since.  Here a    *)
(* copy is current when it equals the live object.                         *)
(***************************************************************************)
EXTENDS Cluster

CONSTANTS
  Lagging,  \* bound: the informers that may lag; the others follow at once
  Managed   \* bound: the owned kinds of the instance; it leaves out the rest

Informers == Kinds \cup {"Task", "Job", "Pod", "ClusterAgentClass"}

ASSUME ControllerAssumption ==
  /\ Lagging \subseteq Informers
  /\ Managed \subseteq Kinds
  /\ "NetworkPolicy" \in Managed
  /\ None \notin [uid : Nat, phase : Phases, reason : Reasons, result : ResultReasons]

VARIABLES
  cTask, cJob, cPods, cOwned, cClass,  \* informer caches
  unseenJob,\* the watch holds the creation of a Job that its informer has not
            \* delivered; the deletion of the Job does not take it back
  pc,       \* the next call of the running reconcile, or "idle"
  work,     \* the reconcile's copy of the Task
  wClass,   \* the reconcile's copy of the ClusterAgentClass
  wJob,     \* the Job that ensureJob returned
  queued,   \* the work queue holds the Task's key
  timer,    \* a RequeueAfter is pending
  reports   \* history: terminal transitions reported (Event and metric), by uid

cacheVars == <<cTask, cJob, cPods, cOwned, cClass, unseenJob>>
reconcileVars == <<pc, work, wClass, wJob>>
queueVars == <<queued, timer>>
controllerVars == <<cacheVars, reconcileVars, queueVars, reports>>
vars == <<clusterVars, controllerVars>>

\* Reconcile's calls in order.  The NetworkPolicy comes before the Job.
nextStep ==
  LET to(k, otherwise) == IF k \in Managed THEN k ELSE otherwise
      fromBinding == to("RoleBinding", "NetworkPolicy")
      fromRole    == to("Role", fromBinding)
      fromAccount == to("ServiceAccount", fromRole)
      fromConfig  == to("AgentConfigMap", "ensureJob")
      fromPrompt  == to("PromptConfigMap", fromConfig)
  IN [validateTask    |-> fromAccount,
      ServiceAccount  |-> fromRole,
      Role            |-> fromBinding,
      RoleBinding     |-> "NetworkPolicy",
      NetworkPolicy   |-> fromPrompt,
      PromptConfigMap |-> fromConfig,
      AgentConfigMap  |-> "ensureJob"]

Calls == Kinds \cup {"idle", "validateTask", "ensureJob", "syncStatus",
                     "recordTerminalResult", "collectTerminal", "report"}

TypeOK ==
  /\ ClusterTypeOK
  /\ cTask \in Task \cup {None}
  /\ cJob \in Job \cup {None}
  /\ cPods \subseteq Pod
  /\ cOwned \in [Kinds -> Object \cup {None}]
  /\ cClass \in Classes
  /\ unseenJob \in BOOLEAN
  /\ pc \in Calls
  /\ work \in Task \cup {None}
  /\ wClass \in Classes
  /\ wJob \in Job \cup {None}
  /\ queued \in BOOLEAN /\ timer \in BOOLEAN
  /\ reports \in [1..MaxTasks -> Nat]

Init ==
  /\ ClusterInit
  /\ cTask = None /\ cJob = None /\ cPods = {}
  /\ cOwned = owned
  /\ cClass = class /\ unseenJob = FALSE
  /\ pc = "idle" /\ work = None /\ wClass = "absent" /\ wJob = None
  /\ queued = FALSE /\ timer = FALSE
  /\ reports = [u \in 1..MaxTasks |-> 0]

-----------------------------------------------------------------------------
(* Watches (SetupWithManager): an informer catches up and queues the Task. *)

\* Variant: a predicate filters the create events of Tasks.
SyncTaskIgnoresCreate ==
  /\ cTask # task
  /\ cTask' = task /\ queued' = (queued \/ cTask # None)
  /\ UNCHANGED <<clusterVars, cJob, cPods, cOwned, cClass, unseenJob, reconcileVars, timer, reports>>

SyncTask ==
  /\ cTask # task
  /\ cTask' = task /\ queued' = TRUE
  /\ UNCHANGED <<clusterVars, cJob, cPods, cOwned, cClass, unseenJob, reconcileVars, timer, reports>>

\* Variants: a predicate filters the deletion, or the status, of Jobs.
SyncJobIgnoresDelete ==
  /\ cJob # job \/ unseenJob
  /\ cJob' = job /\ unseenJob' = FALSE
  /\ queued' = (queued \/ unseenJob \/ job # None)
  /\ UNCHANGED <<clusterVars, cTask, cPods, cOwned, cClass, reconcileVars, timer, reports>>

SyncJobIgnoresStatus ==
  /\ cJob # job \/ unseenJob
  /\ cJob' = job /\ unseenJob' = FALSE
  /\ queued' = (queued \/ cJob = None \/ job = None)
  /\ UNCHANGED <<clusterVars, cTask, cPods, cOwned, cClass, reconcileVars, timer, reports>>

SyncJob ==
  /\ cJob # job \/ unseenJob
  /\ cJob' = job /\ unseenJob' = FALSE
  /\ queued' = TRUE
  /\ UNCHANGED <<clusterVars, cTask, cPods, cOwned, cClass, reconcileVars, timer, reports>>

\* taskForPod maps every pod with the Task's label to the Task.
SyncPods ==
  /\ cPods # pods
  /\ cPods' = pods /\ queued' = TRUE
  /\ UNCHANGED <<clusterVars, cTask, cJob, cOwned, cClass, unseenJob, reconcileVars, timer, reports>>

SyncOwned(k) ==
  /\ cOwned[k] # owned[k]
  /\ cOwned' = [cOwned EXCEPT ![k] = owned[k]] /\ queued' = TRUE
  /\ UNCHANGED <<clusterVars, cTask, cJob, cPods, cClass, unseenJob, reconcileVars, timer, reports>>

\* Variant: the test for terminal Tasks is inverted.
tasksForAgentClassInverted == cTask # None /\ isTerminal(cTask.phase)

\* tasksForAgentClass lists the Tasks in the cache and skips the terminal ones.
tasksForAgentClass == cTask # None /\ ~isTerminal(cTask.phase)

SyncClass ==
  /\ cClass # class
  /\ cClass' = class
  /\ queued' = (queued \/ tasksForAgentClass)
  /\ UNCHANGED <<clusterVars, cTask, cJob, cPods, cOwned, unseenJob, reconcileVars, timer, reports>>

\* The informers that do not lag have caught up.
Prompt ==
  /\ "Task" \notin Lagging => cTask = task
  /\ "Job" \notin Lagging => cJob = job /\ ~unseenJob
  /\ "Pod" \notin Lagging => cPods = pods
  /\ "ClusterAgentClass" \notin Lagging => cClass = class
  /\ \A k \in Kinds \ Lagging : cOwned[k] = owned[k]

At(call) == pc = call /\ Prompt

TimerFires ==
  /\ timer /\ Prompt
  /\ timer' = FALSE /\ queued' = TRUE
  /\ UNCHANGED <<clusterVars, cacheVars, reconcileVars, reports>>

-----------------------------------------------------------------------------
(* How a reconcile ends and how it writes the status.                      *)

\* Variant: the error is logged and dropped.
ReturnDropsError(err, requeue) ==
  /\ pc' = "idle" /\ work' = None /\ wClass' = "absent" /\ wJob' = None
  /\ queued' = queued
  /\ timer' = (timer \/ requeue)

\* Reconcile returns: with an error (the queue retries) or with a RequeueAfter.
Return(err, requeue) ==
  /\ pc' = "idle" /\ work' = None /\ wClass' = "absent" /\ wJob' = None
  /\ queued' = (queued \/ err)
  /\ timer' = (timer \/ requeue)

Proceed(call) == pc' = call /\ UNCHANGED queueVars

\* Variant: a patch without resourceVersion, which never conflicts.
currentUnchecked(copy) == task # None

\* The API server accepts an update that starts from the live object.
current(copy) == copy = task

\* Status().Update: a conflict, or NotFound, makes the reconcile fail.
updateStatus(st) ==
  IF current(work) THEN task' = st ELSE UNCHANGED task

\* Variant: the report does not wait for the answer to the write.
reportThenWrite(st, requeue) ==
  /\ updateStatus(st)
  /\ IF isTerminal(st.phase)
     THEN /\ pc' = "report" /\ work' = st /\ timer' = (timer \/ requeue)
          /\ UNCHANGED <<wClass, wJob>> /\ queued' = (queued \/ ~current(work))
     ELSE Return(~current(work), requeue /\ current(work))

\* A terminal transition is reported after the write, in a step of its own.
\* The Events of the other phases are left out.
writeThenReport(st, requeue) ==
  /\ updateStatus(st)
  /\ IF ~current(work) THEN Return(TRUE, FALSE)
     ELSE IF isTerminal(st.phase)
          THEN /\ pc' = "report" /\ work' = st /\ timer' = (timer \/ requeue)
               /\ UNCHANGED <<wClass, wJob, queued>>
          ELSE Return(FALSE, requeue)

failTask(reason) ==
  writeThenReport([work EXCEPT !.phase = "Failed", !.reason = reason, !.observed = work.gen], FALSE)

\* metrics.ObservePhaseTransition and recordEvent.
Report ==
  /\ At("report")
  /\ reports' = [reports EXCEPT ![work.uid] = @ + 1]
  /\ Return(FALSE, FALSE)
  /\ UNCHANGED <<clusterVars, cacheVars>>

-----------------------------------------------------------------------------
(* Reconcile                                                               *)

Reconcile ==
  /\ At("idle") /\ queued
  /\ queued' = FALSE
  /\ IF cTask = None THEN UNCHANGED reconcileVars
     ELSE /\ work' = cTask
          /\ pc' = IF isTerminal(cTask.phase) THEN "recordTerminalResult" ELSE "validateTask"
          /\ UNCHANGED <<wClass, wJob>>
  /\ UNCHANGED <<clusterVars, cacheVars, timer, reports>>

\* The class does not exist yet: keep the Task Pending and look again later.
markWaitingForAgentClass ==
  LET st == [work EXCEPT !.phase = "Pending", !.reason = "AgentClassMissing", !.observed = work.gen]
  IN  IF st = work
      THEN UNCHANGED task /\ Return(FALSE, TRUE)
      ELSE writeThenReport(st, TRUE)

ValidateTask ==
  /\ At("validateTask")
  /\ \/ ~work.spec.valid /\ failTask("InvalidSpec")
     \/ work.spec.valid /\ cClass = "absent" /\ markWaitingForAgentClass
     \/ /\ work.spec.valid /\ cClass # "absent"
        /\ Proceed(nextStep[pc])
        /\ wClass' = cClass
        /\ UNCHANGED <<task, work, wJob>>
  /\ UNCHANGED <<job, pods, owned, class, clockVars, historyVars, cacheVars, reports>>

-----------------------------------------------------------------------------
(* Owned resources                                                         *)

desired(k) == content(k, work.spec, wClass, dns)

\* Upsert: create when the cache has no object, update when it differs.
\* An existing object keeps its owner.
ensureOwned(k) ==
  LET create == [owner |-> work.uid, body |-> desired(k)]
      update == [cOwned[k] EXCEPT !.body = desired(k)]
      proceed == Proceed(nextStep[k]) /\ UNCHANGED <<work, wClass, wJob>>
  IN \/ /\ cOwned[k] = None /\ owned[k] = None
        /\ owned' = [owned EXCEPT ![k] = create] /\ proceed
     \/ /\ cOwned[k] = None /\ owned[k] # None      \* AlreadyExists
        /\ Return(TRUE, FALSE) /\ UNCHANGED owned
     \/ /\ cOwned[k] # None /\ cOwned[k] = update
        /\ proceed /\ UNCHANGED owned
     \/ /\ cOwned[k] # None /\ cOwned[k] # update /\ cOwned[k] = owned[k]
        /\ owned' = [owned EXCEPT ![k] = update] /\ proceed
     \/ /\ cOwned[k] # None /\ cOwned[k] # update /\ cOwned[k] # owned[k]
        /\ Return(TRUE, FALSE) /\ UNCHANGED owned   \* Conflict, NotFound

\* Variant: resources that are no longer wanted stay.
deleteIfExistsNever(k) ==
  Proceed(nextStep[k]) /\ UNCHANGED <<owned, work, wClass, wJob>>

\* Delete by name; NotFound is fine.
deleteIfExists(k) ==
  /\ owned' = [owned EXCEPT ![k] = None]
  /\ Proceed(nextStep[k]) /\ UNCHANGED <<work, wClass, wJob>>

egressUnresolvable(k) == k = "NetworkPolicy" /\ work.spec.hosts /\ dns = 0

\* Variant: an unresolvable hostname is skipped like any other error of a rule.
EnsureSkipsUnresolvable(k) ==
  /\ At(k)
  /\ IF wanted(k, work.spec, wClass) /\ ~egressUnresolvable(k)
     THEN ensureOwned(k)
     ELSE Proceed(nextStep[k]) /\ UNCHANGED <<owned, work, wClass, wJob>>
  /\ UNCHANGED <<task, job, pods, class, clockVars, historyVars, cacheVars, reports>>

Ensure(k) ==
  /\ At(k)
  /\ \/ /\ wanted(k, work.spec, wClass) /\ ~egressUnresolvable(k)
        /\ ensureOwned(k) /\ UNCHANGED task
     \/ /\ ~wanted(k, work.spec, wClass)
        /\ deleteIfExists(k) /\ UNCHANGED task
     \/ /\ egressUnresolvable(k)
        /\ failTask("EgressResolveFailed") /\ UNCHANGED owned
  /\ UNCHANGED <<job, pods, class, clockVars, historyVars, cacheVars, reports>>

-----------------------------------------------------------------------------
(* Job and status                                                          *)

newJob == [uid |-> Len(owners) + 1, owner |-> work.uid, state |-> "created", pods |-> 0]

\* An existing Job is returned as it is, whoever owns it.
EnsureJob ==
  /\ At("ensureJob")
  /\ \/ /\ ~projectable(work.spec, wClass)
        /\ failTask("InvalidSpec") /\ UNCHANGED <<job, owners, unseenJob>>
     \/ /\ projectable(work.spec, wClass) /\ cJob # None
        /\ Proceed("syncStatus") /\ wJob' = cJob
        /\ UNCHANGED <<task, job, owners, unseenJob, work, wClass>>
     \/ /\ projectable(work.spec, wClass) /\ cJob = None /\ job = None
        /\ job' = newJob /\ owners' = Append(owners, work.uid) /\ unseenJob' = TRUE
        /\ Proceed("syncStatus") /\ wJob' = newJob
        /\ UNCHANGED <<task, work, wClass>>
     \/ /\ projectable(work.spec, wClass) /\ cJob = None /\ job # None  \* AlreadyExists
        /\ Return(TRUE, FALSE) /\ UNCHANGED <<task, job, owners, unseenJob>>
  /\ UNCHANGED <<pods, owned, class, clockVars, uids, ended, written,
                 cTask, cJob, cPods, cOwned, cClass, reports>>

\* Variants: a container that still runs, and any pod with the label, will do.
reportingAnyState(j) == {p \in cPods : p.job = j.uid}
reportingAnyPod(j) == {p \in cPods : p.msg # "none"}

\* The pods observeResult accepts: controlled by the Job, container terminated.
reporting(j) == {p \in cPods : p.job = j.uid /\ p.msg # "none"}

\* Variant: without resultDecided.
observeResultAgain(st, j, c, waited) ==
  IF reporting(j) # {}
  THEN {[st EXCEPT !.result = ParseResult(p.msg, c)] : p \in reporting(j)}
  ELSE {st}

\* The statuses observeResult may leave; the list has no particular order.
observeResult(st, j, c, waited) ==
  IF st.result # "none" THEN {st}
  ELSE IF reporting(j) # {}
       THEN {[st EXCEPT !.result = ParseResult(p.msg, c)] : p \in reporting(j)}
       ELSE IF isTerminal(st.phase) /\ waited
            THEN {[st EXCEPT !.result = "Unavailable"]}
            ELSE {st}

\* Variant: observeResult relies on the pod watch alone.
awaitsResultNever(st) == FALSE

\* observeResult asks to be called again.
awaitsResult(st) == isTerminal(st.phase) /\ st.result = "none"

\* Variant: the NetworkPolicy is resolved once.
egressRefreshNever(st) == FALSE

\* Resolve the hostnames again, while the Task runs.
egressRefresh(st) == ~isTerminal(st.phase) /\ work.spec.hosts

\* The status that follows from the Job; the Ready condition turns now, so the
\* ResultWait of a Task that becomes terminal starts in this pass.
SyncStatus ==
  /\ At("syncStatus")
  /\ LET d == derivePhase(wJob)
         base == [work EXCEPT !.jobName = TRUE, !.completed = (wJob.state = "complete"),
                              !.observed = work.gen, !.phase = d.phase, !.reason = d.reason]
     IN \E st \in observeResult(base, wJob, wClass, FALSE) :
          LET requeue == awaitsResult(st) \/ egressRefresh(st)
          IN IF st = work
             THEN UNCHANGED task /\ Return(FALSE, requeue)
             ELSE writeThenReport(st, requeue)
  /\ UNCHANGED <<job, pods, owned, class, clockVars, historyVars, cacheVars, reports>>

-----------------------------------------------------------------------------
(* Terminal Tasks                                                          *)

\* Complete the Result, then go on to collectTerminal.
RecordTerminalResult ==
  /\ At("recordTerminalResult")
  /\ \E st \in IF work.result # "none" \/ ~work.jobName THEN {work}
               ELSE IF cJob = None THEN {[work EXCEPT !.result = "Unavailable"]}
               ELSE observeResult(work, cJob, cClass, work.uid \in waitOver) :
       IF st # work /\ ~current(work)
       THEN Return(TRUE, FALSE) /\ UNCHANGED task
       ELSE /\ IF st = work THEN UNCHANGED task ELSE updateStatus(st)
            /\ Proceed("collectTerminal") /\ work' = st
            /\ UNCHANGED <<wClass, wJob>>
  /\ UNCHANGED <<job, pods, owned, class, clockVars, historyVars, cacheVars, reports>>

\* Variant: a delete by name, without precondition.
sameName == task # None

\* The precondition of the delete: the Task is still the one that was read.
sameUID == task # None /\ task.uid = work.uid

\* recordTerminalResult asked to look for the pod again.
resultRequeue == work.jobName /\ awaitsResult(work)

\* Variant: no requeue while the TTL runs.
CollectTerminalOnce ==
  /\ At("collectTerminal")
  /\ IF work.spec.ttl /\ work.uid \in ttlOver /\ sameUID THEN task' = None ELSE UNCHANGED task
  /\ Return(FALSE, resultRequeue)
  /\ UNCHANGED <<job, pods, owned, class, clockVars, historyVars, cacheVars, reports>>

\* Delete the Task when its TTL has elapsed, or look again later.
CollectTerminal ==
  /\ At("collectTerminal")
  /\ \/ ~work.spec.ttl /\ Return(FALSE, resultRequeue) /\ UNCHANGED task
     \/ /\ work.spec.ttl /\ work.uid \notin ttlOver
        /\ Return(FALSE, TRUE) /\ UNCHANGED task
     \/ /\ work.spec.ttl /\ work.uid \in ttlOver /\ sameUID
        /\ task' = None /\ Return(FALSE, resultRequeue)
     \/ /\ work.spec.ttl /\ work.uid \in ttlOver /\ ~sameUID
        /\ Return(task # None, task = None /\ resultRequeue) /\ UNCHANGED task
  /\ UNCHANGED <<job, pods, owned, class, clockVars, historyVars, cacheVars, reports>>

-----------------------------------------------------------------------------
(* Faults                                                                  *)

\* A call fails for a transient reason (API server, DNS timeout, conflict).
\* When the failure is a lost answer, the write of the call took effect first:
\* the step happens, and this one aborts the reconcile after it.
CallFails ==
  /\ "Fault" \in Disturbances
  /\ pc # "idle" /\ Prompt
  /\ Return(TRUE, FALSE)
  /\ UNCHANGED <<clusterVars, cacheVars, reports>>

\* The process dies; the new leader lists every Task and starts over.
Restart ==
  /\ "Fault" \in Disturbances
  /\ (pc # "idle" \/ timer) /\ Prompt
  /\ pc' = "idle" /\ work' = None /\ wClass' = "absent" /\ wJob' = None
  /\ queued' = TRUE /\ timer' = FALSE
  /\ UNCHANGED <<clusterVars, cacheVars, reports>>

ReconcileStep ==
  \/ Reconcile \/ ValidateTask
  \/ \E k \in Kinds : Ensure(k)
  \/ EnsureJob \/ SyncStatus \/ Report
  \/ RecordTerminalResult \/ CollectTerminal

Sync ==
  \/ SyncTask \/ SyncJob \/ SyncPods \/ SyncClass
  \/ \E k \in Kinds : SyncOwned(k)

Next ==
  \/ Prompt /\ UserStep /\ UNCHANGED controllerVars
  \/ Prompt /\ JobStep /\ UNCHANGED controllerVars
  \/ Prompt /\ CollectorStep /\ UNCHANGED controllerVars
  \/ Prompt /\ ClockStep /\ UNCHANGED controllerVars
  \/ Sync \/ TimerFires
  \/ ReconcileStep
  \/ CallFails \/ Restart

Spec == Init /\ [][Next]_vars

\* The informers, the worker and the timers of the controller keep running and
\* time passes; users, pods and the Job controller need not act.  Strong
\* fairness of the calls: one that is retried for ever does not fail for ever.
Fairness ==
  /\ WF_vars(SyncTask) /\ WF_vars(SyncJob) /\ WF_vars(SyncPods) /\ WF_vars(SyncClass)
  /\ \A k \in Managed : WF_vars(SyncOwned(k))
  /\ WF_vars(TimerFires) /\ WF_vars(Reconcile)
  /\ SF_vars(ValidateTask) /\ \A k \in Managed : SF_vars(Ensure(k))
  /\ SF_vars(EnsureJob) /\ SF_vars(SyncStatus)
  /\ SF_vars(RecordTerminalResult) /\ SF_vars(CollectTerminal) /\ SF_vars(Report)
  /\ WF_vars(ClockStep /\ UNCHANGED controllerVars)

FairSpec == Spec /\ Fairness

-----------------------------------------------------------------------------
(* Safety                                                                  *)

\* While a Task is alive, the NetworkPolicy is in place whenever a pod of its
\* Job runs, also when the reconcile that created the Job worked from stale
\* caches, failed half-way or ran again (Reconcile: NetworkPolicy before Job).
PolicyCoversPod ==
  \A p \in pods :
    (p.state = "running" /\ task # None /\ owners[p.job] = task.uid)
      => owned["NetworkPolicy"] # None

\* A terminal phase and its reason never change, whatever stale copy of the
\* Task a reconcile works from (isTerminal in Reconcile, Status().Update).
TerminalIsFinal ==
  [][(task # None /\ task' # None /\ task.uid = task'.uid /\ isTerminal(task.phase))
       => (task'.phase = task.phase /\ task'.reason = task.reason)]_vars

\* The Result condition is decided once: resultDecided keeps a second pod, a
\* second read and a late Unavailable from replacing it.
ResultIsFinal ==
  [][(task # None /\ task' # None /\ task.uid = task'.uid /\ task.result # "none")
       => task'.result = task.result]_vars

\* A Task's end is counted and reported at most once, through stale copies that
\* find the Job finished again, conflicts, writes whose answer is lost and restarts
\* (syncStatus: "Write first, then report").
ReportedOnce == \A u \in 1..MaxTasks : reports[u] <= 1

\* A phase that says how the run ended is the outcome that a Job of this very
\* Task reported.
PhaseIsHonest ==
  (task # None /\ task.reason \in {"Completed", "TimedOut", "Failed"})
    => \E e \in ended : owners[e.job] = task.uid /\ e.phase = task.phase

\* A Result was read from a container of a Job of this very Task, and says
\* what ParseResult makes of that container's message.
ResultIsHonest ==
  (task # None /\ task.result \in {"Recorded", "Invalid", "NotProvided"})
    => \E w \in written : /\ owners[w.job] = task.uid
                          /\ \E c \in Classes : task.result = ParseResult(w.msg, c)

\* Nothing is left to do: no reconcile runs or is due, every cache is current.
Settled ==
  /\ pc = "idle" /\ ~queued
  /\ cTask = task /\ cJob = job /\ cPods = pods /\ cOwned = owned /\ cClass = class
  /\ ~unseenJob

\* The controller never comes to rest on outdated state: when it is settled, a
\* Task that is not terminal either waits for its class, with a timer, or has
\* its Job, the status of that Job and exactly the resources its spec asks for.
\* Only the addresses in a NetworkPolicy may be old, and then a timer refreshes them.
SettledIsConverged ==
  (Settled /\ task # None /\ ~isTerminal(task.phase)) =>
    /\ task.observed = task.gen
    /\ \/ class = "absent" /\ task.reason = "AgentClassMissing" /\ timer
       \/ /\ class # "absent" /\ job # None
          /\ task.phase = derivePhase(job).phase /\ task.reason = derivePhase(job).reason
          /\ \A k \in Managed :
               IF wanted(k, task.spec, class)
               THEN /\ owned[k] # None
                    /\ \/ owned[k].body = content(k, task.spec, class, dns)
                       \/ timer /\ owned[k].body = content(k, task.spec, class, owned[k].body.addresses)
               ELSE owned[k] = None

\* The controller deletes a Task only when that Task is terminal and its TTL
\* has elapsed, not one that took its name (collectTerminal: UID precondition).
CollectsOnlyExpired ==
  [][(ReconcileStep /\ task # None /\ task' = None)
       => (isTerminal(task.phase) /\ task.uid \in ttlOver)]_vars

\* What a client sees of the Task, and the report that is still owed.
Lifecycle ==
  INSTANCE TaskLifecycle WITH
    status <- IF task = None THEN None
              ELSE [uid |-> task.uid, phase |-> task.phase, reason |-> task.reason, result |-> task.result],
    last   <- uids,
    owed   <- IF pc = "report" THEN work.uid ELSE 0

\* The controller implements the lifecycle that the API promises: through stale
\* caches, conflicts, retries and restarts a client sees only steps of it.
ImplementsLifecycle == Lifecycle!LifeSpec

-----------------------------------------------------------------------------
(* Liveness                                                                *)

\* The agent class exists from some time on.
ClassStays == <>[](class # "absent")

\* The outcome of a Job reaches its Task, whatever events were coalesced and
\* calls failed, unless the class stays away: Reconcile looks at the class first.
OutcomeReachesTask ==
  ClassStays =>
    ((task # None /\ job # None /\ job.state \in Finished)
       ~> (task = None \/ job = None \/ isTerminal(task.phase)))

\* A terminal Task that ran a Job gets a Result condition: the termination
\* message, or Unavailable after ResultWait.
TerminalGetsResult ==
  (task # None /\ isTerminal(task.phase) /\ task.jobName)
    ~> (task = None \/ task.result # "none")

\* A terminal Task with a TTL is deleted.
ExpiredIsCollected ==
  (task # None /\ isTerminal(task.phase) /\ task.spec.ttl) ~> (task = None)

\* A Task that waits for its class continues when the class exists for good.
WaitingTaskStarts ==
  ClassStays => (task # None ~> (task = None \/ task.jobName \/ isTerminal(task.phase)))

-----------------------------------------------------------------------------
(* What documents and comments of the repository say, and the code does    *)
(* not keep in every run.  PhaseIsHonest and PolicyCoversPod join them     *)
(* when a Task is deleted and applied again.                               *)

\* architecture.md: "The controller never reconciles a terminal Task into a Job
\* again."  Reconcile decides this on the cached phase.
NoJobAfterTerminal ==
  [][(task # None /\ isTerminal(task.phase) /\ job = None /\ job' # None)
       => job'.owner # task.uid]_vars

=============================================================================
