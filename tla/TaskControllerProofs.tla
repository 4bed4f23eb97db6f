------------------------ MODULE TaskControllerProofs ------------------------
(***************************************************************************)
(* Theorems about TaskController for every value of its constants.         *)
(***************************************************************************)
EXTENDS TaskController, TLAPS

\* What a running reconcile knows of its copies: it holds a Task, a Task that
\* is not terminal until the branch for terminal Tasks, and at syncStatus the
\* Job that ensureJob returned.
CopiesOK ==
  /\ pc # "idle" => work # None
  /\ pc \in Kinds \cup {"validateTask", "ensureJob", "syncStatus"} => ~isTerminal(work.phase)
  /\ pc = "syncStatus" => wJob # None

IInv == TypeOK /\ CopiesOK

-----------------------------------------------------------------------------
(* Operators                                                               *)

\* derivePhase maps every Job to a phase and a reason of the API.
LEMMA DerivePhaseType ==
  ASSUME NEW j \in Job
  PROVE  derivePhase(j).phase \in Phases /\ derivePhase(j).reason \in Reasons
BY DEF derivePhase, Job, Phases, Reasons

\* ParseResult decides: none of its outcomes reads as "not yet recorded".
LEMMA ParseResultDecides ==
  ASSUME NEW m \in Messages, NEW c \in Classes
  PROVE  ParseResult(m, c) \in ResultReasons \ {"none"}
BY DEF ParseResult, ResultReasons

\* x is the Task st with another Result, unless its Result was decided.
OnlyResultOf(x, st) ==
  /\ x \in Task /\ x.uid = st.uid /\ x.phase = st.phase /\ x.reason = st.reason
  /\ x.gen = st.gen /\ x.observed = st.observed
  /\ st.result # "none" => x.result = st.result

\* The Result of x is that of st, Unavailable, or was read from a pod of j.
Sourced(x, st, j) ==
  \/ x.result \in {st.result, "Unavailable"}
  \/ j # None /\ \E p \in reporting(j), c \in Classes : x.result = ParseResult(p.msg, c)

\* Recording a Result touches nothing else.
LEMMA RecordsResult ==
  ASSUME NEW st \in Task, st.result = "none", NEW r \in ResultReasons
  PROVE  OnlyResultOf([st EXCEPT !.result = r], st) /\ [st EXCEPT !.result = r].result = r
BY DEF OnlyResultOf, Task

\* observeResult changes the Result condition only, and only an undecided one.
LEMMA ObserveResultWrites ==
  ASSUME cPods \subseteq Pod,
         NEW st \in Task, NEW j \in Job, NEW c \in Classes, NEW waited \in BOOLEAN,
         NEW x \in observeResult(st, j, c, waited)
  PROVE  OnlyResultOf(x, st) /\ Sourced(x, st, j)
<1>0. j # None
  BY ClusterAssumption
<1>1. CASE st.result # "none"
  BY <1>1 DEF observeResult, OnlyResultOf, Sourced
<1>2. CASE st.result = "none" /\ reporting(j) # {}
  <2>1. PICK p \in reporting(j) : x = [st EXCEPT !.result = ParseResult(p.msg, c)]
    BY <1>2 DEF observeResult
  <2>2. p.msg \in Messages
    BY DEF reporting, Pod
  <2>3. ParseResult(p.msg, c) \in ResultReasons
    BY <2>2, ParseResultDecides
  <2> QED  BY <1>0, <1>2, <2>1, <2>3, RecordsResult DEF Sourced
<1>3. CASE st.result = "none" /\ reporting(j) = {}
  <2>1. x = [st EXCEPT !.result = "Unavailable"] \/ x = st
    BY <1>3 DEF observeResult
  <2>2. OnlyResultOf(st, st) /\ "Unavailable" \in ResultReasons
    BY DEF OnlyResultOf, ResultReasons
  <2> QED  BY <1>3, <2>1, <2>2, RecordsResult DEF Sourced
<1> QED  BY <1>1, <1>2, <1>3

-----------------------------------------------------------------------------
(* The cluster keeps its types.                                            *)

\* Users write specs and classes of the declared sets.
LEMMA UserStepTyped == ClusterTypeOK /\ UserStep => ClusterTypeOK'
<1> SUFFICES ASSUME ClusterTypeOK, UserStep PROVE ClusterTypeOK'
  OBVIOUS
<1> USE DEF ClusterTypeOK, apiVars, clockVars, historyVars
<1>1. ASSUME NEW s \in Specs, CreateTask(s) PROVE ClusterTypeOK'
  <2>0. s \in TaskSpec /\ uids + 1 \in Nat
    BY ClusterAssumption
  <2>1. NewTask(uids + 1, s) \in Task
    BY <2>0 DEF NewTask, Task, Phases, Reasons, ResultReasons
  <2> QED  BY <1>1, <2>1 DEF CreateTask
<1>2. ASSUME NEW s \in Specs, EditSpec(s) PROVE ClusterTypeOK'
  <2>0. s \in TaskSpec /\ task \in Task /\ task.gen + 1 \in Nat
    BY <1>2, ClusterAssumption DEF EditSpec, Task
  <2>1. task' \in Task
    BY <1>2, <2>0 DEF EditSpec, Task
  <2> QED  BY <1>2, <2>1 DEF EditSpec
<1>3. CASE DeleteTask
  BY <1>3 DEF DeleteTask
<1>4. ASSUME NEW c \in AgentClasses, ChangeClass(c) PROVE ClusterTypeOK'
  BY <1>4, ClusterAssumption DEF ChangeClass
<1>5. ASSUME NEW a \in 0..MaxAnswer, ChangeDNS(a) PROVE ClusterTypeOK'
  BY <1>5, ClusterAssumption DEF ChangeDNS
<1>6. CASE SuspendJob
  <2>1. job' \in Job
    BY <1>6 DEF SuspendJob, Job, JobStates
  <2> QED  BY <1>6, <2>1 DEF SuspendJob
<1>7. CASE ResumeJob
  <2>1. job' \in Job
    BY <1>7 DEF ResumeJob, Job, JobStates
  <2> QED  BY <1>7, <2>1 DEF ResumeJob
<1>8. ASSUME NEW e \in Exits, StrayPod(e[2]) PROVE ClusterTypeOK'
  <2>1. e[2] \in Messages \cup {"none"}
    BY ClusterAssumption
  <2>2. [job |-> 0, n |-> 0, state |-> "succeeded", msg |-> e[2]] \in Pod
    BY <2>1 DEF Pod
  <2> QED  BY <1>8, <2>2 DEF StrayPod
<1> QED  BY <1>1, <1>2, <1>3, <1>4, <1>5, <1>6, <1>7, <1>8 DEF UserStep

\* The Job controller and the kubelet move Jobs and pods between their states.
LEMMA JobStepTyped == ClusterTypeOK /\ JobStep => ClusterTypeOK'
<1> SUFFICES ASSUME ClusterTypeOK, JobStep PROVE ClusterTypeOK'
  OBVIOUS
<1> USE DEF ClusterTypeOK, apiVars, clockVars, historyVars
<1>1. CASE JobStarts
  <2>0. job \in Job /\ job.pods + 1 \in Nat
    BY <1>1 DEF JobStarts, Job
  <2>1. job' \in Job
    BY <1>1, <2>0 DEF JobStarts, Job, JobStates
  <2>2. [job |-> job.uid, n |-> job.pods + 1, state |-> "running", msg |-> "none"] \in Pod
    BY <1>1 DEF JobStarts, Job, Pod
  <2> QED  BY <1>1, <2>1, <2>2 DEF JobStarts
<1>2. ASSUME NEW state \in JobStates, NEW phase \in Phases, job # None, JobReports(state, phase)
      PROVE  ClusterTypeOK'
  <2>1. job' \in Job /\ [job |-> job.uid, phase |-> phase] \in [job : Nat, phase : Phases]
    BY <1>2 DEF JobReports, Job
  <2> QED  BY <1>2, <2>1 DEF JobReports
<1>3. CASE JobSucceeds \/ JobCompletes \/ JobFails \/ JobTimesOut
  BY <1>2, <1>3 DEF JobSucceeds, JobCompletes, JobFails, JobTimesOut, JobStates, Phases
<1>4. ASSUME NEW p \in pods, NEW e \in Exits, PodEnds(p, e[1], e[2]) PROVE ClusterTypeOK'
  <2>1. e[1] \in {"succeeded", "failed"} /\ e[2] \in Messages \cup {"none"}
    BY ClusterAssumption
  <2>2. [p EXCEPT !.state = e[1], !.msg = e[2]] \in Pod
    BY <2>1 DEF Pod
  <2>3. e[2] # "none" => [job |-> p.job, msg |-> e[2]] \in [job : Nat, msg : Messages]
    BY <2>1 DEF Pod
  <2> QED  BY <1>4, <2>2, <2>3 DEF PodEnds
<1> QED  BY <1>1, <1>3, <1>4 DEF JobStep

\* The garbage collector only removes objects.
LEMMA CollectorStepTyped == ClusterTypeOK /\ CollectorStep => ClusterTypeOK'
BY DEF ClusterTypeOK, apiVars, clockVars, historyVars, CollectorStep, RemovePod,
       JobRemoved, CollectOwned

\* The clock only adds uids of Tasks.
LEMMA ClockStepTyped == ClusterTypeOK /\ ClockStep => ClusterTypeOK'
<1> SUFFICES ASSUME ClusterTypeOK, ClockStep PROVE ClusterTypeOK'
  OBVIOUS
<1>1. task # None => task.uid \in Nat
  BY DEF ClusterTypeOK, Task
<1> QED  BY <1>1 DEF ClusterTypeOK, apiVars, clockVars, historyVars, ClockStep,
                     ResultWaitElapses, TTLElapses

-----------------------------------------------------------------------------
(* Return and the status writes.                                           *)

\* The part of IInv that the end of a reconcile has to establish.
ReconcileOK ==
  /\ pc \in Calls
  /\ work \in Task \cup {None}
  /\ wClass \in Classes
  /\ wJob \in Job \cup {None}
  /\ queued \in BOOLEAN /\ timer \in BOOLEAN
  /\ CopiesOK

\* The end of a reconcile drops its copies.
LEMMA ReturnOK ==
  ASSUME queued \in BOOLEAN, timer \in BOOLEAN,
         NEW err \in BOOLEAN, NEW requeue \in BOOLEAN, Return(err, requeue)
  PROVE  ReconcileOK'
<1>1. queued' \in BOOLEAN /\ timer' \in BOOLEAN
  BY DEF Return
<1>2. pc' = "idle" /\ work' = None /\ wClass' = "absent" /\ wJob' = None
  BY DEF Return
<1> QED  BY <1>1, <1>2 DEF ReconcileOK, CopiesOK, Calls, Classes, Kinds

\* A status write replaces the live Task by the new status, when the copy was
\* current, and then ends the reconcile or goes on to report.
LEMMA WriteOK ==
  ASSUME IInv, NEW st \in Task, NEW requeue \in BOOLEAN, writeThenReport(st, requeue)
  PROVE  /\ ReconcileOK'
         /\ task' = task \/ (work = task /\ task' = st)
<1> USE DEF writeThenReport, updateStatus, current
<1>1. queued \in BOOLEAN /\ timer \in BOOLEAN /\ wClass \in Classes /\ wJob \in Job \cup {None}
  BY DEF IInv, TypeOK
<1>2. task' = task \/ (work = task /\ task' = st)
  OBVIOUS
<1>3. CASE work = task /\ isTerminal(st.phase)
  <2>1. pc' = "report" /\ work' = st /\ UNCHANGED <<wClass, wJob, queued>>
    BY <1>3
  <2>2. timer' \in BOOLEAN
    BY <1>3, <1>1
  <2>3. st # None
    BY ClusterAssumption
  <2> QED  BY <1>1, <1>2, <2>1, <2>2, <2>3 DEF ReconcileOK, CopiesOK, Calls, Kinds
<1>4. CASE ~(work = task /\ isTerminal(st.phase))
  <2>1. Return(TRUE, FALSE) \/ Return(FALSE, requeue)
    BY <1>4
  <2> QED  BY <1>1, <1>2, <2>1, ReturnOK
<1> QED  BY <1>3, <1>4

\* The status that failTask writes.
LEMMA FailedStatus ==
  ASSUME work \in Task, NEW reason \in Reasons
  PROVE  LET st == [work EXCEPT !.phase = "Failed", !.reason = reason, !.observed = work.gen]
         IN  st \in Task /\ st.uid = work.uid /\ st.result = work.result /\ st.gen = work.gen
BY DEF Task, Phases

\* The status that markWaitingForAgentClass writes.
LEMMA WaitingStatus ==
  ASSUME work \in Task
  PROVE  LET st == [work EXCEPT !.phase = "Pending", !.reason = "AgentClassMissing", !.observed = work.gen]
         IN  st \in Task /\ st.uid = work.uid /\ st.result = work.result /\ st.gen = work.gen
BY DEF Task, Phases, Reasons

\* The status that syncStatus derives from the Job.
LEMMA SyncedStatus ==
  ASSUME work \in Task, wJob \in Job,
         NEW phase \in Phases, NEW reason \in Reasons
  PROVE  LET st == [work EXCEPT !.jobName = TRUE, !.completed = (wJob.state = "complete"),
                                !.observed = work.gen, !.phase = phase, !.reason = reason]
         IN  st \in Task /\ st.uid = work.uid /\ st.result = work.result /\ st.gen = work.gen
BY DEF Task

-----------------------------------------------------------------------------
(* Every step keeps IInv, and keeps what is final in the Task's status.    *)

Final ==
  (task # None /\ task' # None /\ task.uid = task'.uid) =>
    /\ isTerminal(task.phase) => task'.phase = task.phase /\ task'.reason = task.reason
    /\ task.result # "none" => task'.result = task.result

\* The invariant holds before the first Task.
LEMMA InitOK == Init => IInv
<1> SUFFICES ASSUME Init PROVE IInv
  OBVIOUS
<1>1. ClusterTypeOK
  BY ClusterAssumption DEF Init, ClusterInit, ClusterTypeOK
<1>2. cOwned \in [Kinds -> Object \cup {None}] /\ cClass \in Classes
  BY <1>1 DEF Init, ClusterTypeOK
<1>3. reports \in [1..MaxTasks -> Nat]
  BY DEF Init
<1> QED  BY <1>1, <1>2, <1>3 DEF Init, IInv, TypeOK, CopiesOK, Calls, Classes, Kinds

\* A step that leaves the cluster and the reports alone.
LEMMA ReconcileOnly ==
  ASSUME IInv, ReconcileOK', UNCHANGED <<clusterVars, cacheVars, reports>>
  PROVE  IInv' /\ Final
BY DEF IInv, TypeOK, ClusterTypeOK, ReconcileOK, CopiesOK, Final, clusterVars, apiVars,
       clockVars, historyVars, cacheVars

\* The cluster touches no copy of the controller, and no status of a Task.
LEMMA ClusterOK ==
  ASSUME IInv, UNCHANGED controllerVars,
         UserStep \/ JobStep \/ CollectorStep \/ ClockStep
  PROVE  IInv' /\ Final
<1>1. ClusterTypeOK'
  BY UserStepTyped, JobStepTyped, CollectorStepTyped, ClockStepTyped DEF IInv, TypeOK
<1>2. IInv'
  BY <1>1 DEF IInv, TypeOK, CopiesOK, controllerVars, cacheVars, reconcileVars, queueVars
<1>3. ASSUME UserStep PROVE Final
  <2>1. ASSUME NEW s \in Specs, EditSpec(s) PROVE Final
    <3>1. task \in Task
      BY <2>1 DEF EditSpec, IInv, TypeOK, ClusterTypeOK
    <3>2. task'.phase = task.phase /\ task'.reason = task.reason /\ task'.result = task.result
      BY <2>1, <3>1 DEF EditSpec, Task
    <3> QED  BY <3>2 DEF Final
  <2>2. ASSUME NEW s \in Specs, CreateTask(s) PROVE Final
    BY <2>2 DEF CreateTask, Final
  <2>3. CASE DeleteTask
    BY <2>3 DEF DeleteTask, Final
  <2>7. CASE SuspendJob \/ ResumeJob
    <3>1. UNCHANGED task
      BY <2>7, Zenon DEF SuspendJob, ResumeJob
    <3> QED  BY <3>1 DEF Final
  <2>4. ASSUME NEW c, ChangeClass(c) PROVE Final
    BY <2>4 DEF ChangeClass, Final
  <2>5. ASSUME NEW a, ChangeDNS(a) PROVE Final
    BY <2>5 DEF ChangeDNS, Final, apiVars
  <2>6. ASSUME NEW m, StrayPod(m) PROVE Final
    BY <2>6 DEF StrayPod, Final
  <2> QED  BY <1>3, <2>1, <2>2, <2>3, <2>4, <2>5, <2>6, <2>7 DEF UserStep
<1>4. ASSUME JobStep \/ CollectorStep \/ ClockStep PROVE Final
  <2>1. UNCHANGED task
    <3>1. CASE JobStep
      <4>1. CASE JobStarts
        BY <4>1, Zenon DEF JobStarts
      <4>2. ASSUME NEW st, NEW ph, JobReports(st, ph) PROVE UNCHANGED task
        BY <4>2, Zenon DEF JobReports
      <4>3. CASE JobSucceeds \/ JobCompletes \/ JobFails \/ JobTimesOut
        BY <4>2, <4>3 DEF JobSucceeds, JobCompletes, JobFails, JobTimesOut
      <4>4. ASSUME NEW p, NEW st, NEW m, PodEnds(p, st, m) PROVE UNCHANGED task
        BY <4>4, Zenon DEF PodEnds
      <4> QED  BY <3>1, <4>1, <4>3, <4>4 DEF JobStep
    <3>2. CASE CollectorStep
      BY <3>2 DEF CollectorStep, RemovePod, JobRemoved, CollectOwned
    <3>3. CASE ClockStep
      BY <3>3 DEF ClockStep, ResultWaitElapses, TTLElapses, apiVars
    <3> QED  BY <1>4, <3>1, <3>2, <3>3
  <2> QED  BY <2>1 DEF Final
<1> QED  BY <1>2, <1>3, <1>4

\* A cache takes the value of the live object.
LEMMA SyncOK == IInv /\ (Sync \/ TimerFires) => IInv' /\ Final
<1> SUFFICES ASSUME IInv, Sync \/ TimerFires PROVE IInv' /\ Final
  OBVIOUS
<1> USE DEF IInv, TypeOK, CopiesOK, ClusterTypeOK, Final, clusterVars, apiVars, clockVars,
            historyVars, reconcileVars, cacheVars
<1>1. CASE SyncTask      BY <1>1 DEF SyncTask
<1>2. CASE SyncJob       BY <1>2 DEF SyncJob
<1>3. CASE SyncPods      BY <1>3 DEF SyncPods
<1>4. CASE SyncClass
  <2>1. queued' \in BOOLEAN
    BY <1>4 DEF SyncClass
  <2> QED  BY <1>4, <2>1 DEF SyncClass
<1>5. ASSUME NEW k \in Kinds, SyncOwned(k) PROVE IInv' /\ Final
  BY <1>5 DEF SyncOwned
<1>6. CASE TimerFires
  <2>1. timer' \in BOOLEAN /\ queued' \in BOOLEAN /\ UNCHANGED <<clusterVars, cacheVars, reconcileVars, reports>>
    BY <1>6 DEF TimerFires
  <2> QED  BY <2>1
<1> QED  BY <1>1, <1>2, <1>3, <1>4, <1>5, <1>6 DEF Sync

\* A failed call and a restart drop the copies and write nothing.
LEMMA FaultOK == IInv /\ (CallFails \/ Restart) => IInv' /\ Final
<1> SUFFICES ASSUME IInv, CallFails \/ Restart PROVE IInv' /\ Final
  OBVIOUS
<1>1. CASE CallFails
  <2>1. ReconcileOK'
    BY <1>1, ReturnOK DEF CallFails, IInv, TypeOK
  <2> QED  BY <1>1, <2>1, ReconcileOnly DEF CallFails
<1>2. CASE Restart
  <2>1. ReconcileOK'
    BY <1>2 DEF Restart, ReconcileOK, CopiesOK, Calls, Classes, Kinds
  <2> QED  BY <1>2, <2>1, ReconcileOnly DEF Restart
<1> QED  BY <1>1, <1>2

\* Reconcile takes the cached Task and branches on its phase.
LEMMA ReconcileStartOK == IInv /\ Reconcile => IInv' /\ Final
<1> SUFFICES ASSUME IInv, Reconcile PROVE IInv' /\ Final
  OBVIOUS
<1>1. /\ queued' \in BOOLEAN /\ timer' \in BOOLEAN
      /\ wClass' \in Classes /\ wJob' \in Job \cup {None}
  BY DEF Reconcile, IInv, TypeOK, reconcileVars
<1>2. CASE cTask = None
  <2>1. pc' = "idle" /\ work' = work
    BY <1>2 DEF Reconcile, At, reconcileVars
  <2> QED  BY <1>1, <2>1, ReconcileOnly DEF Reconcile, IInv, TypeOK, ReconcileOK, CopiesOK, Calls, Kinds
<1>3. CASE cTask # None
  <2>1. work' = cTask
        /\ pc' = IF isTerminal(cTask.phase) THEN "recordTerminalResult" ELSE "validateTask"
    BY <1>3 DEF Reconcile
  <2>2. ReconcileOK'
    BY <1>1, <1>3, <2>1 DEF IInv, TypeOK, ReconcileOK, CopiesOK, Calls, Kinds
  <2> QED  BY <2>2, ReconcileOnly DEF Reconcile
<1> QED  BY <1>2, <1>3

\* Report counts, and writes nothing in the cluster.
LEMMA ReportOK == IInv /\ Report => IInv' /\ Final
<1> SUFFICES ASSUME IInv, Report PROVE IInv' /\ Final
  OBVIOUS
<1>1. ReconcileOK'
  BY ReturnOK DEF Report, IInv, TypeOK
<1>2. reports' \in [1..MaxTasks -> Nat]
  <2>1. ASSUME NEW r \in [1..MaxTasks -> Nat], NEW u
        PROVE  [r EXCEPT ![u] = @ + 1] \in [1..MaxTasks -> Nat]
    <3>1. \A v \in 1..MaxTasks : [r EXCEPT ![u] = @ + 1][v] \in Nat
      OBVIOUS
    <3> QED  BY <3>1
  <2> QED  BY <2>1 DEF Report, IInv, TypeOK
<1> QED  BY <1>1, <1>2 DEF Report, IInv, TypeOK, ClusterTypeOK, ReconcileOK, CopiesOK, Final,
                           clusterVars, apiVars, clockVars, historyVars, cacheVars

\* A step that writes nothing in the cluster but the Task.
LEMMA TaskWriteOK ==
  ASSUME IInv, ReconcileOK', task' \in Task \cup {None},
         UNCHANGED <<job, pods, owned, class, clockVars, historyVars, cacheVars, reports>>
  PROVE  IInv'
BY DEF IInv, TypeOK, ClusterTypeOK, ReconcileOK, CopiesOK, clockVars, historyVars, cacheVars

\* A status write from a copy that is not terminal keeps what is final, when
\* it keeps a Result that is decided.
LEMMA WriteFinal ==
  ASSUME NEW st, ~isTerminal(work.phase), work.result # "none" => st.result = work.result,
         task' = task \/ (work = task /\ task' = st)
  PROVE  Final
BY DEF Final

\* failTask at a call before the terminal branch.
LEMMA FailTaskOK ==
  ASSUME IInv, pc \in Kinds \cup {"validateTask", "ensureJob"},
         NEW reason \in Reasons, failTask(reason)
  PROVE  ReconcileOK' /\ task' \in Task \cup {None} /\ Final
<1> DEFINE st == [work EXCEPT !.phase = "Failed", !.reason = reason, !.observed = work.gen]
<1>1. work \in Task /\ ~isTerminal(work.phase) /\ task \in Task \cup {None}
  BY DEF IInv, TypeOK, ClusterTypeOK, CopiesOK, Kinds
<1>2. st \in Task /\ st.result = work.result
  BY <1>1, FailedStatus
<1>3. writeThenReport(st, FALSE)
  BY DEF failTask
<1> HIDE DEF st
<1>4. ReconcileOK' /\ (task' = task \/ (work = task /\ task' = st))
  BY <1>2, <1>3, WriteOK
<1> QED  BY <1>1, <1>2, <1>4, WriteFinal

\* validateTask and the class lookup: fail, wait or go on.
LEMMA ValidateTaskOK == IInv /\ ValidateTask => IInv' /\ Final
<1> SUFFICES ASSUME IInv, ValidateTask PROVE IInv' /\ Final
  OBVIOUS
<1>0. /\ pc = "validateTask" /\ work \in Task /\ ~isTerminal(work.phase)
      /\ task \in Task \cup {None} /\ cClass \in Classes /\ wJob \in Job \cup {None}
      /\ queued \in BOOLEAN /\ timer \in BOOLEAN
  BY DEF ValidateTask, At, IInv, TypeOK, ClusterTypeOK, CopiesOK, Kinds
<1>1. UNCHANGED <<job, pods, owned, class, clockVars, historyVars, cacheVars, reports>>
  BY DEF ValidateTask
<1>2. CASE failTask("InvalidSpec")
  <2>1. ReconcileOK' /\ task' \in Task \cup {None} /\ Final
    BY <1>0, <1>2, FailTaskOK DEF Reasons
  <2> QED  BY <1>1, <2>1, TaskWriteOK
<1>3. CASE markWaitingForAgentClass
  <2> DEFINE st == [work EXCEPT !.phase = "Pending", !.reason = "AgentClassMissing", !.observed = work.gen]
  <2>1. st \in Task /\ st.result = work.result
    BY <1>0, WaitingStatus
  <2>2. (UNCHANGED task /\ Return(FALSE, TRUE)) \/ writeThenReport(st, TRUE)
    BY <1>3 DEF markWaitingForAgentClass
  <2> HIDE DEF st
  <2>3. ReconcileOK' /\ (task' = task \/ (work = task /\ task' = st))
    BY <1>0, <2>1, <2>2, WriteOK, ReturnOK
  <2> QED  BY <1>0, <1>1, <2>1, <2>3, WriteFinal, TaskWriteOK
<1>4. CASE Proceed(nextStep[pc]) /\ wClass' = cClass /\ UNCHANGED <<task, work, wJob>>
  <2>1. pc' \in Kinds
    BY <1>0, <1>4 DEF Proceed, nextStep, Kinds
  <2>2. ReconcileOK'
    BY <1>0, <1>4, <2>1, ClusterAssumption DEF Proceed, queueVars, ReconcileOK, CopiesOK, Calls, Kinds
  <2> QED  BY <1>0, <1>1, <1>4, <2>2, TaskWriteOK DEF Final
<1> QED  BY <1>2, <1>3, <1>4 DEF ValidateTask

\* Every call after the class lookup goes on with the same copies.
LEMMA ProceedOK ==
  ASSUME IInv, pc \in Kinds, Proceed(nextStep[pc]), UNCHANGED <<work, wClass, wJob>>
  PROVE  ReconcileOK'
<1>1. pc' \in Kinds \cup {"ensureJob"}
  BY DEF Proceed, nextStep, Kinds
<1> QED  BY <1>1 DEF IInv, TypeOK, CopiesOK, Proceed, queueVars, ReconcileOK, Calls, Kinds

\* The builders put a body into the object.
LEMMA ContentType ==
  ASSUME NEW k \in Kinds, NEW s \in TaskSpec, NEW c \in Classes, NEW a \in Nat
  PROVE  content(k, s, c, a) \in Body
BY DEF content, only, Body, TaskSpec, Kinds, Classes

\* ensureOwned and deleteIfExists leave an object or none.
LEMMA EnsureOwnedOK ==
  ASSUME IInv, NEW k \in Kinds, pc = k, ensureOwned(k) \/ deleteIfExists(k)
  PROVE  ReconcileOK' /\ owned' \in [Kinds -> Object \cup {None}]
<1>1. /\ queued \in BOOLEAN /\ timer \in BOOLEAN /\ work \in Task
      /\ owned \in [Kinds -> Object \cup {None}] /\ cOwned \in [Kinds -> Object \cup {None}]
      /\ dns \in Nat /\ wClass \in Classes
  BY DEF IInv, TypeOK, ClusterTypeOK, CopiesOK, Kinds
<1>2. desired(k) \in Body
  BY <1>1, ContentType DEF desired, Task
<1>3. [owner |-> work.uid, body |-> desired(k)] \in Object
  BY <1>1, <1>2 DEF Object, Task
<1>4. cOwned[k] # None => [cOwned[k] EXCEPT !.body = desired(k)] \in Object
  <2>1. ASSUME NEW o \in Object, NEW b \in Body PROVE [o EXCEPT !.body = b] \in Object
    BY DEF Object
  <2> QED  BY <1>1, <1>2, <2>1
<1> DEFINE proceed == Proceed(nextStep[pc]) /\ UNCHANGED <<work, wClass, wJob>>
<1>5. \/ proceed \/ Return(TRUE, FALSE)
  BY Zenon DEF ensureOwned, deleteIfExists
<1>6. ReconcileOK'
  BY <1>1, <1>5, ProceedOK, ReturnOK
<1>7. \E o \in Object \cup {None} : owned' = owned \/ owned' = [owned EXCEPT ![k] = o]
  BY <1>3, <1>4 DEF ensureOwned, deleteIfExists
<1> QED  BY <1>1, <1>6, <1>7

\* The calls that ensure an owned resource.
LEMMA EnsureOK == ASSUME IInv, NEW k \in Kinds, Ensure(k) PROVE IInv' /\ Final
<1>0. pc = k
  BY DEF Ensure, At
<1>1. UNCHANGED <<job, pods, class, clockVars, historyVars, cacheVars, reports>>
  BY DEF Ensure
<1>2. CASE (ensureOwned(k) \/ deleteIfExists(k)) /\ UNCHANGED task
  <2>1. ReconcileOK' /\ owned' \in [Kinds -> Object \cup {None}]
    BY <1>0, <1>2, EnsureOwnedOK
  <2> QED  BY <1>1, <1>2, <2>1 DEF IInv, TypeOK, ClusterTypeOK, ReconcileOK, CopiesOK, Final,
                                   clockVars, historyVars, cacheVars
<1>3. CASE failTask("EgressResolveFailed") /\ UNCHANGED owned
  <2>1. ReconcileOK' /\ task' \in Task \cup {None} /\ Final
    BY <1>0, <1>3, FailTaskOK DEF Reasons
  <2> QED  BY <1>1, <1>3, <2>1, TaskWriteOK
<1> QED  BY <1>2, <1>3 DEF Ensure

\* ensureJob returns the cached Job or a new one, or fails the Task.
LEMMA EnsureJobOK == IInv /\ EnsureJob => IInv' /\ Final
<1> SUFFICES ASSUME IInv, EnsureJob PROVE IInv' /\ Final
  OBVIOUS
<1>0. /\ pc = "ensureJob" /\ work \in Task /\ ~isTerminal(work.phase)
      /\ wClass \in Classes /\ cJob \in Job \cup {None}
      /\ queued \in BOOLEAN /\ timer \in BOOLEAN /\ owners \in Seq(Nat)
  BY DEF EnsureJob, At, IInv, TypeOK, ClusterTypeOK, CopiesOK, Kinds
<1>1. UNCHANGED <<pods, owned, class, clockVars, uids, ended, written,
                  cTask, cJob, cPods, cOwned, cClass, reports>>
  BY DEF EnsureJob
<1>2. newJob \in Job /\ newJob # None
  <2>1. Len(owners) + 1 \in Nat /\ work.uid \in Nat
    BY <1>0 DEF Task
  <2>2. newJob \in Job
    BY <2>1 DEF newJob, Job, JobStates
  <2> QED  BY <2>2, ClusterAssumption
<1>3. Append(owners, work.uid) \in Seq(Nat)
  BY <1>0 DEF Task
<1>4. CASE failTask("InvalidSpec") /\ UNCHANGED <<job, owners, unseenJob>>
  <2>1. ReconcileOK' /\ task' \in Task \cup {None} /\ Final
    BY <1>0, <1>4, FailTaskOK DEF Reasons
  <2> QED  BY <1>1, <1>4, <2>1, TaskWriteOK DEF historyVars, cacheVars
<1>5. CASE /\ Proceed("syncStatus") /\ wJob' \in Job /\ UNCHANGED <<task, work, wClass>>
           /\ job' = job \/ job' \in Job
           /\ owners' \in Seq(Nat) /\ unseenJob' \in BOOLEAN
  <2>1. wJob' # None /\ job' \in Job \cup {None}
    BY <1>5, ClusterAssumption DEF IInv, TypeOK, ClusterTypeOK
  <2>2. pc' = "syncStatus" /\ UNCHANGED <<work, wClass, queued, timer>> /\ work # None
    BY <1>0, <1>5, ClusterAssumption DEF Proceed, queueVars
  <2>3. CopiesOK'
    BY <1>0, <2>1, <2>2 DEF CopiesOK, Kinds
  <2>4. ReconcileOK'
    BY <1>0, <1>5, <2>2, <2>3 DEF ReconcileOK, Calls
  <2> QED  BY <1>1, <1>5, <2>1, <2>4 DEF IInv, TypeOK, ClusterTypeOK, ReconcileOK, CopiesOK,
                                         Final, clockVars
<1>6. CASE Return(TRUE, FALSE) /\ UNCHANGED <<task, job, owners, unseenJob>>
  <2>1. ReconcileOK'
    BY <1>0, <1>6, ReturnOK
  <2> QED  BY <1>1, <1>6, <2>1, ReconcileOnly DEF clusterVars, apiVars, clockVars, historyVars, cacheVars
<1>7. unseenJob \in BOOLEAN
  BY DEF IInv, TypeOK
<1> QED  BY <1>0, <1>2, <1>3, <1>4, <1>5, <1>6, <1>7 DEF EnsureJob

\* The status st that syncStatus arrives at: the phase of the Job, and at most
\* a new Result.
SyncedTo(st) ==
  /\ st \in Task /\ st.uid = work.uid /\ st.gen = work.gen /\ st.observed = work.gen
  /\ st.phase = derivePhase(wJob).phase /\ st.reason = derivePhase(wJob).reason
  /\ work.result # "none" => st.result = work.result
  /\ Sourced(st, work, wJob)

\* syncStatus writes such a status, unless the Task has it.
LEMMA SyncStatusWrites ==
  ASSUME IInv, SyncStatus
  PROVE  \E st \in Task, requeue \in BOOLEAN :
           /\ SyncedTo(st)
           /\ egressRefresh(st) => requeue
           /\ \/ st = work /\ UNCHANGED task /\ Return(FALSE, requeue)
              \/ st # work /\ writeThenReport(st, requeue)
<1>0. work \in Task /\ wClass \in Classes /\ wJob \in Job /\ cPods \subseteq Pod
  BY DEF SyncStatus, At, IInv, TypeOK, CopiesOK, Kinds
<1> DEFINE d == derivePhase(wJob)
           base == [work EXCEPT !.jobName = TRUE, !.completed = (wJob.state = "complete"),
                                !.observed = work.gen, !.phase = d.phase, !.reason = d.reason]
           requeue(st) == awaitsResult(st) \/ egressRefresh(st)
<1>1. base \in Task /\ base.uid = work.uid /\ base.result = work.result /\ base.gen = work.gen
      /\ base.observed = work.gen /\ base.phase = d.phase /\ base.reason = d.reason
  <2>1. d.phase \in Phases /\ d.reason \in Reasons
    BY <1>0, DerivePhaseType
  <2> HIDE DEF d
  <2> QED  BY <1>0, <2>1 DEF Task
<1>2. PICK st \in observeResult(base, wJob, wClass, FALSE) :
         IF st = work THEN UNCHANGED task /\ Return(FALSE, requeue(st))
                      ELSE writeThenReport(st, requeue(st))
  BY DEF SyncStatus
<1> HIDE DEF base
<1>3. OnlyResultOf(st, base) /\ Sourced(st, base, wJob)
  <2>1. FALSE \in BOOLEAN
    OBVIOUS
  <2> QED  BY <1>0, <1>1, <2>1, ObserveResultWrites
<1>4. SyncedTo(st)
  BY <1>1, <1>3 DEF SyncedTo, OnlyResultOf, Sourced
<1>5. requeue(st) \in BOOLEAN /\ (egressRefresh(st) => requeue(st))
  BY DEF awaitsResult, egressRefresh
<1>6. st \in Task
  BY <1>4 DEF SyncedTo
<1> HIDE DEF requeue
<1> QED  BY <1>2, <1>4, <1>5, <1>6, Zenon

\* syncStatus writes from a copy that is not terminal.
LEMMA SyncStatusOK == IInv /\ SyncStatus => IInv' /\ Final
<1> SUFFICES ASSUME IInv, SyncStatus PROVE IInv' /\ Final
  OBVIOUS
<1>0. /\ ~isTerminal(work.phase) /\ task \in Task \cup {None}
      /\ queued \in BOOLEAN /\ timer \in BOOLEAN
  BY DEF SyncStatus, At, IInv, TypeOK, ClusterTypeOK, CopiesOK
<1>1. UNCHANGED <<job, pods, owned, class, clockVars, historyVars, cacheVars, reports>>
  BY DEF SyncStatus
<1>2. PICK st \in Task, requeue \in BOOLEAN :
        /\ SyncedTo(st)
        /\ \/ st = work /\ UNCHANGED task /\ Return(FALSE, requeue)
           \/ st # work /\ writeThenReport(st, requeue)
  BY SyncStatusWrites
<1>3. st \in Task /\ (work.result # "none" => st.result = work.result)
  BY <1>2 DEF SyncedTo
<1>4. ReconcileOK' /\ (task' = task \/ (work = task /\ task' = st))
  BY <1>0, <1>2, <1>3, WriteOK, ReturnOK
<1> QED  BY <1>0, <1>1, <1>3, <1>4, WriteFinal, TaskWriteOK

\* recordTerminalResult writes an undecided Result and nothing else.
LEMMA RecordTerminalResultWrites ==
  ASSUME IInv, RecordTerminalResult
  PROVE  \E st :
           /\ OnlyResultOf(st, work) /\ Sourced(st, work, cJob)
           /\ task' = task \/ (work = task /\ task' = st)
           /\ \/ Return(TRUE, FALSE)
              \/ Proceed("collectTerminal") /\ work' = st /\ UNCHANGED <<wClass, wJob>>
<1>0. /\ work \in Task /\ cJob \in Job \cup {None} /\ cClass \in Classes /\ cPods \subseteq Pod
  BY DEF RecordTerminalResult, At, IInv, TypeOK, CopiesOK, Kinds
<1> DEFINE results == IF work.result # "none" \/ ~work.jobName THEN {work}
                      ELSE IF cJob = None THEN {[work EXCEPT !.result = "Unavailable"]}
                      ELSE observeResult(work, cJob, cClass, work.uid \in waitOver)
<1>1. PICK st \in results :
         IF st # work /\ ~current(work)
         THEN Return(TRUE, FALSE) /\ UNCHANGED task
         ELSE /\ IF st = work THEN UNCHANGED task ELSE updateStatus(st)
              /\ Proceed("collectTerminal") /\ work' = st
              /\ UNCHANGED <<wClass, wJob>>
  BY DEF RecordTerminalResult
<1>2. OnlyResultOf(st, work) /\ Sourced(st, work, cJob)
  <2>1. CASE work.result # "none" \/ ~work.jobName
    BY <1>0, <2>1 DEF OnlyResultOf, Sourced
  <2>2. CASE ~(work.result # "none" \/ ~work.jobName) /\ cJob = None
    <3>1. "Unavailable" \in ResultReasons
      BY DEF ResultReasons
    <3>2. st = [work EXCEPT !.result = "Unavailable"] /\ work.result = "none"
      BY <2>2
    <3>3. OnlyResultOf(st, work) /\ st.result = "Unavailable"
      BY <1>0, <3>1, <3>2, RecordsResult
    <3> QED  BY <2>2, <3>3 DEF Sourced
  <2>3. CASE ~(work.result # "none" \/ ~work.jobName) /\ cJob # None
    <3>1. st \in observeResult(work, cJob, cClass, work.uid \in waitOver)
      BY <2>3
    <3>2. (work.uid \in waitOver) \in BOOLEAN /\ cJob \in Job
      BY <1>0, <2>3
    <3> QED  BY <1>0, <3>1, <3>2, ObserveResultWrites
  <2> QED  BY <2>1, <2>2, <2>3
<1> HIDE DEF results
<1> QED  BY <1>1, <1>2 DEF current, updateStatus

\* It keeps what is final.
LEMMA RecordTerminalResultOK == IInv /\ RecordTerminalResult => IInv' /\ Final
<1> SUFFICES ASSUME IInv, RecordTerminalResult PROVE IInv' /\ Final
  OBVIOUS
<1>0. /\ pc = "recordTerminalResult" /\ work \in Task
      /\ wClass \in Classes /\ wJob \in Job \cup {None} /\ task \in Task \cup {None}
      /\ queued \in BOOLEAN /\ timer \in BOOLEAN
  BY DEF RecordTerminalResult, At, IInv, TypeOK, ClusterTypeOK, CopiesOK, Kinds
<1>1. UNCHANGED <<job, pods, owned, class, clockVars, historyVars, cacheVars, reports>>
  BY DEF RecordTerminalResult
<1>2. PICK st :
        /\ OnlyResultOf(st, work)
        /\ task' = task \/ (work = task /\ task' = st)
        /\ \/ Return(TRUE, FALSE)
           \/ Proceed("collectTerminal") /\ work' = st /\ UNCHANGED <<wClass, wJob>>
  BY RecordTerminalResultWrites
<1>3. /\ st \in Task /\ st.phase = work.phase /\ st.reason = work.reason
      /\ work.result # "none" => st.result = work.result
  BY <1>2 DEF OnlyResultOf
<1>4. Final
  BY <1>2, <1>3 DEF Final
<1>5. CASE Return(TRUE, FALSE)
  <2>1. ReconcileOK'
    BY <1>0, <1>5, ReturnOK
  <2> QED  BY <1>0, <1>1, <1>2, <1>3, <1>4, <2>1, TaskWriteOK
<1>6. CASE Proceed("collectTerminal") /\ work' = st /\ UNCHANGED <<wClass, wJob>>
  <2>1. ReconcileOK'
    BY <1>0, <1>3, <1>6, ClusterAssumption
       DEF Proceed, queueVars, ReconcileOK, CopiesOK, Calls, Kinds
  <2> QED  BY <1>0, <1>1, <1>2, <1>3, <1>4, <2>1, TaskWriteOK
<1> QED  BY <1>2, <1>5, <1>6

\* collectTerminal deletes the Task or leaves it alone.
LEMMA CollectTerminalOK == IInv /\ CollectTerminal => IInv' /\ Final
<1> SUFFICES ASSUME IInv, CollectTerminal PROVE IInv' /\ Final
  OBVIOUS
<1>0. queued \in BOOLEAN /\ timer \in BOOLEAN /\ task \in Task \cup {None}
  BY DEF IInv, TypeOK, ClusterTypeOK
<1>1. UNCHANGED <<job, pods, owned, class, clockVars, historyVars, cacheVars, reports>>
  BY DEF CollectTerminal
<1>2. task' = task \/ task' = None
  BY Zenon DEF CollectTerminal
<1>3. \E err, requeue \in BOOLEAN : Return(err, requeue)
  <2>1. resultRequeue \in BOOLEAN /\ (task = None /\ resultRequeue) \in BOOLEAN /\ (task # None) \in BOOLEAN
    BY DEF resultRequeue, awaitsResult
  <2> QED  BY <2>1 DEF CollectTerminal
<1>4. ReconcileOK'
  BY <1>0, <1>3, ReturnOK
<1> QED  BY <1>0, <1>1, <1>2, <1>4, TaskWriteOK DEF Final

\* Every step keeps the invariant and what is final in the status.
LEMMA NextOK == IInv /\ [Next]_vars => IInv' /\ Final
<1> SUFFICES ASSUME IInv, [Next]_vars PROVE IInv' /\ Final
  OBVIOUS
<1>1. CASE (UserStep \/ JobStep \/ CollectorStep \/ ClockStep) /\ UNCHANGED controllerVars
  BY <1>1, ClusterOK
<1>2. CASE Sync \/ TimerFires
  BY <1>2, SyncOK
<1>3. CASE ReconcileStep
  BY <1>3, ReconcileStartOK, ValidateTaskOK, EnsureOK, EnsureJobOK, SyncStatusOK, ReportOK,
     RecordTerminalResultOK, CollectTerminalOK DEF ReconcileStep
<1>4. CASE CallFails \/ Restart
  BY <1>4, FaultOK
<1>5. CASE UNCHANGED vars
  <2>1. ReconcileOK'
    BY <1>5 DEF vars, controllerVars, reconcileVars, queueVars, IInv, TypeOK, ReconcileOK, CopiesOK
  <2> QED  BY <1>5, <2>1, ReconcileOnly DEF vars, controllerVars
<1> QED  BY <1>1, <1>2, <1>3, <1>4, <1>5 DEF Next

-----------------------------------------------------------------------------
(* Theorems                                                                *)

\* The inductive invariant holds in every reachable state.
THEOREM Invariance == Spec => []IInv
<1>1. Init => IInv
  BY InitOK
<1>2. IInv /\ [Next]_vars => IInv'
  BY NextOK
<1> QED  BY <1>1, <1>2, PTL DEF Spec

\* Every variable keeps its type: in particular no reconcile dereferences a
\* Task, a Job or a resource that its reads did not find.
THEOREM TypeCorrect == Spec => []TypeOK
<1>1. IInv => TypeOK
  BY DEF IInv
<1> QED  BY <1>1, Invariance, PTL

\* The phase and reason of a terminal Task never change, whatever copies the
\* reconciles work from, for any number of Tasks, Jobs, faults and edits.
THEOREM TerminalPhaseIsFinal == Spec => TerminalIsFinal
<1> DEFINE A == (task # None /\ task' # None /\ task.uid = task'.uid /\ isTerminal(task.phase))
                  => (task'.phase = task.phase /\ task'.reason = task.reason)
<1>1. IInv /\ [Next]_vars => [A]_vars
  BY NextOK DEF Final
<1> QED  BY <1>1, Invariance, PTL DEF Spec, TerminalIsFinal

\* A Result condition, once recorded, is never replaced.
THEOREM RecordedResultIsFinal == Spec => ResultIsFinal
<1> DEFINE A == (task # None /\ task' # None /\ task.uid = task'.uid /\ task.result # "none")
                  => task'.result = task.result
<1>1. IInv /\ [Next]_vars => [A]_vars
  BY NextOK DEF Final
<1> QED  BY <1>1, Invariance, PTL DEF Spec, ResultIsFinal

=============================================================================
