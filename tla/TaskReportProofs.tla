-------------------------- MODULE TaskReportProofs --------------------------
(***************************************************************************)
(* What the controller tells of a Task: its end is reported at most once,  *)
(* and what its status says of the run is what happened.                   *)
(*                                                                         *)
(* The argument for once: the report follows a status write that found its *)
(* copy current and not terminal; a Task that was reported is terminal or  *)
(* gone, and stays so; uids are not used twice.                            *)
(*                                                                         *)
(* The argument for honesty: every copy of a Job or a pod was live once,   *)
(* outcomes and messages are kept by the histories, and a status repeats   *)
(* what a copy says.  Whose Job it was is a matter of the name: a Task     *)
(* that takes the name of another one may adopt the Job of the other.      *)
(***************************************************************************)
EXTENDS TaskControllerProofs

\* The live Task is the last one created; copies are of it or of earlier ones.
UidsOK ==
  /\ task # None => task.uid = uids /\ uids >= 1
  /\ cTask # None => cTask.uid \in 1..uids
  /\ work # None => work.uid \in 1..uids

\* Whether the Task u, if it is alive, is terminal.
Over(u) == task # None /\ task.uid = u => isTerminal(task.phase)

ReportsOK ==
  /\ \A u \in 1..MaxTasks : reports[u] <= 1
  /\ \A u \in 1..MaxTasks : reports[u] > 0 => u <= uids /\ Over(u)
  /\ pc = "report" => /\ work.uid \in 1..MaxTasks => reports[work.uid] = 0
                      /\ Over(work.uid)

RInv == UidsOK /\ ReportsOK

-----------------------------------------------------------------------------
\* What every step but CreateTask and Report does to the copies of the Task:
\* "report" is entered by a write from a current copy that was not terminal.
Effect ==
  /\ UNCHANGED <<uids, reports>>
  /\ cTask' = cTask \/ cTask' = task
  /\ \/ task' = None \/ task' = task
     \/ task # None /\ task' # None /\ task'.uid = task.uid
  /\ \/ work' = None \/ work' = work \/ work' = cTask
     \/ work # None /\ work' # None /\ work'.uid = work.uid
  /\ pc' = "report" =>
       \/ pc = "report" /\ work' = work
       \/ /\ work = task /\ work # None /\ ~isTerminal(work.phase)
          /\ work' # None /\ work'.uid = work.uid
          /\ task' # None /\ task'.uid = work.uid /\ isTerminal(task'.phase)

\* Such a step gives no copy a uid that was not there.
LEMMA EffectKeepsUids ==
  ASSUME IInv, UidsOK, Effect
  PROVE  UidsOK'
<1>1. uids \in Nat
  BY DEF IInv, TypeOK, ClusterTypeOK
<1> QED  BY <1>1 DEF UidsOK, Effect

\* Such a step enters "report" only for a Task without a report.
LEMMA EffectKeepsReports ==
  ASSUME IInv, RInv, Effect, Final
  PROVE  ReportsOK'
<1>1. uids \in Nat /\ MaxTasks \in Nat /\ reports \in [1..MaxTasks -> Nat]
  BY ClusterAssumption DEF IInv, TypeOK, ClusterTypeOK
<1>2. ASSUME NEW u, Over(u) PROVE Over(u)'
  BY <1>2 DEF Over, Effect, Final
<1>3. /\ \A u \in 1..MaxTasks : reports'[u] <= 1
      /\ \A u \in 1..MaxTasks : reports'[u] > 0 => u <= uids' /\ Over(u)'
  BY <1>2 DEF RInv, ReportsOK, Effect
<1>4. ASSUME pc' = "report"
      PROVE  (work'.uid \in 1..MaxTasks => reports'[work'.uid] = 0) /\ Over(work.uid)' /\ work'.uid = work.uid
  <2>1. CASE pc = "report" /\ work' = work
    BY <1>2, <2>1 DEF RInv, ReportsOK, Effect
  <2>2. CASE /\ work = task /\ work # None /\ ~isTerminal(work.phase)
             /\ work' # None /\ work'.uid = work.uid
             /\ task' # None /\ task'.uid = work.uid /\ isTerminal(task'.phase)
    <3>1. ~Over(work.uid)
      BY <2>2 DEF Over
    <3>2. work.uid \in 1..MaxTasks => reports[work.uid] = 0
      BY <1>1, <3>1 DEF RInv, ReportsOK
    <3>3. Over(work.uid)'
      BY <2>2 DEF Over
    <3> QED  BY <2>2, <3>2, <3>3 DEF Effect
  <2> QED  BY <1>4, <2>1, <2>2 DEF Effect
<1>5. pc' = "report" => /\ work'.uid \in 1..MaxTasks => reports'[work'.uid] = 0
                        /\ Over(work.uid)'
  BY <1>4
<1>6. pc' = "report" => (task' # None /\ task'.uid = work'.uid => isTerminal(task'.phase))
  BY <1>4 DEF Over
<1> QED  BY <1>3, <1>5, <1>6 DEF ReportsOK, Over

\* A status write from a copy that was not terminal has such an effect.
LEMMA WriteEffect ==
  ASSUME IInv, work # None, ~isTerminal(work.phase), pc # "report",
         NEW st \in Task, st.uid = work.uid, NEW requeue, writeThenReport(st, requeue),
         UNCHANGED <<uids, reports, cTask>>
  PROVE  Effect
<1>1. st # None
  BY ClusterAssumption
<1>2. CASE current(work) /\ isTerminal(st.phase)
  <2>1. work = task /\ task' = st /\ work' = st
    BY <1>2 DEF writeThenReport, updateStatus, current
  <2> QED  BY <1>1, <1>2, <2>1 DEF Effect
<1>3. CASE ~(current(work) /\ isTerminal(st.phase))
  <2>1. pc' = "idle" /\ work' = None
    BY <1>3 DEF writeThenReport, Return
  <2>2. task' = task \/ (work = task /\ task' = st)
    BY DEF writeThenReport, updateStatus, current
  <2> QED  BY <1>1, <2>1, <2>2 DEF Effect
<1> QED  BY <1>2, <1>3

\* So does the end of a reconcile that leaves the Task alone or deletes it.
LEMMA ReturnEffect ==
  ASSUME NEW err, NEW requeue, Return(err, requeue), task' = task \/ task' = None,
         UNCHANGED <<uids, reports, cTask>>
  PROVE  Effect
BY DEF Return, Effect

\* failTask is such a write.
LEMMA FailTaskEffect ==
  ASSUME IInv, pc \in Kinds \cup {"validateTask", "ensureJob"},
         NEW reason \in Reasons, failTask(reason), UNCHANGED <<uids, reports, cTask>>
  PROVE  Effect
<1> DEFINE st == [work EXCEPT !.phase = "Failed", !.reason = reason, !.observed = work.gen]
<1>1. work \in Task /\ ~isTerminal(work.phase) /\ pc # "report" /\ work # None
  BY DEF IInv, TypeOK, CopiesOK, Kinds
<1>2. st \in Task /\ st.uid = work.uid
  BY <1>1, FailedStatus
<1>3. writeThenReport(st, FALSE)
  BY DEF failTask
<1> HIDE DEF st
<1> QED  BY <1>1, <1>2, <1>3, WriteEffect

-----------------------------------------------------------------------------
(* The steps, one lemma per group of actions.                              *)

\* A step of the cluster other than CreateTask keeps the uid of the Task.
LEMMA ClusterEffect ==
  ASSUME IInv, UNCHANGED controllerVars,
         UserStep \/ JobStep \/ CollectorStep \/ ClockStep,
         \A s \in Specs : ~CreateTask(s)
  PROVE  Effect
<1> SUFFICES /\ uids' = uids
             /\ \/ task' = None \/ task' = task
                \/ task # None /\ task' # None /\ task'.uid = task.uid
  BY DEF Effect, controllerVars, cacheVars, reconcileVars
<1>1. ASSUME NEW s \in Specs, EditSpec(s)
      PROVE  uids' = uids /\ task # None /\ task' # None /\ task'.uid = task.uid
  <2>1. task \in Task /\ task # None
    BY <1>1 DEF EditSpec, IInv, TypeOK, ClusterTypeOK
  <2>2. task' \in Task /\ task'.uid = task.uid
    <3>1. s \in TaskSpec /\ task.gen + 1 \in Nat
      BY <2>1, ClusterAssumption DEF Task
    <3> QED  BY <1>1, <2>1, <3>1 DEF EditSpec, Task
  <2> QED  BY <1>1, <2>1, <2>2, ClusterAssumption DEF EditSpec, historyVars
<1>2. CASE DeleteTask
  BY <1>2 DEF DeleteTask, historyVars
<1>3. CASE SuspendJob \/ ResumeJob
  <2>1. uids' = uids /\ task' = task
    BY <1>3, Zenon DEF SuspendJob, ResumeJob, historyVars
  <2> QED  BY <2>1
<1>4. ASSUME NEW x, ChangeClass(x) \/ ChangeDNS(x) \/ StrayPod(x) PROVE uids' = uids /\ task' = task
  BY <1>4, Zenon DEF ChangeClass, ChangeDNS, StrayPod, historyVars, apiVars
<1>5. CASE JobStep
  <2>1. ASSUME NEW st, NEW ph, JobReports(st, ph) PROVE uids' = uids /\ task' = task
    BY <2>1, Zenon DEF JobReports
  <2>2. ASSUME NEW p, NEW st, NEW m, PodEnds(p, st, m) PROVE uids' = uids /\ task' = task
    BY <2>2, Zenon DEF PodEnds
  <2>3. CASE JobStarts
    <3>1. uids' = uids /\ task' = task
      BY <2>3, Zenon DEF JobStarts, historyVars
    <3> QED  BY <3>1
  <2> QED  BY <1>5, <2>1, <2>2, <2>3 DEF JobStep, JobSucceeds, JobCompletes, JobFails, JobTimesOut
<1>6. CASE CollectorStep
  BY <1>6 DEF CollectorStep, RemovePod, JobRemoved, CollectOwned, historyVars
<1>7. CASE ClockStep
  BY <1>7 DEF ClockStep, ResultWaitElapses, TTLElapses, apiVars, historyVars
<1> QED  BY <1>1, <1>2, <1>3, <1>4, <1>5, <1>6, <1>7 DEF UserStep

\* Informers, timers, faults and the start of a reconcile copy the Task at most.
LEMMA CopyEffect ==
  ASSUME Sync \/ TimerFires \/ CallFails \/ Restart \/ Reconcile \/ UNCHANGED vars
  PROVE  Effect
<1> USE DEF Effect, vars, controllerVars, clusterVars, apiVars, historyVars, cacheVars, reconcileVars
<1>1. CASE Sync        BY <1>1 DEF Sync, SyncTask, SyncJob, SyncPods, SyncClass, SyncOwned
<1>2. CASE TimerFires  BY <1>2 DEF TimerFires
<1>3. CASE CallFails   BY <1>3 DEF CallFails, Return
<1>4. CASE Restart     BY <1>4 DEF Restart
<1>5. CASE Reconcile   BY <1>5 DEF Reconcile, At
<1>6. CASE UNCHANGED vars  BY <1>6
<1> QED  BY <1>1, <1>2, <1>3, <1>4, <1>5, <1>6

\* The calls up to ensureJob: they fail the Task, wait, return or go on.
LEMMA EnsureEffect ==
  ASSUME IInv, ValidateTask \/ EnsureJob \/ (\E k \in Kinds : Ensure(k))
  PROVE  Effect
<1>1. UNCHANGED <<uids, reports, cTask>>
  BY DEF ValidateTask, EnsureJob, Ensure, cacheVars, historyVars
<1>2. pc \in Kinds \cup {"validateTask", "ensureJob"}
  BY DEF ValidateTask, EnsureJob, Ensure, At
<1>3. /\ work \in Task /\ work # None /\ ~isTerminal(work.phase) /\ pc # "report"
  BY <1>2 DEF IInv, TypeOK, CopiesOK, Kinds
<1>4. ASSUME NEW reason \in Reasons, failTask(reason) PROVE Effect
  BY <1>1, <1>2, <1>4, FailTaskEffect
<1>5. ASSUME markWaitingForAgentClass PROVE Effect
  <2> DEFINE st == [work EXCEPT !.phase = "Pending", !.reason = "AgentClassMissing", !.observed = work.gen]
  <2>1. st \in Task /\ st.uid = work.uid
    BY <1>3, WaitingStatus
  <2>2. (UNCHANGED task /\ Return(FALSE, TRUE)) \/ writeThenReport(st, TRUE)
    BY <1>5 DEF markWaitingForAgentClass
  <2> HIDE DEF st
  <2> QED  BY <1>1, <1>3, <2>1, <2>2, WriteEffect, ReturnEffect
<1>6. ASSUME NEW c \in Kinds \cup {"ensureJob", "syncStatus"}, Proceed(c), UNCHANGED <<task, work>>
      PROVE  Effect
  BY <1>1, <1>6 DEF Proceed, Effect, Kinds
<1>7. CASE ValidateTask
  <2>1. nextStep["validateTask"] \in Kinds
    BY DEF nextStep, Kinds
  <2> QED  BY <1>4, <1>5, <1>6, <1>7, <2>1 DEF ValidateTask, At, Reasons
<1>8. CASE EnsureJob
  BY <1>1, <1>4, <1>6, <1>8, ReturnEffect DEF EnsureJob, Reasons
<1>9. ASSUME NEW k \in Kinds, Ensure(k) PROVE Effect
  <2>1. nextStep[k] \in Kinds \cup {"ensureJob"}
    BY DEF nextStep, Kinds
  <2>2. ASSUME ensureOwned(k) \/ deleteIfExists(k), UNCHANGED task PROVE Effect
    <3>1. (Proceed(nextStep[k]) /\ UNCHANGED work) \/ Return(TRUE, FALSE)
      BY <2>2, Zenon DEF ensureOwned, deleteIfExists
    <3> QED  BY <1>1, <1>6, <2>1, <2>2, <3>1, ReturnEffect
  <2> QED  BY <1>4, <1>9, <2>2 DEF Ensure, Reasons
<1> QED  BY <1>7, <1>8, <1>9

\* syncStatus writes from a copy that was not terminal.
LEMMA SyncStatusEffect == IInv /\ SyncStatus => Effect
<1> SUFFICES ASSUME IInv, SyncStatus PROVE Effect
  OBVIOUS
<1>1. /\ pc = "syncStatus" /\ work # None /\ ~isTerminal(work.phase)
      /\ UNCHANGED <<uids, reports, cTask>>
  BY DEF SyncStatus, At, IInv, TypeOK, CopiesOK, Kinds, cacheVars, historyVars
<1>2. PICK st \in Task, requeue \in BOOLEAN :
        /\ SyncedTo(st)
        /\ \/ st = work /\ UNCHANGED task /\ Return(FALSE, requeue)
           \/ st # work /\ writeThenReport(st, requeue)
  BY SyncStatusWrites
<1>3. st \in Task /\ st.uid = work.uid
  BY <1>2 DEF SyncedTo
<1> QED  BY <1>1, <1>2, <1>3, WriteEffect, ReturnEffect

\* The terminal branch never reports.
LEMMA RecordTerminalResultEffect == IInv /\ RecordTerminalResult => Effect
<1> SUFFICES ASSUME IInv, RecordTerminalResult PROVE Effect
  OBVIOUS
<1>1. work # None /\ UNCHANGED <<uids, reports, cTask>>
  BY DEF RecordTerminalResult, At, IInv, CopiesOK, cacheVars, historyVars
<1>2. PICK st :
        /\ OnlyResultOf(st, work)
        /\ task' = task \/ (work = task /\ task' = st)
        /\ \/ Return(TRUE, FALSE)
           \/ Proceed("collectTerminal") /\ work' = st /\ UNCHANGED <<wClass, wJob>>
  BY RecordTerminalResultWrites
<1>3. st \in Task /\ st.uid = work.uid /\ st # None
  BY <1>2, ClusterAssumption DEF OnlyResultOf
<1>4. \/ pc' = "idle" /\ work' = None
      \/ pc' = "collectTerminal" /\ work' = st
  BY <1>2 DEF Return, Proceed
<1> QED  BY <1>1, <1>2, <1>3, <1>4 DEF Effect

\* collectTerminal deletes the Task or leaves it alone.
LEMMA CollectTerminalEffect == CollectTerminal => Effect
<1> SUFFICES ASSUME CollectTerminal PROVE Effect
  OBVIOUS
<1>1. task' = task \/ task' = None
  BY Zenon DEF CollectTerminal
<1>2. \E err, requeue : Return(err, requeue)
  BY DEF CollectTerminal
<1>3. UNCHANGED <<uids, reports, cTask>>
  BY DEF CollectTerminal, historyVars, cacheVars
<1> QED  BY <1>1, <1>2, <1>3, ReturnEffect

\* A new Task has a uid that no copy and no report has.
LEMMA CreateKeepsReports ==
  ASSUME IInv, RInv, NEW s \in Specs, CreateTask(s), UNCHANGED controllerVars
  PROVE  RInv'
<1>1. uids \in Nat /\ MaxTasks \in Nat /\ reports \in [1..MaxTasks -> Nat]
  BY ClusterAssumption DEF IInv, TypeOK, ClusterTypeOK
<1>2. task = None /\ task'.uid = uids + 1 /\ uids' = uids + 1
  BY DEF CreateTask, NewTask
<1>3. UNCHANGED <<cTask, work, pc, reports>>
  BY DEF controllerVars, cacheVars, reconcileVars
<1>4. UidsOK'
  BY <1>1, <1>2, <1>3 DEF RInv, UidsOK
<1>5. \A u \in 1..MaxTasks : reports'[u] > 0 => u <= uids' /\ Over(u)'
  BY <1>1, <1>2, <1>3 DEF RInv, ReportsOK, Over
<1>6. pc = "report" => work # None
  BY DEF IInv, CopiesOK
<1>7. pc' = "report" => (task' # None /\ task'.uid = work'.uid => isTerminal(task'.phase))
  BY <1>1, <1>2, <1>3, <1>6 DEF RInv, UidsOK
<1> QED  BY <1>3, <1>4, <1>5, <1>7 DEF RInv, ReportsOK, Over

\* The report is the first one of its Task.
LEMMA ReportKeepsReports == IInv /\ RInv /\ Report => RInv'
<1> SUFFICES ASSUME IInv, RInv, Report PROVE RInv'
  OBVIOUS
<1>1. /\ uids \in Nat /\ MaxTasks \in Nat /\ reports \in [1..MaxTasks -> Nat]
      /\ work \in Task /\ work # None
  BY ClusterAssumption DEF IInv, TypeOK, ClusterTypeOK, CopiesOK, Report, At
<1>2. /\ pc = "report" /\ pc' = "idle" /\ work' = None
      /\ UNCHANGED <<task, cTask, uids>>
      /\ reports' = [reports EXCEPT ![work.uid] = @ + 1]
  BY DEF Report, At, Return, clusterVars, apiVars, historyVars, cacheVars
<1>3. UidsOK'
  BY <1>2 DEF RInv, UidsOK
<1>4. work.uid \in 1..uids
  BY <1>1 DEF RInv, UidsOK
<1>5. ASSUME NEW u \in 1..MaxTasks
      PROVE  reports'[u] <= 1 /\ (reports'[u] > 0 => u <= uids /\ Over(u))
  <2>1. CASE u = work.uid
    BY <1>1, <1>2, <1>4, <2>1 DEF RInv, ReportsOK
  <2>2. CASE u # work.uid
    <3>1. reports'[u] = reports[u]
      BY <1>1, <1>2, <2>2
    <3> QED  BY <3>1 DEF RInv, ReportsOK
  <2> QED  BY <2>1, <2>2
<1> QED  BY <1>2, <1>3, <1>5 DEF RInv, ReportsOK, Over

\* Every step keeps the uids and the reports in order.
LEMMA NextKeepsReports == IInv /\ RInv /\ [Next]_vars => RInv'
<1> SUFFICES ASSUME IInv, RInv, [Next]_vars PROVE RInv'
  OBVIOUS
<1>1. Final
  BY NextOK
<1>2. ASSUME Effect PROVE RInv'
  BY <1>1, <1>2, EffectKeepsUids, EffectKeepsReports DEF RInv
<1>3. CASE (UserStep \/ JobStep \/ CollectorStep \/ ClockStep) /\ UNCHANGED controllerVars
  BY <1>2, <1>3, CreateKeepsReports, ClusterEffect
<1>4. CASE Sync \/ TimerFires \/ CallFails \/ Restart \/ Reconcile \/ UNCHANGED vars
  BY <1>2, <1>4, CopyEffect
<1>5. CASE ValidateTask \/ EnsureJob \/ (\E k \in Kinds : Ensure(k))
  BY <1>2, <1>5, EnsureEffect
<1>6. CASE SyncStatus \/ RecordTerminalResult \/ CollectTerminal
  BY <1>2, <1>6, SyncStatusEffect, RecordTerminalResultEffect, CollectTerminalEffect
<1>7. CASE Report
  BY <1>7, ReportKeepsReports
<1> QED  BY <1>3, <1>4, <1>5, <1>6, <1>7 DEF Next, ReconcileStep

\* The uids and reports invariant holds in every reachable state.
THEOREM ReportsInvariance == Spec => []RInv
<1>1. Init => RInv
  BY DEF Init, ClusterInit, RInv, UidsOK, ReportsOK, Over
<1> QED  BY <1>1, NextKeepsReports, Invariance, PTL DEF Spec

\* Whatever fails, restarts, conflicts or is edited, and however often Tasks of
\* the name are created, the end of a Task is reported at most once.
THEOREM TerminalReportedOnce == Spec => []ReportedOnce
<1>1. RInv => ReportedOnce
  BY DEF RInv, ReportsOK, ReportedOnce
<1> QED  BY <1>1, ReportsInvariance, PTL

-----------------------------------------------------------------------------
(* Honesty.  What the status of a Task says of its run can be traced to    *)
(* the history of the Jobs of its name.                                    *)

\* A copy of a Job is of one that was created, and its end was its outcome.
JobTold(j, os, es) ==
  j # None =>
    /\ j.uid \in DOMAIN os
    /\ isTerminal(derivePhase(j).phase) => [job |-> j.uid, phase |-> derivePhase(j).phase] \in es

\* A pod is a stray one, or belongs to such a Job; its message was written.
PodTold(p, os, ws) ==
  /\ p.state = "running" => p.job # 0
  /\ p.job # 0 => /\ p.job \in DOMAIN os
                  /\ p.msg # "none" => [job |-> p.job, msg |-> p.msg] \in ws

EndReasons == {"Completed", "TimedOut", "Failed"}
ReadResults == {"Recorded", "Invalid", "NotProvided"}

\* A copy of a Task tells the outcome of a Job and what a container wrote.
TaskTold(t, es, ws) ==
  t # None =>
    /\ t.reason \in EndReasons => \E e \in es : e.phase = t.phase
    /\ t.result \in ReadResults => \E w \in ws, c \in Classes : t.result = ParseResult(w.msg, c)

HInv ==
  /\ uids <= MaxTasks
  /\ \A i \in DOMAIN owners : owners[i] \in 1..uids
  /\ \A e \in ended : e.job \in DOMAIN owners
  /\ \A w \in written : w.job \in DOMAIN owners
  /\ \A j \in {job, cJob, wJob} : JobTold(j, owners, ended)
  /\ \A p \in pods \cup cPods : PodTold(p, owners, written)
  /\ \A t \in {task, cTask, work} : TaskTold(t, ended, written)

\* What was told stays true when the histories grow.
LEMMA ToldStays ==
  ASSUME NEW os, NEW es, NEW ws, NEW os2, NEW es2, NEW ws2,
         DOMAIN os \subseteq DOMAIN os2, es \subseteq es2, ws \subseteq ws2
  PROVE  /\ \A j : JobTold(j, os, es) => JobTold(j, os2, es2)
         /\ \A p : PodTold(p, os, ws) => PodTold(p, os2, ws2)
         /\ \A t : TaskTold(t, es, ws) => TaskTold(t, es2, ws2)
<1>1. ASSUME NEW j, JobTold(j, os, es) PROVE JobTold(j, os2, es2)
  BY <1>1 DEF JobTold
<1>2. ASSUME NEW p, PodTold(p, os, ws) PROVE PodTold(p, os2, ws2)
  BY <1>2 DEF PodTold
<1>3. ASSUME NEW t, TaskTold(t, es, ws) PROVE TaskTold(t, es2, ws2)
  BY <1>3 DEF TaskTold
<1> QED  BY <1>1, <1>2, <1>3

\* A step that only copies, deletes or writes a status that is true.
LEMMA CopyHonest ==
  ASSUME HInv, UNCHANGED historyVars, NEW st, TaskTold(st, ended, written),
         {job', cJob', wJob'} \subseteq {job, cJob, wJob, None},
         pods' \cup cPods' \subseteq pods \cup cPods,
         {task', cTask', work'} \subseteq {task, cTask, work, st, None}
  PROVE  HInv'
<1>1. UNCHANGED <<uids, owners, ended, written>>
  BY DEF historyVars
<1>2. JobTold(None, owners, ended) /\ TaskTold(None, ended, written)
  BY DEF JobTold, TaskTold
<1>3. \A j \in {job', cJob', wJob'} : JobTold(j, owners, ended)
  BY <1>2 DEF HInv
<1>4. \A p \in pods' \cup cPods' : PodTold(p, owners, written)
  BY DEF HInv
<1>5. \A t \in {task', cTask', work'} : TaskTold(t, ended, written)
  BY <1>2 DEF HInv
<1> QED  BY <1>1, <1>3, <1>4, <1>5 DEF HInv

\* A Job whose state changes tells its outcome when the outcome is recorded.
LEMMA JobMovesHonest ==
  ASSUME IInv, HInv, job # None, NEW state \in JobStates, NEW n \in Nat,
         job' = [job EXCEPT !.state = state, !.pods = n], UNCHANGED <<controllerVars, task, uids, owners, written>>,
         \A p \in pods' : p \in pods \/ PodTold(p, owners, written),
         \/ ended' = ended /\ state \in {"created", "started", "suspended"}
         \/ ended' = ended \cup {[job |-> job.uid, phase |-> derivePhase(job').phase]}
  PROVE  HInv'
<1>1. job \in Job /\ job'.uid = job.uid /\ job'.state = state
  BY DEF IInv, TypeOK, ClusterTypeOK, Job
<1>2. ended \subseteq ended' /\ UNCHANGED <<cJob, wJob, cPods, cTask, work>>
  BY DEF controllerVars, cacheVars, reconcileVars
<1>3. job.uid \in DOMAIN owners
  BY DEF HInv, JobTold
<1>4. JobTold(job', owners, ended')
  BY <1>1, <1>3 DEF JobTold, derivePhase, isTerminal
<1>5. \A e \in ended' : e.job \in DOMAIN owners
  BY <1>3 DEF HInv
<1>6. \A j \in {cJob, wJob} : JobTold(j, owners, ended')
  BY <1>2, ToldStays DEF HInv
<1>7. \A t \in {task, cTask, work} : TaskTold(t, ended', written)
  BY <1>2, ToldStays DEF HInv
<1> QED  BY <1>2, <1>4, <1>5, <1>6, <1>7 DEF HInv

\* A container that ends leaves its message.
LEMMA PodEndsHonest ==
  ASSUME IInv, HInv, UNCHANGED controllerVars, NEW p \in pods, NEW e \in Exits, PodEnds(p, e[1], e[2])
  PROVE  HInv'
<1>1. /\ written \subseteq written'
      /\ UNCHANGED <<uids, owners, ended, job, task, cJob, wJob, cPods, cTask, work>>
  BY DEF PodEnds, controllerVars, cacheVars, reconcileVars
<1> DEFINE q == [p EXCEPT !.state = e[1], !.msg = e[2]]
<1>2. q.job = p.job /\ q.msg = e[2] /\ q.state = e[1] /\ e[1] # "running"
  <2>1. p \in Pod
    BY DEF IInv, TypeOK, ClusterTypeOK
  <2>2. e[1] # "running"
    BY ClusterAssumption
  <2>3. q.job = p.job /\ q.msg = e[2] /\ q.state = e[1]
    BY <2>1 DEF Pod
  <2> QED  BY <2>2, <2>3
<1>3. p.job \in DOMAIN owners
  BY DEF HInv, PodTold, PodEnds
<1> HIDE DEF q
<1>4. PodTold(q, owners, written')
  BY <1>2, <1>3 DEF PodTold, PodEnds
<1>5. \A w \in written' : w.job \in DOMAIN owners
  BY <1>3 DEF HInv, PodEnds
<1>6. \A x \in pods \cup cPods : PodTold(x, owners, written')
  BY <1>1, ToldStays DEF HInv
<1>7. \A t \in {task, cTask, work} : TaskTold(t, ended, written')
  BY <1>1, ToldStays DEF HInv
<1>8. \A x \in pods' : x \in pods \/ x = q
  BY DEF PodEnds, q
<1> QED  BY <1>1, <1>4, <1>5, <1>6, <1>7, <1>8 DEF HInv

\* Users create Tasks without a status, and edit specs.
LEMMA UserHonest ==
  ASSUME IInv, HInv, UNCHANGED controllerVars, UserStep
  PROVE  HInv'
<1> USE DEF apiVars, clockVars, historyVars
<1>0. /\ UNCHANGED <<cJob, wJob, cPods, cTask, work>>
      /\ TaskTold(None, ended, written)
  BY DEF controllerVars, cacheVars, reconcileVars, TaskTold
<1>1. ASSUME NEW s \in Specs, CreateTask(s) PROVE HInv'
  <2>1. UNCHANGED <<job, pods, owners, ended, written>> /\ uids' = uids + 1 /\ uids < MaxTasks
    BY <1>1 DEF CreateTask
  <2>2. TaskTold(task', ended, written)
    <3>1. task'.reason = "none" /\ task'.result = "none"
      BY <1>1 DEF CreateTask, NewTask
    <3> QED  BY <3>1 DEF TaskTold, EndReasons, ReadResults
  <2>3. uids \in Nat /\ MaxTasks \in Nat
    BY ClusterAssumption DEF IInv, TypeOK, ClusterTypeOK
  <2>4. uids' <= MaxTasks /\ 1..uids \subseteq 1..uids'
    BY <2>1, <2>3
  <2>5. \A i \in DOMAIN owners : owners[i] \in 1..uids'
    BY <2>4 DEF HInv
  <2> QED  BY <1>0, <2>1, <2>2, <2>4, <2>5 DEF HInv
<1>2. ASSUME NEW s \in Specs, EditSpec(s) PROVE HInv'
  <2>1. task'.reason = task.reason /\ task'.phase = task.phase /\ task'.result = task.result
    BY <1>2 DEF EditSpec, IInv, TypeOK, ClusterTypeOK, Task
  <2>2. TaskTold(task', ended, written)
    BY <1>2, <2>1 DEF EditSpec, HInv, TaskTold
  <2> QED  BY <1>0, <1>2, <2>2, CopyHonest DEF EditSpec
<1>3. ASSUME UNCHANGED <<historyVars, job, pods>>, task' \in {task, None} PROVE HInv'
  BY <1>0, <1>3, CopyHonest
<1>4. CASE DeleteTask
  BY <1>3, <1>4 DEF DeleteTask
<1>5. ASSUME NEW x, ChangeClass(x) \/ ChangeDNS(x) PROVE HInv'
  BY <1>3, <1>5, Zenon DEF ChangeClass, ChangeDNS
<1>6. CASE SuspendJob \/ ResumeJob
  <2>1. \E state \in {"suspended", "created"} : job' = [job EXCEPT !.state = state]
    BY <1>6 DEF SuspendJob, ResumeJob
  <2>2. PICK state \in {"suspended", "created"} : job' = [job EXCEPT !.state = state]
    BY <2>1
  <2>3. job # None /\ UNCHANGED <<task, pods, historyVars>>
    BY <1>6 DEF SuspendJob, ResumeJob
  <2>4. job' = [job EXCEPT !.state = state, !.pods = job.pods] /\ job.pods \in Nat
    BY <2>2, <2>3 DEF IInv, TypeOK, ClusterTypeOK, Job
  <2>5. state \in JobStates
    BY DEF JobStates
  <2> QED  BY <2>3, <2>4, <2>5, JobMovesHonest
<1>7. ASSUME NEW m, StrayPod(m) PROVE HInv'
  <2> DEFINE q == [job |-> 0, n |-> 0, state |-> "succeeded", msg |-> m]
  <2>1. pods' = pods \cup {q} /\ UNCHANGED <<task, job, historyVars>>
    BY <1>7 DEF StrayPod
  <2>2. PodTold(q, owners, written)
    BY DEF PodTold
  <2> HIDE DEF q
  <2> QED  BY <1>0, <2>1, <2>2 DEF HInv
<1> QED  BY <1>1, <1>2, <1>4, <1>5, <1>6, <1>7 DEF UserStep

\* The Job controller reports the outcomes that its Jobs then show.
LEMMA JobStepHonest ==
  ASSUME IInv, HInv, UNCHANGED controllerVars, JobStep
  PROVE  HInv'
<1> USE DEF clockVars
<1>1. CASE JobStarts
  <2>1. /\ job # None /\ job \in Job /\ job.pods + 1 \in Nat
        /\ UNCHANGED <<task, uids, owners, ended, written>>
    BY <1>1 DEF JobStarts, historyVars, IInv, TypeOK, ClusterTypeOK, Job
  <2>2. job' = [job EXCEPT !.state = "started", !.pods = job.pods + 1]
    BY <1>1, <2>1 DEF JobStarts, Job
  <2> DEFINE q == [job |-> job.uid, n |-> job.pods + 1, state |-> "running", msg |-> "none"]
  <2>3. pods' = pods \cup {q}
    BY <1>1 DEF JobStarts
  <2>4. job.uid \in DOMAIN owners /\ owners \in Seq(Nat) /\ job.uid # 0
    <3>1. job.uid \in DOMAIN owners
      BY <2>1 DEF HInv, JobTold
    <3>2. owners \in Seq(Nat)
      BY DEF IInv, TypeOK, ClusterTypeOK
    <3>3. DOMAIN owners = 1..Len(owners) /\ Len(owners) \in Nat
      BY <3>2
    <3> QED  BY <3>1, <3>2, <3>3
  <2>5. PodTold(q, owners, written)
    BY <2>4 DEF PodTold
  <2> HIDE DEF q
  <2>6. "started" \in JobStates
    BY DEF JobStates
  <2> QED  BY <2>1, <2>2, <2>3, <2>5, <2>6, JobMovesHonest
<1>2. ASSUME NEW state \in JobStates, NEW phase, job # None, JobReports(state, phase),
             phase = derivePhase(job').phase
      PROVE  HInv'
  <2>1. job' = [job EXCEPT !.state = state, !.pods = job.pods] /\ job.pods \in Nat
    BY <1>2 DEF JobReports, IInv, TypeOK, ClusterTypeOK, Job
  <2>2. /\ UNCHANGED <<task, pods, uids, owners, written>>
        /\ ended' = ended \cup {[job |-> job.uid, phase |-> derivePhase(job').phase]}
    BY <1>2 DEF JobReports
  <2> QED  BY <1>2, <2>1, <2>2, JobMovesHonest
<1>3. ASSUME NEW state \in JobStates, job # None, job' = [job EXCEPT !.state = state]
      PROVE  job'.state = state
  BY <1>3 DEF IInv, TypeOK, ClusterTypeOK, Job
<1>4. CASE JobSucceeds \/ JobCompletes \/ JobFails \/ JobTimesOut
  <2>1. PICK state \in JobStates, phase \in {"Completed", "Failed", "TimedOut"} :
          /\ job # None /\ JobReports(state, phase)
          /\ <<state, phase>> \in {<<"succeeding", "Completed">>, <<"complete", "Completed">>,
                                   <<"failed", "Failed">>, <<"deadline", "TimedOut">>}
    BY <1>4 DEF JobSucceeds, JobCompletes, JobFails, JobTimesOut, JobStates
  <2>2. job'.state = state
    BY <1>3, <2>1 DEF JobReports
  <2>3. phase = derivePhase(job').phase
    BY <2>1, <2>2 DEF derivePhase
  <2> QED  BY <1>2, <2>1, <2>3
<1> QED  BY <1>1, <1>4, PodEndsHonest DEF JobStep

\* Collectors and clock, informers, timers and faults copy and delete.
LEMMA OtherHonest ==
  ASSUME HInv,
         \/ (CollectorStep \/ ClockStep) /\ UNCHANGED controllerVars
         \/ Sync \/ TimerFires \/ CallFails \/ Restart \/ Reconcile \/ Report \/ UNCHANGED vars
  PROVE  HInv'
<1> USE DEF clusterVars, apiVars, clockVars, cacheVars, reconcileVars
<1>1. /\ UNCHANGED historyVars
      /\ {job', cJob', wJob'} \subseteq {job, cJob, wJob, None}
      /\ pods' \cup cPods' \subseteq pods \cup cPods
      /\ {task', cTask', work'} \subseteq {task, cTask, work, None}
  <2>1. CASE CollectorStep /\ UNCHANGED controllerVars
    BY <2>1 DEF CollectorStep, RemovePod, JobRemoved, CollectOwned, controllerVars
  <2>2. CASE ClockStep /\ UNCHANGED controllerVars
    BY <2>2 DEF ClockStep, ResultWaitElapses, TTLElapses, controllerVars
  <2>3. CASE Sync
    BY <2>3 DEF Sync, SyncTask, SyncJob, SyncPods, SyncOwned, SyncClass
  <2>4. CASE TimerFires \/ CallFails \/ Restart \/ Reconcile \/ Report \/ UNCHANGED vars
    BY <2>4 DEF TimerFires, CallFails, Restart, Reconcile, Report, Return, vars, controllerVars
  <2> QED  BY <2>1, <2>2, <2>3, <2>4
<1>2. TaskTold(None, ended, written)
  BY DEF TaskTold
<1> QED  BY <1>1, <1>2, CopyHonest

\* A status write copies the status it writes.
LEMMA WriteHonest ==
  ASSUME HInv, UNCHANGED <<job, pods, historyVars, cJob, cPods, cTask>>,
         NEW st, TaskTold(st, ended, written), NEW requeue, writeThenReport(st, requeue)
  PROVE  HInv'
<1>1. wJob' \in {wJob, None} /\ task' \in {task, st} /\ work' \in {st, None}
  BY DEF writeThenReport, updateStatus, current, Return
<1> QED  BY <1>1, CopyHonest

\* The status of a reconcile that gives up tells nothing of a run, and keeps
\* the Result.
LEMMA FailHonest ==
  ASSUME HInv, work \in Task, UNCHANGED <<job, pods, historyVars, cJob, cPods, cTask>>,
         NEW reason \in {"InvalidSpec", "EgressResolveFailed"}, failTask(reason)
  PROVE  HInv'
<1> DEFINE st == [work EXCEPT !.phase = "Failed", !.reason = reason, !.observed = work.gen]
<1>1. st.reason = reason /\ st.result = work.result /\ work # None
  BY ClusterAssumption DEF Task
<1>2. writeThenReport(st, FALSE)
  BY DEF failTask
<1> HIDE DEF st
<1>3. TaskTold(st, ended, written)
  BY <1>1 DEF TaskTold, HInv, EndReasons
<1> QED  BY <1>2, <1>3, WriteHonest

\* The calls before the Job tell nothing of a run.
LEMMA EarlyCallsHonest ==
  ASSUME IInv, HInv, ValidateTask \/ (\E k \in Kinds : Ensure(k))
  PROVE  HInv'
<1>0. work \in Task /\ work # None /\ UNCHANGED <<job, pods, historyVars, cJob, cPods, cTask>>
  BY DEF ValidateTask, Ensure, At, IInv, TypeOK, CopiesOK, Kinds, cacheVars
<1>1. TaskTold(None, ended, written)
  BY DEF TaskTold
<1>2. ASSUME NEW err, NEW requeue, Return(err, requeue), UNCHANGED task PROVE HInv'
  <2>1. wJob' = None /\ work' = None
    BY <1>2 DEF Return
  <2> QED  BY <1>0, <1>1, <1>2, <2>1, CopyHonest
<1>3. ASSUME UNCHANGED <<task, work, wJob>> PROVE HInv'
  BY <1>0, <1>1, <1>3, CopyHonest
<1>4. CASE ValidateTask
  <2> DEFINE st == [work EXCEPT !.phase = "Pending", !.reason = "AgentClassMissing", !.observed = work.gen]
  <2>1. st.reason = "AgentClassMissing" /\ st.result = work.result
    BY <1>0 DEF Task
  <2>2. \/ failTask("InvalidSpec")
        \/ Return(FALSE, TRUE) /\ UNCHANGED task
        \/ writeThenReport(st, TRUE)
        \/ UNCHANGED <<task, work, wJob>>
    BY <1>4 DEF ValidateTask, markWaitingForAgentClass
  <2> HIDE DEF st
  <2>3. TaskTold(st, ended, written)
    BY <1>0, <2>1 DEF TaskTold, HInv, EndReasons
  <2> QED  BY <1>0, <1>2, <1>3, <2>2, <2>3, FailHonest, WriteHonest
<1>5. ASSUME NEW k \in Kinds, Ensure(k) PROVE HInv'
  <2>1. \/ failTask("EgressResolveFailed")
        \/ Return(TRUE, FALSE) /\ UNCHANGED task
        \/ UNCHANGED <<task, work, wJob>>
    BY <1>5, Zenon DEF Ensure, ensureOwned, deleteIfExists
  <2> QED  BY <1>0, <1>2, <1>3, <2>1, FailHonest
<1> QED  BY <1>4, <1>5

\* ensureJob returns a Job that exists, or creates one of its own Task.
LEMMA EnsureJobHonest ==
  ASSUME IInv, UidsOK, HInv, EnsureJob
  PROVE  HInv'
<1>0. /\ work \in Task /\ work # None
      /\ UNCHANGED <<pods, uids, ended, written, cJob, cPods, cTask>>
  BY DEF EnsureJob, At, IInv, TypeOK, CopiesOK
<1>1. TaskTold(None, ended, written)
  BY DEF TaskTold
<1>2. CASE failTask("InvalidSpec") /\ UNCHANGED <<job, owners>>
  BY <1>0, <1>2, FailHonest DEF historyVars
<1>3. CASE Return(TRUE, FALSE) /\ UNCHANGED <<task, job, owners>>
  <2>1. wJob' = None /\ work' = None
    BY <1>3 DEF Return
  <2> QED  BY <1>0, <1>1, <1>3, <2>1, CopyHonest DEF historyVars
<1>4. CASE wJob' = cJob /\ UNCHANGED <<task, job, owners, work>>
  BY <1>0, <1>1, <1>4, CopyHonest DEF historyVars
<1>5. CASE job' = newJob /\ wJob' = newJob /\ owners' = Append(owners, work.uid) /\ UNCHANGED <<task, work>>
  <2>1. owners \in Seq(Nat) /\ work.uid \in 1..uids
    BY <1>0 DEF IInv, TypeOK, ClusterTypeOK, UidsOK
  <2>2. /\ DOMAIN owners \subseteq DOMAIN owners' /\ Len(owners) + 1 \in DOMAIN owners'
        /\ \A i \in DOMAIN owners' : owners'[i] = work.uid \/ (i \in DOMAIN owners /\ owners'[i] = owners[i])
    BY <1>0, <1>5, <2>1 DEF Task
  <2>3. JobTold(newJob, owners', ended)
    BY <2>2 DEF JobTold, newJob, derivePhase, isTerminal
  <2>4. ended \subseteq ended /\ written \subseteq written
    OBVIOUS
  <2>5. JobTold(cJob, owners', ended) /\ \A p \in pods \cup cPods : PodTold(p, owners', written)
    BY <2>2, <2>4, ToldStays DEF HInv
  <2>6. \A i \in DOMAIN owners' : owners'[i] \in 1..uids
    BY <2>1, <2>2 DEF HInv
  <2> QED  BY <1>0, <1>5, <2>2, <2>3, <2>5, <2>6 DEF HInv
<1> QED  BY <1>2, <1>3, <1>4, <1>5 DEF EnsureJob

\* A Result that was read from a pod of a Job was written by that pod.
LEMMA SourcedIsTold ==
  ASSUME HInv, IInv, work # None, NEW j \in {cJob, wJob}, NEW st, Sourced(st, work, j),
         st.result \in ReadResults
  PROVE  \E w \in written, c \in Classes : st.result = ParseResult(w.msg, c)
<1>1. CASE st.result = work.result
  BY <1>1 DEF HInv, TaskTold
<1>2. CASE j # None /\ \E p \in reporting(j), c \in Classes : st.result = ParseResult(p.msg, c)
  <2>1. PICK p \in reporting(j), c \in Classes : st.result = ParseResult(p.msg, c)
    BY <1>2
  <2>2. p \in cPods /\ p.job = j.uid /\ p.msg # "none"
    BY DEF reporting
  <2>3. j.uid \in DOMAIN owners /\ owners \in Seq(Nat)
    BY <1>2 DEF HInv, JobTold, IInv, TypeOK, ClusterTypeOK
  <2>4. [job |-> p.job, msg |-> p.msg] \in written
    BY <2>2, <2>3 DEF HInv, PodTold
  <2> QED  BY <2>1, <2>4
<1>3. st.result # "Unavailable"
  BY DEF ReadResults
<1> QED  BY <1>1, <1>2, <1>3 DEF Sourced

\* derivePhase gives the reason of an end to ended Jobs only.
LEMMA EndedPhase ==
  ASSUME NEW j, derivePhase(j).reason \in EndReasons
  PROVE  isTerminal(derivePhase(j).phase)
BY DEF derivePhase, EndReasons, isTerminal

\* syncStatus and the terminal branch write what Job and pod told.
LEMMA StatusHonest ==
  ASSUME IInv, HInv, SyncStatus \/ RecordTerminalResult \/ CollectTerminal
  PROVE  HInv'
<1>0. work # None /\ UNCHANGED <<job, pods, historyVars, cJob, cPods, cTask>>
  BY DEF SyncStatus, RecordTerminalResult, CollectTerminal, At, IInv, CopiesOK, cacheVars
<1>1. CASE SyncStatus
  <2>1. PICK st \in Task, requeue \in BOOLEAN :
          /\ SyncedTo(st)
          /\ \/ st = work /\ UNCHANGED task /\ Return(FALSE, requeue)
             \/ st # work /\ writeThenReport(st, requeue)
    BY <1>1, SyncStatusWrites
  <2>2. JobTold(wJob, owners, ended) /\ wJob # None
    BY <1>1 DEF HInv, SyncStatus, At, IInv, CopiesOK
  <2>3. st.reason \in EndReasons => \E e \in ended : e.phase = st.phase
    BY <2>1, <2>2, EndedPhase DEF SyncedTo, JobTold
  <2>4. TaskTold(st, ended, written)
    BY <1>0, <2>1, <2>3, SourcedIsTold DEF SyncedTo, TaskTold
  <2>5. ASSUME Return(FALSE, requeue), UNCHANGED task PROVE HInv'
    <3>1. wJob' = None /\ work' = None
      BY <2>5 DEF Return
    <3> QED  BY <1>0, <2>4, <2>5, <3>1, CopyHonest
  <2> QED  BY <1>0, <2>1, <2>4, <2>5, WriteHonest
<1>2. CASE RecordTerminalResult
  <2>1. PICK st :
          /\ OnlyResultOf(st, work) /\ Sourced(st, work, cJob)
          /\ task' = task \/ (work = task /\ task' = st)
          /\ \/ Return(TRUE, FALSE)
             \/ Proceed("collectTerminal") /\ work' = st /\ UNCHANGED <<wClass, wJob>>
    BY <1>2, RecordTerminalResultWrites
  <2>2. TaskTold(st, ended, written)
    <3>1. st.reason \in EndReasons => \E e \in ended : e.phase = st.phase
      BY <1>0, <2>1 DEF OnlyResultOf, HInv, TaskTold
    <3> QED  BY <1>0, <2>1, <3>1, SourcedIsTold DEF TaskTold
  <2>3. wJob' \in {wJob, None} /\ work' \in {st, None} /\ task' \in {task, st}
    BY <2>1 DEF Return
  <2> QED  BY <1>0, <2>2, <2>3, CopyHonest
<1>3. CASE CollectTerminal
  <2>1. wJob' = None /\ work' = None /\ task' \in {task, None}
    BY <1>3, Zenon DEF CollectTerminal, Return
  <2>2. TaskTold(None, ended, written)
    BY DEF TaskTold
  <2> QED  BY <1>0, <2>1, <2>2, CopyHonest
<1> QED  BY <1>1, <1>2, <1>3

\* Every step keeps HInv.
LEMMA NextHonest == IInv /\ RInv /\ HInv /\ [Next]_vars => HInv'
<1> SUFFICES ASSUME IInv, UidsOK, HInv, [Next]_vars PROVE HInv'
  BY DEF RInv
<1>1. CASE (UserStep \/ JobStep) /\ UNCHANGED controllerVars
  BY <1>1, UserHonest, JobStepHonest
<1>2. CASE \/ (CollectorStep \/ ClockStep) /\ UNCHANGED controllerVars
           \/ Sync \/ TimerFires \/ CallFails \/ Restart \/ Reconcile \/ Report \/ UNCHANGED vars
  BY <1>2, OtherHonest
<1>3. CASE ValidateTask \/ (\E k \in Kinds : Ensure(k))
  BY <1>3, EarlyCallsHonest
<1>4. CASE EnsureJob
  BY <1>4, EnsureJobHonest
<1>5. CASE SyncStatus \/ RecordTerminalResult \/ CollectTerminal
  BY <1>5, StatusHonest
<1> QED  BY <1>1, <1>2, <1>3, <1>4, <1>5 DEF Next, ReconcileStep

\* Every copy of a Task, a Job or a pod, however old, tells what happened.
THEOREM HonestyInvariance == Spec => []HInv
<1>1. Init => HInv
  <2> SUFFICES ASSUME Init PROVE HInv
    OBVIOUS
  <2>1. uids <= MaxTasks
    BY ClusterAssumption DEF Init, ClusterInit
  <2>2. DOMAIN owners = {} /\ ended = {} /\ written = {} /\ pods = {} /\ cPods = {}
    BY DEF Init, ClusterInit
  <2>3. job = None /\ cJob = None /\ wJob = None /\ task = None /\ cTask = None /\ work = None
    BY DEF Init, ClusterInit
  <2>4. JobTold(None, owners, ended) /\ TaskTold(None, ended, written)
    BY DEF JobTold, TaskTold
  <2> QED  BY <2>1, <2>2, <2>3, <2>4 DEF HInv
<1> QED  BY <1>1, NextHonest, Invariance, ReportsInvariance, PTL DEF Spec

\* The status of a Task tells the outcome of a Job, and the message of a
\* container, that existed under its name, also when the name is used again: the
\* controller invents neither.
THEOREM StatusHasSource == Spec => []TaskTold(task, ended, written)
<1>1. HInv => TaskTold(task, ended, written)
  BY DEF HInv
<1> QED  BY <1>1, HonestyInvariance, PTL

\* The Job of a Task that is the only one of its name is its own.
LEMMA OwnJobs ==
  ASSUME MaxTasks <= 1, IInv, RInv, HInv, task # None, NEW i \in DOMAIN owners
  PROVE  owners[i] = task.uid
<1>1. uids \in Nat /\ MaxTasks \in Nat
  BY ClusterAssumption DEF IInv, TypeOK, ClusterTypeOK
<1>2. task.uid = uids /\ uids >= 1
  BY DEF RInv, UidsOK
<1>3. uids <= MaxTasks /\ owners[i] \in 1..uids
  BY DEF HInv
<1> QED  BY <1>1, <1>2, <1>3

\* While only one Task of the name is ever created, its phase is the outcome
\* that a Job of its own reported.
THEOREM PhaseHonest ==
  ASSUME MaxTasks <= 1
  PROVE  Spec => []PhaseIsHonest
<1>1. IInv /\ RInv /\ HInv => PhaseIsHonest
  <2> SUFFICES ASSUME IInv, RInv, HInv, task # None, task.reason \in {"Completed", "TimedOut", "Failed"}
               PROVE  \E e \in ended : owners[e.job] = task.uid /\ e.phase = task.phase
    BY DEF PhaseIsHonest
  <2>1. PICK e \in ended : e.phase = task.phase
    BY DEF HInv, TaskTold, EndReasons
  <2>2. e.job \in DOMAIN owners
    BY DEF HInv
  <2> QED  BY <2>1, <2>2, OwnJobs
<1> QED  BY <1>1, Invariance, ReportsInvariance, HonestyInvariance, PTL

\* While only one Task of the name is ever created, its Result was read from a
\* container of a Job of its own, and no stray pod's message takes its place.
THEOREM ResultHonest ==
  ASSUME MaxTasks <= 1
  PROVE  Spec => []ResultIsHonest
<1>1. IInv /\ RInv /\ HInv => ResultIsHonest
  <2> SUFFICES ASSUME IInv, RInv, HInv, task # None, task.result \in {"Recorded", "Invalid", "NotProvided"}
               PROVE  \E w \in written : /\ owners[w.job] = task.uid
                                         /\ \E c \in Classes : task.result = ParseResult(w.msg, c)
    BY DEF ResultIsHonest
  <2>1. PICK w \in written : \E c \in Classes : task.result = ParseResult(w.msg, c)
    BY DEF HInv, TaskTold, ReadResults
  <2>2. w.job \in DOMAIN owners
    BY DEF HInv
  <2> QED  BY <2>1, <2>2, OwnJobs
<1> QED  BY <1>1, Invariance, ReportsInvariance, HonestyInvariance, PTL

=============================================================================
