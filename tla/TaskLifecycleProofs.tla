------------------------ MODULE TaskLifecycleProofs ------------------------
(***************************************************************************)
(* TaskController implements TaskLifecycle, and the controller deletes     *)
(* only Tasks that are terminal and whose TTL has elapsed; then, that the  *)
(* NetworkPolicy covers the pods.                                          *)
(*                                                                         *)
(* The argument: a status write changes the live Task only when the copy   *)
(* of the reconcile is current, so the step a client sees starts from that *)
(* copy.  A copy that is terminal was terminal when it was read; the Task  *)
(* of its uid has stayed so, or is gone.                                   *)
(***************************************************************************)
EXTENDS TaskReportProofs

\* The branch for terminal Tasks works on a terminal copy, and what a copy says
\* about the end of a Task holds for the live one.
TInv ==
  /\ pc \in {"recordTerminalResult", "collectTerminal"} => isTerminal(work.phase)
  /\ cTask # None /\ isTerminal(cTask.phase) => Over(cTask.uid)
  /\ work # None /\ isTerminal(work.phase) => Over(work.uid)

\* What a step does to the copy of the running reconcile.
WorkStep ==
  \/ work' = None /\ pc' = "idle"
  \/ work' = work /\ (pc' \in {"recordTerminalResult", "collectTerminal"} => pc' = pc)
  \/ work' = cTask /\ (pc' \in {"recordTerminalResult", "collectTerminal"} => isTerminal(cTask.phase))
  \/ work' = task' /\ pc' = "report"
  \/ /\ pc = "recordTerminalResult" /\ pc' = "collectTerminal"
     /\ work'.uid = work.uid /\ work'.phase = work.phase

LifeStep == Lifecycle!LifeNext \/ UNCHANGED Lifecycle!lifeVars

\* The step does not delete the Task.
Kept == task # None => task' # None

\* What a client sees of a Task.
seen(t) == IF t = None THEN None
           ELSE [uid |-> t.uid, phase |-> t.phase, reason |-> t.reason, result |-> t.result]

owes == IF pc = "report" THEN work.uid ELSE 0

-----------------------------------------------------------------------------
(* Steps of the lifecycle, in terms of the controller's state.             *)

\* Nothing a client sees changes; a report that was owed may be lost.
LEMMA QuietStep ==
  ASSUME IInv, RInv, seen(task)' = seen(task), UNCHANGED <<uids, reports>>,
         owes' = owes \/ owes' = 0
  PROVE  LifeStep
<1>1. CASE owes' = owes
  BY <1>1 DEF LifeStep, Lifecycle!lifeVars, seen, owes
<1>2. CASE owes' # owes
  <2>1. pc = "report" /\ work.uid # 0
    BY <1>2 DEF owes, IInv, CopiesOK, RInv, UidsOK
  <2>2. Lifecycle!LoseReport
    BY <1>2, <2>1 DEF Lifecycle!LoseReport, seen, owes
  <2> QED  BY <2>2 DEF LifeStep, Lifecycle!LifeNext
<1> QED  BY <1>1, <1>2

\* A Task is seen as a record.
LEMMA SeenTask ==
  ASSUME NEW t \in Task
  PROVE  /\ t # None /\ seen(t) # None
         /\ seen(t) = [uid |-> t.uid, phase |-> t.phase, reason |-> t.reason, result |-> t.result]
<1>1. t # None
  BY ClusterAssumption
<1>2. [uid |-> t.uid, phase |-> t.phase, reason |-> t.reason, result |-> t.result]
        \in [uid : Nat, phase : Phases, reason : Reasons, result : ResultReasons]
  BY DEF Task
<1> QED  BY <1>1, <1>2, ControllerAssumption DEF seen

\* The Task is deleted.
LEMMA DeleteStep ==
  ASSUME task \in Task, task' = None, UNCHANGED <<uids, reports>>, owes' = owes
  PROVE  LifeStep
<1>1. Lifecycle!Delete
  BY SeenTask DEF Lifecycle!Delete, seen, owes
<1> QED  BY <1>1 DEF LifeStep, Lifecycle!LifeNext

\* A status that the reconcile may write from its copy.
Writable(st) ==
  /\ st \in Task /\ st.uid = work.uid
  /\ <<st.phase, st.reason>> \in Lifecycle!Underway \cup Lifecycle!Outcomes
  /\ st.result = work.result \/ (work.result = "none" /\ st.result \in Lifecycle!FromMessage)

\* The outcomes are the statuses whose phase is terminal.
LEMMA OutcomesAreTerminal ==
  ASSUME NEW p, NEW r, <<p, r>> \in Lifecycle!Underway \cup Lifecycle!Outcomes
  PROVE  <<p, r>> \in Lifecycle!Outcomes <=> isTerminal(p)
BY DEF Lifecycle!Underway, Lifecycle!Outcomes, isTerminal

\* A status write from a copy that is not terminal is a step of the lifecycle:
\* the end of the Task when the phase is terminal, progress otherwise.
LEMMA WriteStep ==
  ASSUME IInv, RInv, work \in Task, ~isTerminal(work.phase), pc # "report",
         NEW st, Writable(st), NEW requeue, writeThenReport(st, requeue),
         UNCHANGED <<uids, reports>>
  PROVE  LifeStep /\ WorkStep /\ Kept
<1> DEFINE pr == <<st.phase, st.reason>>
<1>1. CASE ~current(work)
  <2>1. task' = task /\ pc' = "idle" /\ work' = None
    BY <1>1 DEF writeThenReport, updateStatus, Return
  <2>2. seen(task)' = seen(task) /\ owes' = 0
    BY <2>1 DEF seen, owes
  <2> QED  BY <2>1, <2>2, QuietStep DEF WorkStep, Kept
<1>2. CASE current(work)
  <2>1. task = work /\ task' = st /\ st \in Task
    BY <1>2 DEF writeThenReport, updateStatus, current, Writable
  <2>2. /\ seen(task) = [uid |-> work.uid, phase |-> work.phase, reason |-> work.reason, result |-> work.result]
        /\ seen(task') = [uid |-> work.uid, phase |-> st.phase, reason |-> st.reason, result |-> st.result]
        /\ seen(task) # None
    BY <2>1, SeenTask DEF Writable
  <2>3. Lifecycle!Write(pr)
    BY <2>1, <2>2 DEF Lifecycle!Write, Writable, seen
  <2>0. Kept
    BY <2>1, SeenTask DEF Kept
  <2>4. CASE isTerminal(st.phase)
    <3>1. pc' = "report" /\ work' = st
      BY <1>2, <2>4 DEF writeThenReport
    <3>2. pr \in Lifecycle!Outcomes
      BY <2>4, OutcomesAreTerminal DEF Writable
    <3>3. Lifecycle!Finish(pr)
      BY <2>1, <2>2, <2>3, <3>1 DEF Lifecycle!Finish, Lifecycle!over, Writable, seen, isTerminal
    <3>4. WorkStep
      BY <2>1, <3>1 DEF WorkStep
    <3> QED  BY <2>0, <3>2, <3>3, <3>4 DEF LifeStep, Lifecycle!LifeNext
  <2>5. CASE ~isTerminal(st.phase)
    <3>1. pc' = "idle" /\ work' = None
      BY <1>2, <2>5 DEF writeThenReport, Return
    <3>2. pr \in Lifecycle!Underway
      BY <2>5, OutcomesAreTerminal DEF Writable
    <3>3. Lifecycle!Progress(pr)
      BY <2>1, <2>2, <2>3, <3>1 DEF Lifecycle!Progress, Lifecycle!over, seen, isTerminal
    <3>4. WorkStep
      BY <3>1 DEF WorkStep
    <3> QED  BY <2>0, <3>2, <3>3, <3>4 DEF LifeStep, Lifecycle!LifeNext
  <2> QED  BY <2>4, <2>5
<1> QED  BY <1>1, <1>2

-----------------------------------------------------------------------------
(* The steps of the controller, one lemma per group of actions.            *)

\* The end of a reconcile that has nothing to report leaves the client alone.
LEMMA ReturnStep ==
  ASSUME IInv, RInv, NEW err, NEW requeue, Return(err, requeue),
         UNCHANGED <<task, uids, reports>>
  PROVE  LifeStep /\ WorkStep /\ Kept
<1>1. pc' = "idle" /\ work' = None
  BY DEF Return
<1>2. seen(task)' = seen(task) /\ owes' = 0
  BY <1>1 DEF seen, owes
<1> QED  BY <1>1, <1>2, QuietStep DEF WorkStep, Kept

\* Every call goes on to one of the calls before the terminal branch.
LEMMA ProceedStep ==
  ASSUME IInv, RInv, pc # "report", NEW c \in Kinds \cup {"ensureJob", "syncStatus"}, Proceed(c),
         UNCHANGED <<task, work, uids, reports>>
  PROVE  LifeStep /\ WorkStep /\ Kept
<1>1. pc' = c /\ c \notin {"report", "recordTerminalResult", "collectTerminal"}
  BY DEF Proceed, Kinds
<1>2. seen(task)' = seen(task) /\ owes' = owes
  BY <1>1 DEF seen, owes
<1> QED  BY <1>1, <1>2, QuietStep DEF WorkStep, Kept

\* failTask writes one of the two reasons of a Task that cannot run.
LEMMA FailTaskStep ==
  ASSUME IInv, RInv, pc \in Kinds \cup {"validateTask", "ensureJob"},
         NEW reason \in {"InvalidSpec", "EgressResolveFailed"}, failTask(reason),
         UNCHANGED <<uids, reports>>
  PROVE  LifeStep /\ WorkStep /\ Kept
<1> DEFINE st == [work EXCEPT !.phase = "Failed", !.reason = reason, !.observed = work.gen]
<1>1. work \in Task /\ ~isTerminal(work.phase) /\ pc # "report"
  BY DEF IInv, TypeOK, CopiesOK, Kinds
<1>2. st \in Task /\ st.uid = work.uid /\ st.result = work.result
  BY <1>1, FailedStatus DEF Reasons
<1>3. st.phase = "Failed" /\ st.reason = reason
  BY <1>1 DEF Task
<1>4. Writable(st)
  BY <1>2, <1>3 DEF Writable, Lifecycle!Outcomes
<1>5. writeThenReport(st, FALSE)
  BY DEF failTask
<1> HIDE DEF st
<1> QED  BY <1>1, <1>4, <1>5, WriteStep

\* validateTask and the class lookup fail the Task, keep it waiting or go on.
LEMMA ValidateTaskStep == IInv /\ RInv /\ ValidateTask => LifeStep /\ WorkStep /\ Kept
<1> SUFFICES ASSUME IInv, RInv, ValidateTask PROVE LifeStep /\ WorkStep /\ Kept
  OBVIOUS
<1>0. /\ pc = "validateTask" /\ work \in Task /\ ~isTerminal(work.phase)
      /\ UNCHANGED <<uids, reports>>
  BY DEF ValidateTask, At, IInv, TypeOK, CopiesOK, Kinds, historyVars
<1>1. CASE failTask("InvalidSpec")
  BY <1>0, <1>1, FailTaskStep
<1>2. CASE markWaitingForAgentClass
  <2> DEFINE st == [work EXCEPT !.phase = "Pending", !.reason = "AgentClassMissing", !.observed = work.gen]
  <2>1. st \in Task /\ st.uid = work.uid /\ st.result = work.result
    BY <1>0, WaitingStatus
  <2>2. st.phase = "Pending" /\ st.reason = "AgentClassMissing"
    BY <1>0 DEF Task
  <2>3. Writable(st)
    BY <2>1, <2>2 DEF Writable, Lifecycle!Underway
  <2>4. (UNCHANGED task /\ Return(FALSE, TRUE)) \/ writeThenReport(st, TRUE)
    BY <1>2 DEF markWaitingForAgentClass
  <2> HIDE DEF st
  <2>5. CASE UNCHANGED task /\ Return(FALSE, TRUE)
    BY <1>0, <2>5, ReturnStep
  <2>6. CASE writeThenReport(st, TRUE)
    BY <1>0, <2>3, <2>6, WriteStep
  <2> QED  BY <2>4, <2>5, <2>6
<1>3. CASE Proceed(nextStep[pc]) /\ UNCHANGED <<task, work>>
  <2>1. nextStep["validateTask"] \in Kinds
    BY DEF nextStep, Kinds
  <2> QED  BY <1>0, <1>3, <2>1, ProceedStep
<1> QED  BY <1>1, <1>2, <1>3 DEF ValidateTask

\* ensureOwned and deleteIfExists touch no Task.
LEMMA EnsureStep == ASSUME IInv, RInv, NEW k \in Kinds, Ensure(k) PROVE LifeStep /\ WorkStep /\ Kept
<1>0. pc = k /\ UNCHANGED <<uids, reports>> /\ pc # "report"
  BY DEF Ensure, At, historyVars, Kinds
<1>1. nextStep[k] \in Kinds \cup {"ensureJob"}
  BY DEF nextStep, Kinds
<1>2. CASE (ensureOwned(k) \/ deleteIfExists(k)) /\ UNCHANGED task
  <2>1. (Proceed(nextStep[k]) /\ UNCHANGED work) \/ Return(TRUE, FALSE)
    BY <1>2, Zenon DEF ensureOwned, deleteIfExists
  <2>2. CASE Proceed(nextStep[k]) /\ UNCHANGED work
    BY <1>0, <1>1, <1>2, <2>2, ProceedStep
  <2>3. CASE Return(TRUE, FALSE)
    BY <1>0, <1>2, <2>3, ReturnStep
  <2> QED  BY <2>1, <2>2, <2>3
<1>3. CASE failTask("EgressResolveFailed")
  BY <1>0, <1>3, FailTaskStep
<1> QED  BY <1>2, <1>3 DEF Ensure

\* ensureJob fails the Task, returns or goes on to syncStatus.
LEMMA EnsureJobStep == IInv /\ RInv /\ EnsureJob => LifeStep /\ WorkStep /\ Kept
<1> SUFFICES ASSUME IInv, RInv, EnsureJob PROVE LifeStep /\ WorkStep /\ Kept
  OBVIOUS
<1>0. pc = "ensureJob" /\ UNCHANGED <<uids, reports>>
  BY DEF EnsureJob, At
<1>1. CASE failTask("InvalidSpec")
  BY <1>0, <1>1, FailTaskStep
<1>2. CASE Proceed("syncStatus") /\ UNCHANGED <<task, work>>
  BY <1>0, <1>2, ProceedStep
<1>3. CASE Return(TRUE, FALSE) /\ UNCHANGED task
  BY <1>0, <1>3, ReturnStep
<1> QED  BY <1>1, <1>2, <1>3 DEF EnsureJob

\* The phases and reasons that derivePhase pairs are those of the lifecycle.
LEMMA DerivedPairs ==
  ASSUME NEW j \in Job
  PROVE  <<derivePhase(j).phase, derivePhase(j).reason>> \in Lifecycle!Underway \cup Lifecycle!Outcomes
BY DEF derivePhase, Job, Lifecycle!Underway, Lifecycle!Outcomes

\* Before the ResultWait has elapsed, a Result comes from a message.
LEMMA ObservedMessage ==
  ASSUME cPods \subseteq Pod, NEW st \in Task, NEW j, NEW c,
         NEW x \in observeResult(st, j, c, FALSE)
  PROVE  x.result = st.result \/ (st.result = "none" /\ x.result \in Lifecycle!FromMessage)
<1>1. CASE st.result # "none" \/ reporting(j) = {}
  BY <1>1 DEF observeResult
<1>2. CASE st.result = "none" /\ reporting(j) # {}
  <2>1. PICK p \in reporting(j) : x = [st EXCEPT !.result = ParseResult(p.msg, c)]
    BY <1>2 DEF observeResult
  <2>2. ParseResult(p.msg, c) \in Lifecycle!FromMessage
    BY DEF ParseResult, Lifecycle!FromMessage
  <2>3. x.result = ParseResult(p.msg, c)
    BY <2>1 DEF Task
  <2> QED  BY <1>2, <2>2, <2>3
<1> QED  BY <1>1, <1>2

\* syncStatus writes a pair of derivePhase and perhaps a Result.
LEMMA SyncStatusStep == IInv /\ RInv /\ SyncStatus => LifeStep /\ WorkStep /\ Kept
<1> SUFFICES ASSUME IInv, RInv, SyncStatus PROVE LifeStep /\ WorkStep /\ Kept
  OBVIOUS
<1>0. /\ pc = "syncStatus" /\ work \in Task /\ ~isTerminal(work.phase)
      /\ wClass \in Classes /\ wJob \in Job /\ cPods \subseteq Pod
      /\ UNCHANGED <<uids, reports>>
  BY DEF SyncStatus, At, IInv, TypeOK, CopiesOK, Kinds, historyVars
<1> DEFINE d == derivePhase(wJob)
           base == [work EXCEPT !.jobName = TRUE, !.completed = (wJob.state = "complete"),
                                !.observed = work.gen, !.phase = d.phase, !.reason = d.reason]
           requeue(st) == awaitsResult(st) \/ egressRefresh(st)
<1>1. PICK st \in observeResult(base, wJob, wClass, FALSE) :
         IF st = work THEN UNCHANGED task /\ Return(FALSE, requeue(st))
                      ELSE writeThenReport(st, requeue(st))
  BY DEF SyncStatus
<1>2. <<d.phase, d.reason>> \in Lifecycle!Underway \cup Lifecycle!Outcomes
  BY <1>0, DerivedPairs
<1>3. d.phase \in Phases /\ d.reason \in Reasons
  BY <1>0, DerivePhaseType
<1> HIDE DEF d, requeue
<1>4. base \in Task /\ base.uid = work.uid /\ base.result = work.result
  BY <1>0, <1>3, SyncedStatus
<1>5. base.phase = d.phase /\ base.reason = d.reason
  BY <1>0 DEF Task
<1> HIDE DEF base
<1>6. cPods \subseteq Pod /\ wJob \in Job /\ wClass \in Classes /\ FALSE \in BOOLEAN
  BY <1>0
<1>7. OnlyResultOf(st, base)
  BY <1>4, <1>6, ObserveResultWrites
<1>8. st.result = base.result \/ (base.result = "none" /\ st.result \in Lifecycle!FromMessage)
  BY <1>4, <1>6, ObservedMessage
<1>9. Writable(st)
  BY <1>2, <1>4, <1>5, <1>7, <1>8 DEF Writable, OnlyResultOf
<1>10. CASE UNCHANGED task /\ Return(FALSE, requeue(st))
  BY <1>0, <1>10, ReturnStep
<1>11. CASE writeThenReport(st, requeue(st))
  BY <1>0, <1>9, <1>11, WriteStep
<1> QED  BY <1>1, <1>10, <1>11

\* What recordTerminalResult may write: the copy, or the copy with a Result.
LEMMA TerminalResults ==
  ASSUME IInv, pc = "recordTerminalResult",
         NEW st \in IF work.result # "none" \/ ~work.jobName THEN {work}
                    ELSE IF cJob = None THEN {[work EXCEPT !.result = "Unavailable"]}
                    ELSE observeResult(work, cJob, cClass, work.uid \in waitOver)
  PROVE  OnlyResultOf(st, work)
<1>0. /\ work \in Task /\ cJob \in Job \cup {None} /\ cClass \in Classes /\ cPods \subseteq Pod
  BY DEF IInv, TypeOK, CopiesOK
<1>1. CASE work.result # "none" \/ ~work.jobName
  BY <1>0, <1>1 DEF OnlyResultOf
<1>2. CASE ~(work.result # "none" \/ ~work.jobName) /\ cJob = None
  <2>1. "Unavailable" \in ResultReasons
    BY DEF ResultReasons
  <2> QED  BY <1>0, <1>2, <2>1, RecordsResult
<1>3. CASE ~(work.result # "none" \/ ~work.jobName) /\ cJob # None
  <2>1. st \in observeResult(work, cJob, cClass, work.uid \in waitOver)
    BY <1>3
  <2>2. (work.uid \in waitOver) \in BOOLEAN /\ cJob \in Job
    BY <1>0, <1>3
  <2> QED  BY <1>0, <2>1, <2>2, ObserveResultWrites
<1> QED  BY <1>1, <1>2, <1>3

\* recordTerminalResult decides an undecided Result of a terminal Task.
LEMMA RecordTerminalResultStep == IInv /\ RInv /\ TInv /\ RecordTerminalResult => LifeStep /\ WorkStep /\ Kept
<1> SUFFICES ASSUME IInv, RInv, TInv, RecordTerminalResult PROVE LifeStep /\ WorkStep /\ Kept
  OBVIOUS
<1>0. /\ pc = "recordTerminalResult" /\ work \in Task /\ isTerminal(work.phase)
      /\ UNCHANGED <<uids, reports>>
  BY DEF RecordTerminalResult, At, IInv, TypeOK, CopiesOK, TInv, historyVars
<1> DEFINE results == IF work.result # "none" \/ ~work.jobName THEN {work}
                      ELSE IF cJob = None THEN {[work EXCEPT !.result = "Unavailable"]}
                      ELSE observeResult(work, cJob, cClass, work.uid \in waitOver)
<1>1. PICK st \in results :
         IF st # work /\ ~current(work)
         THEN Return(TRUE, FALSE) /\ UNCHANGED task
         ELSE /\ IF st = work THEN UNCHANGED task ELSE updateStatus(st)
              /\ Proceed("collectTerminal") /\ work' = st
              /\ UNCHANGED <<wClass, wJob>>
  BY DEF RecordTerminalResult
<1>2. OnlyResultOf(st, work)
  BY <1>0, <1>1, TerminalResults
<1> HIDE DEF results
<1>3. CASE Return(TRUE, FALSE) /\ UNCHANGED task
  BY <1>0, <1>3, ReturnStep
<1>4. CASE /\ pc' = "collectTerminal" /\ work' = st
           /\ task' = task \/ (work = task /\ task' = st)
  <2>1. WorkStep
    BY <1>0, <1>2, <1>4 DEF WorkStep, OnlyResultOf
  <2>2. owes' = owes
    BY <1>0, <1>4 DEF owes
  <2>0. Kept
    BY <1>0, <1>2, <1>4, SeenTask DEF Kept, OnlyResultOf
  <2>3. CASE seen(task') = seen(task)
    BY <1>0, <2>0, <2>1, <2>2, <2>3, QuietStep DEF seen
  <2>4. CASE seen(task') # seen(task)
    <3>1. work = task /\ task' = st /\ st \in Task
      BY <1>2, <1>4, <2>4 DEF OnlyResultOf
    <3>2. /\ seen(task) = [uid |-> work.uid, phase |-> work.phase, reason |-> work.reason, result |-> work.result]
          /\ seen(task') = [uid |-> work.uid, phase |-> work.phase, reason |-> work.reason, result |-> st.result]
          /\ seen(task) # None
      BY <1>0, <1>2, <3>1, SeenTask DEF OnlyResultOf
    <3>3. st.result # work.result
      BY <2>4, <3>2
    <3>4. work.result = "none" /\ st.result \in ResultReasons \ {"none"}
      BY <1>2, <3>1, <3>3 DEF OnlyResultOf, Task
    <3>5. st.result \in Lifecycle!FromMessage \cup {"Unavailable"}
      BY <3>4 DEF ResultReasons, Lifecycle!FromMessage
    <3>6. Lifecycle!DecideResult(st.result)
      BY <1>0, <2>2, <3>1, <3>2, <3>4 DEF Lifecycle!DecideResult, Lifecycle!over, isTerminal, seen, owes
    <3> QED  BY <2>0, <2>1, <3>5, <3>6 DEF LifeStep, Lifecycle!LifeNext
  <2> QED  BY <2>3, <2>4
<1> QED  BY <1>1, <1>3, <1>4 DEF Proceed, current, updateStatus

\* collectTerminal deletes the Task or leaves it alone.
LEMMA CollectTerminalStep == IInv /\ RInv /\ CollectTerminal => LifeStep /\ WorkStep
<1> SUFFICES ASSUME IInv, RInv, CollectTerminal PROVE LifeStep /\ WorkStep
  OBVIOUS
<1>0. pc = "collectTerminal" /\ UNCHANGED <<uids, reports>>
  BY DEF CollectTerminal, At, historyVars
<1>1. PICK err, requeue : Return(err, requeue)
  BY DEF CollectTerminal
<1>2. CASE task' = task
  BY <1>0, <1>1, <1>2, ReturnStep
<1>3. CASE task' # task
  <2>1. task' = None /\ task \in Task
    BY <1>3 DEF CollectTerminal, IInv, TypeOK, ClusterTypeOK
  <2>2. pc' = "idle" /\ work' = None
    BY <1>1 DEF Return
  <2>3. owes' = owes
    BY <1>0, <2>2 DEF owes
  <2> QED  BY <1>0, <2>1, <2>2, <2>3, DeleteStep DEF WorkStep
<1> QED  BY <1>2, <1>3

\* Report is the report of the lifecycle.
LEMMA ReportStep == IInv /\ RInv /\ Report => LifeStep /\ WorkStep
<1> SUFFICES ASSUME IInv, RInv, Report PROVE LifeStep /\ WorkStep
  OBVIOUS
<1>1. /\ pc = "report" /\ pc' = "idle" /\ work' = None
      /\ UNCHANGED <<task, uids>>
      /\ reports' = [reports EXCEPT ![work.uid] = @ + 1]
  BY DEF Report, At, Return, clusterVars, apiVars, historyVars
<1>2. work.uid # 0
  BY <1>1 DEF IInv, CopiesOK, RInv, UidsOK
<1>3. Lifecycle!Report
  BY <1>1, <1>2 DEF Lifecycle!Report
<1> QED  BY <1>1, <1>3 DEF LifeStep, Lifecycle!LifeNext, WorkStep

\* Informers, timers, faults and the start of a reconcile write nothing.
LEMMA CopyStep ==
  ASSUME IInv, RInv, Sync \/ TimerFires \/ CallFails \/ Restart \/ Reconcile \/ UNCHANGED vars
  PROVE  LifeStep /\ WorkStep
<1>1. UNCHANGED <<task, uids, reports>>
  BY DEF Sync, SyncTask, SyncJob, SyncPods, SyncClass, SyncOwned, TimerFires, CallFails, Restart,
         Reconcile, vars, controllerVars, clusterVars, apiVars, historyVars
<1>2. seen(task)' = seen(task)
  BY <1>1 DEF seen
<1>3. CASE Sync \/ TimerFires \/ UNCHANGED vars
  <2>1. UNCHANGED <<pc, work>>
    BY <1>3 DEF Sync, SyncTask, SyncJob, SyncPods, SyncClass, SyncOwned, TimerFires, vars,
                controllerVars, reconcileVars
  <2> QED  BY <1>1, <1>2, <2>1, QuietStep DEF owes, WorkStep
<1>4. CASE CallFails \/ Restart
  <2>1. pc' = "idle" /\ work' = None
    BY <1>4 DEF CallFails, Restart, Return
  <2> QED  BY <1>1, <1>2, <2>1, QuietStep DEF owes, WorkStep
<1>5. CASE Reconcile
  <2>1. pc = "idle" /\ pc' # "report"
    BY <1>5 DEF Reconcile, At, reconcileVars
  <2>2. WorkStep
    BY <1>5, <2>1 DEF Reconcile, reconcileVars, WorkStep
  <2> QED  BY <1>1, <1>2, <2>1, <2>2, QuietStep DEF owes
<1> QED  BY <1>3, <1>4, <1>5

\* Of the steps of the cluster a client sees the creation and the deletion.
LEMMA ClusterStepSeen ==
  ASSUME IInv, RInv, UNCHANGED controllerVars, UserStep \/ JobStep \/ CollectorStep \/ ClockStep
  PROVE  LifeStep /\ WorkStep
<1>0. UNCHANGED <<pc, work, reports>> /\ owes' = owes
  BY DEF controllerVars, reconcileVars, owes
<1>1. WorkStep
  BY <1>0 DEF WorkStep
<1>2. ASSUME NEW s \in Specs, CreateTask(s) PROVE LifeStep
  <2>1. s \in TaskSpec /\ uids \in Nat /\ uids + 1 \in Nat
    BY ClusterAssumption DEF IInv, TypeOK, ClusterTypeOK
  <2>2. NewTask(uids + 1, s) \in Task
    BY <2>1 DEF NewTask, Task, Phases, Reasons, ResultReasons
  <2>3. seen(task') = [uid |-> uids + 1, phase |-> "", reason |-> "none", result |-> "none"]
    BY <1>2, <2>2, SeenTask DEF CreateTask, NewTask
  <2>4. Lifecycle!Create
    BY <1>0, <1>2, <2>3 DEF CreateTask, Lifecycle!Create, seen, owes
  <2> QED  BY <2>4 DEF LifeStep, Lifecycle!LifeNext
<1>3. ASSUME NEW s \in Specs, EditSpec(s) PROVE LifeStep
  <2>1. task \in Task /\ uids' = uids
    BY <1>3 DEF EditSpec, IInv, TypeOK, ClusterTypeOK, historyVars
  <2>2. s \in TaskSpec /\ task.gen + 1 \in Nat
    BY <2>1, ClusterAssumption DEF Task
  <2>3. /\ task' \in Task /\ task'.uid = task.uid /\ task'.phase = task.phase
        /\ task'.reason = task.reason /\ task'.result = task.result
    BY <1>3, <2>1, <2>2 DEF EditSpec, Task
  <2>4. seen(task') = seen(task)
    BY <2>1, <2>3, SeenTask
  <2> QED  BY <1>0, <2>1, <2>4, QuietStep DEF seen
<1>4. CASE DeleteTask
  <2>1. task \in Task /\ task' = None /\ uids' = uids
    BY <1>4 DEF DeleteTask, IInv, TypeOK, ClusterTypeOK, historyVars
  <2> QED  BY <1>0, <1>1, <2>1, DeleteStep
<1>5. ASSUME uids' = uids, task' = task PROVE LifeStep
  BY <1>0, <1>5, QuietStep DEF seen
<1>6. CASE SuspendJob \/ ResumeJob
  <2>1. uids' = uids /\ task' = task
    BY <1>6, Zenon DEF SuspendJob, ResumeJob, historyVars
  <2> QED  BY <1>1, <1>5, <2>1
<1>7. ASSUME NEW x, ChangeClass(x) \/ ChangeDNS(x) \/ StrayPod(x) PROVE uids' = uids /\ task' = task
  BY <1>7, Zenon DEF ChangeClass, ChangeDNS, StrayPod, historyVars, apiVars
<1>8. CASE JobStep
  <2>1. ASSUME NEW st, NEW ph, JobReports(st, ph) PROVE uids' = uids /\ task' = task
    BY <2>1, Zenon DEF JobReports
  <2>2. ASSUME NEW p, NEW st, NEW m, PodEnds(p, st, m) PROVE uids' = uids /\ task' = task
    BY <2>2, Zenon DEF PodEnds
  <2>3. ASSUME JobStarts PROVE uids' = uids /\ task' = task
    BY <2>3, Zenon DEF JobStarts, historyVars
  <2>4. uids' = uids /\ task' = task
    BY <1>8, <2>1, <2>2, <2>3 DEF JobStep, JobSucceeds, JobCompletes, JobFails, JobTimesOut
  <2> QED  BY <1>1, <1>5, <2>4
<1>9. CASE CollectorStep \/ ClockStep
  <2>1. uids' = uids /\ task' = task
    BY <1>9 DEF CollectorStep, RemovePod, JobRemoved, CollectOwned, ClockStep, ResultWaitElapses,
                TTLElapses, apiVars, historyVars
  <2> QED  BY <1>1, <1>5, <2>1
<1>10. CASE UserStep
  BY <1>1, <1>2, <1>3, <1>4, <1>5, <1>6, <1>7, <1>10 DEF UserStep
<1> QED  BY <1>1, <1>8, <1>9, <1>10

\* Every step is a step of the lifecycle, or one that a client does not see.
LEMMA NextSeen == IInv /\ RInv /\ TInv /\ [Next]_vars => LifeStep /\ WorkStep
<1> SUFFICES ASSUME IInv, RInv, TInv, [Next]_vars PROVE LifeStep /\ WorkStep
  OBVIOUS
<1>1. CASE (UserStep \/ JobStep \/ CollectorStep \/ ClockStep) /\ UNCHANGED controllerVars
  BY <1>1, ClusterStepSeen
<1>2. CASE Sync \/ TimerFires \/ CallFails \/ Restart \/ Reconcile \/ UNCHANGED vars
  BY <1>2, CopyStep
<1>3. CASE ValidateTask \/ EnsureJob \/ (\E k \in Kinds : Ensure(k))
  BY <1>3, ValidateTaskStep, EnsureJobStep, EnsureStep
<1>4. CASE SyncStatus \/ RecordTerminalResult \/ CollectTerminal \/ Report
  BY <1>4, SyncStatusStep, RecordTerminalResultStep, CollectTerminalStep, ReportStep
<1> QED  BY <1>1, <1>2, <1>3, <1>4 DEF Next, ReconcileStep

-----------------------------------------------------------------------------
(* The invariant                                                           *)

\* What has ended stays so, or is gone.
Stays ==
  /\ \A u \in 1..uids : Over(u) => Over(u)'
  /\ cTask' = cTask \/ cTask' = task

\* A step keeps it so: a new Task has a new uid.
LEMMA OverStays == IInv /\ RInv /\ [Next]_vars => Stays
<1> SUFFICES ASSUME IInv, RInv, [Next]_vars PROVE Stays
  OBVIOUS
<1>0. uids \in Nat /\ Final
  BY NextOK DEF IInv, TypeOK, ClusterTypeOK
<1>1. ASSUME Effect PROVE Stays
  BY <1>0, <1>1 DEF Stays, Effect, Final, Over
<1>2. ASSUME NEW s \in Specs, CreateTask(s), UNCHANGED controllerVars PROVE Stays
  <2>1. task'.uid = uids + 1 /\ cTask' = cTask
    BY <1>2 DEF CreateTask, NewTask, controllerVars, cacheVars
  <2> QED  BY <1>0, <2>1 DEF Stays, Over
<1>3. CASE (UserStep \/ JobStep \/ CollectorStep \/ ClockStep) /\ UNCHANGED controllerVars
  BY <1>1, <1>2, <1>3, ClusterEffect
<1>4. CASE Sync \/ TimerFires \/ CallFails \/ Restart \/ Reconcile \/ UNCHANGED vars
  BY <1>1, <1>4, CopyEffect
<1>5. CASE ValidateTask \/ EnsureJob \/ (\E k \in Kinds : Ensure(k))
  BY <1>1, <1>5, EnsureEffect
<1>6. CASE SyncStatus \/ RecordTerminalResult \/ CollectTerminal
  BY <1>1, <1>6, SyncStatusEffect, RecordTerminalResultEffect, CollectTerminalEffect
<1>7. CASE Report
  BY <1>7 DEF Stays, Report, Over, clusterVars, apiVars, cacheVars
<1> QED  BY <1>3, <1>4, <1>5, <1>6, <1>7 DEF Next, ReconcileStep

\* Every step keeps what the copies say about the end of a Task.
LEMMA NextKeepsCopies == IInv /\ RInv /\ TInv /\ [Next]_vars => TInv'
<1> SUFFICES ASSUME IInv, RInv, TInv, [Next]_vars PROVE TInv'
  OBVIOUS
<1>1. Stays
  BY OverStays
<1>2. WorkStep
  BY NextSeen
<1>3. /\ task # None => task.uid \in 1..uids
      /\ cTask # None => cTask.uid \in 1..uids
      /\ work # None => work.uid \in 1..uids
  BY DEF RInv, UidsOK, IInv, TypeOK, ClusterTypeOK
<1>4. pc' \in {"recordTerminalResult", "collectTerminal"} => isTerminal(work'.phase)
  BY <1>2 DEF WorkStep, TInv
<1>5. cTask' # None /\ isTerminal(cTask'.phase) => Over(cTask.uid)'
  <2>1. cTask' # None /\ isTerminal(cTask'.phase) => Over(cTask'.uid) /\ cTask'.uid \in 1..uids
    BY <1>1, <1>3 DEF Stays, TInv, Over
  <2> QED  BY <1>1, <2>1 DEF Stays, Over
<1>6. work' # None /\ isTerminal(work'.phase) => Over(work.uid)'
  <2>1. CASE work' = task'
    BY <2>1 DEF Over
  <2>2. CASE work' # task'
    <3>1. work' # None /\ isTerminal(work'.phase) => Over(work'.uid) /\ work'.uid \in 1..uids
      BY <1>2, <1>3, <2>2 DEF WorkStep, TInv, IInv, CopiesOK
    <3> QED  BY <1>1, <3>1 DEF Stays, Over
  <2> QED  BY <2>1, <2>2
<1> QED  BY <1>4, <1>5, <1>6 DEF TInv, Over

\* In every reachable state, a copy that is terminal tells the truth.
THEOREM CopiesInvariance == Spec => []TInv
<1>1. Init => TInv
  BY DEF Init, TInv
<1> QED  BY <1>1, NextKeepsCopies, Invariance, ReportsInvariance, PTL DEF Spec

\* Whatever the caches lag behind, fails, restarts or is edited, a client that
\* watches a Task sees the state machine of TaskLifecycle, for any number of
\* Tasks, specs and classes.
THEOREM Implementation == Spec => ImplementsLifecycle
<1>1. Init => Lifecycle!LifeInit
  BY DEF Init, ClusterInit, Lifecycle!LifeInit
<1>2. IInv /\ RInv /\ TInv /\ [Next]_vars => [Lifecycle!LifeNext]_(Lifecycle!lifeVars)
  BY NextSeen DEF LifeStep
<1> QED  BY <1>1, <1>2, Invariance, ReportsInvariance, CopiesInvariance, PTL
         DEF Spec, ImplementsLifecycle, Lifecycle!LifeSpec

\* collectTerminal never deletes a Task that is still running, or whose TTL runs:
\* not when it works from a stale copy, and not the successor of its Task.
THEOREM OnlyExpiredCollected == Spec => CollectsOnlyExpired
<1> DEFINE A == (ReconcileStep /\ task # None /\ task' = None)
                  => (isTerminal(task.phase) /\ task.uid \in ttlOver)
<1>1. ASSUME IInv, RInv, TInv, [Next]_vars PROVE [A]_vars
  <2>1. CASE CollectTerminal
    BY <1>1, <2>1 DEF CollectTerminal, At, sameUID, TInv, Over, IInv, CopiesOK
  <2>2. CASE Reconcile \/ Report
    BY <2>2 DEF Reconcile, Report, clusterVars, apiVars
  <2>3. CASE ReconcileStep /\ ~(CollectTerminal \/ Reconcile \/ Report)
    <3>1. Kept
      BY <1>1, <2>3, ValidateTaskStep, EnsureStep, EnsureJobStep, SyncStatusStep,
         RecordTerminalResultStep DEF ReconcileStep
    <3> QED  BY <3>1 DEF Kept
  <2> QED  BY <2>1, <2>2, <2>3
<1> QED  BY <1>1, Invariance, ReportsInvariance, CopiesInvariance, PTL DEF Spec, CollectsOnlyExpired

-----------------------------------------------------------------------------
(***************************************************************************)
(* The NetworkPolicy covers the pods of a Task whose name is used once.    *)
(*                                                                         *)
(* The argument: the policy is in place when the reconcile has passed the  *)
(* call that ensures it, and, from the first Job on, for as long as the    *)
(* Task lives, since only the garbage collector removes it.  A cache that  *)
(* lags may miss the policy but never shows one that is gone.              *)
(***************************************************************************)

\* The calls between the NetworkPolicy and the creation of the Job.
AfterPolicy == {"PromptConfigMap", "AgentConfigMap", "ensureJob"}

policy == owned["NetworkPolicy"]
cPolicy == cOwned["NetworkPolicy"]

\* Some container of the Task's pods runs.
Running == \E p \in pods : p.state = "running"

PInv ==
  /\ uids <= 1
  /\ policy # None => policy.owner \in 1..uids
  /\ cPolicy # None => cPolicy.owner \in 1..uids
  /\ owners # <<>> => uids >= 1
  /\ job # None \/ Running => owners # <<>>
  /\ task # None /\ (cPolicy # None \/ pc \in AfterPolicy \/ owners # <<>>) => policy # None

-----------------------------------------------------------------------------
\* What most steps do: create no Task, Job or policy and do not pass the call
\* that ensures the policy.
Quiet ==
  /\ UNCHANGED <<uids, owned, owners>>
  /\ task' # None => task # None
  /\ cPolicy' = cPolicy \/ cPolicy' = policy
  /\ job' # None => job # None
  /\ Running' => Running \/ job # None
  /\ pc' \in AfterPolicy => pc \in AfterPolicy

\* A quiet step keeps the policy in place.
LEMMA QuietKeepsPolicy == ASSUME PInv, Quiet PROVE PInv'
BY DEF PInv, Quiet, policy

\* A status write, and the end of a reconcile, do not pass it either.
LEMMA WriteLeavesCalls ==
  ASSUME NEW st, NEW requeue, writeThenReport(st, requeue)
  PROVE  pc' \notin AfterPolicy /\ (task' = task \/ (work = task /\ task' = st))
BY DEF writeThenReport, Return, updateStatus, current, AfterPolicy

\* Users other than by CreateTask, the Job controller and the clock are quiet.
LEMMA ClusterQuiet ==
  ASSUME IInv, UNCHANGED controllerVars,
         UserStep \/ JobStep \/ CollectorStep \/ ClockStep,
         \A s \in Specs : ~CreateTask(s), \A k \in Kinds : ~CollectOwned(k)
  PROVE  Quiet
<1>1. pc' = pc /\ cPolicy' = cPolicy
  BY DEF controllerVars, cacheVars, reconcileVars, cPolicy
<1> SUFFICES /\ UNCHANGED <<uids, owned, owners>>
             /\ task' # None => task # None
             /\ job' # None => job # None
             /\ Running' => Running \/ job # None
  BY <1>1 DEF Quiet
<1> USE DEF apiVars, clockVars, historyVars
<1>2. ASSUME NEW s \in Specs, EditSpec(s)
      PROVE  UNCHANGED <<uids, owned, owners, job, pods>> /\ task # None
  BY <1>2, Zenon DEF EditSpec
<1>3. ASSUME DeleteTask
      PROVE  UNCHANGED <<uids, owned, owners, job, pods>> /\ task' = None
  BY <1>3 DEF DeleteTask
<1>4. ASSUME SuspendJob \/ ResumeJob
      PROVE  UNCHANGED <<uids, owned, owners, task, pods>> /\ job # None
  BY <1>4, Zenon DEF SuspendJob, ResumeJob
<1>5. ASSUME NEW x, ChangeClass(x) \/ ChangeDNS(x)
      PROVE  UNCHANGED <<uids, owned, owners, task, job, pods>>
  BY <1>5, Zenon DEF ChangeClass, ChangeDNS
<1>6. ASSUME NEW m, StrayPod(m)
      PROVE  UNCHANGED <<uids, owned, owners, task, job>> /\ (Running' => Running)
  BY <1>6 DEF StrayPod, Running
<1>7. ASSUME JobStarts
      PROVE  UNCHANGED <<uids, owned, owners, task>> /\ job # None
  BY <1>7, Zenon DEF JobStarts
<1>8. ASSUME NEW st, NEW ph, job # None, JobReports(st, ph)
      PROVE  UNCHANGED <<uids, owned, owners, task, pods>>
  BY <1>8, Zenon DEF JobReports
<1>9. ASSUME NEW p \in pods, NEW e, PodEnds(p, e[1], e[2])
      PROVE  UNCHANGED <<uids, owned, owners, task, job>> /\ Running
  BY <1>9, Zenon DEF PodEnds, Running
<1>10. ASSUME NEW p, RemovePod(p)
       PROVE  UNCHANGED <<uids, owned, owners, task, job>> /\ (Running' => Running)
  BY <1>10 DEF RemovePod, Running
<1>11. ASSUME JobRemoved PROVE UNCHANGED <<uids, owned, owners, task, pods>> /\ job' = None
  BY <1>11 DEF JobRemoved
<1>12. ASSUME ClockStep PROVE UNCHANGED <<uids, owned, owners, task, job, pods>>
  BY <1>12 DEF ClockStep, ResultWaitElapses, TTLElapses
<1>13. UNCHANGED pods => (Running' => Running)
  BY DEF Running
<1>14. CASE UserStep
  BY <1>2, <1>3, <1>4, <1>5, <1>6, <1>13, <1>14 DEF UserStep
<1>15. CASE JobStep
  BY <1>7, <1>8, <1>9, <1>13, <1>15 DEF JobStep, JobSucceeds, JobCompletes, JobFails, JobTimesOut
<1>16. CASE CollectorStep
  BY <1>10, <1>11, <1>13, <1>16 DEF CollectorStep
<1> QED  BY <1>12, <1>13, <1>14, <1>15, <1>16

\* Informers, timers, faults, and every call but those that ensure something.
LEMMA ControllerQuiet ==
  ASSUME IInv,
         \/ Sync \/ TimerFires \/ CallFails \/ Restart \/ UNCHANGED vars
         \/ Reconcile \/ ValidateTask \/ SyncStatus \/ Report
         \/ RecordTerminalResult \/ CollectTerminal
  PROVE  Quiet
<1> USE DEF clusterVars, apiVars, clockVars, historyVars, cacheVars, reconcileVars
<1>1. ASSUME UNCHANGED <<uids, owned, owners, job, pods, cOwned>>,
             task' # None => task # None, pc' \in AfterPolicy => pc \in AfterPolicy
      PROVE  Quiet
  BY <1>1 DEF Quiet, cPolicy, Running
<1>2. CASE Sync
  <2>1. ASSUME NEW k \in Kinds, SyncOwned(k) PROVE cPolicy' = cPolicy \/ cPolicy' = policy
    <3>1. cOwned \in [Kinds -> Object \cup {None}] /\ "NetworkPolicy" \in Kinds
      BY DEF IInv, TypeOK, Kinds
    <3> QED  BY <2>1, <3>1 DEF SyncOwned, cPolicy, policy
  <2> QED  BY <1>2, <2>1 DEF Sync, SyncTask, SyncJob, SyncPods, SyncClass, SyncOwned,
                             Quiet, cPolicy, Running
<1>3. CASE TimerFires \/ UNCHANGED vars
  BY <1>1, <1>3 DEF TimerFires, vars, controllerVars
<1>4. CASE CallFails \/ Restart
  BY <1>1, <1>4 DEF CallFails, Restart, Return, AfterPolicy
<1>5. CASE Reconcile
  BY <1>1, <1>5 DEF Reconcile, AfterPolicy
<1>6. CASE Report
  BY <1>1, <1>6 DEF Report, Return, AfterPolicy
<1>7. CASE CollectTerminal
  <2>1. task' = task \/ task' = None
    BY <1>7, Zenon DEF CollectTerminal
  <2>2. \E err, requeue : Return(err, requeue)
    BY <1>7 DEF CollectTerminal
  <2>3. pc' \notin AfterPolicy
    BY <2>2 DEF Return, AfterPolicy
  <2> QED  BY <1>1, <1>7, <2>1, <2>3 DEF CollectTerminal
<1>8. CASE RecordTerminalResult
  <2>1. work # None
    BY <1>8 DEF RecordTerminalResult, At, IInv, CopiesOK
  <2>2. pc' \notin AfterPolicy /\ (task' = task \/ work = task)
    BY <1>8 DEF RecordTerminalResult, updateStatus, current, Return, Proceed, AfterPolicy
  <2> QED  BY <1>1, <1>8, <2>1, <2>2 DEF RecordTerminalResult
<1>9. CASE SyncStatus
  <2>1. work # None
    BY <1>9 DEF SyncStatus, At, IInv, CopiesOK
  <2>2. \/ \E requeue : UNCHANGED task /\ Return(FALSE, requeue)
        \/ \E st, requeue : writeThenReport(st, requeue)
    BY <1>9 DEF SyncStatus
  <2>3. pc' \notin AfterPolicy /\ (task' = task \/ work = task)
    BY <2>2, WriteLeavesCalls DEF Return, AfterPolicy
  <2> QED  BY <1>1, <1>9, <2>1, <2>3 DEF SyncStatus
<1>10. CASE ValidateTask
  <2>1. work # None
    BY <1>10 DEF ValidateTask, At, IInv, CopiesOK
  <2>2. \/ \E requeue : UNCHANGED task /\ Return(FALSE, requeue)
        \/ \E st, requeue : writeThenReport(st, requeue)
        \/ UNCHANGED task /\ pc' = nextStep["validateTask"]
    BY <1>10 DEF ValidateTask, At, failTask, markWaitingForAgentClass, Proceed
  <2>3. pc' \notin AfterPolicy /\ (task' = task \/ work = task)
    BY <2>2, WriteLeavesCalls DEF Return, AfterPolicy, nextStep
  <2> QED  BY <1>1, <1>10, <2>1, <2>3 DEF ValidateTask
<1> QED  BY <1>2, <1>3, <1>4, <1>5, <1>6, <1>7, <1>8, <1>9, <1>10

-----------------------------------------------------------------------------
(* The steps that are not quiet.                                           *)

\* The first Task of the name finds nothing.
LEMMA CreateKeepsPolicy ==
  ASSUME MaxTasks <= 1, IInv, RInv, PInv, NEW s \in Specs, CreateTask(s), UNCHANGED controllerVars
  PROVE  PInv'
<1>1. uids = 0 /\ uids' = 1
  <2>1. uids \in Nat /\ MaxTasks \in Nat
    BY ClusterAssumption DEF IInv, TypeOK, ClusterTypeOK
  <2>2. uids < MaxTasks /\ uids' = uids + 1
    BY DEF CreateTask
  <2> QED  BY <2>1, <2>2
<1>2. work = None /\ pc = "idle"
  BY <1>1 DEF RInv, UidsOK, IInv, CopiesOK
<1>3. policy = None /\ cPolicy = None /\ owners = <<>> /\ job = None /\ ~Running
  BY <1>1 DEF PInv
<1>4. UNCHANGED <<policy, cPolicy, owners, job, Running, pc>>
  BY DEF CreateTask, controllerVars, cacheVars, reconcileVars, policy, cPolicy, Running
<1> QED  BY <1>1, <1>2, <1>3, <1>4 DEF PInv, AfterPolicy

\* The garbage collector leaves the policy of a live Task alone.
LEMMA CollectKeepsPolicy ==
  ASSUME IInv, RInv, PInv, NEW k \in Kinds, CollectOwned(k), UNCHANGED controllerVars
  PROVE  PInv'
<1>1. UNCHANGED <<task, job, uids, owners, cPolicy, Running, pc>>
  BY DEF CollectOwned, controllerVars, cacheVars, reconcileVars, historyVars, cPolicy, Running
<1>2. owned \in [Kinds -> Object \cup {None}] /\ "NetworkPolicy" \in Kinds /\ uids \in Nat
  BY DEF IInv, TypeOK, ClusterTypeOK, Kinds
<1>3. CASE k # "NetworkPolicy"
  <2>1. policy' = policy
    BY <1>2, <1>3 DEF CollectOwned, policy
  <2> QED  BY <1>1, <2>1 DEF PInv
<1>4. CASE k = "NetworkPolicy"
  <2>1. policy # None /\ OwnerGone(policy.owner) /\ policy' = None
    BY <1>2, <1>4 DEF CollectOwned, policy
  <2>2. task = None
    BY <1>2, <2>1 DEF OwnerGone, PInv, RInv, UidsOK
  <2> QED  BY <1>1, <2>1, <2>2 DEF PInv
<1> QED  BY <1>3, <1>4

\* Past the call that ensures the policy, there is one.
LEMMA EnsureKeepsPolicy ==
  ASSUME IInv, RInv, PInv, NEW k \in Kinds, Ensure(k)
  PROVE  PInv'
<1>1. UNCHANGED <<job, uids, owners, cPolicy, Running>> /\ pc = k
  BY DEF Ensure, At, cacheVars, historyVars, cPolicy, Running
<1>2. /\ owned \in [Kinds -> Object \cup {None}] /\ cOwned \in [Kinds -> Object \cup {None}]
      /\ "NetworkPolicy" \in Kinds /\ uids \in Nat
      /\ work # None /\ work.uid \in 1..uids
  BY <1>1 DEF IInv, TypeOK, ClusterTypeOK, CopiesOK, Kinds, RInv, UidsOK
<1>3. CASE failTask("EgressResolveFailed") /\ UNCHANGED owned
  <2>1. pc' \notin AfterPolicy /\ (task' # None => task # None)
    BY <1>2, <1>3, WriteLeavesCalls DEF failTask
  <2>2. policy' = policy
    BY <1>3 DEF policy
  <2> QED  BY <1>1, <2>1, <2>2 DEF PInv
<1>4. CASE (ensureOwned(k) \/ deleteIfExists(k)) /\ k # "NetworkPolicy" /\ UNCHANGED task
  <2>1. policy' = policy
    <3>1. \E o : owned' = owned \/ owned' = [owned EXCEPT ![k] = o]
      BY <1>4 DEF ensureOwned, deleteIfExists
    <3> QED  BY <1>2, <1>4, <3>1 DEF policy
  <2>2. pc' = "idle" \/ pc' = nextStep[k]
    BY <1>4, Zenon DEF ensureOwned, deleteIfExists, Proceed, Return
  <2>3. pc' \in AfterPolicy => pc \in AfterPolicy
    <3>1. pc \in AfterPolicy \/ k \in {"ServiceAccount", "Role", "RoleBinding"}
      BY <1>1, <1>4 DEF AfterPolicy, Kinds
    <3>2. nextStep["ServiceAccount"] \in {"Role", "RoleBinding", "NetworkPolicy"}
      BY DEF nextStep
    <3>3. nextStep["Role"] \in {"RoleBinding", "NetworkPolicy"}
      BY DEF nextStep
    <3>4. nextStep["RoleBinding"] = "NetworkPolicy"
      BY DEF nextStep
    <3> QED  BY <2>2, <3>1, <3>2, <3>3, <3>4 DEF AfterPolicy
  <2> QED  BY <1>1, <1>4, <2>1, <2>3 DEF PInv
<1>5. CASE ensureOwned(k) /\ k = "NetworkPolicy" /\ UNCHANGED task
  <2>1. CASE pc' = "idle" /\ UNCHANGED owned
    BY <1>1, <1>5, <2>1 DEF PInv, AfterPolicy, policy
  <2>2. CASE policy' # None /\ policy'.owner \in 1..uids
    BY <1>1, <1>5, <2>2 DEF PInv
  <2>3. CASE cPolicy # None /\ UNCHANGED owned
    BY <1>1, <1>5, <2>3 DEF PInv, policy
  <2>4. CASE owned' = [owned EXCEPT ![k] = [owner |-> work.uid, body |-> desired(k)]]
    <3>1. policy' = [owner |-> work.uid, body |-> desired(k)]
      BY <1>2, <1>5, <2>4 DEF policy
    <3>2. policy' # None
      <4>1. desired(k) \in Body /\ work.uid \in Nat
        BY <1>2, ContentType DEF desired, IInv, TypeOK, ClusterTypeOK, Task
      <4> QED  BY <3>1, <4>1, ClusterAssumption DEF Object
    <3> QED  BY <1>2, <2>2, <3>1, <3>2
  <2>5. CASE /\ cPolicy # None
             /\ owned' = [owned EXCEPT ![k] = [cOwned[k] EXCEPT !.body = desired(k)]]
    <3>1. cPolicy \in Object /\ desired(k) \in Body
      BY <1>2, <2>5, ContentType DEF desired, IInv, TypeOK, ClusterTypeOK, Task, cPolicy
    <3>2. policy' = [cPolicy EXCEPT !.body = desired(k)]
      BY <1>2, <1>5, <2>5, Zenon DEF policy, cPolicy
    <3>3. policy' \in Object /\ policy'.owner = cPolicy.owner
      <4>1. ASSUME NEW o \in Object, NEW b \in Body
            PROVE  [o EXCEPT !.body = b] \in Object /\ [o EXCEPT !.body = b].owner = o.owner
        BY DEF Object
      <4> QED  BY <3>1, <3>2, <4>1
    <3> QED  BY <2>2, <2>5, <3>3, ClusterAssumption DEF PInv
  <2> QED  BY <1>5, <2>1, <2>3, <2>4, <2>5, Zenon DEF ensureOwned, Return, cPolicy
<1>6. wanted("NetworkPolicy", work.spec, wClass)
  BY DEF wanted
<1> QED  BY <1>3, <1>4, <1>5, <1>6 DEF Ensure

\* ensureJob runs after the policy is in place.
LEMMA EnsureJobKeepsPolicy ==
  ASSUME IInv, RInv, PInv, EnsureJob
  PROVE  PInv'
<1>1. UNCHANGED <<uids, policy, cPolicy, Running>> /\ pc = "ensureJob"
  BY DEF EnsureJob, At, cacheVars, historyVars, policy, cPolicy, Running
<1>2. uids \in Nat /\ work # None /\ work.uid \in 1..uids /\ owners \in Seq(Nat)
  BY <1>1 DEF IInv, TypeOK, ClusterTypeOK, CopiesOK, RInv, UidsOK
<1>3. pc' \notin AfterPolicy /\ (task' # None => task # None)
  <2>1. CASE failTask("InvalidSpec")
    BY <1>2, <2>1, WriteLeavesCalls DEF failTask
  <2>2. CASE UNCHANGED task /\ (Proceed("syncStatus") \/ Return(TRUE, FALSE))
    BY <2>2 DEF Proceed, Return, AfterPolicy
  <2> QED  BY <2>1, <2>2, Zenon DEF EnsureJob
<1>4. task # None => policy # None
  BY <1>1 DEF PInv, AfterPolicy
<1>5. UNCHANGED <<job, owners>> \/ owners' # <<>>
  <2>1. Append(owners, work.uid) # <<>>
    BY <1>2
  <2> QED  BY <2>1 DEF EnsureJob
<1>6. owners' # <<>> => uids >= 1
  BY <1>2
<1> QED  BY <1>1, <1>3, <1>4, <1>5, <1>6 DEF PInv

\* Every step keeps it, when the name is used once.
LEMMA NextKeepsPolicy ==
  ASSUME MaxTasks <= 1
  PROVE  IInv /\ RInv /\ PInv /\ [Next]_vars => PInv'
<1> SUFFICES ASSUME IInv, RInv, PInv, [Next]_vars PROVE PInv'
  OBVIOUS
<1>1. CASE (UserStep \/ JobStep \/ CollectorStep \/ ClockStep) /\ UNCHANGED controllerVars
  BY <1>1, CreateKeepsPolicy, CollectKeepsPolicy, ClusterQuiet, QuietKeepsPolicy
<1>2. CASE \/ Sync \/ TimerFires \/ CallFails \/ Restart \/ UNCHANGED vars
           \/ Reconcile \/ ValidateTask \/ SyncStatus \/ Report
           \/ RecordTerminalResult \/ CollectTerminal
  BY <1>2, ControllerQuiet, QuietKeepsPolicy
<1>3. CASE EnsureJob \/ (\E k \in Kinds : Ensure(k))
  BY <1>3, EnsureJobKeepsPolicy, EnsureKeepsPolicy
<1> QED  BY <1>1, <1>2, <1>3 DEF Next, ReconcileStep

\* While only one Task of the name is ever created, no pod of it runs without
\* the NetworkPolicy, through stale caches, failed calls, restarts, suspended,
\* deleted and recreated Jobs.  Reuse of the name is the only way to break it.
THEOREM PolicyInPlace ==
  ASSUME MaxTasks <= 1
  PROVE  Spec => []PolicyCoversPod
<1>1. Init => PInv
  BY DEF Init, ClusterInit, PInv, policy, cPolicy, Running, Kinds
<1>2. IInv /\ RInv /\ PInv /\ [Next]_vars => PInv'
  BY NextKeepsPolicy
<1>3. PInv => PolicyCoversPod
  BY DEF PInv, PolicyCoversPod, policy, Running
<1> QED  BY <1>1, <1>2, <1>3, Invariance, ReportsInvariance, PTL DEF Spec

=============================================================================
