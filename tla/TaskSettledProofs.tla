------------------------- MODULE TaskSettledProofs -------------------------
(***************************************************************************)
(* The controller never comes to rest on outdated state.                   *)
(*                                                                         *)
(* The argument: as long as the key is not queued, the caches that the     *)
(* reconcile reads are what they were when it started, since every event   *)
(* queues the key.  So a reconcile that ends without an error, while the   *)
(* key is not queued, leaves behind what its spec asks for, or a live      *)
(* object that differs from its cached copy, and then the informer owes an *)
(* event that queues the key.  What makes this hold in the long run is     *)
(* that a Task, once it differs from its cached copy, differs from it      *)
(* until the informer delivers it: uids and generations only grow.         *)
(***************************************************************************)
EXTENDS TaskReportProofs

\* The order of Reconcile's calls.
rank ==
  [validateTask |-> 0, ServiceAccount |-> 1, Role |-> 2, RoleBinding |-> 3, NetworkPolicy |-> 4,
   PromptConfigMap |-> 5, AgentConfigMap |-> 6, ensureJob |-> 7, syncStatus |-> 8]

\* The calls of a reconcile whose Task is not terminal; the class is known in
\* all but the first.
AfterClass == Kinds \cup {"ensureJob", "syncStatus"}
Early == AfterClass \cup {"validateTask"}

\* The cached Task is one that a reconcile works on.
Active == cTask # None /\ ~isTerminal(cTask.phase)

\* The informer owes the Task: the cached one is not the live one.
Behind == cTask # task

\* The resource is the one that the cached spec and class ask for; addresses
\* that were resolved may be old, and nothing else.
Good(k) ==
  IF wanted(k, cTask.spec, cClass)
  THEN /\ owned[k] # None
       /\ \/ owned[k].body = content(k, cTask.spec, cClass, dns)
          \/ /\ cTask.spec.hosts
             /\ owned[k].body = content(k, cTask.spec, cClass, owned[k].body.addresses)
  ELSE owned[k] = None

\* What an ensure call leaves: the resource as it should be, or one that the
\* informer owes.  One that the cache has never had belongs to this Task, and
\* disappears with it only.
Kept(k) ==
  \/ Behind
  \/ cOwned[k] # owned[k] /\ (cOwned[k] = None => owned[k].owner = cTask.uid)
  \/ cOwned[k] = owned[k] /\ Good(k)

\* The status says what the cached Job says.
Told ==
  /\ cTask.observed = cTask.gen
  /\ cTask.phase = derivePhase(cJob).phase /\ cTask.reason = derivePhase(cJob).reason

\* What a reconcile of an active Task leaves when nothing queued the key.
Resting ==
  \/ Behind
  \/ unseenJob
  \/ cClass = "absent" /\ cTask.reason = "AgentClassMissing" /\ cTask.observed = cTask.gen /\ timer
  \/ /\ cClass # "absent" /\ cJob # None /\ Told
     /\ cTask.spec.hosts => timer
     /\ \A k \in Managed : Kept(k)

\* Generations grow.
GenOK == cTask # None /\ task # None /\ task.uid = cTask.uid => cTask.gen <= task.gen

\* How far a reconcile has come, when nothing queued the key since it started.
Underway ==
  /\ pc \in Early => work = cTask
  /\ pc \in AfterClass =>
       /\ wClass = cClass /\ cClass # "absent"
       /\ \A k \in Managed : rank[k] < rank[pc] => Kept(k)
  /\ pc = "syncStatus" => Behind \/ unseenJob \/ (cJob # None /\ wJob = cJob)
  /\ pc = "report" => (Active => Behind)
  /\ pc \in {"recordTerminalResult", "collectTerminal"} => ~Active
  /\ pc = "idle" => (Active => Resting)

SInv == GenOK /\ (~queued => Underway)

-----------------------------------------------------------------------------
(* Operators                                                               *)

\* A reconcile that ends without an error leaves the key as it was, and sets
\* the timer that it asked for.
LEMMA ReturnQueues ==
  ASSUME NEW err, NEW requeue, Return(err, requeue)
  PROVE  /\ ~queued' => ~queued /\ ~err
         /\ requeue \/ timer => timer'
         /\ pc' = "idle"
BY Zenon DEF Return

\* nextStep goes through the managed kinds in order and leaves none out.
LEMMA NextStepOrder ==
  ASSUME NEW c \in Kinds \cup {"validateTask"}
  PROVE  /\ nextStep[c] \in Kinds \cup {"ensureJob"}
         /\ \A k \in Managed : rank[k] < rank[nextStep[c]] => rank[k] < rank[c] \/ k = c
<1>1. Managed \subseteq Kinds /\ "NetworkPolicy" \in Managed
  BY ControllerAssumption
<1>2. nextStep[c] \in Kinds \cup {"ensureJob"}
  BY DEF nextStep, Kinds
<1>3. ASSUME NEW k \in Managed, rank[k] < rank[nextStep[c]], ~(rank[k] < rank[c]), k # c
      PROVE  FALSE
  BY <1>1, <1>3 DEF nextStep, Kinds, rank
<1> QED  BY <1>2, <1>3

\* The first call ensures the first managed kind.
LEMMA FirstStepOrder == \A k \in Managed : ~(rank[k] < rank[nextStep["validateTask"]])
<1>1. ASSUME NEW k \in Managed PROVE k # "validateTask" /\ ~(rank[k] < rank["validateTask"])
  BY ControllerAssumption DEF rank, Kinds
<1>2. "validateTask" \in Kinds \cup {"validateTask"}
  OBVIOUS
<1> QED  BY <1>1, <1>2, NextStepOrder

\* Every kind comes before ensureJob.
LEMMA KindsFirst == \A k \in Managed : rank[k] < rank["ensureJob"] /\ rank[k] < rank["syncStatus"]
BY ControllerAssumption DEF rank, Kinds

-----------------------------------------------------------------------------
(* The cluster                                                             *)

\* What the cluster does to the Task and to the owned resources: uids and
\* generations grow, and a resource goes when its owner is gone.
Moves ==
  /\ \/ task' = task \/ task' = None
     \/ task # None /\ task' # None /\ task'.uid = task.uid /\ task'.gen = task.gen + 1
     \/ task = None /\ task' # None /\ task'.uid = uids + 1
  /\ \A k \in Kinds :
       \/ owned'[k] = owned[k]
       \/ task' = task /\ owned'[k] = None /\ owned[k] # None /\ OwnerGone(owned[k].owner)

\* Users, the Job controller, the garbage collector and the clock do no more.
LEMMA ClusterMoves ==
  ASSUME IInv, UserStep \/ JobStep \/ CollectorStep \/ ClockStep
  PROVE  Moves
<1> USE DEF apiVars, clockVars, historyVars
<1>1. ASSUME NEW s \in Specs, CreateTask(s) PROVE Moves
  <2>1. uids + 1 \in Nat /\ s \in TaskSpec
    BY ClusterAssumption DEF IInv, TypeOK, ClusterTypeOK
  <2>2. NewTask(uids + 1, s) \in Task /\ NewTask(uids + 1, s).uid = uids + 1
    BY <2>1 DEF NewTask, Task, Phases, Reasons, ResultReasons
  <2> QED  BY <1>1, <2>2, ClusterAssumption DEF CreateTask, Moves
<1>2. ASSUME NEW s \in Specs, EditSpec(s) PROVE Moves
  <2>1. s \in TaskSpec /\ task \in Task /\ task.gen + 1 \in Nat
    BY <1>2, ClusterAssumption DEF EditSpec, IInv, TypeOK, ClusterTypeOK, Task
  <2>2. task' \in Task /\ task'.uid = task.uid /\ task'.gen = task.gen + 1
    BY <1>2, <2>1 DEF EditSpec, Task
  <2> QED  BY <1>2, <2>2, ClusterAssumption DEF EditSpec, Moves
<1>3. CASE DeleteTask
  BY <1>3 DEF DeleteTask, Moves
<1>4. ASSUME UNCHANGED <<task, owned>> PROVE Moves
  BY <1>4 DEF Moves
<1>5. CASE SuspendJob \/ ResumeJob
  BY <1>4, <1>5, Zenon DEF SuspendJob, ResumeJob
<1>6. ASSUME NEW x, ChangeClass(x) \/ ChangeDNS(x) \/ StrayPod(x) PROVE Moves
  BY <1>4, <1>6, Zenon DEF ChangeClass, ChangeDNS, StrayPod
<1>7. CASE JobStep
  <2>1. ASSUME NEW st, NEW ph, JobReports(st, ph) PROVE Moves
    BY <1>4, <2>1, Zenon DEF JobReports
  <2>2. ASSUME NEW p, NEW st, NEW m, PodEnds(p, st, m) PROVE Moves
    BY <1>4, <2>2, Zenon DEF PodEnds
  <2>3. CASE JobStarts
    BY <1>4, <2>3, Zenon DEF JobStarts
  <2> QED  BY <1>7, <2>1, <2>2, <2>3 DEF JobStep, JobSucceeds, JobCompletes, JobFails, JobTimesOut
<1>8. CASE CollectorStep
  <2>1. ASSUME NEW p, RemovePod(p) PROVE Moves
    BY <1>4, <2>1, Zenon DEF RemovePod
  <2>2. CASE JobRemoved
    BY <1>4, <2>2, Zenon DEF JobRemoved
  <2>3. ASSUME NEW k \in Kinds, CollectOwned(k) PROVE Moves
    <3>1. owned \in [Kinds -> Object \cup {None}]
      BY DEF IInv, TypeOK, ClusterTypeOK
    <3> QED  BY <2>3, <3>1 DEF CollectOwned, Moves
  <2> QED  BY <1>8, <2>1, <2>2, <2>3 DEF CollectorStep
<1>9. CASE ClockStep
  BY <1>4, <1>9 DEF ClockStep, ResultWaitElapses, TTLElapses
<1> QED  BY <1>1, <1>2, <1>3, <1>5, <1>6, <1>7, <1>8, <1>9 DEF UserStep

\* A Task that the informer owes stays owed, and generations grow.
LEMMA BehindStays ==
  ASSUME IInv, UidsOK, GenOK, Moves, UNCHANGED cTask
  PROVE  GenOK' /\ (cTask # None /\ Behind => Behind')
<1>1. /\ uids \in Nat
      /\ task # None => task.gen \in Nat /\ task.uid \in Nat
      /\ cTask # None => cTask.gen \in Nat /\ cTask.uid \in Nat /\ cTask.uid <= uids
  BY DEF IInv, TypeOK, ClusterTypeOK, Task, UidsOK
<1> QED  BY <1>1 DEF Moves, GenOK, Behind

\* Addresses matter in the NetworkPolicy of a Task with hostnames only.
LEMMA ContentStays ==
  ASSUME NEW k \in Kinds, NEW s, NEW c, NEW a, NEW b, content(k, s, c, a) # content(k, s, c, b)
  PROVE  s.hosts /\ content(k, s, c, a).addresses = a
BY DEF content

\* What an ensure call left stays as it was left.
LEMMA KeptStays ==
  ASSUME IInv, UidsOK, GenOK, Moves, UNCHANGED <<cTask, cOwned, cClass>>, cTask # None,
         NEW k \in Kinds, Kept(k)
  PROVE  Kept(k)'
<1>1. Behind => Behind'
  BY BehindStays
<1>2. CASE owned'[k] = owned[k]
  <2>1. Good(k) => Good(k)'
    <3>1. \/ content(k, cTask.spec, cClass, dns) = content(k, cTask.spec, cClass, dns')
          \/ cTask.spec.hosts /\ content(k, cTask.spec, cClass, dns).addresses = dns
      BY ContentStays
    <3> QED  BY <1>2, <3>1 DEF Good
  <2> QED  BY <1>1, <1>2, <2>1 DEF Kept
<1>3. CASE owned'[k] = None /\ owned[k] # None /\ OwnerGone(owned[k].owner) /\ task' = task
  <2>1. CASE cOwned[k] # None
    BY <1>3, <2>1 DEF Kept
  <2>2. CASE cOwned[k] = None
    <3>1. Behind \/ owned[k].owner = cTask.uid
      BY <1>3, <2>2 DEF Kept
    <3>2. Behind
      BY <1>3, <3>1 DEF OwnerGone, Behind
    <3> QED  BY <1>1, <3>2 DEF Kept
  <2> QED  BY <2>1, <2>2
<1> QED  BY <1>2, <1>3 DEF Moves

\* The cluster disturbs neither a reconcile nor what one left.
LEMMA ClusterSettled ==
  ASSUME IInv, UidsOK, SInv, UNCHANGED controllerVars,
         UserStep \/ JobStep \/ CollectorStep \/ ClockStep
  PROVE  SInv'
<1>1. UNCHANGED <<cTask, cJob, cOwned, cClass, unseenJob, pc, work, wClass, wJob, queued, timer>>
  BY DEF controllerVars, cacheVars, reconcileVars, queueVars
<1>2. Moves
  BY ClusterMoves
<1>3. GenOK' /\ (cTask # None /\ Behind => Behind')
  BY <1>1, <1>2, BehindStays DEF SInv
<1>4. ASSUME cTask # None, NEW k \in Managed, Kept(k) PROVE Kept(k)'
  BY <1>1, <1>2, <1>4, KeptStays, ControllerAssumption DEF SInv
<1>5. Active' = Active /\ (Active => cTask # None) /\ Told' = Told
  BY <1>1 DEF Active, Told
<1>6. ASSUME cTask # None, Resting PROVE Resting'
  BY <1>1, <1>3, <1>4, <1>5, <1>6 DEF Resting
<1>7. pc \in Early /\ work = cTask => cTask # None
  BY DEF IInv, CopiesOK, Early, AfterClass, Kinds
<1>8. ASSUME Underway PROVE Underway'
  <2>1. pc \in AfterClass => cTask # None
    BY <1>7, <1>8 DEF Underway, Early
  <2>2. pc \in AfterClass => \A k \in Managed : rank[k] < rank[pc] => Kept(k)'
    BY <1>4, <1>8, <2>1 DEF Underway
  <2>3. pc = "syncStatus" => Behind' \/ unseenJob \/ (cJob # None /\ wJob = cJob)
    BY <1>3, <1>8, <2>1 DEF Underway, AfterClass
  <2>4. pc = "report" => (Active => Behind')
    BY <1>3, <1>5, <1>8 DEF Underway
  <2>5. pc = "idle" => (Active => Resting')
    BY <1>5, <1>6, <1>8 DEF Underway
  <2> QED  BY <1>1, <1>5, <1>8, <2>2, <2>3, <2>4, <2>5 DEF Underway
<1> QED  BY <1>1, <1>3, <1>8 DEF SInv

-----------------------------------------------------------------------------
(* Informers, timers, faults and the start and end of a reconcile          *)

\* A step that queues the key, or finds it queued, only has to keep GenOK.
LEMMA QueuedSettled ==
  ASSUME GenOK', queued' PROVE SInv'
BY DEF SInv

\* An informer that delivers an event queues the key, unless it is that of the
\* class and no Task in the cache is active.
LEMMA SyncSettled ==
  ASSUME IInv, SInv, Sync \/ TimerFires \/ CallFails \/ Restart
  PROVE  SInv'
<1> USE DEF clusterVars, apiVars, cacheVars, reconcileVars
<1>1. task # None => task.gen \in Nat
  BY DEF IInv, TypeOK, ClusterTypeOK, Task
<1>2. CASE SyncTask
  BY <1>1, <1>2, QueuedSettled DEF SyncTask, GenOK
<1>3. ASSUME UNCHANGED <<task, cTask>>, queued' PROVE SInv'
  BY <1>3, QueuedSettled DEF SInv, GenOK
<1>4. CASE SyncJob \/ SyncPods \/ TimerFires \/ Restart \/ (\E k \in Kinds : SyncOwned(k))
  BY <1>3, <1>4 DEF SyncJob, SyncPods, SyncOwned, TimerFires, Restart
<1>5. CASE CallFails
  <2>1. queued'
    BY <1>5, Zenon DEF CallFails, Return
  <2> QED  BY <1>3, <1>5, <2>1 DEF CallFails
<1>6. CASE SyncClass
  <2>1. UNCHANGED <<task, cTask, cJob, cOwned, unseenJob, pc, work, wClass, wJob, timer>>
    BY <1>6 DEF SyncClass
  <2>2. CASE queued'
    BY <1>3, <2>1, <2>2
  <2>3. CASE ~queued'
    <3>1. ~queued /\ ~Active
      BY <1>6, <2>3, Zenon DEF SyncClass, tasksForAgentClass, Active
    <3>2. Underway
      BY <3>1 DEF SInv
    <3>3. pc \notin Early
      BY <3>1, <3>2 DEF Underway, Active, IInv, CopiesOK, Early, AfterClass, Kinds
    <3>4. ~Active'
      BY <2>1, <3>1 DEF Active
    <3>5. Underway'
      BY <2>1, <3>3, <3>4 DEF Underway, Early, AfterClass
    <3> QED  BY <2>1, <3>5 DEF SInv, GenOK
  <2> QED  BY <2>2, <2>3
<1> QED  BY <1>2, <1>4, <1>5, <1>6 DEF Sync

\* A reconcile starts with the cached Task.
LEMMA ReconcileSettled == IInv /\ SInv /\ Reconcile => SInv'
<1> SUFFICES ASSUME IInv, SInv, Reconcile PROVE SInv'
  OBVIOUS
<1>1. UNCHANGED <<task, cTask>> /\ pc = "idle"
  BY DEF Reconcile, At, clusterVars, apiVars, cacheVars
<1>2. Active' = Active
  BY <1>1 DEF Active
<1>3. CASE cTask = None
  <2>1. pc' = "idle" /\ ~Active'
    BY <1>1, <1>2, <1>3 DEF Reconcile, reconcileVars, Active
  <2> QED  BY <1>1, <2>1 DEF SInv, GenOK, Underway, Early, AfterClass, Kinds
<1>4. CASE cTask # None
  <2>1. work' = cTask /\ pc' = IF isTerminal(cTask.phase) THEN "recordTerminalResult" ELSE "validateTask"
    BY <1>4 DEF Reconcile
  <2>2. Underway'
    BY <1>1, <1>2, <2>1 DEF Underway, Active, Early, AfterClass, Kinds
  <2> QED  BY <1>1, <2>2 DEF SInv, GenOK
<1> QED  BY <1>3, <1>4

\* Report and the terminal branch leave an active Task that the informer owes,
\* or none.
LEMMA EndSettled ==
  ASSUME IInv, SInv, Report \/ CollectTerminal
  PROVE  SInv'
<1>1. UNCHANGED cTask /\ (task' = task \/ task' = None)
  <2>1. CASE Report
    BY <2>1 DEF Report, clusterVars, apiVars, cacheVars
  <2>2. CASE CollectTerminal
    BY <2>2, Zenon DEF CollectTerminal, cacheVars
  <2> QED  BY <2>1, <2>2
<1>2. GenOK'
  BY <1>1 DEF SInv, GenOK
<1>3. (~queued' => ~queued) /\ pc' = "idle"
  <2>1. \E err, requeue : Return(err, requeue)
    BY DEF Report, CollectTerminal
  <2> QED  BY <2>1, ReturnQueues
<1>4. ASSUME ~queued', Active' PROVE Behind'
  <2>1. Underway /\ Active
    BY <1>1, <1>3, <1>4 DEF SInv, Active
  <2>2. pc = "report" /\ UNCHANGED task
    BY <2>1 DEF Report, CollectTerminal, At, Underway, clusterVars, apiVars
  <2> QED  BY <1>1, <2>1, <2>2 DEF Underway, Behind
<1> QED  BY <1>2, <1>3, <1>4 DEF SInv, Underway, Resting, Early, AfterClass, Kinds

-----------------------------------------------------------------------------
(* The calls of a reconcile                                                *)

\* A status that differs from the cached one is written, and then the informer
\* owes the Task, or the write fails and the key is queued.
LEMMA WriteSettled ==
  ASSUME SInv, pc \in Early, UNCHANGED cTask,
         NEW st, st.uid = work.uid, st.gen = work.gen, st # work, work # None,
         NEW requeue, writeThenReport(st, requeue)
  PROVE  SInv'
<1>1. task' = task \/ (work = task /\ task' = st)
  BY DEF writeThenReport, updateStatus, current
<1>2. GenOK'
  BY <1>1 DEF SInv, GenOK
<1>3. CASE work # task
  <2>1. queued'
    BY <1>3, Zenon DEF writeThenReport, current, Return
  <2> QED  BY <1>2, <2>1, QueuedSettled
<1>4. CASE work = task
  <2>1. task' = st /\ pc' \in {"report", "idle"} /\ (~queued' => ~queued)
    <3>1. task' = st
      BY <1>4 DEF writeThenReport, updateStatus, current
    <3>2. CASE isTerminal(st.phase)
      BY <1>4, <3>1, <3>2 DEF writeThenReport, current
    <3>3. CASE ~isTerminal(st.phase)
      <4>1. Return(FALSE, requeue)
        BY <1>4, <3>3 DEF writeThenReport, current
      <4> QED  BY <3>1, <4>1, ReturnQueues
    <3> QED  BY <3>2, <3>3
  <2>2. ~queued' => Behind'
    BY <2>1 DEF SInv, Underway, Behind
  <2> QED  BY <1>2, <2>1, <2>2 DEF SInv, Underway, Resting, Early, AfterClass, Kinds
<1> QED  BY <1>3, <1>4

\* failTask is called for a copy that is not terminal.
LEMMA FailSettled ==
  ASSUME SInv, pc \in Early, UNCHANGED cTask, work \in Task, ~isTerminal(work.phase),
         NEW reason \in Reasons, failTask(reason)
  PROVE  SInv'
<1> DEFINE st == [work EXCEPT !.phase = "Failed", !.reason = reason, !.observed = work.gen]
<1>1. st \in Task /\ st.uid = work.uid /\ st.gen = work.gen /\ st # work
  BY DEF Task, Phases, isTerminal
<1>2. writeThenReport(st, FALSE) /\ work # None
  BY ClusterAssumption DEF failTask
<1> HIDE DEF st
<1> QED  BY <1>1, <1>2, WriteSettled

\* recordTerminalResult runs when the cached Task is not active.
LEMMA RecordSettled == IInv /\ SInv /\ RecordTerminalResult => SInv'
<1> SUFFICES ASSUME IInv, SInv, RecordTerminalResult PROVE SInv'
  OBVIOUS
<1>1. UNCHANGED cTask /\ pc = "recordTerminalResult" /\ work # None
  BY DEF RecordTerminalResult, At, cacheVars, IInv, CopiesOK
<1>2. PICK st :
        /\ OnlyResultOf(st, work)
        /\ task' = task \/ (work = task /\ task' = st)
        /\ \/ Return(TRUE, FALSE)
           \/ Proceed("collectTerminal") /\ work' = st /\ UNCHANGED <<wClass, wJob>>
  BY RecordTerminalResultWrites
<1>3. GenOK'
  BY <1>1, <1>2 DEF SInv, GenOK, OnlyResultOf
<1>4. CASE Return(TRUE, FALSE)
  <2>1. queued'
    BY <1>4, Zenon DEF Return
  <2> QED  BY <1>3, <2>1, QueuedSettled
<1>5. CASE Proceed("collectTerminal")
  <2>1. pc' = "collectTerminal" /\ queued' = queued /\ Active' = Active
    BY <1>1, <1>5 DEF Proceed, queueVars, Active
  <2> QED  BY <1>1, <1>3, <2>1 DEF SInv, Underway, Early, AfterClass, Kinds
<1> QED  BY <1>2, <1>4, <1>5

\* validateTask fails the Task, leaves it waiting with a timer, or goes on.
LEMMA ValidateSettled == IInv /\ SInv /\ ValidateTask => SInv'
<1> SUFFICES ASSUME IInv, SInv, ValidateTask PROVE SInv'
  OBVIOUS
<1>0. /\ pc = "validateTask" /\ pc \in Early /\ work \in Task /\ ~isTerminal(work.phase) /\ work # None
      /\ UNCHANGED <<cTask, cJob, cOwned, cClass, unseenJob, owned, dns>>
  <2>1. pc = "validateTask" /\ pc \in Early
    BY DEF ValidateTask, At, Early
  <2>2. work \in Task /\ ~isTerminal(work.phase) /\ work # None
    BY <2>1 DEF IInv, TypeOK, CopiesOK
  <2> QED  BY <2>1, <2>2 DEF ValidateTask, cacheVars, clockVars
<1>1. CASE failTask("InvalidSpec")
  <2>1. "InvalidSpec" \in Reasons
    BY DEF Reasons
  <2> QED  BY <1>0, <1>1, <2>1, FailSettled
<1>2. CASE cClass = "absent" /\ markWaitingForAgentClass
  <2> DEFINE st == [work EXCEPT !.phase = "Pending", !.reason = "AgentClassMissing", !.observed = work.gen]
  <2>1. st.uid = work.uid /\ st.gen = work.gen /\ st.reason = "AgentClassMissing" /\ st.observed = work.gen
    BY <1>0 DEF Task
  <2>2. IF st = work THEN UNCHANGED task /\ Return(FALSE, TRUE) ELSE writeThenReport(st, TRUE)
    BY <1>2 DEF markWaitingForAgentClass
  <2> HIDE DEF st
  <2>3. CASE st # work
    BY <1>0, <2>1, <2>2, <2>3, WriteSettled
  <2>4. CASE st = work
    <3>1. Return(FALSE, TRUE) /\ UNCHANGED task
      BY <2>2, <2>4
    <3>2. (~queued' => ~queued) /\ timer' /\ pc' = "idle"
      BY <3>1, ReturnQueues
    <3>3. ~queued' => Resting'
      BY <1>0, <1>2, <2>1, <2>4, <3>2 DEF SInv, Underway, Resting
    <3>4. GenOK'
      BY <1>0, <3>1 DEF SInv, GenOK
    <3> QED  BY <3>2, <3>3, <3>4 DEF SInv, Underway, Early, AfterClass, Kinds
  <2> QED  BY <2>3, <2>4
<1>3. CASE /\ cClass # "absent" /\ Proceed(nextStep[pc]) /\ wClass' = cClass
           /\ UNCHANGED <<task, work, wJob>>
  <2>1. pc' \in Kinds \cup {"ensureJob"} /\ queued' = queued
    BY <1>0, <1>3, NextStepOrder DEF Proceed, queueVars
  <2>2. \A k \in Managed : ~(rank[k] < rank[pc'])
    BY <1>0, <1>3, FirstStepOrder DEF Proceed
  <2>3. GenOK'
    BY <1>0, <1>3 DEF SInv, GenOK
  <2>4. ~queued => Underway'
    BY <1>0, <1>3, <2>1, <2>2 DEF SInv, Underway, Early, AfterClass, Kinds
  <2> QED  BY <2>1, <2>3, <2>4 DEF SInv
<1> QED  BY <1>1, <1>2, <1>3 DEF ValidateTask

\* An ensure call that goes on leaves its resource as it should be, or one that
\* the informer owes.
LEMMA EnsuredIsKept ==
  ASSUME IInv, NEW k \in Kinds, pc = k, work = cTask, wClass = cClass, cTask \in Task,
         UNCHANGED <<task, cTask, cOwned, cClass, dns>>,
         \/ wanted(k, work.spec, wClass) /\ ensureOwned(k) /\ pc' # "idle"
         \/ ~wanted(k, work.spec, wClass) /\ deleteIfExists(k)
  PROVE  Kept(k)' /\ \A j \in Kinds \ {k} : owned'[j] = owned[j]
<1>0. /\ owned \in [Kinds -> Object \cup {None}] /\ cOwned[k] \in Object \cup {None}
      /\ desired(k) \in Body
  <2>1. work.spec \in TaskSpec /\ dns \in Nat /\ wClass \in Classes
    BY DEF IInv, TypeOK, ClusterTypeOK, Task
  <2> QED  BY <2>1, ContentType DEF IInv, TypeOK, ClusterTypeOK, desired
<1> DEFINE create == [owner |-> work.uid, body |-> desired(k)]
           update == [cOwned[k] EXCEPT !.body = desired(k)]
<1>1. CASE ~wanted(k, work.spec, wClass) /\ deleteIfExists(k)
  <2>1. owned' = [owned EXCEPT ![k] = None]
    BY <1>1 DEF deleteIfExists
  <2> QED  BY <1>0, <1>1, <2>1 DEF Kept, Good
<1>2. CASE wanted(k, work.spec, wClass) /\ ensureOwned(k) /\ pc' # "idle"
  <2>1. \/ cOwned[k] = None /\ owned[k] = None /\ owned' = [owned EXCEPT ![k] = create]
        \/ cOwned[k] # None /\ cOwned[k] = update /\ UNCHANGED owned
        \/ cOwned[k] # None /\ cOwned[k] # update /\ owned' = [owned EXCEPT ![k] = update]
    BY <1>2 DEF ensureOwned, Return
  <2>2. CASE cOwned[k] = None /\ owned' = [owned EXCEPT ![k] = create]
    <3>1. create \in Object /\ create # None /\ create.owner = cTask.uid
      <4>1. cTask.uid \in Nat /\ work.uid = cTask.uid
        BY DEF Task
      <4>2. create \in Object /\ create.owner = cTask.uid
        BY <1>0, <4>1 DEF Object
      <4> HIDE DEF create
      <4>3. create # None
        BY <4>2, ClusterAssumption
      <4> QED  BY <4>2, <4>3
    <3> HIDE DEF create
    <3> QED  BY <1>0, <2>2, <3>1 DEF Kept
  <2>3. CASE cOwned[k] # None /\ cOwned[k] = update /\ UNCHANGED owned
    <3>1. cOwned[k].body = content(k, cTask.spec, cClass, dns)
      BY <1>0, <2>3 DEF Object, desired
    <3> QED  BY <1>2, <2>3, <3>1 DEF Kept, Good
  <2>4. CASE cOwned[k] # None /\ cOwned[k] # update /\ owned' = [owned EXCEPT ![k] = update]
    <3> HIDE DEF update
    <3> QED  BY <1>0, <2>4 DEF Kept
  <2> QED  BY <2>1, <2>2, <2>3, <2>4
<1> QED  BY <1>1, <1>2

\* The owned resources are ensured in order; a conflict queues the key.
LEMMA EnsureSettled ==
  ASSUME IInv, SInv, NEW k \in Kinds, Ensure(k)
  PROVE  SInv'
<1>0. /\ pc = k /\ pc \in AfterClass /\ pc \in Early
      /\ work \in Task /\ ~isTerminal(work.phase) /\ work # None
      /\ UNCHANGED <<cTask, cJob, cOwned, cClass, unseenJob, dns>>
  <2>1. pc = k /\ pc \in AfterClass /\ pc \in Early
    BY DEF Ensure, At, Early, AfterClass
  <2>2. work \in Task /\ ~isTerminal(work.phase) /\ work # None
    BY <2>1 DEF IInv, TypeOK, CopiesOK, Kinds
  <2> QED  BY <2>1, <2>2 DEF Ensure, cacheVars, clockVars
<1>1. CASE failTask("EgressResolveFailed")
  <2>1. "EgressResolveFailed" \in Reasons
    BY DEF Reasons
  <2> QED  BY <1>0, <1>1, <2>1, FailSettled
<1>2. CASE /\ UNCHANGED task
           /\ \/ wanted(k, work.spec, wClass) /\ ensureOwned(k)
              \/ ~wanted(k, work.spec, wClass) /\ deleteIfExists(k)
  <2>1. GenOK'
    BY <1>0, <1>2 DEF SInv, GenOK
  <2>2. \/ Return(TRUE, FALSE)
        \/ Proceed(nextStep[k]) /\ UNCHANGED <<work, wClass, wJob>>
    BY <1>2, Zenon DEF ensureOwned, deleteIfExists
  <2>3. CASE Return(TRUE, FALSE)
    <3>1. queued'
      BY <2>3, Zenon DEF Return
    <3> QED  BY <2>1, <3>1, QueuedSettled
  <2>4. CASE Proceed(nextStep[k]) /\ UNCHANGED <<work, wClass, wJob>>
    <3>1. /\ pc' = nextStep[k] /\ pc' \in Kinds \cup {"ensureJob"} /\ queued' = queued
          /\ \A j \in Managed : rank[j] < rank[pc'] => rank[j] < rank[k] \/ j = k
      BY <2>4, NextStepOrder DEF Proceed, queueVars
    <3>2. ASSUME ~queued PROVE Underway'
      <4>1. work = cTask /\ wClass = cClass /\ cClass # "absent"
            /\ \A j \in Managed : rank[j] < rank[k] => Kept(j)
        BY <1>0, <3>2 DEF SInv, Underway
      <4>2. pc' # "idle" /\ cTask \in Task
        BY <1>0, <3>1, <4>1 DEF Kinds
      <4>3. Kept(k)' /\ \A j \in Kinds \ {k} : owned'[j] = owned[j]
        BY <1>0, <1>2, <4>1, <4>2, EnsuredIsKept
      <4>4. ASSUME NEW j \in Managed, rank[j] < rank[pc'] PROVE Kept(j)'
        <5>1. CASE j = k
          BY <4>3, <5>1
        <5>2. CASE j # k
          <6>1. Kept(j) /\ owned'[j] = owned[j]
            BY <3>1, <4>1, <4>3, <4>4, <5>2, ControllerAssumption
          <6> QED  BY <1>0, <1>2, <6>1 DEF Kept, Good, Behind
        <5> QED  BY <5>1, <5>2
      <4> QED  BY <1>0, <2>4, <3>1, <4>1, <4>4 DEF Underway, Early, AfterClass, Kinds
    <3> QED  BY <2>1, <3>1, <3>2 DEF SInv
  <2> QED  BY <2>2, <2>3, <2>4
<1> QED  BY <1>1, <1>2 DEF Ensure

\* ensureJob returns the cached Job, or creates one whose event the informer
\* owes; a Job that the cache does not have yet queues the key.
LEMMA EnsureJobSettled == IInv /\ SInv /\ EnsureJob => SInv'
<1> SUFFICES ASSUME IInv, SInv, EnsureJob PROVE SInv'
  OBVIOUS
<1>0. /\ pc = "ensureJob" /\ pc \in AfterClass /\ pc \in Early
      /\ work \in Task /\ ~isTerminal(work.phase) /\ work # None
      /\ UNCHANGED <<cTask, cJob, cOwned, cClass, owned, dns>>
  <2>1. pc = "ensureJob" /\ pc \in AfterClass /\ pc \in Early
    BY DEF EnsureJob, At, Early, AfterClass
  <2>2. work \in Task /\ ~isTerminal(work.phase) /\ work # None
    BY <2>1 DEF IInv, TypeOK, CopiesOK, Kinds
  <2> QED  BY <2>1, <2>2 DEF EnsureJob, clockVars
<1>1. CASE failTask("InvalidSpec")
  <2>1. "InvalidSpec" \in Reasons
    BY DEF Reasons
  <2> QED  BY <1>0, <1>1, <2>1, FailSettled
<1>2. CASE Return(TRUE, FALSE) /\ UNCHANGED task
  <2>1. queued'
    BY <1>2, Zenon DEF Return
  <2>2. GenOK'
    BY <1>0, <1>2 DEF SInv, GenOK
  <2> QED  BY <2>1, <2>2, QueuedSettled
<1>3. CASE /\ Proceed("syncStatus") /\ UNCHANGED <<task, work, wClass>>
           /\ unseenJob' \/ (cJob # None /\ wJob' = cJob)
  <2>1. pc' = "syncStatus" /\ queued' = queued
    BY <1>3 DEF Proceed, queueVars
  <2>2. GenOK'
    BY <1>0, <1>3 DEF SInv, GenOK
  <2>3. ASSUME ~queued PROVE Underway'
    <3>1. work = cTask /\ wClass = cClass /\ cClass # "absent" /\ \A k \in Managed : Kept(k)
      BY <1>0, <2>3, KindsFirst DEF SInv, Underway
    <3>2. ASSUME NEW k \in Managed PROVE Kept(k)'
      BY <1>0, <1>3, <3>1, <3>2 DEF Kept, Good, Behind
    <3> QED  BY <1>0, <1>3, <2>1, <3>1, <3>2 DEF Underway, Early, AfterClass, Kinds
  <2> QED  BY <2>1, <2>2, <2>3 DEF SInv
<1>4. \/ failTask("InvalidSpec")
      \/ Return(TRUE, FALSE) /\ UNCHANGED task
      \/ /\ Proceed("syncStatus") /\ UNCHANGED <<task, work, wClass>>
         /\ unseenJob' \/ (cJob # None /\ wJob' = cJob)
  BY Zenon DEF EnsureJob
<1> QED  BY <1>1, <1>2, <1>3, <1>4

\* syncStatus leaves the Task with the status of the cached Job, and with a
\* timer when the policy holds resolved addresses.
LEMMA SyncStatusSettled == IInv /\ SInv /\ SyncStatus => SInv'
<1> SUFFICES ASSUME IInv, SInv, SyncStatus PROVE SInv'
  OBVIOUS
<1>0. /\ pc = "syncStatus" /\ pc \in AfterClass /\ pc \in Early
      /\ work \in Task /\ ~isTerminal(work.phase) /\ work # None
      /\ UNCHANGED <<cTask, cJob, cOwned, cClass, unseenJob, owned, dns>>
  <2>1. pc = "syncStatus" /\ pc \in AfterClass /\ pc \in Early
    BY DEF SyncStatus, At, Early, AfterClass
  <2>2. work \in Task /\ ~isTerminal(work.phase) /\ work # None
    BY <2>1 DEF IInv, TypeOK, CopiesOK, Kinds
  <2> QED  BY <2>1, <2>2 DEF SyncStatus, clockVars, cacheVars
<1>1. PICK st \in Task, requeue \in BOOLEAN :
        /\ SyncedTo(st)
        /\ egressRefresh(st) => requeue
        /\ \/ st = work /\ UNCHANGED task /\ Return(FALSE, requeue)
           \/ st # work /\ writeThenReport(st, requeue)
  BY SyncStatusWrites
<1>2. CASE st # work
  <2>1. st.uid = work.uid /\ st.gen = work.gen
    BY <1>1 DEF SyncedTo
  <2> QED  BY <1>0, <1>1, <1>2, <2>1, WriteSettled
<1>3. CASE st = work
  <2>1. Return(FALSE, requeue) /\ UNCHANGED task
    BY <1>1, <1>3
  <2>2. (~queued' => ~queued) /\ (requeue => timer') /\ pc' = "idle"
    BY <2>1, ReturnQueues
  <2>3. GenOK'
    BY <1>0, <2>1 DEF SInv, GenOK
  <2>4. ASSUME ~queued PROVE Resting'
    <3>1. /\ work = cTask /\ cClass # "absent" /\ \A k \in Managed : Kept(k)
          /\ Behind \/ unseenJob \/ (cJob # None /\ wJob = cJob)
      BY <1>0, <2>4, KindsFirst DEF SInv, Underway
    <3>2. ASSUME NEW k \in Managed PROVE Kept(k)'
      BY <1>0, <2>1, <3>1, <3>2 DEF Kept, Good, Behind
    <3>3. cTask.spec.hosts => timer'
      BY <1>0, <1>1, <1>3, <2>2, <3>1 DEF egressRefresh
    <3>4. wJob = cJob => Told'
      BY <1>0, <1>1, <1>3, <3>1 DEF SyncedTo, Told
    <3> QED  BY <1>0, <2>1, <3>1, <3>2, <3>3, <3>4 DEF Resting, Behind
  <2> QED  BY <2>2, <2>3, <2>4 DEF SInv, Underway, Early, AfterClass, Kinds
<1> QED  BY <1>2, <1>3

-----------------------------------------------------------------------------
(* The theorems                                                            *)

\* Every step keeps SInv.
LEMMA NextSettled == IInv /\ RInv /\ SInv /\ [Next]_vars => SInv'
<1> SUFFICES ASSUME IInv, UidsOK, SInv, [Next]_vars PROVE SInv'
  BY DEF RInv
<1>1. CASE ReconcileStep
  BY <1>1, ReconcileSettled, ValidateSettled, EnsureSettled, EnsureJobSettled, SyncStatusSettled,
     EndSettled, RecordSettled DEF ReconcileStep
<1>2. CASE Sync \/ TimerFires \/ CallFails \/ Restart
  BY <1>2, SyncSettled
<1>3. CASE (UserStep \/ JobStep \/ CollectorStep \/ ClockStep) /\ UNCHANGED controllerVars
  BY <1>3, ClusterSettled
<1>4. CASE UNCHANGED vars
  <2>1. UNCHANGED <<task, owned, dns, cTask, cJob, cOwned, cClass, unseenJob,
                    pc, work, wClass, wJob, queued, timer>>
    BY <1>4 DEF vars, clusterVars, apiVars, clockVars, controllerVars, cacheVars, reconcileVars, queueVars
  <2> QED  BY <2>1 DEF SInv, GenOK, Underway, Active, Behind, Resting, Told, Kept, Good
<1> QED  BY <1>1, <1>2, <1>3, <1>4 DEF Next

\* A reconcile that nothing disturbed is always where SInv says it is.
THEOREM SettledInvariance == Spec => []SInv
<1>1. Init => SInv
  BY DEF Init, ClusterInit, SInv, GenOK, Underway, Active, Early, AfterClass, Kinds
<1> QED  BY <1>1, NextSettled, Invariance, ReportsInvariance, PTL DEF Spec

\* The controller never comes to rest on outdated state, whatever its caches
\* miss, its calls fail with and the cluster does in between: see
\* SettledIsConverged.  It follows from Resting when every cache is current.
THEOREM SettledConverges == Spec => []SettledIsConverged
<1>1. SInv => SettledIsConverged
  <2> SUFFICES ASSUME SInv, Settled, task # None, ~isTerminal(task.phase)
               PROVE  /\ task.observed = task.gen
                      /\ \/ class = "absent" /\ task.reason = "AgentClassMissing" /\ timer
                         \/ /\ class # "absent" /\ job # None
                            /\ task.phase = derivePhase(job).phase /\ task.reason = derivePhase(job).reason
                            /\ \A k \in Managed :
                                 IF wanted(k, task.spec, class)
                                 THEN /\ owned[k] # None
                                      /\ \/ owned[k].body = content(k, task.spec, class, dns)
                                         \/ /\ timer
                                            /\ owned[k].body
                                                 = content(k, task.spec, class, owned[k].body.addresses)
                                 ELSE owned[k] = None
    BY DEF SettledIsConverged
  <2>1. /\ cTask = task /\ cJob = job /\ cOwned = owned /\ cClass = class /\ ~unseenJob
        /\ Resting /\ ~Behind
    BY DEF Settled, SInv, Underway, Active, Behind
  <2>2. CASE cClass = "absent" /\ cTask.reason = "AgentClassMissing" /\ cTask.observed = cTask.gen /\ timer
    BY <2>1, <2>2
  <2>3. CASE /\ cClass # "absent" /\ cJob # None /\ Told
             /\ cTask.spec.hosts => timer
             /\ \A k \in Managed : Kept(k)
    <3>1. ASSUME NEW k \in Managed PROVE Good(k)
      BY <2>1, <2>3 DEF Kept
    <3> QED  BY <2>1, <2>3, <3>1 DEF Told, Good
  <2> QED  BY <2>1, <2>2, <2>3 DEF Resting
<1> QED  BY <1>1, SettledInvariance, PTL

=============================================================================
