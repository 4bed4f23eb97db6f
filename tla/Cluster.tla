------------------------------- MODULE Cluster -------------------------------
(***************************************************************************)
(* The Kubernetes cluster around the controller: the API server's objects  *)
(* under one Task name, and what users, the Job controller, the kubelet,   *)
(* the garbage collector, DNS and the clock do to them.  None of it is     *)
(* code of this repository: it is modelled from what the controller relies *)
(* on.                                                                     *)
(***************************************************************************)
EXTENDS TaskTypes

CONSTANTS
  Specs,         \* the specs users write
  Exits,         \* how agent containers end: <<state, termination message>>
  AgentClasses,  \* the states the ClusterAgentClass takes
  MaxTasks,      \* bound: Tasks created under the name, one after the other
  MaxGen,        \* bound: generations of one Task (spec edits + 1)
  MaxJobs,       \* bound: the last of this many Jobs stays
  MaxPods,       \* bound: pods of one Job (suspensions of a started Job + 1)
  MaxAnswer,     \* bound: distinct address sets DNS returns
  Disturbances   \* the events outside of the normal course of a Task that occur

ASSUME ClusterAssumption ==
  /\ None \notin Task \cup Job \cup Object
  /\ Specs \subseteq TaskSpec
  /\ Exits \subseteq ({"succeeded", "failed"} \X (Messages \cup {"none"})) \ {<<"succeeded", "none">>}
  /\ AgentClasses \subseteq Classes
  /\ MaxTasks \in Nat /\ MaxGen \in Nat /\ MaxJobs \in Nat
  /\ MaxPods \in Nat /\ MaxAnswer \in Nat
  /\ Disturbances \subseteq
       {"TaskDeleted", "SpecEdited", "ClassChanged", "DNSChanged", "JobDeleted",
        "JobSuspended", "Deadline", "PodRemoved", "StrayPod", "Fault"}

VARIABLES
  task,       \* the Task, or None
  job,        \* the Job, or None
  pods,       \* the pods that carry the Task's label
  owned,      \* the other owned resources, by kind
  class,      \* the ClusterAgentClass that spec.agent.ref names
  dns,        \* what the hostnames of the allowlist resolve to; 0 is NXDOMAIN
  waitOver,   \* uids of the terminal Tasks whose ResultWait has elapsed
  ttlOver,    \* uids of the terminal Tasks whose TTL has elapsed
  uids,       \* number of Tasks created so far; the last uid given
  owners,     \* history: owners[j] is the uid of the Task that owns Job j
  ended,      \* history: the outcomes Jobs reported
  written     \* history: the termination messages containers left

apiVars == <<task, job, pods, owned, class>>
clockVars == <<dns, waitOver, ttlOver>>
historyVars == <<uids, owners, ended, written>>
clusterVars == <<apiVars, clockVars, historyVars>>

ClusterTypeOK ==
  /\ task \in Task \cup {None}
  /\ job \in Job \cup {None}
  /\ pods \subseteq Pod
  /\ owned \in [Kinds -> Object \cup {None}]
  /\ class \in Classes
  /\ dns \in Nat
  /\ waitOver \subseteq Nat /\ ttlOver \subseteq Nat
  /\ uids \in Nat
  /\ owners \in Seq(Nat)
  /\ ended \subseteq [job : Nat, phase : Phases]
  /\ written \subseteq [job : Nat, msg : Messages]

ClusterInit ==
  /\ task = None /\ job = None /\ pods = {}
  /\ owned = [k \in Kinds |-> None]
  /\ class \in AgentClasses
  /\ dns = 1
  /\ waitOver = {} /\ ttlOver = {}
  /\ uids = 0 /\ owners = <<>> /\ ended = {} /\ written = {}

-----------------------------------------------------------------------------
(* Users: kubectl apply, edit and delete; platform teams own the class.    *)

CreateTask(s) ==
  /\ task = None /\ uids < MaxTasks
  /\ task' = NewTask(uids + 1, s)
  /\ uids' = uids + 1
  /\ UNCHANGED <<job, pods, owned, class, clockVars, owners, ended, written>>

DeleteTask ==
  /\ "TaskDeleted" \in Disturbances
  /\ task # None
  /\ task' = None
  /\ UNCHANGED <<job, pods, owned, class, clockVars, historyVars>>

EditSpec(s) ==
  /\ "SpecEdited" \in Disturbances
  /\ task # None /\ task.gen < MaxGen /\ s # task.spec
  /\ task' = [task EXCEPT !.spec = s, !.gen = @ + 1]
  /\ UNCHANGED <<job, pods, owned, class, clockVars, historyVars>>

ChangeClass(c) ==
  /\ "ClassChanged" \in Disturbances
  /\ c # class
  /\ class' = c
  /\ UNCHANGED <<task, job, pods, owned, clockVars, historyVars>>

\* Records rotate, and a name can cease to exist.
ChangeDNS(a) ==
  /\ "DNSChanged" \in Disturbances
  /\ a # dns
  /\ dns' = a
  /\ UNCHANGED <<apiVars, waitOver, ttlOver, historyVars>>

-----------------------------------------------------------------------------
(* Job controller and kubelet.  backoffLimit is 0 and restartPolicy Never: *)
(* a Job runs one pod, unless someone suspends and resumes it.             *)

JobStarts ==
  /\ job # None /\ job.state = "created"
  /\ job' = [job EXCEPT !.state = "started", !.pods = @ + 1]
  /\ pods' = pods \cup {[job |-> job.uid, n |-> job.pods + 1, state |-> "running", msg |-> "none"]}
  /\ UNCHANGED <<task, owned, class, clockVars, historyVars>>

\* The container exits, or the node is lost (m = "none": no terminated state).
PodEnds(p, st, m) ==
  /\ p \in pods /\ p.state = "running"
  /\ pods' = (pods \ {p}) \cup {[p EXCEPT !.state = st, !.msg = m]}
  /\ written' = IF m = "none" THEN written ELSE written \cup {[job |-> p.job, msg |-> m]}
  /\ UNCHANGED <<task, job, owned, class, clockVars, uids, owners, ended>>

\* The tracking finalizer keeps a pod until its Job has counted it.
RemovePod(p) ==
  /\ p \in pods /\ p.state # "running"
  /\ \/ job = None
     \/ job # None /\ job.uid # p.job
     \/ job # None /\ job.state \in {"deadline", "suspended"}
     \/ job # None /\ job.state # "started" /\ "PodRemoved" \in Disturbances
  /\ pods' = pods \ {p}
  /\ UNCHANGED <<task, job, owned, class, clockVars, historyVars>>

CurrentPod(p) == p.job = job.uid /\ p.n = job.pods

JobReports(state, phase) ==
  /\ job' = [job EXCEPT !.state = state]
  /\ ended' = ended \cup {[job |-> job.uid, phase |-> phase]}
  /\ UNCHANGED <<task, pods, owned, class, clockVars, uids, owners, written>>

JobSucceeds ==
  /\ job # None /\ job.state = "started"
  /\ \E p \in pods : CurrentPod(p) /\ p.state = "succeeded"
  /\ JobReports("succeeding", "Completed")

JobCompletes ==
  /\ job # None /\ job.state = "succeeding"
  /\ JobReports("complete", "Completed")

JobFails ==
  /\ job # None /\ job.state = "started"
  /\ \E p \in pods : CurrentPod(p) /\ p.state = "failed"
  /\ JobReports("failed", "Failed")

\* activeDeadlineSeconds; the pod gets SIGTERM and ends later.
JobTimesOut ==
  /\ "Deadline" \in Disturbances
  /\ job # None /\ job.state = "started"
  /\ JobReports("deadline", "TimedOut")

\* Suspension stops the running pod; a resumed Job starts another one.
SuspendJob ==
  /\ "JobSuspended" \in Disturbances
  /\ job # None /\ job.state \in {"created", "started"} /\ job.pods < MaxPods
  /\ \A p \in pods : CurrentPod(p) => p.state = "running" \/ job.state = "created"
  /\ job' = [job EXCEPT !.state = "suspended"]
  /\ UNCHANGED <<task, pods, owned, class, clockVars, historyVars>>

ResumeJob ==
  /\ job # None /\ job.state = "suspended"
  /\ \A p \in pods : CurrentPod(p) => p.state # "running"
  /\ job' = [job EXCEPT !.state = "created"]
  /\ UNCHANGED <<task, pods, owned, class, clockVars, historyVars>>

\* A pod that somebody else labels with the Task's name.
StrayPod(m) ==
  /\ "StrayPod" \in Disturbances
  /\ \A p \in pods : p.job # 0
  /\ pods' = pods \cup {[job |-> 0, n |-> 0, state |-> "succeeded", msg |-> m]}
  /\ UNCHANGED <<task, job, owned, class, clockVars, historyVars>>

-----------------------------------------------------------------------------
(* Garbage collection, TTL-after-finished and the clock.                   *)

OwnerGone(u) == task = None \/ (task # None /\ task.uid # u)

\* The owner is gone, ttlSecondsAfterFinished has elapsed, or a manual delete.
JobRemoved ==
  /\ job # None /\ Len(owners) < MaxJobs
  /\ \/ OwnerGone(job.owner)
     \/ job.state \in Finished
     \/ "JobDeleted" \in Disturbances
  /\ job' = None
  /\ UNCHANGED <<task, pods, owned, class, clockVars, historyVars>>

CollectOwned(k) ==
  /\ owned[k] # None /\ OwnerGone(owned[k].owner)
  /\ owned' = [owned EXCEPT ![k] = None]
  /\ UNCHANGED <<task, job, pods, class, clockVars, historyVars>>

\* time.Since(terminalSince(task)) reaches resultWait.
ResultWaitElapses ==
  /\ task # None /\ isTerminal(task.phase) /\ task.uid \notin waitOver
  /\ waitOver' = waitOver \cup {task.uid}
  /\ UNCHANGED <<apiVars, dns, ttlOver, historyVars>>

\* The deletionDeadline of the Task passes.
TTLElapses ==
  /\ task # None /\ isTerminal(task.phase) /\ task.spec.ttl /\ task.uid \notin ttlOver
  /\ ttlOver' = ttlOver \cup {task.uid}
  /\ UNCHANGED <<apiVars, dns, waitOver, historyVars>>

UserStep ==
  \/ \E s \in Specs : CreateTask(s) \/ EditSpec(s)
  \/ DeleteTask
  \/ \E c \in AgentClasses : ChangeClass(c)
  \/ \E a \in 0..MaxAnswer : ChangeDNS(a)
  \/ SuspendJob \/ ResumeJob
  \/ \E e \in Exits : StrayPod(e[2])

JobStep ==
  \/ JobStarts \/ JobSucceeds \/ JobCompletes \/ JobFails \/ JobTimesOut
  \/ \E p \in pods, e \in Exits : PodEnds(p, e[1], e[2])

CollectorStep ==
  \/ \E p \in pods : RemovePod(p)
  \/ JobRemoved
  \/ \E k \in Kinds : CollectOwned(k)

ClockStep == ResultWaitElapses \/ TTLElapses

=============================================================================
