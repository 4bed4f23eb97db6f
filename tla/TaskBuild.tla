----------------------------- MODULE TaskBuild -----------------------------
(***************************************************************************)
(* What the controller builds for one Task, in full detail: the            *)
(* NetworkPolicy, the ConfigMaps and the pod, while the records of its     *)
(* names change, and the Result its agent writes.  TaskController has the  *)
(* order and the interleavings of these writes, with their contents        *)
(* reduced to a number; here a reconcile is one step and its contents are  *)
(* what the builders compute.                                              *)
(***************************************************************************)
EXTENDS AgentJob, ResultFile

CONSTANTS
  Cases,      \* the Tasks, agent classes and first answers that are checked
  AllAnswers, \* what the resolver may answer: functions on Names
  Reports     \* the summaries and links that agents hand to result_write

ASSUME BuildAssumption ==
  /\ \A c \in Cases : c.spec \in TaskSpec /\ c.class \in AgentClass /\ c.answers \in AllAnswers
  /\ AllAnswers \subseteq [Names -> Answer]
  /\ \A why \in {"notFound", "timeout"} : \E a \in AllAnswers : \A n \in Names : a[n].err = why
  /\ Reports \subseteq [summary : Summary, links : Seq(Link)]

VARIABLES
  spec, class,  \* the Task and its agent class
  answers,      \* what the resolver answers at the moment
  phase,        \* status.phase, and the reason of a failure
  err,          \* how the last reconcile ended; the Task is retried unless "none"
  policy,       \* rules of the NetworkPolicy, when there is one
  maps,         \* the owned ConfigMaps
  job,          \* the pod of the Job, when there is one
  message,      \* the termination message
  result        \* what ParseResult made of it

vars == <<spec, class, answers, phase, err, policy, maps, job, message, result>>

None == <<>>

egress == effectiveEgress(spec, class)

Init ==
  /\ \E c \in Cases : spec = c.spec /\ class = c.class /\ answers = c.answers
  /\ phase = "Pending" /\ err = "none"
  /\ policy = None /\ maps = {} /\ job = None /\ message = None /\ result = None

\* A name of the Task gets other records, or loses them, for a while or for good.
DNSChanges ==
  /\ phase \in {"Pending", "Running"} /\ \E e \in Range(egress) : trim(e) \in Names
  /\ answers' \in AllAnswers
  /\ UNCHANGED <<spec, class, phase, err, policy, maps, job, message, result>>

failTask(reason) ==
  phase' = reason /\ err' = "none"

\* validateTask has the last word before anything is built.
RejectSpec ==
  /\ phase \in {"Pending", "Running"} /\ ~validateTask(spec)
  /\ failTask("InvalidSpec")
  /\ UNCHANGED <<spec, class, answers, policy, maps, job, message, result>>

\* BuildNetworkPolicy fails: for good, or until the next try.
EgressFails ==
  /\ phase \in {"Pending", "Running"} /\ validateTask(spec)
  /\ LET p == BuildNetworkPolicy(answers, egress, spec.ports)
     IN  \/ p.err = "permanent" /\ failTask("EgressResolveFailed")
         \/ p.err = "transient" /\ err' = "transient" /\ UNCHANGED phase
  /\ UNCHANGED <<spec, class, answers, policy, maps, job, message, result>>

\* The policy, the ConfigMaps, then the Job; a Job that exists stays as it is, and
\* one that the API server refuses is sent again at every retry.
Build ==
  /\ phase \in {"Pending", "Running"} /\ validateTask(spec)
  /\ LET p == BuildNetworkPolicy(answers, egress, spec.ports)
         j == buildJob(spec, class)
         refused == j.err = "none" /\ job = None /\ ~admitted(j)
     IN  /\ p.err = "none"
         /\ policy' = p
         /\ maps' = BuildInlinePromptConfigMap(spec) \cup BuildAgentConfigMap(spec, class)
         /\ IF j.err = "permanent" THEN failTask("InvalidSpec") /\ UNCHANGED job
            ELSE /\ err' = IF refused THEN "refused" ELSE j.err
                 /\ job' = IF job = None /\ err' = "none" THEN j ELSE job
                 /\ phase' = IF err' = "none" THEN "Running" ELSE phase
  /\ UNCHANGED <<spec, class, answers, message, result>>

\* The agent hands a Result to the library and exits.
AgentExits ==
  /\ phase = "Running"
  /\ \E r \in Reports : message' = result_write(r.summary, r.links)
  /\ phase' = "Completed"
  /\ UNCHANGED <<spec, class, answers, err, policy, maps, job, result>>

\* The controller reads it, under the egress of the Task.
RecordResult ==
  /\ phase = "Completed" /\ result = None
  /\ result' = ParseResult(message, egress)
  /\ UNCHANGED <<spec, class, answers, phase, err, policy, maps, job, message>>

Next == DNSChanges \/ RejectSpec \/ EgressFails \/ Build \/ AgentExits \/ RecordResult

Spec == Init /\ [][Next]_vars

-----------------------------------------------------------------------------
(* Properties                                                              *)

\* The policy depends on the records of the names, not on the order or the
\* repetitions in an answer: a refresh of the same records writes nothing, so
\* round-robin answers do not rewrite the NetworkPolicy at every interval.
PolicyIsCanonical ==
  \A a \in AllAnswers :
    (\A n \in Names : a[n].err = answers[n].err /\ Range(a[n].addrs) = Range(answers[n].addrs))
      => BuildNetworkPolicy(a, egress, spec.ports) = BuildNetworkPolicy(answers, egress, spec.ports)

\* HasHostnames, which decides whether a running Task is refreshed, and
\* resolveEgress, which looks names up, agree: exactly the Tasks with a name can
\* get another policy from another answer.
RefreshedIfItMatters ==
  (\A e \in Range(egress) : trim(e) \notin BadCIDRs) =>
    (HasHostnames(egress)
       <=> \E a \in AllAnswers : BuildNetworkPolicy(a, egress, spec.ports)
                                   # BuildNetworkPolicy(answers, egress, spec.ports))

\* The mounts of the class meet each other, the scratch volume or a Secret.
mountsClash ==
  LET inputs == {class.promptMount, class.configMount} \ {unset}
      taken == {scratchPath} \cup {secretPath(n) : n \in Range(effectiveSecrets(spec, class))}
  IN  inputs \cap taken # {} \/ (class.promptMount = class.configMount /\ inputs # {})

\* A Task that validateTask let through is retried only for a reason of its own:
\* the DNS, or names that no builder looks at (a Secret whose name is no DNS label,
\* inputs of the class on one path).  The prompt has its source, every mount its
\* volume, and a Secret that Task and class both ask for one volume and one path.
RetriedForAReason ==
  /\ err \in {"none", "transient", "refused"}
  /\ err = "refused" =>
       mountsClash \/ \E n \in Range(effectiveSecrets(spec, class)) : n \notin Labels

\* The env var that a container sees when a name is given twice.
lastValue(env, name) ==
  LET given == {i \in DOMAIN env : env[i].name = name}
  IN  IF given = {} THEN "" ELSE env[Max(given)].value

mounted(name) == \E i \in DOMAIN job.mounts : job.mounts[i].name = name

\* Every top-level field of the config reaches the agent of a Task that runs: as
\* an env var that no other one hides, or inside the full JSON.
ConfigReachesAgent ==
  job # None =>
    \A k \in DOMAIN spec.config.fields :
      \/ lastValue(job.env, k) = k
      \/ class.configEnv # "" /\ lastValue(job.env, class.configEnv) = whole
      \/ mounted(plain("config"))

\* The pod finds what it mounts: an owned ConfigMap that it projects exists and
\* holds the key (the builders of the two decide apart), and the prompt is mounted
\* where the class wants it.
PodIsComplete ==
  job # None =>
    /\ \A m \in Range(job.mounts), v \in Range(job.volumes) :
         (v.name = m.name /\ v.kind = "configMap" /\ v.object \in {InlinePromptConfigMapName, AgentConfigMapName})
           => [name |-> v.object, key |-> m.key] \in maps
    /\ class.promptMount # unset => mounted(plain("prompt"))

\* What result_write writes is what the controller records, when the links are
\* ones it may keep: every visible character of the summary, all links in their
\* normal form, and Recorded unless there is nothing to see.  The limits of the two
\* sides agree, but for a Result of exactly MaxResultBytes, which the line break at
\* its end puts over the limit.
WrittenIsRecorded ==
  (result # None /\ \A l \in Range(message.links) : readable(l) /\ hostAllowed(l.host, egress)) =>
    \/ /\ Len(result.links) = Len(message.links)
       /\ \A i \in DOMAIN result.links : result.links[i] = normalized(message.links[i])
       /\ visible(result.summary) = visible(message.summary)
       /\ result.outcome = IF visible(message.summary) = {} /\ message.links = <<>>
                           THEN "NotProvided" ELSE "Recorded"
    \/ message.bytes = MaxResultBytes + 1

\* A link to an address is kept only when the agent could reach the address:
\* hostAllowed and the NetworkPolicy read the allowlist alike.
LinkIsReachable ==
  result # None =>
    \A l \in Range(result.links) :
      l.host \in IPs =>
        /\ Len(policy.rules) = 2
        /\ \E c \in Range(policy.rules[2].to) : l.host \in Block[c]

=============================================================================
