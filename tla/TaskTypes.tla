------------------------------ MODULE TaskTypes ------------------------------
(***************************************************************************)
(* The objects the conveyor controller works on, and the pure functions    *)
(* that map the state of a Job and of its pod to the status of a Task.     *)
(*                                                                         *)
(* One Task name is modelled: the owned resources carry the name of the    *)
(* Task and the work queue serialises the reconciles of one name, so Tasks *)
(* of different names share nothing but their ClusterAgentClass.           *)
(***************************************************************************)
EXTENDS Naturals, Sequences

CONSTANT None  \* an absent object, and an unset pointer

(***************************************************************************)
(* Task.  The spec is reduced to what the reconcile branches on.           *)
(***************************************************************************)
Phases == {"", "Pending", "Running", "Completed", "Failed", "TimedOut"}

ResultReasons == {"none", "Recorded", "Invalid", "NotProvided", "Unavailable"}

Reasons == {"none", "AgentClassMissing", "InvalidSpec", "Pending", "Suspended",
            "Running", "Completed", "Failed", "TimedOut", "EgressResolveFailed"}

TaskSpec ==
  [valid  : BOOLEAN,                    \* passes validateTask
   rbac   : BOOLEAN,                    \* declares permissions.rbac
   inline : BOOLEAN,                    \* prompt.inline, not a reference
   config : {"none", "flat", "nested"}, \* agent.config; nested has no env form
   hosts  : BOOLEAN,                    \* the effective egress holds a hostname
   ttl    : BOOLEAN,                    \* a TTL applies (spec or --task-ttl-seconds)
   rev    : Nat]                        \* the text of the prompt, rules and config

Task ==
  [uid       : Nat,            \* metadata.uid
   gen       : Nat,            \* metadata.generation
   spec      : TaskSpec,
   phase     : Phases,         \* status.phase
   reason    : Reasons,        \* reason of the Ready condition
   jobName   : BOOLEAN,        \* status.jobName is set
   completed : BOOLEAN,        \* status.completionTime is set
   observed  : Nat,            \* status.observedGeneration
   result    : ResultReasons]  \* reason of the Result condition

NewTask(u, s) ==
  [uid |-> u, gen |-> 1, spec |-> s, phase |-> "", reason |-> "none",
   jobName |-> FALSE, completed |-> FALSE, observed |-> 0, result |-> "none"]

isTerminal(phase) == phase \in {"Completed", "Failed", "TimedOut"}

(***************************************************************************)
(* Job, pod and the other owned resources.                                 *)
(*                                                                         *)
(* A Job state stands for the Job's start time, conditions and completion  *)
(* time: "succeeding" is SuccessCriteriaMet before Complete, "deadline" is *)
(* Failed with reason DeadlineExceeded, and only "complete" has a          *)
(* completionTime.                                                         *)
(***************************************************************************)
JobStates == {"created", "started", "suspended", "succeeding", "complete",
              "failed", "deadline"}

Finished == {"complete", "failed", "deadline"}

Job == [uid : Nat, owner : Nat, state : JobStates, pods : Nat]

\* The termination message of the agent container: "summary" is a valid Result
\* without links, "links" one whose links only the agent class's egress allows,
\* "none" a container that has no terminated state.
Messages == {"summary", "links", "broken", "empty"}

Pod == [job : Nat, n : Nat, state : {"running", "succeeded", "failed"},
        msg : Messages \cup {"none"}]

Kinds == {"ServiceAccount", "Role", "RoleBinding", "NetworkPolicy",
          "PromptConfigMap", "AgentConfigMap"}

\* mount: declares inputs.config.mount, and requires another egress than bare.
Classes == {"absent", "bare", "mount"}

\* What the builders took from the spec, from the agent class and from the DNS.
Body == [text : Nat, class : Classes, addresses : Nat]

Object == [owner : Nat, body : Body]

-----------------------------------------------------------------------------
\* Variant: the reason of the Job is passed on instead of the API's own.
derivePhaseCopiesReason(j) ==
  CASE j.state = "deadline" -> [phase |-> "TimedOut", reason |-> "DeadlineExceeded"]
    [] OTHER                -> [phase |-> "Running",  reason |-> "Running"]

\* Variant: a deadline is taken for a failure like any other.
derivePhaseForgetsDeadline(j) ==
  CASE j.state \in {"succeeding", "complete"} -> [phase |-> "Completed", reason |-> "Completed"]
    [] j.state \in {"failed", "deadline"}     -> [phase |-> "Failed",    reason |-> "Failed"]
    [] OTHER                                  -> [phase |-> "Running",   reason |-> "Running"]

derivePhase(j) ==
  CASE j.state \in {"succeeding", "complete"} -> [phase |-> "Completed", reason |-> "Completed"]
    [] j.state = "deadline"  -> [phase |-> "TimedOut", reason |-> "TimedOut"]
    [] j.state = "failed"    -> [phase |-> "Failed",   reason |-> "Failed"]
    [] j.state = "suspended" -> [phase |-> "Pending",  reason |-> "Suspended"]
    [] j.state = "started"   -> [phase |-> "Running",  reason |-> "Running"]
    [] OTHER                 -> [phase |-> "Pending",  reason |-> "Pending"]

\* What ParseResult makes of a message under the egress of agent class c.
ParseResult(m, c) ==
  CASE m = "empty"                   -> "NotProvided"
    [] m = "broken"                  -> "Invalid"
    [] m = "links" /\ c = "absent"   -> "Invalid"
    [] OTHER                         -> "Recorded"

\* buildJob returns a PermanentError for a config it cannot deliver.
projectable(s, c) == s.config = "nested" => c = "mount"

\* Variant: no NetworkPolicy for a Task that allows no hostname.
wantedIfNeeded(k, s, c) ==
  CASE k = "NetworkPolicy" -> s.hosts
    [] OTHER               -> TRUE

\* Whether the controller wants the resource: the builders return nil otherwise.
wanted(k, s, c) ==
  CASE k \in {"Role", "RoleBinding"} -> s.rbac
    [] k = "PromptConfigMap"         -> s.inline
    [] k = "AgentConfigMap"          -> s.config # "none" /\ c = "mount"
    [] OTHER                         -> TRUE

only(text) == [text |-> text, class |-> "absent", addresses |-> 0]

\* What the builders put into the resource.  The NetworkPolicy allows the egress of
\* the Task and of its class, hostnames as the addresses they resolve to.
content(k, s, c, addresses) ==
  CASE k = "ServiceAccount" -> only(IF s.rbac THEN 1 ELSE 0)   \* automount the token
    [] k = "RoleBinding"    -> only(0)
    [] k = "NetworkPolicy"  -> [text |-> s.rev, class |-> c, addresses |-> IF s.hosts THEN addresses ELSE 0]
    [] OTHER                -> only(s.rev)

=============================================================================
