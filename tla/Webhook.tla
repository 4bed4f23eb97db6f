------------------------------- MODULE Webhook -------------------------------
(***************************************************************************)
(* The trigger adapter (internal/trigger): concurrent webhook requests, on *)
(* any replica, that turn events into Tasks.                               *)
(*                                                                         *)
(* ServeHTTP is split at its calls to the API server: the Secret (live),   *)
(* the dedupe list (live) and the create.  ClusterTriggerClasses come from *)
(* a cache; the copy found first serves the whole request.                 *)
(***************************************************************************)
EXTENDS Naturals

CONSTANTS
  Requests,   \* webhook requests; a redelivery is a request with the same event
  Events,     \* the events sources send
  Names,      \* names of ClusterTriggerClasses
  Versions,   \* specs a ClusterTriggerClass takes
  Keys,       \* signing keys
  MaxTasks,   \* bound: Tasks the API server creates
  MaxChanges, \* bound: edits of classes and Secrets
  None        \* an absent object

Event ==
  [form    : {"otherMethod", "tooLarge", "unreadable", "notJSON", "json"},
   path    : STRING,
   key     : Keys \cup {None},   \* what the signature was made with; None: no header
   action  : STRING,             \* the value the filter looks at
   subject : STRING,             \* the value of the uniqueBy labels; "": unresolved
   prompt  : BOOLEAN]            \* the mappings yield a prompt

TriggerClass == [path : STRING, filter : STRING, ns : STRING, dedupe : BOOLEAN]

ASSUME WebhookAssumption ==
  /\ Events \subseteq Event
  /\ Versions \subseteq TriggerClass
  /\ None \notin TriggerClass \cup Keys
  /\ "empty" \notin Keys
  /\ MaxTasks \in Nat /\ MaxChanges \in Nat

VARIABLES
  classes, cClasses,  \* ClusterTriggerClasses by name: live and cached
  secrets,            \* by class: the signing key, "empty", or None (no Secret)
  tasks,              \* the Tasks in the cluster that the adapter created
  pc, event,          \* of each request: its next call, and its event
  ctc, name,          \* of each request: its copy of the class, and the class's name
  answer,             \* of each request: the response, or "none"
  ids, changes,       \* counters for the bounds
  created,            \* history: the requests whose create succeeded
  published,          \* history: <<name, version>> of every class there was
  rotated,            \* history: <<name, key>> of every Secret there was
  raced               \* history: subjects with overlapping requests

requestVars == <<pc, event, ctc, name, answer>>
configVars == <<classes, cClasses, secrets, changes, published, rotated>>
vars == <<configVars, tasks, requestVars, ids, created, raced>>

Answers == {"none", "200", "202 filtered", "202 duplicate", "400", "401", "404", "405", "413", "500"}

Task ==
  [id : Nat, class : Names, ns : STRING, event : Events, checked : BOOLEAN,
   state : {"active", "terminal", "deleting"}]

TypeOK ==
  /\ classes \in [Names -> Versions \cup {None}]
  /\ cClasses \in [Names -> Versions \cup {None}]
  /\ secrets \in [Names -> Keys \cup {"empty", None}]
  /\ tasks \subseteq Task
  /\ pc \in [Requests -> {"idle", "secret", "dedupe", "create", "late", "done"}]
  /\ event \in [Requests -> Events \cup {None}]
  /\ ctc \in [Requests -> Versions \cup {None}]
  /\ name \in [Requests -> Names \cup {None}]
  /\ answer \in [Requests -> Answers]
  /\ ids \in Nat /\ changes \in Nat
  /\ created \subseteq Requests
  /\ published \subseteq Names \X Versions
  /\ rotated \subseteq Names \X Keys
  /\ raced \subseteq Names \X STRING \X STRING

\* The adapter starts with the classes and Secrets in place.
Init ==
  /\ classes \in [Names -> Versions \cup {None}]
  /\ secrets \in [Names -> Keys]
  /\ cClasses = classes
  /\ tasks = {}
  /\ pc = [r \in Requests |-> "idle"]
  /\ event = [r \in Requests |-> None]
  /\ ctc = [r \in Requests |-> None]
  /\ name = [r \in Requests |-> None]
  /\ answer = [r \in Requests |-> "none"]
  /\ ids = 0 /\ changes = 0 /\ created = {}
  /\ published = {nv \in Names \X Versions : classes[nv[1]] = nv[2]}
  /\ rotated = {nk \in Names \X Keys : secrets[nk[1]] = nk[2]}
  /\ raced = {}

-----------------------------------------------------------------------------
(* Platform teams, the informer and the life of the Tasks.                 *)

ChangeClass(n, v) ==
  /\ changes < MaxChanges /\ v # classes[n]
  /\ classes' = [classes EXCEPT ![n] = v]
  /\ published' = IF v = None THEN published ELSE published \cup {<<n, v>>}
  /\ changes' = changes + 1
  /\ UNCHANGED <<cClasses, secrets, rotated, tasks, requestVars, ids, created, raced>>

ChangeSecret(n, k) ==
  /\ changes < MaxChanges /\ k # secrets[n]
  /\ secrets' = [secrets EXCEPT ![n] = k]
  /\ rotated' = IF k \in Keys THEN rotated \cup {<<n, k>>} ELSE rotated
  /\ changes' = changes + 1
  /\ UNCHANGED <<classes, cClasses, published, tasks, requestVars, ids, created, raced>>

SyncClass(n) ==
  /\ cClasses[n] # classes[n]
  /\ cClasses' = [cClasses EXCEPT ![n] = classes[n]]
  /\ UNCHANGED <<classes, secrets, changes, published, rotated, tasks, requestVars, ids, created, raced>>

\* A Task ends, gets a deletionTimestamp, or is gone.
TaskMoves(t) ==
  /\ \/ t.state = "active" /\ tasks' = (tasks \ {t}) \cup {[t EXCEPT !.state = "terminal"]}
     \/ t.state # "deleting" /\ tasks' = (tasks \ {t}) \cup {[t EXCEPT !.state = "deleting"]}
     \/ t.state = "deleting" /\ tasks' = tasks \ {t}
  /\ UNCHANGED <<configVars, requestVars, ids, created, raced>>

-----------------------------------------------------------------------------
(* ServeHTTP                                                               *)

Answer(r, a) == pc' = [pc EXCEPT ![r] = "done"] /\ answer' = [answer EXCEPT ![r] = a]

Goto(r, call) == pc' = [pc EXCEPT ![r] = call] /\ UNCHANGED answer

rejected(e) ==
  CASE e.form = "otherMethod" -> "405"
    [] e.form = "tooLarge"    -> "413"
    [] OTHER                  -> "400"

\* The cached classes on the path of the event; more than one is an error.
findTriggerClass(e) == {n \in Names : cClasses[n] # None /\ cClasses[n].path = e.path}

Receive(r, e) ==
  /\ pc[r] = "idle"
  /\ event' = [event EXCEPT ![r] = e]
  /\ \/ /\ e.form # "json"
        /\ Answer(r, rejected(e)) /\ UNCHANGED <<ctc, name>>
     \/ /\ e.form = "json" /\ findTriggerClass(e) = {}
        /\ Answer(r, "404") /\ UNCHANGED <<ctc, name>>
     \/ \E n, m \in findTriggerClass(e) :
          /\ e.form = "json" /\ n # m
          /\ Answer(r, "500") /\ UNCHANGED <<ctc, name>>
     \/ \E n \in Names :
          /\ e.form = "json" /\ findTriggerClass(e) = {n}
          /\ ctc' = [ctc EXCEPT ![r] = cClasses[n]]
          /\ name' = [name EXCEPT ![r] = n]
          /\ Goto(r, "secret")
  /\ UNCHANGED <<configVars, tasks, ids, created, raced>>

\* Variant: the error itself instead of the status code for it.
VerifyHMACError(key, secret) ==
  CASE key = None       -> "missing"
    [] secret = "empty" -> "500"
    [] key # secret     -> "mismatch"
    [] OTHER            -> "ok"

\* VerifyHMAC; an empty Secret and an unknown algorithm are alike.
VerifyHMAC(key, secret) ==
  CASE key = None       -> "401"
    [] secret = "empty" -> "500"
    [] key # secret     -> "401"
    [] OTHER            -> "ok"

\* Variant: the filters are not applied.
ApplyFiltersNot(e, c) == TRUE

ApplyFilters(e, c) == e.action = c.filter

\* Variant: no return after the answer to a filtered event.
LookupSecretFallsThrough(r) ==
  /\ pc[r] = "secret" /\ VerifyHMAC(event[r].key, secrets[name[r]]) = "ok"
  /\ pc' = [pc EXCEPT ![r] = "dedupe"]
  /\ answer' = IF ApplyFilters(event[r], ctc[r]) THEN answer
               ELSE [answer EXCEPT ![r] = "202 filtered"]
  /\ UNCHANGED <<configVars, tasks, event, ctc, name, ids, created, raced>>

\* lookupSignatureSecret, VerifyHMAC, ApplyFilters, BuildTask.
LookupSecret(r) ==
  LET e == event[r]
      verdict == VerifyHMAC(e.key, secrets[name[r]])
  IN /\ pc[r] = "secret"
     /\ \/ secrets[name[r]] = None /\ Answer(r, "500")
        \/ secrets[name[r]] # None /\ verdict # "ok" /\ Answer(r, verdict)
        \/ /\ secrets[name[r]] # None /\ verdict = "ok"
           /\ \/ ~ApplyFilters(e, ctc[r]) /\ Answer(r, "202 filtered")
              \/ ApplyFilters(e, ctc[r]) /\ ~e.prompt /\ Answer(r, "400")
              \/ ApplyFilters(e, ctc[r]) /\ e.prompt /\ Goto(r, "dedupe")
     /\ UNCHANGED <<configVars, tasks, event, ctc, name, ids, created, raced>>

\* What stampTriggerClass, the mappings and the namespace make of a request.
subject(r) == <<name[r], ctc[r].ns, event[r].subject>>
subjectOf(t) == <<t.class, t.ns, t.event.subject>>

\* spec.dedupe is set and the uniqueBy labels resolved.
checks(r) == ctc[r].dedupe /\ event[r].subject # ""

\* Variant: the list comes from a cache that lags behind the last create.
blockingCached(r) == {t \in tasks : subjectOf(t) = subject(r) /\ t.state = "active" /\ t.id # ids}

\* The active Tasks of the subject: neither terminal nor being deleted.
blocking(r) == {t \in tasks : subjectOf(t) = subject(r) /\ t.state = "active"}

\* A request that has passed the check and may still create its Task.
holds(r) == pc[r] \in {"create", "late"} /\ checks(r)

\* A pass is a race when another request for the subject holds one.
FindActiveDuplicate(r) ==
  /\ pc[r] = "dedupe"
  /\ \/ ~checks(r) /\ Goto(r, "create") /\ UNCHANGED raced
     \/ checks(r) /\ blocking(r) # {} /\ Answer(r, "202 duplicate") /\ UNCHANGED raced
     \/ /\ checks(r) /\ blocking(r) = {} /\ Goto(r, "create")
        /\ raced' = IF \E q \in Requests : holds(q) /\ subject(q) = subject(r)
                    THEN raced \cup {subject(r)} ELSE raced
  /\ UNCHANGED <<configVars, tasks, event, ctc, name, ids, created>>

newTask(r) ==
  [id |-> ids + 1, class |-> name[r], ns |-> ctc[r].ns, event |-> event[r],
   checked |-> checks(r), state |-> "active"]

\* The API server stores the Task of a request.
Store(r) ==
  /\ ids < MaxTasks
  /\ tasks' = tasks \cup {newTask(r)}
  /\ ids' = ids + 1
  /\ created' = created \cup {r}
  /\ UNCHANGED <<configVars, event, ctc, name, raced>>

Create(r) == pc[r] = "create" /\ Store(r) /\ Answer(r, "200")

-----------------------------------------------------------------------------
(* Faults                                                                  *)

\* The Secret, the list or the create fails, for instance on a name that
\* exists; or the replica dies and the sender gets no answer.
CallFails(r) ==
  /\ pc[r] \in {"secret", "dedupe", "create"}
  /\ Answer(r, "500") \/ Answer(r, "none")
  /\ UNCHANGED <<configVars, tasks, event, ctc, name, ids, created, raced>>

\* The answer of the create is lost; the API server stores the Task later.
GivesUp(r) ==
  /\ pc[r] = "create"
  /\ pc' = [pc EXCEPT ![r] = "late"]
  /\ answer' \in {[answer EXCEPT ![r] = "500"], answer}
  /\ UNCHANGED <<configVars, tasks, event, ctc, name, ids, created, raced>>

LateCreate(r) == pc[r] = "late" /\ Store(r) /\ Goto(r, "done")

-----------------------------------------------------------------------------
Environment ==
  \/ \E n \in Names, v \in Versions \cup {None} : ChangeClass(n, v)
  \/ \E n \in Names, k \in Keys \cup {"empty", None} : ChangeSecret(n, k)
  \/ \E n \in Names : SyncClass(n)
  \/ \E t \in tasks : TaskMoves(t)

ServeHTTP(r) ==
  \/ \E e \in Events : Receive(r, e)
  \/ LookupSecret(r) \/ FindActiveDuplicate(r) \/ Create(r)

Fault(r) == CallFails(r) \/ GivesUp(r) \/ LateCreate(r)

Next ==
  \/ Environment
  \/ \E r \in Requests : ServeHTTP(r) \/ Fault(r)

Spec == Init /\ [][Next]_vars

-----------------------------------------------------------------------------
\* Dedupe: two Tasks of one subject that were both checked are active together
\* only if two requests overlapped between the list and the create, also when
\* answers are lost, events are redelivered and the class changes meanwhile
\* (findActiveDuplicate: live list, trigger-class label, "best effort").
OneActivePerSubject ==
  \A t, u \in tasks :
    (/\ t.state = "active" /\ u.state = "active" /\ t.checked /\ u.checked
     /\ subjectOf(t) = subjectOf(u) /\ subjectOf(t) \notin raced) => t = u

\* The answer tells what happened: 200 means the Task was created, and every
\* answer but 200 and 500 means that it was not and never will be (ServeHTTP).
AnswerIsHonest ==
  \A r \in Requests :
    /\ answer[r] = "200" => r \in created
    /\ answer[r] \notin {"none", "200", "500"} => r \notin created /\ pc[r] = "done"

\* A Task carries the class whose path, key and filter let its event in, also
\* when classes and Secrets change while the request runs (findTriggerClass is
\* called once and its copy used throughout).
TaskIsAuthentic ==
  \A t \in tasks :
    /\ <<t.class, t.event.key>> \in rotated
    /\ \E v \in Versions :
         /\ <<t.class, v>> \in published
         /\ v.path = t.event.path /\ v.filter = t.event.action /\ v.ns = t.ns

=============================================================================
