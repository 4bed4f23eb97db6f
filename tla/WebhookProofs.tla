---------------------------- MODULE WebhookProofs ----------------------------
(***************************************************************************)
(* Theorems about Webhook, for any number of requests, events and classes. *)
(***************************************************************************)
EXTENDS Webhook, TLAPS

\* A request past findTriggerClass has an event, a class and its name.
RequestsOK ==
  \A r \in Requests :
    /\ pc[r] = "idle" => answer[r] = "none"
    /\ pc[r] \in {"secret", "dedupe", "create", "late"} =>
         event[r] \in Events /\ ctc[r] \in Versions /\ name[r] \in Names

\* A request that may still create a Task has neither answered nor created.
AnswersOK ==
  \A r \in Requests :
    /\ pc[r] # "done" => r \notin created
    /\ pc[r] \in {"secret", "dedupe", "create"} => answer[r] = "none"
    /\ pc[r] = "late" => answer[r] \in {"none", "500"}
    /\ answer[r] = "200" => r \in created
    /\ answer[r] \notin {"none", "200", "500"} => r \notin created

\* The classes, the cached ones and the Secrets are all on record.
ConfigOK ==
  \A n \in Names :
    /\ classes[n] # None => <<n, classes[n]>> \in published
    /\ cClasses[n] # None => <<n, cClasses[n]>> \in published
    /\ secrets[n] \in Keys => <<n, secrets[n]>> \in rotated

\* The class of a request was published with its path, and from dedupe on its
\* key was in the Secret and its action passed the filter.
AdmittedOK ==
  /\ ConfigOK
  /\ \A r \in Requests :
       /\ pc[r] \in {"secret", "dedupe", "create", "late"} =>
            <<name[r], ctc[r]>> \in published /\ ctc[r].path = event[r].path
       /\ pc[r] \in {"dedupe", "create", "late"} =>
            <<name[r], event[r].key>> \in rotated /\ ctc[r].filter = event[r].action

\* A request that holds a pass shares its subject with no active checked Task
\* and no other holder, unless the subject raced.
PassesOK ==
  /\ \A r \in Requests, t \in tasks :
       (holds(r) /\ t.state = "active" /\ t.checked /\ subjectOf(t) = subject(r))
         => subject(r) \in raced
  /\ \A r, q \in Requests :
       (holds(r) /\ holds(q) /\ r # q /\ subject(r) = subject(q)) => subject(r) \in raced

WInv == TypeOK /\ RequestsOK

-----------------------------------------------------------------------------
(* Types                                                                   *)

\* The classes and Secrets of the start are declared ones.
LEMMA InitOK == Init => WInv
<1> SUFFICES ASSUME Init PROVE WInv
  OBVIOUS
<1>1. TypeOK
  BY DEF Init, TypeOK, Answers
<1> QED  BY <1>1 DEF Init, WInv, RequestsOK

\* The Task of a request past its checks.
LEMMA NewTaskType ==
  ASSUME WInv, NEW r \in Requests, pc[r] \in {"create", "late"}
  PROVE  newTask(r) \in Task /\ newTask(r).state = "active"
         /\ newTask(r).checked = checks(r) /\ subjectOf(newTask(r)) = subject(r)
         /\ newTask(r).event = event[r] /\ newTask(r).class = name[r] /\ newTask(r).ns = ctc[r].ns
<1>1. event[r] \in Events /\ ctc[r] \in Versions /\ name[r] \in Names /\ ids + 1 \in Nat
  BY DEF WInv, RequestsOK, TypeOK
<1>2. ctc[r].ns \in STRING /\ ctc[r].dedupe \in BOOLEAN
  BY <1>1, WebhookAssumption DEF TriggerClass
<1>3. checks(r) \in BOOLEAN
  BY <1>2 DEF checks
<1> QED  BY <1>1, <1>2, <1>3 DEF newTask, Task, subjectOf, subject

\* A pass adds the subject of its request at most.
LEMMA SubjectType ==
  ASSUME WInv, NEW r \in Requests, pc[r] \in {"dedupe", "create", "late"}
  PROVE  subject(r) \in Names \X STRING \X STRING
<1>1. event[r] \in Events /\ ctc[r] \in Versions /\ name[r] \in Names
  BY DEF WInv, RequestsOK
<1>2. ctc[r].ns \in STRING /\ event[r].subject \in STRING
  BY <1>1, WebhookAssumption DEF TriggerClass, Event
<1> QED  BY <1>1, <1>2 DEF subject

\* Edits, the informer and the life of the Tasks keep the types.
LEMMA EnvironmentOK == WInv /\ Environment => WInv'
<1> SUFFICES ASSUME WInv, Environment PROVE WInv'
  OBVIOUS
<1> USE DEF WInv, TypeOK, requestVars, configVars
<1>1. ASSUME UNCHANGED requestVars PROVE RequestsOK'
  BY <1>1 DEF RequestsOK
<1>2. ASSUME NEW n \in Names, NEW v \in Versions \cup {None}, ChangeClass(n, v) PROVE TypeOK' /\ UNCHANGED requestVars
  <2>1. changes' \in Nat
    BY <1>2 DEF ChangeClass
  <2>2. published' \subseteq Names \X Versions
    BY <1>2 DEF ChangeClass
  <2>3. classes' \in [Names -> Versions \cup {None}]
    BY <1>2 DEF ChangeClass
  <2> QED  BY <1>2, <2>1, <2>2, <2>3 DEF ChangeClass
<1>3. ASSUME NEW n \in Names, NEW k \in Keys \cup {"empty", None}, ChangeSecret(n, k) PROVE TypeOK' /\ UNCHANGED requestVars
  <2>1. changes' \in Nat
    BY <1>3 DEF ChangeSecret
  <2>2. rotated' \subseteq Names \X Keys
    BY <1>3 DEF ChangeSecret
  <2>3. secrets' \in [Names -> Keys \cup {"empty", None}]
    BY <1>3 DEF ChangeSecret
  <2> QED  BY <1>3, <2>1, <2>2, <2>3 DEF ChangeSecret
<1>4. ASSUME NEW n \in Names, SyncClass(n) PROVE TypeOK' /\ UNCHANGED requestVars
  BY <1>4 DEF SyncClass
<1>5. ASSUME NEW t \in tasks, TaskMoves(t) PROVE TypeOK' /\ UNCHANGED requestVars
  <2>1. \A x \in {"terminal", "deleting"} : [t EXCEPT !.state = x] \in Task
    BY DEF Task
  <2>2. tasks' \subseteq Task
    BY <1>5, <2>1 DEF TaskMoves
  <2> QED  BY <1>5, <2>2 DEF TaskMoves
<1> QED  BY <1>1, <1>2, <1>3, <1>4, <1>5 DEF Environment

\* A step of one request moves its own fields only.
LEMMA AnswerType ==
  ASSUME WInv, NEW r \in Requests, NEW a \in Answers, Answer(r, a)
  PROVE  /\ pc' \in [Requests -> {"idle", "secret", "dedupe", "create", "late", "done"}]
         /\ answer' \in [Requests -> Answers]
         /\ pc'[r] = "done" /\ answer'[r] = a
         /\ \A q \in Requests \ {r} : pc'[q] = pc[q] /\ answer'[q] = answer[q]
BY DEF WInv, TypeOK, Answer

\* Likewise.
LEMMA GotoType ==
  ASSUME WInv, NEW r \in Requests,
         NEW call \in {"secret", "dedupe", "create", "late", "done"}, Goto(r, call)
  PROVE  /\ pc' \in [Requests -> {"idle", "secret", "dedupe", "create", "late", "done"}]
         /\ answer' = answer
         /\ pc'[r] = call
         /\ \A q \in Requests \ {r} : pc'[q] = pc[q]
BY DEF WInv, TypeOK, Goto

\* What the other requests see of a step of r.
Others(r) ==
  \A q \in Requests \ {r} :
    /\ pc'[q] = pc[q] /\ event'[q] = event[q] /\ ctc'[q] = ctc[q]
    /\ name'[q] = name[q] /\ answer'[q] = answer[q]

\* Receive rejects the event, or finds the one class on its path.
LEMMA ReceiveStep ==
  ASSUME WInv, NEW r \in Requests, NEW e \in Events, Receive(r, e)
  PROVE  /\ WInv' /\ Others(r) /\ pc[r] = "idle"
         /\ UNCHANGED <<configVars, tasks, ids, created, raced>>
         /\ event'[r] = e
         /\ \/ pc'[r] = "done" /\ answer'[r] \in {"400", "404", "405", "413", "500"}
            \/ /\ pc'[r] = "secret" /\ answer'[r] = answer[r]
               /\ \E n \in Names : /\ cClasses[n] # None /\ cClasses[n].path = e.path
                                   /\ ctc'[r] = cClasses[n] /\ name'[r] = n
<1>0. /\ pc[r] = "idle" /\ UNCHANGED <<configVars, tasks, ids, created, raced>>
      /\ event' = [event EXCEPT ![r] = e]
  BY DEF Receive
<1>1. /\ event' \in [Requests -> Events \cup {None}] /\ event'[r] = e
      /\ \A q \in Requests \ {r} : event'[q] = event[q]
  BY <1>0 DEF WInv, TypeOK
<1>2. CASE \E a \in {"400", "404", "405", "413", "500"} : Answer(r, a) /\ UNCHANGED <<ctc, name>>
  <2>1. PICK a \in {"400", "404", "405", "413", "500"} : Answer(r, a) /\ UNCHANGED <<ctc, name>>
    BY <1>2
  <2>2. a \in Answers
    BY DEF Answers
  <2>3. /\ pc' \in [Requests -> {"idle", "secret", "dedupe", "create", "late", "done"}]
        /\ answer' \in [Requests -> Answers] /\ pc'[r] = "done" /\ answer'[r] = a
        /\ \A q \in Requests \ {r} : pc'[q] = pc[q] /\ answer'[q] = answer[q]
    BY <2>1, <2>2, AnswerType
  <2>4. TypeOK'
    BY <1>0, <1>1, <2>1, <2>3 DEF WInv, TypeOK, configVars
  <2>5. Others(r)
    BY <1>1, <2>1, <2>3 DEF Others
  <2>6. RequestsOK'
    BY <2>3, <2>5 DEF WInv, RequestsOK, Others
  <2> QED  BY <1>0, <1>1, <2>3, <2>4, <2>5, <2>6 DEF WInv
<1>3. CASE \E n \in Names : /\ findTriggerClass(e) = {n} /\ Goto(r, "secret")
                            /\ ctc' = [ctc EXCEPT ![r] = cClasses[n]]
                            /\ name' = [name EXCEPT ![r] = n]
  <2>1. PICK n \in Names : /\ findTriggerClass(e) = {n} /\ Goto(r, "secret")
                          /\ ctc' = [ctc EXCEPT ![r] = cClasses[n]]
                          /\ name' = [name EXCEPT ![r] = n]
    BY <1>3
  <2>2. cClasses[n] # None /\ cClasses[n].path = e.path /\ cClasses[n] \in Versions
    BY <2>1 DEF findTriggerClass, WInv, TypeOK
  <2>3. /\ pc' \in [Requests -> {"idle", "secret", "dedupe", "create", "late", "done"}]
        /\ answer' = answer /\ pc'[r] = "secret"
        /\ \A q \in Requests \ {r} : pc'[q] = pc[q]
    BY <2>1, GotoType
  <2>4. /\ ctc' \in [Requests -> Versions \cup {None}] /\ ctc'[r] = cClasses[n]
        /\ name' \in [Requests -> Names \cup {None}] /\ name'[r] = n
        /\ \A q \in Requests \ {r} : ctc'[q] = ctc[q] /\ name'[q] = name[q]
    BY <2>1, <2>2 DEF WInv, TypeOK
  <2>5. TypeOK'
    BY <1>0, <1>1, <2>3, <2>4 DEF WInv, TypeOK, configVars
  <2>6. Others(r)
    BY <1>1, <2>3, <2>4 DEF Others
  <2>7. RequestsOK'
    BY <1>1, <2>2, <2>3, <2>4, <2>6 DEF WInv, RequestsOK, Others
  <2> QED  BY <1>0, <1>1, <2>2, <2>3, <2>4, <2>5, <2>6, <2>7 DEF WInv
<1> QED  BY <1>2, <1>3 DEF Receive, rejected

\* Every other step of a request keeps its event and class.
LEMMA MoveStep ==
  ASSUME WInv, NEW r \in Requests, pc[r] # "idle",
         NEW call \in {"dedupe", "create", "late", "done"}, NEW a \in Answers,
         pc' = [pc EXCEPT ![r] = call], answer' = [answer EXCEPT ![r] = a],
         call # "done" => pc[r] \in {"secret", "dedupe", "create", "late"},
         UNCHANGED <<configVars, event, ctc, name>>,
         tasks' \subseteq Task, ids' \in Nat, created' \subseteq Requests,
         raced' \subseteq Names \X STRING \X STRING
  PROVE  WInv' /\ Others(r) /\ pc'[r] = call /\ answer'[r] = a
<1>1. /\ pc' \in [Requests -> {"idle", "secret", "dedupe", "create", "late", "done"}]
      /\ answer' \in [Requests -> Answers] /\ pc'[r] = call /\ answer'[r] = a
      /\ \A q \in Requests \ {r} : pc'[q] = pc[q] /\ answer'[q] = answer[q]
  BY DEF WInv, TypeOK
<1>2. TypeOK'
  BY <1>1 DEF WInv, TypeOK, configVars
<1>3. Others(r)
  BY <1>1 DEF Others
<1>4. RequestsOK'
  BY <1>1 DEF WInv, RequestsOK
<1> QED  BY <1>1, <1>2, <1>3, <1>4 DEF WInv

\* The forms in which the calls use it.
LEMMA AnswerStep ==
  ASSUME WInv, NEW r \in Requests, pc[r] # "idle", NEW a \in Answers, Answer(r, a),
         UNCHANGED <<configVars, event, ctc, name, raced>>,
         tasks' \subseteq Task, ids' \in Nat, created' \subseteq Requests
  PROVE  WInv' /\ Others(r) /\ pc'[r] = "done" /\ answer'[r] = a
<1>1. raced' \subseteq Names \X STRING \X STRING
  BY DEF WInv, TypeOK
<1> QED  BY <1>1, MoveStep DEF Answer

\* A step to the next call leaves the answer open.
LEMMA GotoStep ==
  ASSUME WInv, NEW r \in Requests, pc[r] \in {"secret", "dedupe", "create", "late"},
         NEW call \in {"dedupe", "create", "late", "done"}, Goto(r, call),
         UNCHANGED <<configVars, event, ctc, name>>,
         tasks' \subseteq Task, ids' \in Nat, created' \subseteq Requests,
         raced' \subseteq Names \X STRING \X STRING
  PROVE  WInv' /\ Others(r) /\ pc'[r] = call /\ answer'[r] = answer[r]
<1>1. answer[r] \in Answers /\ answer' = [answer EXCEPT ![r] = answer[r]]
  BY DEF WInv, TypeOK, Goto
<1> QED  BY <1>1, MoveStep DEF Goto

\* A step of r past findTriggerClass: its event and class stay what they were.
Serves(r) ==
  /\ pc[r] \in {"secret", "dedupe", "create", "late"}
  /\ WInv' /\ Others(r)
  /\ UNCHANGED <<configVars, event, ctc, name>>

\* LookupSecret answers, or lets an event with the key and the action pass.
Looks(r) ==
  /\ Serves(r) /\ pc[r] = "secret"
  /\ UNCHANGED <<tasks, created, raced>>
  /\ \/ pc'[r] = "done" /\ answer'[r] \notin {"none", "200"}
     \/ /\ pc'[r] = "dedupe" /\ answer'[r] = answer[r]
        /\ event[r].key = secrets[name[r]] /\ secrets[name[r]] \in Keys
        /\ event[r].action = ctc[r].filter

\* FindActiveDuplicate answers, or lets the request create.
Dedupes(r) ==
  /\ Serves(r) /\ pc[r] = "dedupe"
  /\ UNCHANGED <<tasks, created>>
  /\ raced \subseteq raced'
  /\ \/ pc'[r] = "done" /\ answer'[r] = "202 duplicate"
     \/ pc'[r] = "create" /\ answer'[r] = answer[r] /\ ~checks(r)
     \/ /\ pc'[r] = "create" /\ answer'[r] = answer[r]
        /\ blocking(r) = {}
        /\ (\E q \in Requests : holds(q) /\ subject(q) = subject(r)) => subject(r) \in raced'

\* Create and LateCreate store the Task of the request.
Stores(r) ==
  /\ Serves(r) /\ pc[r] \in {"create", "late"} /\ pc'[r] = "done"
  /\ tasks' = tasks \cup {newTask(r)} /\ created' = created \cup {r}
  /\ raced' = raced
  /\ answer'[r] = "200" \/ (pc[r] = "late" /\ answer'[r] = answer[r])

\* A failed call ends the request; a lost one leaves its create behind.
Fails(r) ==
  /\ Serves(r)
  /\ UNCHANGED <<tasks, created, raced>>
  /\ \/ pc'[r] = "done" /\ answer'[r] \in {"none", "500"}
     \/ pc[r] = "create" /\ pc'[r] = "late" /\ answer'[r] \in {"500", answer[r]}

\* LookupSecret.
LEMMA LookupStep ==
  ASSUME WInv, NEW r \in Requests, LookupSecret(r)
  PROVE  Looks(r)
<1>0. /\ pc[r] = "secret"
      /\ UNCHANGED <<configVars, tasks, event, ctc, name, ids, created, raced>>
  BY DEF LookupSecret
<1>1. /\ event[r] \in Events /\ name[r] \in Names
      /\ tasks' \subseteq Task /\ ids' \in Nat /\ created' \subseteq Requests
      /\ raced' \subseteq Names \X STRING \X STRING
  BY <1>0 DEF WInv, TypeOK, RequestsOK
<1>2. secrets[name[r]] \in Keys \cup {"empty", None}
  BY <1>1 DEF WInv, TypeOK
<1>3. ASSUME NEW a \in Answers \ {"none", "200"}, Answer(r, a) PROVE Looks(r)
  <2>1. WInv' /\ Others(r) /\ pc'[r] = "done" /\ answer'[r] = a
    BY <1>0, <1>1, <1>3, AnswerStep
  <2> QED  BY <1>0, <1>3, <2>1 DEF Looks, Serves
<1>4. CASE /\ VerifyHMAC(event[r].key, secrets[name[r]]) = "ok" /\ secrets[name[r]] # None
           /\ ApplyFilters(event[r], ctc[r]) /\ Goto(r, "dedupe")
  <2>1. WInv' /\ Others(r) /\ pc'[r] = "dedupe" /\ answer'[r] = answer[r]
    BY <1>0, <1>1, <1>4, GotoStep
  <2>2. event[r].key = secrets[name[r]] /\ secrets[name[r]] \in Keys
    BY <1>2, <1>4 DEF VerifyHMAC
  <2> QED  BY <1>0, <1>4, <2>1, <2>2 DEF Looks, Serves, ApplyFilters
<1>5. \A a \in {"400", "401", "500", "202 filtered"} : a \in Answers \ {"none", "200"}
  BY DEF Answers
<1>6. VerifyHMAC(event[r].key, secrets[name[r]]) \in {"401", "500", "ok"}
  BY DEF VerifyHMAC
<1> QED  BY <1>3, <1>4, <1>5, <1>6 DEF LookupSecret

\* FindActiveDuplicate.
LEMMA DedupeStep ==
  ASSUME WInv, NEW r \in Requests, FindActiveDuplicate(r)
  PROVE  Dedupes(r)
<1>0. /\ pc[r] = "dedupe"
      /\ UNCHANGED <<configVars, tasks, event, ctc, name, ids, created>>
  BY DEF FindActiveDuplicate
<1>1. tasks' \subseteq Task /\ ids' \in Nat /\ created' \subseteq Requests
  BY <1>0 DEF WInv, TypeOK
<1>2. raced \subseteq raced' /\ raced' \subseteq Names \X STRING \X STRING
  BY <1>0, SubjectType DEF FindActiveDuplicate, WInv, TypeOK
<1>3. CASE Answer(r, "202 duplicate") /\ UNCHANGED raced
  <2>1. WInv' /\ Others(r) /\ pc'[r] = "done" /\ answer'[r] = "202 duplicate"
    BY <1>0, <1>1, <1>3, AnswerStep DEF Answers
  <2> QED  BY <1>0, <1>2, <2>1 DEF Dedupes, Serves
<1>4. CASE Goto(r, "create")
  <2>1. WInv' /\ Others(r) /\ pc'[r] = "create" /\ answer'[r] = answer[r]
    BY <1>0, <1>1, <1>2, <1>4, GotoStep
  <2>2. ~checks(r) \/ pc'[r] = "done" \/
        (blocking(r) = {} /\ ((\E q \in Requests : holds(q) /\ subject(q) = subject(r)) => subject(r) \in raced'))
    <3>1. CASE ~checks(r)
      BY <3>1
    <3>2. CASE Answer(r, "202 duplicate")
      BY <3>2, AnswerType DEF Answers
    <3>3. CASE /\ blocking(r) = {}
               /\ raced' = IF \E q \in Requests : holds(q) /\ subject(q) = subject(r)
                           THEN raced \cup {subject(r)} ELSE raced
      BY <3>3
    <3> QED  BY <3>1, <3>2, <3>3 DEF FindActiveDuplicate
  <2> QED  BY <1>0, <1>2, <2>1, <2>2 DEF Dedupes, Serves
<1> QED  BY <1>3, <1>4 DEF FindActiveDuplicate

\* Create and LateCreate.
LEMMA StoreStep ==
  ASSUME WInv, NEW r \in Requests, Create(r) \/ LateCreate(r)
  PROVE  Stores(r)
<1>0. /\ pc[r] \in {"create", "late"} /\ Store(r)
  BY DEF Create, LateCreate
<1>1. /\ tasks' = tasks \cup {newTask(r)} /\ ids' = ids + 1 /\ created' = created \cup {r}
      /\ UNCHANGED <<configVars, event, ctc, name, raced>>
  BY <1>0 DEF Store
<1>2. newTask(r) \in Task
  BY <1>0, NewTaskType
<1>3. /\ tasks' \subseteq Task /\ ids' \in Nat /\ created' \subseteq Requests
      /\ raced' \subseteq Names \X STRING \X STRING
  BY <1>1, <1>2 DEF WInv, TypeOK
<1>4. CASE Answer(r, "200")
  <2>1. WInv' /\ Others(r) /\ pc'[r] = "done" /\ answer'[r] = "200"
    BY <1>0, <1>1, <1>3, <1>4, AnswerStep DEF Answers
  <2> QED  BY <1>0, <1>1, <2>1 DEF Stores, Serves
<1>5. CASE pc[r] = "late" /\ Goto(r, "done")
  <2>1. WInv' /\ Others(r) /\ pc'[r] = "done" /\ answer'[r] = answer[r]
    BY <1>1, <1>3, <1>5, GotoStep
  <2> QED  BY <1>0, <1>1, <1>5, <2>1 DEF Stores, Serves
<1> QED  BY <1>4, <1>5 DEF Create, LateCreate

\* CallFails and GivesUp.
LEMMA FailStep ==
  ASSUME WInv, NEW r \in Requests, CallFails(r) \/ GivesUp(r)
  PROVE  Fails(r)
<1>0. /\ pc[r] \in {"secret", "dedupe", "create"}
      /\ UNCHANGED <<configVars, tasks, event, ctc, name, ids, created, raced>>
  BY DEF CallFails, GivesUp
<1>1. /\ tasks' \subseteq Task /\ ids' \in Nat /\ created' \subseteq Requests
      /\ raced' \subseteq Names \X STRING \X STRING
  BY <1>0 DEF WInv, TypeOK
<1>2. ASSUME NEW a \in {"none", "500"}, Answer(r, a) PROVE Fails(r)
  <2>1. WInv' /\ Others(r) /\ pc'[r] = "done" /\ answer'[r] = a
    BY <1>0, <1>1, <1>2, AnswerStep DEF Answers
  <2> QED  BY <1>0, <2>1 DEF Fails, Serves
<1>3. CASE GivesUp(r)
  <2>1. PICK a \in {"500", answer[r]} : answer' = [answer EXCEPT ![r] = a]
    <3>1. answer = [answer EXCEPT ![r] = answer[r]]
      BY DEF WInv, TypeOK
    <3> QED  BY <1>3, <3>1 DEF GivesUp
  <2>2. a \in Answers
    BY DEF WInv, TypeOK, Answers
  <2>3. pc[r] = "create" /\ pc' = [pc EXCEPT ![r] = "late"]
    BY <1>3 DEF GivesUp
  <2>4. WInv' /\ Others(r) /\ pc'[r] = "late" /\ answer'[r] = a
    BY <1>0, <1>1, <2>1, <2>2, <2>3, MoveStep
  <2> QED  BY <1>0, <2>3, <2>4 DEF Fails, Serves
<1> QED  BY <1>2, <1>3 DEF CallFails

\* A step is one of these, one of the environment's, or stutters.
Steps(r) == Looks(r) \/ Dedupes(r) \/ Stores(r) \/ Fails(r)

\* The steps of a request, by what they do.
LEMMA RequestSteps ==
  ASSUME WInv, NEW r \in Requests, ServeHTTP(r) \/ Fault(r)
  PROVE  (\E e \in Events : Receive(r, e)) \/ Steps(r)
BY LookupStep, DedupeStep, StoreStep, FailStep DEF ServeHTTP, Fault, Steps

\* Every step keeps the types.
LEMMA NextOK == WInv /\ [Next]_vars => WInv'
<1> SUFFICES ASSUME WInv, [Next]_vars PROVE WInv'
  OBVIOUS
<1>1. CASE Environment
  BY <1>1, EnvironmentOK
<1>2. ASSUME NEW r \in Requests, ServeHTTP(r) \/ Fault(r) PROVE WInv'
  <2>1. CASE Steps(r)
    BY <2>1 DEF Steps, Looks, Dedupes, Stores, Fails, Serves
  <2> QED  BY <1>2, <2>1, RequestSteps, ReceiveStep
<1>3. CASE UNCHANGED vars
  BY <1>3 DEF WInv, TypeOK, RequestsOK, vars, configVars, requestVars
<1> QED  BY <1>1, <1>2, <1>3 DEF Next

\* The variables keep their types whatever the classes, Secrets, requests and
\* faults are (ServeHTTP and the API server's part of it).
THEOREM WebhookTypes == Spec => []TypeOK
<1>1. Spec => []WInv
  BY InitOK, NextOK, PTL DEF Spec
<1>2. WInv => TypeOK
  BY DEF WInv
<1> QED  BY <1>1, <1>2, PTL

-----------------------------------------------------------------------------
(* Answers                                                                 *)

\* Each step of a request keeps its answer and its Task in agreement.
LEMMA AnswersStep ==
  WInv /\ AnswersOK /\ [Next]_vars => AnswersOK'
<1> SUFFICES ASSUME WInv, AnswersOK, [Next]_vars PROVE AnswersOK'
  OBVIOUS
<1>1. CASE UNCHANGED <<requestVars, created>>
  BY <1>1 DEF AnswersOK, requestVars
<1>2. CASE Environment
  BY <1>1, <1>2 DEF Environment, ChangeClass, ChangeSecret, SyncClass, TaskMoves
<1>3. ASSUME NEW r \in Requests, NEW e \in Events, Receive(r, e) PROVE AnswersOK'
  <2>1. answer[r] = "none"
    BY <1>3, ReceiveStep DEF WInv, RequestsOK
  <2> QED  BY <1>3, <2>1, ReceiveStep DEF AnswersOK, Others
<1>4. ASSUME NEW r \in Requests, Steps(r) PROVE AnswersOK'
  <2>1. CASE Looks(r)
    BY <2>1 DEF Looks, Serves, Others, AnswersOK
  <2>2. CASE Dedupes(r)
    BY <2>2 DEF Dedupes, Serves, Others, AnswersOK
  <2>3. CASE Stores(r)
    BY <2>3 DEF Stores, Serves, Others, AnswersOK
  <2>4. CASE Fails(r)
    BY <2>4 DEF Fails, Serves, Others, AnswersOK
  <2> QED  BY <1>4, <2>1, <2>2, <2>3, <2>4 DEF Steps
<1>5. CASE UNCHANGED vars
  BY <1>1, <1>5 DEF vars
<1> QED  BY <1>2, <1>3, <1>4, <1>5, RequestSteps DEF Next

\* ServeHTTP: 200 means that the Task was created; any answer but 200 and 500
\* means that it never will be, whatever fails and however requests overlap.
THEOREM AnswersAreHonest == Spec => []AnswerIsHonest
<1>1. Init => AnswersOK
  BY DEF Init, AnswersOK
<1>2. Spec => [](WInv /\ AnswersOK)
  BY <1>1, InitOK, NextOK, AnswersStep, PTL DEF Spec
<1>3. WInv /\ AnswersOK => AnswerIsHonest
  BY DEF WInv, TypeOK, RequestsOK, AnswersOK, AnswerIsHonest
<1> QED  BY <1>2, <1>3, PTL

-----------------------------------------------------------------------------
(* Admission                                                               *)

\* What classes and Secrets have been only grows.
LEMMA HistoryGrows == Environment => published \subseteq published' /\ rotated \subseteq rotated'
BY DEF Environment, ChangeClass, ChangeSecret, SyncClass, TaskMoves, configVars

\* Edits and the informer keep them there.
LEMMA ConfigStep == WInv /\ ConfigOK /\ Environment => ConfigOK'
<1> SUFFICES ASSUME WInv, ConfigOK, Environment PROVE ConfigOK'
  OBVIOUS
<1> USE DEF WInv, TypeOK, ConfigOK, configVars
<1>1. ASSUME NEW n \in Names, NEW v \in Versions \cup {None}, ChangeClass(n, v) PROVE ConfigOK'
  BY <1>1 DEF ChangeClass
<1>2. ASSUME NEW n \in Names, NEW k \in Keys \cup {"empty", None}, ChangeSecret(n, k) PROVE ConfigOK'
  BY <1>2 DEF ChangeSecret
<1>3. ASSUME NEW n \in Names, SyncClass(n) PROVE ConfigOK'
  BY <1>3 DEF SyncClass
<1>4. ASSUME NEW t \in tasks, TaskMoves(t) PROVE ConfigOK'
  BY <1>4 DEF TaskMoves
<1> QED  BY <1>1, <1>2, <1>3, <1>4 DEF Environment

\* The life of a Task leaves its event and its class alone.
LEMMA TasksKeep ==
  ASSUME WInv, Environment, NEW u \in tasks'
  PROVE  \E t \in tasks : /\ t.class = u.class /\ t.event = u.event /\ t.ns = u.ns
                          /\ t.checked = u.checked /\ subjectOf(t) = subjectOf(u)
                          /\ u.state = "active" => t = u
<1>1. CASE u \in tasks
  BY <1>1
<1>2. CASE u \notin tasks
  <2>1. PICK t \in tasks : TaskMoves(t)
    BY <1>2 DEF Environment, ChangeClass, ChangeSecret, SyncClass
  <2>2. PICK x \in {"terminal", "deleting"} : u = [t EXCEPT !.state = x]
    BY <1>2, <2>1 DEF TaskMoves
  <2>3. t \in Task
    BY DEF WInv, TypeOK
  <2>4. t.class = u.class /\ t.event = u.event /\ t.ns = u.ns /\ t.checked = u.checked /\ u.state = x
    BY <2>2, <2>3 DEF Task
  <2> QED  BY <2>4 DEF subjectOf
<1> QED  BY <1>1, <1>2

\* Every step keeps requests and Tasks to what classes and Secrets let in.
LEMMA AdmittedStep ==
  WInv /\ AdmittedOK /\ TaskIsAuthentic /\ [Next]_vars => AdmittedOK' /\ TaskIsAuthentic'
<1> SUFFICES ASSUME WInv, AdmittedOK, TaskIsAuthentic, [Next]_vars
             PROVE  AdmittedOK' /\ TaskIsAuthentic'
  OBVIOUS
<1>1. CASE Environment
  <2>1. ConfigOK'
    BY <1>1, ConfigStep DEF AdmittedOK, ConfigOK
  <2>2. UNCHANGED requestVars
    BY <1>1 DEF Environment, ChangeClass, ChangeSecret, SyncClass, TaskMoves
  <2>3. AdmittedOK'
    BY <1>1, <2>1, <2>2, HistoryGrows DEF AdmittedOK, ConfigOK, requestVars
  <2>4. TaskIsAuthentic'
    <3> SUFFICES ASSUME NEW u \in tasks'
                 PROVE  /\ <<u.class, u.event.key>> \in rotated'
                        /\ \E v \in Versions :
                             /\ <<u.class, v>> \in published'
                             /\ v.path = u.event.path /\ v.filter = u.event.action /\ v.ns = u.ns
      BY DEF TaskIsAuthentic
    <3>1. PICK t \in tasks : t.class = u.class /\ t.event = u.event /\ t.ns = u.ns
      BY <1>1, TasksKeep
    <3> QED  BY <1>1, <3>1, HistoryGrows DEF TaskIsAuthentic
  <2> QED  BY <2>3, <2>4
<1>2. ASSUME NEW r \in Requests, NEW e \in Events, Receive(r, e) PROVE AdmittedOK' /\ TaskIsAuthentic'
  <2>1. UNCHANGED <<classes, cClasses, secrets, published, rotated, tasks>>
    BY <1>2, ReceiveStep DEF configVars
  <2>2. ConfigOK'
    BY <2>1 DEF AdmittedOK, ConfigOK
  <2>3. Others(r) /\ event'[r] = e
    BY <1>2, ReceiveStep
  <2>4. ASSUME pc'[r] = "done" PROVE AdmittedOK'
    BY <2>1, <2>2, <2>3, <2>4 DEF AdmittedOK, Others
  <2>5. ASSUME pc'[r] = "secret", NEW n \in Names, cClasses[n] # None, cClasses[n].path = e.path,
               ctc'[r] = cClasses[n], name'[r] = n
        PROVE  AdmittedOK'
    <3>1. <<name'[r], ctc'[r]>> \in published' /\ ctc'[r].path = event'[r].path
      BY <2>1, <2>3, <2>5 DEF AdmittedOK, ConfigOK
    <3> QED  BY <2>1, <2>2, <2>3, <2>5, <3>1 DEF AdmittedOK, Others
  <2>6. AdmittedOK'
    BY <1>2, <2>4, <2>5, ReceiveStep
  <2> QED  BY <2>1, <2>6 DEF TaskIsAuthentic
<1>3. ASSUME NEW r \in Requests, Steps(r) PROVE AdmittedOK' /\ TaskIsAuthentic'
  <2>0. Serves(r)
    BY <1>3 DEF Steps, Looks, Dedupes, Stores, Fails
  <2>1. /\ UNCHANGED <<classes, cClasses, secrets, published, rotated, event, ctc, name>>
        /\ name[r] \in Names /\ ctc[r] \in Versions
    BY <2>0 DEF Serves, configVars, WInv, RequestsOK
  <2>2. \/ pc'[r] = "done" \/ pc[r] \in {"dedupe", "create", "late"}
        \/ event[r].key = secrets[name[r]] /\ secrets[name[r]] \in Keys /\ event[r].action = ctc[r].filter
    BY <1>3 DEF Steps, Looks, Dedupes, Stores, Fails
  <2>3. AdmittedOK'
    <3>1. ConfigOK'
      BY <2>1 DEF AdmittedOK, ConfigOK
    <3>2. /\ <<name[r], ctc[r]>> \in published /\ ctc[r].path = event[r].path
          /\ pc'[r] # "done" => <<name[r], event[r].key>> \in rotated /\ ctc[r].filter = event[r].action
      BY <2>0, <2>1, <2>2 DEF AdmittedOK, ConfigOK, Serves
    <3>3. \A q \in Requests \ {r} : pc'[q] = pc[q]
      BY <2>0 DEF Serves, Others
    <3> QED  BY <2>1, <3>1, <3>2, <3>3 DEF AdmittedOK
  <2>4. tasks' = tasks \/ (pc[r] \in {"create", "late"} /\ tasks' = tasks \cup {newTask(r)})
    BY <1>3 DEF Steps, Looks, Dedupes, Stores, Fails
  <2>5. TaskIsAuthentic'
    <3>1. CASE tasks' = tasks
      BY <2>1, <3>1 DEF TaskIsAuthentic
    <3>2. CASE pc[r] \in {"create", "late"} /\ tasks' = tasks \cup {newTask(r)}
      <4>1. newTask(r).event = event[r] /\ newTask(r).class = name[r] /\ newTask(r).ns = ctc[r].ns
        BY <3>2, NewTaskType
      <4>2. /\ <<name[r], event[r].key>> \in rotated /\ <<name[r], ctc[r]>> \in published
            /\ ctc[r].path = event[r].path /\ ctc[r].filter = event[r].action
        BY <3>2 DEF AdmittedOK
      <4>3. \A t \in tasks' : t \in tasks \/ t = newTask(r)
        BY <3>2
      <4>4. ASSUME NEW t \in tasks', t = newTask(r)
            PROVE  /\ <<t.class, t.event.key>> \in rotated'
                   /\ \E v \in Versions :
                        /\ <<t.class, v>> \in published'
                        /\ v.path = t.event.path /\ v.filter = t.event.action /\ v.ns = t.ns
        BY <2>1, <4>1, <4>2, <4>4
      <4> QED  BY <2>1, <4>3, <4>4 DEF TaskIsAuthentic
    <3> QED  BY <2>4, <3>1, <3>2
  <2> QED  BY <2>3, <2>5
<1>4. CASE UNCHANGED vars
  BY <1>4 DEF vars, configVars, requestVars, AdmittedOK, ConfigOK, TaskIsAuthentic
<1> QED  BY <1>1, <1>2, <1>3, <1>4, RequestSteps DEF Next

\* ServeHTTP: every Task came from an event that the path, the key and the filter
\* of its class let in, for any edits of classes and Secrets meanwhile.
THEOREM TasksAreAuthentic == Spec => []TaskIsAuthentic
<1>1. Init => AdmittedOK /\ TaskIsAuthentic
  <2> SUFFICES ASSUME Init PROVE AdmittedOK /\ TaskIsAuthentic
    OBVIOUS
  <2>1. ConfigOK
    BY DEF Init, ConfigOK
  <2> QED  BY <2>1 DEF Init, ConfigOK, AdmittedOK, TaskIsAuthentic
<1>2. Spec => [](WInv /\ AdmittedOK /\ TaskIsAuthentic)
  BY <1>1, InitOK, NextOK, AdmittedStep, PTL DEF Spec
<1> QED  BY <1>2, PTL

-----------------------------------------------------------------------------
(* Dedupe                                                                  *)

\* The life of the Tasks and edits can only take away what a pass must fear.
LEMMA PassesEnvironment ==
  WInv /\ PassesOK /\ OneActivePerSubject /\ Environment => PassesOK' /\ OneActivePerSubject'
<1> SUFFICES ASSUME WInv, PassesOK, OneActivePerSubject, Environment
             PROVE  PassesOK' /\ OneActivePerSubject'
  OBVIOUS
<1>1. UNCHANGED <<pc, event, ctc, name, raced>>
  BY DEF Environment, ChangeClass, ChangeSecret, SyncClass, TaskMoves, requestVars
<1>2. \A r : (holds(r)' <=> holds(r)) /\ subject(r)' = subject(r)
  BY <1>1 DEF holds, checks, subject
<1>3. \A t : subjectOf(t)' = subjectOf(t)
  BY DEF subjectOf
<1>4. \A u \in tasks' : u.state = "active" => u \in tasks
  BY TasksKeep
<1>5. PassesOK'
  BY <1>1, <1>2, <1>3, <1>4 DEF PassesOK
<1>6. OneActivePerSubject'
  BY <1>1, <1>3, <1>4 DEF OneActivePerSubject
<1> QED  BY <1>5, <1>6

\* A step of r that gives it no new pass and stores nothing.
LEMMA PassesQuiet ==
  ASSUME WInv, PassesOK, OneActivePerSubject, NEW r \in Requests,
         tasks' = tasks, raced \subseteq raced', Others(r), ~holds(r)'
  PROVE  PassesOK' /\ OneActivePerSubject'
<1>1. \A q \in Requests \ {r} : (holds(q)' <=> holds(q)) /\ subject(q)' = subject(q)
  BY DEF Others, holds, checks, subject
<1>2. \A t : subjectOf(t)' = subjectOf(t)
  BY DEF subjectOf
<1>3. PassesOK'
  BY <1>1, <1>2 DEF PassesOK
<1>4. OneActivePerSubject'
  BY <1>2 DEF OneActivePerSubject
<1> QED  BY <1>3, <1>4

\* A step of r in which it keeps its pass, or gets one by the check.
LEMMA PassesHeld ==
  ASSUME WInv, PassesOK, OneActivePerSubject, NEW r \in Requests,
         tasks' = tasks, raced \subseteq raced', Others(r),
         UNCHANGED <<event, ctc, name>>,
         \/ holds(r)
         \/ /\ blocking(r) = {}
            /\ (\E q \in Requests : holds(q) /\ subject(q) = subject(r)) => subject(r) \in raced'
  PROVE  PassesOK' /\ OneActivePerSubject'
<1>1. \A q \in Requests \ {r} : holds(q)' <=> holds(q)
  BY DEF Others, holds, checks
<1>2. /\ \A q : subject(q)' = subject(q)
      /\ \A t : subjectOf(t)' = subjectOf(t)
  BY DEF subject, subjectOf
<1>3. \A t \in tasks : (t.state = "active" /\ t.checked /\ subjectOf(t) = subject(r)) => subject(r) \in raced'
  BY DEF PassesOK, blocking
<1>4. \A q \in Requests \ {r} : (holds(q) /\ subject(q) = subject(r)) => subject(r) \in raced'
  BY DEF PassesOK
<1>5. PassesOK'
  BY <1>1, <1>2, <1>3, <1>4 DEF PassesOK
<1>6. OneActivePerSubject'
  BY <1>2 DEF OneActivePerSubject
<1> QED  BY <1>5, <1>6

\* The Task of a request with a pass is the only active one of its subject.
LEMMA PassesStore ==
  ASSUME WInv, PassesOK, OneActivePerSubject, NEW r \in Requests, Stores(r)
  PROVE  PassesOK' /\ OneActivePerSubject'
<1>0. /\ tasks' = tasks \cup {newTask(r)} /\ raced' = raced /\ Others(r)
      /\ pc[r] \in {"create", "late"} /\ pc'[r] = "done"
  BY DEF Stores, Serves
<1>1. newTask(r).checked = checks(r) /\ subjectOf(newTask(r)) = subject(r)
  BY <1>0, NewTaskType
<1>2. newTask(r).checked => holds(r)
  BY <1>0, <1>1 DEF holds
<1>3. \A q \in Requests \ {r} : (holds(q)' <=> holds(q)) /\ subject(q)' = subject(q)
  BY <1>0 DEF Others, holds, checks, subject
<1>4. ~holds(r)' /\ \A t : subjectOf(t)' = subjectOf(t)
  BY <1>0 DEF holds, subjectOf
<1>5. PassesOK'
  <2>1. \A q \in Requests : holds(q)' => q # r /\ holds(q) /\ subject(q)' = subject(q)
    BY <1>3, <1>4
  <2>2. \A q \in Requests : (holds(q)' /\ newTask(r).checked /\ subject(r) = subject(q)) => subject(q) \in raced
    BY <1>2, <2>1 DEF PassesOK
  <2> QED  BY <1>0, <1>1, <1>4, <2>1, <2>2 DEF PassesOK
<1>6. OneActivePerSubject'
  <2>1. \A t \in tasks : (t.state = "active" /\ t.checked /\ newTask(r).checked
                           /\ subjectOf(t) = subject(r)) => subject(r) \in raced
    BY <1>2 DEF PassesOK
  <2>2. SUFFICES ASSUME NEW t \in tasks', NEW u \in tasks',
                        t.state = "active", u.state = "active", t.checked, u.checked,
                        subjectOf(t) = subjectOf(u), subjectOf(t) \notin raced
                 PROVE  t = u
    BY <1>0, <1>4 DEF OneActivePerSubject
  <2>3. (t \in tasks \/ t = newTask(r)) /\ (u \in tasks \/ u = newTask(r))
    BY <1>0
  <2>4. CASE t \in tasks /\ u \in tasks
    BY <2>2, <2>4 DEF OneActivePerSubject
  <2> QED  BY <1>1, <2>1, <2>2, <2>3, <2>4
<1> QED  BY <1>5, <1>6

\* Every step keeps at most one active checked Task for a subject not raced.
LEMMA PassesStep ==
  WInv /\ PassesOK /\ OneActivePerSubject /\ [Next]_vars => PassesOK' /\ OneActivePerSubject'
<1> SUFFICES ASSUME WInv, PassesOK, OneActivePerSubject, [Next]_vars
             PROVE  PassesOK' /\ OneActivePerSubject'
  OBVIOUS
<1>1. CASE Environment
  BY <1>1, PassesEnvironment
<1>2. ASSUME NEW r \in Requests, NEW e \in Events, Receive(r, e) PROVE PassesOK' /\ OneActivePerSubject'
  <2>1. ~holds(r)'
    BY <1>2, ReceiveStep DEF holds
  <2> QED  BY <1>2, <2>1, ReceiveStep, PassesQuiet
<1>3. ASSUME NEW r \in Requests, Looks(r) PROVE PassesOK' /\ OneActivePerSubject'
  <2>1. ~holds(r)'
    BY <1>3 DEF Looks, holds
  <2> QED  BY <1>3, <2>1, PassesQuiet DEF Looks, Serves
<1>4. ASSUME NEW r \in Requests, Dedupes(r) PROVE PassesOK' /\ OneActivePerSubject'
  <2>1. checks(r)' <=> checks(r)
    BY <1>4 DEF Dedupes, Serves, checks
  <2>2. CASE pc'[r] = "done" \/ ~checks(r)
    <3>1. ~holds(r)'
      BY <2>1, <2>2 DEF holds
    <3> QED  BY <1>4, <3>1, PassesQuiet DEF Dedupes, Serves
  <2>3. CASE /\ blocking(r) = {}
             /\ (\E q \in Requests : holds(q) /\ subject(q) = subject(r)) => subject(r) \in raced'
    BY <1>4, <2>3, PassesHeld DEF Dedupes, Serves
  <2> QED  BY <1>4, <2>2, <2>3 DEF Dedupes
<1>5. ASSUME NEW r \in Requests, Stores(r) PROVE PassesOK' /\ OneActivePerSubject'
  BY <1>5, PassesStore
<1>6. ASSUME NEW r \in Requests, Fails(r) PROVE PassesOK' /\ OneActivePerSubject'
  <2>1. checks(r)' <=> checks(r)
    BY <1>6 DEF Fails, Serves, checks
  <2>2. CASE pc'[r] = "done" \/ ~checks(r)
    <3>1. ~holds(r)'
      BY <2>1, <2>2 DEF holds
    <3> QED  BY <1>6, <3>1, PassesQuiet DEF Fails, Serves
  <2>3. CASE pc[r] = "create" /\ checks(r)
    <3>1. holds(r)
      BY <2>3 DEF holds
    <3> QED  BY <1>6, <3>1, PassesHeld DEF Fails, Serves
  <2> QED  BY <1>6, <2>2, <2>3 DEF Fails
<1>7. CASE UNCHANGED vars
  <2>1. \A r : (holds(r)' <=> holds(r)) /\ subject(r)' = subject(r) /\ subjectOf(r)' = subjectOf(r)
    BY <1>7 DEF vars, requestVars, holds, checks, subject, subjectOf
  <2> QED  BY <1>7, <2>1 DEF vars, PassesOK, OneActivePerSubject
<1> QED  BY <1>1, <1>2, <1>3, <1>4, <1>5, <1>6, <1>7, RequestSteps DEF Next, Steps

\* findActiveDuplicate: two checked Tasks of a subject are active together only
\* if their requests overlapped, for any number of requests, replicas, faults
\* and redeliveries.
THEOREM DedupeHolds == Spec => []OneActivePerSubject
<1>1. Init => PassesOK /\ OneActivePerSubject
  BY DEF Init, PassesOK, OneActivePerSubject, holds
<1>2. Spec => [](WInv /\ PassesOK /\ OneActivePerSubject)
  BY <1>1, InitOK, NextOK, PassesStep, PTL DEF Spec
<1> QED  BY <1>2, PTL

=============================================================================
