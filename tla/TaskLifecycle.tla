--------------------------- MODULE TaskLifecycle ---------------------------
(***************************************************************************)
(* What the API promises of a Task, whatever the controller does: the      *)
(* state machine of its phase, reason and Result, and one report of its    *)
(* end.  TaskController implements it: no cache, Job, retry or restart is  *)
(* left, only what a client that watches the Task can see.                 *)
(***************************************************************************)
EXTENDS Naturals

CONSTANTS
  None,     \* no Task
  MaxTasks  \* bound: Tasks created under the name

VARIABLES
  status,   \* the Task under the name: uid, phase, reason and Result
  last,     \* the last uid given
  owed,     \* the uid whose end is written and not yet reported, or 0
  reports   \* reports of the end of a Task (Event and metric), by uid

lifeVars == <<status, last, owed, reports>>

\* The reason of the Ready condition goes with the phase; the set is closed.
Underway == {<<"Pending", "AgentClassMissing">>, <<"Pending", "Pending">>,
             <<"Pending", "Suspended">>, <<"Running", "Running">>}

Outcomes == {<<"Completed", "Completed">>, <<"TimedOut", "TimedOut">>, <<"Failed", "Failed">>,
             <<"Failed", "InvalidSpec">>, <<"Failed", "EgressResolveFailed">>}

FromMessage == {"Recorded", "Invalid", "NotProvided"}

over(s) == s.phase \in {"Completed", "TimedOut", "Failed"}

LifeInit ==
  /\ status = None /\ last = 0 /\ owed = 0
  /\ reports = [u \in 1..MaxTasks |-> 0]

Create ==
  /\ status = None /\ last < MaxTasks
  /\ last' = last + 1
  /\ status' = [uid |-> last', phase |-> "", reason |-> "none", result |-> "none"]
  /\ UNCHANGED <<owed, reports>>

\* By a user, or by the controller when the TTL has elapsed.
Delete ==
  /\ status # None /\ status' = None
  /\ UNCHANGED <<last, owed, reports>>

\* The Result that a container left may come with a new phase; it stays.
Write(pr) ==
  \E r \in {status.result} \cup {m \in FromMessage : status.result = "none"} :
    status' = [uid |-> status.uid, phase |-> pr[1], reason |-> pr[2], result |-> r]

\* The Task waits, starts, is suspended or runs again.
Progress(pr) ==
  /\ status # None /\ ~over(status) /\ Write(pr)
  /\ UNCHANGED <<last, owed, reports>>

\* The Task ends; its end is to be reported.
Finish(pr) ==
  /\ status # None /\ ~over(status) /\ Write(pr)
  /\ owed' = status.uid
  /\ UNCHANGED <<last, reports>>

\* After the end a Result can still come in, or be given up.
DecideResult(r) ==
  /\ status # None /\ over(status) /\ status.result = "none"
  /\ status' = [status EXCEPT !.result = r]
  /\ UNCHANGED <<last, owed, reports>>

Report ==
  /\ owed # 0
  /\ reports' = [reports EXCEPT ![owed] = @ + 1] /\ owed' = 0
  /\ UNCHANGED <<status, last>>

\* A crash between the write and the report.
LoseReport ==
  /\ owed # 0 /\ owed' = 0
  /\ UNCHANGED <<status, last, reports>>

LifeNext ==
  \/ Create \/ Delete
  \/ \E pr \in Underway : Progress(pr)
  \/ \E pr \in Outcomes : Finish(pr)
  \/ \E r \in FromMessage \cup {"Unavailable"} : DecideResult(r)
  \/ Report \/ LoseReport

LifeSpec == LifeInit /\ [][LifeNext]_lifeVars

=============================================================================
