------------------------------- MODULE Agents -------------------------------
(***************************************************************************)
(* The reference agents: the entrypoints of the implementer (modes         *)
(* implement and iterate, or an answer without a repository), the reviewer *)
(* and the reporter, on top of the library agents/common/lib.sh.           *)
(*                                                                         *)
(* A run is the agent container of one Task.  One step is one call of git, *)
(* gh or claude with the shell code around it; between two steps other     *)
(* runs and people act on the repository, SIGTERM arrives (deadline,       *)
(* deletion) or the container is killed.  A call may fail, and it may fail *)
(* after the host carried it out.                                          *)
(*                                                                         *)
(* The webhook adapter starts runs; it keeps two active ones off the same  *)
(* subject, but the issue and its pull request are two subjects, so an     *)
(* implement run and an iterate run can work on one branch at once.  The   *)
(* events of the review label are modelled with that dedupe.               *)
(***************************************************************************)
EXTENDS GitHost

CONSTANTS
  Runs,    \* the agent containers
  Modes,   \* what they are started for
  Faults,  \* what goes wrong around them
  Faulty   \* bound: the runs around which it does

ASSUME AgentsAssumption ==
  /\ Modes \subseteq {"implement", "iterate", "review", "report", "answer"}
  /\ Faults \subseteq {"Call", "Commit", "Signal", "Kill"}
  /\ Faulty \subseteq Runs

VARIABLES
  run,      \* the state of every run
  due,      \* pull requests whose review Task is created and not yet running
  asked,    \* history: the commits there were when a review was last triggered
  dropped,  \* history: the commits there were when an event last came too late
  quiet     \* history: comments made while no run was at work on the branch

reviewVars == <<due, asked, dropped>>

vars == <<hostVars, run, reviewVars, quiet>>

\* The Result file, or the Result that result_partial recorded: what its
\* summary says, the pull request it links and the commit it names.
Kinds == {"none", "stopped", "started", "pushed", "died", "nothing", "final"}

Result == [kind : Kinds, pr : Nat, sha : Commit]

NoResult == [kind |-> "none", pr |-> 0, sha |-> {}]

\* What the traps write as long as result_partial was not called.
Stopped == [kind |-> "stopped", pr |-> 0, sha |-> {}]

Steps == {"new", "view", "threads", "nothing", "clone", "initial", "list", "checkout",
          "claude", "commit", "push", "pushed", "create", "reply", "unlabel", "relabel",
          "post", "final", "exiting", "exited"}

Run ==
  [pc        : Steps,
   mode      : {"implement", "iterate", "review", "report", "answer"},
   pr        : Nat,                 \* the pull request, 0 when there is none yet
   head      : Commit,              \* the commit that was checked out
   tip       : Commit,              \* history: the branch when the run looked at it
   sha       : Commit,              \* HEAD after commit_change
   notes     : SUBSET Time, \* comments since the last push
   todo      : SUBSET Time, \* unresolved threads; later the addressed ones
   partial   : Result,              \* _result_partial_summary and _links
   written   : BOOLEAN,             \* _result_written
   result    : Result,              \* the Result file
   rc        : {0, 1, 137, 143},    \* the exit code
   refused   : BOOLEAN,             \* history: git commit failed
   unlabeled : BOOLEAN]             \* history: a call on the review label failed

NewRun ==
  [pc |-> "new", mode |-> "report", pr |-> 0, head |-> {}, tip |-> {}, sha |-> {},
   notes |-> {}, todo |-> {}, partial |-> Stopped, written |-> FALSE, result |-> NoResult,
   rc |-> 0, refused |-> FALSE, unlabeled |-> FALSE]

TypeOK ==
  /\ HostTypeOK
  /\ run \in [Runs -> Run]
  /\ due \subseteq Nat
  /\ asked \in Commit /\ dropped \in Commit
  /\ quiet \subseteq Time

Init ==
  /\ HostInit
  /\ run = [r \in Runs |-> NewRun]
  /\ due = DOMAIN prs  \* the label of the earlier run has made a Task
  /\ asked = {} /\ dropped = {}
  /\ quiet = {}

become(r, recs) == \E x \in recs : run' = [run EXCEPT ![r] = x]

goto(x, step) == [x EXCEPT !.pc = step]

-----------------------------------------------------------------------------
(* agents/common/lib.sh: the Result and the ways a run ends.               *)

\* The write of the file is taken to succeed.
result_write(x, res) == [x EXCEPT !.result = res, !.written = TRUE]

result_partial(x, kind, pr, sha) ==
  [x EXCEPT !.partial = [kind |-> kind, pr |-> pr, sha |-> sha]]

exit(x, code) == [x EXCEPT !.pc = "exiting", !.rc = code]

\* die writes its message and the partial links.
die(x) == exit(result_write(x, [kind |-> "died", pr |-> x.partial.pr, sha |-> {}]), 1)

\* The process ends, and the variables of the shell are gone.
gone(x) ==
  [NewRun EXCEPT !.pc = "exited", !.mode = x.mode, !.result = x.result, !.rc = x.rc,
                 !.refused = x.refused, !.unlabeled = x.unlabeled]

\* A command fails under `set -e`.
errexit(x) == exit(x, 1)

\* Variant: the exit code of SIGINT.
on_termInt(x) == exit(result_write(x, x.partial), 130)

on_term(x) == exit(result_write(x, x.partial), 143)

\* Variant: a failed exit writes nothing.
on_exitSilent(x) == gone(x)

on_exit(x) ==
  gone(IF x.rc # 0 /\ ~x.written THEN result_write(x, x.partial) ELSE x)

OnExit(r) ==
  /\ run[r].pc = "exiting"
  /\ become(r, {on_exit(run[r])})
  /\ UNCHANGED <<hostVars, reviewVars, quiet>>

\* SIGTERM: the trap runs between two commands, or while claude runs.
Terminate(r) ==
  /\ "Signal" \in Faults /\ r \in Faulty
  /\ run[r].pc \notin {"new", "exited"} /\ run[r].rc # 143
  /\ become(r, {on_term(run[r])})
  /\ UNCHANGED <<hostVars, reviewVars, quiet>>

\* SIGKILL after the grace period, or the node is lost.
Kill(r) ==
  /\ "Kill" \in Faults /\ r \in Faulty
  /\ run[r].pc \notin {"new", "exited"}
  /\ become(r, {gone(exit(run[r], 137))})
  /\ UNCHANGED <<hostVars, reviewVars, quiet>>

\* A call of git or gh fails, for a reason outside of the model.
CallFails(r) == "Call" \in Faults /\ r \in Faulty

-----------------------------------------------------------------------------
(* The steps of a run                                                      *)

In(r, step) == run[r].pc = step

At(r, mode, step) == run[r].mode = mode /\ In(r, step)

\* Runs that will push to the branch of the issue.
AtWork == {r \in Runs : run[r].mode \in {"implement", "iterate"} /\ run[r].pc \notin {"new", "exited"}}

\* The runs of the review Task of pull request n; there is at most one.
reviewers(n) ==
  {r \in Runs : run[r].mode = "review" /\ run[r].pr = n /\ run[r].pc \notin {"new", "exited"}}

active(n) == n \in due \/ reviewers(n) # {}

\* An active review that has not fetched the diff sees all that is pushed by then.
willFetch(n) == n \in due \/ \E r \in reviewers(n) : In(r, "view")

\* The adapter and the review label on pull request n: a `labeled` event creates
\* a Task, unless one for the pull request is active (spec.dedupe of the class).
onReviewLabel(n) ==
  IF ~labeled(n) THEN UNCHANGED reviewVars
  ELSE /\ due' = IF active(n) THEN due ELSE due \cup {n}
       /\ IF active(n) /\ ~willFetch(n)
          THEN dropped' = published /\ UNCHANGED asked
          ELSE asked' = published /\ UNCHANGED dropped

\* What an agent in mode m can be started for.
subjects(m) ==
  CASE m = "iterate" -> openPRs
    [] m = "review"  -> due
    [] OTHER         -> {0}

\* A label, or a call of the API, starts an agent.
Start(r, m, n) ==
  /\ In(r, "new")
  /\ n \in subjects(m)
  /\ run' = [run EXCEPT ![r].pc = "view", ![r].mode = m, ![r].pr = n]
  /\ prs' = IF m = "iterate" THEN [prs EXCEPT ![n].labels = @ \cup {"iterate"}] ELSE prs
  /\ due' = IF m = "review" THEN due \ {n} ELSE due
  /\ UNCHANGED <<base, branch, replies, now, published, asked, dropped, quiet>>

\* Variant: line comments take the place of the others.
newCommentsUnlessThreads(n) ==
  {c \in prs[n].comments : prs[n].threads = {} /\ c > date(branch)}

\* The comments and reviews of pull request n since its last commit.
newComments(n) == {c \in prs[n].comments : c > date(branch)}

\* implement: read the issue.
ViewIssue(r) ==
  LET x == run[r]
  IN /\ At(r, "implement", "view")
     /\ \/ CallFails(r) /\ become(r, {die(x)})
        \/ become(r, {goto(result_partial(x, "started", 0, {}), "clone")})
     /\ UNCHANGED <<hostVars, reviewVars, quiet>>

\* iterate: read the pull request and its comments; it has to be open.
ViewPR(r) ==
  LET x == run[r]
      started == result_partial(x, "started", x.pr, {})
  IN /\ At(r, "iterate", "view")
     /\ \/ CallFails(r) /\ become(r, {die(x)})
        \/ isOpen(x.pr) /\ become(r, {[goto(started, "threads") EXCEPT !.notes = newComments(x.pr)]})
        \/ ~isOpen(x.pr) /\ become(r, {die(started)})
     /\ UNCHANGED <<hostVars, reviewVars, quiet>>

\* The reviewer records its partial Result, then fetches the diff.
FetchDiff(r) ==
  LET started == result_partial(run[r], "started", run[r].pr, {})
  IN /\ At(r, "review", "view")
     /\ \/ CallFails(r) /\ become(r, {errexit(started)})
        \/ become(r, {goto(started, "claude")})
     /\ UNCHANGED <<hostVars, reviewVars, quiet>>

\* The reporter lists pull requests and issues; every error is ignored.
Gather(r) ==
  /\ At(r, "report", "view")
  /\ become(r, {goto(run[r], "claude")})
  /\ UNCHANGED <<hostVars, reviewVars, quiet>>

\* The implementer without a repository: claude answers the prompt.
Answer(r) ==
  /\ At(r, "answer", "view")
  /\ become(r, {die(run[r]), goto(run[r], "final")})
  /\ UNCHANGED <<hostVars, reviewVars, quiet>>

Threads(r) ==
  LET x == run[r]
      todo == prs[x.pr].threads
  IN /\ In(r, "threads")
     /\ \/ CallFails(r) /\ become(r, {die(x)})
        \/ todo = {} /\ x.notes = {} /\ become(r, {goto(x, "nothing")})
        \/ todo \cup x.notes # {} /\ become(r, {[goto(x, "clone") EXCEPT !.todo = todo]})
     /\ UNCHANGED <<hostVars, reviewVars, quiet>>

\* Nothing to address: remove conveyor:iterate and say so.
Nothing(r) ==
  LET x == run[r]
  IN /\ In(r, "nothing")
     /\ \/ removeLabels(x.pr, {"iterate"})
        \/ CallFails(r) /\ UNCHANGED prs
     /\ become(r, {exit(result_write(x, [kind |-> "nothing", pr |-> x.pr, sha |-> {}]), 0)})
     /\ UNCHANGED <<base, branch, replies, now, published, reviewVars, quiet>>

\* clone_repo: `git ls-remote` fails with die, `git clone` under `set -e`.
Clone(r) ==
  LET x == run[r]
  IN /\ In(r, "clone")
     /\ \/ CallFails(r) /\ become(r, {die(x), errexit(x)})
        \/ base = {} /\ become(r, {goto(x, "initial")})
        \/ /\ base # {}
           /\ become(r, {[goto(x, IF x.mode = "implement" THEN "list" ELSE "checkout") EXCEPT !.head = base]})
     /\ UNCHANGED <<hostVars, reviewVars, quiet>>

\* clone_repo in an empty repository: push the base branch with a first commit.
Initial(r) ==
  LET x == run[r]
      create == Tick /\ base' = {now'} /\ published' = published \cup {now'}
  IN /\ In(r, "initial")
     /\ \/ base = {} /\ create /\ become(r, {[goto(x, "list") EXCEPT !.head = {now'}]})
        \/ base = {} /\ CallFails(r) /\ create /\ become(r, {die(x)})
        \/ /\ base # {} \/ CallFails(r)
           /\ become(r, {die(x)} \cup {y \in {errexit(x)} : CallFails(r)})
           /\ UNCHANGED <<base, now, published>>
     /\ UNCHANGED <<branch, prs, replies, reviewVars, quiet>>

\* Look for an open pull request of the branch; without one, branch off the base.
List(r) ==
  LET x == run[r]
  IN /\ In(r, "list")
     /\ \/ CallFails(r) /\ become(r, {die(x)})
        \/ openPRs = {} /\ become(r, {[goto(x, "claude") EXCEPT !.tip = branch]})
        \/ \E n \in openPRs : become(r, {[goto(x, "checkout") EXCEPT !.pr = n]})
     /\ UNCHANGED <<hostVars, reviewVars, quiet>>

\* git fetch of the branch, or gh pr checkout.
Checkout(r) ==
  LET x == run[r]
  IN /\ In(r, "checkout")
     /\ \/ (CallFails(r) \/ branch = {}) /\ become(r, {die(x)})
        \/ branch # {} /\ become(r, {[goto(x, "claude") EXCEPT !.head = branch, !.tip = branch]})
     /\ UNCHANGED <<hostVars, reviewVars, quiet>>

\* claude fails, or leaves no change; or it changes the tree, and iterate mode
\* reads which threads it addressed.  fold_commits undoes commits of its own.
Claude(r) ==
  LET x == run[r]
  IN /\ In(r, "claude") /\ x.mode \in {"implement", "iterate"}
     /\ \/ become(r, {die(x)})
        \/ become(r, {[goto(x, "commit") EXCEPT !.todo = s] : s \in SUBSET x.todo})
     /\ UNCHANGED <<hostVars, reviewVars, quiet>>

\* claude writes the review or the report: it fails, writes nothing, or succeeds.
Compose(r) ==
  /\ In(r, "claude") /\ run[r].mode \in {"review", "report"}
  /\ become(r, {errexit(run[r]), die(run[r]), goto(run[r], "post")})
  /\ UNCHANGED <<hostVars, reviewVars, quiet>>

\* describe_change fails under `set -e` when git diff does, or is cut short by head;
\* commit_change runs in $(...), where `set -e` is off: when git commit fails, for
\* a hook, say, it prints the old HEAD and succeeds.
CommitChange(r) ==
  LET x == run[r]
  IN /\ In(r, "commit")
     /\ \/ Tick /\ become(r, {[goto(x, "push") EXCEPT !.sha = x.head \cup {now'}]})
        \/ CallFails(r) /\ become(r, {errexit(x)}) /\ UNCHANGED now
        \/ /\ "Commit" \in Faults /\ r \in Faulty /\ UNCHANGED now
           /\ become(r, {[goto(x, "push") EXCEPT !.sha = x.head, !.refused = TRUE]})
     /\ UNCHANGED <<base, branch, prs, replies, published, reviewVars, quiet>>

\* Variants: git push || true; git push --force.
PushIgnoresError(r) ==
  LET x == run[r]
  IN /\ In(r, "push")
     /\ IF fastForward(x.sha) THEN acceptPush(x.sha) ELSE UNCHANGED <<branch, published>>
     /\ become(r, {goto(x, "pushed")})
     /\ UNCHANGED <<base, prs, replies, now, reviewVars, quiet>>

PushForce(r) ==
  LET x == run[r]
  IN /\ In(r, "push")
     /\ acceptPush(x.sha) /\ become(r, {goto(x, "pushed")})
     /\ UNCHANGED <<base, prs, replies, now, reviewVars, quiet>>

Push(r) ==
  LET x == run[r]
  IN /\ In(r, "push")
     /\ \/ /\ fastForward(x.sha) /\ acceptPush(x.sha)
           /\ become(r, {goto(x, "pushed")} \cup {y \in {die(x)} : CallFails(r)})
        \/ /\ ~fastForward(x.sha) \/ CallFails(r)
           /\ become(r, {die(x)})
           /\ UNCHANGED <<branch, published>>
     /\ UNCHANGED <<base, prs, replies, now, reviewVars, quiet>>

\* The partial Result after the push.  A run that reuses a pull request
\* comments on it, with the marker; the others open one, or reply.
Pushed(r) ==
  LET x == run[r]
      next == IF x.mode = "iterate" THEN "reply" ELSE IF x.pr = 0 THEN "create" ELSE "unlabel"
  IN /\ In(r, "pushed")
     /\ become(r, {goto(result_partial(x, "pushed", x.pr, x.sha), next)})
     /\ UNCHANGED <<hostVars, reviewVars, quiet>>

CreatePR(r) ==
  LET x == run[r]
  IN /\ In(r, "create")
     /\ \/ /\ creatable /\ prs' = Append(prs, NewPR)
           /\ become(r, {[goto(x, "unlabel") EXCEPT !.pr = Len(prs')]} \cup {y \in {die(x)} : CallFails(r)})
        \/ /\ ~creatable \/ CallFails(r)
           /\ become(r, {die(x)}) /\ UNCHANGED prs
     /\ UNCHANGED <<base, branch, replies, now, published, reviewVars, quiet>>

\* "Addressed in <sha>" on the addressed threads; a reply that fails is left out.
Reply(r) ==
  LET x == run[r]
  IN /\ In(r, "reply")
     /\ \E s \in SUBSET x.todo :
          /\ s = x.todo \/ CallFails(r)
          /\ replies' = replies \cup {<<t, x.sha>> : t \in s}
     /\ become(r, {goto(x, "unlabel")})
     /\ UNCHANGED <<base, branch, prs, now, published, reviewVars, quiet>>

\* Variant: the review label is added without removing it first.
UnlabelSkipsReview(r) ==
  LET x == run[r]
  IN /\ In(r, "unlabel")
     /\ removeLabels(x.pr, {"iterate"}) /\ become(r, {goto(x, "relabel")})
     /\ UNCHANGED <<base, branch, replies, now, published, reviewVars, quiet>>

\* Remove conveyor:iterate, and the first half of relabel_review.
Unlabel(r) ==
  LET x == run[r]
      labels == {"review"} \cup {l \in {"iterate"} : x.mode = "iterate"}
  IN /\ In(r, "unlabel")
     /\ \E done \in SUBSET labels :
          /\ done = labels \/ CallFails(r)
          /\ removeLabels(x.pr, done)
          /\ become(r, {[goto(x, "relabel") EXCEPT !.unlabeled = "review" \notin done]})
     /\ UNCHANGED <<base, branch, replies, now, published, reviewVars, quiet>>

\* The second half of relabel_review, and the comment on the issue.
Relabel(r) ==
  LET x == run[r]
  IN /\ In(r, "relabel")
     /\ \/ /\ addReviewLabel(x.pr) /\ onReviewLabel(x.pr)
           /\ become(r, {goto(x, "final")})
        \/ /\ CallFails(r) /\ UNCHANGED <<prs, reviewVars>>
           /\ become(r, {[goto(x, "final") EXCEPT !.unlabeled = TRUE]})
     /\ UNCHANGED <<base, branch, replies, now, published, quiet>>

\* The reviewer posts its review; the call may fail after the host has it.
PostReview(r) ==
  LET x == run[r]
  IN /\ At(r, "review", "post")
     /\ \/ /\ Tick
           /\ prs' = [prs EXCEPT ![x.pr].comments = @ \cup {now'}]
           /\ quiet' = quiet \cup {c \in {now'} : AtWork = {}}
           /\ become(r, {goto(x, "final")} \cup {y \in {errexit(x)} : CallFails(r)})
        \/ CallFails(r) /\ become(r, {errexit(x)}) /\ UNCHANGED <<prs, now, quiet>>
     /\ UNCHANGED <<base, branch, replies, published, reviewVars>>

\* The reporter comments on an issue, or only prints.
PostReport(r) ==
  LET x == run[r]
  IN /\ At(r, "report", "post")
     /\ become(r, {goto(x, "final")} \cup {y \in {errexit(x)} : CallFails(r)})
     /\ UNCHANGED <<hostVars, reviewVars, quiet>>

\* The last result_write, and the end of the script.
Final(r) ==
  LET x == run[r]
  IN /\ In(r, "final")
     /\ become(r, {exit(result_write(x, [kind |-> "final", pr |-> x.pr, sha |-> x.sha]), 0)})
     /\ UNCHANGED <<hostVars, reviewVars, quiet>>

-----------------------------------------------------------------------------
AgentStep(r) ==
  \/ ViewIssue(r) \/ ViewPR(r) \/ FetchDiff(r) \/ Gather(r) \/ Answer(r) \/ Threads(r) \/ Nothing(r)
  \/ Clone(r) \/ Initial(r) \/ List(r) \/ Checkout(r) \/ Claude(r) \/ Compose(r) \/ CommitChange(r)
  \/ Push(r) \/ Pushed(r) \/ CreatePR(r) \/ Reply(r) \/ Unlabel(r) \/ Relabel(r)
  \/ PostReview(r) \/ PostReport(r) \/ Final(r) \/ OnExit(r)

\* The comment a person has just made.
justCommented == {c \in {now'} : \E n \in DOMAIN prs : c \in prs'[n].comments \ prs[n].comments}

Next ==
  \/ /\ PeopleStep /\ UNCHANGED <<run, reviewVars>>
     /\ quiet' = quiet \cup {c \in justCommented : AtWork = {}}
  \/ \E r \in Runs :
       \/ \E m \in Modes, n \in {0} \cup DOMAIN prs : Start(r, m, n)
       \/ AgentStep(r) \/ Terminate(r) \/ Kill(r)

Spec == Init /\ [][Next]_vars

-----------------------------------------------------------------------------
(* Safety                                                                  *)

\* Every commit that a Result or an "Addressed in" reply names is on the host,
\* although pushes are rejected or fail, and runs stop at any point.
NamedIsPublished ==
  /\ \A r \in Runs : run[r].result.sha \subseteq published
  /\ \A p \in replies : p[2] \subseteq published

Ended(r) == run[r].pc = "exited" /\ run[r].rc # 137

\* The exit code and the Result agree as far as lib.sh promises it: a run that was
\* not killed leaves a Result, one that tells of success after exit code 0, and
\* with another code only when SIGTERM came after it was written (die, the traps).
ExitTellsResult ==
  \A r \in Runs : Ended(r) =>
    /\ run[r].result.kind # "none"
    /\ run[r].rc = 0 => run[r].result.kind \in {"final", "nothing"}
    /\ run[r].result.kind \in {"final", "nothing"} => run[r].rc \in {0, 143}

Delivers(r) == run[r].mode \in {"implement", "iterate"} /\ run[r].result.kind = "final"

\* A Result of the implementer that tells of success links a pull request that
\* exists and names a commit that the host has.  The run made that commit, unless
\* git commit failed: nothing checks for that, and the run still succeeds.
SuccessIsDelivered ==
  \A r \in Runs : Delivers(r) =>
    /\ run[r].result.pr \in DOMAIN prs
    /\ run[r].result.sha # {} /\ run[r].result.sha \subseteq published
    /\ In(r, "exiting") => run[r].refused = (run[r].sha = run[r].head)

\* What a successful run delivered stays: as long as the pull request it links is
\* open, the branch has the commit it names, whoever else pushes, merges, deletes
\* or creates the branch (git push without --force, gh pr create).  A run whose git
\* commit failed pushes what is not its own, and is left out.
DeliveredStays ==
  (\A r \in Runs : ~run[r].refused) =>
    \A r \in Runs : (Delivers(r) /\ isOpen(run[r].result.pr)) => run[r].result.sha \subseteq branch

\* The commit of a successful run does not go unnoticed: after its push a review
\* of the pull request was triggered that sees it, or the event was dropped because
\* a review was active that had fetched the diff before.  Two runs may relabel at
\* once; relabel_review removes the label first, because GitHub sends `labeled` on
\* a transition only.
ReviewFollowsPush ==
  \A r \in Runs : (Delivers(r) /\ ~run[r].unlabeled) =>
    run[r].result.sha \subseteq asked \/ run[r].result.sha \subseteq dropped

\* An iteration that is about to push has read the feedback that its commit makes
\* old: every comment on an open pull request that is newer than the last commit,
\* except those that were made while a run was at work.  A comment that a commit of
\* somebody else made old before the iteration began is not among them.
QuietFeedbackIsRead ==
  \A r \in Runs : At(r, "iterate", "push") =>
    \A n \in openPRs : {c \in quiet \cap prs[n].comments : c > date(branch)} \subseteq run[r].notes

-----------------------------------------------------------------------------
(* What documents of the repository say, and the code does not keep in     *)
(* every run.                                                              *)

\* phone-workflow.md: "A finished Task never blocks a new run. [...] The
\* implementer reuses the open PR of the issue."  So the push of a run that works
\* alone is rejected only when somebody pushed since the run looked at the branch.
RejectedOnlyByRace ==
  \A r \in Runs :
    (In(r, "push") /\ AtWork = {r} /\ ~fastForward(run[r].sha)) => branch # run[r].tip

=============================================================================
