------------------------------- MODULE GitHost -------------------------------
(***************************************************************************)
(* The GitHub repository that the reference agents work on: its base       *)
(* branch, the branch of one issue (conveyor/issue-<n>), the pull requests *)
(* that have it as their head, and what people do to them.  None of it is  *)
(* code of this repository: it is modelled from how the entrypoints under  *)
(* agents/ call git and gh.                                                *)
(*                                                                         *)
(* A commit is the set of the commits it contains, itself and its          *)
(* ancestors; a commit, a comment and a review thread are named by the     *)
(* time at which they were made, so that a commit's date is its largest    *)
(* element.  A branch that does not exist is the empty set.                *)
(***************************************************************************)
EXTENDS Naturals, FiniteSets, Sequences

CONSTANTS
  MaxTime,  \* bound: commits, comments and threads made
  People    \* what people do while agents run

ASSUME HostAssumption ==
  /\ MaxTime \in Nat \ {0}
  /\ People \subseteq {"Comment", "Commit", "Close", "Merge", "Empty"}

VARIABLES
  base,      \* the commit of the base branch; {} in an empty repository
  branch,    \* the commit of the issue's branch; {} when there is none
  prs,       \* the pull requests, in the order of their numbers
  replies,   \* replies "Addressed in <sha>" on threads: <<thread, commit>>
  now,       \* the last time given
  published  \* history: the commits the host has accepted

hostVars == <<base, branch, prs, replies, now, published>>

Time == 0..MaxTime

Commit == SUBSET Time

PullRequest ==
  [state    : {"open", "closed", "merged"},
   labels   : SUBSET {"review", "iterate"},  \* conveyor:review, conveyor:iterate
   comments : SUBSET Time,  \* comments and reviews without the implementer's marker
   threads  : SUBSET Time]  \* unresolved review threads; they stay

NewPR == [state |-> "open", labels |-> {}, comments |-> {}, threads |-> {}]

HostTypeOK ==
  /\ base \in Commit
  /\ branch \in Commit
  /\ prs \in Seq(PullRequest)
  /\ replies \subseteq Time \X Commit
  /\ now \in Time
  /\ published \in Commit

\* An empty repository, one without work on the issue, or one with a pull
\* request that an earlier run opened and labelled, with a review thread on it.
HostInit ==
  /\ \/ "Empty" \in People /\ base = {} /\ branch = {} /\ prs = <<>> /\ now = 0
     \/ base = {0} /\ branch = {} /\ prs = <<>> /\ now = 0
     \/ /\ base = {0} /\ branch = {0, 1} /\ now = 1
        /\ prs = <<[NewPR EXCEPT !.labels = {"review"}, !.threads = {1}]>>
  /\ replies = {}
  /\ published = base \cup branch

isOpen(n) == n \in DOMAIN prs /\ prs[n].state = "open"

openPRs == {n \in DOMAIN prs : isOpen(n)}

\* The date of a commit.
date(c) == CHOOSE t \in c : \A u \in c : u <= t

Tick == now < MaxTime /\ now' = now + 1

-----------------------------------------------------------------------------
(* People: reviews, commits of their own, and the end of a pull request.   *)

Comment(n) ==
  /\ "Comment" \in People /\ isOpen(n) /\ Tick
  /\ prs' = [prs EXCEPT ![n].comments = @ \cup {now'}]
  /\ UNCHANGED <<base, branch, replies, published>>

CommitToBranch(n) ==
  /\ "Commit" \in People /\ isOpen(n) /\ Tick
  /\ branch' = branch \cup {now'} /\ published' = published \cup {now'}
  /\ UNCHANGED <<base, prs, replies>>

\* The branch stays.
ClosePR(n) ==
  /\ "Close" \in People /\ isOpen(n)
  /\ prs' = [prs EXCEPT ![n].state = "closed"]
  /\ UNCHANGED <<base, branch, replies, now, published>>

\* A squash merge, with or without --delete-branch.
MergePR(n) ==
  /\ "Merge" \in People /\ isOpen(n) /\ Tick
  /\ prs' = [prs EXCEPT ![n].state = "merged"]
  /\ base' = base \cup {now'} /\ published' = published \cup {now'}
  /\ branch' \in {branch, {}}
  /\ UNCHANGED <<replies>>

PeopleStep ==
  \E n \in DOMAIN prs :
    \/ Comment(n) \/ CommitToBranch(n) \/ ClosePR(n) \/ MergePR(n)

-----------------------------------------------------------------------------
(* What a call of an agent does to the host when it succeeds.              *)

\* git push without --force: only a fast-forward, or a new branch.
fastForward(c) == branch \subseteq c

acceptPush(c) == branch' = c /\ published' = published \cup c

\* gh pr create: one open pull request for a head, and something to merge.
creatable == openPRs = {} /\ ~(branch \subseteq base)

removeLabels(n, ls) == prs' = [prs EXCEPT ![n].labels = @ \ ls]

addReviewLabel(n) == prs' = [prs EXCEPT ![n].labels = @ \cup {"review"}]

\* A `labeled` event is sent when the label was not there.
labeled(n) == "review" \notin prs[n].labels

=============================================================================
