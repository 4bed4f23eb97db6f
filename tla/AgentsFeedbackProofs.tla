------------------------ MODULE AgentsFeedbackProofs ------------------------
(***************************************************************************)
(* The two loops between the implementer and its reviewers, for any number *)
(* of runs, people's actions and faults: after a push a review is asked    *)
(* for, and an iteration that pushes has read the feedback that its commit *)
(* makes old, as far as it was given while nobody worked on the branch.    *)
(*                                                                         *)
(* Both rest on one invariant of the host and the runs, FInv.  The review  *)
(* label that a run finds on again at its last step must have been put on  *)
(* by another run after the push of this one; and the quiet comments that  *)
(* are newer than every commit of the branch must be known to every        *)
(* iteration that has read the pull request.                               *)
(***************************************************************************)
EXTENDS AgentsProofs

\* A commit that exists has a date.
HasDate(c) == c # {} => \E t \in c : \A u \in c : u <= t

Opened(ps) == {n \in DOMAIN ps : ps[n].state = "open"}

\* The commits there were at the last `labeled` event, whatever came of it.
seen == IF dropped \subseteq asked THEN asked ELSE dropped

\* The quiet comments that no commit of the branch has made old.
fresh == {c \in quiet : \A u \in branch : u < c}

\* A run that has taken the review label off knows that it is off still, or that
\* it went on again after the push of the run.
Reviewed(x, ask, ps) ==
  /\ x.pc = "relabel" /\ Works(x) /\ x.unlabeled = FALSE
       => "review" \notin ps[x.pr].labels \/ x.sha \subseteq ask
  /\ x.pc = "final" /\ Works(x) /\ x.unlabeled = FALSE => x.sha \subseteq ask
  /\ Works(x) /\ x.result.kind = "final" /\ x.unlabeled = FALSE => x.result.sha \subseteq ask

\* The steps between reading the comments and the push.
Listening == {"threads", "clone", "initial", "list", "checkout", "claude", "commit", "push"}

\* An iteration has read the comments of q on the open pull request.
Heard(x, q, ps) ==
  x.mode = "iterate" /\ x.pc \in Listening => \A n \in Opened(ps) : q \cap ps[n].comments \subseteq x.notes

Good(x, ask, q, ps) == Reviewed(x, ask, ps) /\ Heard(x, q, ps) /\ HasDate(x.head) /\ HasDate(x.sha)

\* The branch has at most one open pull request, and exists as long as there is one.
FHost ==
  /\ asked \subseteq published /\ dropped \subseteq published /\ quiet \subseteq 0..now
  /\ HasDate(base) /\ HasDate(branch)
  /\ \A m, n \in Opened(prs) : m = n
  /\ Opened(prs) # {} => branch # {}

FInv == FHost /\ \A r \in Runs : Good(run[r], seen, fresh, prs)

\* Kept folded, as EqRefused.
EqFlag(y, x) == y.unlabeled = x.unlabeled

\* The run y is x at another step; its HEAD, tip, todo and pr may differ.
Kin(y, x, step) ==
  y.pc = step /\ y.mode = x.mode /\ y.notes = x.notes /\ y.sha = x.sha /\ y.result = x.result

\* A move keeps what the comments and the Result are about.
LEMMA GotoKin ==
  ASSUME NEW x \in Run, NEW step
  PROVE  Kin(goto(x, step), x, step) /\ goto(x, step).head = x.head
BY DEF goto, Run, Kin

\* A run that is not about to end moves on.
LEMMA KinGood ==
  ASSUME NEW pub, NEW k, NEW t, NEW x, Sound(x, pub, k, t), NEW ask, NEW q, NEW ps, Good(x, ask, q, ps),
         x.pc \notin {"exiting", "exited"}, NEW step, step \notin {"relabel", "final"},
         step \in Listening /\ x.mode = "iterate" => x.pc \in Listening,
         NEW y, Kin(y, x, step), HasDate(y.head)
  PROVE  Good(y, ask, q, ps)
<1>1. y.result.kind = "none"
  BY DEF Sound, Coded, Kin
<1>2. Reviewed(y, ask, ps)
  BY <1>1 DEF Reviewed, Kin
<1>3. Heard(y, q, ps)
  BY DEF Heard, Kin, Good
<1> QED
  BY <1>2, <1>3 DEF Good, Kin

\* A run that ends has another Result, or the one it had.
LEMMA EndGood ==
  ASSUME NEW x, NEW ask, NEW q, NEW ps, Good(x, ask, q, ps),
         NEW y, y.pc \in {"exiting", "exited"}, y.mode = x.mode, HasDate(y.head), HasDate(y.sha),
         y.result.kind # "final" \/ (y.result = x.result /\ EqFlag(y, x))
  PROVE  Good(y, ask, q, ps)
<1>1. y.pc \notin Listening /\ y.pc # "relabel" /\ y.pc # "final"
  BY DEF Listening
<1>2. Works(y) = Works(x)
  BY DEF Works
<1>3. Works(y) /\ y.result.kind = "final" /\ y.unlabeled = FALSE => y.result.sha \subseteq ask
  <2>1. CASE y.result.kind # "final"
    BY <2>1
  <2>2. CASE y.result = x.result /\ EqFlag(y, x)
    BY <1>2, <2>2 DEF Good, Reviewed, EqFlag
  <2> QED
    BY <2>1, <2>2
<1> QED
  BY <1>1, <1>3 DEF Good, Reviewed, Heard

\* result_write, exit and the end of the process keep the flag.
LEMMA KeepsFlag ==
  ASSUME NEW x \in Run, NEW res, NEW code
  PROVE  EqFlag(result_write(x, res), x) /\ EqFlag(exit(x, code), x) /\ EqFlag(gone(x), x)
<1>1. EqFlag(result_write(x, res), x) /\ EqFlag(exit(x, code), x)
  BY DEF EqFlag, result_write, exit, Run
<1>2. EqFlag(gone(x), x)
  BY DEF EqFlag, gone, NewRun, Run
<1> QED
  BY <1>1, <1>2

\* die and the SIGTERM trap write a Result that does not tell of success.
LEMMA FailGood ==
  ASSUME NEW pub, NEW k, NEW t, NEW x, Sound(x, pub, k, t), NEW ask, NEW q, NEW ps, Good(x, ask, q, ps)
  PROVE  Good(die(x), ask, q, ps) /\ Good(on_term(x), ask, q, ps)
<1> DEFINE died == [kind |-> "died", pr |-> x.partial.pr, sha |-> {}]
<1>1. x \in Run /\ died \in Result /\ died.kind # "final" /\ x.partial \in Result /\ x.partial.kind # "final"
  BY DEF Sound, Run, Coded, Bad, Result, Kinds, Commit
<1> HIDE DEF died
<1>2. ASSUME NEW res \in Result, res.kind # "final", NEW code \in {1, 143}
      PROVE  Good(exit(result_write(x, res), code), ask, q, ps)
  <2> DEFINE w == result_write(x, res)
             y == exit(w, code)
  <2>1. Wrote(w, x, res)
    BY <1>1, WriteFields
  <2>2. Exits(y, w, code)
    BY <2>1, ExitFields DEF Wrote
  <2> HIDE DEF w, y
  <2>3. /\ y.pc \in {"exiting", "exited"} /\ y.mode = x.mode /\ y.head = x.head /\ y.sha = x.sha
        /\ y.result.kind # "final"
    BY <1>2, <2>1, <2>2 DEF Wrote, Exits
  <2>4. Good(y, ask, q, ps)
    BY <2>3, EndGood DEF Good
  <2> QED
    BY <2>4 DEF w, y
<1>3. Good(exit(result_write(x, died), 1), ask, q, ps) /\ Good(exit(result_write(x, x.partial), 143), ask, q, ps)
  BY <1>1, <1>2
<1> QED
  BY <1>3 DEF die, on_term, died

\* A failing command under set -e.
LEMMA ErrexitGood ==
  ASSUME NEW pub, NEW k, NEW t, NEW x, Sound(x, pub, k, t), NEW ask, NEW q, NEW ps, Good(x, ask, q, ps),
         x.pc \notin {"exiting", "exited"}
  PROVE  Good(errexit(x), ask, q, ps)
<1> DEFINE y == exit(x, 1)
<1>1. x \in Run /\ x.result.kind = "none"
  BY DEF Sound, Coded
<1>2. Exits(y, x, 1)
  BY <1>1, ExitFields
<1> HIDE DEF y
<1>3. Good(y, ask, q, ps)
  BY <1>1, <1>2, EndGood DEF Exits, Good
<1> QED
  BY <1>3 DEF errexit, y

\* The process ends: its Result stays, or is one that does not tell of success.
LEMMA GoneGood ==
  ASSUME NEW x, NEW ask, NEW q, NEW ps, Good(x, ask, q, ps),
         NEW y \in Run, y.mode = x.mode, y.result.kind # "final" \/ (y.result = x.result /\ EqFlag(y, x))
  PROVE  Good(gone(y), ask, q, ps)
<1> DEFINE z == gone(y)
<1>1. z.pc = "exited" /\ z.mode = y.mode /\ z.head = {} /\ z.sha = {} /\ z.result = y.result
  BY GoneFields
<1>2. EqFlag(y, x) => EqFlag(z, x)
  <2>1. EqFlag(z, y)
    BY KeepsFlag
  <2> QED
    BY <2>1, Zenon DEF EqFlag
<1> HIDE DEF z
<1>3. HasDate(z.head) /\ HasDate(z.sha)
  BY <1>1 DEF HasDate
<1>4. Good(z, ask, q, ps)
  BY <1>1, <1>2, <1>3, EndGood
<1> QED
  BY <1>4 DEF z

\* The EXIT trap, and SIGKILL.
LEMMA LeaveGood ==
  ASSUME NEW pub, NEW k, NEW t, NEW x, Sound(x, pub, k, t), NEW ask, NEW q, NEW ps, Good(x, ask, q, ps)
  PROVE  Good(on_exit(x), ask, q, ps) /\ Good(gone(exit(x, 137)), ask, q, ps)
<1>1. x \in Run /\ x.partial \in Result /\ x.partial.kind # "final"
  BY DEF Sound, Run, Coded, Bad
<1>2. EqFlag(x, x)
  BY Zenon DEF EqFlag
<1>3. Good(gone(x), ask, q, ps)
  BY <1>1, <1>2, GoneGood
<1>4. Good(gone(result_write(x, x.partial)), ask, q, ps)
  <2> DEFINE w == result_write(x, x.partial)
  <2>1. Wrote(w, x, x.partial)
    BY <1>1, WriteFields
  <2> HIDE DEF w
  <2>2. Good(gone(w), ask, q, ps)
    BY <1>1, <2>1, GoneGood DEF Wrote
  <2> QED
    BY <2>2 DEF w
<1>5. Good(gone(exit(x, 137)), ask, q, ps)
  <2> DEFINE y == exit(x, 137)
  <2>1. Exits(y, x, 137)
    BY <1>1, ExitFields
  <2>2. EqFlag(y, x)
    BY <1>1, KeepsFlag
  <2> HIDE DEF y
  <2>3. Good(gone(y), ask, q, ps)
    BY <2>1, <2>2, GoneGood DEF Exits
  <2> QED
    BY <2>3 DEF y
<1> QED
  BY <1>3, <1>4, <1>5 DEF on_exit

\* result_partial changes nothing of it.
LEMMA PartialGood ==
  ASSUME NEW x \in Run, NEW kind, NEW pr, NEW sha, NEW ask, NEW q, NEW ps, Good(x, ask, q, ps)
  PROVE  LET y == result_partial(x, kind, pr, sha)
         IN  Good(y, ask, q, ps) /\ y.head = x.head /\ y.notes = x.notes
<1> DEFINE y == result_partial(x, kind, pr, sha)
<1>1. /\ y.pc = x.pc /\ y.mode = x.mode /\ y.pr = x.pr /\ y.head = x.head /\ y.sha = x.sha /\ y.notes = x.notes
      /\ y.result = x.result
  BY DEF result_partial, Run
<1>2. EqFlag(y, x)
  BY DEF EqFlag, result_partial, Run
<1> HIDE DEF y
<1>3. y.unlabeled = FALSE => x.unlabeled = FALSE
  BY <1>2, Zenon DEF EqFlag
<1>4. Works(y) = Works(x)
  BY <1>1 DEF Works
<1>5. Reviewed(y, ask, ps)
  BY <1>1, <1>3, <1>4 DEF Good, Reviewed
<1>6. Good(y, ask, q, ps)
  BY <1>1, <1>5 DEF Good, Heard
<1> QED
  BY <1>1, <1>6 DEF y

\* The host after a step that may ask for a review and publish more, and that adds
\* to the fresh comments only when nobody works on the branch.
Calm ==
  /\ seen \subseteq seen'
  /\ \A n \in DOMAIN prs : "review" \in prs'[n].labels => "review" \in prs[n].labels \/ published \subseteq seen'
  /\ \/ AtWork = {}
     \/ \A n \in Opened(prs') : fresh' \cap prs'[n].comments # {} =>
          n \in Opened(prs) /\ fresh' \cap prs'[n].comments \subseteq fresh \cap prs[n].comments

\* The events and the comments stay as they are.
LEMMA SameViews ==
  /\ UNCHANGED <<asked, dropped>> => seen' = seen
  /\ UNCHANGED <<branch, quiet>> => fresh' = fresh
BY DEF seen, fresh

\* It leaves the runs as good as they were.
LEMMA CalmGood ==
  ASSUME AInv, FInv, Calm, NEW s \in Runs
  PROVE  Good(run[s], seen', fresh', prs')
<1> DEFINE x == run[s]
<1>1. /\ Sound(x, published, Len(prs), now) /\ Good(x, seen, fresh, prs) /\ prs \in Seq(PullRequest)
      /\ s \in AtWork \/ ~Works(x) \/ x.pc \in {"new", "exited"}
  BY DEF AInv, FInv, HostInv, HostTypeOK, AtWork, Works
<1> HIDE DEF x
<1>2. Reviewed(x, seen', prs')
  <2>1. seen \subseteq seen'
    BY DEF Calm
  <2>2. x.pc = "relabel" /\ Works(x) => x.pr \in DOMAIN prs /\ x.sha \subseteq published
    BY <1>1, LenProperties DEF Sound, Based, Named
  <2>3. x.pc = "relabel" /\ Works(x) /\ x.unlabeled = FALSE
          => "review" \notin prs'[x.pr].labels \/ x.sha \subseteq seen'
    BY <1>1, <2>1, <2>2 DEF Calm, Good, Reviewed
  <2> QED
    BY <1>1, <2>1, <2>3 DEF Good, Reviewed
<1>3. Heard(x, fresh', prs')
  <2> SUFFICES ASSUME x.mode = "iterate", x.pc \in Listening, NEW n \in Opened(prs')
               PROVE  fresh' \cap prs'[n].comments \subseteq x.notes
    BY DEF Heard
  <2>1. s \in AtWork
    BY <1>1 DEF Works, Listening
  <2> QED
    BY <1>1, <2>1 DEF Calm, Good, Heard
<1> QED
  BY <1>1, <1>2, <1>3 DEF Good, x

\* A step of one run.
LEMMA StepGood ==
  ASSUME AInv, FInv, Calm, FHost', NEW r \in Runs, NEW recs, become(r, recs),
         \A y \in recs : Good(y, seen', fresh', prs')
  PROVE  FInv'
<1>1. PICK y \in recs : run' = [run EXCEPT ![r] = y]
  BY DEF become
<1>2. \A s \in Runs : Good(run[s], seen', fresh', prs')
  BY CalmGood
<1>3. \A s \in Runs : run'[s] = IF s = r THEN y ELSE run[s]
  BY <1>1 DEF AInv
<1> QED
  BY <1>2, <1>3 DEF FInv

\* A step that leaves the host alone.
LEMMA LocalGood ==
  ASSUME AInv, FInv, UNCHANGED <<hostVars, reviewVars, quiet>>, NEW r \in Runs, NEW recs, become(r, recs),
         \A y \in recs : Good(y, seen, fresh, prs)
  PROVE  FInv'
<1>1. /\ UNCHANGED <<asked, dropped, quiet, prs, published, base, branch, now>>
      /\ seen' = seen /\ fresh' = fresh
  BY SameViews DEF hostVars, reviewVars
<1>2. Calm
  BY <1>1 DEF Calm
<1>3. FHost'
  BY <1>1 DEF FInv, FHost
<1> QED
  BY <1>1, <1>2, <1>3, StepGood

\* The invariants, for one run.
LEMMA RunGood ==
  ASSUME AInv, FInv, NEW r \in Runs
  PROVE  /\ run[r] \in Run /\ Sound(run[r], published, Len(prs), now) /\ Good(run[r], seen, fresh, prs)
         /\ HasDate(run[r].head)
BY DEF AInv, FInv, Good, Sound

\* Reading the issue, or the material of a review or a report.
LEMMA ReadingFed ==
  ASSUME AInv, FInv, NEW r \in Runs, ViewIssue(r) \/ FetchDiff(r) \/ Gather(r)
  PROVE  FInv'
<1> DEFINE x == run[r]
           a == result_partial(x, "started", 0, {})
           b == result_partial(x, "started", x.pr, {})
<1>1. /\ x \in Run /\ Sound(x, published, Len(prs), now) /\ Good(x, seen, fresh, prs)
      /\ x.pc = "view" /\ x.mode \in {"implement", "review", "report"}
      /\ UNCHANGED <<hostVars, reviewVars, quiet>>
  BY RunGood DEF ViewIssue, FetchDiff, Gather, At, In
<1>2. become(r, {die(x), goto(a, "clone"), errexit(b), goto(b, "claude"), goto(x, "claude")})
  BY DEF ViewIssue, FetchDiff, Gather, become
<1> HIDE DEF x
<1>3. /\ Len(prs) \in Nat /\ x.pr \in Nat /\ 0 \in Nat
  BY <1>1, LenProperties DEF Run, AInv, HostInv, HostTypeOK
<1>4. /\ Sound(a, published, Len(prs), now) /\ Alike(a, x) /\ a \in Run
      /\ Sound(b, published, Len(prs), now) /\ Alike(b, x) /\ b \in Run
  BY <1>1, <1>3, StartedSound DEF Sound
<1>5. /\ Good(a, seen, fresh, prs) /\ Good(b, seen, fresh, prs)
  BY <1>1, PartialGood
<1> HIDE DEF a, b
<1>6. Good(goto(a, "clone"), seen, fresh, prs)
  <2>1. Kin(goto(a, "clone"), a, "clone") /\ goto(a, "clone").head = a.head
    BY <1>4, GotoKin
  <2>2. "clone" \notin {"relabel", "final"} /\ a.mode # "iterate" /\ a.pc \notin {"exiting", "exited"} /\ HasDate(a.head)
    BY <1>1, <1>4, <1>5 DEF Alike, Good
  <2> QED
    BY <1>4, <1>5, <2>1, <2>2, KinGood
<1>7. ASSUME NEW z \in {b, x}
      PROVE  Good(goto(z, "claude"), seen, fresh, prs)
  <2>1. /\ z \in Run /\ Sound(z, published, Len(prs), now) /\ Good(z, seen, fresh, prs)
        /\ z.pc = "view" /\ z.mode # "iterate" /\ HasDate(z.head)
    BY <1>1, <1>4, <1>5, <1>7 DEF Alike, Good
  <2>2. Kin(goto(z, "claude"), z, "claude") /\ goto(z, "claude").head = z.head
    BY <2>1, GotoKin
  <2>3. "claude" \notin {"relabel", "final"} /\ z.pc \notin {"exiting", "exited"}
    BY <2>1
  <2> QED
    BY <2>1, <2>2, <2>3, KinGood
<1>8. Good(errexit(b), seen, fresh, prs)
  <2>1. b.pc \notin {"exiting", "exited"}
    BY <1>1, <1>4 DEF Alike
  <2> QED
    BY <1>4, <1>5, <2>1, ErrexitGood
<1>9. Good(die(x), seen, fresh, prs)
  BY <1>1, FailGood
<1> QED
  BY <1>1, <1>2, <1>6, <1>7, <1>8, <1>9, LocalGood

\* A move to any step but the last two of the relabelling.
LEMMA GotoGood ==
  ASSUME NEW pub, NEW k, NEW t, NEW x, Sound(x, pub, k, t), NEW ask, NEW q, NEW ps, Good(x, ask, q, ps),
         x.pc \notin {"exiting", "exited"}, NEW step, step \notin {"relabel", "final"},
         step \in Listening /\ x.mode = "iterate" => x.pc \in Listening, NEW s
  PROVE  /\ Good(goto(x, step), ask, q, ps)
         /\ Good([goto(x, step) EXCEPT !.todo = s], ask, q, ps)
         /\ Good([goto(x, step) EXCEPT !.tip = s], ask, q, ps)
         /\ Good([goto(x, step) EXCEPT !.pr = s], ask, q, ps)
         /\ HasDate(s) => /\ Good([goto(x, step) EXCEPT !.head = s], ask, q, ps)
                          /\ Good([goto(x, step) EXCEPT !.head = s, !.tip = s], ask, q, ps)
<1>1. x \in Run /\ HasDate(x.head)
  BY DEF Sound, Good
<1>2. ASSUME NEW y, Kin(y, x, step), HasDate(y.head)
      PROVE  Good(y, ask, q, ps)
  BY <1>2, KinGood
<1>3. Good(goto(x, step), ask, q, ps)
  BY <1>1, <1>2, GotoKin
<1>4. Good([goto(x, step) EXCEPT !.todo = s], ask, q, ps)
  <2> DEFINE y == [goto(x, step) EXCEPT !.todo = s]
  <2>1. Kin(y, x, step) /\ y.head = x.head
    BY <1>1 DEF goto, Run, Kin
  <2> HIDE DEF y
  <2>2. Good(y, ask, q, ps)
    BY <1>1, <1>2, <2>1
  <2> QED
    BY <2>2 DEF y
<1>5. Good([goto(x, step) EXCEPT !.tip = s], ask, q, ps)
  <2> DEFINE y == [goto(x, step) EXCEPT !.tip = s]
  <2>1. Kin(y, x, step) /\ y.head = x.head
    BY <1>1 DEF goto, Run, Kin
  <2> HIDE DEF y
  <2>2. Good(y, ask, q, ps)
    BY <1>1, <1>2, <2>1
  <2> QED
    BY <2>2 DEF y
<1>6. Good([goto(x, step) EXCEPT !.pr = s], ask, q, ps)
  <2> DEFINE y == [goto(x, step) EXCEPT !.pr = s]
  <2>1. Kin(y, x, step) /\ y.head = x.head
    BY <1>1 DEF goto, Run, Kin
  <2> HIDE DEF y
  <2>2. Good(y, ask, q, ps)
    BY <1>1, <1>2, <2>1
  <2> QED
    BY <2>2 DEF y
<1>7. HasDate(s) => Good([goto(x, step) EXCEPT !.head = s], ask, q, ps)
  <2> DEFINE y == [goto(x, step) EXCEPT !.head = s]
  <2>1. Kin(y, x, step) /\ y.head = s
    BY <1>1 DEF goto, Run, Kin
  <2> HIDE DEF y
  <2>2. HasDate(s) => Good(y, ask, q, ps)
    BY <1>1, <1>2, <2>1
  <2> QED
    BY <2>2 DEF y
<1>8. HasDate(s) => Good([goto(x, step) EXCEPT !.head = s, !.tip = s], ask, q, ps)
  <2> DEFINE y == [goto(x, step) EXCEPT !.head = s, !.tip = s]
  <2>1. Kin(y, x, step) /\ y.head = s
    BY <1>1 DEF goto, Run, Kin
  <2> HIDE DEF y
  <2>2. HasDate(s) => Good(y, ask, q, ps)
    BY <1>1, <1>2, <2>1
  <2> QED
    BY <2>2 DEF y
<1> QED
  BY <1>3, <1>4, <1>5, <1>6, <1>7, <1>8

\* iterate reads the pull request: the fresh comments are newer than the last
\* commit, so they are among the ones it takes.
LEMMA ViewPRFed ==
  ASSUME AInv, FInv, NEW r \in Runs, ViewPR(r)
  PROVE  FInv'
<1> DEFINE x == run[r]
           s == result_partial(x, "started", x.pr, {})
           c == newComments(x.pr)
           y == [goto(s, "threads") EXCEPT !.notes = c]
<1>1. /\ x \in Run /\ Sound(x, published, Len(prs), now) /\ Good(x, seen, fresh, prs)
      /\ x.pc = "view" /\ UNCHANGED <<hostVars, reviewVars, quiet>>
  BY RunGood DEF ViewPR, At, In
<1>2. become(r, {die(x)}) \/ become(r, {die(s)}) \/ (isOpen(x.pr) /\ become(r, {y}))
  BY DEF ViewPR
<1> HIDE DEF x, c
<1>3. /\ Len(prs) \in Nat /\ x.pr \in Nat
  BY <1>1, LenProperties DEF Run, AInv, HostInv, HostTypeOK
<1>4. Sound(s, published, Len(prs), now) /\ s \in Run /\ s.pc = "view"
  <2>1. Sound(s, published, Len(prs), now) /\ Alike(s, x)
    BY <1>1, <1>3, StartedSound
  <2> QED
    BY <1>1, <2>1 DEF Sound, Alike
<1>5. Good(s, seen, fresh, prs)
  BY <1>1, PartialGood
<1> HIDE DEF s
<1>6. Good(die(x), seen, fresh, prs) /\ Good(die(s), seen, fresh, prs)
  BY <1>1, <1>4, <1>5, FailGood
<1>7. ASSUME isOpen(x.pr)
      PROVE  Good(y, seen, fresh, prs)
  <2>1. y.pc = "threads" /\ y.mode = s.mode /\ y.notes = c /\ y.head = s.head /\ y.sha = s.sha /\ y.result = s.result
    BY <1>4 DEF goto, Run
  <2> HIDE DEF y
  <2>2. y.result.kind = "none"
    BY <1>4, <2>1 DEF Sound, Coded
  <2>3. ASSUME NEW n \in Opened(prs)
        PROVE  fresh \cap prs[n].comments \subseteq c
    <3>1. n = x.pr /\ branch # {}
      BY <1>7, <2>3 DEF FInv, FHost, Opened, isOpen
    <3>2. date(branch) \in branch
      BY <3>1 DEF FInv, FHost, HasDate, date
    <3>3. \A d \in fresh \cap prs[n].comments : date(branch) < d
      BY <3>2 DEF fresh
    <3> QED
      BY <3>1, <3>3 DEF c, newComments
  <2> QED
    BY <1>5, <2>1, <2>2, <2>3 DEF Good, Reviewed, Heard
<1> HIDE DEF y
<1> QED
  BY <1>1, <1>2, <1>6, <1>7, LocalGood

\* The threads, clone_repo, the look for a pull request, and the checkout.
LEMMA FetchingFed ==
  ASSUME AInv, FInv, NEW r \in Runs, Threads(r) \/ Clone(r) \/ List(r) \/ Checkout(r)
  PROVE  FInv'
<1> DEFINE x == run[r]
           G(y) == Good(y, seen, fresh, prs)
<1>1. /\ x \in Run /\ Sound(x, published, Len(prs), now) /\ G(x)
      /\ x.pc \in {"threads", "clone", "list", "checkout"} /\ UNCHANGED <<hostVars, reviewVars, quiet>>
  BY RunGood DEF Threads, Clone, List, Checkout, In
<1>2. x.pc \in Listening /\ x.pc \notin {"exiting", "exited"}
  BY <1>1 DEF Listening
<1>3. HasDate(base) /\ HasDate(branch)
  BY DEF FInv, FHost
<1>4. G(die(x)) /\ G(errexit(x))
  BY <1>1, <1>2, FailGood, ErrexitGood
<1>5. CASE Threads(r)
  <2> DEFINE s == prs[x.pr].threads
  <2>1. become(r, {die(x), goto(x, "nothing"), [goto(x, "clone") EXCEPT !.todo = s]})
    BY <1>5 DEF Threads, become
  <2> HIDE DEF x, s
  <2>2. G(goto(x, "nothing"))
    BY <1>1, <1>2, GotoGood
  <2>3. G([goto(x, "clone") EXCEPT !.todo = s])
    BY <1>1, <1>2, GotoGood
  <2> QED
    BY <1>1, <1>4, <2>1, <2>2, <2>3, LocalGood
<1>6. CASE Clone(r)
  <2>1. become(r, {die(x), errexit(x), goto(x, "initial"), [goto(x, "list") EXCEPT !.head = base],
                   [goto(x, "checkout") EXCEPT !.head = base]})
    BY <1>6 DEF Clone, become
  <2> HIDE DEF x
  <2>2. G(goto(x, "initial"))
    BY <1>1, <1>2, GotoGood
  <2>3. G([goto(x, "list") EXCEPT !.head = base])
    BY <1>1, <1>2, <1>3, GotoGood
  <2>4. G([goto(x, "checkout") EXCEPT !.head = base])
    BY <1>1, <1>2, <1>3, GotoGood
  <2> QED
    BY <1>1, <1>4, <2>1, <2>2, <2>3, <2>4, LocalGood
<1>7. CASE List(r)
  <2>1. \E n : become(r, {die(x), [goto(x, "claude") EXCEPT !.tip = branch], [goto(x, "checkout") EXCEPT !.pr = n]})
    BY <1>7 DEF List, become
  <2> HIDE DEF x
  <2>2. G([goto(x, "claude") EXCEPT !.tip = branch])
    BY <1>1, <1>2, GotoGood
  <2>3. \A n : G([goto(x, "checkout") EXCEPT !.pr = n])
    BY <1>1, <1>2, GotoGood
  <2> QED
    BY <1>1, <1>4, <2>1, <2>2, <2>3, LocalGood
<1>8. CASE Checkout(r)
  <2>1. become(r, {die(x), [goto(x, "claude") EXCEPT !.head = branch, !.tip = branch]})
    BY <1>8 DEF Checkout, become
  <2> HIDE DEF x
  <2>2. G([goto(x, "claude") EXCEPT !.head = branch, !.tip = branch])
    BY <1>1, <1>2, <1>3, GotoGood
  <2> QED
    BY <1>1, <1>4, <2>1, <2>2, LocalGood
<1> QED
  BY <1>5, <1>6, <1>7, <1>8

\* claude and what follows the push.
LEMMA WorkingFed ==
  ASSUME AInv, FInv, NEW r \in Runs, Claude(r) \/ Compose(r) \/ Pushed(r)
  PROVE  FInv'
<1> DEFINE x == run[r]
           G(y) == Good(y, seen, fresh, prs)
<1>1. /\ x \in Run /\ Sound(x, published, Len(prs), now) /\ G(x)
      /\ x.pc \in {"claude", "pushed"} /\ UNCHANGED <<hostVars, reviewVars, quiet>>
  BY RunGood DEF Claude, Compose, Pushed, In
<1>2. x.pc \notin {"exiting", "exited"}
  BY <1>1
<1>3. G(die(x)) /\ G(errexit(x))
  BY <1>1, <1>2, FailGood, ErrexitGood
<1>4. CASE Claude(r)
  <2> DEFINE out == {[goto(x, "commit") EXCEPT !.todo = s] : s \in SUBSET x.todo}
  <2>1. x.pc \in Listening
    BY <1>4 DEF Claude, In, Listening
  <2>2. become(r, {die(x)}) \/ become(r, out)
    BY <1>4 DEF Claude
  <2> HIDE DEF x
  <2>3. \A s : G([goto(x, "commit") EXCEPT !.todo = s])
    BY <1>1, <1>2, <2>1, GotoGood
  <2>4. \A y \in out : G(y)
    BY <2>3
  <2> HIDE DEF out
  <2> QED
    BY <1>1, <1>3, <2>2, <2>4, LocalGood
<1>5. CASE Compose(r)
  <2>1. become(r, {errexit(x), die(x), goto(x, "post")})
    BY <1>5 DEF Compose
  <2> HIDE DEF x
  <2>2. G(goto(x, "post"))
    BY <1>1, <1>2, GotoGood DEF Listening
  <2> QED
    BY <1>1, <1>3, <2>1, <2>2, LocalGood
<1>6. CASE Pushed(r)
  <2> DEFINE p == result_partial(x, "pushed", x.pr, x.sha)
  <2>1. \E step \in {"reply", "create", "unlabel"} : become(r, {goto(p, step)})
    BY <1>6 DEF Pushed
  <2>2. Sound(p, published, Len(prs), now) /\ Alike(p, x)
    <3>1. x.pr \in Nat /\ x.sha \in Commit /\ x.sha \subseteq published /\ Len(prs) \in Nat
      BY <1>1, <1>6, LenProperties DEF Run, Pushed, In, Sound, Named, AInv, HostInv, HostTypeOK
    <3> HIDE DEF x
    <3> QED
      BY <1>1, <3>1, PushedSound
  <2>3. G(p)
    BY <1>1, PartialGood
  <2> HIDE DEF p
  <2>4. p.pc \notin {"exiting", "exited"}
    BY <1>2, <2>2 DEF Alike
  <2>5. \A step \in {"reply", "create", "unlabel"} : G(goto(p, step))
    BY <2>2, <2>3, <2>4, GotoGood DEF Listening
  <2> QED
    BY <1>1, <2>1, <2>5, LocalGood
<1> QED
  BY <1>4, <1>5, <1>6

\* The runs that push nothing get to their last step.
LEMMA IdleGood ==
  ASSUME NEW pub, NEW k, NEW t, NEW x, Sound(x, pub, k, t), NEW ask, NEW q, NEW ps, Good(x, ask, q, ps),
         ~Works(x)
  PROVE  Good(goto(x, "final"), ask, q, ps)
<1> DEFINE y == goto(x, "final")
<1>1. Kin(y, x, "final") /\ y.head = x.head
  BY GotoKin DEF Sound
<1> HIDE DEF y
<1>2. ~Works(y) /\ y.pc \notin Listening
  BY <1>1 DEF Works, Kin, Listening
<1>3. Good(y, ask, q, ps)
  BY <1>1, <1>2 DEF Good, Reviewed, Heard, Kin
<1> QED
  BY <1>3 DEF y

\* The answer, the report, and the ends of a run.
LEMMA EndingFed ==
  ASSUME AInv, FInv, NEW r \in Runs,
         Answer(r) \/ PostReport(r) \/ Final(r) \/ OnExit(r) \/ Terminate(r) \/ Kill(r)
  PROVE  FInv'
<1> DEFINE x == run[r]
           G(y) == Good(y, seen, fresh, prs)
           res == [kind |-> "final", pr |-> x.pr, sha |-> x.sha]
<1>1. /\ x \in Run /\ Sound(x, published, Len(prs), now) /\ G(x) /\ UNCHANGED <<hostVars, reviewVars, quiet>>
  BY RunGood DEF Answer, PostReport, Final, OnExit, Terminate, Kill
<1>2. G(die(x)) /\ G(on_term(x)) /\ G(on_exit(x)) /\ G(gone(exit(x, 137)))
  BY <1>1, FailGood, LeaveGood
<1>3. CASE Answer(r) \/ PostReport(r)
  <2>1. become(r, {die(x), errexit(x), goto(x, "final")})
    BY <1>3 DEF Answer, PostReport, become
  <2>2. ~Works(x) /\ x.pc \notin {"exiting", "exited"}
    BY <1>3 DEF Answer, PostReport, At, In, Works
  <2>3. G(errexit(x)) /\ G(goto(x, "final"))
    BY <1>1, <2>2, ErrexitGood, IdleGood
  <2> QED
    BY <1>1, <1>2, <2>1, <2>3, LocalGood
<1>4. CASE Final(r)
  <2> DEFINE w == result_write(x, res)
             y == exit(w, 0)
  <2>1. become(r, {y}) /\ x.pc = "final"
    BY <1>4 DEF Final, In
  <2> HIDE DEF x
  <2>2. res \in Result /\ res.sha = x.sha
    BY <1>1 DEF Run, Result, Kinds
  <2> HIDE DEF res
  <2>3. Wrote(w, x, res) /\ EqFlag(w, x)
    BY <1>1, <2>2, WriteFields, KeepsFlag
  <2>4. Exits(y, w, 0) /\ EqFlag(y, w)
    BY <2>3, ExitFields, KeepsFlag DEF Wrote
  <2> HIDE DEF w, y
  <2>5. /\ y.pc = "exiting" /\ y.mode = x.mode /\ y.head = x.head /\ y.sha = x.sha /\ y.result = res
    BY <2>3, <2>4 DEF Wrote, Exits
  <2>6. y.unlabeled = FALSE => x.unlabeled = FALSE
    BY <2>3, <2>4, Zenon DEF EqFlag
  <2>7. Works(y) = Works(x) /\ y.pc \notin Listening
    BY <2>5 DEF Works, Listening
  <2>8. Works(y) /\ y.unlabeled = FALSE => res.sha \subseteq seen
    BY <1>1, <2>1, <2>2, <2>6, <2>7 DEF Good, Reviewed
  <2>9. G(y)
    BY <1>1, <2>5, <2>7, <2>8 DEF Good, Reviewed, Heard
  <2> QED
    BY <1>1, <2>1, <2>9, LocalGood
<1>5. CASE OnExit(r) \/ Terminate(r) \/ Kill(r)
  <2>1. become(r, {on_exit(x), on_term(x), gone(exit(x, 137))})
    BY <1>5 DEF OnExit, Terminate, Kill, become
  <2> QED
    BY <1>1, <1>2, <2>1, LocalGood
<1> QED
  BY <1>3, <1>4, <1>5

\* The pull requests after a step that changes none but their labels.
SamePRs ==
  /\ DOMAIN prs' = DOMAIN prs
  /\ \A n \in DOMAIN prs : prs'[n].state = prs[n].state /\ prs'[n].comments = prs[n].comments

\* Labels come and go.
LEMMA LabelsEdited ==
  ASSUME HostTypeOK, NEW n, NEW ls,
         \/ prs' = [prs EXCEPT ![n].labels = @ \ ls]
         \/ prs' = [prs EXCEPT ![n].labels = @ \cup ls]
         \/ prs' = prs
  PROVE  /\ SamePRs
         /\ "review" \notin ls => \A m \in DOMAIN prs : "review" \in prs'[m].labels => "review" \in prs[m].labels
         /\ \A m \in DOMAIN prs : m # n => prs'[m].labels = prs[m].labels
<1>1. \A m \in DOMAIN prs : prs[m] \in PullRequest
  BY LenProperties, ElementOfSeq DEF HostTypeOK
<1>2. CASE prs' = prs
  BY <1>2 DEF SamePRs
<1>3. ASSUME NEW v, prs' = [prs EXCEPT ![n].labels = v],
             n \in DOMAIN prs => v = prs[n].labels \ ls \/ v = prs[n].labels \cup ls
      PROVE  /\ SamePRs
             /\ "review" \notin ls => \A m \in DOMAIN prs : "review" \in prs'[m].labels => "review" \in prs[m].labels
             /\ \A m \in DOMAIN prs : m # n => prs'[m].labels = prs[m].labels
  <2>1. DOMAIN prs' = DOMAIN prs
    BY <1>3
  <2>2. \A m \in DOMAIN prs : m # n => prs'[m] = prs[m]
    BY <1>3
  <2>3. n \in DOMAIN prs => prs'[n] = [prs[n] EXCEPT !.labels = v]
    BY <1>3
  <2>4. n \in DOMAIN prs => /\ prs'[n].state = prs[n].state /\ prs'[n].comments = prs[n].comments
                            /\ prs'[n].labels = v
    <3> SUFFICES ASSUME n \in DOMAIN prs, NEW p \in PullRequest, p = prs[n], prs'[n] = [p EXCEPT !.labels = v]
                 PROVE  prs'[n].state = p.state /\ prs'[n].comments = p.comments /\ prs'[n].labels = v
      BY <1>1, <2>3
    <3> QED
      BY DEF PullRequest
  <2>5. SamePRs
    BY <2>1, <2>2, <2>4 DEF SamePRs
  <2> QED
    BY <1>3, <2>2, <2>4, <2>5
<1>4. CASE prs' = [prs EXCEPT ![n].labels = @ \ ls]
  BY <1>3, <1>4
<1>5. CASE prs' = [prs EXCEPT ![n].labels = @ \cup ls]
  BY <1>3, <1>5
<1> QED
  BY <1>2, <1>4, <1>5

\* A label that is removed is gone.
LEMMA LabelRemoved ==
  ASSUME HostTypeOK, NEW n \in DOMAIN prs, NEW ls, prs' = [prs EXCEPT ![n].labels = @ \ ls], "review" \in ls
  PROVE  "review" \notin prs'[n].labels
<1>1. prs[n] \in PullRequest
  BY LenProperties, ElementOfSeq DEF HostTypeOK
<1>2. prs'[n] = [prs[n] EXCEPT !.labels = @ \ ls]
  OBVIOUS
<1>3. prs'[n].labels = prs[n].labels \ ls
  BY <1>1, <1>2 DEF PullRequest
<1> QED
  BY <1>3

\* The branches, the comments and the states of the pull requests stay.
LEMMA SameHost ==
  ASSUME FInv, SamePRs, asked' \subseteq published', dropped' \subseteq published', UNCHANGED <<branch, quiet>>,
         HasDate(base'),
         now \in Nat, now' \in Nat, now <= now'
  PROVE  /\ FHost' /\ Opened(prs') = Opened(prs)
         /\ \A n \in Opened(prs') : fresh' \cap prs'[n].comments = fresh \cap prs[n].comments
<1>1. /\ Opened(prs') = Opened(prs)
      /\ \A n \in Opened(prs') : fresh' \cap prs'[n].comments = fresh \cap prs[n].comments
  BY SameViews DEF Opened, SamePRs
<1>2. quiet' \subseteq 0..now'
  BY DEF FInv, FHost
<1>3. /\ \A m, n \in Opened(prs') : m = n
      /\ Opened(prs') # {} => branch' # {}
  BY <1>1 DEF FInv, FHost
<1> QED
  BY <1>1, <1>2, <1>3 DEF FInv, FHost

\* A label, or the API, starts a run.
LEMMA StartFed ==
  ASSUME AInv, FInv, NEW r \in Runs, NEW m \in Modes, NEW n \in {0} \cup DOMAIN prs, Start(r, m, n)
  PROVE  FInv'
<1> DEFINE x == run[r]
           y == [x EXCEPT !.pc = "view", !.mode = m, !.pr = n]
           ls == {"iterate"}
<1>1. /\ x \in Run /\ Sound(x, published, Len(prs), now) /\ x.pc = "new"
      /\ UNCHANGED <<base, branch, replies, now, published, asked, dropped, quiet>>
  BY RunGood DEF Start, In
<1>2. become(r, {y})
  BY DEF Start, become, AInv
<1>3. prs' = [prs EXCEPT ![n].labels = @ \cup ls] \/ prs' = prs
  BY DEF Start
<1>4. HostTypeOK /\ "review" \notin ls /\ now \in Nat /\ now <= now
  BY KeptTypes DEF Time
<1> HIDE DEF ls, x
<1>5. SamePRs /\ \A k \in DOMAIN prs : "review" \in prs'[k].labels => "review" \in prs[k].labels
  BY <1>3, <1>4, LabelsEdited
<1>6. /\ FHost' /\ Opened(prs') = Opened(prs)
      /\ \A k \in Opened(prs') : fresh' \cap prs'[k].comments = fresh \cap prs[k].comments
  BY <1>1, <1>4, <1>5, SameHost DEF FInv, FHost
<1>7. Calm
  BY <1>1, <1>5, <1>6, SameViews DEF Calm
<1>8. Good(y, seen', fresh', prs')
  <2>1. y.pc = "view" /\ y.head = x.head /\ y.sha = x.sha /\ y.result = x.result
    BY <1>1 DEF Run
  <2> HIDE DEF y
  <2>2. y.result.kind # "final" /\ y.pc \notin Listening
    BY <1>1, <2>1 DEF Sound, Coded, Listening
  <2>3. HasDate(x.head) /\ HasDate(x.sha)
    BY DEF FInv, Good, x
  <2> QED
    BY <2>1, <2>2, <2>3 DEF Good, Reviewed, Heard
<1> HIDE DEF y
<1> QED
  BY <1>2, <1>6, <1>7, <1>8, StepGood

\* Nothing to address.
LEMMA NothingFed ==
  ASSUME AInv, FInv, NEW r \in Runs, Nothing(r)
  PROVE  FInv'
<1> DEFINE x == run[r]
           ls == {"iterate"}
           res == [kind |-> "nothing", pr |-> x.pr, sha |-> {}]
           w == result_write(x, res)
           y == exit(w, 0)
<1>1. /\ x \in Run /\ UNCHANGED <<base, branch, replies, now, published, asked, dropped, quiet>> /\ become(r, {y})
      /\ prs' = [prs EXCEPT ![x.pr].labels = @ \ ls] \/ prs' = prs
  BY RunGood DEF Nothing, removeLabels, reviewVars
<1>2. HostTypeOK /\ "review" \notin ls /\ now \in Nat /\ now <= now
  BY KeptTypes DEF Time
<1> HIDE DEF ls
<1>3. SamePRs /\ \A k \in DOMAIN prs : "review" \in prs'[k].labels => "review" \in prs[k].labels
  BY <1>1, <1>2, LabelsEdited
<1>4. /\ FHost' /\ Opened(prs') = Opened(prs)
      /\ \A k \in Opened(prs') : fresh' \cap prs'[k].comments = fresh \cap prs[k].comments
  BY <1>1, <1>2, <1>3, SameHost DEF FInv, FHost
<1>5. Calm
  BY <1>1, <1>3, <1>4, SameViews DEF Calm
<1>6. Good(x, seen', fresh', prs')
  BY <1>5, CalmGood
<1> HIDE DEF x
<1>7. Good(y, seen', fresh', prs')
  <2>1. res \in Result /\ res.kind # "final"
    BY <1>1 DEF Run, Result, Kinds, Commit
  <2> HIDE DEF res
  <2>2. Wrote(w, x, res)
    BY <1>1, <2>1, WriteFields
  <2>3. Exits(y, w, 0)
    BY <2>2, ExitFields DEF Wrote
  <2> HIDE DEF w, y
  <2>4. y.pc = "exiting" /\ y.mode = x.mode /\ y.head = x.head /\ y.sha = x.sha /\ y.result.kind # "final"
    BY <2>1, <2>2, <2>3 DEF Wrote, Exits
  <2> QED
    BY <1>6, <2>4, EndGood DEF Good
<1> HIDE DEF y
<1> QED
  BY <1>1, <1>4, <1>5, <1>7, StepGood

\* The fields of a run that goes on with its flag set.
LEMMA FlagKin ==
  ASSUME NEW x \in Run, NEW step, NEW b \in BOOLEAN
  PROVE  LET y == [goto(x, step) EXCEPT !.unlabeled = b]
         IN  /\ Kin(y, x, step) /\ y.head = x.head /\ y.pr = x.pr /\ y.unlabeled = b
             /\ EqFlag(goto(x, step), x)
<1> DEFINE y == [goto(x, step) EXCEPT !.unlabeled = b]
<1>1. Kin(y, x, step) /\ y.head = x.head /\ y.pr = x.pr
  BY DEF goto, Run, Kin
<1>2. y.unlabeled = b
  BY DEF goto, Run
<1>3. EqFlag(goto(x, step), x)
  BY DEF goto, Run, EqFlag
<1> QED
  BY <1>1, <1>2, <1>3

\* The labels are removed: the review label is off, or the run has noted that it
\* may not be.
LEMMA UnlabelFed ==
  ASSUME AInv, FInv, NEW r \in Runs, Unlabel(r)
  PROVE  FInv'
<1> DEFINE x == run[r]
           y(b) == [goto(x, "relabel") EXCEPT !.unlabeled = b]
<1>1. /\ x \in Run /\ Sound(x, published, Len(prs), now) /\ x.pc = "unlabel"
      /\ UNCHANGED <<base, branch, replies, now, published, asked, dropped, quiet>>
  BY RunGood DEF Unlabel, In, reviewVars
<1>2. PICK ls \in SUBSET {"review", "iterate"} :
        removeLabels(x.pr, ls) /\ become(r, {y("review" \notin ls)})
  BY DEF Unlabel
<1>3. prs' = [prs EXCEPT ![x.pr].labels = @ \ ls]
  BY <1>2 DEF removeLabels
<1>4. HostTypeOK /\ now \in Nat /\ now <= now
  BY KeptTypes DEF Time
<1>5. SamePRs /\ \A k \in DOMAIN prs : "review" \in prs'[k].labels => "review" \in prs[k].labels
  <2> HIDE DEF x
  <2>1. SamePRs /\ \A k \in DOMAIN prs : k # x.pr => prs'[k].labels = prs[k].labels
    BY <1>3, <1>4, LabelsEdited
  <2>2. x.pr \in DOMAIN prs /\ "review" \in prs'[x.pr].labels => "review" \in prs[x.pr].labels
    BY <1>3, <1>4, LabelsEdited, LabelRemoved
  <2> QED
    BY <2>1, <2>2
<1>6. /\ FHost' /\ Opened(prs') = Opened(prs)
      /\ \A k \in Opened(prs') : fresh' \cap prs'[k].comments = fresh \cap prs[k].comments
  BY <1>1, <1>4, <1>5, SameHost DEF FInv, FHost
<1>7. Calm
  BY <1>1, <1>5, <1>6, SameViews DEF Calm
<1>8. Good(x, seen', fresh', prs')
  BY <1>7, CalmGood
<1> HIDE DEF x
<1>9. Good(y("review" \notin ls), seen', fresh', prs')
  <2> DEFINE b == "review" \notin ls
             z == y(b)
  <2>1. b \in BOOLEAN
    BY Zenon
  <2>2. b = FALSE => "review" \in ls
    BY Zenon
  <2> HIDE DEF b
  <2>3. Kin(z, x, "relabel") /\ z.head = x.head /\ z.pr = x.pr
    <3>1. x \in Run
      BY <1>1
    <3> QED
      BY <2>1, <3>1, FlagKin
  <2>4. z.unlabeled = b
    BY <1>1, <2>1, FlagKin
  <2> HIDE DEF z
  <2>5. z.unlabeled = FALSE => "review" \in ls
    BY <2>2, <2>4, Zenon
  <2>6. Works(z) => x.pr \in DOMAIN prs
    <3>1. x.pr \in 0..Len(prs) /\ (Works(x) => x.pr # 0)
      BY <1>1 DEF Sound, Based
    <3>2. Len(prs) \in Nat /\ DOMAIN prs = 1..Len(prs)
      BY <1>4, LenProperties DEF HostTypeOK
    <3>3. Works(z) => Works(x)
      BY <2>3 DEF Works, Kin
    <3> QED
      BY <3>1, <3>2, <3>3
  <2>7. Works(z) /\ z.unlabeled = FALSE => "review" \notin prs'[z.pr].labels
    BY <1>3, <1>4, <2>3, <2>5, <2>6, LabelRemoved
  <2>8. z.result.kind # "final" /\ z.pc = "relabel" /\ z.pc \notin Listening
    BY <1>1, <2>3 DEF Sound, Coded, Kin, Listening
  <2>9. Good(z, seen', fresh', prs')
    BY <1>8, <2>3, <2>7, <2>8 DEF Good, Reviewed, Heard, Kin
  <2> QED
    BY <2>9 DEF z, b
<1> DEFINE z == y("review" \notin ls)
<1>10. become(r, {z}) /\ Good(z, seen', fresh', prs')
  BY <1>2, <1>9
<1> HIDE DEF z
<1> QED
  BY <1>6, <1>7, <1>10, StepGood

\* A `labeled` event comes after all that is published.
LEMMA EventSeen ==
  ASSUME FInv, NEW n, onReviewLabel(n), UNCHANGED published
  PROVE  /\ asked' \subseteq published' /\ dropped' \subseteq published'
         /\ seen' = IF labeled(n) THEN published ELSE seen
<1>1. asked \subseteq published /\ dropped \subseteq published
  BY DEF FInv, FHost
<1>2. CASE ~labeled(n)
  BY <1>1, <1>2, SameViews DEF onReviewLabel, reviewVars
<1>3. CASE labeled(n)
  <2>1. \/ asked' = published /\ dropped' = dropped
        \/ asked' = asked /\ dropped' = published
    BY <1>3 DEF onReviewLabel
  <2> QED
    BY <1>1, <1>3, <2>1 DEF seen
<1> QED
  BY <1>2, <1>3

\* The review label goes on: if it was off, the event comes after all that is
\* published; if it was on, another run has put it on since this one took it off.
LEMMA RelabelFed ==
  ASSUME AInv, FInv, NEW r \in Runs, Relabel(r)
  PROVE  FInv'
<1> DEFINE x == run[r]
           ls == {"review"}
           y == goto(x, "final")
           z == [goto(x, "final") EXCEPT !.unlabeled = TRUE]
<1>1. /\ x \in Run /\ Sound(x, published, Len(prs), now) /\ Good(x, seen, fresh, prs) /\ x.pc = "relabel"
      /\ UNCHANGED <<base, branch, replies, now, published, quiet>>
  BY RunGood DEF Relabel, In
<1>2. \/ /\ prs' = [prs EXCEPT ![x.pr].labels = @ \cup ls] /\ become(r, {y})
         /\ seen' = IF "review" \in prs[x.pr].labels THEN seen ELSE published
      \/ prs' = prs /\ seen' = seen /\ become(r, {z})
  BY <1>1, EventSeen, SameViews DEF Relabel, addReviewLabel, labeled, reviewVars
<1>3. HostTypeOK /\ now \in Nat /\ now <= now /\ seen \subseteq published
  BY KeptTypes DEF Time, FInv, FHost, seen
<1> HIDE DEF x, ls
<1>4. SamePRs /\ \A k \in DOMAIN prs : k # x.pr => prs'[k].labels = prs[k].labels
  BY <1>2, <1>3, LabelsEdited
<1>5. seen \subseteq seen' /\ asked' \subseteq published' /\ dropped' \subseteq published'
  <2>1. seen \subseteq seen'
    BY <1>1, <1>2, <1>3
  <2>2. onReviewLabel(x.pr) \/ UNCHANGED reviewVars
    BY DEF Relabel, x
  <2> QED
    BY <1>1, <2>1, <2>2, EventSeen DEF reviewVars, FInv, FHost
<1>6. /\ FHost' /\ Opened(prs') = Opened(prs)
      /\ \A k \in Opened(prs') : fresh' \cap prs'[k].comments = fresh \cap prs[k].comments
  BY <1>1, <1>3, <1>4, <1>5, SameHost DEF FInv, FHost
<1>7. Calm
  <2>1. ASSUME NEW k \in DOMAIN prs, "review" \in prs'[k].labels, "review" \notin prs[k].labels
        PROVE  published \subseteq seen'
    BY <1>2, <1>4, <2>1
  <2> QED
    BY <1>5, <1>6, <2>1 DEF Calm
<1>8. Good(x, seen', fresh', prs')
  BY <1>7, CalmGood DEF x
<1>9. x.result.kind # "final"
  BY <1>1 DEF Sound, Coded
<1>10. ASSUME seen' = IF "review" \in prs[x.pr].labels THEN seen ELSE published
       PROVE  Good(y, seen', fresh', prs')
  <2>1. Kin(y, x, "final") /\ y.head = x.head
    BY <1>1, GotoKin
  <2>2. y.unlabeled = FALSE => x.unlabeled = FALSE
    <3>1. EqFlag(y, x)
      BY <1>1 DEF goto, Run, EqFlag
    <3> QED
      BY <3>1, Zenon DEF EqFlag
  <2> HIDE DEF y
  <2>3. Works(y) = Works(x) /\ x.sha \subseteq published
    BY <1>1, <2>1 DEF Works, Kin, Sound, Named
  <2>4. Works(y) /\ y.unlabeled = FALSE => x.sha \subseteq seen'
    BY <1>1, <1>5, <1>10, <2>2, <2>3 DEF Good, Reviewed
  <2>5. y.pc = "final" /\ y.pc \notin Listening /\ y.sha = x.sha /\ y.result = x.result
    BY <2>1 DEF Kin, Listening
  <2> QED
    BY <1>8, <1>9, <2>1, <2>4, <2>5 DEF Good, Reviewed, Heard
<1>11. Good(z, seen', fresh', prs')
  <2> DEFINE b == TRUE
             w == [goto(x, "final") EXCEPT !.unlabeled = b]
  <2>1. b \in BOOLEAN
    OBVIOUS
  <2>2. b # FALSE
    BY Zenon
  <2> HIDE DEF b
  <2>3. Kin(w, x, "final") /\ w.head = x.head
    BY <1>1, <2>1, FlagKin
  <2>4. w.unlabeled = b
    BY <1>1, <2>1, FlagKin
  <2> HIDE DEF w
  <2>5. w.unlabeled # FALSE
    BY <2>2, <2>4, Zenon
  <2>6. w.pc = "final" /\ w.pc \notin Listening /\ w.sha = x.sha
    BY <2>3 DEF Kin, Listening
  <2>7. Good(w, seen', fresh', prs')
    BY <1>8, <2>3, <2>5, <2>6 DEF Good, Reviewed, Heard
  <2> QED
    BY <2>7 DEF w, b
<1> HIDE DEF y, z
<1> QED
  BY <1>2, <1>6, <1>7, <1>10, <1>11, StepGood

\* A step that leaves the pull requests alone.
LEMMA PRsStay ==
  ASSUME AInv, FInv, UNCHANGED <<branch, prs, asked, dropped, quiet>>, published \subseteq published', HasDate(base'),
         now' = now \/ Tick
  PROVE  FHost' /\ Calm
<1>1. now \in Nat /\ now' \in Nat /\ now <= now'
  <2>1. now \in Nat
    BY DEF AInv, HostInv, HostTypeOK, Time
  <2> QED
    BY <2>1 DEF Tick
<1>2. SamePRs /\ asked' \subseteq published' /\ dropped' \subseteq published'
  BY DEF SamePRs, FInv, FHost
<1>3. /\ FHost' /\ Opened(prs') = Opened(prs)
      /\ \A k \in Opened(prs') : fresh' \cap prs'[k].comments = fresh \cap prs[k].comments
  BY <1>1, <1>2, SameHost
<1> QED
  BY <1>3, SameViews DEF Calm

\* The replies on the threads.
LEMMA ReplyFed ==
  ASSUME AInv, FInv, NEW r \in Runs, Reply(r)
  PROVE  FInv'
<1> DEFINE x == run[r]
<1>1. /\ Sound(x, published, Len(prs), now) /\ x.pc = "reply"
      /\ UNCHANGED <<base, branch, prs, now, published, asked, dropped, quiet>> /\ become(r, {goto(x, "unlabel")})
  BY RunGood DEF Reply, In, reviewVars
<1>2. FHost' /\ Calm
  BY <1>1, PRsStay DEF FInv, FHost
<1>3. Good(x, seen', fresh', prs')
  BY <1>2, CalmGood
<1> HIDE DEF x
<1>4. Good(goto(x, "unlabel"), seen', fresh', prs')
  <2>1. x.pc \notin {"exiting", "exited"} /\ "unlabel" \notin {"relabel", "final"} /\ "unlabel" \notin Listening
    BY <1>1 DEF Listening
  <2> QED
    BY <1>1, <1>3, <2>1, GotoGood
<1> QED
  BY <1>1, <1>2, <1>4, StepGood

\* The last date of a commit on top of others.
LEMMA NextDate ==
  ASSUME NEW c, NEW t \in Nat, c \subseteq 0..t
  PROVE  HasDate(c \cup {t + 1}) /\ HasDate({t + 1})
<1>1. \A u \in c \cup {t + 1} : u <= t + 1
  OBVIOUS
<1> QED
  BY <1>1 DEF HasDate

\* clone_repo in an empty repository.
LEMMA InitialFed ==
  ASSUME AInv, FInv, NEW r \in Runs, Initial(r)
  PROVE  FInv'
<1> DEFINE x == run[r]
           y == [goto(x, "list") EXCEPT !.head = {now'}]
<1>1. /\ x \in Run /\ Sound(x, published, Len(prs), now) /\ x.pc = "initial"
      /\ UNCHANGED <<branch, prs, replies, asked, dropped, quiet>>
  BY RunGood DEF Initial, In, reviewVars
<1>2. \/ /\ Tick /\ base' = {now'} /\ published' = published \cup {now'}
         /\ become(r, {y}) \/ become(r, {die(x)})
      \/ /\ UNCHANGED <<base, now, published>>
         /\ become(r, {die(x)} \cup {z \in {errexit(x)} : CallFails(r)})
  BY DEF Initial
<1>3. now \in Nat
  BY DEF AInv, HostInv, HostTypeOK, Time
<1>4. Tick => now' = now + 1 /\ HasDate({now'})
  BY <1>3, NextDate DEF Tick
<1>5. FHost' /\ Calm
  <2>1. HasDate(base') /\ published \subseteq published' /\ (now' = now \/ Tick)
    BY <1>2, <1>4 DEF FInv, FHost
  <2> QED
    BY <1>1, <2>1, PRsStay
<1>6. Good(x, seen', fresh', prs')
  BY <1>5, CalmGood
<1> HIDE DEF x
<1>7. Good(die(x), seen', fresh', prs') /\ Good(errexit(x), seen', fresh', prs')
  BY <1>1, <1>6, FailGood, ErrexitGood
<1>8. Tick => Good(y, seen', fresh', prs')
  <2>1. x.pc \notin {"exiting", "exited"} /\ "list" \notin {"relabel", "final"} /\ x.pc \in Listening
    BY <1>1 DEF Listening
  <2> QED
    BY <1>1, <1>4, <1>6, <2>1, GotoGood
<1> HIDE DEF y
<1>9. \/ become(r, {y}) /\ Tick
      \/ become(r, {die(x)})
      \/ become(r, {die(x)} \cup {z \in {errexit(x)} : CallFails(r)})
  BY <1>2
<1> QED
  BY <1>5, <1>7, <1>8, <1>9, StepGood

\* commit_change.
LEMMA CommitFed ==
  ASSUME AInv, FInv, NEW r \in Runs, CommitChange(r)
  PROVE  FInv'
<1> DEFINE x == run[r]
           y(s) == [goto(x, "push") EXCEPT !.sha = s]
           z(s) == [goto(x, "push") EXCEPT !.sha = s, !.refused = TRUE]
<1>1. /\ x \in Run /\ Sound(x, published, Len(prs), now) /\ Good(x, seen, fresh, prs) /\ x.pc = "commit"
      /\ UNCHANGED <<base, branch, prs, replies, published, asked, dropped, quiet>>
  BY RunGood DEF CommitChange, In, reviewVars
<1>2. \/ Tick /\ become(r, {y(x.head \cup {now'})})
      \/ now' = now /\ (become(r, {z(x.head)}) \/ become(r, {errexit(x)}))
  BY DEF CommitChange
<1>3. FHost' /\ Calm
  BY <1>1, <1>2, PRsStay DEF FInv, FHost
<1>4. Good(x, seen', fresh', prs')
  BY <1>3, CalmGood
<1> HIDE DEF x
<1>5. ASSUME NEW s, HasDate(s)
      PROVE  Good(y(s), seen', fresh', prs') /\ Good(z(s), seen', fresh', prs')
  <2>1. /\ y(s).pc = "push" /\ y(s).mode = x.mode /\ y(s).notes = x.notes /\ y(s).sha = s
        /\ y(s).head = x.head /\ y(s).result = x.result
    BY <1>1 DEF goto, Run
  <2>2. /\ z(s).pc = "push" /\ z(s).mode = x.mode /\ z(s).notes = x.notes /\ z(s).sha = s
        /\ z(s).head = x.head /\ z(s).result = x.result
    BY <1>1 DEF goto, Run
  <2> HIDE DEF y, z
  <2>3. x.result.kind # "final" /\ x.pc \in Listening
    BY <1>1 DEF Sound, Coded, Listening
  <2>4. Good(y(s), seen', fresh', prs')
    BY <1>4, <1>5, <2>1, <2>3 DEF Good, Reviewed, Heard
  <2>5. Good(z(s), seen', fresh', prs')
    BY <1>4, <1>5, <2>2, <2>3 DEF Good, Reviewed, Heard
  <2> QED
    BY <2>4, <2>5
<1> HIDE DEF y, z
<1>6. HasDate(x.head)
  BY <1>1 DEF Good
<1>7. Tick => HasDate(x.head \cup {now'})
  <2>1. now \in Nat /\ published \subseteq 0..now
    BY HostAssumption DEF AInv, HostInv, HostTypeOK, Time
  <2>2. x.head \subseteq published
    BY <1>1 DEF Sound, Based
  <2>3. HasDate(x.head \cup {now + 1})
    BY <2>1, <2>2, NextDate
  <2> QED
    BY <2>3 DEF Tick
<1>8. Good(errexit(x), seen', fresh', prs')
  <2>1. x.pc \notin {"exiting", "exited"}
    BY <1>1
  <2> QED
    BY <1>1, <1>4, <2>1, ErrexitGood
<1> QED
  BY <1>2, <1>3, <1>5, <1>6, <1>7, <1>8, StepGood

\* The branch grows, and more of the comments are old.
LEMMA BranchGrows ==
  ASSUME AInv, FInv, branch \subseteq branch', HasDate(branch'), published \subseteq published', now <= now', now' \in Nat,
         UNCHANGED <<base, prs, asked, dropped, quiet>>
  PROVE  FHost' /\ Calm
<1>1. now \in Nat
  BY DEF AInv, HostInv, HostTypeOK, Time
<1>2. fresh' \subseteq fresh
  BY DEF fresh
<1>3. FHost'
  BY <1>1 DEF FInv, FHost
<1> QED
  BY <1>2, <1>3, SameViews DEF Calm

\* The push.
LEMMA PushFed ==
  ASSUME AInv, FInv, NEW r \in Runs, Push(r)
  PROVE  FInv'
<1> DEFINE x == run[r]
           y == goto(x, "pushed")
<1>1. /\ x \in Run /\ Sound(x, published, Len(prs), now) /\ Good(x, seen, fresh, prs) /\ x.pc = "push"
      /\ UNCHANGED <<base, prs, replies, now, asked, dropped, quiet>>
  BY RunGood DEF Push, In, reviewVars
<1>2. \/ /\ branch \subseteq x.sha /\ branch' = x.sha /\ published' = published \cup x.sha
         /\ become(r, {y} \cup {z \in {die(x)} : CallFails(r)})
      \/ become(r, {die(x)}) /\ UNCHANGED <<branch, published>>
  BY DEF Push, fastForward, acceptPush
<1> HIDE DEF x
<1>3. FHost' /\ Calm
  <2>1. branch \subseteq branch' /\ HasDate(branch') /\ published \subseteq published'
    BY <1>1, <1>2 DEF Good, FInv, FHost
  <2>2. now <= now' /\ now' \in Nat
    BY <1>1, KeptTypes DEF Time
  <2> QED
    BY <1>1, <2>1, <2>2, BranchGrows
<1>4. Good(x, seen', fresh', prs')
  BY <1>3, CalmGood DEF x
<1>5. Good(die(x), seen', fresh', prs')
  BY <1>1, <1>4, FailGood
<1>6. Good(y, seen', fresh', prs')
  <2>1. x.pc \notin {"exiting", "exited"} /\ "pushed" \notin {"relabel", "final"} /\ "pushed" \notin Listening
    BY <1>1 DEF Listening
  <2> QED
    BY <1>1, <1>4, <2>1, GotoGood
<1> HIDE DEF y
<1>7. become(r, {y} \cup {z \in {die(x)} : CallFails(r)}) \/ become(r, {die(x)})
  BY <1>2
<1> QED
  BY <1>3, <1>5, <1>6, <1>7, StepGood

\* gh pr create: the new pull request is the only open one, and nobody has
\* commented on it.
LEMMA CreateFed ==
  ASSUME AInv, FInv, NEW r \in Runs, CreatePR(r)
  PROVE  FInv'
<1> DEFINE x == run[r]
           k == Len(prs')
           y == [goto(x, "unlabel") EXCEPT !.pr = k]
<1>1. /\ x \in Run /\ Sound(x, published, Len(prs), now) /\ x.pc = "create"
      /\ UNCHANGED <<base, branch, replies, now, published, asked, dropped, quiet>>
  BY RunGood DEF CreatePR, In, reviewVars
<1>2. \/ /\ openPRs = {} /\ ~(branch \subseteq base) /\ prs' = Append(prs, NewPR)
         /\ become(r, {y} \cup {z \in {die(x)} : CallFails(r)})
      \/ become(r, {die(x)}) /\ UNCHANGED prs
  BY DEF CreatePR, creatable
<1> HIDE DEF x, k
<1>3. FHost' /\ Calm
  <2>1. CASE UNCHANGED prs
    BY <1>1, <2>1, PRsStay DEF FInv, FHost
  <2>2. CASE openPRs = {} /\ ~(branch \subseteq base) /\ prs' = Append(prs, NewPR)
    <3>1. prs \in Seq(PullRequest) /\ NewPR \in PullRequest /\ NewPR.comments = {} /\ NewPR.labels = {}
      BY DEF AInv, HostInv, HostTypeOK, NewPR, PullRequest
    <3>2. Len(prs) \in Nat /\ DOMAIN prs = 1..Len(prs)
      BY <3>1, LenProperties
    <3>3. /\ DOMAIN prs' = 1..(Len(prs) + 1) /\ prs'[Len(prs) + 1] = NewPR
          /\ \A n \in 1..Len(prs) : prs'[n] = prs[n]
      <4> DEFINE q == Append(prs, NewPR)
      <4>1. /\ q \in Seq(PullRequest) /\ Len(q) = Len(prs) + 1 /\ q[Len(prs) + 1] = NewPR
            /\ \A n \in 1..Len(prs) : q[n] = prs[n]
        BY <3>1, AppendProperties
      <4> HIDE DEF q
      <4>2. DOMAIN q = 1..(Len(prs) + 1)
        BY <4>1, LenProperties
      <4>3. prs' = q
        BY <2>2 DEF q
      <4> QED
        BY <4>1, <4>2, <4>3
    <3>4. \A n \in Opened(prs') : n = Len(prs) + 1
      BY <2>2, <3>2, <3>3 DEF Opened, openPRs, isOpen
    <3>5. \A n \in Opened(prs') : fresh' \cap prs'[n].comments = {}
      BY <3>1, <3>3, <3>4
    <3>6. FHost'
      BY <1>1, <2>2, <3>4 DEF FInv, FHost
    <3>7. Calm
      BY <1>1, <3>2, <3>3, <3>5, SameViews DEF Calm
    <3> QED
      BY <3>6, <3>7
  <2> QED
    BY <1>2, <2>1, <2>2
<1>4. Good(x, seen', fresh', prs')
  BY <1>3, CalmGood DEF x
<1>5. Good(die(x), seen', fresh', prs')
  BY <1>1, <1>4, FailGood
<1>6. Good(y, seen', fresh', prs')
  <2>1. x.pc \notin {"exiting", "exited"} /\ "unlabel" \notin {"relabel", "final"} /\ "unlabel" \notin Listening
    BY <1>1 DEF Listening
  <2> QED
    BY <1>1, <1>4, <2>1, GotoGood
<1> HIDE DEF y
<1>7. become(r, {y} \cup {z \in {die(x)} : CallFails(r)}) \/ become(r, {die(x)})
  BY <1>2
<1> QED
  BY <1>3, <1>5, <1>6, <1>7, StepGood

\* A comment is quiet only when nobody works.
LEMMA CommentHost ==
  ASSUME AInv, FInv, Tick, NEW n, prs' = [prs EXCEPT ![n].comments = @ \cup {now'}],
         quiet' \subseteq quiet \cup {now'}, AtWork # {} => quiet' \subseteq quiet,
         UNCHANGED <<base, branch, published, asked, dropped>>
  PROVE  FHost' /\ Calm
<1>1. now \in Nat /\ now' = now + 1 /\ branch \subseteq 0..now /\ quiet \subseteq 0..now
  BY DEF AInv, HostInv, HostTypeOK, Time, Tick, FInv, FHost
<1>2. /\ DOMAIN prs' = DOMAIN prs
      /\ \A m \in DOMAIN prs : /\ prs'[m].state = prs[m].state /\ prs'[m].labels = prs[m].labels
                               /\ prs'[m].comments \subseteq prs[m].comments \cup {now'}
  <2>1. \A m \in DOMAIN prs : prs[m] \in PullRequest
    BY LenProperties, ElementOfSeq DEF AInv, HostInv, HostTypeOK
  <2>2. DOMAIN prs' = DOMAIN prs /\ \A m \in DOMAIN prs : m # n => prs'[m] = prs[m]
    OBVIOUS
  <2>3. n \in DOMAIN prs => prs'[n] = [prs[n] EXCEPT !.comments = @ \cup {now'}]
    OBVIOUS
  <2>4. n \in DOMAIN prs => /\ prs'[n].state = prs[n].state /\ prs'[n].labels = prs[n].labels
                            /\ prs'[n].comments = prs[n].comments \cup {now'}
    BY <2>1, <2>3 DEF PullRequest
  <2> QED
    BY <2>2, <2>4
<1>3. Opened(prs') = Opened(prs)
  BY <1>2 DEF Opened
<1>4. AtWork # {} => \A m \in Opened(prs) : fresh' \cap prs'[m].comments \subseteq fresh \cap prs[m].comments
  <2> SUFFICES ASSUME AtWork # {}, NEW m \in Opened(prs), NEW c \in fresh', c \in prs'[m].comments
               PROVE  c \in fresh /\ c \in prs[m].comments
    OBVIOUS
  <2>1. c \in fresh /\ c \in quiet
    BY DEF fresh
  <2>2. c # now'
    BY <1>1, <2>1
  <2> QED
    BY <1>2, <2>1, <2>2 DEF Opened
<1>5. quiet' \subseteq 0..now'
  BY <1>1
<1>6. FHost'
  BY <1>3, <1>5 DEF FInv, FHost
<1>7. Calm
  BY <1>2, <1>3, <1>4, SameViews DEF Calm
<1> QED
  BY <1>6, <1>7

\* The reviewer posts.
LEMMA PostReviewFed ==
  ASSUME AInv, FInv, NEW r \in Runs, PostReview(r)
  PROVE  FInv'
<1> DEFINE x == run[r]
<1>1. /\ Sound(x, published, Len(prs), now) /\ x.pc = "post" /\ x.mode = "review"
      /\ UNCHANGED <<base, branch, replies, published, asked, dropped>>
  BY RunGood DEF PostReview, At, In, reviewVars
<1>2. \/ /\ Tick /\ prs' = [prs EXCEPT ![x.pr].comments = @ \cup {now'}]
         /\ quiet' = quiet \cup {c \in {now'} : AtWork = {}}
         /\ become(r, {goto(x, "final")} \cup {y \in {errexit(x)} : CallFails(r)})
      \/ become(r, {errexit(x)}) /\ UNCHANGED <<prs, now, quiet>>
  BY DEF PostReview
<1> HIDE DEF x
<1>3. FHost' /\ Calm
  <2>1. CASE UNCHANGED <<prs, now, quiet>>
    BY <1>1, <2>1, PRsStay DEF FInv, FHost
  <2>2. CASE /\ Tick /\ prs' = [prs EXCEPT ![x.pr].comments = @ \cup {now'}]
             /\ quiet' = quiet \cup {c \in {now'} : AtWork = {}}
    <3>1. quiet' \subseteq quiet \cup {now'} /\ (AtWork # {} => quiet' \subseteq quiet)
      BY <2>2
    <3> QED
      BY <1>1, <2>2, <3>1, CommentHost
  <2> QED
    BY <1>2, <2>1, <2>2
<1>4. Good(x, seen', fresh', prs')
  BY <1>3, CalmGood DEF x
<1>5. Good(errexit(x), seen', fresh', prs') /\ Good(goto(x, "final"), seen', fresh', prs')
  <2>1. x.pc \notin {"exiting", "exited"} /\ ~Works(x)
    BY <1>1 DEF Works
  <2> QED
    BY <1>1, <1>4, <2>1, ErrexitGood, IdleGood
<1>6. become(r, {goto(x, "final")} \cup {y \in {errexit(x)} : CallFails(r)}) \/ become(r, {errexit(x)})
  BY <1>2
<1> QED
  BY <1>3, <1>5, <1>6, StepGood

\* A pull request ends; the comments and the labels stay.
LEMMA EndsPR ==
  ASSUME AInv, FInv, NEW n, isOpen(n), NEW st \in {"closed", "merged"}, prs' = [prs EXCEPT ![n].state = st]
  PROVE  /\ Opened(prs') = {} /\ DOMAIN prs' = DOMAIN prs
         /\ \A m \in DOMAIN prs : prs'[m].labels = prs[m].labels /\ prs'[m].comments = prs[m].comments
<1>1. \A m \in DOMAIN prs : prs[m] \in PullRequest
  BY LenProperties, ElementOfSeq DEF AInv, HostInv, HostTypeOK
<1>2. DOMAIN prs' = DOMAIN prs /\ \A m \in DOMAIN prs : m # n => prs'[m] = prs[m]
  OBVIOUS
<1>3. n \in DOMAIN prs => prs'[n] = [prs[n] EXCEPT !.state = st]
  OBVIOUS
<1>4. n \in DOMAIN prs => prs'[n].state = st /\ prs'[n].labels = prs[n].labels /\ prs'[n].comments = prs[n].comments
  BY <1>1, <1>3 DEF PullRequest
<1>5. \A m \in DOMAIN prs : m # n => prs[m].state # "open"
  BY DEF FInv, FHost, Opened, isOpen
<1>6. Opened(prs') = {}
  BY <1>2, <1>4, <1>5 DEF Opened, isOpen
<1> QED
  BY <1>2, <1>4, <1>6

\* What people do.
LEMMA PeopleFed ==
  ASSUME AInv, FInv, PeopleStep, UNCHANGED <<run, asked, dropped>>,
         quiet' = quiet \cup {c \in justCommented : AtWork = {}}
  PROVE  FInv'
<1>1. PICK n \in DOMAIN prs : Comment(n) \/ CommitToBranch(n) \/ ClosePR(n) \/ MergePR(n)
  BY DEF PeopleStep
<1>2. /\ now \in Nat /\ base \cup branch \subseteq 0..now /\ asked \cup dropped \subseteq published /\ quiet \subseteq 0..now
      /\ justCommented \subseteq {now'}
  <2>1. now \in Nat /\ base \cup branch \subseteq published /\ published \subseteq 0..now
    BY HostAssumption DEF AInv, HostInv, HostTypeOK, Time
  <2>2. asked \cup dropped \subseteq published /\ quiet \subseteq 0..now
    BY DEF FInv, FHost
  <2>3. justCommented \subseteq {now'}
    BY DEF justCommented
  <2> QED
    BY <2>1, <2>2, <2>3
<1>3. Tick => now' = now + 1
  BY DEF Tick
<1>4. CASE Comment(n)
  <2>1. /\ Tick /\ prs' = [prs EXCEPT ![n].comments = @ \cup {now'}] /\ UNCHANGED <<base, branch, published>>
    BY <1>4 DEF Comment
  <2>2. quiet' \subseteq quiet \cup {now'} /\ (AtWork # {} => quiet' \subseteq quiet)
    BY <1>2, <2>1
  <2>3. FHost' /\ Calm
    BY <2>1, <2>2, CommentHost
  <2> QED
    BY <2>3, CalmGood DEF FInv
<1>5. CASE CommitToBranch(n)
  <2>1. /\ Tick /\ branch' = branch \cup {now'} /\ published' = published \cup {now'}
        /\ UNCHANGED <<base, prs>>
    BY <1>5 DEF CommitToBranch
  <2>2. UNCHANGED quiet
    BY <2>1 DEF justCommented
  <2>3. HasDate(branch')
    BY <1>2, <1>3, <2>1, NextDate
  <2>4. now <= now' /\ now' \in Nat
    BY <1>2, <1>3, <2>1
  <2>5. FHost' /\ Calm
    BY <2>1, <2>2, <2>3, <2>4, BranchGrows
  <2> QED
    BY <2>5, CalmGood DEF FInv
<1>6. CASE ClosePR(n) \/ MergePR(n)
  <2>1. /\ isOpen(n) /\ \E st \in {"closed", "merged"} : prs' = [prs EXCEPT ![n].state = st]
        /\ published \subseteq published'
        /\ branch' = branch \/ branch' = {}
        /\ (base' = base /\ now' = now) \/ (base' = base \cup {now'} /\ Tick)
    BY <1>6 DEF ClosePR, MergePR
  <2>2. /\ Opened(prs') = {} /\ DOMAIN prs' = DOMAIN prs
        /\ \A m \in DOMAIN prs : prs'[m].labels = prs[m].labels /\ prs'[m].comments = prs[m].comments
    BY <2>1, EndsPR
  <2>3. justCommented = {}
    BY <2>2 DEF justCommented
  <2>4. quiet' \subseteq quiet
    BY <2>3
  <2>5. HasDate(base') /\ HasDate(branch')
    <3>1. Tick => HasDate(base \cup {now'})
      BY <1>2, <1>3, NextDate
    <3>2. HasDate(base) /\ HasDate(branch) /\ HasDate({})
      BY DEF FInv, FHost, HasDate
    <3> QED
      BY <2>1, <3>1, <3>2
  <2>6. quiet' \subseteq 0..now'
    BY <1>2, <1>3, <2>1, <2>4
  <2>7. FHost'
    BY <1>2, <2>1, <2>2, <2>5, <2>6 DEF FHost
  <2>8. Calm
    BY <2>1, <2>2, SameViews DEF Calm
  <2> QED
    BY <2>7, <2>8, CalmGood DEF FInv
<1> QED
  BY <1>1, <1>4, <1>5, <1>6

\* The invariant holds at the start.
LEMMA FInvInit ==
  ASSUME Init
  PROVE  FInv
<1>1. \A r \in Runs : run[r] = NewRun
  BY DEF Init
<1>2. HasDate({}) /\ HasDate({0}) /\ HasDate({0, 1})
  BY DEF HasDate
<1>3. /\ NewRun.pc = "new" /\ NewRun.mode = "report" /\ NewRun.head = {} /\ NewRun.sha = {}
  BY DEF NewRun
<1>4. Good(NewRun, seen, fresh, prs)
  BY <1>2, <1>3 DEF Good, Reviewed, Heard, Works
<1>5. /\ asked = {} /\ dropped = {} /\ quiet = {} /\ HasDate(base) /\ HasDate(branch)
      /\ prs = <<>> \/ (branch # {} /\ DOMAIN prs = {1})
  <2>1. base \in {{}, {0}} /\ branch \in {{}, {0, 1}} /\ asked = {} /\ dropped = {} /\ quiet = {}
    BY DEF Init, HostInit
  <2>2. prs = <<>> \/ (branch = {0, 1} /\ \E p : prs = <<p>>)
    BY DEF Init, HostInit
  <2>3. \A p : DOMAIN <<p>> = {1}
    OBVIOUS
  <2> QED
    BY <1>2, <2>1, <2>2, <2>3
<1>6. FHost
  BY <1>5 DEF FHost, Opened
<1> QED
  BY <1>1, <1>4, <1>6 DEF FInv

\* Every step keeps it.
LEMMA FInvNext ==
  ASSUME AInv, FInv, [Next]_vars
  PROVE  FInv'
<1>1. CASE PeopleStep /\ UNCHANGED <<run, reviewVars>> /\ quiet' = quiet \cup {c \in justCommented : AtWork = {}}
  BY <1>1, PeopleFed DEF reviewVars
<1>2. ASSUME NEW r \in Runs, NEW m \in Modes, NEW n \in {0} \cup DOMAIN prs, Start(r, m, n)
      PROVE  FInv'
  BY <1>2, StartFed
<1>3. ASSUME NEW r \in Runs, AgentStep(r)
      PROVE  FInv'
  <2>1. CASE ViewIssue(r) \/ ViewPR(r) \/ FetchDiff(r) \/ Gather(r) \/ Answer(r) \/ Threads(r) \/ Nothing(r)
    BY <2>1, ReadingFed, ViewPRFed, EndingFed, FetchingFed, NothingFed
  <2>2. CASE Clone(r) \/ Initial(r) \/ List(r) \/ Checkout(r) \/ Claude(r) \/ Compose(r) \/ CommitChange(r)
    BY <2>2, FetchingFed, InitialFed, WorkingFed, CommitFed
  <2>3. CASE Push(r) \/ Pushed(r) \/ CreatePR(r) \/ Reply(r) \/ Unlabel(r) \/ Relabel(r)
    BY <2>3, PushFed, WorkingFed, CreateFed, ReplyFed, UnlabelFed, RelabelFed
  <2>4. CASE PostReview(r) \/ PostReport(r) \/ Final(r) \/ OnExit(r)
    BY <2>4, PostReviewFed, EndingFed
  <2> QED
    BY <1>3, <2>1, <2>2, <2>3, <2>4 DEF AgentStep
<1>4. ASSUME NEW r \in Runs, Terminate(r) \/ Kill(r)
      PROVE  FInv'
  BY <1>4, EndingFed
<1>5. CASE UNCHANGED vars
  BY <1>5, SameViews DEF vars, hostVars, reviewVars, FInv, FHost
<1> QED
  BY <1>1, <1>2, <1>3, <1>4, <1>5 DEF Next

\* The inductive invariant of reviews and feedback.
THEOREM FeedbackInvariant == Spec => []FInv
<1>1. Init => FInv
  BY FInvInit
<1>2. AInv /\ FInv /\ [Next]_vars => FInv'
  BY FInvNext
<1> QED
  BY <1>1, <1>2, AgentsInvariant, PTL DEF Spec

\* The commit of a successful run does not go unnoticed, however many runs relabel
\* the pull request at once: a review was triggered after its push, or the event was
\* dropped because of an active one.  The label that a run finds on again was put on
\* after the push of that run.
THEOREM ReviewersFollow == Spec => []ReviewFollowsPush
<1>1. AInv /\ FInv => ReviewFollowsPush
  <2> SUFFICES ASSUME AInv, FInv, NEW r \in Runs, Delivers(r), ~run[r].unlabeled
               PROVE  run[r].result.sha \subseteq asked \/ run[r].result.sha \subseteq dropped
    BY DEF ReviewFollowsPush
  <2>1. run[r].unlabeled = FALSE
    BY Zenon DEF AInv, Run
  <2>2. Works(run[r]) /\ run[r].result.kind = "final"
    BY DEF Delivers, Works
  <2>3. run[r].result.sha \subseteq seen
    BY <2>1, <2>2 DEF FInv, Good, Reviewed
  <2> QED
    BY <2>3 DEF seen
<1> QED
  BY <1>1, AgentsInvariant, FeedbackInvariant, PTL

\* An iteration that is about to push has read every comment on the open pull
\* request that is newer than the last commit and was made while no run was at
\* work: none of the feedback that its commit makes old is lost.
THEOREM QuietFeedbackHeard == Spec => []QuietFeedbackIsRead
<1>1. AInv /\ FInv => QuietFeedbackIsRead
  <2> SUFFICES ASSUME AInv, FInv, NEW r \in Runs, At(r, "iterate", "push"), NEW n \in openPRs,
                      NEW c \in quiet \cap prs[n].comments, c > date(branch)
               PROVE  c \in run[r].notes
    BY DEF QuietFeedbackIsRead
  <2>1. n \in Opened(prs) /\ run[r].mode = "iterate" /\ run[r].pc \in Listening
    BY DEF openPRs, isOpen, Opened, At, In, Listening
  <2>2. date(branch) \in branch /\ \A u \in branch : u <= date(branch)
    BY <2>1 DEF FInv, FHost, HasDate, date
  <2>3. branch \subseteq Nat /\ c \in Nat
    <3>1. branch \in Commit /\ quiet \subseteq Time
      BY DEF AInv, HostInv, HostTypeOK
    <3>2. Time \subseteq Nat
      BY HostAssumption DEF Time
    <3> QED
      BY <3>1, <3>2 DEF Commit
  <2>4. \A u \in branch : u < c
    <3> DEFINE d == date(branch)
    <3>1. d \in Nat /\ d < c /\ \A u \in branch : u <= d
      BY <2>2, <2>3
    <3> HIDE DEF d
    <3> QED
      BY <2>3, <3>1
  <2>5. c \in fresh
    BY <2>4 DEF fresh
  <2> QED
    BY <2>1, <2>5 DEF FInv, Good, Heard
<1> QED
  BY <1>1, AgentsInvariant, FeedbackInvariant, PTL

=============================================================================
