---------------------------- MODULE AgentsProofs ----------------------------
(***************************************************************************)
(* What holds of the reference agents for any number of runs, people's     *)
(* actions and faults: every commit that is named is on the host, and exit *)
(* code and Result agree.                                                  *)
(***************************************************************************)
EXTENDS Agents, TLAPS

\* Sequences, as far as the list of pull requests needs them: the domain, ...
LEMMA LenProperties ==
  ASSUME NEW S, NEW seq \in Seq(S)
  PROVE  Len(seq) \in Nat /\ seq \in [1..Len(seq) -> S] /\ DOMAIN seq = 1..Len(seq)
OBVIOUS

\* ... the elements, ...
LEMMA ElementOfSeq ==
  ASSUME NEW S, NEW seq \in Seq(S), NEW n \in 1..Len(seq)
  PROVE  seq[n] \in S
OBVIOUS

\* ... a pull request that changes (labels, comments, state), ...
LEMMA ExceptSeq ==
  ASSUME NEW S, NEW seq \in Seq(S), NEW i \in 1..Len(seq), NEW e \in S
  PROVE  [seq EXCEPT ![i] = e] \in Seq(S) /\ Len([seq EXCEPT ![i] = e]) = Len(seq)
OBVIOUS

\* ... and one that is created.
LEMMA AppendProperties ==
  ASSUME NEW S, NEW seq \in Seq(S), NEW elt \in S
  PROVE  /\ Append(seq, elt) \in Seq(S) /\ Len(Append(seq, elt)) = Len(seq) + 1
         /\ \A i \in 1..Len(seq) : Append(seq, elt)[i] = seq[i]
         /\ Append(seq, elt)[Len(seq) + 1] = elt
OBVIOUS

Told == {"final", "nothing"}

Bad == {"stopped", "started", "pushed", "died"}

Works(x) == x.mode \in {"implement", "iterate"}

\* One run, on a host that has accepted the commits pub and has n pull requests:
\* the commits it names or will name are among them, ...
Named(x, pub) ==
  /\ x.result.sha \subseteq pub /\ x.partial.sha \subseteq pub
  /\ x.pc \notin {"push", "exiting"} => x.sha \subseteq pub

\* ... its exit code goes with what it has written, ...
Coded(x) ==
  /\ x.partial.kind \in Bad
  /\ x.pc \notin {"exiting", "exited"} => x.rc = 0 /\ x.written = FALSE /\ x.result.kind = "none"
  /\ x.pc = "exiting" =>
       \/ x.rc = 0 /\ x.result.kind \in Told
       \/ x.rc \in {1, 143} /\ ((x.written = FALSE /\ x.result.kind = "none") \/ x.result.kind \in Bad)
  /\ x.pc = "exited" =>
       \/ x.rc = 0 /\ x.result.kind \in Told
       \/ x.rc \in {1, 143} /\ x.result.kind \in Bad
       \/ x.rc = 137

MadeOne(x) ==
  \/ x.refused = FALSE /\ x.sha # x.head
  \/ x.refused = TRUE /\ x.sha = x.head

\* ... and it gets from a base and a pull request to a commit of its own.
Based(x, pub, n) ==
  /\ x.pr \in 0..n /\ x.head \subseteq pub
  /\ x.mode = "iterate" /\ x.pc \notin {"new", "exited"} => x.pr # 0
  /\ x.pc \in {"threads", "nothing", "reply"} => x.mode = "iterate"
  /\ x.pc \in {"list", "checkout", "claude", "commit"} /\ Works(x) => x.head # {} /\ x.refused = FALSE
  /\ x.pc \in {"push", "pushed", "create", "reply", "unlabel", "relabel", "final"} /\ Works(x)
       => x.sha # {} /\ MadeOne(x)
  /\ x.pc \in {"unlabel", "relabel", "final"} /\ Works(x) => x.pr # 0
  /\ x.pc \in {"new", "view", "threads", "clone", "initial"} => x.refused = FALSE
  /\ Works(x) /\ x.result.kind = "final" =>
       /\ x.result.pr \in 1..n /\ x.result.sha # {}
       /\ x.pc = "exiting" => MadeOne(x)

\* Its commit was made before time t.
Dated(x, t) == x.sha \subseteq 0..t

Sound(x, pub, n, t) == x \in Run /\ Named(x, pub) /\ Coded(x) /\ Based(x, pub, n) /\ Dated(x, t)

\* The host has what its branches and the replies name.
HostInv ==
  /\ HostTypeOK
  /\ \A p \in replies : p[2] \subseteq published
  /\ base \cup branch \subseteq published /\ published \subseteq 0..now

AInv ==
  /\ HostInv
  /\ quiet \subseteq Time
  /\ run \in [Runs -> Run]
  /\ \A r \in Runs : Sound(run[r], published, Len(prs), now)

-----------------------------------------------------------------------------
(* The helpers of lib.sh                                                   *)

\* Kept folded: the provers lose equalities of Boolean fields between lemmas.
EqRefused(y, x) == y.refused = x.refused

\* The run y is x at another step; what the invariant does not look at may differ.
Moved(y, x, step) ==
  /\ y \in Run /\ y.pc = step
  /\ y.mode = x.mode /\ y.pr = x.pr /\ y.head = x.head /\ y.sha = x.sha /\ y.partial = x.partial
  /\ y.written = x.written /\ y.result = x.result /\ y.rc = x.rc /\ EqRefused(y, x)

\* The move to the next command, ...
LEMMA GotoMoved ==
  ASSUME NEW x \in Run, NEW step \in Steps
  PROVE  Moved(goto(x, step), x, step)
BY DEF goto, Run, Moved, EqRefused

\* ... with what the run has read, ...
LEMMA ReadMoved ==
  ASSUME NEW x \in Run, NEW step \in Steps, NEW s \in SUBSET Time
  PROVE  /\ Moved([goto(x, step) EXCEPT !.notes = s], x, step)
         /\ Moved([goto(x, step) EXCEPT !.todo = s], x, step)
         /\ Moved([goto(x, step) EXCEPT !.tip = s], x, step)
<1>1. Moved([goto(x, step) EXCEPT !.notes = s], x, step)
  BY DEF goto, Run, Moved, EqRefused
<1>2. Moved([goto(x, step) EXCEPT !.todo = s], x, step)
  BY DEF goto, Run, Moved, EqRefused
<1>3. Moved([goto(x, step) EXCEPT !.tip = s], x, step)
  BY DEF goto, Run, Moved, EqRefused, Commit
<1> QED
  BY <1>1, <1>2, <1>3

\* ... or with what went wrong with the label.
LEMMA UnlabelMoved ==
  ASSUME NEW x \in Run, NEW step \in Steps, NEW b \in BOOLEAN
  PROVE  Moved([goto(x, step) EXCEPT !.unlabeled = b], x, step)
<1> DEFINE y == [goto(x, step) EXCEPT !.unlabeled = b]
<1>1. y \in Run
  BY DEF goto, Run
<1>2. y.refused = x.refused
  BY DEF goto, Run
<1>3. /\ y.pc = step /\ y.mode = x.mode /\ y.pr = x.pr /\ y.head = x.head /\ y.sha = x.sha
      /\ y.partial = x.partial /\ y.result = x.result /\ y.rc = x.rc
  BY DEF goto, Run
<1>4. y.written = x.written
  BY DEF goto, Run
<1> HIDE DEF y
<1>5. Moved(y, x, step)
  BY <1>1, <1>2, <1>3, <1>4 DEF Moved, EqRefused
<1> QED
  BY <1>5 DEF y

\* The order of the commands, as far as Based needs it.
Follows(x, step) ==
  /\ step \in {"threads", "nothing", "reply"} => x.mode = "iterate"
  /\ step \in {"threads", "clone", "initial"} => x.pc \in {"view", "threads", "clone"}
  /\ step \in {"list", "checkout", "claude", "commit"} /\ Works(x) => x.pc \in {"list", "checkout", "claude"}
  /\ step \in {"pushed", "create", "reply", "unlabel", "relabel", "final"} /\ Works(x)
       => x.pc \in {"push", "pushed", "create", "reply", "unlabel", "relabel"}
  /\ step \in {"unlabel", "relabel", "final"} /\ Works(x) => x.pr # 0

Onward == Steps \ {"new", "view", "push", "exiting", "exited"}

\* A run that moves on stays sound; a push has to be accepted first.
LEMMA MoveSound ==
  ASSUME NEW pub, NEW n \in Nat, NEW t, NEW x, Sound(x, pub, n, t), x.pc \notin {"new", "exiting", "exited"},
         x.sha \subseteq pub, NEW step \in Onward,
         Follows(x, step), NEW y, Moved(y, x, step)
  PROVE  Sound(y, pub, n, t)
<1>1. Named(y, pub)
  BY DEF Sound, Named, Moved
<1>2. Coded(y)
  BY DEF Sound, Coded, Moved, Onward
<1>3. Based(y, pub, n)
  <2>1. Works(y) = Works(x)
    BY DEF Works, Moved
  <2>2. MadeOne(x) => MadeOne(y)
    BY DEF MadeOne, Moved, EqRefused
  <2>3. x.refused = FALSE => y.refused = FALSE
    BY DEF Moved, EqRefused
  <2>4. y.pc \notin {"new", "view", "push", "exiting", "exited"}
    BY DEF Moved, Onward
  <2> QED
    BY <2>1, <2>2, <2>3, <2>4 DEF Sound, Based, Moved, Follows, Coded
<1>4. Dated(y, t)
  BY DEF Sound, Dated, Moved
<1> QED
  BY <1>1, <1>2, <1>3, <1>4 DEF Sound, Moved

\* The runs y and x are at the same step of the same work.
Alike(y, x) == y.pc = x.pc /\ y.mode = x.mode /\ y.pr = x.pr

\* result_partial records a Result that does not tell of success.
LEMMA PartialSound ==
  ASSUME NEW pub, NEW n \in Nat, NEW t, NEW x, Sound(x, pub, n, t), NEW kind \in {"started", "pushed"},
         NEW pr \in Nat, NEW sha \in Commit, sha \subseteq pub
  PROVE  /\ Sound(result_partial(x, kind, pr, sha), pub, n, t)
         /\ Alike(result_partial(x, kind, pr, sha), x)
<1> DEFINE p == [kind |-> kind, pr |-> pr, sha |-> sha]
           y == [x EXCEPT !.partial = p]
<1>1. p \in Result /\ p.kind \in Bad /\ p.sha \subseteq pub
  BY DEF Result, Kinds, Bad
<1>2. /\ y \in Run /\ y.partial = p /\ y.pc = x.pc /\ y.mode = x.mode /\ y.pr = x.pr /\ y.head = x.head
      /\ y.sha = x.sha /\ y.written = x.written /\ y.result = x.result /\ y.rc = x.rc /\ y.refused = x.refused
  BY <1>1 DEF Sound, Run
<1>3. y = result_partial(x, kind, pr, sha)
  BY DEF result_partial
<1> HIDE DEF p, y
<1>4. Sound(y, pub, n, t)
  BY <1>1, <1>2 DEF Sound, Named, Coded, Based, Works, MadeOne, Dated
<1>5. Alike(y, x)
  BY <1>2 DEF Alike
<1> QED
  BY <1>3, <1>4, <1>5

\* The partial Result at the start of a run names no commit.
LEMMA StartedSound ==
  ASSUME NEW pub, NEW n \in Nat, NEW t, NEW x, Sound(x, pub, n, t), NEW pr \in Nat
  PROVE  /\ Sound(result_partial(x, "started", pr, {}), pub, n, t)
         /\ Alike(result_partial(x, "started", pr, {}), x)
<1> DEFINE kind == "started"
           sha == {}
<1>1. kind \in {"started", "pushed"} /\ sha \in Commit /\ sha \subseteq pub
  BY DEF Commit
<1> HIDE DEF kind, sha
<1>2. /\ Sound(result_partial(x, kind, pr, sha), pub, n, t)
      /\ Alike(result_partial(x, kind, pr, sha), x)
  BY <1>1, PartialSound
<1> QED
  BY <1>2 DEF kind, sha

\* The partial Result after the push names the commit.
LEMMA PushedSound ==
  ASSUME NEW pub, NEW n \in Nat, NEW t, NEW x, Sound(x, pub, n, t), NEW pr \in Nat, NEW sha \in Commit, sha \subseteq pub
  PROVE  /\ Sound(result_partial(x, "pushed", pr, sha), pub, n, t)
         /\ Alike(result_partial(x, "pushed", pr, sha), x)
<1> DEFINE kind == "pushed"
<1>1. kind \in {"started", "pushed"}
  OBVIOUS
<1> HIDE DEF kind
<1>2. /\ Sound(result_partial(x, kind, pr, sha), pub, n, t)
      /\ Alike(result_partial(x, kind, pr, sha), x)
  BY <1>1, PartialSound
<1> QED
  BY <1>2 DEF kind

\* The run out is x after result_write(x, res), ...
Wrote(out, x, res) ==
  /\ out \in Run /\ out.result = res /\ out.written = TRUE
  /\ out.pc = x.pc /\ out.mode = x.mode /\ out.pr = x.pr /\ out.head = x.head /\ out.sha = x.sha
  /\ out.partial = x.partial /\ out.rc = x.rc

\* ... or after exit.
Exits(out, x, code) ==
  /\ out \in Run /\ out.pc = "exiting" /\ out.rc = code
  /\ out.mode = x.mode /\ out.pr = x.pr /\ out.head = x.head /\ out.sha = x.sha
  /\ out.partial = x.partial /\ out.result = x.result

\* result_write changes the file and its flag.
LEMMA WriteFields ==
  ASSUME NEW x \in Run, NEW res \in Result
  PROVE  Wrote(result_write(x, res), x, res)
BY DEF result_write, Run, Wrote

\* exit sets the code.
LEMMA ExitFields ==
  ASSUME NEW x \in Run, NEW code \in {0, 1, 137, 143}
  PROVE  Exits(exit(x, code), x, code) /\ exit(x, code).written = x.written
<1> DEFINE y == exit(x, code)
<1>1. y \in Run
  BY ZenonT(40) DEF exit, Run, Steps
<1>2. /\ y.pc = "exiting" /\ y.rc = code /\ y.mode = x.mode /\ y.pr = x.pr /\ y.head = x.head
      /\ y.sha = x.sha /\ y.partial = x.partial /\ y.result = x.result
  BY DEF exit, Run
<1>3. y.written = x.written
  BY DEF exit, Run
<1> HIDE DEF y
<1>4. Exits(y, x, code) /\ y.written = x.written
  BY <1>1, <1>2, <1>3 DEF Exits
<1> QED
  BY <1>4 DEF y

\* Neither of them changes the history.
LEMMA WriteExitRefused ==
  ASSUME NEW x \in Run, NEW res, NEW code
  PROVE  EqRefused(result_write(x, res), x) /\ EqRefused(exit(x, code), x)
BY DEF EqRefused, result_write, exit, Run

\* Nothing but the Result, the exit code and the histories outlives the process.
LEMMA GoneFields ==
  ASSUME NEW x \in Run
  PROVE  LET out == gone(x)
         IN  /\ out \in Run /\ out.pc = "exited" /\ out.rc = x.rc /\ out.result = x.result
             /\ out.mode = x.mode /\ out.pr = 0 /\ out.head = {} /\ out.sha = {} /\ out.partial = Stopped
<1>1. NewRun \in Run /\ NewRun.pr = 0 /\ NewRun.head = {} /\ NewRun.sha = {} /\ NewRun.partial = Stopped
  <2>1. Stopped \in Result /\ NoResult \in Result /\ {} \in Commit
    BY DEF Stopped, NoResult, Result, Kinds, Commit
  <2>2. {} \in SUBSET Time /\ 0 \in Nat /\ "new" \in Steps
    BY DEF Steps
  <2> QED
    BY <2>1, <2>2 DEF NewRun, Run
<1>2. "exited" \in Steps
  BY DEF Steps
<1>3. gone(x) \in Run
  <2> NewRun \in Run
    BY <1>1
  <2> QED
    BY <1>2 DEF gone, Run
<1>6. gone(x).pc = "exited" /\ gone(x).rc = x.rc /\ gone(x).result = x.result
  BY <1>1 DEF gone, Run
<1>4. gone(x).mode = x.mode /\ gone(x).pr = 0 /\ gone(x).head = {}
  BY <1>1, <1>2 DEF gone, Run
<1>5. gone(x).sha = {} /\ gone(x).partial = Stopped
  BY <1>1, <1>2 DEF gone, Run
<1> QED
  BY <1>3, <1>4, <1>5, <1>6

\* A run on its way out is sound when its Result is.
LEMMA EndSound ==
  ASSUME NEW pub, NEW n \in Nat, NEW t, NEW x, Sound(x, pub, n, t), x.pc \notin {"new", "exited"},
         NEW y \in Run, y.pc = "exiting", y.mode = x.mode, y.pr = x.pr, y.head = x.head,
         y.sha = x.sha, y.partial = x.partial, EqRefused(y, x),
         y.result.sha \subseteq pub,
         \/ y.rc = 0 /\ y.result.kind \in Told
         \/ y.rc \in {1, 143} /\ ((y.written = FALSE /\ y.result.kind = "none") \/ y.result.kind \in Bad),
         Works(y) /\ y.result.kind = "final"
           => y.result.pr \in 1..n /\ y.result.sha # {} /\ MadeOne(y)
  PROVE  Sound(y, pub, n, t)
<1>1. Named(y, pub)
  BY DEF Sound, Named
<1>2. Coded(y)
  BY DEF Sound, Coded
<1>3. Based(y, pub, n)
  BY DEF Sound, Based, Works, EqRefused
<1>4. Dated(y, t)
  BY DEF Sound, Dated
<1> QED
  BY <1>1, <1>2, <1>3, <1>4 DEF Sound

\* A run that writes a Result which does not tell of success, and stops.
LEMMA FailSound ==
  ASSUME NEW pub, NEW n \in Nat, NEW t, NEW x, Sound(x, pub, n, t), x.pc \notin {"new", "exited"},
         NEW res \in Result, res.kind \in Bad, res.sha \subseteq pub, NEW code \in {1, 143}
  PROVE  Sound(exit(result_write(x, res), code), pub, n, t)
<1> DEFINE w == result_write(x, res)
           y == exit(w, code)
<1>1. x \in Run
  BY DEF Sound
<1>2. Wrote(w, x, res)
  BY <1>1, WriteFields
<1>3. EqRefused(y, x)
  <2>1. EqRefused(w, x) /\ EqRefused(y, w)
    BY <1>1, <1>2, WriteExitRefused, Zenon DEF Wrote
  <2> QED
    BY <2>1, Zenon DEF EqRefused
<1>5. Exits(y, w, code)
  BY <1>2, ExitFields DEF Wrote
<1> HIDE DEF w, y
<1>4. res.kind # "final"
  BY DEF Bad
<1>6. /\ y \in Run /\ y.pc = "exiting" /\ y.mode = x.mode /\ y.pr = x.pr /\ y.head = x.head
      /\ y.sha = x.sha /\ y.partial = x.partial
  BY <1>2, <1>5 DEF Wrote, Exits
<1>7. /\ y.result.sha \subseteq pub /\ y.rc \in {1, 143} /\ y.result.kind \in Bad
      /\ y.result.kind # "final"
  BY <1>2, <1>4, <1>5 DEF Wrote, Exits
<1>8. Sound(y, pub, n, t)
  BY <1>3, <1>6, <1>7, EndSound
<1> QED
  BY <1>8 DEF w, y

\* A run that writes its last Result and ends.
LEMMA DoneSound ==
  ASSUME NEW pub, NEW n \in Nat, NEW t, NEW x, Sound(x, pub, n, t), x.pc \notin {"new", "exited"},
         NEW res \in Result, res.kind \in Told, res.sha \subseteq pub,
         Works(x) /\ res.kind = "final" => res.pr \in 1..n /\ res.sha # {} /\ MadeOne(x)
  PROVE  Sound(exit(result_write(x, res), 0), pub, n, t)
<1> DEFINE w == result_write(x, res)
           y == exit(w, 0)
<1>1. x \in Run
  BY DEF Sound
<1>2. Wrote(w, x, res)
  BY <1>1, WriteFields
<1>3. EqRefused(y, x)
  <2>1. EqRefused(w, x) /\ EqRefused(y, w)
    BY <1>1, <1>2, WriteExitRefused, Zenon DEF Wrote
  <2> QED
    BY <2>1, Zenon DEF EqRefused
<1>4. Exits(y, w, 0)
  BY <1>2, ExitFields DEF Wrote
<1> HIDE DEF w, y
<1>5. /\ y \in Run /\ y.pc = "exiting" /\ y.mode = x.mode /\ y.pr = x.pr /\ y.head = x.head
      /\ y.sha = x.sha /\ y.partial = x.partial
  BY <1>2, <1>4 DEF Wrote, Exits
<1>6. /\ y.result = res /\ y.rc = 0
  BY <1>2, <1>4 DEF Wrote, Exits
<1>7. Works(y) /\ res.kind = "final" => res.pr \in 1..n /\ res.sha # {} /\ MadeOne(y)
  BY <1>3, <1>5 DEF Works, MadeOne, EqRefused
<1>8. Sound(y, pub, n, t)
  BY <1>3, <1>5, <1>6, <1>7, EndSound
<1> QED
  BY <1>8 DEF w, y

\* die: the message with the partial links, and exit code 1.
LEMMA DieSound ==
  ASSUME NEW pub, NEW n \in Nat, NEW t, NEW x, Sound(x, pub, n, t), x.pc \notin {"new", "exited"}
  PROVE  Sound(die(x), pub, n, t)
<1> DEFINE res == [kind |-> "died", pr |-> x.partial.pr, sha |-> {}]
<1>1. x.partial \in Result
  BY DEF Sound, Run
<1>2. res \in Result /\ res.sha = {} /\ res.kind \in Bad
  BY <1>1 DEF Result, Kinds, Commit, Bad
<1> HIDE DEF res
<1>3. Sound(exit(result_write(x, res), 1), pub, n, t)
  BY <1>2, FailSound
<1> QED
  BY <1>3 DEF die, res

\* A failing command under set -e.
LEMMA ErrexitSound ==
  ASSUME NEW pub, NEW n \in Nat, NEW t, NEW x, Sound(x, pub, n, t), x.pc \notin {"new", "exiting", "exited"}
  PROVE  Sound(errexit(x), pub, n, t)
<1> DEFINE y == exit(x, 1)
<1>1. x \in Run /\ x.written = FALSE /\ x.result.kind = "none" /\ x.result.sha \subseteq pub
  BY DEF Sound, Coded, Named
<1>2. Exits(y, x, 1) /\ y.written = FALSE
  BY <1>1, ExitFields
<1>3. EqRefused(y, x)
  BY <1>1, WriteExitRefused, Zenon
<1> HIDE DEF y
<1>4. Sound(y, pub, n, t)
  BY <1>1, <1>2, <1>3, EndSound DEF Exits
<1> QED
  BY <1>4 DEF errexit, y

\* The SIGTERM trap, at any time.
LEMMA TermSound ==
  ASSUME NEW pub, NEW n \in Nat, NEW t, NEW x, Sound(x, pub, n, t), x.pc \notin {"new", "exited"}
  PROVE  Sound(on_term(x), pub, n, t)
<1>1. x.partial \in Result /\ x.partial.sha \subseteq pub /\ x.partial.kind \in Bad
  BY DEF Sound, Run, Named, Coded
<1> QED
  BY <1>1, FailSound DEF on_term

\* The process ends with a Result that goes with the exit code.
LEMMA GoneSound ==
  ASSUME NEW pub, NEW n \in Nat, NEW t, NEW x \in Run, x.result.sha \subseteq pub,
         \/ x.rc = 0 /\ x.result.kind \in Told
         \/ x.rc \in {1, 143} /\ x.result.kind \in Bad
         \/ x.rc = 137,
         Works(x) /\ x.result.kind = "final" => x.result.pr \in 1..n /\ x.result.sha # {}
  PROVE  Sound(gone(x), pub, n, t)
<1> DEFINE y == gone(x)
<1>1. /\ y \in Run /\ y.pc = "exited" /\ y.rc = x.rc /\ y.result = x.result /\ y.mode = x.mode
      /\ y.pr = 0 /\ y.head = {} /\ y.sha = {} /\ y.partial = Stopped
  BY GoneFields
<1>2. Stopped.sha = {} /\ Stopped.kind \in Bad
  BY DEF Stopped, Bad
<1> HIDE DEF y
<1>3. Named(y, pub)
  BY <1>1, <1>2 DEF Named
<1>4. Coded(y)
  BY <1>1, <1>2 DEF Coded
<1>5. Based(y, pub, n)
  BY <1>1 DEF Based, Works
<1>6. Sound(y, pub, n, t)
  BY <1>1, <1>3, <1>4, <1>5 DEF Sound, Dated
<1> QED
  BY <1>6 DEF y

\* The EXIT trap writes the partial Result when a failing run has written none.
LEMMA OnExitSound ==
  ASSUME NEW pub, NEW n \in Nat, NEW t, NEW x, Sound(x, pub, n, t), x.pc = "exiting"
  PROVE  Sound(on_exit(x), pub, n, t)
<1>1. /\ x \in Run /\ x.partial \in Result /\ x.partial.sha \subseteq pub /\ x.partial.kind \in Bad
      /\ x.result.sha \subseteq pub
  BY DEF Sound, Run, Named, Coded
<1>2. CASE x.rc # 0 /\ ~x.written
  <2> DEFINE y == result_write(x, x.partial)
  <2>1. y \in Run /\ y.result = x.partial /\ y.rc = x.rc
    BY <1>1, WriteFields DEF Wrote
  <2>2. x.rc \in {1, 143} /\ x.partial.kind # "final"
    BY <1>1, <1>2 DEF Sound, Coded, Bad
  <2>3. Sound(gone(y), pub, n, t)
    <3> HIDE DEF y
    <3> QED
      BY <1>1, <2>1, <2>2, GoneSound
  <2> QED
    BY <1>2, <2>3 DEF on_exit
<1>3. CASE ~(x.rc # 0 /\ ~x.written)
  <2>1. \/ x.rc = 0 /\ x.result.kind \in Told
        \/ x.rc \in {1, 143} /\ x.result.kind \in Bad
    BY <1>3 DEF Sound, Coded
  <2>2. Works(x) /\ x.result.kind = "final" => x.result.pr \in 1..n /\ x.result.sha # {}
    BY DEF Sound, Based
  <2>3. Sound(gone(x), pub, n, t)
    BY <1>1, <2>1, <2>2, GoneSound
  <2> QED
    BY <1>3, <2>3 DEF on_exit
<1> QED
  BY <1>2, <1>3

\* SIGKILL.
LEMMA KillSound ==
  ASSUME NEW pub, NEW n \in Nat, NEW t, NEW x, Sound(x, pub, n, t)
  PROVE  Sound(gone(exit(x, 137)), pub, n, t)
<1> DEFINE y == exit(x, 137)
<1>1. /\ x \in Run /\ x.result.sha \subseteq pub
      /\ Works(x) /\ x.result.kind = "final" => x.result.pr \in 1..n /\ x.result.sha # {}
  BY DEF Sound, Named, Based
<1>2. y \in Run /\ y.rc = 137 /\ y.result = x.result /\ y.mode = x.mode
  BY <1>1, ExitFields DEF Exits
<1> HIDE DEF y
<1>3. Sound(gone(y), pub, n, t)
  BY <1>1, <1>2, GoneSound DEF Works
<1> QED
  BY <1>3 DEF y

-----------------------------------------------------------------------------
(* The runs and the host                                                   *)

\* What the host has, it keeps: a run stays sound when the host gets more.
LEMMA MoreSound ==
  ASSUME NEW pub, NEW n \in Nat, NEW t, NEW x, Sound(x, pub, n, t), NEW pub2, pub \subseteq pub2,
         NEW m \in Nat, n <= m, t \in Nat, NEW t2 \in Nat, t <= t2
  PROVE  Sound(x, pub2, m, t2)
<1>1. Named(x, pub2)
  BY DEF Sound, Named
<1>2. Based(x, pub2, m)
  <2>1. x.pr \in 0..m /\ x.head \subseteq pub2
    BY DEF Sound, Based
  <2>2. Works(x) /\ x.result.kind = "final" => x.result.pr \in 1..m
    BY DEF Sound, Based
  <2> QED
    BY <2>1, <2>2 DEF Sound, Based
<1>3. Dated(x, t2)
  BY DEF Sound, Dated
<1> QED
  BY <1>1, <1>2, <1>3 DEF Sound

\* The host after a step that keeps what it has.
Grows ==
  /\ published \subseteq published'
  /\ Len(prs) <= Len(prs)' /\ Len(prs)' \in Nat
  /\ now <= now' /\ now \in Nat /\ now' \in Nat

\* A step of one run leaves all of them sound.
LEMMA BecomeSound ==
  ASSUME AInv, Grows, NEW r \in Runs, NEW recs, become(r, recs),
         \A x \in recs : Sound(x, published', Len(prs)', now')
  PROVE  run' \in [Runs -> Run] /\ \A q \in Runs : Sound(run'[q], published', Len(prs)', now')
<1>1. PICK x \in recs : run' = [run EXCEPT ![r] = x]
  BY DEF become
<1>2. x \in Run /\ Sound(x, published', Len(prs)', now')
  BY <1>1 DEF Sound
<1>3. \A q \in Runs : Sound(run[q], published', Len(prs)', now')
  BY MoreSound, LenProperties DEF AInv, HostInv, HostTypeOK, Grows, Time
<1>4. run \in [Runs -> Run]
  BY DEF AInv
<1> QED
  BY <1>1, <1>2, <1>3, <1>4

\* Runs that do not move stay sound.
LEMMA StaySound ==
  ASSUME AInv, Grows, UNCHANGED run
  PROVE  run' \in [Runs -> Run] /\ \A q \in Runs : Sound(run'[q], published', Len(prs)', now')
<1>1. \A q \in Runs : Sound(run[q], published', Len(prs)', now')
  BY MoreSound, LenProperties DEF AInv, HostInv, HostTypeOK, Grows, Time
<1> QED
  BY <1>1 DEF AInv

\* Editing a pull request leaves as many pull requests.
LEMMA EditPR ==
  ASSUME HostTypeOK, NEW n, NEW p, n \in DOMAIN prs => p \in PullRequest, prs' = [prs EXCEPT ![n] = p]
  PROVE  prs' \in Seq(PullRequest) /\ Len(prs') = Len(prs)
<1> prs \in Seq(PullRequest)
  BY DEF HostTypeOK
<1>1. CASE n \in DOMAIN prs
  <2>1. n \in 1..Len(prs) /\ p \in PullRequest
    BY <1>1, LenProperties
  <2>2. /\ [prs EXCEPT ![n] = p] \in Seq(PullRequest)
        /\ Len([prs EXCEPT ![n] = p]) = Len(prs)
    BY <2>1, ExceptSeq
  <2> QED
    BY <2>2
<1>2. CASE n \notin DOMAIN prs
  <2>1. [prs EXCEPT ![n] = p] = prs
    BY <1>2, LenProperties
  <2> QED
    BY <2>1
<1> QED
  BY <1>1, <1>2

\* A field of a pull request changes.
LEMMA EditField ==
  ASSUME HostTypeOK, NEW n, NEW ls \in SUBSET {"review", "iterate"}, NEW t \in Time,
         NEW st \in {"open", "closed", "merged"},
         \/ prs' = prs
         \/ prs' = [prs EXCEPT ![n].labels = @ \ ls]
         \/ prs' = [prs EXCEPT ![n].labels = @ \cup ls]
         \/ prs' = [prs EXCEPT ![n].comments = @ \cup {t}]
         \/ prs' = [prs EXCEPT ![n].state = st]
  PROVE  prs' \in Seq(PullRequest) /\ Len(prs') = Len(prs)
<1>1. n \in DOMAIN prs =>
        /\ [prs[n] EXCEPT !.labels = @ \ ls] \in PullRequest
        /\ [prs[n] EXCEPT !.labels = @ \cup ls] \in PullRequest
        /\ [prs[n] EXCEPT !.comments = @ \cup {t}] \in PullRequest
        /\ [prs[n] EXCEPT !.state = st] \in PullRequest
  <2> SUFFICES ASSUME n \in DOMAIN prs, NEW q, q = prs[n], q \in PullRequest
               PROVE  /\ [q EXCEPT !.labels = @ \ ls] \in PullRequest
                      /\ [q EXCEPT !.labels = @ \cup ls] \in PullRequest
                      /\ [q EXCEPT !.comments = @ \cup {t}] \in PullRequest
                      /\ [q EXCEPT !.state = st] \in PullRequest
    BY LenProperties, ElementOfSeq DEF HostTypeOK
  <2> QED
    BY DEF PullRequest
<1>2. CASE prs' = prs
  BY <1>2 DEF HostTypeOK
<1>3. CASE prs' = [prs EXCEPT ![n].labels = @ \ ls]
  BY <1>1, <1>3, EditPR
<1>4. CASE prs' = [prs EXCEPT ![n].labels = @ \cup ls]
  BY <1>1, <1>4, EditPR
<1>5. CASE prs' = [prs EXCEPT ![n].comments = @ \cup {t}]
  BY <1>1, <1>5, EditPR
<1>6. CASE prs' = [prs EXCEPT ![n].state = st]
  BY <1>1, <1>6, EditPR
<1> QED
  BY <1>2, <1>3, <1>4, <1>5, <1>6

\* Time goes on within its bound.
LEMMA TickType ==
  ASSUME HostTypeOK, Tick
  PROVE  now' \in Time /\ {now'} \in Commit
BY HostAssumption DEF HostTypeOK, Tick, Time, Commit

\* A step that leaves the host alone.
LEMMA LocalStep ==
  ASSUME AInv, UNCHANGED <<hostVars, quiet>>, NEW r \in Runs, NEW recs, become(r, recs),
         \A x \in recs : Sound(x, published, Len(prs), now)
  PROVE  AInv'
<1>1. Grows
  BY LenProperties DEF Grows, hostVars, AInv, HostInv, HostTypeOK, Time
<1>2. published' = published /\ Len(prs)' = Len(prs) /\ now' = now
  BY DEF hostVars
<1>3. run' \in [Runs -> Run] /\ \A q \in Runs : Sound(run'[q], published', Len(prs)', now')
  BY <1>1, <1>2, BecomeSound
<1>4. HostInv'
  BY DEF AInv, HostInv, HostTypeOK, hostVars
<1> QED
  BY <1>3, <1>4 DEF AInv, hostVars

-----------------------------------------------------------------------------
(* The steps of a run that leave the host alone                            *)

\* The invariant, for one run.
LEMMA RunSound ==
  ASSUME AInv, NEW r \in Runs
  PROVE  /\ Len(prs) \in Nat /\ Sound(run[r], published, Len(prs), now)
         /\ run[r] \in Run
BY LenProperties DEF AInv, HostInv, HostTypeOK

\* The move to the next command.
LEMMA GotoSound ==
  ASSUME NEW pub, NEW n \in Nat, NEW t, NEW x, Sound(x, pub, n, t), x.pc \notin {"new", "push", "exiting", "exited"},
         NEW step \in Onward, Follows(x, step)
  PROVE  Sound(goto(x, step), pub, n, t)
<1>1. x \in Run /\ x.sha \subseteq pub
  BY DEF Sound, Named
<1>2. Moved(goto(x, step), x, step)
  BY <1>1, GotoMoved DEF Onward
<1> QED
  BY <1>1, <1>2, MoveSound

\* The same, with the comments or threads it has read.
LEMMA ReadSound ==
  ASSUME NEW pub, NEW n \in Nat, NEW t, NEW x, Sound(x, pub, n, t), x.pc \notin {"new", "push", "exiting", "exited"},
         NEW step \in Onward, Follows(x, step),
         NEW s \in SUBSET Time
  PROVE  /\ Sound([goto(x, step) EXCEPT !.notes = s], pub, n, t)
         /\ Sound([goto(x, step) EXCEPT !.todo = s], pub, n, t)
         /\ Sound([goto(x, step) EXCEPT !.tip = s], pub, n, t)
<1>1. x \in Run /\ x.sha \subseteq pub
  BY DEF Sound, Named
<1>2. /\ Moved([goto(x, step) EXCEPT !.notes = s], x, step)
      /\ Moved([goto(x, step) EXCEPT !.todo = s], x, step)
      /\ Moved([goto(x, step) EXCEPT !.tip = s], x, step)
  BY <1>1, ReadMoved DEF Onward
<1> QED
  BY <1>1, <1>2, MoveSound

\* The same, with what went wrong with the label.
LEMMA FlagSound ==
  ASSUME NEW pub, NEW n \in Nat, NEW t, NEW x, Sound(x, pub, n, t), x.pc \notin {"new", "push", "exiting", "exited"},
         NEW step \in Onward, Follows(x, step), NEW b \in BOOLEAN
  PROVE  Sound([goto(x, step) EXCEPT !.unlabeled = b], pub, n, t)
<1>1. x \in Run /\ x.sha \subseteq pub
  BY DEF Sound, Named
<1>2. Moved([goto(x, step) EXCEPT !.unlabeled = b], x, step)
  BY <1>1, UnlabelMoved DEF Onward
<1> QED
  BY <1>1, <1>2, MoveSound

\* implement reads the issue.
LEMMA ViewIssueStep ==
  ASSUME AInv, NEW r \in Runs, ViewIssue(r)
  PROVE  AInv'
<1> DEFINE x == run[r]
           p == result_partial(x, "started", 0, {})
<1>1. /\ Len(prs) \in Nat /\ Sound(x, published, Len(prs), now) /\ x.pc = "view"
      /\ UNCHANGED <<hostVars, quiet>>
  BY RunSound DEF ViewIssue, At, In
<1>2. become(r, {die(x)}) \/ become(r, {goto(p, "clone")})
  BY DEF ViewIssue
<1> HIDE DEF x
<1>3. Sound(die(x), published, Len(prs), now)
  BY <1>1, DieSound
<1>4. Sound(p, published, Len(prs), now) /\ Alike(p, x)
  BY <1>1, StartedSound
<1> HIDE DEF p
<1>5. Sound(goto(p, "clone"), published, Len(prs), now)
  <2>1. Follows(p, "clone") /\ "clone" \in Onward
    BY <1>1, <1>4 DEF Follows, Onward, Steps, Alike
  <2> QED
    BY <1>1, <1>4, <2>1, GotoSound DEF Alike
<1> QED
  BY <1>1, <1>2, <1>3, <1>5, LocalStep

\* What the host shows of a pull request are times.
LEMMA PRTypes ==
  ASSUME AInv, NEW n \in 1..Len(prs)
  PROVE  n \in DOMAIN prs /\ prs[n] \in PullRequest /\ newComments(n) \in SUBSET Time /\ prs[n].threads \in SUBSET Time
<1>1. n \in DOMAIN prs /\ prs[n] \in PullRequest
  BY LenProperties, ElementOfSeq DEF AInv, HostInv, HostTypeOK
<1> QED
  BY <1>1 DEF PullRequest, newComments

\* iterate reads the pull request.
LEMMA ViewPRStep ==
  ASSUME AInv, NEW r \in Runs, ViewPR(r)
  PROVE  AInv'
<1> DEFINE x == run[r]
           p == result_partial(x, "started", x.pr, {})
           y == [goto(p, "threads") EXCEPT !.notes = newComments(x.pr)]
<1>1. /\ Len(prs) \in Nat /\ Sound(x, published, Len(prs), now) /\ x.pc = "view" /\ x.mode = "iterate"
      /\ UNCHANGED <<hostVars, quiet>>
  BY RunSound DEF ViewPR, At, In
<1>2. become(r, {die(x)}) \/ become(r, {y}) \/ become(r, {die(p)})
  BY DEF ViewPR
<1> HIDE DEF x
<1>3. Sound(die(x), published, Len(prs), now)
  BY <1>1, DieSound
<1>4. x.pr \in 1..Len(prs)
  BY <1>1 DEF Sound, Based
<1>5. Sound(p, published, Len(prs), now) /\ Alike(p, x)
  BY <1>1, <1>4, StartedSound
<1> HIDE DEF p
<1>6. p.pc = "view" /\ p.mode = "iterate"
  BY <1>1, <1>5 DEF Alike
<1>7. Sound(die(p), published, Len(prs), now)
  BY <1>1, <1>5, <1>6, DieSound
<1>8. Sound(y, published, Len(prs), now)
  <2>1. Follows(p, "threads") /\ "threads" \in Onward
    BY <1>6 DEF Follows, Onward, Steps
  <2>2. newComments(x.pr) \in SUBSET Time
    BY <1>4, PRTypes
  <2> QED
    BY <1>1, <1>5, <1>6, <2>1, <2>2, ReadSound
<1> HIDE DEF y
<1> QED
  BY <1>1, <1>2, <1>3, <1>7, <1>8, LocalStep

\* The reviewer fetches the diff.
LEMMA FetchDiffStep ==
  ASSUME AInv, NEW r \in Runs, FetchDiff(r)
  PROVE  AInv'
<1> DEFINE x == run[r]
           p == result_partial(x, "started", x.pr, {})
<1>1. /\ Len(prs) \in Nat /\ Sound(x, published, Len(prs), now) /\ x.pc = "view" /\ x.mode = "review"
      /\ x.pr \in Nat /\ UNCHANGED <<hostVars, quiet>>
  BY RunSound DEF FetchDiff, At, In, Run
<1>2. become(r, {errexit(p)}) \/ become(r, {goto(p, "claude")})
  BY DEF FetchDiff
<1> HIDE DEF x
<1>3. Sound(p, published, Len(prs), now) /\ Alike(p, x)
  BY <1>1, StartedSound
<1> HIDE DEF p
<1>4. p.pc = "view" /\ p.mode = "review"
  BY <1>1, <1>3 DEF Alike
<1>5. Sound(errexit(p), published, Len(prs), now)
  BY <1>1, <1>3, <1>4, ErrexitSound
<1>6. Sound(goto(p, "claude"), published, Len(prs), now)
  <2>1. Follows(p, "claude") /\ "claude" \in Onward
    BY <1>4 DEF Follows, Onward, Steps, Works
  <2> QED
    BY <1>1, <1>3, <1>4, <2>1, GotoSound
<1> QED
  BY <1>1, <1>2, <1>5, <1>6, LocalStep

\* The reporter and the implementer without a repository.
LEMMA GatherAnswerStep ==
  ASSUME AInv, NEW r \in Runs, Gather(r) \/ Answer(r)
  PROVE  AInv'
<1> DEFINE x == run[r]
<1>1. /\ Len(prs) \in Nat /\ Sound(x, published, Len(prs), now) /\ x.pc = "view" /\ x.mode \in {"report", "answer"}
      /\ UNCHANGED <<hostVars, quiet>>
  BY RunSound DEF Gather, Answer, At, In
<1>2. become(r, {goto(x, "claude")}) \/ become(r, {die(x), goto(x, "final")})
  BY DEF Gather, Answer
<1> HIDE DEF x
<1>3. Sound(die(x), published, Len(prs), now)
  BY <1>1, DieSound
<1>4. Follows(x, "claude") /\ Follows(x, "final") /\ "claude" \in Onward /\ "final" \in Onward
  BY <1>1 DEF Follows, Onward, Steps, Works
<1>5. Sound(goto(x, "claude"), published, Len(prs), now) /\ Sound(goto(x, "final"), published, Len(prs), now)
  BY <1>1, <1>4, GotoSound
<1> QED
  BY <1>1, <1>2, <1>3, <1>5, LocalStep

\* iterate reads the threads.
LEMMA ThreadsStep ==
  ASSUME AInv, NEW r \in Runs, Threads(r)
  PROVE  AInv'
<1> DEFINE x == run[r]
           y == [goto(x, "clone") EXCEPT !.todo = prs[x.pr].threads]
<1>1. /\ Len(prs) \in Nat /\ Sound(x, published, Len(prs), now) /\ x.pc = "threads"
      /\ UNCHANGED <<hostVars, quiet>>
  BY RunSound DEF Threads, In
<1>2. become(r, {die(x)}) \/ become(r, {goto(x, "nothing")}) \/ become(r, {y})
  BY DEF Threads
<1> HIDE DEF x
<1>3. Sound(die(x), published, Len(prs), now)
  BY <1>1, DieSound
<1>4. x.mode = "iterate" /\ x.pr \in 1..Len(prs)
  BY <1>1 DEF Sound, Based
<1>5. Follows(x, "nothing") /\ Follows(x, "clone") /\ "nothing" \in Onward /\ "clone" \in Onward
  BY <1>1, <1>4 DEF Follows, Onward, Steps
<1>6. Sound(goto(x, "nothing"), published, Len(prs), now)
  BY <1>1, <1>5, GotoSound
<1>7. Sound(y, published, Len(prs), now)
  <2>1. prs[x.pr].threads \in SUBSET Time
    BY <1>4, PRTypes
  <2> QED
    BY <1>1, <1>5, <2>1, ReadSound
<1> HIDE DEF y
<1> QED
  BY <1>1, <1>2, <1>3, <1>6, <1>7, LocalStep

\* The run y is x with the commit h checked out.
Rebased(y, x, step, h) ==
  /\ y \in Run /\ y.pc = step /\ y.head = h
  /\ y.mode = x.mode /\ y.pr = x.pr /\ y.sha = x.sha /\ y.partial = x.partial
  /\ y.written = x.written /\ y.result = x.result /\ y.rc = x.rc /\ EqRefused(y, x)

\* git clone and git checkout.
LEMMA HeadFields ==
  ASSUME NEW x \in Run, NEW step \in Steps, NEW h \in Commit
  PROVE  /\ Rebased([goto(x, step) EXCEPT !.head = h], x, step, h)
         /\ Rebased([goto(x, step) EXCEPT !.head = h, !.tip = h], x, step, h)
<1>1. Rebased([goto(x, step) EXCEPT !.head = h], x, step, h)
  BY DEF goto, Run, Rebased, EqRefused
<1>2. Rebased([goto(x, step) EXCEPT !.head = h, !.tip = h], x, step, h)
  BY DEF goto, Run, Rebased, EqRefused
<1> QED
  BY <1>1, <1>2

\* A run works on a commit that the host has.
LEMMA RebasedSound ==
  ASSUME NEW pub, NEW n \in Nat, NEW t, NEW x, Sound(x, pub, n, t), x.pc \in {"clone", "initial", "checkout"},
         NEW step \in {"list", "checkout", "claude"}, NEW h, h # {}, h \subseteq pub,
         NEW y, Rebased(y, x, step, h)
  PROVE  Sound(y, pub, n, t)
<1>1. Named(y, pub)
  BY DEF Sound, Named, Rebased
<1>2. Coded(y)
  BY DEF Sound, Coded, Rebased
<1>3. Based(y, pub, n)
  <2>1. Works(y) = Works(x)
    BY DEF Works, Rebased
  <2>2. x.refused = FALSE => y.refused = FALSE
    BY DEF Rebased, EqRefused
  <2> QED
    BY <2>1, <2>2 DEF Sound, Based, Rebased, Coded
<1>4. Dated(y, t)
  BY DEF Sound, Dated, Rebased
<1> QED
  BY <1>1, <1>2, <1>3, <1>4 DEF Sound, Rebased

\* clone_repo.
LEMMA CloneStep ==
  ASSUME AInv, NEW r \in Runs, Clone(r)
  PROVE  AInv'
<1> DEFINE x == run[r]
           step == IF x.mode = "implement" THEN "list" ELSE "checkout"
           y == [goto(x, step) EXCEPT !.head = base]
<1>1. /\ Len(prs) \in Nat /\ Sound(x, published, Len(prs), now) /\ x \in Run /\ x.pc = "clone"
      /\ UNCHANGED <<hostVars, quiet>>
  BY RunSound DEF Clone, In
<1>2. become(r, {die(x), errexit(x)}) \/ become(r, {goto(x, "initial")}) \/ (base # {} /\ become(r, {y}))
  BY DEF Clone
<1>3. step \in {"list", "checkout"}
  OBVIOUS
<1> HIDE DEF x, step
<1>4. Sound(die(x), published, Len(prs), now) /\ Sound(errexit(x), published, Len(prs), now)
  BY <1>1, DieSound, ErrexitSound
<1>5. Sound(goto(x, "initial"), published, Len(prs), now)
  <2>1. Follows(x, "initial") /\ "initial" \in Onward
    BY <1>1 DEF Follows, Onward, Steps
  <2> QED
    BY <1>1, <2>1, GotoSound
<1>6. base # {} => Sound(y, published, Len(prs), now)
  <2>1. step \in Steps /\ base \in Commit /\ base \subseteq published
    BY <1>3 DEF Steps, AInv, HostInv, HostTypeOK
  <2>2. Rebased(y, x, step, base)
    BY <1>1, <2>1, HeadFields
  <2> HIDE DEF y
  <2> QED
    BY <1>1, <1>3, <2>1, <2>2, RebasedSound
<1> HIDE DEF y
<1> QED
  BY <1>1, <1>2, <1>4, <1>5, <1>6, LocalStep

\* The branch is checked out.
LEMMA CheckoutStep ==
  ASSUME AInv, NEW r \in Runs, Checkout(r)
  PROVE  AInv'
<1> DEFINE x == run[r]
           y == [goto(x, "claude") EXCEPT !.head = branch, !.tip = branch]
<1>1. /\ Len(prs) \in Nat /\ Sound(x, published, Len(prs), now) /\ x \in Run /\ x.pc = "checkout"
      /\ UNCHANGED <<hostVars, quiet>>
  BY RunSound DEF Checkout, In
<1>2. become(r, {die(x)}) \/ (branch # {} /\ become(r, {y}))
  BY DEF Checkout
<1> HIDE DEF x
<1>3. Sound(die(x), published, Len(prs), now)
  BY <1>1, DieSound
<1>4. branch # {} => Sound(y, published, Len(prs), now)
  <2>1. "claude" \in Steps /\ branch \in Commit /\ branch \subseteq published
    BY DEF Steps, AInv, HostInv, HostTypeOK
  <2>2. Rebased(y, x, "claude", branch)
    BY <1>1, <2>1, HeadFields
  <2> HIDE DEF y
  <2> QED
    BY <1>1, <2>1, <2>2, RebasedSound
<1> HIDE DEF y
<1> QED
  BY <1>1, <1>2, <1>3, <1>4, LocalStep

\* The run y is x with a pull request.
Linked(y, x, step, m) ==
  /\ y \in Run /\ y.pc = step /\ y.pr = m
  /\ y.mode = x.mode /\ y.head = x.head /\ y.sha = x.sha /\ y.partial = x.partial
  /\ y.written = x.written /\ y.result = x.result /\ y.rc = x.rc /\ EqRefused(y, x)

Links(x, step) == (x.pc = "list" /\ step = "checkout") \/ (x.pc = "create" /\ step = "unlabel")

\* The pull request that the run found, or opened.
LEMMA LinkFields ==
  ASSUME NEW x \in Run, NEW step \in Steps, NEW m \in Nat
  PROVE  Linked([goto(x, step) EXCEPT !.pr = m], x, step, m)
BY DEF goto, Run, Linked, EqRefused

\* It exists.
LEMMA LinkSound ==
  ASSUME NEW pub, NEW n \in Nat, NEW t, NEW x, Sound(x, pub, n, t), NEW m \in 1..n, NEW step, Links(x, step),
         NEW y, Linked(y, x, step, m)
  PROVE  Sound(y, pub, n, t)
<1>1. Named(y, pub)
  BY DEF Sound, Named, Linked, Links
<1>2. Coded(y)
  BY DEF Sound, Coded, Linked, Links
<1>3. Based(y, pub, n)
  <2>1. Works(y) = Works(x)
    BY DEF Works, Linked
  <2>2. x.refused = FALSE => y.refused = FALSE
    BY DEF Linked, EqRefused
  <2>3. MadeOne(x) => MadeOne(y)
    BY DEF MadeOne, Linked, EqRefused
  <2>4. m \in 0..n /\ m # 0
    OBVIOUS
  <2>5. x.result.kind # "final"
    BY DEF Sound, Coded, Links
  <2>6. /\ y.pc = step /\ y.pr = m /\ y.sha = x.sha /\ y.head = x.head
        /\ y.result.kind # "final"
    BY <2>5 DEF Linked
  <2>7. x.head \subseteq pub
    BY DEF Sound, Based
  <2>8. CASE x.pc = "list" /\ step = "checkout"
    <3>1. Works(x) => x.head # {} /\ x.refused = FALSE
      BY <2>8 DEF Sound, Based
    <3> QED
      BY <2>1, <2>2, <2>4, <2>6, <2>7, <2>8, <3>1 DEF Based
  <2>9. CASE x.pc = "create" /\ step = "unlabel"
    <3>1. Works(x) => x.sha # {} /\ MadeOne(x)
      BY <2>9 DEF Sound, Based
    <3> QED
      BY <2>1, <2>3, <2>4, <2>6, <2>7, <2>9, <3>1 DEF Based
  <2> QED
    BY <2>8, <2>9 DEF Links
<1>4. Dated(y, t)
  BY DEF Sound, Dated, Linked
<1> QED
  BY <1>1, <1>2, <1>3, <1>4 DEF Sound, Linked

\* implement looks for an open pull request.
LEMMA ListStep ==
  ASSUME AInv, NEW r \in Runs, List(r)
  PROVE  AInv'
<1> DEFINE x == run[r]
           y == [goto(x, "claude") EXCEPT !.tip = branch]
           z(n) == [goto(x, "checkout") EXCEPT !.pr = n]
<1>1. /\ Len(prs) \in Nat /\ Sound(x, published, Len(prs), now) /\ x \in Run /\ x.pc = "list"
      /\ UNCHANGED <<hostVars, quiet>>
  BY RunSound DEF List, In
<1>2. become(r, {die(x)}) \/ become(r, {y}) \/ \E n \in openPRs : become(r, {z(n)})
  BY DEF List
<1> HIDE DEF x
<1>3. Sound(die(x), published, Len(prs), now)
  BY <1>1, DieSound
<1>4. Sound(y, published, Len(prs), now)
  <2>1. Follows(x, "claude") /\ "claude" \in Onward
    BY <1>1 DEF Follows, Onward, Steps
  <2>2. branch \in SUBSET Time
    BY DEF AInv, HostInv, HostTypeOK, Commit
  <2> QED
    BY <1>1, <2>1, <2>2, ReadSound
<1>5. ASSUME NEW n \in openPRs
      PROVE  Sound(z(n), published, Len(prs), now)
  <2>1. n \in 1..Len(prs) /\ n \in Nat /\ "checkout" \in Steps
    BY LenProperties DEF openPRs, AInv, HostInv, HostTypeOK, Steps
  <2>2. Linked(z(n), x, "checkout", n)
    BY <1>1, <2>1, LinkFields
  <2>3. Links(x, "checkout")
    BY <1>1 DEF Links
  <2> HIDE DEF z
  <2> QED
    BY <1>1, <2>1, <2>2, <2>3, LinkSound
<1> HIDE DEF y, z
<1> QED
  BY <1>1, <1>2, <1>3, <1>4, <1>5, LocalStep

\* claude works on the repository.
LEMMA ClaudeStep ==
  ASSUME AInv, NEW r \in Runs, Claude(r)
  PROVE  AInv'
<1> DEFINE x == run[r]
           y(s) == [goto(x, "commit") EXCEPT !.todo = s]
<1>1. /\ Len(prs) \in Nat /\ Sound(x, published, Len(prs), now) /\ x \in Run /\ x.pc = "claude"
      /\ UNCHANGED <<hostVars, quiet>>
  BY RunSound DEF Claude, In
<1>2. become(r, {die(x)}) \/ become(r, {y(s) : s \in SUBSET x.todo})
  BY DEF Claude
<1> HIDE DEF x
<1>3. Sound(die(x), published, Len(prs), now)
  BY <1>1, DieSound
<1>4. ASSUME NEW s \in SUBSET x.todo
      PROVE  Sound(y(s), published, Len(prs), now)
  <2>1. Follows(x, "commit") /\ "commit" \in Onward
    BY <1>1 DEF Follows, Onward, Steps
  <2>2. s \in SUBSET Time
    BY <1>1 DEF Run
  <2> QED
    BY <1>1, <2>1, <2>2, ReadSound
<1> HIDE DEF y
<1> QED
  BY <1>1, <1>2, <1>3, <1>4, LocalStep

\* The review or the report is written, and the report posted.
LEMMA ComposeStep ==
  ASSUME AInv, NEW r \in Runs, Compose(r) \/ PostReport(r)
  PROVE  AInv'
<1> DEFINE x == run[r]
<1>1. /\ Len(prs) \in Nat /\ Sound(x, published, Len(prs), now) /\ x.pc \in {"claude", "post"}
      /\ x.mode \in {"review", "report"} /\ UNCHANGED <<hostVars, quiet>>
  BY RunSound DEF Compose, PostReport, At, In
<1>2. \/ become(r, {errexit(x), die(x), goto(x, "post")})
      \/ become(r, {goto(x, "final")} \cup {y \in {errexit(x)} : CallFails(r)})
  BY DEF Compose, PostReport
<1> HIDE DEF x
<1>3. Sound(die(x), published, Len(prs), now) /\ Sound(errexit(x), published, Len(prs), now)
  BY <1>1, DieSound, ErrexitSound
<1>4. Follows(x, "post") /\ Follows(x, "final") /\ "post" \in Onward /\ "final" \in Onward
  BY <1>1 DEF Follows, Onward, Steps, Works
<1>5. Sound(goto(x, "post"), published, Len(prs), now) /\ Sound(goto(x, "final"), published, Len(prs), now)
  BY <1>1, <1>4, GotoSound
<1> QED
  BY <1>1, <1>2, <1>3, <1>5, LocalStep

\* The partial Result after the push.
LEMMA PushedStep ==
  ASSUME AInv, NEW r \in Runs, Pushed(r)
  PROVE  AInv'
<1> DEFINE x == run[r]
           step == IF x.mode = "iterate" THEN "reply" ELSE IF x.pr = 0 THEN "create" ELSE "unlabel"
           p == result_partial(x, "pushed", x.pr, x.sha)
<1>1. /\ Len(prs) \in Nat /\ Sound(x, published, Len(prs), now) /\ x.pc = "pushed" /\ x.pr \in Nat /\ x.sha \in Commit
      /\ UNCHANGED <<hostVars, quiet>>
  BY RunSound DEF Pushed, In, Run
<1>2. become(r, {goto(p, step)})
  BY DEF Pushed
<1>3. \/ step = "reply" /\ x.mode = "iterate"
      \/ step = "create"
      \/ step = "unlabel" /\ x.pr # 0
  OBVIOUS
<1> HIDE DEF x, step
<1>4. x.sha \subseteq published
  BY <1>1 DEF Sound, Named
<1>5. Sound(p, published, Len(prs), now) /\ Alike(p, x)
  BY <1>1, <1>4, PushedSound
<1> HIDE DEF p
<1>6. p.pc = "pushed" /\ p.mode = x.mode /\ p.pr = x.pr
  BY <1>1, <1>5 DEF Alike
<1>7. Follows(p, step) /\ step \in Onward
  BY <1>3, <1>6 DEF Follows, Onward, Steps
<1>8. Sound(goto(p, step), published, Len(prs), now)
  BY <1>1, <1>5, <1>6, <1>7, GotoSound
<1> QED
  BY <1>1, <1>2, <1>8, LocalStep

\* The last Result.
LEMMA FinalStep ==
  ASSUME AInv, NEW r \in Runs, Final(r)
  PROVE  AInv'
<1> DEFINE x == run[r]
           res == [kind |-> "final", pr |-> x.pr, sha |-> x.sha]
<1>1. /\ Len(prs) \in Nat /\ Sound(x, published, Len(prs), now) /\ x.pc = "final" /\ x.pr \in Nat /\ x.sha \in Commit
      /\ UNCHANGED <<hostVars, quiet>>
  BY RunSound DEF Final, In, Run
<1>2. become(r, {exit(result_write(x, res), 0)})
  BY DEF Final
<1> HIDE DEF x
<1>3. res \in Result /\ res.kind \in Told /\ res.pr = x.pr /\ res.sha = x.sha
  BY <1>1 DEF Result, Kinds, Told
<1> HIDE DEF res
<1>4. /\ x.sha \subseteq published
      /\ Works(x) => x.pr \in 1..Len(prs) /\ x.sha # {} /\ MadeOne(x)
  <2>1. x.sha \subseteq published
    BY <1>1 DEF Sound, Named
  <2>2. x.pr \in 0..Len(prs) /\ (Works(x) => x.pr # 0 /\ x.sha # {} /\ MadeOne(x))
    BY <1>1 DEF Sound, Based
  <2> QED
    BY <1>1, <2>1, <2>2
<1>5. Sound(exit(result_write(x, res), 0), published, Len(prs), now)
  BY <1>1, <1>3, <1>4, DoneSound
<1> QED
  BY <1>1, <1>2, <1>5, LocalStep

\* The traps, and SIGKILL.
LEMMA StopStep ==
  ASSUME AInv, NEW r \in Runs, OnExit(r) \/ Terminate(r) \/ Kill(r)
  PROVE  AInv'
<1>1. Len(prs) \in Nat /\ Sound(run[r], published, Len(prs), now) /\ UNCHANGED <<hostVars, quiet>>
  BY RunSound DEF OnExit, Terminate, Kill
<1>2. CASE OnExit(r)
  <2>1. Sound(on_exit(run[r]), published, Len(prs), now)
    BY <1>1, <1>2, OnExitSound DEF OnExit
  <2> QED
    BY <1>1, <1>2, <2>1, LocalStep DEF OnExit
<1>3. CASE Terminate(r)
  <2>1. Sound(on_term(run[r]), published, Len(prs), now)
    BY <1>1, <1>3, TermSound DEF Terminate
  <2> QED
    BY <1>1, <1>3, <2>1, LocalStep DEF Terminate
<1>4. CASE Kill(r)
  <2>1. Sound(gone(exit(run[r], 137)), published, Len(prs), now)
    BY <1>1, <1>4, KillSound DEF Kill
  <2> QED
    BY <1>1, <1>4, <2>1, LocalStep DEF Kill
<1> QED
  BY <1>2, <1>3, <1>4

-----------------------------------------------------------------------------
(* The steps that change the host                                          *)

\* A step of a run, and what it does to the host.
LEMMA HostStep ==
  ASSUME AInv, Grows, HostInv', quiet' \in SUBSET Time, NEW r \in Runs, NEW recs, become(r, recs),
         \A x \in recs : Sound(x, published', Len(prs)', now')
  PROVE  AInv'
<1>1. run' \in [Runs -> Run] /\ \A q \in Runs : Sound(run'[q], published', Len(prs)', now')
  BY BecomeSound
<1> QED
  BY <1>1 DEF AInv

\* A step of a run that edits a pull request.
LEMMA EditStep ==
  ASSUME AInv, prs' \in Seq(PullRequest), Len(prs') = Len(prs), now' \in Time, now <= now',
         quiet' \in SUBSET Time, UNCHANGED <<base, branch, replies, published>>,
         NEW r \in Runs, NEW recs, become(r, recs), \A x \in recs : Sound(x, published, Len(prs), now')
  PROVE  AInv'
<1>1. Grows
  BY LenProperties DEF Grows, AInv, HostInv, HostTypeOK, Time
<1>2. HostInv'
  <2>1. HostTypeOK'
    BY DEF AInv, HostInv, HostTypeOK
  <2>2. 0..now \subseteq 0..now'
    BY DEF AInv, HostInv, HostTypeOK, Time
  <2> QED
    BY <2>1, <2>2 DEF AInv, HostInv
<1>3. \A x \in recs : Sound(x, published', Len(prs)', now')
  OBVIOUS
<1> QED
  BY <1>1, <1>2, <1>3, HostStep

\* A label, or the API, starts a run.
LEMMA StartStep ==
  ASSUME AInv, NEW r \in Runs, NEW m \in Modes, NEW n \in {0} \cup DOMAIN prs, Start(r, m, n)
  PROVE  AInv'
<1> DEFINE x == run[r]
           y == [x EXCEPT !.pc = "view", !.mode = m, !.pr = n]
<1>1. /\ Len(prs) \in Nat /\ Sound(x, published, Len(prs), now) /\ x \in Run /\ x.pc = "new"
      /\ UNCHANGED <<base, branch, replies, now, published, quiet>>
  BY RunSound DEF Start, In
<1>2. become(r, {y})
  BY DEF Start, become, AInv
<1>3. n \in 0..Len(prs) /\ (m = "iterate" => n # 0)
  BY LenProperties DEF Start, subjects, openPRs, AInv, HostInv, HostTypeOK
<1>4. prs' \in Seq(PullRequest) /\ Len(prs') = Len(prs)
  <2>1. prs' = prs \/ prs' = [prs EXCEPT ![n].labels = @ \cup {"iterate"}]
    BY DEF Start
  <2>2. HostTypeOK /\ now \in Time /\ {"iterate"} \in SUBSET {"review", "iterate"}
        /\ "open" \in {"open", "closed", "merged"}
    BY DEF AInv, HostInv, HostTypeOK
  <2> QED
    BY <2>1, <2>2, EditField
<1> HIDE DEF x
<1>5. Sound(y, published, Len(prs), now)
  <2>1. m \in {"implement", "iterate", "review", "report", "answer"} /\ "view" \in Steps /\ n \in Nat
    BY <1>3, AgentsAssumption DEF Steps
  <2>2. /\ y \in Run /\ y.pc = "view" /\ y.mode = m /\ y.pr = n
        /\ y.head = x.head /\ y.sha = x.sha /\ y.partial = x.partial
        /\ y.written = x.written /\ y.result = x.result /\ y.rc = x.rc /\ y.refused = x.refused
    <3>1. y \in Run
      BY <1>1, <2>1 DEF Run
    <3>2. y.pc = "view" /\ y.mode = m /\ y.pr = n
      BY <1>1 DEF Run
    <3>3. /\ y.head = x.head /\ y.sha = x.sha /\ y.partial = x.partial
          /\ y.written = x.written /\ y.result = x.result /\ y.rc = x.rc /\ y.refused = x.refused
      BY <1>1 DEF Run
    <3> QED
      BY <3>1, <3>2, <3>3
  <2> HIDE DEF y
  <2>3. Named(y, published)
    BY <1>1, <2>2 DEF Sound, Named
  <2>4. Coded(y)
    BY <1>1, <2>2 DEF Sound, Coded
  <2>5. Based(y, published, Len(prs))
    BY <1>1, <1>3, <2>2 DEF Sound, Based, Coded
  <2> QED
    BY <1>1, <2>2, <2>3, <2>4, <2>5 DEF Sound, Dated
<1> HIDE DEF y
<1>6. now' \in Time /\ now <= now' /\ quiet' \in SUBSET Time
  <2>1. now \in Time /\ quiet \in SUBSET Time
    BY DEF AInv, HostInv, HostTypeOK
  <2>2. now \in Nat
    BY <2>1 DEF Time
  <2>3. now' = now /\ quiet' = quiet
    BY <1>1
  <2> QED
    BY <2>1, <2>2, <2>3
<1> QED
  BY <1>1, <1>2, <1>4, <1>5, <1>6, EditStep

\* What does not change keeps its type.
LEMMA KeptTypes ==
  ASSUME AInv
  PROVE  HostTypeOK /\ now \in Time /\ now <= now /\ published \in Commit /\ quiet \in SUBSET Time
BY DEF AInv, HostInv, HostTypeOK, Time

\* Nothing to address.
LEMMA NothingStep ==
  ASSUME AInv, NEW r \in Runs, Nothing(r)
  PROVE  AInv'
<1> DEFINE x == run[r]
           res == [kind |-> "nothing", pr |-> x.pr, sha |-> {}]
           ls == {"iterate"}
<1>1. /\ Len(prs) \in Nat /\ Sound(x, published, Len(prs), now) /\ x.pc = "nothing" /\ x.pr \in Nat
      /\ UNCHANGED <<base, branch, replies, now, published, quiet>>
  BY RunSound DEF Nothing, In, Run
<1>2. become(r, {exit(result_write(x, res), 0)}) /\ (prs' = prs \/ prs' = [prs EXCEPT ![x.pr].labels = @ \ ls])
  BY DEF Nothing, removeLabels
<1> HIDE DEF x
<1>3. prs' \in Seq(PullRequest) /\ Len(prs') = Len(prs)
  <2>1. ls \in SUBSET {"review", "iterate"} /\ "open" \in {"open", "closed", "merged"}
    OBVIOUS
  <2> HIDE DEF ls
  <2> QED
    BY <1>2, <2>1, KeptTypes, EditField
<1>4. res \in Result /\ res.kind \in Told /\ res.kind # "final" /\ res.sha \subseteq published
  BY <1>1 DEF Result, Kinds, Told, Commit
<1> HIDE DEF res
<1>5. Sound(exit(result_write(x, res), 0), published, Len(prs), now)
  BY <1>1, <1>4, DoneSound
<1> QED
  BY <1>1, <1>2, <1>3, <1>5, KeptTypes, EditStep

\* The labels are removed.
LEMMA UnlabelStep ==
  ASSUME AInv, NEW r \in Runs, Unlabel(r)
  PROVE  AInv'
<1> DEFINE x == run[r]
           y(b) == [goto(x, "relabel") EXCEPT !.unlabeled = b]
<1>1. /\ Len(prs) \in Nat /\ Sound(x, published, Len(prs), now) /\ x.pc = "unlabel"
      /\ UNCHANGED <<base, branch, replies, now, published, quiet>>
  BY RunSound DEF Unlabel, In
<1>2. PICK ls \in SUBSET {"review", "iterate"} :
        removeLabels(x.pr, ls) /\ become(r, {y("review" \notin ls)})
  BY DEF Unlabel
<1>3. \E b \in BOOLEAN : become(r, {y(b)})
  <2>1. ("review" \notin ls) \in BOOLEAN
    BY Zenon
  <2> HIDE DEF y
  <2> QED
    BY <1>2, <2>1
<1> HIDE DEF x
<1>4. prs' \in Seq(PullRequest) /\ Len(prs') = Len(prs)
  <2>1. "open" \in {"open", "closed", "merged"} /\ prs' = [prs EXCEPT ![x.pr].labels = @ \ ls]
    BY <1>2 DEF removeLabels
  <2> QED
    BY <2>1, KeptTypes, EditField
<1>5. ASSUME NEW b \in BOOLEAN
      PROVE  Sound(y(b), published, Len(prs), now)
  <2>1. Follows(x, "relabel") /\ "relabel" \in Onward
    BY <1>1 DEF Follows, Onward, Steps, Sound, Based
  <2> QED
    BY <1>1, <2>1, FlagSound
<1> HIDE DEF y
<1> QED
  BY <1>1, <1>3, <1>4, <1>5, KeptTypes, EditStep

\* The review label is added.
LEMMA RelabelStep ==
  ASSUME AInv, NEW r \in Runs, Relabel(r)
  PROVE  AInv'
<1> DEFINE x == run[r]
           y == [goto(x, "final") EXCEPT !.unlabeled = TRUE]
<1>1. /\ Len(prs) \in Nat /\ Sound(x, published, Len(prs), now) /\ x.pc = "relabel"
      /\ UNCHANGED <<base, branch, replies, now, published, quiet>>
  BY RunSound DEF Relabel, In
<1>2. /\ become(r, {goto(x, "final")}) \/ become(r, {y})
      /\ addReviewLabel(x.pr) \/ UNCHANGED prs
  BY DEF Relabel
<1> HIDE DEF x
<1>3. prs' \in Seq(PullRequest) /\ Len(prs') = Len(prs)
  <2> DEFINE ls == {"review"}
  <2>1. ls \in SUBSET {"review", "iterate"} /\ "open" \in {"open", "closed", "merged"}
    OBVIOUS
  <2>2. prs' = prs \/ prs' = [prs EXCEPT ![x.pr].labels = @ \cup ls]
    BY <1>2 DEF addReviewLabel
  <2> HIDE DEF ls
  <2> QED
    BY <2>1, <2>2, KeptTypes, EditField
<1>4. Sound(goto(x, "final"), published, Len(prs), now) /\ Sound(y, published, Len(prs), now)
  <2>1. Follows(x, "final") /\ "final" \in Onward
    BY <1>1 DEF Follows, Onward, Steps, Sound, Based
  <2> DEFINE b == TRUE
  <2>2. b \in BOOLEAN
    OBVIOUS
  <2> HIDE DEF b
  <2>3. Sound([goto(x, "final") EXCEPT !.unlabeled = b], published, Len(prs), now)
    BY <1>1, <2>1, <2>2, FlagSound
  <2>4. Sound(goto(x, "final"), published, Len(prs), now)
    BY <1>1, <2>1, GotoSound
  <2> QED
    BY <2>3, <2>4 DEF b
<1> HIDE DEF y
<1> QED
  BY <1>1, <1>2, <1>3, <1>4, KeptTypes, EditStep

\* Time goes on, and what was dated stays so.
LEMMA TickGrows ==
  ASSUME AInv, Tick, NEW x, Sound(x, published, Len(prs), now)
  PROVE  now' \in Time /\ now <= now' /\ now' \notin 0..now /\ Sound(x, published, Len(prs), now')
<1>1. now \in Nat /\ now' \in Nat /\ now' = now + 1 /\ now' \in Time
  BY TickType DEF AInv, HostInv, HostTypeOK, Time, Tick
<1>2. Len(prs) \in Nat /\ Len(prs) <= Len(prs) /\ published \subseteq published
  BY LenProperties DEF AInv, HostInv, HostTypeOK
<1>3. now <= now' /\ now' \notin 0..now
  BY <1>1
<1>4. Sound(x, published, Len(prs), now')
  BY <1>1, <1>2, <1>3, MoreSound
<1> QED
  BY <1>1, <1>3, <1>4

\* The reviewer posts.
LEMMA PostReviewStep ==
  ASSUME AInv, NEW r \in Runs, PostReview(r)
  PROVE  AInv'
<1> DEFINE x == run[r]
<1>1. /\ Len(prs) \in Nat /\ Sound(x, published, Len(prs), now) /\ x.pc = "post" /\ x.mode = "review"
      /\ UNCHANGED <<base, branch, replies, published>>
  BY RunSound DEF PostReview, At, In
<1>2. \/ /\ Tick /\ prs' = [prs EXCEPT ![x.pr].comments = @ \cup {now'}]
         /\ quiet' = quiet \cup {c \in {now'} : AtWork = {}}
         /\ become(r, {goto(x, "final")} \cup {y \in {errexit(x)} : CallFails(r)})
      \/ become(r, {errexit(x)}) /\ UNCHANGED <<prs, now, quiet>>
  BY DEF PostReview
<1> HIDE DEF x
<1>3. Sound(errexit(x), published, Len(prs), now)
  BY <1>1, ErrexitSound
<1>4. Sound(goto(x, "final"), published, Len(prs), now)
  <2>1. Follows(x, "final") /\ "final" \in Onward
    BY <1>1 DEF Follows, Onward, Steps, Works
  <2> QED
    BY <1>1, <2>1, GotoSound
<1>5. CASE Tick /\ prs' = [prs EXCEPT ![x.pr].comments = @ \cup {now'}]
           /\ quiet' = quiet \cup {c \in {now'} : AtWork = {}}
           /\ become(r, {goto(x, "final")} \cup {y \in {errexit(x)} : CallFails(r)})
  <2>1. /\ now' \in Time /\ now <= now' /\ Sound(goto(x, "final"), published, Len(prs), now')
        /\ Sound(errexit(x), published, Len(prs), now')
    BY <1>3, <1>4, <1>5, TickGrows
  <2>2. prs' \in Seq(PullRequest) /\ Len(prs') = Len(prs)
    <3> DEFINE ls == {}
    <3>1. ls \in SUBSET {"review", "iterate"} /\ "open" \in {"open", "closed", "merged"}
      OBVIOUS
    <3> HIDE DEF ls
    <3> QED
      BY <1>5, <2>1, <3>1, KeptTypes, EditField
  <2>3. quiet' \in SUBSET Time
    BY <1>5, <2>1, KeptTypes
  <2> QED
    BY <1>1, <1>5, <2>1, <2>2, <2>3, KeptTypes, EditStep
<1>6. CASE become(r, {errexit(x)}) /\ UNCHANGED <<prs, now, quiet>>
  <2>1. UNCHANGED <<hostVars, quiet>>
    BY <1>1, <1>6 DEF hostVars
  <2> QED
    BY <1>3, <1>6, <2>1, LocalStep
<1> QED
  BY <1>2, <1>5, <1>6

\* The run y is x after commit_change, with HEAD at h.
Committed(y, x, h) ==
  /\ y \in Run /\ y.pc = "push" /\ y.sha = h
  /\ y.mode = x.mode /\ y.pr = x.pr /\ y.head = x.head /\ y.partial = x.partial
  /\ y.written = x.written /\ y.result = x.result /\ y.rc = x.rc

\* A commit, and a git commit that fails.
LEMMA CommitFields ==
  ASSUME NEW x \in Run, NEW h \in Commit
  PROVE  /\ Committed([goto(x, "push") EXCEPT !.sha = h], x, h)
         /\ EqRefused([goto(x, "push") EXCEPT !.sha = h], x)
         /\ Committed([goto(x, "push") EXCEPT !.sha = h, !.refused = TRUE], x, h)
         /\ [goto(x, "push") EXCEPT !.sha = h, !.refused = TRUE].refused = TRUE
<1>1. "push" \in Steps
  BY DEF Steps
<1>2. Committed([goto(x, "push") EXCEPT !.sha = h], x, h)
  BY <1>1 DEF goto, Run, Committed
<1>3. EqRefused([goto(x, "push") EXCEPT !.sha = h], x)
  BY <1>1 DEF goto, Run, EqRefused
<1>4. Committed([goto(x, "push") EXCEPT !.sha = h, !.refused = TRUE], x, h)
  BY <1>1 DEF goto, Run, Committed
<1>5. [goto(x, "push") EXCEPT !.sha = h, !.refused = TRUE].refused = TRUE
  BY <1>1 DEF goto, Run
<1> QED
  BY <1>2, <1>3, <1>4, <1>5

\* Either way the run tells truly, to itself, whether it made a commit.
LEMMA CommittedSound ==
  ASSUME NEW pub, NEW n \in Nat, NEW t, NEW x, Sound(x, pub, n, t), x.pc = "commit",
         NEW h, x.head \subseteq h, h \subseteq 0..t, NEW y, Committed(y, x, h),
         Works(x) => (y.refused = FALSE /\ h # x.head) \/ (y.refused = TRUE /\ h = x.head)
  PROVE  Sound(y, pub, n, t)
<1>1. Named(y, pub)
  BY DEF Sound, Named, Committed
<1>2. Coded(y)
  BY DEF Sound, Coded, Committed
<1>3. Based(y, pub, n)
  <2>1. Works(y) = Works(x)
    BY DEF Works, Committed
  <2>2. Works(x) => h # {} /\ MadeOne(y)
    BY DEF Sound, Based, Committed, MadeOne
  <2> QED
    BY <2>1, <2>2 DEF Sound, Based, Committed, Coded
<1>4. Dated(y, t)
  BY DEF Dated, Committed
<1> QED
  BY <1>1, <1>2, <1>3, <1>4 DEF Sound, Committed

\* describe_change and commit_change.
LEMMA CommitStep ==
  ASSUME AInv, NEW r \in Runs, CommitChange(r)
  PROVE  AInv'
<1> DEFINE x == run[r]
           h == x.head \cup {now'}
           y == [goto(x, "push") EXCEPT !.sha = h]
           z == [goto(x, "push") EXCEPT !.sha = x.head, !.refused = TRUE]
<1>1. /\ Len(prs) \in Nat /\ Sound(x, published, Len(prs), now) /\ x \in Run /\ x.pc = "commit" /\ x.head \in Commit
      /\ UNCHANGED <<base, branch, prs, replies, published, quiet>>
  BY RunSound DEF CommitChange, In, Run
<1>2. (Tick /\ become(r, {y})) \/ (UNCHANGED now /\ (become(r, {z}) \/ become(r, {errexit(x)})))
  BY DEF CommitChange
<1> HIDE DEF x
<1>3. x.head \subseteq published /\ published \subseteq 0..now /\ now \in Nat
  <2>1. x.head \subseteq published
    BY <1>1 DEF Sound, Based
  <2>2. published \subseteq 0..now /\ now \in Time
    BY DEF AInv, HostInv, HostTypeOK
  <2> QED
    BY <2>1, <2>2 DEF Time
<1>4. prs' \in Seq(PullRequest) /\ Len(prs') = Len(prs) /\ quiet' \in SUBSET Time
  BY <1>1, KeptTypes DEF HostTypeOK
<1>5. CASE Tick /\ become(r, {y})
  <2>1. now' \in Time /\ now <= now' /\ now' \notin 0..now /\ Sound(x, published, Len(prs), now')
    BY <1>1, <1>5, TickGrows
  <2>2. h \in Commit /\ x.head \subseteq h /\ h # x.head /\ h \subseteq 0..now'
    <3>1. h \in Commit
      BY <1>1, <2>1 DEF Commit
    <3>2. now' \in Nat
      BY <2>1 DEF Time
    <3>3. now' \notin x.head
      BY <1>3, <2>1
    <3>4. x.head \subseteq 0..now'
      <4> SUFFICES ASSUME NEW c \in x.head PROVE c \in 0..now'
        OBVIOUS
      <4>1. c \in 0..now
        BY <1>3
      <4> QED
        BY <1>3, <2>1, <3>2, <4>1
    <3>5. now' \in 0..now'
      BY <3>2
    <3> QED
      BY <3>1, <3>3, <3>4, <3>5
  <2> HIDE DEF h
  <2>3. Committed(y, x, h) /\ EqRefused(y, x)
    BY <1>1, <2>2, CommitFields
  <2> HIDE DEF y
  <2>4. Works(x) => y.refused = FALSE
    BY <1>1, <2>3 DEF Sound, Based, EqRefused
  <2>5. Sound(y, published, Len(prs), now')
    BY <1>1, <2>1, <2>2, <2>3, <2>4, CommittedSound
  <2> QED
    BY <1>1, <1>4, <1>5, <2>1, <2>5, EditStep
<1>6. CASE UNCHANGED now /\ become(r, {z})
  <2>1. Committed(z, x, x.head) /\ z.refused = TRUE
    BY <1>1, CommitFields
  <2> HIDE DEF z
  <2>2. Sound(z, published, Len(prs), now)
    BY <1>1, <1>3, <2>1, CommittedSound
  <2> QED
    BY <1>1, <1>4, <1>6, <2>2, KeptTypes, EditStep
<1>7. CASE UNCHANGED now /\ become(r, {errexit(x)})
  <2>1. Sound(errexit(x), published, Len(prs), now)
    BY <1>1, ErrexitSound
  <2> QED
    BY <1>1, <1>4, <1>7, <2>1, KeptTypes, EditStep
<1> QED
  BY <1>2, <1>5, <1>6, <1>7

\* The replies name the pushed commit.
LEMMA ReplyStep ==
  ASSUME AInv, NEW r \in Runs, Reply(r)
  PROVE  AInv'
<1> DEFINE x == run[r]
<1>1. /\ Len(prs) \in Nat /\ Sound(x, published, Len(prs), now) /\ x.pc = "reply" /\ x.sha \in Commit
      /\ x.todo \subseteq Time /\ become(r, {goto(x, "unlabel")})
      /\ UNCHANGED <<base, branch, prs, now, published, quiet>>
  BY RunSound DEF Reply, In, Run
<1>2. PICK s \in SUBSET x.todo : replies' = replies \cup {<<d, x.sha>> : d \in s}
  BY DEF Reply
<1> HIDE DEF x
<1>3. x.sha \subseteq published
  BY <1>1 DEF Sound, Named
<1>4. HostInv'
  <2>1. replies' \subseteq Time \X Commit
    BY <1>1, <1>2 DEF AInv, HostInv, HostTypeOK
  <2>2. HostTypeOK'
    BY <1>1, <2>1 DEF AInv, HostInv, HostTypeOK
  <2>3. \A p \in replies' : p[2] \subseteq published'
    <3>1. \A p \in replies : p[2] \subseteq published
      BY DEF AInv, HostInv
    <3>2. published' = published
      BY <1>1
    <3> QED
      BY <1>2, <1>3, <3>1, <3>2
  <2> QED
    BY <1>1, <2>2, <2>3 DEF AInv, HostInv
<1>5. Grows
  <2>1. now \in Nat
    BY DEF AInv, HostInv, HostTypeOK, Time
  <2> QED
    BY <1>1, <2>1 DEF Grows
<1>6. Sound(goto(x, "unlabel"), published, Len(prs), now)
  <2>1. Follows(x, "unlabel") /\ "unlabel" \in Onward
    BY <1>1 DEF Follows, Onward, Steps, Sound, Based
  <2> QED
    BY <1>1, <2>1, GotoSound
<1>7. Sound(goto(x, "unlabel"), published', Len(prs)', now') /\ quiet' \in SUBSET Time
  BY <1>1, <1>6, KeptTypes
<1> QED
  BY <1>1, <1>4, <1>5, <1>7, HostStep

\* A pull request is opened.
LEMMA CreatePRStep ==
  ASSUME AInv, NEW r \in Runs, CreatePR(r)
  PROVE  AInv'
<1> DEFINE x == run[r]
           y == [goto(x, "unlabel") EXCEPT !.pr = Len(prs')]
<1>1. /\ Len(prs) \in Nat /\ Sound(x, published, Len(prs), now) /\ x.pc = "create" /\ x \in Run
      /\ UNCHANGED <<base, branch, replies, now, published, quiet>>
  BY RunSound DEF CreatePR, In
<1>2. \/ prs' = Append(prs, NewPR) /\ become(r, {y} \cup {z \in {die(x)} : CallFails(r)})
      \/ become(r, {die(x)}) /\ UNCHANGED prs
  BY DEF CreatePR
<1> HIDE DEF x
<1>3. Sound(die(x), published, Len(prs), now)
  BY <1>1, DieSound
<1>4. CASE prs' = Append(prs, NewPR) /\ become(r, {y} \cup {z \in {die(x)} : CallFails(r)})
  <2>1. NewPR \in PullRequest
    BY DEF NewPR, PullRequest
  <2>2. prs' \in Seq(PullRequest) /\ Len(prs') = Len(prs) + 1
    <3>1. prs \in Seq(PullRequest)
      BY DEF AInv, HostInv, HostTypeOK
    <3> QED
      BY <1>4, <2>1, <3>1, AppendProperties
  <2>3. Grows
    <3>1. now \in Nat
      BY DEF AInv, HostInv, HostTypeOK, Time
    <3> QED
      BY <1>1, <2>2, <3>1 DEF Grows
  <2>4. HostInv'
    BY <1>1, <2>2 DEF AInv, HostInv, HostTypeOK
  <2> DEFINE m == Len(prs')
  <2>5. m \in Nat /\ Len(prs) <= m /\ m \in 1..m /\ now \in Nat /\ now <= now /\ published \subseteq published
    BY <1>1, <2>2, <2>3 DEF Grows
  <2> HIDE DEF m
  <2>6. Sound(x, published, m, now) /\ Sound(die(x), published, m, now)
    BY <1>1, <1>3, <2>5, MoreSound
  <2>7. Sound([goto(x, "unlabel") EXCEPT !.pr = m], published, m, now)
    <3>1. Links(x, "unlabel") /\ "unlabel" \in Steps
      BY <1>1 DEF Links, Steps
    <3>2. Linked([goto(x, "unlabel") EXCEPT !.pr = m], x, "unlabel", m)
      BY <1>1, <2>5, <3>1, LinkFields
    <3> QED
      BY <2>5, <2>6, <3>1, <3>2, LinkSound
  <2>8. \A z \in {y, die(x)} : Sound(z, published', Len(prs)', now')
    BY <1>1, <2>6, <2>7 DEF m
  <2> HIDE DEF y
  <2> QED
    BY <1>1, <1>4, <2>3, <2>4, <2>8, KeptTypes, HostStep
<1>5. CASE become(r, {die(x)}) /\ UNCHANGED prs
  <2>1. UNCHANGED <<hostVars, quiet>>
    BY <1>1, <1>5 DEF hostVars
  <2> QED
    BY <1>3, <1>5, <2>1, LocalStep
<1> QED
  BY <1>2, <1>4, <1>5

\* The first commit of the base branch.
LEMMA InitialStep ==
  ASSUME AInv, NEW r \in Runs, Initial(r)
  PROVE  AInv'
<1> DEFINE x == run[r]
           c == {now'}
           y == [goto(x, "list") EXCEPT !.head = c]
           create == Tick /\ base' = c /\ published' = published \cup c
<1>1. /\ Len(prs) \in Nat /\ Sound(x, published, Len(prs), now) /\ x.pc = "initial" /\ x \in Run
      /\ UNCHANGED <<branch, prs, replies, quiet>>
  BY RunSound DEF Initial, In
<1>2. \/ create /\ (become(r, {y}) \/ become(r, {die(x)}))
      \/ /\ become(r, {die(x)} \cup {z \in {errexit(x)} : CallFails(r)})
         /\ UNCHANGED <<base, now, published>>
  BY DEF Initial
<1> HIDE DEF x
<1>3. Sound(die(x), published, Len(prs), now) /\ Sound(errexit(x), published, Len(prs), now)
  BY <1>1, DieSound, ErrexitSound
<1>4. CASE create /\ (become(r, {y}) \/ become(r, {die(x)}))
  <2>1. now' \in Time /\ now <= now' /\ c \in Commit /\ now \in Nat /\ now' \in Nat
    BY <1>4, TickType DEF AInv, HostInv, HostTypeOK, Tick, Time
  <2>2. c # {} /\ c \subseteq 0..now' /\ 0..now \subseteq 0..now'
    BY <2>1
  <2> HIDE DEF c
  <2>3. HostInv'
    <3>1. published' \in Commit /\ published' \subseteq 0..now'
      BY <1>4, <2>1, <2>2 DEF AInv, HostInv, HostTypeOK, Commit
    <3>2. HostTypeOK'
      BY <1>1, <1>4, <2>1, <3>1 DEF AInv, HostInv, HostTypeOK
    <3> QED
      BY <1>1, <1>4, <3>1, <3>2 DEF AInv, HostInv
  <2>4. Grows
    BY <1>1, <1>4, <2>1 DEF Grows
  <2>5. Sound(x, published', Len(prs)', now') /\ Sound(die(x), published', Len(prs)', now')
    BY <1>1, <1>3, <2>1, <2>4, MoreSound DEF Grows
  <2>6. Sound(y, published', Len(prs)', now')
    <3>1. "list" \in Steps /\ c \subseteq published'
      BY <1>4 DEF Steps
    <3>2. Rebased(y, x, "list", c)
      BY <1>1, <2>1, <3>1, HeadFields
    <3> HIDE DEF y
    <3> QED
      BY <1>1, <2>2, <2>4, <2>5, <3>1, <3>2, RebasedSound DEF Grows
  <2> HIDE DEF y
  <2> QED
    BY <1>1, <1>4, <2>3, <2>4, <2>5, <2>6, KeptTypes, HostStep
<1>5. CASE /\ become(r, {die(x)} \cup {z \in {errexit(x)} : CallFails(r)})
           /\ UNCHANGED <<base, now, published>>
  <2>1. UNCHANGED <<hostVars, quiet>>
    BY <1>1, <1>5 DEF hostVars
  <2> QED
    BY <1>3, <1>5, <2>1, LocalStep
<1> QED
  BY <1>2, <1>4, <1>5

\* The push.
LEMMA PushStep ==
  ASSUME AInv, NEW r \in Runs, Push(r)
  PROVE  AInv'
<1> DEFINE x == run[r]
           y == goto(x, "pushed")
<1>1. /\ Len(prs) \in Nat /\ Sound(x, published, Len(prs), now) /\ x.pc = "push" /\ x \in Run /\ x.sha \in Commit
      /\ UNCHANGED <<base, prs, replies, now, quiet>>
  BY RunSound DEF Push, In, Run
<1>2. \/ /\ acceptPush(x.sha) /\ become(r, {y} \cup {z \in {die(x)} : CallFails(r)})
      \/ become(r, {die(x)}) /\ UNCHANGED <<branch, published>>
  BY DEF Push
<1> HIDE DEF x
<1>3. Sound(die(x), published, Len(prs), now)
  BY <1>1, DieSound
<1>4. CASE acceptPush(x.sha) /\ become(r, {y} \cup {z \in {die(x)} : CallFails(r)})
  <2>1. x.sha \subseteq 0..now
    BY <1>1 DEF Sound, Dated
  <2>2. HostInv'
    <3>1. HostTypeOK'
      BY <1>1, <1>4 DEF AInv, HostInv, HostTypeOK, acceptPush, Commit
    <3> QED
      BY <1>1, <1>4, <2>1, <3>1 DEF AInv, HostInv, acceptPush
  <2>3. Grows
    <3>1. now \in Time
      BY DEF AInv, HostInv, HostTypeOK
    <3>2. now \in Nat
      BY <3>1 DEF Time
    <3>3. published \subseteq published'
      BY <1>4 DEF acceptPush
    <3>4. now' = now /\ Len(prs)' = Len(prs)
      BY <1>1
    <3> QED
      BY <1>1, <3>2, <3>3, <3>4 DEF Grows
  <2>4. /\ Sound(x, published', Len(prs)', now') /\ Sound(die(x), published', Len(prs)', now')
        /\ x.sha \subseteq published'
    BY <1>1, <1>3, <1>4, <2>3, MoreSound DEF Grows, acceptPush
  <2>5. Sound(y, published', Len(prs)', now')
    <3>1. Follows(x, "pushed") /\ "pushed" \in Onward /\ "pushed" \in Steps
      BY <1>1 DEF Follows, Onward, Steps
    <3>2. Moved(y, x, "pushed")
      BY <1>1, <3>1, GotoMoved
    <3> HIDE DEF y
    <3> QED
      BY <1>1, <2>3, <2>4, <3>1, <3>2, MoveSound DEF Grows
  <2>6. quiet' \in SUBSET Time
    BY <1>1, KeptTypes
  <2> HIDE DEF y
  <2> QED
    BY <1>4, <2>2, <2>3, <2>4, <2>5, <2>6, HostStep
<1>5. CASE become(r, {die(x)}) /\ UNCHANGED <<branch, published>>
  <2>1. UNCHANGED <<hostVars, quiet>>
    BY <1>1, <1>5 DEF hostVars
  <2> QED
    BY <1>3, <1>5, <2>1, LocalStep
<1> QED
  BY <1>2, <1>4, <1>5

\* What people do leaves the host in order.
LEMMA PeopleHost ==
  ASSUME AInv, PeopleStep
  PROVE  HostInv' /\ Grows
<1>1. PICK n \in DOMAIN prs : Comment(n) \/ CommitToBranch(n) \/ ClosePR(n) \/ MergePR(n)
  BY DEF PeopleStep
<1>2. HostTypeOK /\ now \in Nat /\ now \in Time /\ Len(prs) \in Nat
  BY LenProperties DEF AInv, HostInv, HostTypeOK, Time
<1>3. now' \in Nat /\ now' \in Time /\ now <= now' /\ 0..now \subseteq 0..now' /\ now' \in 0..now'
  <2>1. Tick \/ now' = now
    BY <1>1 DEF Comment, CommitToBranch, ClosePR, MergePR
  <2>2. Tick => now' \in Time /\ now' = now + 1
    BY <1>2, TickType DEF Tick
  <2> QED
    BY <1>2, <2>1, <2>2
<1>4. prs' \in Seq(PullRequest) /\ Len(prs') = Len(prs)
  <2>1. \E st \in {"open", "closed", "merged"} :
          \/ prs' = prs
          \/ prs' = [prs EXCEPT ![n].comments = @ \cup {now'}]
          \/ prs' = [prs EXCEPT ![n].state = st]
    BY <1>1 DEF Comment, CommitToBranch, ClosePR, MergePR
  <2> DEFINE ls == {}
  <2>2. ls \in SUBSET {"review", "iterate"}
    OBVIOUS
  <2> HIDE DEF ls
  <2> QED
    BY <1>2, <1>3, <2>1, <2>2, EditField
<1>5. /\ base' \cup branch' \subseteq base \cup branch \cup {now'} /\ published \subseteq published'
      /\ published' \subseteq published \cup {now'} /\ base' \cup branch' \subseteq base \cup branch \cup published'
      /\ replies' = replies
  BY <1>1 DEF Comment, CommitToBranch, ClosePR, MergePR
<1>6. HostInv'
  <2>1. HostTypeOK'
    BY <1>2, <1>3, <1>4, <1>5 DEF HostTypeOK, Commit
  <2>2. \A p \in replies' : p[2] \subseteq published'
    BY <1>5 DEF AInv, HostInv
  <2>3. base' \cup branch' \subseteq published' /\ published' \subseteq 0..now'
    BY <1>3, <1>5 DEF AInv, HostInv
  <2> QED
    BY <2>1, <2>2, <2>3 DEF HostInv
<1> QED
  BY <1>2, <1>3, <1>4, <1>5, <1>6 DEF Grows

-----------------------------------------------------------------------------
(* The theorems                                                            *)

\* The invariant holds at the start.
LEMMA AInvInit ==
  ASSUME Init
  PROVE  AInv
<1>1. MaxTime \in Nat \ {0} /\ 0 \in Time /\ 1 \in Time
  BY HostAssumption DEF Time
<1>2. NewPR \in PullRequest /\ [NewPR EXCEPT !.labels = {"review"}, !.threads = {1}] \in PullRequest
  BY <1>1 DEF NewPR, PullRequest
<1>3. prs \in Seq(PullRequest)
  <2>1. <<>> \in Seq(PullRequest) /\ \A p \in PullRequest : <<p>> \in Seq(PullRequest)
    OBVIOUS
  <2>2. prs = <<>> \/ \E p \in PullRequest : prs = <<p>>
    <3>1. prs = <<>> \/ prs = <<[NewPR EXCEPT !.labels = {"review"}, !.threads = {1}]>>
      BY DEF Init, HostInit
    <3> QED
      BY <1>2, <3>1, Zenon
  <2> QED
    BY <2>1, <2>2, Zenon
<1>4. HostInv
  <2>1. base \in Commit /\ branch \in Commit /\ now \in Time /\ published = base \cup branch
    BY <1>1 DEF Init, HostInit, Commit
  <2>2. base \cup branch \subseteq 0..now /\ replies = {}
    BY DEF Init, HostInit
  <2> QED
    BY <1>3, <2>1, <2>2 DEF HostInv, HostTypeOK, Commit
<1>5. Sound(NewRun, published, Len(prs), now)
  <2>1. NewRun \in Run
    <3>1. Stopped \in Result /\ NoResult \in Result /\ {} \in Commit
      BY DEF Stopped, NoResult, Result, Kinds, Commit
    <3>2. {} \in SUBSET Time /\ 0 \in Nat /\ "new" \in Steps
      BY DEF Steps
    <3> QED
      BY <3>1, <3>2 DEF NewRun, Run
  <2>2. Named(NewRun, published) /\ Dated(NewRun, now)
    BY DEF NewRun, Named, Dated, Stopped, NoResult
  <2>3. Coded(NewRun)
    BY DEF NewRun, Coded, Stopped, NoResult, Bad
  <2>4. Based(NewRun, published, Len(prs))
    <3>1. Len(prs) \in Nat
      BY <1>3, LenProperties
    <3>2. NewRun.pc = "new" /\ NewRun.mode = "report" /\ NewRun.pr = 0 /\ NewRun.head = {} /\ NewRun.refused = FALSE
      BY DEF NewRun
    <3> QED
      BY <3>1, <3>2 DEF Based, Works
  <2> QED
    BY <2>1, <2>2, <2>3, <2>4 DEF Sound
<1>6. \A r \in Runs : run[r] = NewRun
  BY DEF Init
<1>7. run \in [Runs -> Run] /\ quiet = {}
  BY <1>5 DEF Init, Sound
<1> QED
  BY <1>4, <1>5, <1>6, <1>7 DEF AInv

\* Every step keeps it.
LEMMA AInvNext ==
  ASSUME AInv, [Next]_vars
  PROVE  AInv'
<1>1. CASE PeopleStep /\ UNCHANGED run
           /\ quiet' = quiet \cup {c \in justCommented : AtWork = {}}
  <2>1. HostInv' /\ Grows
    BY <1>1, PeopleHost
  <2>2. run' \in [Runs -> Run] /\ \A q \in Runs : Sound(run'[q], published', Len(prs)', now')
    BY <1>1, <2>1, StaySound
  <2>3. quiet' \subseteq Time
    <3>1. now' \in Time /\ justCommented \subseteq {now'} /\ quiet \subseteq Time
      BY <2>1 DEF HostInv, HostTypeOK, justCommented, AInv
    <3> QED
      BY <1>1, <3>1
  <2> QED
    BY <2>1, <2>2, <2>3 DEF AInv
<1>2. ASSUME NEW r \in Runs, NEW m \in Modes, NEW n \in {0} \cup DOMAIN prs, Start(r, m, n)
      PROVE  AInv'
  BY <1>2, StartStep
<1>3. ASSUME NEW r \in Runs, AgentStep(r)
      PROVE  AInv'
  <2>1. CASE ViewIssue(r) \/ ViewPR(r) \/ FetchDiff(r) \/ Gather(r) \/ Answer(r) \/ Threads(r) \/ Nothing(r)
    BY <2>1, ViewIssueStep, ViewPRStep, FetchDiffStep, GatherAnswerStep, ThreadsStep, NothingStep
  <2>2. CASE Clone(r) \/ Initial(r) \/ List(r) \/ Checkout(r) \/ Claude(r) \/ Compose(r) \/ CommitChange(r)
    BY <2>2, CloneStep, InitialStep, ListStep, CheckoutStep, ClaudeStep, ComposeStep, CommitStep
  <2>3. CASE Push(r) \/ Pushed(r) \/ CreatePR(r) \/ Reply(r) \/ Unlabel(r) \/ Relabel(r)
    BY <2>3, PushStep, PushedStep, CreatePRStep, ReplyStep, UnlabelStep, RelabelStep
  <2>4. CASE PostReview(r) \/ PostReport(r) \/ Final(r) \/ OnExit(r)
    BY <2>4, PostReviewStep, ComposeStep, FinalStep, StopStep
  <2> QED
    BY <1>3, <2>1, <2>2, <2>3, <2>4 DEF AgentStep
<1>4. ASSUME NEW r \in Runs, Terminate(r) \/ Kill(r)
      PROVE  AInv'
  BY <1>4, StopStep
<1>5. CASE UNCHANGED vars
  BY <1>5 DEF vars, hostVars, AInv, HostInv, HostTypeOK
<1> QED
  BY <1>1, <1>2, <1>3, <1>4, <1>5 DEF Next

\* The inductive invariant of the agents.
THEOREM AgentsInvariant == Spec => []AInv
BY AInvInit, AInvNext, PTL DEF Spec

\* Reviews are due for numbers, and the host has what they were triggered for.
ReviewInv == due \subseteq Nat /\ asked \subseteq published /\ dropped \subseteq published

\* The host keeps its commits.
LEMMA HostKeeps ==
  ASSUME [Next]_vars
  PROVE  published \subseteq published'
<1>1. CASE PeopleStep
  BY <1>1 DEF PeopleStep, Comment, CommitToBranch, ClosePR, MergePR
<1>2. ASSUME NEW r \in Runs, NEW m \in Modes, NEW n \in {0} \cup DOMAIN prs, Start(r, m, n)
      PROVE  published' = published
  BY <1>2 DEF Start
<1>3. ASSUME NEW r \in Runs, Initial(r) \/ Push(r)
      PROVE  published \subseteq published'
  BY <1>3 DEF Initial, Push, acceptPush
<1>4. ASSUME NEW r \in Runs, Nothing(r) \/ CommitChange(r) \/ CreatePR(r) \/ Reply(r) \/ Unlabel(r) \/ Relabel(r) \/ PostReview(r)
      PROVE  published' = published
  BY <1>4 DEF Nothing, CommitChange, CreatePR, Reply, Unlabel, Relabel, PostReview
<1>5. ASSUME NEW r \in Runs,
             \/ ViewIssue(r) \/ ViewPR(r) \/ FetchDiff(r) \/ Gather(r) \/ Answer(r) \/ Threads(r)
             \/ Clone(r) \/ List(r) \/ Checkout(r) \/ Claude(r) \/ Compose(r) \/ Pushed(r)
             \/ PostReport(r) \/ Final(r) \/ OnExit(r) \/ Terminate(r) \/ Kill(r)
      PROVE  published' = published
  BY <1>5 DEF ViewIssue, ViewPR, FetchDiff, Gather, Answer, Threads, Clone, List, Checkout, Claude, Compose,
              Pushed, PostReport, Final, OnExit, Terminate, Kill, hostVars
<1>6. CASE UNCHANGED vars
  BY <1>6 DEF vars, hostVars
<1> QED
  BY <1>1, <1>2, <1>3, <1>4, <1>5, <1>6 DEF Next, AgentStep

\* Reviews are triggered by the last call of relabel_review and end with a start.
LEMMA ReviewSteps ==
  ASSUME [Next]_vars
  PROVE  \/ UNCHANGED reviewVars
         \/ \E r \in Runs, m \in Modes, n \in {0} \cup DOMAIN prs : Start(r, m, n)
         \/ \E r \in Runs : Relabel(r)
<1>1. ASSUME NEW r \in Runs, ~Relabel(r), AgentStep(r) \/ Terminate(r) \/ Kill(r)
      PROVE  UNCHANGED reviewVars
  <2>1. CASE ViewIssue(r) \/ ViewPR(r) \/ FetchDiff(r) \/ Gather(r) \/ Answer(r) \/ Threads(r) \/ Nothing(r)
    BY <2>1 DEF ViewIssue, ViewPR, FetchDiff, Gather, Answer, Threads, Nothing
  <2>2. CASE Clone(r) \/ Initial(r) \/ List(r) \/ Checkout(r) \/ Claude(r) \/ Compose(r) \/ CommitChange(r)
    BY <2>2 DEF Clone, Initial, List, Checkout, Claude, Compose, CommitChange
  <2>3. CASE Push(r) \/ Pushed(r) \/ CreatePR(r) \/ Reply(r) \/ Unlabel(r)
    BY <2>3 DEF Push, Pushed, CreatePR, Reply, Unlabel
  <2>4. CASE PostReview(r) \/ PostReport(r) \/ Final(r) \/ OnExit(r) \/ Terminate(r) \/ Kill(r)
    BY <2>4 DEF PostReview, PostReport, Final, OnExit, Terminate, Kill
  <2> QED
    BY <1>1, <2>1, <2>2, <2>3, <2>4 DEF AgentStep
<1>2. CASE PeopleStep /\ UNCHANGED <<run, reviewVars>>
  BY <1>2
<1>3. CASE UNCHANGED vars
  BY <1>3 DEF vars
<1> QED
  BY <1>1, <1>2, <1>3 DEF Next

\* ReviewInv is inductive, given AInv.
LEMMA ReviewNext ==
  ASSUME AInv, ReviewInv, [Next]_vars
  PROVE  ReviewInv'
<1>1. published \subseteq published'
  BY HostKeeps
<1>2. CASE UNCHANGED reviewVars
  BY <1>1, <1>2 DEF ReviewInv, reviewVars
<1>3. ASSUME NEW r \in Runs, NEW m \in Modes, NEW n \in {0} \cup DOMAIN prs, Start(r, m, n)
      PROVE  due' \subseteq due /\ asked' = asked /\ dropped' = dropped
  BY <1>3 DEF Start
<1>4. ASSUME NEW r \in Runs, Relabel(r)
      PROVE  /\ due' \subseteq due \cup {run[r].pr} /\ published' = published
             /\ asked' \in {asked, published} /\ dropped' \in {dropped, published}
  BY <1>4 DEF Relabel, onReviewLabel, reviewVars
<1>5. \A r \in Runs : run[r].pr \in Nat
  BY DEF AInv, Run
<1> QED
  BY <1>1, <1>2, <1>3, <1>4, <1>5, ReviewSteps DEF ReviewInv

\* ReviewInv holds throughout.
THEOREM ReviewsExist == Spec => []ReviewInv
<1>1. Init => ReviewInv
  <2>1. Init => DOMAIN prs \subseteq Nat
    BY AInvInit, LenProperties DEF AInv, HostInv, HostTypeOK
  <2> QED
    BY <2>1 DEF Init, ReviewInv
<1> QED
  BY <1>1, ReviewNext, AgentsInvariant, PTL DEF Spec

\* The variables of every run and of the host keep their types, in all modes and
\* under all faults.
THEOREM AgentsTypes == Spec => []TypeOK
<1>1. AInv /\ ReviewInv => TypeOK
  BY DEF AInv, HostInv, HostTypeOK, ReviewInv, TypeOK, Commit
<1> QED
  BY <1>1, AgentsInvariant, ReviewsExist, PTL

\* Every commit that a Result or a reply of the implementer names was accepted by
\* the host before: a Result names a commit only after the push was accepted.
THEOREM CommitsArePublished == Spec => []NamedIsPublished
<1>1. AInv => NamedIsPublished
  BY DEF AInv, HostInv, NamedIsPublished, Sound, Named
<1> QED
  BY <1>1, AgentsInvariant, PTL

\* die, set -e and the two traps of lib.sh leave exit code and Result in
\* agreement, at whatever point a run stops.
THEOREM CodesTellResults == Spec => []ExitTellsResult
<1>1. AInv => ExitTellsResult
  <2> SUFFICES ASSUME AInv, NEW r \in Runs, run[r].pc = "exited", run[r].rc # 137
               PROVE  /\ run[r].result.kind # "none"
                      /\ run[r].rc = 0 => run[r].result.kind \in {"final", "nothing"}
                      /\ run[r].result.kind \in {"final", "nothing"} => run[r].rc \in {0, 143}
    BY DEF ExitTellsResult, Ended
  <2>1. \/ run[r].rc = 0 /\ run[r].result.kind \in Told
        \/ run[r].rc \in {1, 143} /\ run[r].result.kind \in Bad
    BY DEF AInv, Sound, Coded
  <2> QED
    BY <2>1 DEF Told, Bad
<1> QED
  BY <1>1, AgentsInvariant, PTL

\* A Result of the implementer that tells of success links a pull request of the
\* repository and names a published commit, which the run made unless git commit
\* failed.
THEOREM SuccessDelivers == Spec => []SuccessIsDelivered
<1>1. AInv => SuccessIsDelivered
  <2> SUFFICES ASSUME AInv, NEW r \in Runs, Delivers(r)
               PROVE  /\ run[r].result.pr \in DOMAIN prs
                      /\ run[r].result.sha # {} /\ run[r].result.sha \subseteq published
                      /\ In(r, "exiting") => run[r].refused = (run[r].sha = run[r].head)
    BY DEF SuccessIsDelivered
  <2>1. /\ run[r].result.pr \in 1..Len(prs) /\ run[r].result.sha # {} /\ run[r].result.sha \subseteq published
        /\ run[r].pc = "exiting" => MadeOne(run[r])
    BY DEF AInv, Sound, Based, Named, Delivers, Works
  <2>2. run[r].result.pr \in DOMAIN prs
    BY <2>1, LenProperties DEF AInv, HostInv, HostTypeOK
  <2>3. MadeOne(run[r]) => run[r].refused = (run[r].sha = run[r].head)
    BY DEF MadeOne
  <2> QED
    BY <2>1, <2>2, <2>3 DEF In
<1> QED
  BY <1>1, AgentsInvariant, PTL

=============================================================================
