------------------------------ MODULE MCPolicy ------------------------------
(***************************************************************************)
(* An instance of TaskBuild: the Tasks vary one group of inputs at a time, *)
(* all combinations within the group.                                      *)
(***************************************************************************)
EXTENDS TaskBuild

MCNames == {"n1", "N1", "n2"}
MCIPs == {"a1", "a2", "a3"}
MCLower == [n \in MCNames |-> IF n = "N1" THEN "n1" ELSE n]
MCSingle == [a \in MCIPs |-> CASE a = "a1" -> "a1/32" [] a = "a2" -> "a2/32" [] a = "a3" -> "a3/32"]
MCCIDRs == {"a1/32", "a2/32", "a3/32", "net"}
MCBlock == [c \in MCCIDRs |-> IF c = "net" THEN {"a1", "a2"} ELSE {a \in MCIPs : MCSingle[a] = c}]

records(addrs) == [err |-> "none", addrs |-> addrs]
fails(why) == [err |-> why, addrs |-> <<>>]

\* Rotation, repetition, another record, none, an unreadable one, and failures.
ofN1 == {records(<<"a1", "a2">>), records(<<"a2", "a1", "a2">>), records(<<"a3", "unreadable">>),
         records(<<>>), fails("notFound"), fails("timeout")}
ofN2 == {records(<<"a3">>), fails("notFound"), fails("timeout")}

MCAnswers == {[n \in MCNames |-> IF n = "n2" THEN y ELSE x] : x \in ofN1, y \in ofN2}

steady == [n \in MCNames |-> IF n = "n2" THEN records(<<"a3">>) ELSE records(<<"a1", "a2">>)]

e(text) == [text |-> text, padded |-> FALSE]
padded(text) == [text |-> text, padded |-> TRUE]

aSpec ==
  [ref |-> TRUE, timeout |-> 60000, prompt |-> {"inline"}, config |-> [json |-> "none", fields |-> <<>>],
   cpu |-> "unset", memory |-> "unset", rbac |-> FALSE, secrets |-> <<>>,
   egress |-> <<e("n1"), e("net")>>, ports |-> {}]

mounts == {unset, <<"/in", "prompt">>, <<"/in", "config">>}
MCPaths == (mounts \ {unset}) \cup {scratchPath, secretPath("s1")}

aClass ==
  [promptMount |-> <<"/in", "prompt">>, configMount |-> unset, configEnv |-> "", secrets |-> <<>>, egress |-> <<>>]

aCase(spc, cls) == [spec |-> spc, class |-> cls, answers |-> steady]

entries == {e("n1"), padded("N1"), e("n2"), padded("a1"), padded("net"), e("bad/"), padded("")}
lists == {<<>>} \cup {<<x>> : x \in entries \cup {e("")}}

EgressCases ==
  {aCase([aSpec EXCEPT !.egress = x], [aClass EXCEPT !.egress = y]) :
     x \in lists, y \in {<<>>, <<e("n1")>>, <<padded("N1")>>, <<e("n2")>>, <<padded("a1")>>, <<e("")>>}}
  \cup {aCase([aSpec EXCEPT !.egress = x, !.ports = {22, 443}], aClass) : x \in lists}

configs ==
  {[json |-> "none", fields |-> <<>>], [json |-> "other", fields |-> <<>>]}
  \cup [json : {"object"}, fields : UNION {[K -> {"scalar", "nested"}] : K \in SUBSET {"MODEL", "max-turns"}}]

InputCases ==
  {aCase([aSpec EXCEPT !.prompt = p, !.config = c, !.egress = <<>>],
         [aClass EXCEPT !.promptMount = pm, !.configMount = cm, !.configEnv = ce]) :
     p \in SUBSET PromptSources, c \in configs, pm \in mounts, cm \in mounts,
     ce \in {"", "EXTRA", "MODEL", "max-turns"}}

ResourceCases ==
  {aCase([aSpec EXCEPT !.cpu = c, !.memory = m, !.timeout = t, !.ref = r, !.rbac = b], aClass) :
     c \in Quantity, m \in Quantity, t \in {0, 500, 60000}, r \in BOOLEAN, b \in BOOLEAN}

SecretCases ==
  {aCase([aSpec EXCEPT !.secrets = x], [aClass EXCEPT !.secrets = y, !.promptMount = pm]) :
     x \in {<<>>, <<"s1">>, <<"s1", "", "s1">>, <<"s2", "s1">>, <<"s.1">>},
     y \in {<<>>, <<"s1">>, <<"s1", "s2">>}, pm \in {<<"/in", "prompt">>, scratchPath, secretPath("s1")}}

MCCases == EgressCases \cup InputCases \cup ResourceCases \cup SecretCases

link(name, host, bytes) == [name |-> name, host |-> host, bytes |-> bytes, url |-> "normal"]
nine == [i \in 1..9 |-> link(i, "n1", 60)]
long == [i \in 1..9 |-> link(i, "n1", 300)]
spelled(url) == [link(1, "n1", 60) EXCEPT !.url = url]

letters(chars, width) ==
  [skip |-> 0, chars |-> chars, width |-> width, blank |-> {}, nbsp |-> {}, hidden |-> {}]

\* Nothing, nothing to see, white space and hidden characters at the ends and at the
\* last place that stays, and texts that are too long.
texts ==
  {letters(0, 1), letters(512, 4), letters(600, 3),
   [letters(5, 1) EXCEPT !.blank = 1..5],
   [letters(3, 2) EXCEPT !.nbsp = {1}, !.hidden = {2, 3}],
   [letters(9, 1) EXCEPT !.blank = {1, 5, 9}, !.nbsp = {2}, !.hidden = {3, 8}],
   [letters(600, 1) EXCEPT !.blank = {1, 513}, !.hidden = {300}],
   [letters(600, 1) EXCEPT !.nbsp = {511}, !.hidden = {512}]}

\* The summary has 10 characters in the boundary cases: 35 bytes around a link.
MCReports ==
  [summary : {letters(10, 1)},
   links : {<<link(1, "N1", 2012)>>, <<link(1, "n1", 2013)>>, <<link(1, "n1", 2014)>>,
            <<link(1, "a1", 60), link(1, "a2", 60)>>, <<link(1, "a3", 60), link(0, "n1", 60)>>,
            <<spelled("other")>>, <<spelled("overlong")>>, <<spelled("unreadable")>>, nine, long}]
  \cup [summary : texts, links : {<<>>}]
  \cup [summary : {letters(512, 4), letters(600, 3)}, links : {nine}]

=============================================================================
