------------------------------ MODULE MCWebhook ------------------------------
(* Instances of Webhook for TLC. *)
EXTENDS Webhook, TLC

Good ==
  [form |-> "json", path |-> "/github", key |-> "k1", action |-> "labeled",
   subject |-> "42", prompt |-> TRUE]

AnyEvent ==
  {Good,
   [Good EXCEPT !.action = "opened"],
   [Good EXCEPT !.key = "k2"],
   [Good EXCEPT !.key = None],
   [Good EXCEPT !.path = "/linear"],
   [Good EXCEPT !.subject = ""],
   [Good EXCEPT !.prompt = FALSE]}
  \cup {[Good EXCEPT !.form = f] : f \in {"otherMethod", "tooLarge", "unreadable", "notJSON"}}

Labeled == [path |-> "/github", filter |-> "labeled", ns |-> "dev", dedupe |-> TRUE]

AnyVersion ==
  {Labeled,
   [Labeled EXCEPT !.filter = "opened", !.dedupe = FALSE],
   [Labeled EXCEPT !.path = "/linear"]}

Symmetric == Permutations(Requests)

=============================================================================
