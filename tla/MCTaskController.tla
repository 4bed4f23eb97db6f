-------------------------- MODULE MCTaskController --------------------------
(* Instances of TaskController for TLC. *)
EXTENDS TaskController

\* A Task with a prompt reference and CIDR egress: the fewest owned resources.
Plain ==
  [valid |-> TRUE, rbac |-> FALSE, inline |-> FALSE, config |-> "none",
   hosts |-> FALSE, ttl |-> FALSE, rev |-> 1]

WithHosts == [Plain EXCEPT !.hosts = TRUE]
Expiring == [Plain EXCEPT !.ttl = TRUE]
Full == [Plain EXCEPT !.rbac = TRUE, !.inline = TRUE, !.config = "nested", !.rev = 2]
Malformed == [Plain EXCEPT !.valid = FALSE]

PlainOnly == {Plain}
ExpiringOnly == {Expiring}
HostsOrFull == {WithHosts, Full, Malformed}
PlainOrExpiring == {Plain, Expiring}

Fails == {<<"failed", "summary">>}
Succeeds == {<<"succeeded", "summary">>}
LinksOrLost == {<<"succeeded", "links">>, <<"failed", "links">>, <<"failed", "none">>}
SucceedsOrLost == {<<"succeeded", "summary">>, <<"failed", "none">>}
SucceedsOrFails == {<<"succeeded", "summary">>, <<"failed", "summary">>}
VariousMessages == {<<"succeeded", "summary">>, <<"succeeded", "empty">>, <<"failed", "broken">>}

=============================================================================
