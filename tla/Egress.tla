------------------------------- MODULE Egress -------------------------------
(***************************************************************************)
(* The egress allowlist: how the entries of the Task and of its agent      *)
(* class become the NetworkPolicy of the pod, and which hosts the links of *)
(* a Result may name.                                                      *)
(*                                                                         *)
(* An entry is a text with or without white space around it.  A text is a  *)
(* DNS name, an address, a CIDR block or neither; what the code does with  *)
(* it depends on that and, for blocks, on the addresses they contain.      *)
(***************************************************************************)
EXTENDS Naturals, Sequences, FiniteSets, FiniteSetsExt, Functions

CONSTANTS
  Names,     \* DNS names
  IPs,       \* addresses
  CIDRs,     \* blocks that net.ParseCIDR accepts
  BadCIDRs,  \* texts with a slash that it rejects
  Lower,     \* a name in lower case, without the trailing dot
  Block,     \* the addresses of a block
  Single     \* the block of one address: /32 or /128

ASSUME EgressAssumption ==
  /\ Names \cap (IPs \cup CIDRs \cup BadCIDRs \cup {""}) = {}
  /\ IPs \cap (CIDRs \cup BadCIDRs) = {} /\ CIDRs \cap BadCIDRs = {}
  /\ Lower \in [Names -> Names] /\ Block \in [CIDRs -> SUBSET IPs]
  /\ Single \in [IPs -> CIDRs] /\ \A a \in IPs : Block[Single[a]] = {a}

Texts == Names \cup IPs \cup CIDRs \cup BadCIDRs \cup {""}

Entry == [text : Texts, padded : BOOLEAN]

\* What a resolver answers for a name: its records, or why there are none.
Answer == [err : {"none", "notFound", "timeout"}, addrs : Seq(IPs \cup {"unreadable"})]

empty == [text |-> "", padded |-> FALSE]

trim(entry) == entry.text

\* Variant: a plain concatenation.
MergeKeepsAll(unset, a, b) == SelectSeq(a \o b, LAMBDA v : v # unset)

\* The loop over all the entries: merging(unset, all)[n] is the result after n.
merging(unset, all) ==
  LET add(out, v) == IF v = unset \/ v \in Range(out) THEN out ELSE Append(out, v)
      out[n \in 0..Len(all)] == IF n = 0 THEN <<>> ELSE add(out[n - 1], all[n])
  IN  out

\* The union of the lists in order of first occurrence.
MergeStringSets(unset, a, b) == merging(unset, a \o b)[Len(a \o b)]

\* Variant: an entry with white space around it is taken for a name.
HasHostnamesUntrimmed(egress) ==
  \E e \in Range(egress) : e.padded \/ trim(e) \notin {""} \cup CIDRs \cup BadCIDRs \cup IPs

\* Only names drift.
HasHostnames(egress) ==
  \E e \in Range(egress) : trim(e) \notin {""} \cup CIDRs \cup BadCIDRs \cup IPs

\* The lookup of an entry that is neither a block nor an address.
lookup(answers, entry) == answers[Lower[trim(entry)]]

\* Why an entry cannot be resolved; a timeout is not permanent.
failure(answers, entry) ==
  CASE trim(entry) \in BadCIDRs -> "permanent"
    [] trim(entry) \in Names    -> CASE lookup(answers, entry).err = "notFound" -> "permanent"
                                     [] lookup(answers, entry).err = "timeout"  -> "transient"
                                     [] OTHER                                   -> "none"
    [] OTHER                    -> "none"

\* The blocks of an entry; a record that does not parse is skipped.
blocks(answers, entry) ==
  LET t == trim(entry)
  IN  CASE t \in CIDRs -> {t}
        [] t \in IPs   -> {Single[t]}
        [] t \in Names -> {Single[a] : a \in Range(lookup(answers, entry).addrs) \cap IPs}
        [] OTHER       -> {}

\* The keys of the map that collects them.
allBlocks(answers, egress) == UNION {blocks(answers, e) : e \in Range(egress)}

\* The first entry that fails decides.
firstFailure(answers, egress) ==
  LET failing == {i \in DOMAIN egress : failure(answers, egress[i]) # "none"}
  IN  IF failing = {} THEN "none" ELSE failure(answers, egress[Min(failing)])

\* slices.Sort of the keys of a map: one order per set.
sorted(S) == CHOOSE s \in [1..Cardinality(S) -> S] : IsInjective(s)

\* Variant: the blocks stay in the order of the entries and of the answers.
resolveEgressUnsorted(answers, egress) ==
  LET found(e) == IF trim(e) \in Names THEN lookup(answers, e).addrs ELSE sorted(blocks(answers, e))
  IN  [err |-> firstFailure(answers, egress), cidrs |-> FoldFunction(\o, <<>>, [i \in DOMAIN egress |-> found(egress[i])])]

resolveEgress(answers, egress) ==
  [err |-> firstFailure(answers, egress), cidrs |-> sorted(allBlocks(answers, egress))]

\* TCP and UDP on every declared port, or on the default one.
egressPorts(ports) == (IF ports = {} THEN {443} ELSE ports) \X {"TCP", "UDP"}

dnsEgressRule == [to |-> <<"kube-dns">>, ports |-> {53} \X {"TCP", "UDP"}]

\* The policy always denies what its rules do not allow.
BuildNetworkPolicy(answers, egress, ports) ==
  LET r == resolveEgress(answers, egress)
      allow == [to |-> r.cidrs, ports |-> egressPorts(ports)]
  IN  [err   |-> r.err,
       rules |-> IF r.err # "none" \/ egress = <<>> THEN <<>>
                 ELSE IF r.cidrs = <<>> THEN <<dnsEgressRule>>
                 ELSE <<dnsEgressRule, allow>>]

\* Variant: any block lets any address through.
hostAllowedByAnyBlock(host, allowlist) ==
  \E e \in Range(allowlist) :
    IF host \in IPs THEN trim(e) \in CIDRs \/ trim(e) = host
    ELSE trim(e) \in Names /\ Lower[trim(e)] = Lower[host]

\* A name matches the same name, an address an entry that contains it.
hostAllowed(host, allowlist) ==
  \E e \in Range(allowlist) :
    IF host \in IPs THEN (trim(e) \in CIDRs /\ host \in Block[trim(e)]) \/ trim(e) = host
    ELSE trim(e) \in Names /\ Lower[trim(e)] = Lower[host]

=============================================================================
