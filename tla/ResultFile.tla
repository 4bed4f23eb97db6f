----------------------------- MODULE ResultFile -----------------------------
(***************************************************************************)
(* The Result file: what result_write of the agent library puts into the   *)
(* termination message, and what ParseResult of the controller makes of    *)
(* it.  A link is reduced to the bytes of its JSON object, and a summary   *)
(* to its length, the bytes of a character in JSON, and the places of the  *)
(* characters that one side or the other treats differently.               *)
(***************************************************************************)
EXTENDS Egress

MaxResultBytes == 2048
MaxResultSummaryChars == 512
MaxResultLinks == 8

\* name: 0 breaks the contract.  url: in the form that url.URL.String gives it, in
\* another one, in one whose normal form is over the limit, or no https URL.
Link == [name : Nat, host : Names \cup IPs, bytes : Nat,
         url : {"normal", "other", "overlong", "unreadable"}]

\* The text is what an agent said without its control characters, from place
\* skip + 1 on.  blank: white space; nbsp: white space to Go and not to bash;
\* hidden: format characters and the like, which only the controller drops.
Summary ==
  [skip : Nat, chars : Nat, width : 1..4,
   blank : SUBSET Nat, nbsp : SUBSET Nat, hidden : SUBSET Nat]

places(s) == (s.skip + 1)..(s.skip + s.chars)

white(s) == s.blank \cup s.nbsp

visible(s) == places(s) \ (white(s) \cup s.hidden)

\* Without the characters of B at both ends.
trimmed(s, B) ==
  LET end == s.skip + s.chars
      lead == Max({n \in 0..s.chars : (s.skip + 1)..(s.skip + n) \subseteq B})
      tail == Max({n \in 0..(s.chars - lead) : (end - n + 1)..end \subseteq B})
  IN  [s EXCEPT !.skip = @ + lead, !.chars = @ - lead - tail]

-----------------------------------------------------------------------------
(* result_write                                                            *)

\* Trim, then cut: the last character may be a blank again.
_clean_summary(s) ==
  LET t == trimmed(s, s.blank)
  IN  [t EXCEPT !.chars = Min({@, MaxResultSummaryChars})]

_valid_link(l) == l.name # 0

\* The loop that prints the links: linkBytes(links)[n] are the bytes of the first n.
linkBytes(links) ==
  LET sum[n \in 0..Len(links)] == IF n = 0 THEN 0 ELSE sum[n - 1] + links[n].bytes
  IN  sum

\* {"summary":"..."} and ,"links":[{...},{...}]
_result_json(s, links) ==
  14 + s.chars * s.width
     + (IF links = <<>> THEN 0 ELSE 10 + Len(links) + linkBytes(links)[Len(links)])

\* The loop that both sides run over the links, keeping(links, good)[n] after n of
\* them: it takes good links, the first of each name, and at most MaxResultLinks.
keeping(links, good) ==
  LET add(out, l) == IF l \in good /\ Len(out) < MaxResultLinks
                        /\ \A i \in DOMAIN out : out[i].name # l.name
                     THEN Append(out, l) ELSE out
      out[n \in 0..Len(links)] == IF n = 0 THEN <<>> ELSE add(out[n - 1], links[n])
  IN  out

accepted(links) ==
  keeping(links, {l \in Range(links) : _valid_link(l)})[Len(links)]

fits(s, links) == _result_json(s, links) <= MaxResultBytes

\* Drop links from the end until the rest fits.
dropLinks(s, links) ==
  SubSeq(links, 1, Max({0} \cup {n \in DOMAIN links : fits(s, SubSeq(links, 1, n))}))

\* Then 16 characters at a time.
shorten(s, links) ==
  LET left == {0} \cup {n \in 1..s.chars : (s.chars - n) % 16 = 0}
  IN  [s EXCEPT !.chars = Max({n \in left : n = 0 \/ fits([s EXCEPT !.chars = n], links)})]

\* Variant: the limit is left to the controller.
result_writeUnlimited(summary, links) ==
  LET s == _clean_summary(summary)
      ls == accepted(links)
  IN  [summary |-> s, links |-> ls, bytes |-> _result_json(s, ls) + 1]

\* The file ends with a line break.
result_write(summary, links) ==
  LET s == _clean_summary(summary)
      ls == dropLinks(s, accepted(links))
      short == shorten(s, ls)
  IN  [summary |-> short, links |-> ls, bytes |-> _result_json(short, ls) + 1]

-----------------------------------------------------------------------------
(* ParseResult                                                             *)

readable(l) == l.url \in {"normal", "other"}

validateLink(l, allowlist) == l.name # 0 /\ readable(l) /\ hostAllowed(l.host, allowlist)

normalized(l) == [l EXCEPT !.url = "normal"]

keptLinks(links, allowlist) ==
  keeping(links, {l \in Range(links) : validateLink(l, allowlist)})[Len(links)]

\* The first MaxResultSummaryChars characters that are not hidden, trimmed: the
\* hidden ones go before the white space does.
sanitizeSummary(s) ==
  LET shown(n) == n - Cardinality(s.hidden \cap ((s.skip + 1)..(s.skip + n)))
      first == IF shown(s.chars) <= MaxResultSummaryChars THEN s
               ELSE [s EXCEPT !.chars = Max({n \in 0..s.chars : shown(n) <= MaxResultSummaryChars})]
  IN  trimmed(first, white(s) \cup s.hidden)

\* The file is an object of the contract's shape, as result_write writes it.
ParseResult(message, allowlist) ==
  LET kept == keptLinks(message.links, allowlist)
      summary == sanitizeSummary(message.summary)
      tooLarge == message.bytes > MaxResultBytes
      dropped == Len(message.links) - Len(kept)
  IN  [outcome |-> CASE tooLarge \/ dropped > 0         -> "Invalid"
                     [] summary.chars = 0 /\ kept = <<>> -> "NotProvided"
                     [] OTHER                           -> "Recorded",
       summary |-> IF tooLarge THEN [summary EXCEPT !.chars = 0] ELSE summary,
       links   |-> IF tooLarge THEN <<>> ELSE [i \in DOMAIN kept |-> normalized(kept[i])]]

=============================================================================
