------------------------------- MODULE Parse -------------------------------
(***************************************************************************)
(* parse.go: from a line of the monitor to an event.  A line is a record   *)
(* of what it prints; a rule stands for its text, of which the parsers     *)
(* look at the target and at the comment.                                  *)
(***************************************************************************)
EXTENDS Outcome

CONSTANTS RuleId,     \* names of rules: their handles for nft
          Chain,      \* chains of the host and of the run, each with its table
          Prints      \* names of the host that have marks of the run in them -> the marks

Targets == {"accept", "drop", "reject", "jump", "log", "trace", "mark", "count"}

Rule   == [id: RuleId, owner: {"host", "run"}, target: Targets]
NoRule == [id |-> None, owner |-> None, target |-> None]

\* What the tool prints of a packet.  `tuple` tells how the addresses and ports
\* compare with those of the flow: equal, or longer numbers that begin with them,
\* or others, or not printed.  `of` and `hit` are not printed: the packet and the
\* rule the line is really about.
LineFields ==
  [kind:    {"packet", "rule", "verdict", "policy", "return", "log", "other"},
   of:      Trace, hit: Rule \cup {NoRule},
   chain:   Chain,
   number:  Nat,                  \* iptables: the position of the rule
   handle:  RuleId \cup {None},   \* nft: its handle, and its text
   text:    Rule \cup {NoRule},
   verdict: {"accept", "drop", "other", None},
   tuple:   {"same", "longer", "other", "absent"},
   prefix:  {"IN", "FWD", "POST", None}]

\* The chains of the run's own table, as nft prints them.
RunChains == {"trace_prerouting", "trace_output", "final_input", "final_forward",
              "final_postrouting"}

LookUp(rules, key) == IF key \in DOMAIN rules THEN rules[key] ELSE NoRule

\* Where the rules of a listing are.
Positions(listing) == UNION {{c} \X DOMAIN listing[c] : c \in DOMAIN listing}

\* family/table/chain/handle -> rule
ParseNftRuleset(listing) ==
  [key \in {<<p[1], listing[p[1]][p[2]].id>> : p \in Positions(listing)} |->
     CHOOSE rule \in {listing[key[1]][k] : k \in DOMAIN listing[key[1]]} : rule.id = key[2]]

\* table/chain/number -> rule; the number is the position in the listing.
ParseSave(listing) == [key \in Positions(listing) |-> listing[key[1]][key[2]]]

\* strings.Contains finds a number also at the beginning of a longer one.
FlowMatches(line) == line.tuple \in {"same", "longer"}

\* The comment nftracepath:<runid> (nft) or the prefix NFTP:<runid> (iptables).
OursByName(line) == line.text.owner = "run" \/ line.prefix # None

----------------------------------------------------------------------------
\* Hints and verdicts.

\* What parseFinalHint looks for: the ends of the run's comments and the names of its
\* chains.  Neither has the run id, so that a chain or a comment of the host may
\* have them too.  (The run's rules are called after their chains.)
Marks(name) ==
  IF name = "final_input" THEN {"final_input", ":final-input"}
  ELSE IF name = "final_forward" THEN {"final_forward", ":final-forward"}
  ELSE IF name = "final_postrouting" THEN {"final_postrouting", ":final-postrouting"}
  ELSE IF name \in DOMAIN Prints THEN Prints[name] ELSE {}

FinalHint(found) ==
  IF ":final-input" \in found THEN "input"
  ELSE IF ":final-forward" \in found THEN "forward"
  ELSE IF ":final-postrouting" \in found THEN "postrouting"
  ELSE IF "final_input" \in found THEN "input"
  ELSE IF "final_forward" \in found THEN "forward"
  ELSE IF "final_postrouting" \in found THEN "postrouting" ELSE None

LogHint(line) ==
  CASE line.prefix = "IN"   -> "input"
    [] line.prefix = "FWD"  -> "forward"
    [] line.prefix = "POST" -> "postrouting"
    [] OTHER -> None

\* Fault: reaching a policy is taken for a drop.
PolicyIsDrop(kind, rule) ==
  IF kind = "policy" THEN "drop" ELSE IF rule = NoRule THEN None ELSE "other"

\* The argument of -j.  A policy is a verdict of its own, whatever the policy is.
LogVerdict(kind, rule) ==
  IF kind = "policy" THEN "other"
  ELSE IF rule = NoRule THEN None
  ELSE IF rule.target \in {"accept", "drop", "reject"} THEN rule.target ELSE "other"

\* Fault: where a line comes from is decided by its kind first.
PolicyFirst(line, kind, rule, chain) ==
  IF kind = "policy" THEN "policy"
  ELSE IF OursByName(line) \/ rule.owner = "run" \/ chain \in RunChains THEN "temporary"
  ELSE IF rule # NoRule \/ kind \in {"rule", "verdict"} THEN "system" ELSE None

\* annotateRuleOrigin.
Origin(line, kind, rule, chain) ==
  IF OursByName(line) \/ rule.owner = "run" \/ chain \in RunChains THEN "temporary"
  ELSE IF kind = "policy" THEN "policy"
  ELSE IF rule # NoRule \/ kind \in {"rule", "verdict"} THEN "system" ELSE None

----------------------------------------------------------------------------
\* Lines to events.  The interfaces are left out here: TraceRun is about them.

Event(line, kind, rule, verdict, hint, chain) ==
  [parsed |-> TRUE, ours |-> OursByName(line) \/ FlowMatches(line), trace |-> line.of,
   chain |-> IF chain \in {"mangle_INPUT", "filter_INPUT"} THEN "INPUT" ELSE "other",
   verdict |-> verdict, hint |-> hint, in |-> None, out |-> None,
   kind |-> kind, rule |-> rule, origin |-> Origin(line, kind, rule, chain), raw |-> line]

\* The listing knows the rule by its handle; a rule that came later is at least
\* printed in the line.
ParseNftLine(line, rules) ==
  LET listed == LookUp(rules, <<line.chain, line.handle>>)
      rule   == IF listed = NoRule /\ line.kind = "rule" THEN line.text ELSE listed
      found  == Marks(line.chain) \cup Marks(rule.id) \cup Marks(line.text.id)
  IN  Event(line, line.kind, rule, line.verdict, FinalHint(found), line.chain)

\* A TRACE line has the number of a rule and no text; a LOG line of the run has its
\* prefix, and neither table nor chain.
ParseLogLine(line, rules) ==
  IF line.kind = "log" THEN Event(line, "log", NoRule, None, LogHint(line), None)
  ELSE LET rule == IF line.kind = "rule" THEN LookUp(rules, <<line.chain, line.number>>) ELSE NoRule
       IN  Event(line, line.kind, rule, LogVerdict(line.kind, rule), None, line.chain)

\* The lines that become events; the run's packets are told by the filter before
\* parsing (iptables), or by the packets it tracks (nft).
NftParsed(line) == line.kind \in {"packet", "rule", "verdict", "policy"}
LogParsed(line) == line.kind \in {"rule", "policy", "return", "log"}
=============================================================================
