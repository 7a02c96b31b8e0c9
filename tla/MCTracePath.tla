---------------------------- MODULE MCTracePath ----------------------------
(* Two small hosts: chains of all tables on the three ways, a chain that    *)
(* filter INPUT may jump to, and one rule per target.                       *)
EXTENDS TracePath

OneRule(id, target) == [id |-> id, owner |-> "host", target |-> target]

Accept == OneRule("h_accept", "accept")
Drop   == OneRule("h_drop", "drop")
Reject == OneRule("h_reject", "reject")
Jump   == OneRule("h_jump", "jump")
Log    == OneRule("h_log", "log")

AddedRule == OneRule("h_new", "drop")

HostChains == BuiltIn \cup {User}

Empty == [c \in HostChains |-> <<>>]

SampleRulesets ==
  {[Empty EXCEPT !["raw_PREROUTING"] = <<Log>>, !["filter_FORWARD"] = <<Reject>>],
   [Empty EXCEPT !["mangle_INPUT"] = <<Accept>>, !["filter_INPUT"] = <<Jump>>,
                 !["filter_USER"] = <<Drop>>]}

SampleChains == HostChains \cup RunChains
SampleIds == {"h_accept", "h_drop", "h_reject", "h_jump", "h_log", "h_new"} \cup RunChains
SamplePrints == [name \in {} |-> {}]
SampleCuts ==
  {[c \in SampleChains |-> 0],
   [c \in SampleChains |-> IF c \in {"raw_PREROUTING", "mangle_INPUT", "filter_INPUT"} THEN 1 ELSE 0]}
SamplePolicies == {{"filter_INPUT"}}
=============================================================================
