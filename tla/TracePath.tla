----------------------------- MODULE TracePath -----------------------------
(***************************************************************************)
(* The ruleset with the rules of a run in it, the packets that go through  *)
(* it, the lines the kernel prints of them, and what the run makes of the  *)
(* lines.  TraceRun lets any line come at any time; here lines have a      *)
(* cause, so that the result can be compared with what really happened.    *)
(***************************************************************************)
EXTENDS Parse

CONSTANTS HostRulesets,   \* rules of the host: chain -> sequence of rules
          DropPolicies,   \* sets of its chains whose policy is drop
          NewRule, Touched,   \* a rule that somebody else may add, chains they may change
          Cuts,           \* what a listing that fails may have printed: rules per chain
          MaxPackets, MaxEarly,   \* bounds: packets, those before the loop,
          MaxMishaps              \* and mishaps

ASSUME PathAssumption ==
  /\ \A h \in HostRulesets : \A c \in DOMAIN h : c \in Chain /\ h[c] \in Seq(Rule)
  /\ NewRule \in Rule /\ MaxPackets \in Nat /\ MaxEarly \in 0..MaxPackets /\ MaxMishaps \in Nat
  /\ Trace = 1..MaxPackets
  /\ RunChains \subseteq RuleId \cap Chain /\ None \notin RuleId
  /\ DOMAIN Prints \cap (RunChains \cup {None}) = {}
  /\ Cuts \subseteq [Chain -> Nat]

VARIABLES
  backend, othersTrace,   \* of the run; somebody else traces packets too
  ruleset, dropPolicy,    \* what is in the kernel
  phase, installed,       \* "setup", "snapshot", "loop" or "failed"; commands that ran
  attached, lines,        \* whether the monitor is; what it printed and nobody read
  rules, listed,          \* the parsed listing, and whether there is one
  packets,                \* all packets so far; at most the last one is on its way
  place, view,            \* where that one is, and the rules it goes by
  event, shown, outcome,  \* of the Result: the latest event, the packets of all of them
  changed, mishaps        \* somebody else changed rules; mishaps so far

hostVars   == <<ruleset, dropPolicy, othersTrace, backend>>
setupVars  == <<phase, installed>>
listVars   == <<rules, listed>>
packetVars == <<packets, place, view>>
resultVars == <<event, shown, outcome>>
mishapVars == <<changed, mishaps>>
vars == <<hostVars, setupVars, listVars, packetVars, resultVars, mishapVars, attached, lines>>

\* The chains on the ways of packets, in the order of the hooks and of their
\* priorities.  A packet passes over those that are not in the kernel.
Way ==
  [input   |-> <<"trace_prerouting", "raw_PREROUTING", "mangle_INPUT", "filter_INPUT",
                 "final_input">>,
   forward |-> <<"trace_prerouting", "raw_PREROUTING", "filter_FORWARD", "final_forward",
                 "mangle_POSTROUTING", "final_postrouting">>,
   output  |-> <<"trace_output", "raw_OUTPUT", "mangle_POSTROUTING", "final_postrouting">>]

User == "filter_USER"   \* a chain that only jumps lead to

BuiltIn == {"raw_PREROUTING", "raw_OUTPUT", "mangle_INPUT", "filter_INPUT", "filter_FORWARD",
            "mangle_POSTROUTING"}

\* The host has its chains, maybe empty, and rules that trace nothing: what others
\* trace is told by othersTrace.  The run's chains are in a table, and its rules have
\* comments, with the run id: they are none of the host's, and a name (for nft, a
\* handle in its table) is that of one rule.
HostRule(r) == r.owner = "host" /\ r.target \notin {"trace", "mark"} /\ r.id \notin RunChains

HostRules == {NewRule} \cup UNION {UNION {{h[c][k] : k \in DOMAIN h[c]} : c \in DOMAIN h} :
                                  h \in HostRulesets}

ASSUME HostAssumption ==
  /\ \A r \in HostRules : HostRule(r)
  /\ \A r, s \in HostRules : r.id = s.id => r = s
  /\ Touched \subseteq BuiltIn /\ \A d \in DropPolicies : d \subseteq BuiltIn
  /\ \A h \in HostRulesets : BuiltIn \cup {User} \subseteq DOMAIN h /\ DOMAIN h \cap RunChains = {}

Nowhere == [stop |-> 0, at |-> 0, back |-> 0, dumped |-> FALSE]
NoView  == [c \in {} |-> <<>>]
NoEvent == [kind |-> None]

\* Every variable keeps its type.
PathTypeOK ==
  /\ backend \in {"nft", "iptables"} /\ othersTrace \in BOOLEAN
  /\ \A c \in DOMAIN ruleset : c \in Chain /\ ruleset[c] \in Seq(Rule)
  /\ dropPolicy \in DropPolicies
  /\ phase \in {"setup", "snapshot", "loop", "failed"} /\ installed \in 0..5
  /\ attached \in BOOLEAN /\ listed \in BOOLEAN
  /\ \A k \in DOMAIN lines : lines[k] \in LineFields
  /\ \A key \in DOMAIN rules : rules[key] \in Rule
  /\ \A k \in DOMAIN packets :
       packets[k] \in [about: {"flow", "alike"}, route: DOMAIN Way,
                       watched: BOOLEAN, traced: BOOLEAN,
                       fate: {"moving", "dropped", "policy", "through"}]
  /\ place \in [stop: 0..6, at: Nat, back: Nat, dumped: BOOLEAN]
  /\ event # NoEvent =>
       /\ event.kind \in {"packet", "rule", "verdict", "policy", "return", "log"}
       /\ event.rule \in Rule \cup {NoRule} /\ event.raw \in LineFields
       /\ event.origin \in {"temporary", "policy", "system", None}
  /\ shown \subseteq DOMAIN packets
  /\ outcome \in Outcomes /\ changed \in BOOLEAN /\ mishaps \in 0..MaxMishaps

Init ==
  /\ backend \in {"nft", "iptables"} /\ othersTrace \in BOOLEAN
  /\ ruleset \in HostRulesets /\ dropPolicy \in DropPolicies
  /\ phase = "setup" /\ installed = 0
  /\ attached = FALSE /\ lines = <<>>
  /\ rules = NoView /\ listed = FALSE
  /\ packets = <<>> /\ place = Nowhere /\ view = NoView
  /\ event = NoEvent /\ shown = {} /\ outcome = "timeout"
  /\ changed = FALSE /\ mishaps = 0

----------------------------------------------------------------------------
\* The setup.

RunRule(id, target) == [id |-> id, owner |-> "run", target |-> target]

Command(id, target, chain, first) ==
  [rule |-> RunRule(id, target), chain |-> chain, first |-> first]

\* iptablesSetupScript, for a flow without an ingress interface.
SetupCommands ==
  <<Command("trace_prerouting", "trace", "raw_PREROUTING", TRUE),
    Command("trace_output", "trace", "raw_OUTPUT", TRUE),
    Command("final_input", "log", "filter_INPUT", FALSE),
    Command("final_forward", "log", "filter_FORWARD", FALSE),
    Command("final_postrouting", "log", "mangle_POSTROUTING", FALSE)>>

\* Fault: all rules are inserted at the head of their chains.
InsertedAtHead(command, chainRules) == <<command.rule>> \o chainRules

\* -I chain 1, or -A chain.
WithRule(command, chainRules) ==
  IF command.first THEN <<command.rule>> \o chainRules ELSE Append(chainRules, command.rule)

\* Bound: what goes wrong or is changed by others in one behaviour.
Mishap == mishaps < MaxMishaps /\ mishaps' = mishaps + 1

\* One command after the other, some of which may fail; the script fails if the last
\* one does.
AddRule ==
  /\ phase = "setup" /\ backend = "iptables"
  /\ installed' = installed + 1
  /\ LET command == SetupCommands[installed']
         last    == installed' = Len(SetupCommands)
     IN \/ /\ ruleset' = [ruleset EXCEPT ![command.chain] = WithRule(command, @)]
           /\ phase' = IF last THEN "snapshot" ELSE phase
           /\ UNCHANGED mishaps
        \/ /\ Mishap
           /\ phase' = IF last THEN "failed" ELSE phase
           /\ UNCHANGED ruleset
  /\ UNCHANGED <<dropPolicy, othersTrace, backend, listVars, packetVars, resultVars, attached,
                 lines, changed>>

\* nftSetupScript: the table with its chains comes as a whole.
AddTable ==
  /\ phase = "setup" /\ backend = "nft"
  /\ ruleset' = [c \in DOMAIN ruleset \cup RunChains |->
                   IF c \in {"trace_prerouting", "trace_output"} THEN <<RunRule(c, "mark")>>
                   ELSE IF c \in RunChains THEN <<RunRule(c, "count")>>
                   ELSE ruleset[c]]
  /\ phase' = "snapshot" /\ installed' = 1
  /\ UNCHANGED <<dropPolicy, othersTrace, backend, listVars, packetVars, resultVars, attached,
                 lines, mishapVars>>

Parsing(listing) == IF backend = "nft" THEN ParseNftRuleset(listing) ELSE ParseSave(listing)

\* The first rules of each chain, as many as the cut leaves.
CutListing(cut) == [c \in DOMAIN ruleset |-> SubSeq(ruleset[c], 1, Min({cut[c], Len(ruleset[c])}))]

\* The ruleset is listed once, after the setup.  If that fails the run goes on, with
\* what was printed until then.
Snapshot ==
  /\ phase = "snapshot"
  /\ \/ listed' = TRUE /\ rules' = Parsing(ruleset) /\ UNCHANGED mishaps
     \/ listed' = FALSE /\ Mishap /\ \E cut \in Cuts : rules' = Parsing(CutListing(cut))
  /\ phase' = "loop"
  /\ UNCHANGED <<hostVars, installed, packetVars, resultVars, attached, lines, changed>>

\* The monitor was started before the setup, but nobody waits until it listens.
Attach ==
  /\ ~attached
  /\ attached' = TRUE
  /\ UNCHANGED <<hostVars, setupVars, listVars, packetVars, resultVars, lines, mishapVars>>

\* Somebody adds a rule in front, or deletes the first one that is not the run's.
HostChanges ==
  /\ phase # "failed" /\ Mishap /\ changed' = TRUE
  /\ \E c \in Touched :
       \/ ruleset' = [ruleset EXCEPT ![c] = <<NewRule>> \o @]
       \/ /\ ruleset[c] # <<>> /\ Head(ruleset[c]).owner = "host"
          /\ ruleset' = [ruleset EXCEPT ![c] = Tail(@)]
  /\ UNCHANGED <<dropPolicy, othersTrace, backend, setupVars, listVars, packetVars,
                 resultVars, attached, lines>>

----------------------------------------------------------------------------
\* Packets in the kernel.

Latest == Len(packets)
P      == packets[Latest]
Moving == Latest > 0 /\ P.fate = "moving"

Here      == IF place.back > 0 THEN User ELSE Way[P.route][place.stop]
HereRules == view[Here]

\* iptablesMatchArgs, nftMatch: the kernel compares numbers.
RunMatches(p) == p.about = "flow"

Tuple == [flow |-> "same", alike |-> "longer"]

\* From stop k on, the packet goes by the rules that are there when it enters a chain.
EnterFrom(k, packet) ==
  LET way   == Way[packet.route]
      stops == {s \in k..Len(way) : way[s] \in DOMAIN ruleset}
  IN  IF stops = {}
      THEN /\ packets' = [packets EXCEPT ![Latest] = [packet EXCEPT !.fate = "through"]]
           /\ place' = Nowhere /\ view' = NoView
      ELSE /\ packets' = [packets EXCEPT ![Latest] = packet]
           /\ place' = [stop |-> Min(stops), at |-> 1, back |-> 0, dumped |-> FALSE]
           /\ view' = ruleset

EndAs(fate, packet) ==
  /\ packets' = [packets EXCEPT ![Latest] = [packet EXCEPT !.fate = fate]]
  /\ place' = Nowhere /\ view' = NoView

GoTo(at, back, dumped, packet) ==
  /\ packets' = [packets EXCEPT ![Latest] = packet]
  /\ place' = [place EXCEPT !.at = at, !.back = back, !.dumped = dumped]
  /\ UNCHANGED view

\* Packets come one at a time; traced from the start are those that another tracer
\* of the host marks, never the flow's.
Depart ==
  /\ ~Moving /\ phase # "failed"
  /\ Latest < IF phase = "loop" THEN MaxPackets ELSE MaxEarly
  /\ \E about \in {"flow", "alike"}, route \in DOMAIN Way :
       LET way == Way[route]
       IN  /\ packets' = Append(packets, [about |-> about, route |-> route, watched |-> attached,
                                          traced |-> about # "flow" /\ othersTrace,
                                          fate |-> "moving"])
           /\ place' = [stop |-> Min({s \in DOMAIN way : way[s] \in DOMAIN ruleset}),
                        at |-> 1, back |-> 0, dumped |-> FALSE]
  /\ view' = ruleset
  /\ UNCHANGED <<hostVars, setupVars, listVars, resultVars, attached, lines, mishapVars>>

Line(kind) ==
  [kind |-> kind, of |-> Latest, hit |-> NoRule, chain |-> Here, number |-> 0, handle |-> None,
   text |-> NoRule, verdict |-> None, tuple |-> Tuple[P.about], prefix |-> None]

\* The monitor gets what the kernel prints, if it listens.
Monitor(printed) == lines' = IF attached THEN lines \o printed ELSE lines

Prefix(id) == CASE id = "final_input" -> "IN" [] id = "final_forward" -> "FWD" [] OTHER -> "POST"

\* A rule with the target TRACE is not traced itself.  The LOG rules of the host
\* print lines of a form of their own.
LogLinesOf(r, at) ==
  (IF P.traced THEN <<[Line("rule") EXCEPT !.hit = r, !.number = at]>> ELSE <<>>)
  \o (IF r.target # "log" THEN <<>>
      ELSE IF r.owner = "run" THEN <<[Line("log") EXCEPT !.hit = r, !.prefix = Prefix(r.id)]>>
      ELSE <<[Line("other") EXCEPT !.hit = r]>>)

\* nft describes the packet once per base chain; a rule of the host says nothing of
\* the five-tuple.  The verdict of a reject statement is a drop.
Described == IF place.dumped THEN <<>> ELSE <<Line("packet")>>

NftLinesOf(r) ==
  IF ~P.traced /\ r.target # "mark" THEN <<>>
  ELSE Described \o
       <<[Line("rule") EXCEPT !.hit = r, !.handle = r.id, !.text = r,
            !.tuple = IF r.owner = "run" THEN "same" ELSE "absent",
            !.verdict = CASE r.target \in {"drop", "reject"} -> "drop"
                          [] r.target = "accept" -> "accept" [] OTHER -> "other"]>>

\* The next rule that matches, at `at`.  Those before it do not, for a condition of
\* the host's, or for the match or the limit of the run's.
Hit ==
  /\ Moving
  /\ \E at \in place.at..Len(HereRules) :
     LET r == HereRules[at]
         dumped == place.dumped \/ (P.traced \/ r.target = "mark")
         next(packet) == GoTo(at + 1, place.back, dumped, packet)
     IN /\ r.owner = "run" => RunMatches(P)
        /\ Monitor(IF backend = "nft" THEN NftLinesOf(r) ELSE LogLinesOf(r, at))
        /\ CASE r.target \in {"drop", "reject"} -> EndAs("dropped", P)
             [] r.target = "accept" -> EnterFrom(place.stop + 1, P)
             [] r.target = "jump" -> GoTo(1, at + 1, dumped, P)
             [] r.target \in {"trace", "mark"} -> next([P EXCEPT !.traced = TRUE])
             [] OTHER -> next(P)
  /\ UNCHANGED <<hostVars, setupVars, listVars, resultVars, attached, mishapVars>>

\* No rule of the chain is left: back to the chain that jumped here.
ReturnFromUser ==
  /\ Moving /\ place.back > 0
  /\ Monitor(IF P.traced THEN <<[Line(IF backend = "nft" THEN "verdict" ELSE "return")
                                EXCEPT !.number = Len(HereRules) + 1,
                                       !.tuple = IF backend = "nft" THEN "absent" ELSE @]>>
                       ELSE <<>>)
  /\ GoTo(place.back, 0, place.dumped, P)
  /\ UNCHANGED <<hostVars, setupVars, listVars, resultVars, attached, mishapVars>>

\* No rule of a base chain is left: its policy.
MeetPolicy ==
  /\ Moving /\ place.back = 0
  /\ Monitor(IF ~P.traced THEN <<>>
           ELSE IF backend = "nft" THEN Described \o <<[Line("policy") EXCEPT !.tuple = "absent"]>>
           ELSE <<[Line("policy") EXCEPT !.number = Len(HereRules) + 1]>>)
  /\ IF Here \in dropPolicy THEN EndAs("policy", P) ELSE EnterFrom(place.stop + 1, P)
  /\ UNCHANGED <<hostVars, setupVars, listVars, resultVars, attached, mishapVars>>

----------------------------------------------------------------------------
\* The loop of Run, seen from its lines.  Its ways to end are in TraceRun.

Record(ev) ==
  /\ event' = ev
  /\ shown' = shown \cup {ev.raw.of}
  /\ outcome' = OutcomeAfter(backend, outcome, ev)

\* nft: a packet is tracked from the first of its lines that shows the flow; the
\* tracked ones are those that have an event.
NftRelevant(line) ==
  NftParsed(line) /\ (FlowMatches(line) \/ OursByName(line) \/ line.of \in shown)

\* iptables: every line shows the packet.
LogRelevant(line) == (FlowMatches(line) \/ OursByName(line)) /\ LogParsed(line)

\* Reading commutes with what happens in the kernel, which it neither sees nor
\* changes: it is shown between packets only.
ReadLine ==
  /\ phase = "loop" /\ lines # <<>> /\ ~Moving
  /\ lines' = Tail(lines)
  /\ LET line == Head(lines)
     IN  IF IF backend = "nft" THEN NftRelevant(line) ELSE LogRelevant(line)
         THEN Record(IF backend = "nft" THEN ParseNftLine(line, rules) ELSE ParseLogLine(line, rules))
         ELSE UNCHANGED resultVars
  /\ UNCHANGED <<hostVars, setupVars, listVars, packetVars, attached, mishapVars>>

Next == AddRule \/ AddTable \/ Snapshot \/ Attach \/ HostChanges
        \/ Depart \/ Hit \/ ReturnFromUser \/ MeetPolicy \/ ReadLine

Spec == Init /\ [][Next]_vars

----------------------------------------------------------------------------
Settled == ~Moving /\ lines = <<>>

\* The numbers of iptables mean what they meant when they were listed; nft names
\* rules for good and prints its verdicts.
Readable == backend = "nft" \/ (listed /\ ~changed)

\* The event just recorded, if it is about the flow.
OfFlow == event # NoEvent /\ packets[event.raw.of].about = "flow"

\* iptables.go 54-58, nft.go 43-47: the rule of an event about the flow is the rule
\* that its packet hit, although packets come while the run still adds rules.  If the
\* listing of iptables failed it is that rule or none, never another one.
RuleTextTrue ==
  OfFlow /\ event.kind = "rule" /\ (backend = "nft" \/ ~changed) =>
    event.rule = event.raw.hit \/ (backend = "iptables" /\ ~listed /\ event.rule = NoRule)

\* README 113-117: what is said of an event's origin is true of the rule or of the
\* policy behind it.
OriginTrue ==
  Readable /\ OfFlow =>
    LET own == event.raw.hit.owner = "run" \/ event.raw.chain \in RunChains
    IN  /\ event.origin = "temporary" <=> own
        /\ event.origin = "system" => event.kind \in {"rule", "verdict"}
        /\ event.kind = "rule" /\ ~own => event.origin = "system"

\* Nothing of the host is taken for one of the run's final chains.
NoNamesake == \A name \in (Chain \ RunChains) \cup {r.id : r \in HostRules} : Marks(name) = {}

\* The packet came to where the answer puts it.  iptables tells of no policy whether it
\* discards, so that the run takes an ACCEPT or the final LOG rule for the end of the
\* way: there a policy after it may have had the last word.
Arrived(k) == packets[k].fate = "through" \/ (backend = "iptables" /\ packets[k].fate = "policy")

\* nft.go 157-188: the outcome is that of a packet that was shown: a rule dropped it, or
\* it arrived at this host, or on its way out; with nft nothing discarded it after all.
\* For iptables others must not trace packets: one that came before the run's rules was
\* printed with numbers of a chain that has a rule more when it is listed.
AnswerIsTrue ==
  Settled /\ Readable /\ (backend = "iptables" => ~othersTrace) =>
    /\ outcome \in {"drop", "reject"} => \E k \in shown : packets[k].fate = "dropped"
    /\ outcome = "local" /\ NoNamesake =>
         \E k \in shown : packets[k].route = "input" /\ Arrived(k)
    /\ outcome = "egress" /\ NoNamesake =>
         \E k \in shown : packets[k].route # "input" /\ Arrived(k)

\* nft.go 30, 164-171: a rule that drops a traced packet is told, if the monitor
\* listened when the packet came and no other packet was seen since.
DropIsTold ==
  phase = "loop" /\ Settled /\ Readable /\ Latest > 0 =>
    (P.about = "flow" /\ P.watched /\ P.traced /\ P.fate = "dropped" =>
       outcome \in {"drop", "reject"})

----------------------------------------------------------------------------
\* 原理 42: a packet that is dropped on its way makes the result a drop.
LostIsMarked ==
  phase = "loop" /\ Settled /\ Readable /\ Latest > 0 =>
    (P.about = "flow" /\ P.watched /\ P.traced /\ P.fate \in {"dropped", "policy"} =>
       outcome \in {"drop", "reject"})
=============================================================================
