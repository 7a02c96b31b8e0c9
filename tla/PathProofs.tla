----------------------------- MODULE PathProofs -----------------------------
(***************************************************************************)
(* For every ruleset of the host and any number of packets and mishaps:    *)
(* what a run says of its flow is true.  The argument follows a line from  *)
(* the rule that printed it over the monitor to the event, and a packet    *)
(* from its first line to its last.                                        *)
(***************************************************************************)
EXTENDS TracePath, OutcomeProofs

RawChains == {"raw_PREROUTING", "raw_OUTPUT"}

\* Of the chains that get a rule at their head: they have it, or never will.
Fixed(c) == (c = "raw_PREROUTING" => installed > 0) /\ (c = "raw_OUTPUT" => installed > 1)

\* The command that adds the run's rule of a chain ran.
Added(c) ==
  /\ Fixed(c)
  /\ c = "filter_INPUT" => installed > 2
  /\ c = "filter_FORWARD" => installed > 3
  /\ c = "mangle_POSTROUTING" => installed > 4

\* Where the setup puts the rules of the run.
IptPlace(c, r) ==
  \/ c = "raw_PREROUTING" /\ r = RunRule("trace_prerouting", "trace")
  \/ c = "raw_OUTPUT" /\ r = RunRule("trace_output", "trace")
  \/ c = "filter_INPUT" /\ r = RunRule("final_input", "log")
  \/ c = "filter_FORWARD" /\ r = RunRule("final_forward", "log")
  \/ c = "mangle_POSTROUTING" /\ r = RunRule("final_postrouting", "log")

NftRunRule(c) == RunRule(c, IF c \in {"trace_prerouting", "trace_output"} THEN "mark" ELSE "count")

\* The rules a chain may have.
ChainRule(c, r) ==
  \/ r \in HostRules /\ c \notin RunChains
  \/ backend = "iptables" /\ IptPlace(c, r) /\ Added(c)
  \/ backend = "nft" /\ c \in RunChains /\ r = NftRunRule(c)

\* The run's LOG rules are the last ones of their chains.
LogIsLast(rs) ==
  \A c \in DOMAIN rs : \A k \in 1..Len(rs[c]) :
    rs[c][k].owner = "run" /\ rs[c][k].target = "log" => k = Len(rs[c])

RulesInv(rs) ==
  /\ BuiltIn \cup {User} \subseteq DOMAIN rs /\ DOMAIN rs \subseteq Chain
  /\ backend = "iptables" => DOMAIN rs \cap RunChains = {}
  /\ \A c \in DOMAIN rs : rs[c] \in Seq(Rule) /\ \A k \in 1..Len(rs[c]) : ChainRule(c, rs[c][k])
  /\ backend = "iptables" /\ ~changed => LogIsLast(rs)

SetupInv ==
  /\ backend \in {"nft", "iptables"} /\ othersTrace \in BOOLEAN /\ attached \in BOOLEAN
  /\ changed \in BOOLEAN /\ listed \in BOOLEAN /\ mishaps \in 0..MaxMishaps
  /\ dropPolicy \in DropPolicies
  /\ phase \in {"setup", "snapshot", "loop", "failed"}
  /\ installed \in 0..5 /\ (phase = "setup" => installed < 5)
  /\ phase = "setup" /\ backend = "nft" => installed = 0
  /\ listed => phase = "loop"

----------------------------------------------------------------------------
(* Packets.                                                                *)

Fates  == {"moving", "dropped", "policy", "through"}
Packet == [about: {"flow", "alike"}, route: DOMAIN Way, watched: BOOLEAN, traced: BOOLEAN,
           fate: Fates]

\* The run traces the flow only, and only where its rule has its place.
TracedInv ==
  \A k \in 1..Len(packets) :
    packets[k].traced =>
      /\ ~othersTrace => packets[k].about = "flow"
      /\ backend = "iptables" /\ packets[k].about = "flow" =>
           \A s \in DOMAIN Way[packets[k].route] : Fixed(Way[packets[k].route][s])

PacketsInv ==
  /\ packets \in Seq(Packet) /\ Len(packets) <= MaxPackets
  /\ \A k \in 1..Len(packets) : k # Len(packets) => packets[k].fate # "moving"
  /\ TracedInv

\* A position in the rules that the packet goes by is one in the chain.
Numbered(c) ==
  /\ Fixed(c) /\ c \in DOMAIN ruleset /\ Len(view[c]) <= Len(ruleset[c])
  /\ \A k \in 1..Len(view[c]) : ruleset[c][k] = view[c][k]

\* The rules a packet goes by may be older than those of the chain: they have then no
\* rule of the run yet, and the packet is not traced.
ViewInv ==
  /\ \A c \in DOMAIN view :
       Numbered(c) \/ (c \in RawChains /\ \A k \in 1..Len(view[c]) : view[c][k] \in HostRules)
  /\ P.traced /\ P.about = "flow" => Numbered(Way[P.route][place.stop])

PlaceInv ==
  /\ place \in [stop: 0..6, at: Nat, back: Nat, dumped: BOOLEAN]
  /\ Moving =>
       /\ RulesInv(view)
       /\ place.stop \in DOMAIN Way[P.route] /\ Way[P.route][place.stop] \in DOMAIN view
       /\ place.at > 0 /\ (place.dumped => P.traced)
       /\ backend = "iptables" /\ ~changed => ViewInv

----------------------------------------------------------------------------
(* Lines.                                                                  *)

OnWay(c, route) == c = User \/ \E s \in DOMAIN Way[route] : c = Way[route][s]

NftLine(l) ==
  /\ l.kind \in {"packet", "rule", "verdict", "policy"} /\ l.prefix = None
  /\ l.kind = "packet" => FlowMatches(l)
  /\ IF l.kind = "rule"
     THEN /\ ChainRule(l.chain, l.hit) /\ l.handle = l.hit.id /\ l.text = l.hit
          /\ l.verdict = "drop" <=> l.hit.target \in {"drop", "reject"}
          /\ l.verdict # "reject"
     ELSE l.hit = NoRule /\ l.handle = None /\ l.text = NoRule /\ l.verdict = None

IptLine(l) ==
  /\ l.kind \in {"rule", "policy", "return", "log", "other"} /\ FlowMatches(l)
  /\ l.text = NoRule
  /\ IF l.kind = "log" THEN l.hit.owner = "run" /\ IptPlace(l.chain, l.hit) /\
                            l.hit.target = "log" /\ l.prefix = Prefix(l.hit.id)
     ELSE l.prefix = None
  /\ l.kind \in {"policy", "return"} => l.hit = NoRule
  /\ l.kind = "rule" => ChainRule(l.chain, l.hit)
  /\ l.kind = "rule" /\ ~changed /\ packets[l.of].about = "flow" =>
       /\ Fixed(l.chain) /\ l.chain \in DOMAIN ruleset
       /\ l.number \in 1..Len(ruleset[l.chain]) /\ ruleset[l.chain][l.number] = l.hit

DropLine(l) == l.kind = "rule" /\ l.hit.target \in {"drop", "reject"}

\* What a line says was so when it was printed and still is.
LineTrue(l) ==
  /\ l \in LineFields /\ l.of \in 1..Len(packets)
  /\ l.kind # "other" /\ ~othersTrace => packets[l.of].about = "flow"
  /\ l.kind \notin {"log", "other"} => packets[l.of].traced
  /\ OnWay(l.chain, packets[l.of].route)
  /\ DropLine(l) => packets[l.of].fate = "dropped"
  /\ IF backend = "nft" THEN NftLine(l) ELSE IptLine(l)

\* The lines of a packet that a rule dropped end with that rule's.
DropsEnd ==
  \A i \in 1..Len(lines) :
    lines[i].kind \notin {"log", "other"} /\ packets[lines[i].of].fate = "dropped" =>
      \E j \in i..Len(lines) : lines[j].of = lines[i].of /\ DropLine(lines[j])

\* The packet is behind the last rule of its last chain.
Past == /\ place.back = 0 /\ place.at > Len(HereRules)
        /\ Here \in {"filter_INPUT", "mangle_POSTROUTING"}

\* A packet that reached a final LOG rule meets no rule after it.
LogsAreFinal ==
  \A i \in 1..Len(lines) :
    backend = "iptables" /\ ~changed /\ lines[i].kind = "log"
        /\ lines[i].hit.id \in {"final_input", "final_postrouting"} =>
      /\ packets[lines[i].of].fate # "dropped"
      /\ lines[i].of = Latest /\ Moving => Past

\* A packet that reached a final chain of the run's is in it still, or arrived.
StopsAreLast ==
  \A i \in 1..Len(lines) :
    backend = "nft" /\ lines[i].chain \in {"final_input", "final_postrouting"} =>
      \/ packets[lines[i].of].fate = "through"
      \/ lines[i].of = Latest /\ Moving /\ place.back = 0 /\ Here = lines[i].chain

LinesInv ==
  /\ lines \in Seq(LineFields) /\ (~attached => lines = <<>>)
  /\ \A i \in 1..Len(lines) : LineTrue(lines[i])
  /\ DropsEnd /\ LogsAreFinal /\ StopsAreLast

----------------------------------------------------------------------------
(* The listing and the result.                                             *)

\* The key of a rule is where it is.
KeyTrue(key) == key \in Positions(ruleset) /\ rules[key] = ruleset[key[1]][key[2]]

ListInv ==
  /\ \A key \in DOMAIN rules : rules[key] \in Rule
  /\ phase # "loop" => DOMAIN rules = {}
  /\ IF backend = "nft"
     THEN \A key \in DOMAIN rules : rules[key].id = key[2] /\ ChainRule(key[1], rules[key])
     ELSE /\ ~changed => \A key \in DOMAIN rules : KeyTrue(key)
          /\ listed /\ ~changed => rules = ParseSave(ruleset)

ShownInv ==
  /\ \A k \in shown : k \in 1..Len(packets) /\ (~othersTrace => packets[k].about = "flow")
  /\ Moving => Latest \notin shown
  /\ outcome \in Outcomes
  /\ phase # "loop" => event = NoEvent /\ shown = {} /\ outcome = "timeout"

EventInv ==
  /\ event # NoEvent =>
       /\ event.kind \in {"packet", "rule", "verdict", "policy", "return", "log"}
       /\ event.rule \in Rule \cup {NoRule} /\ event.raw \in LineFields
       /\ event.origin \in {"temporary", "policy", "system", None}
       /\ event.raw.of \in 1..Len(packets)
  /\ RuleTextTrue /\ OriginTrue

\* A line is on its way that will make the result a drop.
DropComes(k) == \E j \in 1..Len(lines) : lines[j].of = k /\ DropLine(lines[j])

\* The packet was not dropped, or the line that tells so comes; with nft it arrived.
Reached(k) == IF backend = "nft" THEN packets[k].fate = "through"
              ELSE packets[k].fate # "dropped" \/ DropComes(k)

AnswerInv ==
  Readable /\ (backend = "iptables" => ~othersTrace) =>
    /\ outcome \in {"drop", "reject"} => \E k \in shown : packets[k].fate = "dropped"
    /\ outcome = "local" /\ NoNamesake =>
         \E k \in shown : packets[k].route = "input" /\ Reached(k)
    /\ outcome = "egress" /\ NoNamesake =>
         \E k \in shown : packets[k].route # "input" /\ Reached(k)

Followed == Latest > 0 /\ P.about = "flow" /\ P.watched /\ P.traced

\* nft: the packet is tracked, or a line is on its way that makes it so.
IntroInv ==
  backend = "nft" /\ Followed =>
    Latest \in shown
    \/ \E j \in 1..Len(lines) : lines[j].of = Latest /\ lines[j].kind = "packet"

\* The drop of the last packet is the last line, or was told.
ToldInv ==
  Followed /\ P.fate = "dropped" =>
    IF lines = <<>> THEN phase = "loop" /\ (Readable => outcome \in {"drop", "reject"})
    ELSE lines[Len(lines)].of = Latest /\ DropLine(lines[Len(lines)])

WatchInv == \A k \in 1..Len(packets) : packets[k].watched => attached

PathInv ==
  /\ SetupInv /\ RulesInv(ruleset) /\ PacketsInv /\ PlaceInv /\ WatchInv /\ LinesInv
  /\ ListInv /\ ShownInv /\ EventInv /\ AnswerInv /\ IntroInv /\ ToldInv

----------------------------------------------------------------------------
(* The chains.                                                             *)

WayStops ==
  {<<"input", 1, "trace_prerouting">>, <<"input", 2, "raw_PREROUTING">>,
   <<"input", 3, "mangle_INPUT">>, <<"input", 4, "filter_INPUT">>, <<"input", 5, "final_input">>,
   <<"forward", 1, "trace_prerouting">>, <<"forward", 2, "raw_PREROUTING">>,
   <<"forward", 3, "filter_FORWARD">>, <<"forward", 4, "final_forward">>,
   <<"forward", 5, "mangle_POSTROUTING">>, <<"forward", 6, "final_postrouting">>,
   <<"output", 1, "trace_output">>, <<"output", 2, "raw_OUTPUT">>,
   <<"output", 3, "mangle_POSTROUTING">>, <<"output", 4, "final_postrouting">>}

LEMMA WayFacts ==
  ASSUME NEW route \in DOMAIN Way
  PROVE  /\ DOMAIN Way[route] = 1..Len(Way[route]) /\ Len(Way[route]) \in 0..6
         /\ 2 \in DOMAIN Way[route] /\ Way[route][2] \in BuiltIn
         /\ \A s \in DOMAIN Way[route] : <<route, s, Way[route][s]>> \in WayStops
<1>1. route \in {"input", "forward", "output"}
  BY DEF Way
<1>2. CASE route = "input"
  <2> DEFINE w == <<"trace_prerouting", "raw_PREROUTING", "mangle_INPUT", "filter_INPUT",
                    "final_input">>
  <2>1. Way[route] = w
    BY <1>2 DEF Way
  <2>2. Len(w) = 5 /\ DOMAIN w = 1..5 /\ w[2] = "raw_PREROUTING"
    OBVIOUS
  <2>3. /\ w[1] = "trace_prerouting" /\ w[2] = "raw_PREROUTING" /\ w[3] = "mangle_INPUT"
        /\ w[4] = "filter_INPUT" /\ w[5] = "final_input"
    OBVIOUS
  <2>4. 1..5 = {1, 2, 3, 4, 5} /\ 5 \in 0..6 /\ 2 \in 1..5
    OBVIOUS
  <2> HIDE DEF w
  <2>5. \A s \in 1..5 : <<"input", s, w[s]>> \in WayStops
    BY <2>3, <2>4 DEF WayStops
  <2> QED
    BY <1>2, <2>1, <2>2, <2>4, <2>5 DEF BuiltIn
<1>3. CASE route = "forward"
  <2> DEFINE w == <<"trace_prerouting", "raw_PREROUTING", "filter_FORWARD", "final_forward",
                    "mangle_POSTROUTING", "final_postrouting">>
  <2>1. Way[route] = w
    BY <1>3 DEF Way
  <2>2. Len(w) = 6 /\ DOMAIN w = 1..6 /\ w[2] = "raw_PREROUTING"
    OBVIOUS
  <2>3. /\ w[1] = "trace_prerouting" /\ w[2] = "raw_PREROUTING" /\ w[3] = "filter_FORWARD"
        /\ w[4] = "final_forward" /\ w[5] = "mangle_POSTROUTING" /\ w[6] = "final_postrouting"
    OBVIOUS
  <2>4. 1..6 = {1, 2, 3, 4, 5, 6} /\ 6 \in 0..6 /\ 2 \in 1..6
    OBVIOUS
  <2> HIDE DEF w
  <2>5. \A s \in 1..6 : <<"forward", s, w[s]>> \in WayStops
    BY <2>3, <2>4 DEF WayStops
  <2> QED
    BY <1>3, <2>1, <2>2, <2>4, <2>5 DEF BuiltIn
<1>4. CASE route = "output"
  <2> DEFINE w == <<"trace_output", "raw_OUTPUT", "mangle_POSTROUTING", "final_postrouting">>
  <2>1. Way[route] = w
    BY <1>4 DEF Way
  <2>2. Len(w) = 4 /\ DOMAIN w = 1..4 /\ w[2] = "raw_OUTPUT"
    OBVIOUS
  <2>3. /\ w[1] = "trace_output" /\ w[2] = "raw_OUTPUT" /\ w[3] = "mangle_POSTROUTING"
        /\ w[4] = "final_postrouting"
    OBVIOUS
  <2>4. 1..4 = {1, 2, 3, 4} /\ 4 \in 0..6 /\ 2 \in 1..4
    OBVIOUS
  <2> HIDE DEF w
  <2>5. \A s \in 1..4 : <<"output", s, w[s]>> \in WayStops
    BY <2>3, <2>4 DEF WayStops
  <2> QED
    BY <1>4, <2>1, <2>2, <2>4, <2>5 DEF BuiltIn
<1> QED
  BY <1>1, <1>2, <1>3, <1>4

\* What the chains where a packet may be tell of its way.
LEMMA WayTells ==
  ASSUME NEW route \in DOMAIN Way, NEW s \in DOMAIN Way[route]
  PROVE  /\ Way[route][s] \in BuiltIn \cup RunChains /\ Way[route][s] # User
         /\ Way[route][s] \in {"mangle_INPUT", "filter_INPUT", "final_input"} => route = "input"
         /\ Way[route][s] \in {"mangle_POSTROUTING", "final_postrouting"} => route # "input"
<1>1. <<route, s, Way[route][s]>> \in WayStops
  BY WayFacts
<1> QED
  BY <1>1 DEF WayStops, BuiltIn, RunChains, User

\* Only chains of the run come after those with the final LOG rules.
LEMMA WayEnds ==
  ASSUME NEW route \in DOMAIN Way, NEW s \in DOMAIN Way[route], NEW t \in DOMAIN Way[route],
         Way[route][s] \in {"filter_INPUT", "mangle_POSTROUTING"}, t > s
  PROVE  Way[route][t] \in RunChains
<1>1. <<route, s, Way[route][s]>> \in WayStops
  BY WayFacts
<1>2. \/ route = "input" /\ s = 4
      \/ route = "forward" /\ s = 5
      \/ route = "output" /\ s = 3
  BY <1>1 DEF WayStops
<1>3. <<route, t, Way[route][t]>> \in WayStops
  BY WayFacts
<1>4. CASE route = "input"
  <2>1. t \in {1, 2, 3, 4, 5}
    BY <1>3, <1>4 DEF WayStops
  <2>2. t = 5
    BY <1>2, <1>4, <2>1
  <2> QED
    BY <1>3, <1>4, <2>2 DEF WayStops, RunChains
<1>5. CASE route = "forward"
  <2>1. t \in {1, 2, 3, 4, 5, 6}
    BY <1>3, <1>5 DEF WayStops
  <2>2. t = 6
    BY <1>2, <1>5, <2>1
  <2> QED
    BY <1>3, <1>5, <2>2 DEF WayStops, RunChains
<1>6. CASE route = "output"
  <2>1. t \in {1, 2, 3, 4}
    BY <1>3, <1>6 DEF WayStops
  <2>2. t = 4
    BY <1>2, <1>6, <2>1
  <2> QED
    BY <1>3, <1>6, <2>2 DEF WayStops, RunChains
<1> QED
  BY <1>2, <1>4, <1>5, <1>6

\* The final chains that say where a packet arrived are the last ones.
LEMMA LastStops ==
  ASSUME NEW route \in DOMAIN Way, NEW s \in DOMAIN Way[route], NEW t \in DOMAIN Way[route],
         Way[route][s] \in {"final_input", "final_postrouting"}
  PROVE  ~(t > s)
<1>1. <<route, s, Way[route][s]>> \in WayStops
  BY WayFacts
<1>2. <<route, t, Way[route][t]>> \in WayStops
  BY WayFacts
<1>3. \/ route = "input" /\ s = 5 /\ t \in {1, 2, 3, 4, 5}
      \/ route = "forward" /\ s = 6 /\ t \in {1, 2, 3, 4, 5, 6}
      \/ route = "output" /\ s = 4 /\ t \in {1, 2, 3, 4}
  BY <1>1, <1>2 DEF WayStops
<1> QED
  BY <1>3

\* A packet passes one of the raw chains only.
LEMMA OneRawChain ==
  ASSUME NEW route \in DOMAIN Way, NEW s \in DOMAIN Way[route], Way[route][s] \in RawChains,
         Fixed(Way[route][s])
  PROVE  \A t \in DOMAIN Way[route] : Fixed(Way[route][t])
<1> SUFFICES ASSUME NEW t \in DOMAIN Way[route] PROVE Fixed(Way[route][t])
  OBVIOUS
<1>1. /\ <<route, s, Way[route][s]>> \in WayStops
      /\ <<route, t, Way[route][t]>> \in WayStops
  BY WayFacts
<1>2. Way[route][t] \in RawChains => Way[route][t] = Way[route][s]
  BY <1>1 DEF WayStops, RawChains
<1> QED
  BY <1>2 DEF Fixed, RawChains

\* A packet finds a chain of the kernel on each way.
LEMMA FirstStop ==
  ASSUME NEW route \in DOMAIN Way, NEW rs, RulesInv(rs)
  PROVE  LET stop == Min({s \in DOMAIN Way[route] : Way[route][s] \in DOMAIN rs})
         IN  stop \in DOMAIN Way[route] /\ Way[route][stop] \in DOMAIN rs /\ stop \in 0..6
<1> DEFINE S == {s \in DOMAIN Way[route] : Way[route][s] \in DOMAIN rs}
<1>1. S # {} /\ S \in SUBSET Nat
  BY WayFacts DEF RulesInv
<1>2. Min(S) \in S
  BY <1>1, MinOfPositions
<1> QED
  BY <1>2, WayFacts

\* The commands of the setup.
LEMMA SetupFacts ==
  /\ Len(SetupCommands) = 5
  /\ \A n \in 1..5 :
       /\ IptPlace(SetupCommands[n].chain, SetupCommands[n].rule)
       /\ n < 3 => SetupCommands[n].first = TRUE
       /\ n > 2 => SetupCommands[n].first = FALSE
       /\ SetupCommands[n].chain \in RawChains <=> n < 3
       /\ SetupCommands[n].chain = "raw_PREROUTING" => n = 1
       /\ SetupCommands[n].chain = "raw_OUTPUT" => n = 2
       /\ SetupCommands[n].chain = "filter_INPUT" => n = 3
       /\ SetupCommands[n].chain = "filter_FORWARD" => n = 4
       /\ SetupCommands[n].chain = "mangle_POSTROUTING" => n = 5
<1>1. Len(SetupCommands) = 5
  BY DEF SetupCommands
<1>2. /\ SetupCommands[1] = Command("trace_prerouting", "trace", "raw_PREROUTING", TRUE)
      /\ SetupCommands[2] = Command("trace_output", "trace", "raw_OUTPUT", TRUE)
      /\ SetupCommands[3] = Command("final_input", "log", "filter_INPUT", FALSE)
      /\ SetupCommands[4] = Command("final_forward", "log", "filter_FORWARD", FALSE)
      /\ SetupCommands[5] = Command("final_postrouting", "log", "mangle_POSTROUTING", FALSE)
  BY DEF SetupCommands
<1>3. \A id, target, chain, first :
        /\ Command(id, target, chain, first).chain = chain
        /\ Command(id, target, chain, first).rule = RunRule(id, target)
        /\ Command(id, target, chain, first).first = first
  BY DEF Command
<1>4. /\ SetupCommands[1].chain = "raw_PREROUTING" /\ SetupCommands[1].first = TRUE
      /\ SetupCommands[1].rule = RunRule("trace_prerouting", "trace")
  BY <1>2 DEF Command
<1>5. /\ SetupCommands[2].chain = "raw_OUTPUT" /\ SetupCommands[2].first = TRUE
      /\ SetupCommands[2].rule = RunRule("trace_output", "trace")
  BY <1>2 DEF Command
<1>6. /\ SetupCommands[3].chain = "filter_INPUT" /\ SetupCommands[3].first = FALSE
      /\ SetupCommands[3].rule = RunRule("final_input", "log")
  BY <1>2 DEF Command
<1>7. /\ SetupCommands[4].chain = "filter_FORWARD" /\ SetupCommands[4].first = FALSE
      /\ SetupCommands[4].rule = RunRule("final_forward", "log")
  BY <1>2 DEF Command
<1>8. /\ SetupCommands[5].chain = "mangle_POSTROUTING" /\ SetupCommands[5].first = FALSE
      /\ SetupCommands[5].rule = RunRule("final_postrouting", "log")
  BY <1>2 DEF Command
<1>9. \A n \in 1..5 : n \in {1, 2, 3, 4, 5}
  OBVIOUS
<1>10. \A n \in {1, 2, 3, 4, 5} :
        /\ n < 3 => SetupCommands[n].first = TRUE
        /\ n > 2 => SetupCommands[n].first = FALSE
  BY <1>4, <1>5, <1>6, <1>7, <1>8
<1>11. \A n \in {1, 2, 3, 4, 5} :
        /\ IptPlace(SetupCommands[n].chain, SetupCommands[n].rule)
        /\ SetupCommands[n].chain \in RawChains <=> n < 3
        /\ SetupCommands[n].chain = "raw_PREROUTING" => n = 1
        /\ SetupCommands[n].chain = "raw_OUTPUT" => n = 2
        /\ SetupCommands[n].chain = "filter_INPUT" => n = 3
        /\ SetupCommands[n].chain = "filter_FORWARD" => n = 4
        /\ SetupCommands[n].chain = "mangle_POSTROUTING" => n = 5
  BY <1>4, <1>5, <1>6, <1>7, <1>8 DEF IptPlace, RawChains
<1> QED
  BY <1>1, <1>9, <1>10, <1>11

----------------------------------------------------------------------------
(* The rules.                                                              *)

LEMMA HostRuleFacts ==
  ASSUME NEW r \in HostRules
  PROVE  /\ r \in Rule /\ r.owner = "host" /\ r.target \notin {"trace", "mark"}
         /\ r.id \notin RunChains
<1>1. r = NewRule \/ \E h \in HostRulesets : \E c \in DOMAIN h : \E k \in DOMAIN h[c] : r = h[c][k]
  BY DEF HostRules
<1>2. r \in Rule
  BY <1>1, PathAssumption
<1> QED
  BY <1>2, HostAssumption DEF HostRule

LEMMA RunRuleFacts ==
  ASSUME NEW id \in RunChains, NEW target \in Targets
  PROVE  /\ RunRule(id, target) \in Rule /\ RunRule(id, target).owner = "run"
         /\ RunRule(id, target).id = id /\ RunRule(id, target).target = target
  BY PathAssumption DEF RunRule, Rule

LEMMA NamesAreTargets ==
  /\ {"trace", "mark", "log", "count", "accept", "drop", "reject", "jump"} \subseteq Targets
  /\ {"trace_prerouting", "trace_output", "final_input", "final_forward",
      "final_postrouting"} \subseteq RunChains
  BY DEF Targets, RunChains

\* What the rule of a chain tells.
LEMMA ChainRuleFacts ==
  ASSUME NEW c, NEW r, ChainRule(c, r)
  PROVE  /\ r \in Rule /\ r # NoRule /\ r.owner \in {"host", "run"}
         /\ r.owner = "host" => r \in HostRules /\ c \notin RunChains
         /\ r.owner = "run" => r.target \notin {"drop", "reject", "accept", "jump"}
         /\ r.owner = "run" /\ backend = "iptables" => IptPlace(c, r) /\ Added(c) /\ Fixed(c)
         /\ r.owner = "run" /\ backend = "nft" => c \in RunChains /\ r = NftRunRule(c) /\ r.id = c
         /\ r.id \in RunChains <=> r.owner = "run"
<1>1. CASE r \in HostRules /\ c \notin RunChains
  BY <1>1, HostRuleFacts DEF NoRule, None
<1>2. CASE backend = "iptables" /\ IptPlace(c, r) /\ Added(c)
  <2>1. \E id \in RunChains, target \in {"trace", "log"} : r = RunRule(id, target)
    BY <1>2, NamesAreTargets DEF IptPlace
  <2>2. r \in Rule /\ r.owner = "run" /\ r.id \in RunChains /\ r.target \in {"trace", "log"}
    BY <2>1, RunRuleFacts, NamesAreTargets
  <2> QED
    BY <1>2, <2>2 DEF NoRule, None, Added
<1>3. CASE backend = "nft" /\ c \in RunChains /\ r = NftRunRule(c)
  <2>1. r \in Rule /\ r.owner = "run" /\ r.id = c /\ r.target \in {"mark", "count"}
    BY <1>3, RunRuleFacts, NamesAreTargets DEF NftRunRule
  <2> QED
    BY <1>3, <2>1 DEF NoRule, None
<1> QED
  BY <1>1, <1>2, <1>3 DEF ChainRule

\* The rules of the run in the chains of iptables.
LEMMA IptPlaceFacts ==
  ASSUME NEW c, NEW r, IptPlace(c, r)
  PROVE  /\ c \in BuiltIn /\ r.owner = "run" /\ r.target \in {"trace", "log"}
         /\ r.target = "trace" <=> c \in RawChains
         /\ r.id = "final_input" <=> c = "filter_INPUT"
         /\ r.id = "final_postrouting" <=> c = "mangle_POSTROUTING"
         /\ r.target = "log" => r.id \in {"final_input", "final_forward", "final_postrouting"}
  BY DEF IptPlace, BuiltIn, RawChains, RunRule

\* A name is that of one rule.
LEMMA OneRule ==
  ASSUME backend = "nft", NEW c, NEW r, NEW s, ChainRule(c, r), ChainRule(c, s), r.id = s.id
  PROVE  r = s
<1>1. CASE r.owner = "host"
  BY <1>1, ChainRuleFacts, HostAssumption
<1>2. CASE r.owner = "run"
  BY <1>2, ChainRuleFacts
<1> QED
  BY <1>1, <1>2, ChainRuleFacts

\* A rule that may be in a chain may stay there.
LEMMA ChainRuleStays ==
  ASSUME NEW c, NEW r, ChainRule(c, r), backend' = backend, installed \in Nat, installed' \in Nat,
         installed <= installed'
  PROVE  ChainRule(c, r)'
  BY DEF ChainRule, Added, Fixed

\* Rules that may be there may stay there.
LEMMA RulesInvStays ==
  ASSUME NEW rs, RulesInv(rs), backend' = backend, changed => changed',
         installed \in Nat, installed' \in Nat, installed <= installed'
  PROVE  RulesInv(rs)'
<1>1. ASSUME NEW c \in DOMAIN rs, NEW k \in 1..Len(rs[c])
      PROVE  ChainRule(c, rs[c][k])'
  BY ChainRuleStays DEF RulesInv
<1>2. backend = "iptables" /\ ~changed' => LogIsLast(rs)'
  BY DEF RulesInv, LogIsLast
<1> QED
  BY <1>1, <1>2 DEF RulesInv
----------------------------------------------------------------------------
(* What stays true of packets and lines.                                   *)

\* What any step may do to the packets that are there ...
PacketsStay ==
  /\ packets' \in Seq(Packet) /\ Len(packets) <= Len(packets')
  /\ \A k \in 1..Len(packets) :
       /\ packets'[k].about = packets[k].about /\ packets'[k].route = packets[k].route
       /\ packets[k].traced => packets'[k].traced
       /\ packets[k].fate # "moving" => packets'[k].fate = packets[k].fate

\* ... and to the rules: a chain that has its TRACE rule is only appended to.
RulesStay ==
  /\ backend' = backend /\ othersTrace' = othersTrace /\ (changed => changed')
  /\ installed \in Nat /\ installed' \in Nat /\ installed <= installed'
  /\ backend = "iptables" /\ ~changed' =>
       \A c \in DOMAIN ruleset : Fixed(c) =>
         /\ c \in DOMAIN ruleset' /\ Len(ruleset[c]) \in Nat /\ Len(ruleset'[c]) \in Nat
         /\ Len(ruleset[c]) <= Len(ruleset'[c])
         /\ \A k \in 1..Len(ruleset[c]) : ruleset'[c][k] = ruleset[c][k]

LEMMA LineStays ==
  ASSUME SetupInv, PacketsStay, RulesStay, NEW l, LineTrue(l)
  PROVE  LineTrue(l)'
<1>1. l.of \in 1..Len(packets) /\ l.of \in 1..Len(packets')
  BY DEF LineTrue, PacketsStay
<1>2. /\ packets'[l.of].about = packets[l.of].about
      /\ packets'[l.of].route = packets[l.of].route
      /\ packets[l.of].traced => packets'[l.of].traced
      /\ packets[l.of].fate = "dropped" => packets'[l.of].fate = "dropped"
  BY <1>1 DEF PacketsStay
<1>3. /\ l.kind # "other" /\ ~othersTrace => packets'[l.of].about = "flow"
      /\ l.kind \notin {"log", "other"} => packets'[l.of].traced
      /\ DropLine(l) => packets'[l.of].fate = "dropped"
      /\ OnWay(l.chain, packets'[l.of].route)
  BY <1>2 DEF LineTrue
<1>4. ChainRule(l.chain, l.hit) => ChainRule(l.chain, l.hit)'
  BY ChainRuleStays DEF RulesStay
<1>5. CASE backend = "nft"
  <2>1. NftLine(l)
    BY <1>5 DEF LineTrue
  <2>2. NftLine(l)'
    BY <1>4, <2>1 DEF NftLine, FlowMatches
  <2> QED
    BY <1>1, <1>3, <1>5, <2>2 DEF LineTrue, RulesStay, DropLine, OnWay
<1>6. CASE backend # "nft"
  <2>1. IptLine(l)
    BY <1>6 DEF LineTrue
  <2>2. ASSUME l.kind = "rule", ~changed', packets'[l.of].about = "flow"
        PROVE  /\ Fixed(l.chain)' /\ l.chain \in DOMAIN ruleset'
               /\ l.number \in 1..Len(ruleset'[l.chain]) /\ ruleset'[l.chain][l.number] = l.hit
    <3>1. /\ Fixed(l.chain) /\ l.chain \in DOMAIN ruleset
          /\ l.number \in 1..Len(ruleset[l.chain]) /\ ruleset[l.chain][l.number] = l.hit
          /\ backend = "iptables"
      BY <1>2, <1>6, <2>1, <2>2 DEF IptLine, RulesStay, SetupInv
    <3>2. Fixed(l.chain)'
      BY <3>1 DEF Fixed, RulesStay
    <3> QED
      BY <2>2, <3>1, <3>2 DEF RulesStay
  <2>3. IptLine(l)'
    BY <1>4, <2>1, <2>2 DEF IptLine, FlowMatches, IptPlace, Prefix
  <2> QED
    BY <1>1, <1>3, <1>6, <2>3 DEF LineTrue, RulesStay, DropLine, OnWay
<1> QED
  BY <1>5, <1>6

\* A chain that is fixed stays fixed.
LEMMA FixedStays ==
  ASSUME RulesStay, NEW c, Fixed(c)
  PROVE  Fixed(c)'
  BY DEF RulesStay, Fixed

LEMMA TracedStays ==
  ASSUME TracedInv, UNCHANGED packets, RulesStay
  PROVE  TracedInv'
<1> SUFFICES ASSUME NEW k \in 1..Len(packets), packets[k].traced
             PROVE  /\ ~othersTrace => packets[k].about = "flow"
                    /\ backend = "iptables" /\ packets[k].about = "flow" =>
                         \A s \in DOMAIN Way[packets[k].route] :
                           Fixed(Way[packets[k].route][s])'
  BY DEF TracedInv, RulesStay
<1>1. /\ ~othersTrace => packets[k].about = "flow"
      /\ backend = "iptables" /\ packets[k].about = "flow" =>
           \A s \in DOMAIN Way[packets[k].route] : Fixed(Way[packets[k].route][s])
  BY DEF TracedInv
<1> QED
  BY <1>1, FixedStays

LEMMA NumberedStays ==
  ASSUME RulesStay, backend = "iptables", ~changed', view' = view, NEW c, Numbered(c),
         Len(view[c]) \in Nat
  PROVE  Numbered(c)'
<1>1. /\ Fixed(c) /\ c \in DOMAIN ruleset /\ Len(view[c]) <= Len(ruleset[c])
      /\ \A k \in 1..Len(view[c]) : ruleset[c][k] = view[c][k]
  BY DEF Numbered
<1>2. /\ c \in DOMAIN ruleset' /\ Len(ruleset[c]) \in Nat /\ Len(ruleset'[c]) \in Nat
      /\ Len(ruleset[c]) <= Len(ruleset'[c])
      /\ \A k \in 1..Len(ruleset[c]) : ruleset'[c][k] = ruleset[c][k]
  BY <1>1 DEF RulesStay
<1>3. Fixed(c)'
  BY <1>1, FixedStays
<1>4. \A k \in 1..Len(view[c]) : ruleset'[c][k] = view[c][k]
  BY <1>1, <1>2
<1> QED
  BY <1>1, <1>2, <1>3, <1>4 DEF Numbered

\* The rules a packet goes by.
LEMMA ViewStays ==
  ASSUME SetupInv, RulesStay, PlaceInv, UNCHANGED packetVars
  PROVE  PlaceInv'
<1>1. packets' = packets /\ place' = place /\ view' = view
  BY DEF packetVars
<1>2. P' = P /\ Moving' = Moving
  BY <1>1 DEF P, Latest, Moving
<1>3. CASE ~Moving
  BY <1>1, <1>2, <1>3 DEF PlaceInv
<1>4. CASE Moving
  <2>1. RulesInv(view)'
    <3>1. PICK rs : rs = view /\ RulesInv(rs)
      BY <1>4 DEF PlaceInv
    <3>2. RulesInv(rs)'
      BY <3>1, RulesInvStays DEF RulesStay
    <3> QED
      BY <1>1, <3>1, <3>2
  <2>2. ASSUME backend' = "iptables", ~changed'
        PROVE  ViewInv'
    <3>1. ViewInv /\ backend = "iptables"
      BY <1>4, <2>2 DEF PlaceInv, RulesStay
    <3>2. \A c \in DOMAIN view : Len(view[c]) \in Nat
      BY <1>4 DEF PlaceInv, RulesInv
    <3>3. \A c \in DOMAIN view : Numbered(c) => Numbered(c)'
      BY <1>1, <2>2, <3>1, <3>2, NumberedStays
    <3>4. \A c \in DOMAIN view' : Numbered(c)' \/ (c \in RawChains /\
                 \A k \in 1..Len(view'[c]) : view'[c][k] \in HostRules)
      BY <1>1, <3>1, <3>3 DEF ViewInv
    <3>5. Way[P.route][place.stop] \in DOMAIN view
      BY <1>4 DEF PlaceInv
    <3>6. P.traced /\ P.about = "flow" => Numbered(Way[P.route][place.stop])'
      BY <1>1, <1>2, <3>1, <3>3, <3>5 DEF ViewInv
    <3> QED
      BY <1>1, <1>2, <3>4, <3>6 DEF ViewInv
  <2> QED
    BY <1>1, <1>2, <1>4, <2>1, <2>2 DEF PlaceInv
<1> QED
  BY <1>3, <1>4

----------------------------------------------------------------------------
(* Steps that leave the packets, the lines and the result alone.           *)

LEMMA EventStays ==
  ASSUME EventInv, ShownInv, PacketsStay, RulesStay, packets \in Seq(Packet), event' = event,
         phase = "loop" => phase' = "loop" /\ listed' = listed
  PROVE  EventInv'
<1>1. CASE event = NoEvent
  BY <1>1 DEF EventInv, RuleTextTrue, OriginTrue, OfFlow
<1>2. CASE event # NoEvent
  <2>1. /\ event.raw.of \in 1..Len(packets) /\ event.raw.of \in 1..Len(packets')
        /\ packets'[event.raw.of].about = packets[event.raw.of].about
    BY <1>2 DEF EventInv, PacketsStay
  <2>2. Readable' => Readable
    BY <1>2 DEF ShownInv, Readable, RulesStay
  <2>3. OfFlow' => OfFlow
    BY <2>1 DEF OfFlow
  <2>4. RuleTextTrue'
    <3>1. phase = "loop" /\ listed' = listed
      BY <1>2 DEF ShownInv
    <3>2. backend' = backend /\ (~changed' => ~changed)
      BY DEF RulesStay
    <3> QED
      BY <2>3, <3>1, <3>2 DEF EventInv, RuleTextTrue
  <2>5. OriginTrue'
    BY <2>2, <2>3 DEF EventInv, OriginTrue
  <2> QED
    BY <1>2, <2>1, <2>4, <2>5 DEF EventInv
<1> QED
  BY <1>1, <1>2

LEMMA GroundStep ==
  ASSUME PathInv, SetupInv', RulesInv(ruleset)', ListInv', RulesStay,
         UNCHANGED <<packetVars, resultVars, lines>>, attached => attached',
         phase = "loop" => phase' = "loop" /\ listed' = listed
  PROVE  PathInv'
<1>1. /\ packets' = packets /\ place' = place /\ view' = view /\ lines' = lines
      /\ event' = event /\ shown' = shown /\ outcome' = outcome
  BY DEF packetVars, resultVars
<1>2. P' = P /\ Latest' = Latest /\ Moving' = Moving
  BY <1>1 DEF P, Latest, Moving
<1>3. PacketsStay /\ packets \in Seq(Packet) /\ Len(packets) \in Nat
  BY <1>1 DEF PathInv, PacketsInv, PacketsStay
<1>4. PacketsInv' /\ WatchInv'
  <2>1. TracedInv'
    BY <1>1, TracedStays DEF PathInv, PacketsInv
  <2> QED
    BY <1>1, <2>1 DEF PathInv, PacketsInv, WatchInv
<1>5. PlaceInv'
  BY ViewStays DEF PathInv
<1>6. LinesInv'
  <2>1. ASSUME NEW k \in 1..Len(lines)
        PROVE  \E l : l = lines[k] /\ LineTrue(l)'
    <3>1. PICK l : l = lines[k] /\ LineTrue(l)
      BY DEF PathInv, LinesInv
    <3> QED
      BY <1>3, <3>1, LineStays DEF PathInv
  <2>2. \A k \in 1..Len(lines') : LineTrue(lines[k])'
    BY <1>1, <2>1
  <2>3. DropsEnd'
    BY <1>1 DEF PathInv, LinesInv, DropsEnd, DropLine
  <2>4. Past' = Past
    BY <1>1, <1>2 DEF Past, HereRules, Here, P, Latest
  <2>5. LogsAreFinal'
    BY <1>1, <1>2, <2>4 DEF PathInv, LinesInv, LogsAreFinal, RulesStay
  <2>6. StopsAreLast'
    <3>1. Here' = Here
      BY <1>1, <1>2 DEF Here
    <3> QED
      BY <1>1, <1>2, <3>1 DEF PathInv, LinesInv, StopsAreLast, RulesStay
  <2> QED
    BY <1>1, <2>2, <2>3, <2>5, <2>6 DEF PathInv, LinesInv, SetupInv
<1>7. ShownInv'
  BY <1>1, <1>2 DEF PathInv, ShownInv, RulesStay
<1>8. EventInv'
  BY <1>1, <1>3, EventStays DEF PathInv
<1>9. AnswerInv'
  <2>1. phase = "loop" => (Readable' => Readable)
    BY DEF Readable, RulesStay
  <2>2. phase # "loop" => outcome' = "timeout"
    BY <1>1 DEF PathInv, ShownInv
  <2>3. \A k : Reached(k)' = Reached(k)
    <3>1. \A k : DropComes(k)' = DropComes(k)
      BY <1>1 DEF DropComes, DropLine
    <3> QED
      BY <1>1, <3>1 DEF Reached, RulesStay
  <2> QED
    BY <1>1, <2>1, <2>2, <2>3 DEF PathInv, AnswerInv, RulesStay
<1>10. IntroInv'
  BY <1>1, <1>2 DEF PathInv, IntroInv, Followed, RulesStay
<1>11. ToldInv'
  <2>1. phase = "loop" => (Readable' => Readable)
    BY DEF Readable, RulesStay
  <2>2. Followed' = Followed /\ P'.fate = P.fate
    BY <1>2 DEF Followed
  <2> QED
    BY <1>1, <1>2, <2>1, <2>2 DEF PathInv, ToldInv, DropLine
<1> QED
  BY <1>4, <1>5, <1>6, <1>7, <1>8, <1>9, <1>10, <1>11 DEF PathInv

----------------------------------------------------------------------------
(* The setup, the listing, and what others change.                         *)

LEMMA OneRuleMore ==
  ASSUME NEW rs \in Seq(Rule), NEW r \in Rule
  PROVE  /\ <<r>> \o rs \in Seq(Rule) /\ Len(<<r>> \o rs) = Len(rs) + 1
         /\ (<<r>> \o rs)[1] = r
         /\ \A k \in 2..Len(rs) + 1 : (<<r>> \o rs)[k] = rs[k - 1] /\ k - 1 \in 1..Len(rs)
  OBVIOUS

\* A chain gets other rules.
LEMMA ChainReplaced ==
  ASSUME RulesInv(ruleset), installed \in Nat,
         NEW c \in DOMAIN ruleset, NEW s \in Seq(Rule), ruleset' = [ruleset EXCEPT ![c] = s],
         backend' = backend, changed => changed', installed' \in Nat, installed <= installed',
         \A k \in 1..Len(s) : \E r : r = s[k] /\ ChainRule(c, r)',
         backend = "iptables" /\ ~changed' =>
           \A k \in 1..Len(s) : s[k].owner = "run" /\ s[k].target = "log" => k = Len(s)
  PROVE  RulesInv(ruleset)'
<1>2. DOMAIN ruleset' = DOMAIN ruleset /\ ruleset'[c] = s
      /\ \A d \in DOMAIN ruleset : d # c => ruleset'[d] = ruleset[d]
  OBVIOUS
<1>3. ASSUME NEW d \in DOMAIN ruleset', NEW k \in 1..Len(ruleset'[d])
      PROVE  ChainRule(d, ruleset[d][k])'
  <2>1. CASE d = c
    BY <1>2, <1>3, <2>1
  <2>2. CASE d # c
    <3>1. PICK r : r = ruleset[d][k] /\ ChainRule(d, r) /\ ruleset'[d][k] = r
      BY <1>2, <1>3, <2>2 DEF RulesInv
    <3>2. ChainRule(d, r)'
      BY <3>1, ChainRuleStays
    <3> QED
      BY <3>1, <3>2
  <2> QED
    BY <2>1, <2>2
<1>4. \A d \in DOMAIN ruleset' : ruleset'[d] \in Seq(Rule)
  BY <1>2 DEF RulesInv
<1>5. backend' = "iptables" /\ ~changed' => LogIsLast(ruleset)'
  BY <1>2 DEF RulesInv, LogIsLast
<1> QED
  BY <1>2, <1>3, <1>4, <1>5 DEF RulesInv

LEMMA ListStays ==
  ASSUME SetupInv, ListInv, RulesStay, rules' = rules, phase' # "loop" => phase # "loop",
         backend = "iptables" /\ ~changed' => listed' = listed /\ (ruleset' = ruleset \/ phase # "loop")
  PROVE  ListInv'
<1>1. backend' = backend /\ backend \in {"nft", "iptables"} /\ (~changed' => ~changed)
  BY DEF RulesStay, SetupInv
<1>2. /\ \A key \in DOMAIN rules : rules[key] \in Rule
      /\ phase # "loop" => DOMAIN rules = {}
  BY DEF ListInv
<1>3. CASE backend = "nft"
  <2>1. ASSUME NEW key \in DOMAIN rules
        PROVE  ChainRule(key[1], rules[key])'
    <3>1. PICK c, r : c = key[1] /\ r = rules[key] /\ ChainRule(c, r)
      BY <1>3 DEF ListInv
    <3>2. ChainRule(c, r)'
      BY <3>1, ChainRuleStays DEF RulesStay
    <3> QED
      BY <3>1, <3>2
  <2>2. \A key \in DOMAIN rules' : rules'[key].id = key[2] /\ ChainRule(key[1], rules[key])'
    BY <1>3, <2>1 DEF ListInv
  <2> QED
    BY <1>1, <1>2, <1>3, <2>2 DEF ListInv
<1>4. CASE backend = "iptables"
  <2>1. CASE ruleset' = ruleset \/ changed'
    <3>1. \A key \in DOMAIN rules : ~changed' => (KeyTrue(key)' = KeyTrue(key))
      BY <2>1 DEF KeyTrue, Positions
    <3>2. ~changed' => \A key \in DOMAIN rules' : KeyTrue(key)'
      BY <1>1, <1>4, <3>1 DEF ListInv
    <3>3. listed' /\ ~changed' => rules' = ParseSave(ruleset)'
      <4> SUFFICES ASSUME listed', ~changed' PROVE rules' = ParseSave(ruleset)'
        OBVIOUS
      <4>1. ruleset' = ruleset /\ rules = ParseSave(ruleset)
        BY <1>1, <1>4, <2>1 DEF ListInv
      <4>2. ParseSave(ruleset)' = ParseSave(ruleset)
        BY <4>1 DEF ParseSave, Positions
      <4> QED
        BY <4>1, <4>2
    <3> QED
      BY <1>1, <1>2, <1>4, <3>2, <3>3 DEF ListInv
  <2>2. CASE phase # "loop" /\ ~changed'
    <3>1. DOMAIN rules' = {} /\ ~listed
      BY <1>2, <2>2 DEF SetupInv
    <3>2. ~listed'
      BY <1>4, <2>2, <3>1
    <3> QED
      BY <1>1, <1>4, <3>1, <3>2 DEF ListInv
  <2> QED
    BY <1>4, <2>1, <2>2
<1> QED
  BY <1>1, <1>3, <1>4

\* A step that leaves the rules alone.
LEMMA SameRules ==
  ASSUME PathInv, UNCHANGED <<hostVars, installed, changed>>
  PROVE  RulesInv(ruleset)' /\ RulesStay
<1>1. ruleset' = ruleset /\ backend' = backend /\ installed' = installed /\ changed' = changed
      /\ othersTrace' = othersTrace
  BY DEF hostVars
<1>2. installed \in Nat
  BY DEF PathInv, SetupInv
<1>3. \A c, r : ChainRule(c, r)' = ChainRule(c, r)
  BY <1>1 DEF ChainRule, Added, Fixed
<1>4. RulesInv(ruleset)'
  BY <1>1, <1>3 DEF PathInv, RulesInv, LogIsLast
<1>5. \A c \in DOMAIN ruleset : Len(ruleset[c]) \in Nat
  BY DEF PathInv, RulesInv
<1> QED
  BY <1>1, <1>2, <1>4, <1>5 DEF RulesStay

LEMMA AttachStep ==
  ASSUME PathInv, Attach
  PROVE  PathInv'
<1>1. UNCHANGED <<hostVars, setupVars, listVars, packetVars, resultVars, lines, mishapVars>>
      /\ attached' = TRUE
  BY DEF Attach
<1>2. RulesInv(ruleset)' /\ RulesStay
  BY <1>1, SameRules DEF setupVars, mishapVars
<1>3. SetupInv'
  BY <1>1 DEF PathInv, SetupInv, hostVars, setupVars, listVars, mishapVars
<1>4. ListInv'
  BY <1>1, <1>2, ListStays DEF PathInv, hostVars, setupVars, listVars
<1> QED
  BY <1>1, <1>2, <1>3, <1>4, GroundStep DEF setupVars, listVars

LEMMA StutterStep ==
  ASSUME PathInv, UNCHANGED vars
  PROVE  PathInv'
<1>1. UNCHANGED <<hostVars, setupVars, listVars, packetVars, resultVars, lines, mishapVars>>
      /\ attached' = attached
  BY DEF vars
<1>2. RulesInv(ruleset)' /\ RulesStay
  BY <1>1, SameRules DEF setupVars, mishapVars
<1>3. SetupInv'
  BY <1>1 DEF PathInv, SetupInv, hostVars, setupVars, listVars, mishapVars
<1>4. ListInv'
  BY <1>1, <1>2, ListStays DEF PathInv, hostVars, setupVars, listVars
<1> QED
  BY <1>1, <1>2, <1>3, <1>4, GroundStep DEF setupVars, listVars

LEMMA HostChangesStep ==
  ASSUME PathInv, HostChanges
  PROVE  PathInv'
<1>1. /\ UNCHANGED <<dropPolicy, othersTrace, backend, setupVars, listVars, packetVars,
                     resultVars, attached, lines>>
      /\ changed' = TRUE /\ mishaps < MaxMishaps /\ mishaps' = mishaps + 1
  BY DEF HostChanges, Mishap
<1>2. PICK c \in Touched :
        \/ ruleset' = [ruleset EXCEPT ![c] = <<NewRule>> \o ruleset[c]]
        \/ ruleset[c] # <<>> /\ ruleset' = [ruleset EXCEPT ![c] = Tail(ruleset[c])]
  BY DEF HostChanges
<1>3. /\ c \in DOMAIN ruleset /\ ruleset[c] \in Seq(Rule) /\ c \notin RunChains /\ RulesInv(ruleset)
  <2>1. c \in BuiltIn
    BY HostAssumption
  <2> QED
    BY <2>1 DEF PathInv, RulesInv, BuiltIn, RunChains
<1>4. SetupInv' /\ installed' = installed /\ installed \in Nat /\ backend' = backend
  BY <1>1, PathAssumption DEF PathInv, SetupInv, setupVars, listVars
<1>5. NewRule \in Rule /\ NewRule \in HostRules
  BY PathAssumption DEF HostRules
<1>6. \A k \in 1..Len(ruleset[c]) : \E r : r = ruleset[c][k] /\ ChainRule(c, r)'
  <2> TAKE k \in 1..Len(ruleset[c])
  <2>1. PICK r : r = ruleset[c][k] /\ ChainRule(c, r)
    BY <1>3 DEF RulesInv
  <2>2. ChainRule(c, r)'
    BY <1>4, <2>1, ChainRuleStays
  <2> QED
    BY <2>1, <2>2
<1>7. (changed => changed') /\ ~(~changed') /\ installed' \in Nat /\ installed <= installed'
  BY <1>1, <1>4
<1>8. RulesInv(ruleset)'
  <2>1. CASE ruleset' = [ruleset EXCEPT ![c] = <<NewRule>> \o ruleset[c]]
    <3> DEFINE s == <<NewRule>> \o ruleset[c]
    <3>1. /\ s \in Seq(Rule) /\ Len(s) = Len(ruleset[c]) + 1 /\ s[1] = NewRule
          /\ \A k \in 2..Len(s) : s[k] = ruleset[c][k - 1] /\ k - 1 \in 1..Len(ruleset[c])
      BY <1>3, <1>5, OneRuleMore
    <3>2. ChainRule(c, NewRule)'
      BY <1>3, <1>5 DEF ChainRule
    <3> HIDE DEF s
    <3>3. \A k \in 1..Len(s) : \E r : r = s[k] /\ ChainRule(c, r)'
      <4> TAKE k \in 1..Len(s)
      <4>1. k = 1 \/ k \in 2..Len(s)
        BY <3>1
      <4> QED
        BY <1>6, <3>1, <3>2, <4>1
    <3>4. ruleset' = [ruleset EXCEPT ![c] = s]
      BY <2>1 DEF s
    <3> QED
      BY <1>3, <1>4, <1>7, <3>1, <3>3, <3>4, ChainReplaced
  <2>2. CASE ruleset[c] # <<>> /\ ruleset' = [ruleset EXCEPT ![c] = Tail(ruleset[c])]
    <3> DEFINE s == Tail(ruleset[c])
    <3>1. /\ s \in Seq(Rule)
          /\ \A k \in 1..Len(s) : s[k] = ruleset[c][k + 1] /\ k + 1 \in 1..Len(ruleset[c])
      BY <1>3, <2>2
    <3> HIDE DEF s
    <3>2. \A k \in 1..Len(s) : \E r : r = s[k] /\ ChainRule(c, r)'
      BY <1>6, <3>1
    <3>3. ruleset' = [ruleset EXCEPT ![c] = s]
      BY <2>2 DEF s
    <3> QED
      BY <1>3, <1>4, <1>7, <3>1, <3>2, <3>3, ChainReplaced
  <2> QED
    BY <1>2, <2>1, <2>2
<1>9. RulesStay
  BY <1>1, <1>4 DEF RulesStay
<1>10. ListInv'
  BY <1>1, <1>9, ListStays DEF PathInv, setupVars, listVars
<1> QED
  BY <1>1, <1>4, <1>8, <1>9, <1>10, GroundStep DEF setupVars, listVars

LEMMA AddRuleStep ==
  ASSUME PathInv, AddRule
  PROVE  PathInv'
<1> DEFINE n == installed + 1
<1>1. /\ phase = "setup" /\ backend = "iptables" /\ installed' = n
      /\ UNCHANGED <<dropPolicy, othersTrace, backend, listVars, packetVars, resultVars,
                     attached, lines, changed>>
  BY DEF AddRule
<1>2. n \in 1..5 /\ installed \in Nat /\ installed' \in Nat /\ installed <= installed'
  BY <1>1 DEF PathInv, SetupInv
<1>3. PICK command : command = SetupCommands[n]
  OBVIOUS
<1>4. /\ \/ /\ ruleset' = [ruleset EXCEPT ![command.chain] = WithRule(command, ruleset[command.chain])]
            /\ UNCHANGED mishaps
         \/ ruleset' = ruleset /\ mishaps < MaxMishaps /\ mishaps' = mishaps + 1
      /\ phase' \in {"snapshot", "failed"} \/ (phase' = phase /\ n # Len(SetupCommands))
  BY <1>1, <1>3 DEF AddRule, Mishap
<1>5. /\ IptPlace(command.chain, command.rule)
      /\ n < 3 => command.first = TRUE
      /\ n > 2 => command.first = FALSE
      /\ command.chain \in RawChains <=> n < 3
      /\ command.chain = "raw_PREROUTING" => n = 1
      /\ command.chain = "raw_OUTPUT" => n = 2
      /\ command.chain = "filter_INPUT" => n = 3
      /\ command.chain = "filter_FORWARD" => n = 4
      /\ command.chain = "mangle_POSTROUTING" => n = 5
  BY <1>2, <1>3, SetupFacts
<1>6. Len(SetupCommands) = 5
  BY SetupFacts
<1> HIDE DEF n
<1>7. SetupInv'
  BY <1>1, <1>2, <1>4, <1>6, PathAssumption DEF PathInv, SetupInv, listVars, n
<1>8. PICK c, new : c = command.chain /\ new = command.rule
  OBVIOUS
<1>9. /\ c \in DOMAIN ruleset /\ ruleset[c] \in Seq(Rule) /\ RulesInv(ruleset) /\ c \in BuiltIn
      /\ \A k \in 1..Len(ruleset[c]) : ChainRule(c, ruleset[c][k])
  <2>1. c \in BuiltIn
    BY <1>5, <1>8, IptPlaceFacts
  <2> QED
    BY <2>1 DEF PathInv, RulesInv
<1>10. /\ ~Added(c) /\ ~Fixed(c) = (n < 3) /\ Added(c)'
       /\ \A d : Fixed(d) /\ d = c => n > 2
  BY <1>1, <1>2, <1>5, <1>8 DEF Added, Fixed, n, IptPlace, RawChains
<1>11. ChainRule(c, new)' /\ new \in Rule
  <2>1. ChainRule(c, new)'
    BY <1>1, <1>5, <1>8, <1>10 DEF ChainRule, IptPlace, RunRule
  <2>2. new \in Rule
    <3>1. \E id \in RunChains, target \in {"trace", "log"} : new = RunRule(id, target)
      BY <1>5, <1>8, NamesAreTargets DEF IptPlace
    <3> QED
      BY <3>1, RunRuleFacts, NamesAreTargets
  <2> QED
    BY <2>1, <2>2
\* The chain has no rule of the run yet.
<1>12. \A k \in 1..Len(ruleset[c]) : ruleset[c][k].owner # "run"
  BY <1>1, <1>9, <1>10, ChainRuleFacts
<1>13. \A k \in 1..Len(ruleset[c]) : \E r : r = ruleset[c][k] /\ ChainRule(c, r)'
  <2> TAKE k \in 1..Len(ruleset[c])
  <2>1. PICK r : r = ruleset[c][k] /\ ChainRule(c, r)
    BY <1>9
  <2>2. ChainRule(c, r)'
    BY <1>1, <1>2, <2>1, ChainRuleStays
  <2> QED
    BY <2>1, <2>2
<1>14. CASE ruleset' = ruleset
  <2>1. RulesStay
    <3>1. \A d \in DOMAIN ruleset : Len(ruleset[d]) \in Nat
      BY DEF PathInv, RulesInv
    <3> QED
      BY <1>1, <1>2, <1>14, <3>1 DEF RulesStay
  <2>2. RulesInv(ruleset)'
    <3>1. PICK rs : rs = ruleset /\ RulesInv(rs)
      BY <1>9
    <3>2. RulesInv(rs)'
      BY <1>1, <1>2, <3>1, RulesInvStays
    <3> QED
      BY <1>14, <3>1, <3>2
  <2>3. ListInv'
    <3>1. phase # "loop" /\ listed' = listed /\ rules' = rules
      BY <1>1 DEF listVars
    <3> QED
      BY <2>1, <3>1, ListStays DEF PathInv
  <2> QED
    BY <1>1, <1>7, <2>1, <2>2, <2>3, GroundStep
<1>15. CASE ruleset' = [ruleset EXCEPT ![c] = WithRule(command, ruleset[c])]
  <2>1. PICK s : s = WithRule(command, ruleset[c])
    OBVIOUS
  <2>2. /\ s \in Seq(Rule) /\ Len(s) = Len(ruleset[c]) + 1 /\ Len(ruleset[c]) \in Nat
        /\ \A k \in 1..Len(s) : s[k] = new \/ \E j \in 1..Len(ruleset[c]) : s[k] = ruleset[c][j]
        /\ n > 2 => /\ \A k \in 1..Len(ruleset[c]) : s[k] = ruleset[c][k]
                    /\ s[Len(s)] = new
    <3>1. CASE n < 3
      <4>1. s = <<new>> \o ruleset[c]
        BY <1>5, <1>8, <2>1, <3>1 DEF WithRule
      <4>2. /\ s \in Seq(Rule) /\ Len(s) = Len(ruleset[c]) + 1 /\ s[1] = new
            /\ \A k \in 2..Len(s) : s[k] = ruleset[c][k - 1] /\ k - 1 \in 1..Len(ruleset[c])
        BY <1>9, <1>11, <4>1, OneRuleMore
      <4>3. \A k \in 1..Len(s) : k = 1 \/ k \in 2..Len(s)
        BY <4>2
      <4>4. Len(ruleset[c]) \in Nat /\ ~(n > 2)
        BY <1>2, <1>9, <3>1
      <4> QED
        BY <4>2, <4>3, <4>4
    <3>2. CASE n > 2
      <4>1. s = Append(ruleset[c], new)
        BY <1>5, <1>8, <2>1, <3>2 DEF WithRule
      <4> QED
        BY <1>9, <1>11, <4>1
    <3> QED
      BY <1>2, <3>1, <3>2
  <2>3. ruleset' = [ruleset EXCEPT ![c] = s]
    BY <1>15, <2>1
  <2>4. RulesInv(ruleset)'
    <3>1. \A k \in 1..Len(s) : \E r : r = s[k] /\ ChainRule(c, r)'
      BY <1>11, <1>13, <2>2
    <3>2. \A k \in 1..Len(s) : s[k].owner = "run" /\ s[k].target = "log" => k = Len(s)
      <4>1. CASE n < 3
        <5>1. new.target # "log"
          BY <1>5, <1>8, <4>1, IptPlaceFacts DEF IptPlace, RunRule, RawChains
        <5> QED
          BY <1>12, <2>2, <5>1
      <4>2. CASE n > 2
        BY <1>12, <2>2, <4>2
      <4> QED
        BY <1>2, <4>1, <4>2
    <3>3. s \in Seq(Rule)
      BY <2>2
    <3> QED
      BY <1>1, <1>2, <1>9, <2>3, <3>1, <3>2, <3>3, ChainReplaced
  <2>5. RulesStay
    <3>1. ASSUME NEW d \in DOMAIN ruleset, Fixed(d)
          PROVE  /\ d \in DOMAIN ruleset' /\ Len(ruleset[d]) \in Nat /\ Len(ruleset'[d]) \in Nat
                 /\ Len(ruleset[d]) <= Len(ruleset'[d])
                 /\ \A k \in 1..Len(ruleset[d]) : ruleset'[d][k] = ruleset[d][k]
      <4>1. CASE d = c
        BY <1>9, <1>10, <2>2, <2>3, <3>1, <4>1
      <4>2. CASE d # c
        <5>1. ruleset'[d] = ruleset[d] /\ Len(ruleset[d]) \in Nat
          BY <2>3, <4>2 DEF PathInv, RulesInv
        <5> QED
          BY <2>3, <5>1
      <4> QED
        BY <4>1, <4>2
    <3> QED
      BY <1>1, <1>2, <3>1 DEF RulesStay
  <2>6. ListInv'
    <3>1. phase # "loop" /\ listed' = listed /\ rules' = rules
      BY <1>1 DEF listVars
    <3> QED
      BY <2>5, <3>1, ListStays DEF PathInv
  <2> QED
    BY <1>1, <1>7, <2>4, <2>5, <2>6, GroundStep
<1> QED
  BY <1>4, <1>8, <1>14, <1>15

\* nftSetupScript: the own table comes as a whole.
LEMMA AddTableStep ==
  ASSUME PathInv, AddTable
  PROVE  PathInv'
<1>1. /\ phase = "setup" /\ backend = "nft" /\ phase' = "snapshot" /\ installed' = 1
      /\ UNCHANGED <<dropPolicy, othersTrace, backend, listVars, packetVars, resultVars,
                     attached, lines, mishapVars>>
  BY DEF AddTable
<1>2. SetupInv'
  BY <1>1 DEF PathInv, SetupInv, listVars, mishapVars
<1>3. RulesStay
  <2>1. installed \in Nat /\ installed <= installed'
    BY <1>1 DEF PathInv, SetupInv
  <2> QED
    BY <1>1, <2>1 DEF RulesStay, mishapVars
<1>4. /\ DOMAIN ruleset' = DOMAIN ruleset \cup RunChains
      /\ \A c \in RunChains : ruleset'[c] = <<NftRunRule(c)>>
      /\ \A c \in DOMAIN ruleset \ RunChains : ruleset'[c] = ruleset[c]
  BY DEF AddTable, NftRunRule, RunChains
<1>5. ASSUME NEW c \in DOMAIN ruleset'
      PROVE  /\ c \in Chain /\ ruleset'[c] \in Seq(Rule)
             /\ \A k \in 1..Len(ruleset'[c]) : ChainRule(c, ruleset[c][k])'
  <2>1. CASE c \in RunChains
    <3>1. PICK r : r = NftRunRule(c) /\ ruleset'[c] = <<r>>
      BY <1>4, <2>1
    <3>2. r \in Rule /\ ChainRule(c, r)'
      BY <1>1, <2>1, <3>1, RunRuleFacts, NamesAreTargets DEF NftRunRule, ChainRule
    <3>3. c \in Chain
      BY <2>1, PathAssumption
    <3>4. Len(<<r>>) = 1 /\ <<r>>[1] = r /\ <<r>> \in Seq(Rule)
      BY <3>2
    <3> QED
      BY <3>1, <3>2, <3>3, <3>4
  <2>2. CASE c \notin RunChains
    <3>1. c \in DOMAIN ruleset /\ ruleset'[c] = ruleset[c]
      BY <1>4, <1>5, <2>2
    <3>2. c \in Chain /\ ruleset[c] \in Seq(Rule)
          /\ \A k \in 1..Len(ruleset[c]) : ChainRule(c, ruleset[c][k])
      BY <3>1 DEF PathInv, RulesInv
    <3>3. ASSUME NEW k \in 1..Len(ruleset[c])
          PROVE  ChainRule(c, ruleset[c][k])'
      <4>1. PICK r : r = ruleset[c][k] /\ ChainRule(c, r)
        BY <3>2
      <4>2. ChainRule(c, r)'
        BY <1>3, <4>1, ChainRuleStays DEF RulesStay
      <4> QED
        BY <3>1, <4>1, <4>2
    <3> QED
      BY <3>1, <3>2, <3>3
  <2> QED
    BY <2>1, <2>2
<1>6. RulesInv(ruleset)'
  <2>1. BuiltIn \cup {User} \subseteq DOMAIN ruleset'
    BY <1>4 DEF PathInv, RulesInv
  <2> QED
    BY <1>1, <1>5, <2>1 DEF RulesInv
<1>7. ListInv'
  <2>1. phase # "loop" /\ backend # "iptables" /\ rules' = rules
    BY <1>1 DEF listVars
  <2> QED
    BY <1>3, <2>1, ListStays DEF PathInv
<1> QED
  BY <1>1, <1>2, <1>3, <1>6, <1>7, GroundStep DEF mishapVars

\* nft -a list ruleset: each rule of the listing is found by its chain and its handle.
LEMMA NftListing ==
  ASSUME NEW listing, NEW key \in DOMAIN ParseNftRuleset(listing)
  PROVE  /\ ParseNftRuleset(listing)[key].id = key[2] /\ key[1] \in DOMAIN listing
         /\ \E k \in DOMAIN listing[key[1]] : ParseNftRuleset(listing)[key] = listing[key[1]][k]
<1> DEFINE S == {listing[key[1]][k] : k \in DOMAIN listing[key[1]]}
<1>1. key \in {<<p[1], listing[p[1]][p[2]].id>> : p \in Positions(listing)}
  BY DEF ParseNftRuleset
<1>2. PICK p \in Positions(listing) : key = <<p[1], listing[p[1]][p[2]].id>>
  BY <1>1
<1>3. PICK c \in DOMAIN listing : p \in {c} \X DOMAIN listing[c]
  BY DEF Positions
<1>4. p[1] = c /\ p[2] \in DOMAIN listing[c] /\ key[1] = c /\ key[2] = listing[c][p[2]].id
  BY <1>2, <1>3
<1>5. \E r \in S : r.id = key[2]
  BY <1>4
<1>6. ParseNftRuleset(listing)[key] = CHOOSE r \in S : r.id = key[2]
  BY <1>1 DEF ParseNftRuleset
<1>7. (CHOOSE r \in S : r.id = key[2]) \in S /\ (CHOOSE r \in S : r.id = key[2]).id = key[2]
  BY <1>5
<1> QED
  BY <1>4, <1>6, <1>7

\* iptables-save: each rule is found by its chain and its position.
LEMMA SaveListing ==
  ASSUME NEW listing
  PROVE  /\ DOMAIN ParseSave(listing) = Positions(listing)
         /\ \A key \in Positions(listing) : ParseSave(listing)[key] = listing[key[1]][key[2]]
         /\ \A c \in DOMAIN listing : \A k \in DOMAIN listing[c] :
              <<c, k>> \in Positions(listing) /\ <<c, k>>[1] = c /\ <<c, k>>[2] = k
         /\ \A key \in Positions(listing) :
              /\ key = <<key[1], key[2]>>
              /\ key[1] \in DOMAIN listing /\ key[2] \in DOMAIN listing[key[1]]
<1>1. DOMAIN ParseSave(listing) = Positions(listing)
      /\ \A key \in Positions(listing) : ParseSave(listing)[key] = listing[key[1]][key[2]]
  BY DEF ParseSave
<1>2. ASSUME NEW c \in DOMAIN listing, NEW k \in DOMAIN listing[c]
      PROVE  <<c, k>> \in Positions(listing)
  BY DEF Positions
<1>3. ASSUME NEW key \in Positions(listing)
      PROVE  /\ key = <<key[1], key[2]>>
             /\ key[1] \in DOMAIN listing /\ key[2] \in DOMAIN listing[key[1]]
  <2>1. PICK c \in DOMAIN listing : key \in {c} \X DOMAIN listing[c]
    BY DEF Positions
  <2> QED
    BY <2>1
<1>4. \A c \in DOMAIN listing : \A k \in DOMAIN listing[c] : <<c, k>>[1] = c /\ <<c, k>>[2] = k
  OBVIOUS
<1> QED
  BY <1>1, <1>2, <1>3, <1>4

\* A listing that was cut off has the first rules of each chain.
LEMMA CutFacts ==
  ASSUME RulesInv(ruleset), NEW cut \in Cuts
  PROVE  /\ DOMAIN CutListing(cut) = DOMAIN ruleset
         /\ \A c \in DOMAIN ruleset : \A k \in DOMAIN CutListing(cut)[c] :
              k \in DOMAIN ruleset[c] /\ CutListing(cut)[c][k] = ruleset[c][k]
<1> SUFFICES ASSUME NEW c \in DOMAIN ruleset, NEW k \in DOMAIN CutListing(cut)[c]
             PROVE  k \in DOMAIN ruleset[c] /\ CutListing(cut)[c][k] = ruleset[c][k]
  BY DEF CutListing
<1>1. ruleset[c] \in Seq(Rule) /\ cut[c] \in Nat
  BY PathAssumption DEF RulesInv
<1>2. PICK rs, m : rs = ruleset[c] /\ m = Min({cut[c], Len(ruleset[c])})
  OBVIOUS
<1>3. rs \in Seq(Rule) /\ Len(rs) \in Nat /\ CutListing(cut)[c] = SubSeq(rs, 1, m)
  <2>1. CutListing(cut)[c] = SubSeq(ruleset[c], 1, Min({cut[c], Len(ruleset[c])}))
    BY Zenon DEF CutListing
  <2>2. CutListing(cut)[c] = SubSeq(rs, 1, m)
    BY Zenon, <1>2, <2>1
  <2> QED
    BY <1>1, <1>2, <2>2
<1>4. m \in Nat /\ m <= Len(rs)
  <2>1. {cut[c], Len(rs)} \in SUBSET Nat /\ {cut[c], Len(rs)} # {}
    BY <1>1, <1>3
  <2> QED
    BY <1>2, <2>1, MinOfPositions
<1>5. DOMAIN SubSeq(rs, 1, m) = 1..m /\ \A j \in 1..m : SubSeq(rs, 1, m)[j] = rs[j]
  BY <1>3, <1>4
<1>6. k \in 1..m /\ CutListing(cut)[c][k] = rs[k]
  BY Zenon, <1>3, <1>5
<1>7. k \in DOMAIN rs
  BY <1>3, <1>4, <1>6
<1> QED
  BY Zenon, <1>2, <1>6, <1>7

LEMMA SnapshotStep ==
  ASSUME PathInv, Snapshot
  PROVE  PathInv'
<1>1. /\ phase = "snapshot" /\ phase' = "loop" /\ listed' \in BOOLEAN
      /\ mishaps' = mishaps \/ (mishaps < MaxMishaps /\ mishaps' = mishaps + 1)
      /\ UNCHANGED <<hostVars, installed, packetVars, resultVars, attached, lines, changed>>
  BY DEF Snapshot, Mishap
<1>2. PICK listing : /\ rules' = Parsing(listing)
                     /\ listing = ruleset \/ (~listed' /\ \E cut \in Cuts : listing = CutListing(cut))
  <2>1. CASE listed' = TRUE /\ rules' = Parsing(ruleset)
    BY <2>1
  <2>2. CASE listed' = FALSE /\ \E cut \in Cuts : rules' = Parsing(CutListing(cut))
    BY <2>2
  <2> QED
    BY <2>1, <2>2 DEF Snapshot
<1>3. RulesInv(ruleset)' /\ RulesStay
  BY <1>1, SameRules
<1>4. SetupInv'
  BY <1>1, PathAssumption DEF PathInv, SetupInv, hostVars
\* Each rule of the listing is where it is in the kernel.
<1>5. /\ DOMAIN listing = DOMAIN ruleset
      /\ \A c \in DOMAIN listing : \A k \in DOMAIN listing[c] :
           k \in DOMAIN ruleset[c] /\ listing[c][k] = ruleset[c][k]
  <2>1. CASE listing = ruleset
    BY <2>1
  <2>2. CASE \E cut \in Cuts : listing = CutListing(cut)
    <3>1. PICK cut \in Cuts : listing = CutListing(cut)
      BY <2>2
    <3>2. RulesInv(ruleset)
      BY DEF PathInv
    <3> QED
      BY <3>1, <3>2, CutFacts
  <2> QED
    BY <1>2, <2>1, <2>2
<1>6. \A c \in DOMAIN listing : \A k \in DOMAIN listing[c] :
        listing[c][k] \in Rule /\ ChainRule(c, listing[c][k])
  <2> TAKE c \in DOMAIN listing
  <2> TAKE k \in DOMAIN listing[c]
  <2>1. c \in DOMAIN ruleset /\ k \in DOMAIN ruleset[c] /\ listing[c][k] = ruleset[c][k]
    BY <1>5
  <2>2. ruleset[c] \in Seq(Rule) /\ \A j \in 1..Len(ruleset[c]) : ChainRule(c, ruleset[c][j])
    BY <2>1 DEF PathInv, RulesInv
  <2>3. k \in 1..Len(ruleset[c])
    BY <2>1, <2>2
  <2> QED
    BY <2>1, <2>2, <2>3
<1>7. ListInv'
  <2>1. CASE backend = "nft"
    <3>1. ASSUME NEW key \in DOMAIN rules'
          PROVE  /\ rules'[key] \in Rule /\ rules'[key].id = key[2]
                 /\ ChainRule(key[1], rules[key])'
      <4>1. PICK c, r : c = key[1] /\ r = rules'[key] /\ r \in Rule /\ ChainRule(c, r)
                        /\ r.id = key[2]
        <5>1. rules' = ParseNftRuleset(listing)
          BY <1>2, <2>1 DEF Parsing
        <5> QED
          BY <1>6, <3>1, <5>1, NftListing
      <4>2. ChainRule(c, r)'
        BY <1>3, <4>1, ChainRuleStays DEF RulesStay
      <4> QED
        BY <4>1, <4>2
    <3>2. backend' = "nft" /\ phase' = "loop"
      BY <1>1, <1>3, <2>1 DEF RulesStay
    <3> QED
      BY <3>1, <3>2 DEF ListInv
  <2>2. CASE backend # "nft"
    <3>1. rules' = ParseSave(listing) /\ (listed' => listing = ruleset) /\ ruleset' = ruleset
          /\ backend' = backend
      BY <1>1, <1>2, <2>2 DEF hostVars, Parsing
    <3>2. ASSUME NEW key \in DOMAIN rules'
          PROVE  rules'[key] \in Rule /\ KeyTrue(key)'
      <4>1. /\ rules'[key] = listing[key[1]][key[2]] /\ key = <<key[1], key[2]>>
            /\ key[1] \in DOMAIN listing /\ key[2] \in DOMAIN listing[key[1]]
        BY <3>1, <3>2, SaveListing
      <4>2. /\ key[1] \in DOMAIN ruleset /\ key[2] \in DOMAIN ruleset[key[1]]
            /\ rules'[key] = ruleset[key[1]][key[2]] /\ rules'[key] \in Rule
        BY <1>5, <1>6, <4>1
      <4>3. key \in Positions(ruleset)
        BY <4>1, <4>2, SaveListing
      <4>4. Positions(ruleset)' = Positions(ruleset)
        BY <3>1 DEF Positions
      <4> QED
        BY <3>1, <4>2, <4>3, <4>4 DEF KeyTrue
    <3>3. listed' => rules' = ParseSave(ruleset)'
      <4> SUFFICES ASSUME listed' PROVE rules' = ParseSave(ruleset)'
        OBVIOUS
      <4>1. ParseSave(ruleset)' = ParseSave(ruleset)
        BY <3>1 DEF ParseSave, Positions
      <4> QED
        BY <3>1, <4>1
    <3> QED
      BY <1>1, <2>2, <3>1, <3>2, <3>3 DEF ListInv
  <2> QED
    BY <2>1, <2>2
<1> QED
  BY <1>1, <1>3, <1>4, <1>7, GroundStep

----------------------------------------------------------------------------
(* Packets.                                                                *)

LEMMA PacketHere ==
  ASSUME PathInv, Moving
  PROVE  P \in Packet /\ P.fate = "moving" /\ Latest \in 1..Len(packets) /\ Latest \in Nat
         /\ packets \in Seq(Packet) /\ Len(packets) \in Nat /\ Latest = Len(packets)
         /\ packets[Latest] = P
  BY DEF PathInv, PacketsInv, Moving, P, Latest

LEMMA PacketReplaced ==
  ASSUME PathInv, Moving, NEW q \in Packet, packets' = [packets EXCEPT ![Latest] = q],
         q.about = P.about, q.route = P.route, P.traced => q.traced
  PROVE  /\ PacketsStay /\ Latest' = Latest /\ P' = q /\ Len(packets') = Len(packets)
         /\ Moving' = (q.fate = "moving")
         /\ \A k \in 1..Len(packets) : packets'[k] = IF k = Latest THEN q ELSE packets[k]
<1>1. P.fate = "moving" /\ Latest \in 1..Len(packets) /\ Latest \in Nat /\ packets \in Seq(Packet)
      /\ Len(packets) \in Nat /\ packets[Latest] = P
  BY PacketHere
<1>2. /\ packets' \in Seq(Packet) /\ Len(packets') = Len(packets)
      /\ \A k \in 1..Len(packets) : packets'[k] = IF k = Latest THEN q ELSE packets[k]
  BY <1>1, ExceptSeq
<1>3. Latest' = Latest /\ Latest > 0
  BY <1>1, <1>2 DEF Latest
<1>4. P' = q
  BY <1>1, <1>2, <1>3 DEF P
<1>5. Moving' = (q.fate = "moving")
  BY <1>3, <1>4 DEF Moving
<1>6. PacketsStay
  BY <1>1, <1>2 DEF PacketsStay
<1> QED
  BY <1>2, <1>3, <1>4, <1>5, <1>6

\* Lines that are added to the others.
LEMMA Joined ==
  ASSUME NEW a \in Seq(LineFields), NEW b \in Seq(LineFields)
  PROVE  /\ a \o b \in Seq(LineFields) /\ Len(a \o b) = Len(a) + Len(b)
         /\ Len(a) \in Nat /\ Len(b) \in Nat
         /\ \A i \in 1..Len(a) : (a \o b)[i] = a[i] /\ i \in 1..Len(a \o b)
         /\ \A i \in 1..Len(b) : (a \o b)[Len(a) + i] = b[i] /\ Len(a) + i \in 1..Len(a \o b)
         /\ \A i \in 1..Len(a \o b) :
              i \in 1..Len(a) \/ (i - Len(a) \in 1..Len(b) /\ (a \o b)[i] = b[i - Len(a)])
  OBVIOUS

AllTrue(printed) == \A i \in 1..Len(printed) : LineTrue(printed[i])
AllHere(printed) == \A i \in 1..Len(printed) : printed[i].of = Latest /\ printed[i].chain = Here

\* A step in the kernel: the latest packet changes, and lines are printed of it.
LEMMA KernelStep ==
  ASSUME PathInv, Moving,
         UNCHANGED <<hostVars, setupVars, listVars, resultVars, attached, mishapVars>>,
         NEW q \in Packet, packets' = [packets EXCEPT ![Latest] = q],
         q.about = P.about, q.route = P.route, q.watched = P.watched, P.traced => q.traced,
         TracedInv', PlaceInv',
         NEW printed \in Seq(LineFields), Monitor(printed),
         AllTrue(printed)', AllHere(printed),
         q.traced /\ q.fate = "dropped" =>
           printed # <<>> /\ DropLine(printed[Len(printed)]),
         backend = "iptables" /\ ~changed =>
           /\ Past => q.fate # "dropped" /\ ~Moving'
           /\ \A i \in 1..Len(printed) :
                printed[i].kind = "log" /\ printed[i].hit.id \in {"final_input", "final_postrouting"}
                  => q.fate # "dropped" /\ (Moving' => Past'),
         backend = "nft" /\ Here \in {"final_input", "final_postrouting"} =>
           q.fate = "through" \/ (Moving' /\ place'.back = 0 /\ Here' = Here),
         backend = "nft" /\ q.traced /\ ~P.traced =>
           \E i \in 1..Len(printed) : printed[i].kind = "packet"
  PROVE  PathInv'
<1>1. /\ PacketsStay /\ Latest' = Latest /\ P' = q /\ Len(packets') = Len(packets)
      /\ Moving' = (q.fate = "moving")
      /\ \A k \in 1..Len(packets) : packets'[k] = IF k = Latest THEN q ELSE packets[k]
  BY PacketReplaced
<1>2. /\ P \in Packet /\ P.fate = "moving" /\ Latest \in 1..Len(packets) /\ Latest \in Nat
      /\ packets \in Seq(Packet) /\ Len(packets) \in Nat /\ Latest = Len(packets)
      /\ packets[Latest] = P
  BY PacketHere
<1>3. /\ backend' = backend /\ othersTrace' = othersTrace /\ ruleset' = ruleset
      /\ dropPolicy' = dropPolicy /\ phase' = phase /\ installed' = installed
      /\ rules' = rules /\ listed' = listed /\ event' = event /\ shown' = shown
      /\ outcome' = outcome /\ changed' = changed /\ mishaps' = mishaps /\ attached' = attached
  BY DEF hostVars, setupVars, listVars, resultVars, mishapVars
<1>4. SetupInv'
  BY <1>3 DEF PathInv, SetupInv
<1>5. RulesInv(ruleset)' /\ RulesStay
  BY <1>3, SameRules
<1>6. ListInv'
  BY <1>3, <1>5, ListStays DEF PathInv
<1>7. PacketsInv'
  <2>1. packets' \in Seq(Packet)
    BY <1>1 DEF PacketsStay
  <2> QED
    BY <1>1, <1>2, <2>1 DEF PathInv, PacketsInv
<1>8. WatchInv'
  BY <1>1, <1>2, <1>3 DEF PathInv, WatchInv
<1>9. /\ lines \in Seq(LineFields) /\ (~attached => lines = <<>>)
      /\ \A i \in 1..Len(lines) : lines[i].of \in 1..Len(packets)
  BY DEF PathInv, LinesInv, LineTrue
\* What is in lines' if the monitor listens.
<1>10. attached => /\ lines' = lines \o printed /\ lines' \in Seq(LineFields)
                   /\ Len(lines') = Len(lines) + Len(printed)
                   /\ \A i \in 1..Len(lines) : lines'[i] = lines[i] /\ i \in 1..Len(lines')
                   /\ \A i \in 1..Len(printed) :
                        lines'[Len(lines) + i] = printed[i] /\ Len(lines) + i \in 1..Len(lines')
                   /\ \A i \in 1..Len(lines') :
                        i \in 1..Len(lines) \/ (i - Len(lines) \in 1..Len(printed)
                                                /\ lines'[i] = printed[i - Len(lines)])
  BY <1>9, Joined DEF Monitor
<1>11. ~attached => lines' = lines /\ lines = <<>> /\ Len(lines) = 0
  BY <1>9 DEF Monitor
<1>12. LinesInv'
  <2>1. ASSUME NEW i \in 1..Len(lines)
        PROVE  \E l : l = lines[i] /\ LineTrue(l)'
    <3>1. PICK l : l = lines[i] /\ LineTrue(l)
      BY DEF PathInv, LinesInv
    <3> QED
      BY <1>1, <1>5, <3>1, LineStays DEF PathInv
  <2>2. ASSUME NEW i \in 1..Len(lines')
        PROVE  LineTrue(lines[i])'
    <3>1. CASE i \in 1..Len(lines) /\ lines'[i] = lines[i]
      BY <2>1, <3>1
    <3>2. CASE i - Len(lines) \in 1..Len(printed) /\ lines'[i] = printed[i - Len(lines)]
      <4>1. PICK l : l = printed[i - Len(lines)] /\ LineTrue(l)'
        BY <3>2 DEF AllTrue
      <4> QED
        BY <3>2, <4>1
    <3> QED
      BY <1>10, <1>11, <2>2, <3>1, <3>2
  <2>3. DropsEnd'
    <3> SUFFICES ASSUME NEW i \in 1..Len(lines'), lines'[i].kind \notin {"log", "other"},
                        packets'[lines'[i].of].fate = "dropped"
                 PROVE  \E j \in i..Len(lines') : lines'[j].of = lines'[i].of /\ DropLine(lines'[j])
      BY DEF DropsEnd, DropLine
    <3>1. attached
      BY <1>11
    <3>2. CASE i \in 1..Len(lines) /\ packets[lines'[i].of].fate = "dropped"
      <4>1. lines'[i] = lines[i] /\ Len(lines) \in Nat
        BY <1>9, <1>10, <3>1, <3>2
      <4>2. PICK j \in i..Len(lines) : lines[j].of = lines[i].of /\ DropLine(lines[j])
        BY <3>2, <4>1 DEF PathInv, LinesInv, DropsEnd
      <4>3. j \in 1..Len(lines)
        BY <3>2, <4>1
      <4>4. lines'[j] = lines[j] /\ j \in 1..Len(lines')
        BY <1>10, <3>1, <4>3
      <4>5. j \in i..Len(lines')
        BY <1>10, <3>1, <4>1, <4>4
      <4> QED
        BY <4>1, <4>2, <4>4, <4>5
    <3>3. CASE lines'[i].of = Latest /\ q.traced
      <4>1. q.fate = "dropped"
        BY <1>1, <1>2, <3>3
      <4>2. /\ printed # <<>> /\ DropLine(printed[Len(printed)])
        BY <3>3, <4>1
      <4>3. Len(printed) \in Nat /\ Len(printed) > 0 /\ Len(lines) \in Nat
        BY <1>9, <4>2
      <4>4. Len(printed) \in 1..Len(printed)
        BY <4>3
      <4>5. /\ lines'[Len(lines')] = printed[Len(printed)] /\ printed[Len(printed)].of = Latest
            /\ Len(lines') \in 1..Len(lines')
        BY <1>10, <3>1, <4>3, <4>4 DEF AllHere
      <4>6. Len(lines') \in i..Len(lines')
        BY <4>5
      <4> QED
        BY <3>3, <4>2, <4>5, <4>6
    <3>4. CASE i \in 1..Len(lines) /\ packets[lines'[i].of].fate # "dropped"
      <4>1. lines'[i] = lines[i] /\ lines[i].of \in 1..Len(packets)
        BY <1>9, <1>10, <3>1, <3>4
      <4>2. lines[i].of = Latest
        BY <1>1, <3>4, <4>1
      <4>3. P.traced
        BY <1>2, <3>4, <4>1, <4>2 DEF PathInv, LinesInv, LineTrue
      <4> QED
        BY <3>3, <4>1, <4>2, <4>3
    <3>5. CASE i \notin 1..Len(lines)
      <4>1. i - Len(lines) \in 1..Len(printed) /\ lines'[i] = printed[i - Len(lines)]
        BY <1>10, <3>1, <3>5
      <4>2. lines'[i].of = Latest
        BY <4>1 DEF AllHere
      <4>3. q.traced
        BY <1>1, <1>2, <2>2, <4>2 DEF LineTrue
      <4> QED
        BY <3>3, <4>2, <4>3
    <3> QED
      BY <3>2, <3>4, <3>5
  <2>4. LogsAreFinal'
    <3> SUFFICES ASSUME NEW i \in 1..Len(lines'), backend = "iptables", ~changed,
                        lines'[i].kind = "log",
                        lines'[i].hit.id \in {"final_input", "final_postrouting"}
                 PROVE  /\ packets'[lines'[i].of].fate # "dropped"
                        /\ lines'[i].of = Latest /\ Moving' => Past'
      BY <1>1, <1>3 DEF LogsAreFinal
    <3>1. attached
      BY <1>11
    <3>2. CASE i \in 1..Len(lines)
      <4>1. /\ lines'[i] = lines[i] /\ lines[i].of \in 1..Len(packets)
        BY <1>9, <1>10, <3>1, <3>2
      <4>2. /\ packets[lines[i].of].fate # "dropped"
            /\ lines[i].of = Latest /\ Moving => Past
        BY <3>2, <4>1 DEF PathInv, LinesInv, LogsAreFinal
      <4> QED
        BY <1>1, <4>1, <4>2
    <3>3. CASE i \notin 1..Len(lines)
      <4>1. i - Len(lines) \in 1..Len(printed) /\ lines'[i] = printed[i - Len(lines)]
        BY <1>10, <3>1, <3>3
      <4> QED
        BY <1>1, <1>2, <4>1 DEF AllHere
    <3> QED
      BY <3>2, <3>3
  <2>5. StopsAreLast'
    <3> SUFFICES ASSUME NEW i \in 1..Len(lines'), backend = "nft",
                        lines'[i].chain \in {"final_input", "final_postrouting"}
                 PROVE  \/ packets'[lines'[i].of].fate = "through"
                        \/ /\ lines'[i].of = Latest /\ Moving' /\ place'.back = 0
                           /\ Here' = lines'[i].chain
      BY <1>1, <1>3 DEF StopsAreLast
    <3>1. attached
      BY <1>11
    <3>2. CASE i \in 1..Len(lines) /\ packets[lines[i].of].fate = "through"
      <4>1. lines'[i] = lines[i] /\ lines[i].of \in 1..Len(packets)
        BY <1>9, <1>10, <3>1, <3>2
      <4>2. lines[i].of # Latest
        BY <1>2, <3>2
      <4> QED
        BY <1>1, <3>2, <4>1, <4>2
    <3>3. CASE lines'[i].of = Latest /\ Here = lines'[i].chain
      <4>1. q.fate = "through" \/ (Moving' /\ place'.back = 0 /\ Here' = Here)
        BY <3>3
      <4>2. packets'[Latest] = q
        BY <1>1, <1>2
      <4> QED
        BY <3>3, <4>1, <4>2
    <3>4. CASE i \in 1..Len(lines) /\ packets[lines[i].of].fate # "through"
      <4>1. lines'[i] = lines[i]
        BY <1>10, <3>1, <3>4
      <4>2. lines[i].of = Latest /\ Here = lines[i].chain
        BY <3>4, <4>1 DEF PathInv, LinesInv, StopsAreLast
      <4> QED
        BY <3>3, <4>1, <4>2
    <3>5. CASE i \notin 1..Len(lines)
      <4>1. i - Len(lines) \in 1..Len(printed) /\ lines'[i] = printed[i - Len(lines)]
        BY <1>10, <3>1, <3>5
      <4>2. lines'[i].of = Latest /\ lines'[i].chain = Here
        BY <4>1 DEF AllHere
      <4> QED
        BY <3>3, <4>2
    <3> QED
      BY <3>2, <3>4, <3>5
  <2> QED
    BY <1>3, <1>9, <1>10, <1>11, <2>2, <2>3, <2>4, <2>5 DEF LinesInv
<1>13. ShownInv'
  <2>1. \A k \in shown : k \in 1..Len(packets') /\ (~othersTrace => packets'[k].about = "flow")
    BY <1>1, <1>2 DEF PathInv, ShownInv
  <2> QED
    BY <1>1, <1>3, <2>1 DEF PathInv, ShownInv
<1>14. EventInv'
  BY <1>1, <1>2, <1>3, <1>5, EventStays DEF PathInv
\* The packet has not been shown yet.
<1>15. \A k \in shown : k \in 1..Len(packets) /\ packets'[k] = packets[k]
  BY <1>1 DEF PathInv, ShownInv
<1>16. AnswerInv'
  <2>1. \A k : DropComes(k) => DropComes(k)'
    <3> SUFFICES ASSUME NEW k, DropComes(k) PROVE DropComes(k)'
      OBVIOUS
    <3>1. PICK j \in 1..Len(lines) : lines[j].of = k /\ DropLine(lines[j])
      BY DEF DropComes
    <3>2. lines'[j] = lines[j] /\ j \in 1..Len(lines')
      BY <1>10, <1>11
    <3> QED
      BY <3>1, <3>2 DEF DropComes, DropLine
  <2>2. Readable' = Readable
    BY <1>3 DEF Readable
  <2>3. \A k \in shown : Reached(k) => Reached(k)'
    BY <1>3, <1>15, <2>1 DEF Reached
  <2> QED
    BY <1>3, <1>15, <2>2, <2>3 DEF PathInv, AnswerInv
<1>17. IntroInv'
  <2> SUFFICES ASSUME backend = "nft", q.about = "flow", q.watched, q.traced
               PROVE  Latest \in shown
                      \/ \E j \in 1..Len(lines') : lines'[j].of = Latest /\ lines'[j].kind = "packet"
    BY <1>1, <1>3 DEF IntroInv, Followed
  <2>1. attached
    BY <1>2 DEF PathInv, WatchInv
  <2>2. CASE P.traced
    <3>1. Followed
      BY <1>2, <2>2 DEF Followed
    <3>2. PICK j \in 1..Len(lines) : lines[j].of = Latest /\ lines[j].kind = "packet"
      BY <3>1 DEF PathInv, IntroInv, ShownInv
    <3>3. lines'[j] = lines[j] /\ j \in 1..Len(lines')
      BY <1>10, <2>1
    <3> QED
      BY <3>2, <3>3
  <2>3. CASE ~P.traced
    <3>1. PICK i \in 1..Len(printed) : printed[i].kind = "packet"
      BY <2>3
    <3>2. lines'[Len(lines) + i] = printed[i] /\ Len(lines) + i \in 1..Len(lines')
      BY <1>10, <2>1
    <3> QED
      BY <3>1, <3>2 DEF AllHere
  <2> QED
    BY <2>2, <2>3
<1>18. ToldInv'
  <2> SUFFICES ASSUME q.about = "flow", q.watched, q.traced, q.fate = "dropped"
               PROVE  lines' # <<>> /\ lines'[Len(lines')].of = Latest /\ DropLine(lines'[Len(lines')])
    BY <1>1 DEF ToldInv, Followed, DropLine
  <2>1. attached
    BY <1>2 DEF PathInv, WatchInv
  <2>2. /\ printed # <<>> /\ DropLine(printed[Len(printed)])
    OBVIOUS
  <2>3. Len(printed) \in Nat /\ Len(printed) > 0 /\ Len(lines) \in Nat
    BY <1>9, <2>2
  <2>4. Len(printed) \in 1..Len(printed)
    BY <2>3
  <2>5. /\ lines'[Len(lines')] = printed[Len(printed)] /\ printed[Len(printed)].of = Latest
    BY <1>10, <2>1, <2>3, <2>4 DEF AllHere
  <2>6. lines' # <<>>
    <3>1. Len(lines') = Len(lines) + Len(printed)
      BY <1>10, <2>1
    <3> QED
      BY <2>3, <3>1
  <2> QED
    BY <2>2, <2>5, <2>6
<1> QED
  BY <1>4, <1>5, <1>6, <1>7, <1>8, <1>12, <1>13, <1>14, <1>16, <1>17, <1>18 DEF PathInv

----------------------------------------------------------------------------
(* Where packets are.                                                      *)

Places == [stop: 0..6, at: Nat, back: Nat, dumped: BOOLEAN]

\* The rule of a chain whose rules are not those of the listing is the host's.
LEMMA NotFixed ==
  ASSUME RulesInv(ruleset), backend = "iptables", NEW c \in DOMAIN ruleset
  PROVE  Fixed(c) \/ (c \in RawChains /\ \A k \in 1..Len(ruleset[c]) : ruleset[c][k] \in HostRules)
<1>1. Fixed(c) \/ c \in RawChains
  BY DEF Fixed, RawChains
<1>2. \A k \in 1..Len(ruleset[c]) : ruleset[c][k] \in HostRules \/ Fixed(c)
  BY DEF RulesInv, ChainRule, Added
<1> QED
  BY <1>1, <1>2

\* A packet that enters a chain goes by the rules of the ruleset.
LEMMA FreshView ==
  ASSUME PathInv, backend = "iptables", view' = ruleset, UNCHANGED <<ruleset, installed, backend>>,
         NEW c \in DOMAIN ruleset
  PROVE  /\ Fixed(c) => Numbered(c)'
         /\ \/ Numbered(c)'
            \/ c \in RawChains /\ \A k \in 1..Len(view'[c]) : view'[c][k] \in HostRules
<1>1. Len(ruleset[c]) \in Nat
  BY DEF PathInv, RulesInv
<1>2. Fixed(c) => Numbered(c)'
  BY <1>1 DEF Fixed, Numbered
<1> QED
  BY <1>2, NotFixed DEF PathInv

\* What there is where a packet is.
LEMMA HereFacts ==
  ASSUME PathInv, Moving
  PROVE  /\ Here \in DOMAIN view /\ Here \in Chain /\ OnWay(Here, P.route)
         /\ HereRules \in Seq(Rule) /\ HereRules = view[Here]
         /\ \A k \in 1..Len(HereRules) : ChainRule(Here, HereRules[k])
         /\ place \in Places /\ place.at > 0
         /\ P.route \in DOMAIN Way /\ place.stop \in DOMAIN Way[P.route]
         /\ Here # User => place.back = 0 /\ Here = Way[P.route][place.stop]
         /\ place.back = 0 => Here = Way[P.route][place.stop]
<1>1. P \in Packet /\ P.route \in DOMAIN Way
  BY PacketHere DEF Packet
<1>2. /\ place \in Places /\ RulesInv(view) /\ place.stop \in DOMAIN Way[P.route]
      /\ Way[P.route][place.stop] \in DOMAIN view /\ place.at > 0
  BY DEF PathInv, PlaceInv, Places
<1>3. place.back \in Nat
  BY <1>2 DEF Places
<1>4. Here = User \/ Here = Way[P.route][place.stop]
  BY DEF Here
<1>5. Here \in DOMAIN view
  BY <1>2, <1>4 DEF RulesInv
<1>6. (Here # User => place.back = 0) /\ (place.back = 0 => Here = Way[P.route][place.stop])
  BY <1>3 DEF Here
<1>7. Here \in Chain /\ HereRules \in Seq(Rule) /\ HereRules = view[Here]
      /\ \A k \in 1..Len(HereRules) : ChainRule(Here, HereRules[k])
  BY <1>2, <1>5 DEF RulesInv, HereRules
<1>8. OnWay(Here, P.route)
  BY <1>2, <1>4 DEF OnWay
<1> QED
  BY <1>1, <1>2, <1>4, <1>5, <1>6, <1>7, <1>8

\* With iptables, the position of the rule that a traced packet meets is its number.
LEMMA HereNumbered ==
  ASSUME PathInv, Moving, backend = "iptables", ~changed, P.traced, P.about = "flow"
  PROVE  Numbered(Here)
<1>1. ViewInv
  BY DEF PathInv, PlaceInv
<1>2. CASE Here = User
  BY <1>1, <1>2, HereFacts DEF ViewInv, RawChains, User
<1>3. CASE Here # User
  BY <1>1, <1>3, HereFacts DEF ViewInv
<1> QED
  BY <1>2, <1>3

\* A packet that is traced as before.
LEMMA TracedSame ==
  ASSUME PathInv, Moving, UNCHANGED <<hostVars, setupVars>>,
         NEW q \in Packet, packets' = [packets EXCEPT ![Latest] = q],
         q.about = P.about, q.route = P.route, P.traced => q.traced,
         q.traced /\ ~P.traced =>
           /\ q.about = "flow"
           /\ backend = "iptables" =>
                \A s \in DOMAIN Way[q.route] : Fixed(Way[q.route][s])
  PROVE  TracedInv'
<1>1. /\ Latest' = Latest /\ P' = q /\ Len(packets') = Len(packets)
      /\ \A k \in 1..Len(packets) : packets'[k] = IF k = Latest THEN q ELSE packets[k]
  BY PacketReplaced
<1>2. Latest \in 1..Len(packets) /\ packets[Latest] = P
  BY PacketHere
<1>3. /\ backend' = backend /\ othersTrace' = othersTrace /\ installed' = installed
  BY DEF hostVars, setupVars
<1> SUFFICES ASSUME NEW k \in 1..Len(packets), packets'[k].traced
             PROVE  /\ ~othersTrace => packets'[k].about = "flow"
                    /\ backend = "iptables" /\ packets'[k].about = "flow" =>
                         \A s \in DOMAIN Way[packets'[k].route] : Fixed(Way[packets'[k].route][s])
  BY <1>1, <1>3 DEF TracedInv, Fixed
<1>4. CASE k # Latest
  BY <1>1, <1>4 DEF PathInv, PacketsInv, TracedInv
<1>5. CASE k = Latest /\ P.traced
  <2>1. packets[k] = P /\ packets'[k] = q
    BY <1>1, <1>2, <1>5
  <2>2. /\ ~othersTrace => P.about = "flow"
        /\ backend = "iptables" /\ P.about = "flow" =>
             \A s \in DOMAIN Way[P.route] : Fixed(Way[P.route][s])
    BY <1>5, <2>1 DEF PathInv, PacketsInv, TracedInv
  <2> QED
    BY <2>1, <2>2
<1>6. CASE k = Latest /\ ~P.traced
  BY <1>1, <1>2, <1>6
<1> QED
  BY <1>4, <1>5, <1>6

\* The end of a packet's way.
LEMMA EndPlace ==
  ASSUME PathInv, Moving, NEW fate \in Fates \ {"moving"}, EndAs(fate, P)
  PROVE  /\ PlaceInv' /\ ~Moving'
         /\ [P EXCEPT !.fate = fate] \in Packet
         /\ packets' = [packets EXCEPT ![Latest] = [P EXCEPT !.fate = fate]]
<1>1. P \in Packet
  BY PacketHere
<1>2. PICK q : q = [P EXCEPT !.fate = fate]
  OBVIOUS
<1>3. q \in Packet /\ q.fate # "moving" /\ q.about = P.about /\ q.route = P.route
      /\ q.traced = P.traced
  BY <1>1, <1>2 DEF Packet
<1>4. packets' = [packets EXCEPT ![Latest] = q] /\ place' = Nowhere
  BY <1>2 DEF EndAs
<1>5. ~Moving'
  BY <1>3, <1>4, PacketReplaced
<1>6. place' \in Places
  BY <1>4 DEF Nowhere, Places
<1> QED
  BY <1>2, <1>3, <1>4, <1>5, <1>6 DEF PlaceInv, Places

\* The packet goes on in its chain or to another one.
LEMMA GoPlace ==
  ASSUME PathInv, Moving, UNCHANGED <<hostVars, setupVars, mishapVars>>,
         NEW q \in Packet, q.about = P.about, q.route = P.route, P.traced => q.traced,
         NEW at \in Nat \ {0}, NEW back \in Nat, NEW dumped \in BOOLEAN, GoTo(at, back, dumped, q),
         dumped => q.traced,
         backend = "iptables" /\ ~changed /\ q.traced /\ q.about = "flow" =>
           Numbered(Way[P.route][place.stop])
  PROVE  /\ PlaceInv' /\ packets' = [packets EXCEPT ![Latest] = q]
         /\ place'.at = at /\ place'.back = back /\ place'.stop = place.stop
<1>1. /\ packets' = [packets EXCEPT ![Latest] = q] /\ view' = view
      /\ place' = [place EXCEPT !.at = at, !.back = back, !.dumped = dumped]
  BY DEF GoTo
<1>2. P' = q
  BY <1>1, PacketReplaced
<1>3. place' \in Places /\ place'.stop = place.stop /\ place'.at = at /\ place'.back = back
      /\ place'.dumped = dumped
  BY <1>1 DEF PathInv, PlaceInv, Places
<1>4. /\ backend' = backend /\ ruleset' = ruleset /\ installed' = installed /\ changed' = changed
  BY DEF hostVars, setupVars, mishapVars
<1>5. RulesInv(view)'
  <2>1. PICK rs : rs = view /\ RulesInv(rs)
    BY DEF PathInv, PlaceInv
  <2>2. RulesInv(rs)'
    BY <1>4, <2>1, RulesInvStays DEF PathInv, SetupInv
  <2> QED
    BY <1>1, <2>1, <2>2
<1>6. ASSUME backend = "iptables", ~changed
      PROVE  ViewInv'
  <2>1. \A c \in DOMAIN view : Numbered(c)' = Numbered(c)
    BY <1>1, <1>4 DEF Numbered, Fixed
  <2>2. \A c \in DOMAIN view' : Numbered(c)' \/ (c \in RawChains /\
                \A k \in 1..Len(view'[c]) : view'[c][k] \in HostRules)
    BY <1>1, <1>6, <2>1 DEF PathInv, PlaceInv, ViewInv
  <2>3. PICK c : c = Way[P.route][place.stop] /\ c \in DOMAIN view
    BY DEF PathInv, PlaceInv
  <2>4. Way[P'.route][place'.stop] = c
    BY <1>2, <1>3, <2>3
  <2>5. P'.traced /\ P'.about = "flow" => Numbered(c)'
    BY <1>2, <1>6, <2>1, <2>3
  <2> QED
    BY <2>2, <2>4, <2>5 DEF ViewInv
<1> QED
  BY <1>1, <1>2, <1>3, <1>4, <1>5, <1>6 DEF PathInv, PlaceInv, Places

\* A packet goes on to the next chain of its way that is in the kernel.
LEMMA EnterPlace ==
  ASSUME PathInv, Moving, UNCHANGED <<hostVars, setupVars, mishapVars>>,
         EnterFrom(place.stop + 1, P)
  PROVE  \E fate \in {"moving", "through"} :
           /\ PlaceInv' /\ [P EXCEPT !.fate = fate] \in Packet
           /\ packets' = [packets EXCEPT ![Latest] = [P EXCEPT !.fate = fate]]
           /\ backend = "iptables" /\ Past => fate = "through"
           /\ Here \in {"final_input", "final_postrouting"} => fate = "through"
<1> DEFINE way   == Way[P.route]
           k     == place.stop + 1
           stops == {s \in k..Len(way) : way[s] \in DOMAIN ruleset}
<1>1. P \in Packet /\ P.fate = "moving" /\ [P EXCEPT !.fate = "moving"] = P
  BY PacketHere DEF Packet
<1>2. P.route \in DOMAIN Way /\ place.stop \in DOMAIN way /\ place \in Places
  BY HereFacts
<1>3. DOMAIN way = 1..Len(way) /\ Len(way) \in 0..6 /\ place.stop \in Nat /\ place.stop > 0
  BY <1>2, WayFacts DEF Places
<1>4. CASE stops = {}
  <2>1. EndAs("through", P)
    BY <1>4 DEF EnterFrom, EndAs
  <2> QED
    BY <2>1, EndPlace DEF Fates
<1>5. CASE stops # {}
  <2>1. /\ packets' = [packets EXCEPT ![Latest] = P]
        /\ place' = [stop |-> Min(stops), at |-> 1, back |-> 0, dumped |-> FALSE]
        /\ view' = ruleset
    BY <1>5 DEF EnterFrom
  <2>2. P' = P
    BY <1>1, <2>1, PacketReplaced
  <2>3. stops \in SUBSET Nat
    BY <1>3
  <2>4. PICK stop : stop = Min(stops) /\ stop \in stops
    BY <1>5, <2>3, MinOfPositions
  <2>5. stop \in k..Len(way) /\ stop \in DOMAIN way /\ way[stop] \in DOMAIN ruleset /\ stop \in 0..6
        /\ stop > place.stop
    <3>1. stop \in k..Len(way) /\ way[stop] \in DOMAIN ruleset
      BY <2>4
    <3>2. PICK n, here : n = Len(way) /\ here = place.stop
      OBVIOUS
    <3>3. n \in 0..6 /\ here \in Nat /\ here > 0 /\ stop \in (here + 1)..n
      BY <1>3, <3>1, <3>2
    <3>4. stop \in 1..n /\ stop \in 0..6 /\ stop > here
      BY <3>3
    <3> QED
      BY <1>3, <3>1, <3>2, <3>4
  <2>6. /\ place'.stop = stop /\ place' \in Places /\ place'.at = 1 /\ place'.dumped = FALSE
    BY <2>1, <2>4, <2>5 DEF Places
  <2>7. /\ backend' = backend /\ ruleset' = ruleset /\ installed' = installed /\ changed' = changed
    BY DEF hostVars, setupVars, mishapVars
  <2>8. RulesInv(view)'
    <3>1. PICK rs : rs = ruleset /\ RulesInv(rs)
      BY DEF PathInv
    <3>2. RulesInv(rs)'
      BY <2>7, <3>1, RulesInvStays DEF PathInv, SetupInv
    <3> QED
      BY <2>1, <3>1, <3>2
  <2>9. ASSUME backend = "iptables", ~changed
        PROVE  ViewInv'
    <3>1. \A c \in DOMAIN ruleset :
            /\ Fixed(c) => Numbered(c)'
            /\ \/ Numbered(c)'
               \/ c \in RawChains /\ \A n \in 1..Len(view'[c]) : view'[c][n] \in HostRules
      BY <2>1, <2>7, <2>9, FreshView
    <3>2. PICK c : c = way[stop] /\ c \in DOMAIN ruleset
      BY <2>5
    <3>3. P.traced /\ P.about = "flow" => Numbered(c)'
      <4>1. P.traced /\ P.about = "flow" => Fixed(c)
        BY <2>5, <2>9, <3>2, PacketHere DEF PathInv, PacketsInv, TracedInv
      <4> QED
        BY <3>1, <3>2, <4>1
    <3>4. Way[P'.route][place'.stop] = c
      BY <2>2, <2>6, <3>2
    <3> QED
      BY <2>1, <2>2, <3>1, <3>3, <3>4 DEF ViewInv
  <2>10. PlaceInv'
    <3>1. place'.stop \in DOMAIN Way[P'.route] /\ Way[P'.route][place'.stop] \in DOMAIN view'
      BY <2>1, <2>2, <2>5, <2>6
    <3>2. backend' = "iptables" /\ ~changed' => ViewInv'
      BY <2>7, <2>9
    <3> QED
      BY <2>6, <2>8, <3>1, <3>2 DEF PlaceInv, Places
  <2>11. ~(backend = "iptables" /\ Past)
    <3> SUFFICES ASSUME backend = "iptables", Past PROVE FALSE
      OBVIOUS
    <3>1. way[place.stop] \in {"filter_INPUT", "mangle_POSTROUTING"}
      BY HereFacts DEF Past
    <3>2. way[stop] \in RunChains
      BY <1>2, <2>5, <3>1, WayEnds
    <3> QED
      BY <2>5, <3>2 DEF PathInv, RulesInv
  <2>12. Here \notin {"final_input", "final_postrouting"}
    <3> SUFFICES ASSUME Here \in {"final_input", "final_postrouting"} PROVE FALSE
      OBVIOUS
    <3>1. way[place.stop] \in {"final_input", "final_postrouting"}
      BY HereFacts DEF User
    <3> QED
      BY <1>2, <2>5, <3>1, LastStops
  <2> QED
    BY <1>1, <2>1, <2>10, <2>11, <2>12
<1> QED
  BY <1>4, <1>5

\* The next packet.
LEMMA DepartStep ==
  ASSUME PathInv, Depart
  PROVE  PathInv'
<1>1. PICK about, route, q, stop :
        /\ about \in {"flow", "alike"} /\ route \in DOMAIN Way
        /\ q = [about |-> about, route |-> route, watched |-> attached,
                traced |-> about # "flow" /\ othersTrace, fate |-> "moving"]
        /\ stop = Min({s \in DOMAIN Way[route] : Way[route][s] \in DOMAIN ruleset})
        /\ packets' = Append(packets, q)
        /\ place' = [stop |-> stop, at |-> 1, back |-> 0, dumped |-> FALSE]
  BY DEF Depart
<1>2. /\ ~Moving /\ Latest < IF phase = "loop" THEN MaxPackets ELSE MaxEarly
      /\ view' = ruleset
      /\ UNCHANGED <<hostVars, setupVars, listVars, resultVars, attached, lines, mishapVars>>
  BY DEF Depart
<1>3. /\ backend' = backend /\ othersTrace' = othersTrace /\ ruleset' = ruleset
      /\ dropPolicy' = dropPolicy /\ phase' = phase /\ installed' = installed
      /\ rules' = rules /\ listed' = listed /\ event' = event /\ shown' = shown
      /\ outcome' = outcome /\ changed' = changed /\ mishaps' = mishaps /\ attached' = attached
      /\ lines' = lines
  BY <1>2 DEF hostVars, setupVars, listVars, resultVars, mishapVars
<1>4. /\ q \in Packet /\ q.about = about /\ q.route = route /\ q.watched = attached
      /\ q.traced = (about # "flow" /\ othersTrace) /\ q.fate = "moving"
  BY <1>1 DEF Packet, Fates, PathInv, SetupInv
<1>5. packets \in Seq(Packet) /\ Len(packets) \in Nat /\ Latest = Len(packets)
  BY DEF PathInv, PacketsInv, Latest
<1>6. /\ packets' \in Seq(Packet) /\ Len(packets') = Latest + 1 /\ Latest' = Latest + 1
      /\ \A k \in 1..Len(packets') : packets'[k] = IF k = Latest + 1 THEN q ELSE packets[k]
      /\ \A k \in 1..Len(packets') : k # Latest + 1 => k \in 1..Len(packets)
      /\ \A k \in 1..Len(packets) : packets'[k] = packets[k] /\ k \in 1..Len(packets') /\ k # Latest'
  BY <1>1, <1>4, <1>5, AppendProperties DEF Latest
<1>7. P' = q /\ Moving'
  <2>1. Latest' \in 1..Len(packets')
    BY <1>5, <1>6
  <2>2. P' = q
    BY <1>6, <2>1 DEF P
  <2> QED
    BY <1>4, <1>5, <1>6, <2>2 DEF Moving
<1>8. PacketsStay
  BY <1>5, <1>6 DEF PacketsStay
<1>9. SetupInv'
  BY <1>3 DEF PathInv, SetupInv
<1>10. RulesInv(ruleset)' /\ RulesStay
  BY <1>2, SameRules DEF setupVars, mishapVars
<1>11. ListInv'
  BY <1>3, <1>10, ListStays DEF PathInv
<1>12. PacketsInv'
  <2>1. TracedInv'
    <3> SUFFICES ASSUME NEW k \in 1..Len(packets'), packets'[k].traced
                 PROVE  /\ ~othersTrace => packets'[k].about = "flow"
                        /\ backend = "iptables" /\ packets'[k].about = "flow" =>
                             \A s \in DOMAIN Way[packets'[k].route] :
                               Fixed(Way[packets'[k].route][s])
      BY <1>3 DEF TracedInv, Fixed
    <3>1. CASE k = Latest + 1
      BY <1>4, <1>6, <3>1
    <3>2. CASE k # Latest + 1
      BY <1>6, <3>2 DEF PathInv, PacketsInv, TracedInv
    <3> QED
      BY <3>1, <3>2
  <2>2. Len(packets') <= MaxPackets
    <3>1. Latest < MaxPackets
      BY <1>2, <1>5, PathAssumption
    <3> QED
      BY <1>5, <1>6, <3>1, PathAssumption
  <2>3. \A k \in 1..Len(packets') : k # Len(packets') => packets'[k].fate # "moving"
    <3> SUFFICES ASSUME NEW k \in 1..Len(packets'), k # Latest + 1
                 PROVE  packets[k].fate # "moving"
      BY <1>6
    <3>1. k \in 1..Len(packets)
      BY <1>6
    <3>2. k = Latest => packets[k] = P /\ Latest > 0
      BY <1>5, <3>1 DEF P
    <3> QED
      BY <1>2, <1>5, <3>1, <3>2 DEF PathInv, PacketsInv, Moving
  <2> QED
    BY <1>6, <2>1, <2>2, <2>3 DEF PacketsInv
<1>13. PlaceInv'
  <2>1. stop \in DOMAIN Way[route] /\ Way[route][stop] \in DOMAIN ruleset /\ stop \in 0..6
    BY <1>1, FirstStop DEF PathInv
  <2>2. /\ place'.stop = stop /\ place' \in Places /\ place'.at = 1 /\ place'.dumped = FALSE
    BY <1>1, <2>1 DEF Places
  <2>3. RulesInv(view)'
    BY <1>2, <1>3, <1>10
  <2>4. ASSUME backend = "iptables"
        PROVE  ViewInv'
    <3>1. \A c \in DOMAIN ruleset :
             \/ Numbered(c)'
             \/ c \in RawChains /\ \A n \in 1..Len(view'[c]) : view'[c][n] \in HostRules
      BY <1>2, <1>3, <2>4, FreshView
    <3>2. ~(P'.traced /\ P'.about = "flow")
      BY <1>4, <1>7
    <3> QED
      BY <1>2, <3>1, <3>2 DEF ViewInv
  <2>5. place'.stop \in DOMAIN Way[P'.route] /\ Way[P'.route][place'.stop] \in DOMAIN view'
    BY <1>2, <1>4, <1>7, <2>1, <2>2
  <2> QED
    BY <1>3, <2>2, <2>3, <2>4, <2>5 DEF PlaceInv, Places
<1>14. WatchInv'
  BY <1>3, <1>4, <1>6 DEF PathInv, WatchInv
<1>15. \A i \in 1..Len(lines) : lines[i].of \in 1..Len(packets)
  BY DEF PathInv, LinesInv, LineTrue
<1>16. LinesInv'
  <2>1. ASSUME NEW i \in 1..Len(lines)
        PROVE  \E l : l = lines[i] /\ LineTrue(l)'
    <3>1. PICK l : l = lines[i] /\ LineTrue(l)
      BY DEF PathInv, LinesInv
    <3> QED
      BY <1>8, <1>10, <3>1, LineStays DEF PathInv
  <2>2. \A i \in 1..Len(lines') : LineTrue(lines[i])'
    BY <1>3, <2>1
  <2>3. DropsEnd'
    BY <1>3, <1>6, <1>15 DEF PathInv, LinesInv, DropsEnd, DropLine
  <2>4. LogsAreFinal'
    BY <1>3, <1>6, <1>15 DEF PathInv, LinesInv, LogsAreFinal
  <2>5. StopsAreLast'
    BY <1>2, <1>3, <1>6, <1>15 DEF PathInv, LinesInv, StopsAreLast
  <2> QED
    BY <1>3, <2>2, <2>3, <2>4, <2>5 DEF PathInv, LinesInv
<1>17. \A k \in shown : k \in 1..Len(packets) /\ packets'[k] = packets[k] /\ k # Latest'
                        /\ k \in 1..Len(packets')
  BY <1>6 DEF PathInv, ShownInv
<1>18. ShownInv'
  BY <1>3, <1>17 DEF PathInv, ShownInv
<1>19. EventInv'
  BY <1>3, <1>5, <1>8, <1>10, EventStays DEF PathInv
<1>20. AnswerInv'
  <2>1. Readable' = Readable /\ \A k : DropComes(k)' = DropComes(k)
    BY <1>3 DEF Readable, DropComes, DropLine
  <2>2. \A k \in shown : Reached(k)' = Reached(k)
    BY <1>3, <1>17, <2>1 DEF Reached
  <2> QED
    BY <1>3, <1>17, <2>1, <2>2 DEF PathInv, AnswerInv
<1>21. IntroInv' /\ ToldInv'
  BY <1>4, <1>7 DEF IntroInv, ToldInv, Followed
<1> QED
  BY <1>9, <1>10, <1>11, <1>12, <1>13, <1>14, <1>16, <1>18, <1>19, <1>20, <1>21 DEF PathInv

----------------------------------------------------------------------------
(* What is printed.                                                        *)

LEMMA FewLines ==
  ASSUME NEW a \in LineFields, NEW b \in LineFields, NEW s \in {<<>>, <<a>>}, NEW t \in {<<>>, <<b>>}
  PROVE  /\ s \o t \in Seq(LineFields)
         /\ \A i \in 1..Len(s \o t) :
              ((s \o t)[i] = a /\ s = <<a>>) \/ ((s \o t)[i] = b /\ t = <<b>>)
         /\ t = <<b>> => s \o t # <<>> /\ (s \o t)[Len(s \o t)] = b
         /\ s = <<a>> => 1 \in 1..Len(s \o t) /\ (s \o t)[1] = a
         /\ s = <<a>> /\ t = <<>> => s \o t = <<a>> /\ Len(s \o t) = 1
<1>1. CASE s = <<>> /\ t = <<>>
  BY <1>1
<1>2. CASE s = <<a>> /\ t = <<>>
  BY <1>2
<1>3. CASE s = <<>> /\ t = <<b>>
  BY <1>3
<1>4. CASE s = <<a>> /\ t = <<b>>
  BY <1>4
<1> QED
  BY <1>1, <1>2, <1>3, <1>4

LEMMA BaseLine ==
  ASSUME PathInv, Moving, NEW l,
         \E kind \in {"packet", "rule", "verdict", "policy", "return", "log", "other"} :
           l = Line(kind)
  PROVE  /\ l \in LineFields /\ l = Line(l.kind)
         /\ l.of = Latest /\ l.chain = Here /\ FlowMatches(l)
         /\ l.hit = NoRule /\ l.handle = None /\ l.text = NoRule /\ l.verdict = None
         /\ l.prefix = None /\ l.number = 0
<1>1. PICK kind \in {"packet", "rule", "verdict", "policy", "return", "log", "other"} :
        l = Line(kind)
  OBVIOUS
<1>2. PICK p, h, t : p = Latest /\ h = Here /\ t = Tuple[P.about]
  OBVIOUS
<1>3. t \in {"same", "longer"}
  BY <1>2, PacketHere DEF Tuple, Packet
<1>4. p \in Trace /\ h \in Chain
  BY <1>2, PacketHere, HereFacts, PathAssumption DEF PathInv, PacketsInv
<1>5. l = [kind |-> kind, of |-> p, hit |-> NoRule, chain |-> h, number |-> 0, handle |-> None,
           text |-> NoRule, verdict |-> None, tuple |-> t, prefix |-> None]
  BY <1>1, <1>2 DEF Line
<1>6. l \in LineFields
  BY <1>3, <1>4, <1>5 DEF LineFields
<1>7. /\ l.kind = kind /\ l.of = p /\ l.chain = h /\ l.tuple = t
      /\ l.hit = NoRule /\ l.handle = None /\ l.text = NoRule /\ l.verdict = None
      /\ l.prefix = None /\ l.number = 0
  BY <1>5
<1>8. FlowMatches(l)
  BY <1>3, <1>7 DEF FlowMatches
<1> QED
  BY <1>1, <1>2, <1>6, <1>7, <1>8

\* A line that is true when the packet has become q.
LEMMA NewLine ==
  ASSUME PathInv, Moving, UNCHANGED <<hostVars, setupVars, mishapVars>>,
         NEW q \in Packet, packets' = [packets EXCEPT ![Latest] = q],
         q.about = P.about, q.route = P.route, P.traced => q.traced,
         NEW l \in LineFields, l.of = Latest, l.chain = Here,
         l.kind # "other" /\ ~othersTrace => P.about = "flow",
         l.kind \notin {"log", "other"} => q.traced,
         DropLine(l) => q.fate = "dropped",
         IF backend = "nft" THEN NftLine(l) ELSE IptLine(l)
  PROVE  l.of = Latest /\ l.chain = Here /\ LineTrue(l)'
<1>1. /\ Len(packets') = Len(packets)
      /\ \A k \in 1..Len(packets) : packets'[k] = IF k = Latest THEN q ELSE packets[k]
  BY PacketReplaced
<1>2. Latest \in 1..Len(packets) /\ packets[Latest] = P
  BY PacketHere
<1>3. l.of \in 1..Len(packets') /\ packets'[l.of] = q
  BY <1>1, <1>2
<1>4. /\ backend' = backend /\ othersTrace' = othersTrace /\ installed' = installed
      /\ changed' = changed /\ ruleset' = ruleset
  BY DEF hostVars, setupVars, mishapVars
<1>5. ChainRule(l.chain, l.hit)' = ChainRule(l.chain, l.hit)
  BY <1>4 DEF ChainRule, Added, Fixed
<1>6. NftLine(l)' = NftLine(l)
  BY <1>5 DEF NftLine, FlowMatches
<1>7. IptLine(l)' = IptLine(l)
  <2>1. Fixed(l.chain)' = Fixed(l.chain)
    BY <1>4 DEF Fixed
  <2>2. packets'[l.of].about = packets[l.of].about
    BY <1>2, <1>3
  <2> QED
    BY <1>4, <1>5, <2>1, <2>2 DEF IptLine, FlowMatches, IptPlace, Prefix
<1>8. OnWay(l.chain, q.route)
  BY HereFacts
<1> QED
  BY <1>3, <1>4, <1>6, <1>7, <1>8 DEF LineTrue, DropLine, OnWay

----------------------------------------------------------------------------
(* A rule matches.                                                         *)

\* The rules of the run that trace: the packet is the flow's, and the rule has its place.
LEMMA TraceRule ==
  ASSUME PathInv, Moving, NEW at \in 1..Len(HereRules), NEW r, r = HereRules[at],
         r.target \in {"trace", "mark"}, r.owner = "run" => RunMatches(P)
  PROVE  /\ P.about = "flow" /\ r.owner = "run"
         /\ backend = "iptables" =>
              /\ \A s \in DOMAIN Way[P.route] : Fixed(Way[P.route][s])
              /\ ~changed => Numbered(Way[P.route][place.stop])
<1>1. ChainRule(Here, r)
  BY HereFacts
<1>2. r.owner = "run"
  BY <1>1, ChainRuleFacts, HostRuleFacts
<1>3. P.about = "flow"
  BY <1>2 DEF RunMatches
<1>4. ASSUME backend = "iptables"
      PROVE  /\ Here \in RawChains /\ Fixed(Here) /\ Here = Way[P.route][place.stop]
             /\ P.route \in DOMAIN Way /\ place.stop \in DOMAIN Way[P.route]
  <2>1. IptPlace(Here, r) /\ Fixed(Here)
    BY <1>1, <1>2, <1>4, ChainRuleFacts
  <2>2. Here \in RawChains
    BY <2>1 DEF IptPlace, RawChains, RunRule
  <2> QED
    BY <2>1, <2>2, HereFacts DEF RawChains, User
<1>5. ASSUME backend = "iptables", ~changed
      PROVE  Numbered(Here)
  <2>1. r \notin HostRules
    BY <1>2, HostRuleFacts
  <2> QED
    BY <1>5, <2>1, HereFacts DEF PathInv, PlaceInv, ViewInv
<1>6. backend = "iptables" => \A s \in DOMAIN Way[P.route] : Fixed(Way[P.route][s])
  BY <1>4, OneRawChain
<1> QED
  BY <1>2, <1>3, <1>4, <1>5, <1>6

\* What the rule does with the packet.
Moves(at, r, dumped) ==
  CASE r.target \in {"drop", "reject"} -> EndAs("dropped", P)
    [] r.target = "accept" -> EnterFrom(place.stop + 1, P)
    [] r.target = "jump" -> GoTo(1, at + 1, dumped, P)
    [] r.target \in {"trace", "mark"} ->
         GoTo(at + 1, place.back, dumped, [P EXCEPT !.traced = TRUE])
    [] OTHER -> GoTo(at + 1, place.back, dumped, P)

LEMMA HitMoves ==
  ASSUME PathInv, Moving, UNCHANGED <<hostVars, setupVars, mishapVars>>,
         NEW at \in place.at..Len(HereRules), NEW r, r = HereRules[at],
         r.owner = "run" => RunMatches(P),
         NEW dumped, dumped = (place.dumped \/ (P.traced \/ r.target = "mark")),
         Moves(at, r, dumped)
  PROVE  \E q \in Packet :
           /\ packets' = [packets EXCEPT ![Latest] = q]
           /\ q.about = P.about /\ q.route = P.route /\ q.watched = P.watched
           /\ q.traced = (P.traced \/ r.target \in {"trace", "mark"})
           /\ TracedInv' /\ PlaceInv'
           /\ q.fate = "dropped" <=> r.target \in {"drop", "reject"}
           /\ r.target \in {"log", "count"} =>
                /\ view' = view /\ place'.at = at + 1 /\ place'.back = place.back
                /\ place'.stop = place.stop /\ q.fate = "moving"
<1>1. /\ P \in Packet /\ P.fate = "moving" /\ P.traced \in BOOLEAN
  BY PacketHere DEF Packet
<1>2. /\ place \in Places /\ place.at > 0 /\ HereRules \in Seq(Rule)
      /\ place.dumped => P.traced
  BY HereFacts DEF PathInv, PlaceInv
<1>3. /\ at \in Nat \ {0} /\ at + 1 \in Nat \ {0} /\ place.back \in Nat /\ at \in 1..Len(HereRules)
      /\ dumped \in BOOLEAN
  BY <1>2 DEF Places
<1>4. P.traced /\ P.about = "flow" /\ backend = "iptables" /\ ~changed =>
        Numbered(Way[P.route][place.stop])
  BY DEF PathInv, PlaceInv, ViewInv
<1>5. CASE r.target \in {"drop", "reject"}
  <2>1. EndAs("dropped", P)
    BY <1>5 DEF Moves
  <2>2. PICK q : q = [P EXCEPT !.fate = "dropped"]
    OBVIOUS
  <2>3. q \in Packet /\ PlaceInv' /\ packets' = [packets EXCEPT ![Latest] = q]
    BY <2>1, <2>2, EndPlace DEF Fates
  <2>4. q.about = P.about /\ q.route = P.route /\ q.watched = P.watched /\ q.traced = P.traced
        /\ q.fate = "dropped"
    BY <1>1, <2>2 DEF Packet
  <2>5. TracedInv'
    BY <2>3, <2>4, TracedSame
  <2> QED
    BY <1>1, <1>5, <2>3, <2>4, <2>5
<1>6. CASE r.target = "accept"
  <2>1. PICK fate \in {"moving", "through"} :
          /\ PlaceInv' /\ [P EXCEPT !.fate = fate] \in Packet
          /\ packets' = [packets EXCEPT ![Latest] = [P EXCEPT !.fate = fate]]
    <3>1. EnterFrom(place.stop + 1, P)
      BY <1>6 DEF Moves
    <3> QED
      BY <3>1, EnterPlace
  <2>2. PICK q :
          /\ fate \in {"moving", "through"} /\ q = [P EXCEPT !.fate = fate]
          /\ PlaceInv' /\ q \in Packet /\ packets' = [packets EXCEPT ![Latest] = q]
    BY <2>1
  <2>3. q.about = P.about /\ q.route = P.route /\ q.watched = P.watched /\ q.traced = P.traced
        /\ q.fate # "dropped"
    BY <1>1, <2>2 DEF Packet
  <2>4. TracedInv'
    BY <2>2, <2>3, TracedSame
  <2>5. q.traced = (P.traced \/ r.target \in {"trace", "mark"})
        /\ (q.fate = "dropped" <=> r.target \in {"drop", "reject"}) /\ r.target \notin {"log", "count"}
    BY <1>1, <1>6, <2>3
  <2> QED
    BY <2>2, <2>3, <2>4, <2>5
<1>7. CASE r.target \in {"jump", "log", "count"}
  <2>1. PICK at2 \in Nat \ {0}, back \in Nat :
          /\ GoTo(at2, back, dumped, P)
          /\ r.target \in {"log", "count"} => at2 = at + 1 /\ back = place.back
    <3>1. r.target = "jump" => GoTo(1, at + 1, dumped, P)
      BY DEF Moves
    <3>2. r.target # "jump" => GoTo(at + 1, place.back, dumped, P)
      BY <1>7 DEF Moves
    <3>3. 1 \in Nat \ {0} /\ at + 1 \in Nat
      BY <1>3
    <3> QED
      BY <1>3, <1>7, <3>1, <3>2, <3>3
  <2>2. dumped => P.traced
    BY <1>2, <1>7
  <2>3. /\ PlaceInv' /\ packets' = [packets EXCEPT ![Latest] = P]
        /\ place'.at = at2 /\ place'.back = back /\ place'.stop = place.stop
    BY <1>1, <1>3, <1>4, <2>1, <2>2, GoPlace
  <2>4. TracedInv'
    BY <1>1, <2>3, TracedSame
  <2>5. view' = view
    BY <2>1 DEF GoTo
  <2> QED
    BY <1>1, <1>7, <2>1, <2>3, <2>4, <2>5
<1>8. CASE r.target \in {"trace", "mark"}
  <2>1. PICK q : q = [P EXCEPT !.traced = TRUE]
    OBVIOUS
  <2>2. GoTo(at + 1, place.back, dumped, q)
    BY <1>8, <2>1 DEF Moves
  <2>3. q \in Packet /\ q.about = P.about /\ q.route = P.route /\ q.watched = P.watched
        /\ q.traced = TRUE /\ q.fate = "moving"
    BY <1>1, <2>1 DEF Packet
  <2>4. /\ P.about = "flow"
        /\ backend = "iptables" =>
              /\ \A s \in DOMAIN Way[P.route] : Fixed(Way[P.route][s])
              /\ ~changed => Numbered(Way[P.route][place.stop])
    BY <1>3, <1>8, TraceRule
  <2>5. PlaceInv' /\ packets' = [packets EXCEPT ![Latest] = q]
    BY <1>3, <2>2, <2>3, <2>4, GoPlace
  <2>6. TracedInv'
    BY <2>3, <2>4, <2>5, TracedSame
  <2> QED
    BY <1>8, <2>3, <2>5, <2>6
<1>9. r.target \in Targets
  <2>1. r \in Rule
    BY <1>2, <1>3
  <2> QED
    BY <2>1 DEF Rule
<1> QED
  BY <1>5, <1>6, <1>7, <1>8, <1>9 DEF Targets

PrintsOf(printed, r, at) == printed = IF backend = "nft" THEN NftLinesOf(r) ELSE LogLinesOf(r, at)

\* nft: what is printed of a rule.
LEMMA NftPrints ==
  ASSUME PathInv, Moving, UNCHANGED <<hostVars, setupVars, mishapVars>>, backend = "nft",
         NEW at \in 1..Len(HereRules), NEW r, r = HereRules[at], r.owner = "run" => RunMatches(P),
         NEW q \in Packet, packets' = [packets EXCEPT ![Latest] = q],
         q.about = P.about, q.route = P.route,
         q.traced = (P.traced \/ r.target \in {"trace", "mark"}),
         q.fate = "dropped" <=> r.target \in {"drop", "reject"},
         NEW printed, PrintsOf(printed, r, at)
  PROVE  /\ printed \in Seq(LineFields)
         /\ AllTrue(printed)' /\ AllHere(printed)
         /\ q.traced /\ q.fate = "dropped" => printed # <<>> /\ DropLine(printed[Len(printed)])
         /\ q.traced /\ ~P.traced => \E i \in 1..Len(printed) : printed[i].kind = "packet"
<1>1. ChainRule(Here, r) /\ r \in Rule
  BY HereFacts, ChainRuleFacts
<1>2. r.target # "trace"
  BY <1>1, ChainRuleFacts, HostRuleFacts DEF NftRunRule, RunRule
<1>3. CASE ~P.traced /\ r.target # "mark"
  <2>1. printed = <<>>
    BY <1>3 DEF NftLinesOf, PrintsOf
  <2>2. ~q.traced
    BY <1>2, <1>3
  <2>3. printed \in Seq(LineFields) /\ \A i \in 1..Len(printed) : FALSE
    BY <2>1
  <2> QED
    BY <2>2, <2>3 DEF AllTrue, AllHere
<1>4. CASE P.traced \/ r.target = "mark"
  <2>1. q.traced /\ (~othersTrace => P.about = "flow")
    <3>1. P.traced => (~othersTrace => P.about = "flow")
      BY PacketHere DEF PathInv, PacketsInv, TracedInv
    <3>2. r.target = "mark" => P.about = "flow"
      BY TraceRule
    <3> QED
      BY <1>4, <3>1, <3>2
  <2>2. PICK base, b : base = Line("rule") /\ b = Line("packet")
    OBVIOUS
  <2>3. /\ base \in LineFields /\ base.kind = "rule" /\ base.of = Latest /\ base.chain = Here
        /\ base.prefix = None
    <3>1. base \in LineFields /\ base.of = Latest /\ base.chain = Here /\ base.prefix = None
      BY <2>2, BaseLine
    <3> QED
      BY <2>2, <3>1 DEF Line
  <2>4. /\ b \in LineFields /\ b.kind = "packet" /\ b.of = Latest /\ b.chain = Here /\ FlowMatches(b)
        /\ b.hit = NoRule /\ b.handle = None /\ b.text = NoRule /\ b.verdict = None
        /\ b.prefix = None
    <3>1. b.kind = "packet"
      BY <2>2 DEF Line
    <3> QED
      BY <2>2, <3>1, BaseLine
  <2>5. PICK v, u : /\ v = CASE r.target \in {"drop", "reject"} -> "drop"
                             [] r.target = "accept" -> "accept" [] OTHER -> "other"
                    /\ u = IF r.owner = "run" THEN "same" ELSE "absent"
    OBVIOUS
  <2>6. v \in {"accept", "drop", "other"} /\ (v = "drop" <=> r.target \in {"drop", "reject"})
        /\ u \in {"same", "absent"}
    BY <2>5
  <2>7. PICK a : a = [base EXCEPT !.hit = r, !.handle = r.id, !.text = r, !.tuple = u, !.verdict = v]
    OBVIOUS
  <2>8. /\ a \in LineFields /\ a.kind = "rule" /\ a.of = Latest /\ a.chain = Here /\ a.prefix = None
        /\ a.hit = r /\ a.handle = r.id /\ a.text = r /\ a.verdict = v
    <3>1. r.id \in RuleId
      BY <1>1 DEF Rule
    <3> QED
      BY <1>1, <2>3, <2>6, <2>7, <3>1 DEF LineFields
  <2>9. a.of = Latest /\ a.chain = Here /\ LineTrue(a)'
    <3>1. NftLine(a)
      BY <1>1, <2>6, <2>8 DEF NftLine
    <3>2. DropLine(a) => q.fate = "dropped"
      BY <2>8 DEF DropLine
    <3> QED
      BY <2>1, <2>8, <3>1, <3>2, NewLine
  <2>10. b.of = Latest /\ b.chain = Here /\ LineTrue(b)'
    <3>1. NftLine(b) /\ ~DropLine(b)
      BY <2>4 DEF NftLine, DropLine
    <3> QED
      BY <2>1, <2>4, <3>1, NewLine
  <2>11. PICK s : s = Described
    OBVIOUS
  <2>12. s \in {<<>>, <<b>>} /\ (~place.dumped => s = <<b>>)
    BY <2>2, <2>11 DEF Described
  <2>13. PICK t \in {<<>>, <<a>>} : t = <<a>> /\ printed = s \o t
    BY <1>4, <2>2, <2>5, <2>7, <2>11 DEF NftLinesOf, PrintsOf
  <2>14. /\ printed \in Seq(LineFields)
         /\ \A i \in 1..Len(printed) : printed[i] = b \/ printed[i] = a
         /\ printed # <<>> /\ printed[Len(printed)] = a
         /\ s = <<b>> => 1 \in 1..Len(printed) /\ printed[1] = b
    <3>1. a \in LineFields /\ b \in LineFields /\ s \in {<<>>, <<b>>} /\ t \in {<<>>, <<a>>}
      BY <2>4, <2>8, <2>12, <2>13
    <3>2. CASE s = <<b>>
      BY <2>13, <3>1, <3>2
    <3>3. CASE s = <<>>
      BY <2>13, <3>1, <3>3
    <3> QED
      BY <3>1, <3>2, <3>3
  <2>15. AllTrue(printed)' /\ AllHere(printed)
    BY <2>9, <2>10, <2>14 DEF AllTrue, AllHere
  <2>16. q.fate = "dropped" => DropLine(a)
    BY <2>8 DEF DropLine
  <2>17. ~P.traced => printed[1].kind = "packet" /\ 1 \in 1..Len(printed)
    BY <2>4, <2>12, <2>14 DEF PathInv, PlaceInv
  <2> QED
    BY <2>14, <2>15, <2>16, <2>17
<1> QED
  BY <1>3, <1>4

\* iptables: what TRACE and LOG print of a rule.
LEMMA LogPrints ==
  ASSUME PathInv, Moving, UNCHANGED <<hostVars, setupVars, mishapVars>>, backend = "iptables",
         NEW at \in 1..Len(HereRules), NEW r, r = HereRules[at], r.owner = "run" => RunMatches(P),
         NEW q \in Packet, packets' = [packets EXCEPT ![Latest] = q],
         q.about = P.about, q.route = P.route,
         q.traced = (P.traced \/ r.target \in {"trace", "mark"}),
         q.fate = "dropped" <=> r.target \in {"drop", "reject"},
         NEW printed, PrintsOf(printed, r, at)
  PROVE  /\ printed \in Seq(LineFields)
         /\ AllTrue(printed)' /\ AllHere(printed)
         /\ P.traced /\ q.fate = "dropped" => printed # <<>> /\ DropLine(printed[Len(printed)])
         /\ \A i \in 1..Len(printed) : printed[i].kind = "log" =>
              r.owner = "run" /\ r.target = "log" /\ printed[i].hit = r
<1>1. ChainRule(Here, r) /\ r \in Rule /\ (r.owner = "run" => IptPlace(Here, r))
  BY HereFacts, ChainRuleFacts
<1>2. PICK base, lbase, obase : base = Line("rule") /\ lbase = Line("log") /\ obase = Line("other")
  OBVIOUS
<1>3. /\ base \in LineFields /\ base.of = Latest /\ base.chain = Here
      /\ base.prefix = None /\ FlowMatches(base) /\ base.text = NoRule
      /\ lbase \in LineFields /\ lbase.of = Latest /\ lbase.chain = Here
      /\ lbase.prefix = None /\ FlowMatches(lbase) /\ lbase.text = NoRule
      /\ obase \in LineFields /\ obase.of = Latest /\ obase.chain = Here
      /\ obase.prefix = None /\ FlowMatches(obase) /\ obase.text = NoRule
      /\ at \in Nat
  BY HereFacts, <1>2, BaseLine
<1>4. base.kind = "rule" /\ lbase.kind = "log" /\ obase.kind = "other"
  BY <1>2 DEF Line
<1>5. PICK a : a = [base EXCEPT !.hit = r, !.number = at]
  OBVIOUS
<1>6. /\ a \in LineFields /\ a.kind = "rule" /\ a.of = Latest /\ a.chain = Here /\ a.prefix = None
      /\ a.hit = r /\ a.number = at /\ a.text = NoRule /\ FlowMatches(a)
  BY <1>1, <1>3, <1>4, <1>5 DEF LineFields, FlowMatches
<1>7. PICK b : b = IF r.owner = "run" THEN [lbase EXCEPT !.hit = r, !.prefix = Prefix(r.id)]
                   ELSE [obase EXCEPT !.hit = r]
  OBVIOUS
<1>8. /\ b \in LineFields /\ b.of = Latest /\ b.chain = Here /\ b.hit = r
      /\ b.text = NoRule /\ FlowMatches(b)
      /\ r.owner = "run" => b.kind = "log" /\ b.prefix = Prefix(r.id)
      /\ r.owner # "run" => b.kind = "other" /\ b.prefix = None
  <2>1. Prefix(r.id) \in {"IN", "FWD", "POST"}
    BY DEF Prefix
  <2> QED
    BY <1>1, <1>3, <1>4, <1>7, <2>1 DEF LineFields, FlowMatches
<1>9. ASSUME P.traced
      PROVE  a.of = Latest /\ a.chain = Here /\ LineTrue(a)'
  <2>1. ~othersTrace => P.about = "flow"
    BY <1>9, PacketHere DEF PathInv, PacketsInv, TracedInv
  <2>2. DropLine(a) => q.fate = "dropped"
    BY <1>6 DEF DropLine
  <2>3. ASSUME ~changed, packets[a.of].about = "flow"
        PROVE  /\ Fixed(a.chain) /\ a.chain \in DOMAIN ruleset
               /\ a.number \in 1..Len(ruleset[a.chain]) /\ ruleset[a.chain][a.number] = a.hit
    <3>1. Numbered(Here)
      BY <1>6, <1>9, <2>3, PacketHere, HereNumbered
    <3>2. /\ Len(view[Here]) \in Nat /\ Len(ruleset[Here]) \in Nat
          /\ at \in 1..Len(view[Here]) /\ view[Here][at] = r
      BY <3>1, HereFacts DEF Numbered, PathInv, RulesInv
    <3> QED
      BY <1>6, <3>1, <3>2 DEF Numbered
  <2>4. IptLine(a)
    BY <1>1, <1>6, <2>3 DEF IptLine
  <2> QED
    BY <1>6, <1>9, <2>1, <2>2, <2>4, NewLine
<1>10. ASSUME r.target = "log"
       PROVE  b.of = Latest /\ b.chain = Here /\ LineTrue(b)'
  <2>1. IptLine(b) /\ ~DropLine(b)
    BY <1>1, <1>8, <1>10 DEF IptLine, DropLine
  <2>2. b.kind \in {"log", "other"} /\ (b.kind # "other" => P.about = "flow")
    BY <1>8 DEF RunMatches
  <2> QED
    BY <1>8, <2>1, <2>2, NewLine
<1>11. PICK s, t : /\ s = IF P.traced THEN <<a>> ELSE <<>>
                   /\ t = IF r.target = "log" THEN <<b>> ELSE <<>>
  OBVIOUS
<1>12. printed = s \o t
  BY <1>2, <1>5, <1>7, <1>11 DEF LogLinesOf, PrintsOf
<1>13. /\ printed \in Seq(LineFields)
       /\ \A i \in 1..Len(printed) : (printed[i] = a /\ s = <<a>>) \/ (printed[i] = b /\ t = <<b>>)
       /\ s = <<a>> /\ t = <<>> => printed = <<a>> /\ Len(printed) = 1
  BY <1>6, <1>8, <1>11, <1>12, FewLines
<1>14. (s = <<a>> => P.traced) /\ (t = <<b>> => r.target = "log")
  BY <1>11
<1>15. AllTrue(printed)' /\ AllHere(printed)
  BY <1>9, <1>10, <1>13, <1>14 DEF AllTrue, AllHere
<1>16. P.traced /\ q.fate = "dropped" => printed # <<>> /\ DropLine(printed[Len(printed)])
  <2> SUFFICES ASSUME P.traced, q.fate = "dropped"
               PROVE  printed # <<>> /\ DropLine(printed[Len(printed)])
    OBVIOUS
  <2>1. printed = <<a>> /\ Len(printed) = 1
    BY <1>11, <1>13
  <2>2. printed[1] = a /\ printed # <<>>
    BY <2>1
  <2> QED
    BY <1>6, <2>1, <2>2 DEF DropLine
<1> QED
  BY <1>6, <1>8, <1>13, <1>14, <1>15, <1>16

LEMMA HitStep ==
  ASSUME PathInv, Hit
  PROVE  PathInv'
<1>1. Moving /\ UNCHANGED <<hostVars, setupVars, listVars, resultVars, attached, mishapVars>>
  BY DEF Hit
<1>2. PICK at, r, dumped, printed :
        /\ at \in place.at..Len(HereRules)
        /\ r = HereRules[at] /\ dumped = (place.dumped \/ (P.traced \/ r.target = "mark"))
        /\ PrintsOf(printed, r, at)
        /\ r.owner = "run" => RunMatches(P)
        /\ Monitor(printed)
        /\ Moves(at, r, dumped)
  BY DEF Hit, Moves, PrintsOf
<1>3. PICK q \in Packet :
        /\ packets' = [packets EXCEPT ![Latest] = q]
        /\ q.about = P.about /\ q.route = P.route /\ q.watched = P.watched
        /\ q.traced = (P.traced \/ r.target \in {"trace", "mark"})
        /\ TracedInv' /\ PlaceInv'
        /\ q.fate = "dropped" <=> r.target \in {"drop", "reject"}
        /\ r.target \in {"log", "count"} =>
             /\ view' = view /\ place'.at = at + 1 /\ place'.back = place.back
             /\ place'.stop = place.stop /\ q.fate = "moving"
  BY <1>1, <1>2, HitMoves
<1>4. /\ place \in Places /\ place.at > 0 /\ Len(HereRules) \in Nat
      /\ \A k \in 1..Len(HereRules) : ChainRule(Here, HereRules[k])
  BY <1>1, HereFacts
<1>5. at \in 1..Len(HereRules) /\ at \in Nat /\ at >= place.at /\ place.at \in Nat
  <2>1. at \in place.at..Len(HereRules)
    BY <1>2
  <2> QED
    BY <1>4, <2>1 DEF Places
<1>6. backend \in {"nft", "iptables"} /\ P.traced \in BOOLEAN
  BY <1>1, PacketHere DEF PathInv, SetupInv, Packet
<1>7. P.traced => q.traced
  BY <1>3
<1>8. /\ UNCHANGED <<hostVars, setupVars, mishapVars>> /\ q.about = P.about /\ q.route = P.route
      /\ packets' = [packets EXCEPT ![Latest] = q] /\ r = HereRules[at]
      /\ r.owner = "run" => RunMatches(P)
      /\ q.traced = (P.traced \/ r.target \in {"trace", "mark"})
      /\ q.fate = "dropped" <=> r.target \in {"drop", "reject"}
  BY <1>1, <1>2, <1>3
<1>9. ASSUME backend = "nft"
      PROVE  /\ printed \in Seq(LineFields)
             /\ AllTrue(printed)' /\ AllHere(printed)
             /\ q.traced /\ q.fate = "dropped" => printed # <<>> /\ DropLine(printed[Len(printed)])
             /\ q.traced /\ ~P.traced => \E i \in 1..Len(printed) : printed[i].kind = "packet"
  BY <1>1, <1>2, <1>5, <1>8, <1>9, NftPrints
<1>10. ASSUME backend = "iptables"
       PROVE  /\ printed \in Seq(LineFields)
              /\ AllTrue(printed)' /\ AllHere(printed)
              /\ P.traced /\ q.fate = "dropped" =>
                   printed # <<>> /\ DropLine(printed[Len(printed)])
              /\ \A i \in 1..Len(printed) : printed[i].kind = "log" =>
                   r.owner = "run" /\ r.target = "log" /\ printed[i].hit = r
  BY <1>1, <1>2, <1>5, <1>8, <1>10, LogPrints
<1>11. ~Past
  BY <1>4, <1>5 DEF Past
<1>12. ASSUME backend = "iptables", ~changed, NEW i \in 1..Len(printed), printed[i].kind = "log",
              printed[i].hit.id \in {"final_input", "final_postrouting"}
       PROVE  q.fate # "dropped" /\ (Moving' => Past')
  <2>1. r.owner = "run" /\ r.target = "log" /\ r.id \in {"final_input", "final_postrouting"}
    BY <1>10, <1>12
  <2>2. q.fate # "dropped"
    BY <1>3, <2>1
  <2>3. Here \in {"filter_INPUT", "mangle_POSTROUTING"}
    <3>1. IptPlace(Here, r)
      BY <1>2, <1>4, <1>5, <1>12, <2>1, ChainRuleFacts
    <3> QED
      BY <2>1, <3>1, IptPlaceFacts
  <2>4. place.back = 0 /\ Here = Way[P.route][place.stop] /\ HereRules = view[Here]
        /\ Here \in DOMAIN view
    BY <1>1, <2>3, HereFacts DEF User
  <2>5. at = Len(HereRules)
    <3>1. LogIsLast(view)
      BY <1>1, <1>12 DEF PathInv, PlaceInv, RulesInv
    <3>2. at \in 1..Len(view[Here]) /\ view[Here][at] = r
      BY <1>2, <1>5, <2>4
    <3> QED
      BY <2>1, <2>4, <3>1, <3>2 DEF LogIsLast
  <2>6. view' = view /\ place'.at = at + 1 /\ place'.back = 0 /\ place'.stop = place.stop
    BY <1>3, <2>1, <2>4
  <2>7. P' = q
    BY <1>1, <1>3, <1>7, PacketReplaced
  <2>8. Here' = Here
    <3>1. Here' = IF place'.back > 0 THEN User ELSE Way[P'.route][place'.stop]
      BY DEF Here
    <3> QED
      BY <1>3, <2>4, <2>6, <2>7, <3>1
  <2>9. HereRules' = HereRules
    BY <2>6, <2>8 DEF HereRules
  <2> QED
    BY <1>5, <2>2, <2>3, <2>5, <2>6, <2>8, <2>9 DEF Past
<1>13. /\ printed \in Seq(LineFields)
       /\ AllTrue(printed)' /\ AllHere(printed)
  BY <1>6, <1>9, <1>10
<1>14. q.traced /\ q.fate = "dropped" => printed # <<>> /\ DropLine(printed[Len(printed)])
  <2>1. q.fate = "dropped" => q.traced = P.traced
    BY <1>6, <1>8
  <2> QED
    BY <1>6, <1>9, <1>10, <2>1
<1>15. Monitor(printed) /\ q.watched = P.watched /\ TracedInv' /\ PlaceInv'
  BY <1>2, <1>3
\* In a final chain there is only the run's rule, and the packet goes on after it.
<1>16. ASSUME backend = "nft", Here \in {"final_input", "final_postrouting"}
       PROVE  Moving' /\ place'.back = 0 /\ Here' = Here
  <2>1. ChainRule(Here, r) /\ Here \in RunChains
    BY <1>2, <1>4, <1>5, <1>16 DEF RunChains
  <2>2. r = NftRunRule(Here)
    BY <1>16, <2>1, ChainRuleFacts
  <2>3. r.target = "count"
    BY <1>16, <2>2 DEF NftRunRule, RunRule
  <2>4. place.back = 0 /\ Here = Way[P.route][place.stop]
    BY <1>1, <1>16, HereFacts DEF User
  <2>5. place'.back = 0 /\ place'.stop = place.stop /\ q.fate = "moving"
    BY <1>3, <2>3, <2>4
  <2>6. P' = q /\ Moving'
    BY <1>1, <1>3, <1>7, <2>5, PacketReplaced
  <2>7. Here' = IF place'.back > 0 THEN User ELSE Way[P'.route][place'.stop]
    BY DEF Here
  <2> QED
    BY <1>3, <2>4, <2>5, <2>6, <2>7
<1> QED
  BY <1>1, <1>7, <1>8, <1>9, <1>11, <1>12, <1>13, <1>14, <1>15, <1>16, KernelStep

\* No rule of the chain is left.
LEMMA EndLine ==
  ASSUME PathInv, Moving, UNCHANGED <<hostVars, setupVars, mishapVars>>, P.traced,
         NEW q \in Packet, packets' = [packets EXCEPT ![Latest] = q],
         q.about = P.about, q.route = P.route, q.traced = P.traced,
         NEW l, NEW n \in Nat,
         NEW kind \in {"verdict", "return", "policy", "packet"}, NEW base, base = Line(kind),
         kind \in {"verdict", "packet"} => backend = "nft",
         kind = "return" => backend = "iptables",
         kind = "packet" => l = base,
         backend = "nft" /\ kind # "packet" =>
           l = [base EXCEPT !.number = n, !.tuple = "absent"] \/ l = [base EXCEPT !.tuple = "absent"],
         backend # "nft" => l = [base EXCEPT !.number = n]
  PROVE  l \in LineFields /\ l.of = Latest /\ l.chain = Here /\ LineTrue(l)' /\ l.kind # "log"
<1>1. /\ base \in LineFields /\ base.of = Latest /\ base.chain = Here /\ FlowMatches(base)
      /\ base.hit = NoRule /\ base.handle = None /\ base.text = NoRule /\ base.verdict = None
      /\ base.prefix = None
  BY BaseLine
<1>2. base.kind = kind
  BY DEF Line
<1>3. backend \in {"nft", "iptables"}
  BY DEF PathInv, SetupInv
<1>4. l \in LineFields
  <2>1. CASE l = base
    BY <1>1, <2>1
  <2>2. CASE l = [base EXCEPT !.tuple = "absent"]
    BY <1>1, <2>2 DEF LineFields
  <2>3. CASE l = [base EXCEPT !.number = n]
    BY <1>1, <2>3 DEF LineFields
  <2>4. CASE l = [base EXCEPT !.number = n, !.tuple = "absent"]
    BY <1>1, <2>4 DEF LineFields
  <2> QED
    BY <2>1, <2>2, <2>3, <2>4
<1>5. /\ l.kind = kind /\ l.of = Latest /\ l.chain = Here
      /\ l.hit = NoRule /\ l.handle = None /\ l.text = NoRule /\ l.verdict = None
      /\ l.prefix = None /\ (kind = "packet" \/ backend # "nft" => FlowMatches(l))
  BY <1>1, <1>2, <1>3 DEF LineFields, FlowMatches
<1>6. IF backend = "nft" THEN NftLine(l) ELSE IptLine(l)
  BY <1>3, <1>5 DEF NftLine, IptLine
<1>7. ~DropLine(l)
  BY <1>5 DEF DropLine
<1>8. ~othersTrace => P.about = "flow"
  BY PacketHere DEF PathInv, PacketsInv, TracedInv
<1>9. LineTrue(l)'
  BY <1>4, <1>5, <1>6, <1>7, <1>8, NewLine
<1> QED
  BY <1>4, <1>5, <1>9

LEMMA ReturnStep ==
  ASSUME PathInv, ReturnFromUser
  PROVE  PathInv'
<1>1. /\ Moving /\ place.back > 0
      /\ UNCHANGED <<hostVars, setupVars, listVars, resultVars, attached, mishapVars>>
      /\ UNCHANGED <<hostVars, setupVars, mishapVars>>
      /\ GoTo(place.back, 0, place.dumped, P)
  BY DEF ReturnFromUser
<1>2. P \in Packet /\ P.fate = "moving" /\ P.traced \in BOOLEAN
  BY <1>1, PacketHere DEF Packet
<1>3. /\ place.back \in Nat \ {0} /\ place.dumped \in BOOLEAN /\ (place.dumped => P.traced)
      /\ Len(HereRules) + 1 \in Nat
  BY <1>1, HereFacts DEF PathInv, PlaceInv, Places
<1>4. P.traced /\ P.about = "flow" /\ backend = "iptables" /\ ~changed =>
        Numbered(Way[P.route][place.stop])
  BY <1>1 DEF PathInv, PlaceInv, ViewInv
<1>5. PlaceInv' /\ packets' = [packets EXCEPT ![Latest] = P]
  BY <1>1, <1>2, <1>3, <1>4, GoPlace
<1>6. TracedInv'
  BY <1>1, <1>2, <1>5, TracedSame
<1>7. PICK l, n : /\ n = Len(HereRules) + 1
                  /\ l = [Line(IF backend = "nft" THEN "verdict" ELSE "return")
                          EXCEPT !.number = n, !.tuple = IF backend = "nft" THEN "absent" ELSE @]
  OBVIOUS
<1>8. PICK printed : Monitor(printed) /\ printed = IF P.traced THEN <<l>> ELSE <<>>
  BY <1>7 DEF ReturnFromUser
<1>9. backend \in {"nft", "iptables"}
  BY DEF PathInv, SetupInv
<1>10. ASSUME P.traced
       PROVE  l \in LineFields /\ l.of = Latest /\ l.chain = Here /\ LineTrue(l)' /\ l.kind # "log"
  <2>1. PICK kind, base : kind = (IF backend = "nft" THEN "verdict" ELSE "return")
                          /\ base = Line(kind)
    OBVIOUS
  <2>2. /\ kind \in {"verdict", "return", "policy", "packet"}
        /\ kind \in {"verdict", "packet"} => backend = "nft"
        /\ kind = "return" => backend = "iptables"
        /\ kind # "packet"
    BY <1>9, <2>1
  <2>3. /\ backend = "nft" => l = [base EXCEPT !.number = n, !.tuple = "absent"]
        /\ backend # "nft" => l = [base EXCEPT !.number = n]
    <3>1. base \in LineFields
      BY <1>1, <2>1, <2>2, BaseLine
    <3>2. backend # "nft" => l = [base EXCEPT !.number = n, !.tuple = @]
      BY <1>7, <2>1
    <3>3. [base EXCEPT !.number = n, !.tuple = @] = [base EXCEPT !.number = n]
      BY <3>1 DEF LineFields
    <3>4. backend = "nft" => l = [base EXCEPT !.number = n, !.tuple = "absent"]
      BY <1>7, <2>1
    <3> QED
      BY <3>2, <3>3, <3>4
  <2>4. n \in Nat
    BY <1>3, <1>7
  <2> QED
    BY <1>1, <1>2, <1>5, <1>10, <2>1, <2>2, <2>3, <2>4, EndLine
<1>11. /\ printed \in Seq(LineFields)
       /\ \A i \in 1..Len(printed) : P.traced /\ printed[i] = l
  <2>1. CASE P.traced
    <3>1. printed = <<l>>
      BY <1>8, <2>1
    <3> QED
      BY <1>10, <2>1, <3>1
  <2>2. CASE ~P.traced
    <3>1. printed = <<>>
      BY <1>8, <2>2
    <3> QED
      BY <3>1
  <2> QED
    BY <2>1, <2>2
<1>12. AllTrue(printed)' /\ AllHere(printed)
      /\ \A i \in 1..Len(printed) : printed[i].kind # "log"
  BY <1>10, <1>11 DEF AllTrue, AllHere
<1>13. ~Past /\ Here \notin {"final_input", "final_postrouting"}
  BY <1>1, <1>3 DEF Past, Here, User
<1> QED
  BY <1>1, <1>2, <1>5, <1>6, <1>8, <1>11, <1>12, <1>13, KernelStep

LEMMA PolicyStep ==
  ASSUME PathInv, MeetPolicy
  PROVE  PathInv'
<1>1. /\ Moving
      /\ UNCHANGED <<hostVars, setupVars, listVars, resultVars, attached, mishapVars>>
      /\ UNCHANGED <<hostVars, setupVars, mishapVars>>
      /\ (EndAs("policy", P) /\ Here \in dropPolicy) \/ EnterFrom(place.stop + 1, P)
  BY DEF MeetPolicy
<1>2. P \in Packet /\ P.fate = "moving" /\ P.traced \in BOOLEAN
      /\ backend \in {"nft", "iptables"}
  BY <1>1, PacketHere DEF Packet, PathInv, SetupInv
<1>3. PICK fate, q :
        /\ fate \in {"policy", "moving", "through"} /\ q = [P EXCEPT !.fate = fate] /\ q \in Packet /\ PlaceInv'
        /\ packets' = [packets EXCEPT ![Latest] = q]
        /\ backend = "iptables" /\ Past => fate \in {"policy", "through"}
        /\ Here \in {"final_input", "final_postrouting"} => fate = "through"
  <2>1. PICK fate \in {"policy", "moving", "through"} :
          /\ PlaceInv' /\ [P EXCEPT !.fate = fate] \in Packet
          /\ packets' = [packets EXCEPT ![Latest] = [P EXCEPT !.fate = fate]]
          /\ backend = "iptables" /\ Past => fate \in {"policy", "through"}
          /\ Here \in {"final_input", "final_postrouting"} => fate = "through"
    <3>1. CASE EndAs("policy", P) /\ Here \in dropPolicy
      <4>1. Here \in BuiltIn
        BY <3>1, HostAssumption DEF PathInv, SetupInv
      <4>2. Here \notin {"final_input", "final_postrouting"}
        BY <4>1 DEF BuiltIn
      <4> QED
        BY <1>1, <3>1, <4>2, EndPlace DEF Fates
    <3>2. CASE EnterFrom(place.stop + 1, P)
      BY <1>1, <3>2, EnterPlace
    <3> QED
      BY <1>1, <3>1, <3>2
  <2>2. PICK q : q = [P EXCEPT !.fate = fate]
    OBVIOUS
  <2> QED
    BY <2>1, <2>2
<1>4. q.about = P.about /\ q.route = P.route /\ q.watched = P.watched /\ q.traced = P.traced
      /\ q.fate = fate /\ q.fate # "dropped"
  BY <1>2, <1>3 DEF Packet
<1>5. TracedInv'
  BY <1>1, <1>3, <1>4, TracedSame
<1>6. backend = "iptables" /\ Past => ~Moving'
  BY <1>1, <1>3, <1>4, PacketReplaced
<1>7. PICK base, b, n, l :
        /\ base = Line("policy") /\ b = Line("packet") /\ n = Len(HereRules) + 1
        /\ l = IF backend = "nft" THEN [base EXCEPT !.tuple = "absent"]
               ELSE [base EXCEPT !.number = n]
  OBVIOUS
<1>8. n \in Nat
  BY <1>1, <1>7, HereFacts
<1>9. ASSUME P.traced
      PROVE  l \in LineFields /\ l.of = Latest /\ l.chain = Here /\ LineTrue(l)' /\ l.kind # "log"
  <2>1. /\ backend = "nft" => l = [base EXCEPT !.tuple = "absent"]
        /\ backend # "nft" => l = [base EXCEPT !.number = n]
    BY <1>7
  <2> QED
    BY <1>1, <1>3, <1>4, <1>7, <1>8, <1>9, <2>1, EndLine
<1>10. ASSUME P.traced, backend = "nft"
       PROVE  b \in LineFields /\ b.of = Latest /\ b.chain = Here /\ LineTrue(b)' /\ b.kind # "log"
  BY <1>1, <1>3, <1>4, <1>7, <1>8, <1>10, EndLine
<1>11. PICK printed :
         /\ Monitor(printed)
         /\ printed = IF ~P.traced THEN <<>>
                      ELSE IF backend = "nft"
                      THEN (IF place.dumped THEN <<>> ELSE <<b>>) \o <<l>>
                      ELSE <<l>>
  BY <1>7 DEF MeetPolicy, Described
<1>12. /\ printed \in Seq(LineFields)
       /\ \A i \in 1..Len(printed) :
            P.traced /\ (printed[i] = l \/ (printed[i] = b /\ backend = "nft"))
  <2>1. CASE ~P.traced
    <3>1. printed = <<>>
      BY <1>11, <2>1
    <3> QED
      BY <3>1
  <2>2. CASE P.traced /\ (backend # "nft" \/ place.dumped)
    <3>1. printed = <<l>> \/ printed = <<>> \o <<l>>
      BY <1>11, <2>2
    <3>2. l \in LineFields
      BY <1>9, <2>2
    <3>3. printed = <<l>>
      BY <3>1, <3>2
    <3> QED
      BY <2>2, <3>2, <3>3
  <2>3. CASE P.traced /\ backend = "nft" /\ ~place.dumped
    <3>1. printed = <<b>> \o <<l>>
      BY <1>11, <2>3
    <3>2. l \in LineFields /\ b \in LineFields
      BY <1>9, <1>10, <2>3
    <3> QED
      BY <2>3, <3>1, <3>2
  <2> QED
    BY <2>1, <2>2, <2>3
<1>13. AllTrue(printed)' /\ AllHere(printed)
      /\ \A i \in 1..Len(printed) : printed[i].kind # "log"
  BY <1>9, <1>10, <1>12 DEF AllTrue, AllHere
<1>14. Here \in {"final_input", "final_postrouting"} => q.fate = "through"
  BY <1>3, <1>4
<1> QED
  BY <1>1, <1>3, <1>4, <1>5, <1>6, <1>11, <1>12, <1>13, <1>14, KernelStep

----------------------------------------------------------------------------
(* A line becomes an event.                                                *)

\* The chain of a line tells of the way of its packet.
LEMMA LineChain ==
  ASSUME PathInv, NEW l, LineTrue(l)
  PROVE  /\ l.chain \in {"mangle_INPUT", "filter_INPUT", "final_input"} =>
              packets[l.of].route = "input"
         /\ l.chain \in {"mangle_POSTROUTING", "final_postrouting"} =>
              packets[l.of].route # "input"
<1>1. packets[l.of] \in Packet /\ OnWay(l.chain, packets[l.of].route)
  BY DEF PathInv, PacketsInv, LineTrue
<1>2. packets[l.of].route \in DOMAIN Way
  BY <1>1 DEF Packet
<1>3. l.chain # User => \E s \in DOMAIN Way[packets[l.of].route] :
                            l.chain = Way[packets[l.of].route][s]
  BY <1>1 DEF OnWay
<1> QED
  BY <1>2, <1>3, WayTells DEF User

\* nft: the rule of an event is the one its packet hit.
LEMMA NftRuleFound ==
  ASSUME PathInv, backend = "nft", NEW l, LineTrue(l), NEW rule,
         rule = ParseNftLine(l, rules).rule
  PROVE  rule = l.hit /\ rule \in Rule \cup {NoRule} /\ (l.kind = "rule" <=> rule # NoRule)
<1>1. NftLine(l)
  BY DEF LineTrue
<1>2. PICK key : key = <<l.chain, l.handle>>
  OBVIOUS
<1>3. PICK found : found = LookUp(rules, key)
  OBVIOUS
<1>4. rule = IF found = NoRule /\ l.kind = "rule" THEN l.text ELSE found
  BY <1>2, <1>3 DEF ParseNftLine, Event
<1>5. \/ found = NoRule
      \/ found \in Rule /\ found.id = l.handle /\ ChainRule(l.chain, found)
  BY <1>2, <1>3 DEF LookUp, PathInv, ListInv
<1>6. NoRule \notin Rule /\ None \notin RuleId /\ \A r \in Rule : r.id \in RuleId
  BY PathAssumption DEF NoRule, Rule, None
<1>7. CASE l.kind = "rule"
  <2>1. ChainRule(l.chain, l.hit) /\ l.handle = l.hit.id /\ l.text = l.hit
    BY <1>1, <1>7 DEF NftLine
  <2>2. l.hit \in Rule /\ l.hit # NoRule
    BY <2>1, ChainRuleFacts
  <2>3. found # NoRule => found = l.hit
    BY <1>5, <2>1, OneRule
  <2> QED
    BY <1>4, <1>7, <2>1, <2>2, <2>3
<1>8. CASE l.kind # "rule"
  <2>1. l.hit = NoRule /\ l.handle = None
    BY <1>1, <1>8 DEF NftLine
  <2>2. found = NoRule
    BY <1>5, <1>6, <2>1
  <2> QED
    BY <1>4, <1>8, <2>1, <2>2
<1> QED
  BY <1>7, <1>8

\* iptables: so it is when the numbers of the listing still hold; if the listing was cut
\* off there may be none.
LEMMA LogRuleFound ==
  ASSUME PathInv, backend = "iptables", NEW l, LineTrue(l), NEW rule,
         rule = ParseLogLine(l, rules).rule
  PROVE  /\ rule \in Rule \cup {NoRule}
         /\ l.kind # "rule" => rule = NoRule
         /\ l.kind = "rule" => l.hit # NoRule
         /\ ~changed /\ packets[l.of].about = "flow" /\ l.kind = "rule" =>
              rule = l.hit \/ (rule = NoRule /\ ~listed)
<1>1. IptLine(l)
  BY DEF LineTrue
<1>2. PICK key : key = <<l.chain, l.number>>
  OBVIOUS
<1>3. rule = IF l.kind = "rule" THEN LookUp(rules, key) ELSE NoRule
  BY <1>2 DEF ParseLogLine, Event
<1>4. LookUp(rules, key) \in Rule \cup {NoRule}
  BY DEF LookUp, PathInv, ListInv
<1>5. l.kind = "rule" => l.hit # NoRule
  BY <1>1, ChainRuleFacts DEF IptLine
<1>6. ASSUME ~changed, packets[l.of].about = "flow", l.kind = "rule"
      PROVE  rule = l.hit \/ (rule = NoRule /\ ~listed)
  <2>1. /\ l.chain \in DOMAIN ruleset /\ l.number \in 1..Len(ruleset[l.chain])
        /\ ruleset[l.chain][l.number] = l.hit
    BY <1>1, <1>6 DEF IptLine
  <2>2. l.number \in DOMAIN ruleset[l.chain]
    BY <2>1 DEF PathInv, RulesInv
  <2>3. key \in Positions(ruleset) /\ key[1] = l.chain /\ key[2] = l.number
    BY <1>2, <2>1, <2>2, SaveListing
  <2>4. CASE key \in DOMAIN rules
    <3>1. rules[key] = ruleset[key[1]][key[2]]
      BY <1>6, <2>4 DEF PathInv, ListInv, KeyTrue
    <3>2. rule = rules[key]
      BY <1>3, <1>6, <2>4 DEF LookUp
    <3> QED
      BY <2>1, <2>3, <3>1, <3>2
  <2>5. CASE key \notin DOMAIN rules
    <3>1. rule = NoRule
      BY <1>3, <1>6, <2>5 DEF LookUp
    <3>2. ~listed
      <4>1. listed => rules = ParseSave(ruleset)
        BY <1>6 DEF PathInv, ListInv
      <4>2. DOMAIN ParseSave(ruleset) = Positions(ruleset)
        BY SaveListing
      <4> QED
        BY <2>3, <2>5, <4>1, <4>2
    <3> QED
      BY <3>1, <3>2
  <2> QED
    BY <2>4, <2>5
<1> QED
  BY <1>3, <1>4, <1>5, <1>6

\* annotateRuleOrigin, of a line whose rule was found.
LEMMA OriginTells ==
  ASSUME PathInv, NEW l, LineTrue(l), l.kind # "other", NEW rule, NEW chain,
         backend = "nft" => rule = l.hit /\ chain = l.chain,
         backend = "iptables" =>
           /\ l.kind # "log" => chain = l.chain
           /\ l.kind = "rule" => rule = l.hit
           /\ l.kind # "rule" => rule = NoRule
  PROVE  LET own    == l.hit.owner = "run" \/ l.chain \in RunChains
             origin == Origin(l, l.kind, rule, chain)
         IN  /\ origin = "temporary" <=> own
             /\ origin = "system" => l.kind \in {"rule", "verdict"}
             /\ l.kind = "rule" /\ ~own => origin = "system"
<1>1. backend \in {"nft", "iptables"}
  BY DEF PathInv, SetupInv
<1>2. NoRule.owner = None /\ None # "run"
  BY DEF NoRule, None
<1> DEFINE origin == Origin(l, l.kind, rule, chain)
<1>3. /\ origin = "temporary" <=> OursByName(l) \/ rule.owner = "run" \/ chain \in RunChains
      /\ origin = "system" => rule # NoRule \/ l.kind \in {"rule", "verdict"}
      /\ l.kind = "rule" => origin \in {"temporary", "system"}
  BY DEF Origin, None
<1> HIDE DEF origin
<1>4. CASE backend = "nft"
  <2>1. NftLine(l) /\ rule = l.hit /\ chain = l.chain
    BY <1>4 DEF LineTrue
  <2>2. OursByName(l) => l.hit.owner = "run"
    BY <1>2, <2>1 DEF NftLine, OursByName
  <2>3. rule # NoRule => l.kind = "rule"
    BY <2>1 DEF NftLine
  <2> QED
    BY <1>3, <2>1, <2>2, <2>3 DEF origin
<1>5. CASE backend = "iptables"
  <2>1. IptLine(l)
    BY <1>5 DEF LineTrue
  <2>2. CASE l.kind = "log"
    <3>1. l.hit.owner = "run" /\ l.prefix # None
      BY <2>1, <2>2 DEF IptLine, Prefix, None
    <3>2. OursByName(l) /\ rule = NoRule
      BY <1>5, <2>2, <3>1 DEF OursByName
    <3> QED
      BY <1>3, <2>2, <3>1, <3>2 DEF origin
  <2>3. CASE l.kind # "log"
    <3>1. l.prefix = None /\ l.text = NoRule
      BY <2>1, <2>3 DEF IptLine
    <3>2. ~OursByName(l) /\ chain = l.chain
      BY <1>2, <1>5, <2>3, <3>1 DEF OursByName
    <3>3. rule = l.hit
      BY <1>5, <2>1, <2>3 DEF IptLine
    <3> QED
      BY <1>3, <1>5, <3>2, <3>3 DEF origin
  <2> QED
    BY <2>2, <2>3
<1> QED
  BY <1>1, <1>4, <1>5

\* The parsers of the two backends, and what decides whether a line is an event.
Parsed(l)   == IF backend = "nft" THEN NftParsed(l) ELSE LogParsed(l)
Relevant(l) == IF backend = "nft" THEN NftRelevant(l) ELSE LogRelevant(l)
EventOf(l)  == IF backend = "nft" THEN ParseNftLine(l, rules) ELSE ParseLogLine(l, rules)

\* What the run says of the line can be held against what happened.
Clear(l) == Readable /\ (backend = "nft" \/ packets[l.of].about = "flow")

LEMMA EventParts ==
  ASSUME NEW l, NEW kind, NEW rule, NEW verdict, NEW hint, NEW chain
  PROVE  LET ev == Event(l, kind, rule, verdict, hint, chain)
         IN  /\ ev.raw = l /\ ev.kind = kind /\ ev.rule = rule /\ ev.verdict = verdict
             /\ ev.hint = hint /\ ev.origin = Origin(l, kind, rule, chain)
             /\ ev.chain = "INPUT" <=> chain \in {"mangle_INPUT", "filter_INPUT"}
  BY DEF Event

\* The marks of the run in what nft prints of a line's chain and rule.
MarksOf(l) == Marks(l.chain) \cup Marks(l.hit.id)

\* The event of nft in terms of its line.
LEMMA NftEvent ==
  ASSUME PathInv, backend = "nft", NEW l, LineTrue(l), NEW ev, ev = EventOf(l)
  PROVE  /\ ev.raw = l /\ ev.kind = l.kind /\ ev.rule = l.hit /\ ev.verdict = l.verdict
         /\ ev.hint = FinalHint(MarksOf(l)) /\ l.hit \in Rule \cup {NoRule}
         /\ ev.origin = Origin(l, l.kind, l.hit, l.chain)
<1>1. PICK rule : rule = ParseNftLine(l, rules).rule
  OBVIOUS
<1>2. rule = l.hit /\ rule \in Rule \cup {NoRule}
  BY <1>1, NftRuleFound
<1>3. PICK r : ParseNftLine(l, rules) =
                 Event(l, l.kind, r, l.verdict,
                       FinalHint(Marks(l.chain) \cup Marks(r.id) \cup Marks(l.text.id)), l.chain)
  BY DEF ParseNftLine
<1>4. r = rule
  BY <1>1, <1>3, EventParts
<1>5. l.text = l.hit
  BY DEF LineTrue, NftLine
<1>6. Marks(l.chain) \cup Marks(r.id) \cup Marks(l.text.id) = Marks(l.chain) \cup Marks(l.hit.id)
  BY <1>2, <1>4, <1>5
<1>7. ev = Event(l, l.kind, r, l.verdict, FinalHint(MarksOf(l)), l.chain)
  BY <1>3, <1>6 DEF EventOf, MarksOf
<1> QED
  BY <1>2, <1>4, <1>7, EventParts

\* The event of iptables in terms of its line.
LEMMA LogEvent ==
  ASSUME PathInv, backend = "iptables", NEW l, LineTrue(l), NEW ev, ev = EventOf(l)
  PROVE  /\ ev.raw = l /\ ev.kind = l.kind /\ ev.rule \in Rule \cup {NoRule}
         /\ l.kind = "log" =>
              /\ ev.rule = NoRule /\ ev.verdict = None /\ ev.hint = LogHint(l)
              /\ ev.chain # "INPUT" /\ ev.origin = Origin(l, "log", NoRule, None)
         /\ l.kind # "log" =>
              /\ ev.verdict = LogVerdict(l.kind, ev.rule) /\ ev.hint = None
              /\ ev.chain = "INPUT" <=> l.chain \in {"mangle_INPUT", "filter_INPUT"}
              /\ ev.origin = Origin(l, l.kind, ev.rule, l.chain)
         /\ l.kind # "rule" => ev.rule = NoRule
         /\ Clear(l) /\ l.kind = "rule" => ev.rule = l.hit /\ ev.rule # NoRule
         /\ ~changed /\ packets[l.of].about = "flow" /\ l.kind = "rule" =>
              ev.rule = l.hit \/ (ev.rule = NoRule /\ ~listed)
<1>1. ev = ParseLogLine(l, rules)
  BY DEF EventOf
<1>2. PICK rule : rule = ParseLogLine(l, rules).rule
  OBVIOUS
<1>3. /\ rule \in Rule \cup {NoRule}
      /\ l.kind # "rule" => rule = NoRule
      /\ l.kind = "rule" => l.hit # NoRule
      /\ ~changed /\ packets[l.of].about = "flow" /\ l.kind = "rule" =>
           rule = l.hit \/ (rule = NoRule /\ ~listed)
  BY <1>2, LogRuleFound
<1>4. CASE l.kind = "log"
  <2>1. ev = Event(l, "log", NoRule, None, LogHint(l), None)
    BY <1>1, <1>4 DEF ParseLogLine
  <2>2. None \notin {"mangle_INPUT", "filter_INPUT"}
    BY DEF None
  <2> QED
    BY <1>4, <2>1, <2>2, EventParts
<1>5. CASE l.kind # "log"
  <2>1. PICK r : ev = Event(l, l.kind, r, LogVerdict(l.kind, r), None, l.chain)
    BY <1>1, <1>5 DEF ParseLogLine
  <2>2. r = rule /\ ev.rule = rule
    BY <1>1, <1>2, <2>1, EventParts
  <2>3. Clear(l) => listed /\ ~changed /\ packets[l.of].about = "flow"
    BY DEF Clear, Readable
  <2> QED
    BY <1>3, <1>5, <2>1, <2>2, <2>3, EventParts
<1> QED
  BY <1>4, <1>5

\* The kinds of lines that become events, and what an event is.
LEMMA EventType ==
  ASSUME PathInv, NEW l, LineTrue(l), Parsed(l), NEW ev, ev = EventOf(l)
  PROVE  /\ l.kind \in {"packet", "rule", "verdict", "policy", "return", "log"}
         /\ ev.raw = l /\ ev.kind = l.kind /\ ev # NoEvent
         /\ ev.rule \in Rule \cup {NoRule}
         /\ ev.origin \in {"temporary", "policy", "system", None}
<1>1. backend \in {"nft", "iptables"}
  BY DEF PathInv, SetupInv
<1>2. l.kind \in {"packet", "rule", "verdict", "policy", "return", "log"}
  BY <1>1 DEF Parsed, NftParsed, LogParsed
<1>3. \A kind, rule, chain : Origin(l, kind, rule, chain) \in {"temporary", "policy", "system", None}
  BY DEF Origin
<1>4. /\ ev.raw = l /\ ev.kind = l.kind /\ ev.rule \in Rule \cup {NoRule}
      /\ ev.origin \in {"temporary", "policy", "system", None}
  <2>1. CASE backend = "nft"
    BY <1>3, <2>1, NftEvent
  <2>2. CASE backend = "iptables"
    BY <1>3, <2>2, LogEvent
  <2> QED
    BY <1>1, <2>1, <2>2
<1>5. ev # NoEvent
  BY <1>2, <1>4 DEF NoEvent, None
<1> QED
  BY <1>2, <1>4, <1>5

\* The rule and the origin of an event are those of its line.
LEMMA EventTells ==
  ASSUME PathInv, NEW l, LineTrue(l), Parsed(l), Clear(l), NEW ev, ev = EventOf(l)
  PROVE  LET own == l.hit.owner = "run" \/ l.chain \in RunChains
         IN  /\ l.kind = "rule" => ev.rule = l.hit
             /\ ev.origin = "temporary" <=> own
             /\ ev.origin = "system" => l.kind \in {"rule", "verdict"}
             /\ l.kind = "rule" /\ ~own => ev.origin = "system"
<1>1. backend \in {"nft", "iptables"} /\ l.kind # "other"
  BY DEF PathInv, SetupInv, Parsed, NftParsed, LogParsed
<1>2. CASE backend = "nft"
  BY <1>1, <1>2, NftEvent, OriginTells
<1>3. CASE backend = "iptables"
  <2>1. PICK rule, chain :
          rule = ev.rule /\ chain = IF l.kind = "log" THEN None ELSE l.chain
    OBVIOUS
  <2>2. /\ ev.origin = Origin(l, l.kind, rule, chain)
        /\ l.kind = "rule" => rule = l.hit
        /\ l.kind # "rule" => rule = NoRule
        /\ l.kind # "log" => chain = l.chain
    BY <1>3, <2>1, LogEvent
  <2> QED
    BY <1>1, <1>3, <2>1, <2>2, OriginTells
<1> QED
  BY <1>1, <1>2, <1>3

\* An event has the verdict of a drop just if its line is that of a rule that drops.
LEMMA VerdictTells ==
  ASSUME PathInv, NEW l, LineTrue(l), Parsed(l), Clear(l), NEW ev, ev = EventOf(l)
  PROVE  ev.verdict \in {"drop", "reject"} <=> DropLine(l)
<1>1. backend \in {"nft", "iptables"} /\ None \notin {"drop", "reject"}
  BY DEF PathInv, SetupInv, None
<1>2. CASE backend = "nft"
  <2>1. NftLine(l) /\ ev.verdict = l.verdict
    BY <1>2, NftEvent DEF LineTrue
  <2> QED
    BY <1>1, <2>1 DEF NftLine, DropLine
<1>3. CASE backend = "iptables"
  <2>1. CASE l.kind = "rule"
    <3>1. ev.rule = l.hit /\ ev.rule # NoRule /\ ev.verdict = LogVerdict("rule", ev.rule)
      BY <1>3, <2>1, LogEvent
    <3> QED
      BY <1>1, <2>1, <3>1 DEF LogVerdict, DropLine
  <2>2. CASE l.kind # "rule"
    <3>1. ev.rule = NoRule /\ (ev.verdict = None \/ ev.verdict = LogVerdict(l.kind, NoRule))
      BY <1>3, <2>2, LogEvent
    <3> QED
      BY <1>1, <2>2, <3>1 DEF LogVerdict, DropLine
  <2> QED
    BY <2>1, <2>2
<1> QED
  BY <1>1, <1>2, <1>3

\* The line of a final LOG rule that the listing of iptables tells by its prefix.
FinalLog(l) == backend = "iptables" /\ l.kind = "log" /\ l.hit.id \in {"final_input", "final_postrouting"}

\* The run's own chains give the hints they are made for.
LEMMA RunMarks ==
  ASSUME NEW name \in RunChains
  PROVE  /\ FinalHint(Marks(name)) = "input" => name = "final_input"
         /\ FinalHint(Marks(name)) = "postrouting" => name = "final_postrouting"
<1>1. CASE name = "final_input"
  <2>1. Marks(name) = {"final_input", ":final-input"}
    BY <1>1 DEF Marks
  <2> QED
    BY <1>1, <2>1 DEF FinalHint
<1>2. CASE name = "final_forward"
  <2>1. Marks(name) = {"final_forward", ":final-forward"}
    BY <1>2 DEF Marks
  <2> QED
    BY <1>2, <2>1 DEF FinalHint
<1>3. CASE name = "final_postrouting"
  <2>1. Marks(name) = {"final_postrouting", ":final-postrouting"}
    BY <1>3 DEF Marks
  <2> QED
    BY <1>3, <2>1 DEF FinalHint
<1>4. CASE name \in {"trace_prerouting", "trace_output"}
  <2>1. name \notin DOMAIN Prints
    BY PathAssumption
  <2>2. Marks(name) = {}
    BY <1>4, <2>1 DEF Marks
  <2> QED
    BY <2>2 DEF FinalHint, None
<1> QED
  BY <1>1, <1>2, <1>3, <1>4 DEF RunChains

\* What the hint of an event says of its packet, if no name of the host misleads it.
LEMMA HintTells ==
  ASSUME PathInv, NoNamesake, NEW l, LineTrue(l), Parsed(l), NEW ev, ev = EventOf(l)
  PROVE  /\ ev.hint = "input" => packets[l.of].route = "input"
         /\ ev.hint = "postrouting" => packets[l.of].route # "input"
         /\ ev.hint \in {"input", "postrouting"} =>
              IF backend = "nft" THEN l.chain \in {"final_input", "final_postrouting"}
              ELSE FinalLog(l)
<1>1. /\ backend \in {"nft", "iptables"} /\ None \notin {"input", "postrouting"}
      /\ None \notin {"final_input", "final_postrouting", "final_forward"}
  BY DEF PathInv, SetupInv, None
<1>2. CASE backend = "nft"
  <2>1. NftLine(l) /\ ev.hint = FinalHint(MarksOf(l)) /\ l.chain \in Chain
    BY <1>2, NftEvent DEF LineTrue, LineFields
  <2>2. \/ l.hit = NoRule
        \/ l.hit \in HostRules /\ l.chain \notin RunChains
        \/ l.chain \in RunChains /\ l.hit.id = l.chain
    <3>1. CASE l.kind = "rule"
      <4>1. ChainRule(l.chain, l.hit)
        BY <2>1, <3>1 DEF NftLine
      <4> QED
        BY <1>2, <4>1, ChainRuleFacts
    <3>2. CASE l.kind # "rule"
      BY <2>1, <3>2 DEF NftLine
    <3> QED
      BY <3>1, <3>2
  <2>3. Marks(NoRule.id) = {}
    <3>1. NoRule.id = None /\ None \notin DOMAIN Prints
      BY PathAssumption DEF NoRule
    <3> QED
      BY <1>1, <3>1 DEF Marks
  <2>4. /\ l.chain \notin RunChains => Marks(l.chain) = {}
        /\ l.hit \in HostRules => Marks(l.hit.id) = {}
    BY <2>1 DEF NoNamesake
  <2>5. CASE l.chain \notin RunChains
    <3>1. MarksOf(l) = {}
      BY <2>2, <2>3, <2>4, <2>5 DEF MarksOf
    <3>2. FinalHint({}) = None
      BY DEF FinalHint
    <3> QED
      BY <1>1, <2>1, <3>1, <3>2
  <2>6. CASE l.chain \in RunChains
    <3>1. MarksOf(l) = Marks(l.chain)
      BY <2>2, <2>3, <2>4, <2>6 DEF MarksOf
    <3>2. /\ ev.hint = "input" => l.chain = "final_input"
          /\ ev.hint = "postrouting" => l.chain = "final_postrouting"
      BY <2>1, <2>6, <3>1, RunMarks
    <3> QED
      BY <1>2, <3>2, LineChain
  <2> QED
    BY <2>5, <2>6
<1>3. CASE backend = "iptables"
  <2>1. CASE l.kind = "log"
    <3>1. ev.hint = LogHint(l) /\ IptPlace(l.chain, l.hit) /\ l.hit.target = "log"
          /\ l.prefix = Prefix(l.hit.id)
      BY <1>3, <2>1, LogEvent DEF LineTrue, IptLine
    <3>2. \/ l.hit.id = "final_input" /\ l.chain = "filter_INPUT"
          \/ l.hit.id = "final_forward"
          \/ l.hit.id = "final_postrouting" /\ l.chain = "mangle_POSTROUTING"
      BY <3>1 DEF IptPlace, RunRule
    <3>3. /\ l.hit.id = "final_input" => ev.hint = "input"
          /\ l.hit.id = "final_forward" => ev.hint = "forward"
          /\ l.hit.id = "final_postrouting" => ev.hint = "postrouting"
      <4>1. /\ Prefix("final_input") = "IN" /\ Prefix("final_forward") = "FWD"
            /\ Prefix("final_postrouting") = "POST"
        BY DEF Prefix
      <4>2. /\ l.prefix = "IN" => ev.hint = "input"
            /\ l.prefix = "FWD" => ev.hint = "forward"
            /\ l.prefix = "POST" => ev.hint = "postrouting"
        BY <3>1 DEF LogHint
      <4> QED
        BY <3>1, <4>1, <4>2
    <3>4. /\ ev.hint = "input" => l.hit.id = "final_input" /\ l.chain = "filter_INPUT"
          /\ ev.hint = "postrouting" =>
               l.hit.id = "final_postrouting" /\ l.chain = "mangle_POSTROUTING"
      BY <3>2, <3>3
    <3> QED
      BY <1>3, <2>1, <3>4, LineChain DEF FinalLog
  <2>2. CASE l.kind # "log"
    BY <1>1, <1>3, <2>2, LogEvent
  <2> QED
    BY <2>1, <2>2
<1> QED
  BY <1>1, <1>2, <1>3

\* The outcome after an event, each case on its own.
LEMMA OutcomeCases ==
  ASSUME NEW b, NEW o \in Outcomes, NEW ev, NEW new, new = OutcomeAfter(b, o, ev)
  PROVE  /\ new \in Outcomes
         /\ ev.verdict \in {"drop", "reject"} => new \in {"drop", "reject"}
         /\ new \in {"drop", "reject"} => ev.verdict \in {"drop", "reject"} \/ new = o
         /\ new = "local" =>
              \/ ev.verdict = "accept" /\ b = "iptables" /\ ev.chain = "INPUT"
              \/ ev.verdict \notin {"drop", "reject"} /\ ev.hint = "input"
              \/ ev.verdict \notin {"drop", "reject"} /\ new = o
         /\ new = "egress" =>
              \/ ev.verdict \notin {"drop", "reject"} /\ ev.hint = "postrouting"
              \/ ev.verdict \notin {"drop", "reject"} /\ new = o
<1>1. CASE ev.verdict \in {"drop", "reject"}
  <2>1. new = ev.verdict
    BY <1>1 DEF OutcomeAfter
  <2> QED
    BY <1>1, <2>1 DEF Outcomes
<1>2. CASE ev.verdict \notin {"drop", "reject"} /\ ev.verdict = "accept" /\ b = "iptables"
           /\ ev.chain = "INPUT"
  <2>1. new = "local"
    BY <1>2 DEF OutcomeAfter
  <2> QED
    BY <1>2, <2>1 DEF Outcomes
<1>3. CASE /\ ev.verdict \notin {"drop", "reject"}
           /\ ~(ev.verdict = "accept" /\ b = "iptables" /\ ev.chain = "INPUT")
  <2>1. \/ ev.hint = "input" /\ new = "local"
        \/ ev.hint = "postrouting" /\ new = "egress"
        \/ new = "unknown"
        \/ new = o
    BY <1>3 DEF OutcomeAfter
  <2> QED
    BY <1>3, <2>1 DEF Outcomes
<1> QED
  BY <1>1, <1>2, <1>3

\* The line is of the end of its packet's way.
Arriving(l) == IF backend = "nft" THEN l.chain \in {"final_input", "final_postrouting"}
               ELSE l.kind # "log" \/ FinalLog(l)

\* The outcome after the event of a line that can be held against what happened.
LEMMA OutcomeTells ==
  ASSUME PathInv, NEW l, LineTrue(l), Parsed(l), Clear(l), NEW new,
         new = OutcomeAfter(backend, outcome, EventOf(l))
  PROVE  /\ DropLine(l) => new \in {"drop", "reject"}
         /\ new \in {"drop", "reject"} => DropLine(l) \/ new = outcome
         /\ new = "local" /\ NoNamesake =>
              ~DropLine(l) /\ (new = outcome \/ (packets[l.of].route = "input" /\ Arriving(l)))
         /\ new = "egress" /\ NoNamesake =>
              ~DropLine(l) /\ (new = outcome \/ (packets[l.of].route # "input" /\ Arriving(l)))
<1>1. PICK ev : ev = EventOf(l)
  OBVIOUS
<1>2. outcome \in Outcomes
  BY DEF PathInv, ShownInv
<1>3. ev.verdict \in {"drop", "reject"} <=> DropLine(l)
  BY <1>1, VerdictTells
<1>4. ev.verdict = "accept" /\ backend = "iptables" /\ ev.chain = "INPUT" =>
        packets[l.of].route = "input" /\ Arriving(l) /\ ~DropLine(l)
  <2>1. ASSUME ev.verdict = "accept", backend = "iptables", ev.chain = "INPUT"
        PROVE  packets[l.of].route = "input" /\ l.kind # "log"
    <3>1. l.kind # "log" /\ l.chain \in {"mangle_INPUT", "filter_INPUT"}
      BY <1>1, <2>1, LogEvent
    <3> QED
      BY <3>1, LineChain
  <2> QED
    BY <1>3, <2>1 DEF Arriving
<1>5. NoNamesake =>
        /\ ev.hint = "input" => packets[l.of].route = "input" /\ Arriving(l)
        /\ ev.hint = "postrouting" => packets[l.of].route # "input" /\ Arriving(l)
  BY <1>1, HintTells DEF Arriving
<1> QED
  BY <1>1, <1>2, <1>3, <1>4, <1>5, OutcomeCases

\* What is left when the first line is read.
LEMMA TailFacts ==
  ASSUME NEW S, NEW s \in Seq(S), s # <<>>
  PROVE  /\ Tail(s) \in Seq(S) /\ Len(s) \in Nat \ {0} /\ Len(Tail(s)) = Len(s) - 1
         /\ Head(s) = s[1] /\ 1 \in 1..Len(s)
         /\ \A i \in 1..Len(Tail(s)) : Tail(s)[i] = s[i + 1] /\ i + 1 \in 2..Len(s)
         /\ \A i \in 2..Len(s) : i - 1 \in 1..Len(Tail(s)) /\ Tail(s)[i - 1] = s[i]
  OBVIOUS

\* nft: the first line of a tracked packet, and iptables: any, is of the flow.
LEMMA RelevantLines ==
  ASSUME PathInv, NEW l, LineTrue(l)
  PROVE  /\ Relevant(l) => Parsed(l)
         /\ l.kind = "packet" => Relevant(l)
         /\ l.of \in shown /\ DropLine(l) => Relevant(l)
         /\ backend = "iptables" /\ DropLine(l) => Relevant(l)
<1>1. backend \in {"nft", "iptables"}
  BY DEF PathInv, SetupInv
<1>2. CASE backend = "nft"
  <2>1. NftLine(l)
    BY <1>2 DEF LineTrue
  <2>2. l.kind = "packet" => FlowMatches(l)
    BY <2>1 DEF NftLine
  <2> QED
    BY <1>2, <2>2 DEF Relevant, Parsed, NftRelevant, NftParsed, DropLine
<1>3. CASE backend = "iptables"
  <2>1. IptLine(l)
    BY <1>3 DEF LineTrue
  <2>2. FlowMatches(l) /\ l.kind # "packet"
    BY <2>1 DEF IptLine
  <2> QED
    BY <1>3, <2>2 DEF Relevant, Parsed, LogRelevant, LogParsed, DropLine
<1> QED
  BY <1>1, <1>2, <1>3

LEMMA ReadStep ==
  ASSUME PathInv, ReadLine
  PROVE  PathInv'
<1>1. /\ phase = "loop" /\ lines # <<>> /\ ~Moving /\ lines' = Tail(lines)
      /\ UNCHANGED <<hostVars, setupVars, listVars, packetVars, attached, mishapVars>>
  BY DEF ReadLine
<1>2. /\ backend' = backend /\ othersTrace' = othersTrace /\ ruleset' = ruleset
      /\ dropPolicy' = dropPolicy /\ phase' = phase /\ installed' = installed
      /\ rules' = rules /\ listed' = listed /\ changed' = changed /\ mishaps' = mishaps
      /\ packets' = packets /\ place' = place /\ view' = view /\ attached' = attached
  BY <1>1 DEF hostVars, setupVars, listVars, mishapVars, packetVars
<1>3. PICK l, ev : l = Head(lines) /\ ev = EventOf(l)
  OBVIOUS
<1>4. IF Relevant(l)
      THEN event' = ev /\ shown' = shown \cup {ev.raw.of}
           /\ outcome' = OutcomeAfter(backend, outcome, ev)
      ELSE event' = event /\ shown' = shown /\ outcome' = outcome
  BY <1>3 DEF ReadLine, Relevant, EventOf, Record, resultVars
<1>5. PICK n : n = Len(lines)
  OBVIOUS
<1>6. /\ lines' \in Seq(LineFields) /\ n \in Nat \ {0} /\ Len(lines') = n - 1
      /\ l = lines[1] /\ 1 \in 1..n
      /\ \A i \in 1..Len(lines') : lines'[i] = lines[i + 1] /\ i + 1 \in 2..n
      /\ \A i \in 2..n : i - 1 \in 1..Len(lines') /\ lines'[i - 1] = lines[i]
  BY <1>1, <1>3, <1>5, TailFacts DEF PathInv, LinesInv
<1>7. LineTrue(l) /\ l \in LineFields /\ l.of \in 1..Len(packets)
  BY <1>5, <1>6 DEF PathInv, LinesInv, LineTrue
<1>8. PacketsStay /\ packets \in Seq(Packet) /\ Len(packets) \in Nat
  BY <1>2 DEF PathInv, PacketsInv, PacketsStay
<1>9. RulesInv(ruleset)' /\ RulesStay
  BY <1>1, <1>2, SameRules
<1>10. P' = P /\ Latest' = Latest /\ ~Moving'
  BY <1>1, <1>2 DEF P, Latest, Moving
<1>11. /\ Relevant(l) => Parsed(l) /\ ev.raw = l /\ ev.kind = l.kind
       /\ Relevant(l) => l.kind # "other" /\ (~othersTrace => packets[l.of].about = "flow")
       /\ Relevant(l) => l.of \in shown'
       /\ l.kind = "packet" => Relevant(l)
       /\ l.of \in shown /\ DropLine(l) => Relevant(l)
       /\ backend = "iptables" /\ DropLine(l) => Relevant(l)
  <2>1. Relevant(l) => Parsed(l)
    BY <1>7, RelevantLines
  <2>2. Relevant(l) => ev.raw = l /\ ev.kind = l.kind /\ l.kind # "other"
    BY <1>3, <1>7, <2>1, EventType
  <2>3. Relevant(l) => (~othersTrace => packets[l.of].about = "flow")
    BY <1>7, <2>2 DEF LineTrue
  <2> QED
    BY <1>4, <1>7, <2>1, <2>2, <2>3, RelevantLines
<1>12. SetupInv' /\ PacketsInv' /\ PlaceInv' /\ WatchInv' /\ ListInv'
  <2>1. SetupInv'
    BY <1>2 DEF PathInv, SetupInv
  <2>2. TracedInv'
    BY <1>2, <1>9, TracedStays DEF PathInv, PacketsInv
  <2>3. PacketsInv'
    BY <1>2, <2>2 DEF PathInv, PacketsInv
  <2>4. PlaceInv'
    BY <1>1, <1>9, ViewStays DEF PathInv
  <2>5. WatchInv'
    BY <1>2 DEF PathInv, WatchInv
  <2>6. ListInv'
    BY <1>2, <1>9, ListStays DEF PathInv
  <2> QED
    BY <2>1, <2>3, <2>4, <2>5, <2>6
<1>13. LinesInv'
  <2>1. ASSUME NEW i \in 1..Len(lines')
        PROVE  LineTrue(lines[i])'
    <3>1. PICK k : k = lines'[i] /\ LineTrue(k)
      BY <1>5, <1>6 DEF PathInv, LinesInv
    <3>2. LineTrue(k)'
      BY <1>8, <1>9, <3>1, LineStays DEF PathInv
    <3> QED
      BY <3>1, <3>2
  <2>2. DropsEnd'
    <3> SUFFICES ASSUME NEW i \in 1..Len(lines'), lines'[i].kind \notin {"log", "other"},
                        packets[lines'[i].of].fate = "dropped"
                 PROVE  \E j \in i..Len(lines') : lines'[j].of = lines'[i].of /\ DropLine(lines'[j])
      BY <1>2 DEF DropsEnd, DropLine
    <3>1. PICK j \in i + 1..n : lines[j].of = lines[i + 1].of /\ DropLine(lines[j])
      BY <1>5, <1>6 DEF PathInv, LinesInv, DropsEnd
    <3>2. i \in Nat \ {0} /\ j \in 2..n /\ j - 1 \in i..Len(lines')
      BY <1>6
    <3>3. lines'[j - 1] = lines[j] /\ lines'[i] = lines[i + 1]
      BY <1>6, <3>2
    <3> QED
      BY <3>1, <3>2, <3>3
  <2>3. LogsAreFinal'
    BY <1>2, <1>5, <1>6, <1>10 DEF PathInv, LinesInv, LogsAreFinal
  <2>4. ~attached' => lines' = <<>>
    BY <1>1, <1>2 DEF PathInv, LinesInv
  <2>5. StopsAreLast'
    BY <1>1, <1>2, <1>5, <1>6, <1>10 DEF PathInv, LinesInv, StopsAreLast
  <2> QED
    BY <1>6, <2>1, <2>2, <2>3, <2>4, <2>5 DEF LinesInv
<1>14. ShownInv'
  <2>1. outcome' \in Outcomes
    BY <1>4, OutcomeAfterType DEF PathInv, ShownInv
  <2>2. shown' \subseteq shown \cup {l.of}
    BY <1>4, <1>11
  <2>3. l.of \in shown' => l.of \in shown \/ Relevant(l)
    BY <1>4
  <2>4. \A k \in shown' : k \in 1..Len(packets) /\ (~othersTrace => packets[k].about = "flow")
    BY <1>7, <1>11, <2>2, <2>3 DEF PathInv, ShownInv
  <2> QED
    BY <1>1, <1>2, <1>10, <2>1, <2>4 DEF ShownInv
<1>15. EventInv'
  <2>1. CASE ~Relevant(l)
    BY <1>1, <1>2, <1>4, <1>8, <1>9, <2>1, EventStays DEF PathInv
  <2>2. CASE Relevant(l)
    <3>1. Parsed(l) /\ event' = ev
      BY <1>4, <1>11, <2>2
    <3>2. /\ l.kind \in {"packet", "rule", "verdict", "policy", "return", "log"}
          /\ ev.raw = l /\ ev.kind = l.kind /\ ev # NoEvent
          /\ ev.rule \in Rule \cup {NoRule}
          /\ ev.origin \in {"temporary", "policy", "system", None}
      BY <1>3, <1>7, <3>1, EventType
    <3>3. Readable' /\ packets[l.of].about = "flow" => Clear(l)
      BY <1>2 DEF Clear, Readable
    <3>4. OfFlow' => packets[l.of].about = "flow"
      BY <1>2, <3>1, <3>2 DEF OfFlow
    <3>5. Clear(l) =>
            LET own == l.hit.owner = "run" \/ l.chain \in RunChains
            IN  /\ l.kind = "rule" => ev.rule = l.hit
                /\ ev.origin = "temporary" <=> own
                /\ ev.origin = "system" => l.kind \in {"rule", "verdict"}
                /\ l.kind = "rule" /\ ~own => ev.origin = "system"
      BY <1>3, <1>7, <3>1, EventTells
    <3>6. RuleTextTrue'
      <4> SUFFICES ASSUME packets[l.of].about = "flow", l.kind = "rule",
                          backend = "nft" \/ ~changed
                   PROVE  ev.rule = l.hit
                          \/ (backend = "iptables" /\ ~listed /\ ev.rule = NoRule)
        BY <1>2, <3>1, <3>2, <3>4 DEF RuleTextTrue
      <4>1. CASE backend = "nft"
        BY <1>3, <1>7, <4>1, NftEvent
      <4>2. CASE backend = "iptables"
        BY <1>3, <1>7, <4>2, LogEvent
      <4> QED
        BY <4>1, <4>2 DEF PathInv, SetupInv
    <3>7. OriginTrue'
      BY <3>1, <3>2, <3>3, <3>4, <3>5 DEF OriginTrue
    <3> QED
      BY <1>2, <1>7, <3>1, <3>2, <3>6, <3>7 DEF EventInv
  <2> QED
    BY <2>1, <2>2
<1>16. \A k : DropComes(k) => DropComes(k)' \/ (l.of = k /\ DropLine(l))
  <2> SUFFICES ASSUME NEW k, NEW j \in 1..n, lines[j].of = k, DropLine(lines[j])
               PROVE  DropComes(k)' \/ (l.of = k /\ DropLine(l))
    BY <1>5 DEF DropComes
  <2>1. CASE j = 1
    BY <1>6, <2>1
  <2>2. CASE j # 1
    <3>1. j \in 2..n
      BY <2>2
    <3>2. j - 1 \in 1..Len(lines') /\ lines'[j - 1] = lines[j]
      BY <1>6, <3>1
    <3> QED
      BY <3>2 DEF DropComes, DropLine
  <2> QED
    BY <2>1, <2>2
<1>17. AnswerInv'
  <2>0. backend \in {"nft", "iptables"}
    BY DEF PathInv, SetupInv
  <2> SUFFICES ASSUME Readable, backend = "nft" \/ ~othersTrace
               PROVE  /\ outcome' \in {"drop", "reject"} =>
                           \E k \in shown' : packets[k].fate = "dropped"
                      /\ outcome' = "local" /\ NoNamesake =>
                           \E k \in shown' : packets[k].route = "input" /\ Reached(k)'
                      /\ outcome' = "egress" /\ NoNamesake =>
                           \E k \in shown' : packets[k].route # "input" /\ Reached(k)'
    BY <1>2, <2>0 DEF AnswerInv, Readable, NoNamesake
  <2>1. /\ outcome \in {"drop", "reject"} => \E k \in shown : packets[k].fate = "dropped"
        /\ outcome = "local" /\ NoNamesake =>
             \E k \in shown : packets[k].route = "input" /\ Reached(k)
        /\ outcome = "egress" /\ NoNamesake =>
             \E k \in shown : packets[k].route # "input" /\ Reached(k)
    BY DEF PathInv, AnswerInv
  <2>2. shown \subseteq shown'
    BY <1>4
  <2>3. \A k : Reached(k) => Reached(k)' \/ (l.of = k /\ DropLine(l))
    BY <1>2, <1>16 DEF Reached
  <2>4. CASE ~Relevant(l)
    <3>1. \A k \in shown : Reached(k) => Reached(k)'
      <4>1. CASE backend = "nft"
        BY <1>2, <4>1 DEF Reached
      <4>2. CASE backend # "nft"
        <5>1. ~DropLine(l)
          BY <1>11, <2>4, <4>2 DEF PathInv, SetupInv
        <5> QED
          BY <2>3, <5>1
      <4> QED
        BY <4>1, <4>2
    <3> QED
      BY <1>4, <2>1, <2>2, <2>4, <3>1
  <2>5. CASE Relevant(l)
    <3>1. Parsed(l) /\ Clear(l) /\ l.of \in shown'
      BY <1>11, <2>5 DEF Clear
    <3>2. /\ outcome' \in {"drop", "reject"} => DropLine(l) \/ outcome' = outcome
          /\ outcome' = "local" /\ NoNamesake =>
               ~DropLine(l) /\ (outcome' = outcome
                                \/ (packets[l.of].route = "input" /\ Arriving(l)))
          /\ outcome' = "egress" /\ NoNamesake =>
               ~DropLine(l) /\ (outcome' = outcome
                                \/ (packets[l.of].route # "input" /\ Arriving(l)))
      BY <1>3, <1>4, <1>7, <2>5, <3>1, OutcomeTells
    <3>3. DropLine(l) => packets[l.of].fate = "dropped"
      BY <1>7 DEF LineTrue
    <3>4. ~DropLine(l) /\ Arriving(l) => Reached(l.of)'
      <4>1. CASE backend = "nft"
        <5>1. Arriving(l) => packets[l.of].fate = "through"
          BY <1>1, <1>5, <1>6, <4>1 DEF Arriving, PathInv, LinesInv, StopsAreLast
        <5> QED
          BY <1>2, <4>1, <5>1 DEF Reached
      <4>2. CASE backend = "iptables"
        <5>1. FinalLog(l) => packets[l.of].fate # "dropped"
          BY <1>5, <1>6, <4>2 DEF FinalLog, Readable, PathInv, LinesInv, LogsAreFinal
        <5>2. l.kind # "log" /\ packets[l.of].fate = "dropped" => DropComes(l.of)
          BY <1>5, <1>6, <1>11, <2>5 DEF PathInv, LinesInv, DropsEnd, DropComes
        <5> QED
          BY <1>2, <1>16, <4>2, <5>1, <5>2 DEF Reached, Arriving
      <4> QED
        BY <4>1, <4>2 DEF PathInv, SetupInv
    <3>5. ~DropLine(l) => \A k : Reached(k) => Reached(k)'
      BY <2>3
    <3>6. outcome' \in {"drop", "reject"} => \E k \in shown' : packets[k].fate = "dropped"
      BY <2>1, <2>2, <3>1, <3>2, <3>3
    <3>7. outcome' = "local" /\ NoNamesake =>
            \E k \in shown' : packets[k].route = "input" /\ Reached(k)'
      BY <2>1, <2>2, <3>1, <3>2, <3>4, <3>5
    <3>8. outcome' = "egress" /\ NoNamesake =>
            \E k \in shown' : packets[k].route # "input" /\ Reached(k)'
      BY <2>1, <2>2, <3>1, <3>2, <3>4, <3>5
    <3> QED
      BY <3>6, <3>7, <3>8
  <2> QED
    BY <2>4, <2>5
<1>18. IntroInv'
  <2> SUFFICES ASSUME backend = "nft", Followed
               PROVE  \/ Latest \in shown'
                      \/ \E j \in 1..Len(lines') :
                           lines'[j].of = Latest /\ lines'[j].kind = "packet"
    BY <1>2, <1>10 DEF IntroInv, Followed
  <2>1. CASE Latest \in shown
    BY <1>4, <2>1
  <2>2. CASE Latest \notin shown
    <3>1. PICK j \in 1..n : lines[j].of = Latest /\ lines[j].kind = "packet"
      BY <1>5, <2>2 DEF PathInv, IntroInv
    <3>2. CASE j = 1
      BY <1>6, <1>11, <3>1, <3>2
    <3>3. CASE j # 1
      <4>1. j \in 2..n
        BY <3>3
      <4> QED
        BY <1>6, <3>1, <4>1
    <3> QED
      BY <3>2, <3>3
  <2> QED
    BY <2>1, <2>2
<1>19. ToldInv'
  <2> SUFFICES ASSUME Followed, P.fate = "dropped"
               PROVE  IF lines' = <<>>
                      THEN phase = "loop" /\ (Readable => outcome' \in {"drop", "reject"})
                      ELSE lines'[Len(lines')].of = Latest /\ DropLine(lines'[Len(lines')])
    BY <1>2, <1>10 DEF ToldInv, Followed, Readable, DropLine
  <2>1. lines[n].of = Latest /\ DropLine(lines[n])
    BY <1>1, <1>5 DEF PathInv, ToldInv
  <2>2. CASE n = 1
    <3>1. l.of = Latest /\ DropLine(l) /\ packets[l.of].about = "flow"
      BY <1>6, <2>1, <2>2 DEF Followed, P
    <3>2. Relevant(l)
      <4>1. CASE backend = "nft"
        <5>1. Latest \in shown
          BY <1>5, <1>6, <2>2, <3>1, <4>1 DEF PathInv, IntroInv, DropLine
        <5> QED
          BY <1>11, <3>1, <5>1
      <4>2. CASE backend = "iptables"
        BY <1>11, <3>1, <4>2
      <4> QED
        BY <4>1, <4>2 DEF PathInv, SetupInv
    <3>3. Readable => outcome' \in {"drop", "reject"}
      <4>1. Parsed(l) /\ (Readable => Clear(l))
        BY <1>11, <3>1, <3>2 DEF Clear
      <4> QED
        BY <1>3, <1>4, <1>7, <3>1, <3>2, <4>1, OutcomeTells
    <3>4. lines' = <<>>
      BY <1>6, <2>2
    <3> QED
      BY <1>1, <3>3, <3>4
  <2>3. CASE n # 1
    <3>1. n \in 2..n /\ n - 1 = Len(lines')
      BY <1>6, <2>3
    <3>2. lines'[Len(lines')] = lines[n] /\ lines' # <<>>
      BY <1>6, <3>1
    <3> QED
      BY <2>1, <3>2
  <2> QED
    BY <2>2, <2>3
<1> QED
  BY <1>9, <1>12, <1>13, <1>14, <1>15, <1>17, <1>18, <1>19 DEF PathInv

----------------------------------------------------------------------------
(* The whole.                                                              *)

\* The rules of the host are all in their chains.
LEMMA HostStart ==
  ASSUME NEW h \in HostRulesets, backend \in {"nft", "iptables"}
  PROVE  RulesInv(h)
<1>1. /\ BuiltIn \cup {User} \subseteq DOMAIN h /\ DOMAIN h \subseteq Chain
      /\ DOMAIN h \cap RunChains = {}
  BY PathAssumption, HostAssumption
<1>2. ASSUME NEW c \in DOMAIN h, NEW k \in 1..Len(h[c])
      PROVE  \E r : r = h[c][k] /\ ChainRule(c, r) /\ r.owner = "host"
  <2>1. h[c] \in Seq(Rule)
    BY PathAssumption
  <2>2. k \in DOMAIN h[c]
    BY <2>1
  <2>3. PICK r : r = h[c][k] /\ r \in HostRules
    BY <2>2 DEF HostRules
  <2> QED
    BY <1>1, <2>3, HostRuleFacts DEF ChainRule
<1>3. \A c \in DOMAIN h : h[c] \in Seq(Rule) /\ \A k \in 1..Len(h[c]) : ChainRule(c, h[c][k])
  BY <1>2, PathAssumption
<1>4. LogIsLast(h)
  BY <1>2 DEF LogIsLast
<1> QED
  BY <1>1, <1>3, <1>4 DEF RulesInv

LEMMA PathStart ==
  ASSUME Init
  PROVE  PathInv
<1>1. /\ backend \in {"nft", "iptables"} /\ othersTrace \in BOOLEAN /\ ruleset \in HostRulesets
      /\ dropPolicy \in DropPolicies /\ phase = "setup" /\ installed = 0 /\ attached = FALSE
      /\ lines = <<>> /\ rules = NoView /\ listed = FALSE /\ packets = <<>> /\ place = Nowhere
      /\ event = NoEvent /\ shown = {} /\ outcome = "timeout" /\ changed = FALSE /\ mishaps = 0
  BY DEF Init
<1>2. Latest = 0 /\ ~Moving /\ Len(lines) = 0
  BY <1>1 DEF Latest, Moving
<1>3. SetupInv
  <2>1. 0 \in 0..MaxMishaps /\ 0 \in 0..5
    BY PathAssumption
  <2>2. ~listed /\ listed \in BOOLEAN /\ attached \in BOOLEAN /\ changed \in BOOLEAN
    BY <1>1
  <2>3. installed < 5 /\ mishaps \in 0..MaxMishaps /\ installed \in 0..5
    BY <1>1, <2>1
  <2>4. listed => phase = "loop"
    BY <2>2
  <2> QED
    BY <1>1, <2>2, <2>3, <2>4 DEF SetupInv
<1>4. RulesInv(ruleset)
  BY <1>1, HostStart
<1>5. PacketsInv /\ WatchInv
  BY <1>1, PathAssumption DEF PacketsInv, TracedInv, WatchInv
<1>6. PlaceInv
  BY <1>1, <1>2 DEF PlaceInv, Nowhere
<1>7. LinesInv
  BY <1>1, <1>2 DEF LinesInv, DropsEnd, LogsAreFinal, StopsAreLast
<1>8. ListInv
  <2>1. DOMAIN rules = {}
    BY <1>1 DEF NoView
  <2> QED
    BY <1>1, <2>1 DEF ListInv
<1>9. ShownInv /\ AnswerInv
  BY <1>1, <1>2 DEF ShownInv, AnswerInv, Outcomes
<1>10. EventInv
  BY <1>1 DEF EventInv, RuleTextTrue, OriginTrue, OfFlow
<1>11. IntroInv /\ ToldInv
  BY <1>2 DEF IntroInv, ToldInv, Followed
<1> QED
  BY <1>3, <1>4, <1>5, <1>6, <1>7, <1>8, <1>9, <1>10, <1>11 DEF PathInv

LEMMA PathStep ==
  ASSUME PathInv, [Next]_vars
  PROVE  PathInv'
<1>1. CASE AddRule
  BY <1>1, AddRuleStep
<1>2. CASE AddTable
  BY <1>2, AddTableStep
<1>3. CASE Snapshot
  BY <1>3, SnapshotStep
<1>4. CASE Attach
  BY <1>4, AttachStep
<1>5. CASE HostChanges
  BY <1>5, HostChangesStep
<1>6. CASE Depart
  BY <1>6, DepartStep
<1>7. CASE Hit
  BY <1>7, HitStep
<1>8. CASE ReturnFromUser
  BY <1>8, ReturnStep
<1>9. CASE MeetPolicy
  BY <1>9, PolicyStep
<1>10. CASE ReadLine
  BY <1>10, ReadStep
<1>11. CASE UNCHANGED vars
  BY <1>11, StutterStep
<1> QED
  BY <1>1, <1>2, <1>3, <1>4, <1>5, <1>6, <1>7, <1>8, <1>9, <1>10, <1>11 DEF Next

\* The inductive invariant: what the setup puts where, what is true of each packet, of
\* each line nobody read yet and of the result, and that they fit together.
THEOREM PathIsInductive == Spec => []PathInv
<1>1. Init => PathInv
  BY PathStart
<1>2. PathInv /\ [Next]_vars => PathInv'
  BY PathStep
<1> QED
  BY <1>1, <1>2, PTL DEF Spec

LEMMA InvIsTyped ==
  ASSUME PathInv
  PROVE  PathTypeOK
<1>1. \A c \in DOMAIN ruleset : c \in Chain /\ ruleset[c] \in Seq(Rule)
  BY DEF PathInv, RulesInv
<1>2. /\ backend \in {"nft", "iptables"} /\ othersTrace \in BOOLEAN /\ dropPolicy \in DropPolicies
      /\ phase \in {"setup", "snapshot", "loop", "failed"} /\ installed \in 0..5
      /\ attached \in BOOLEAN /\ listed \in BOOLEAN /\ changed \in BOOLEAN
      /\ mishaps \in 0..MaxMishaps
  BY DEF PathInv, SetupInv
<1>3. lines \in Seq(LineFields) /\ \A k \in DOMAIN lines : lines[k] \in LineFields
  BY DEF PathInv, LinesInv
<1>4. packets \in Seq(Packet) /\ DOMAIN packets = 1..Len(packets)
  BY DEF PathInv, PacketsInv
<1>5. \A k \in DOMAIN packets :
        packets[k] \in [about: {"flow", "alike"}, route: DOMAIN Way,
                        watched: BOOLEAN, traced: BOOLEAN,
                        fate: {"moving", "dropped", "policy", "through"}]
  <2>1. \A k \in DOMAIN packets : packets[k] \in Packet
    BY <1>4
  <2> QED
    BY <2>1 DEF Packet, Fates
<1>6. \A key \in DOMAIN rules : rules[key] \in Rule
  BY DEF PathInv, ListInv
<1>7. place \in [stop: 0..6, at: Nat, back: Nat, dumped: BOOLEAN]
  BY DEF PathInv, PlaceInv
<1>8. /\ shown \subseteq DOMAIN packets /\ outcome \in Outcomes
  BY <1>4 DEF PathInv, ShownInv
<1>9. event # NoEvent =>
        /\ event.kind \in {"packet", "rule", "verdict", "policy", "return", "log"}
        /\ event.rule \in Rule \cup {NoRule} /\ event.raw \in LineFields
        /\ event.origin \in {"temporary", "policy", "system", None}
  BY DEF PathInv, EventInv
<1> QED
  BY <1>1, <1>2, <1>3, <1>5, <1>6, <1>7, <1>8, <1>9 DEF PathTypeOK

\* Every variable keeps its type, for every ruleset of the host.
THEOREM PathTypeCorrect == Spec => []PathTypeOK
<1>1. PathInv => PathTypeOK
  BY InvIsTyped
<1> QED
  BY <1>1, PathIsInductive, PTL

\* iptables.go 54-58, nft.go 43-47: the rule of every event about the flow is the rule
\* that its packet hit, although packets come while the run still adds rules.  If the
\* listing of iptables failed it is that rule or none.
THEOREM TextsAreTrue == Spec => []RuleTextTrue
<1>1. PathInv => RuleTextTrue
  BY DEF PathInv, EventInv
<1> QED
  BY <1>1, PathIsInductive, PTL

\* README 113-117: what is said of an event's origin is true of the rule or of the
\* policy behind it.
THEOREM OriginsAreTrue == Spec => []OriginTrue
<1>1. PathInv => OriginTrue
  BY DEF PathInv, EventInv
<1> QED
  BY <1>1, PathIsInductive, PTL

LEMMA InvAnswers ==
  ASSUME PathInv
  PROVE  AnswerIsTrue
<1>0. backend \in {"nft", "iptables"}
  BY DEF PathInv, SetupInv
<1> SUFFICES ASSUME Settled, Readable, backend = "nft" \/ ~othersTrace
             PROVE  /\ outcome \in {"drop", "reject"} => \E k \in shown : packets[k].fate = "dropped"
                    /\ outcome = "local" /\ NoNamesake =>
                         \E k \in shown : packets[k].route = "input" /\ Arrived(k)
                    /\ outcome = "egress" /\ NoNamesake =>
                         \E k \in shown : packets[k].route # "input" /\ Arrived(k)
  BY <1>0 DEF AnswerIsTrue
<1>1. \A k : ~DropComes(k)
  BY DEF Settled, DropComes
\* No packet is on its way.
<1>2. ASSUME NEW k \in shown
      PROVE  packets[k].fate \in {"dropped", "policy", "through"}
  <2>1. k \in 1..Len(packets) /\ packets \in Seq(Packet)
    BY DEF PathInv, ShownInv, PacketsInv
  <2>2. packets[k].fate \in Fates
    <3>1. packets[k] \in Packet
      BY <2>1
    <3> QED
      BY <3>1 DEF Packet
  <2>3. packets[k].fate # "moving"
    <3>1. CASE k = Len(packets)
      BY <2>1, <3>1 DEF Settled, Moving, Latest, P
    <3>2. CASE k # Len(packets)
      BY <2>1, <3>2 DEF PathInv, PacketsInv
    <3> QED
      BY <3>1, <3>2
  <2> QED
    BY <2>2, <2>3 DEF Fates
<1>3. \A k \in shown : Reached(k) => Arrived(k)
  BY <1>1, <1>2 DEF Reached, Arrived, PathInv, SetupInv
<1> QED
  BY <1>3 DEF PathInv, AnswerInv

\* nft.go 157-188: the outcome is that of a packet that was shown: a rule dropped it, or
\* it arrived at this host, or on its way out; with nft nothing discarded it after all.
\* The rules must not change in between, no name of the host may look like one of the
\* run's and, with iptables, nobody else may trace packets.
THEOREM AnswersAreTrue == Spec => []AnswerIsTrue
<1>1. PathInv => AnswerIsTrue
  BY InvAnswers
<1> QED
  BY <1>1, PathIsInductive, PTL

\* nft.go 30, 164-171: a rule that drops a traced packet is told, if the monitor
\* listened when the packet came and no other packet was seen since.
THEOREM DropsAreTold == Spec => []DropIsTold
<1>1. PathInv => DropIsTold
  BY DEF PathInv, ToldInv, DropIsTold, Followed, Settled
<1> QED
  BY <1>1, PathIsInductive, PTL
=============================================================================
