---------------------------- MODULE SampleLines ----------------------------
(***************************************************************************)
(* Lines for small instances: a handful that take every path through the   *)
(* parsers, the filter and the outcome.                                    *)
(***************************************************************************)
EXTENDS Outcome

Ev(trace, ours, chain, verdict, hint, in, out) ==
  [trace |-> trace, parsed |-> TRUE, ours |-> ours, chain |-> chain,
   verdict |-> verdict, hint |-> hint, in |-> in, out |-> out]

\* A warning on stderr: not a trace line.
Noise == [Ev("a1", FALSE, "other", None, None, None, None) EXCEPT !.parsed = FALSE]

\* nft: the packet line of the flow, with the five-tuple and the interfaces,
\* and rule lines, which repeat the five-tuple or the run's comment or neither.
Packet    == Ev("a1", TRUE, "other", None, None, "eth0", "eth1")
Dropped   == Ev("a1", FALSE, "other", "drop", None, None, None)
Delivered == Ev("a1", TRUE, "other", "other", "input", "lo", None)

\* Somebody else's packet, traced by somebody else's rule.
Foreign == Ev("b2", FALSE, "other", "drop", None, "eth3", None)

NftLines == {Packet, Dropped, Delivered, Foreign}
FewLines == {Noise, Packet, Delivered, Foreign}

\* iptables: TRACE lines of rules, and the lines of the run's LOG rules.
Accepted == Ev("a1", TRUE, "INPUT", "accept", None, "eth0", None)
Rejected == Ev("a1", TRUE, "other", "reject", None, "eth0", "eth1")
Jumped   == Ev("a1", TRUE, "other", "other", None, None, "eth1")

LogLines == {Accepted, Rejected, Jumped, Foreign}

\* For the runs that are about rules, not about lines.
OneLine == {Delivered}
=============================================================================
