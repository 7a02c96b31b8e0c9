------------------------------ MODULE Outcome ------------------------------
(***************************************************************************)
(* The result of a run as a function of the events it recorded: the        *)
(* pure half of both backends.  An event is abstracted to the fields the   *)
(* result depends on.                                                      *)
(***************************************************************************)
EXTENDS Naturals, Sequences, FiniteSetsExt

CONSTANTS Trace,    \* identifiers of traced packets
          Iface     \* names of network interfaces

\* The outcomes a result may carry; baseResult starts from "timeout".
Outcomes == {"local", "egress", "drop", "reject", "timeout", "unknown"}

\* An absent field: the empty string of the code.
None == "none"

\* What the parsers extract from one line of the monitor.
EventFields ==
  [parsed:  BOOLEAN,                   \* the parser accepts the line
   ours:    BOOLEAN,                   \* it shows the five-tuple or the run's comment
   trace:   Trace,
   chain:   {"INPUT", "other"},
   verdict: {"accept", "drop", "reject", "other", None},
   hint:    {"input", "forward", "postrouting", None},
   in:      Iface \cup {None},
   out:     Iface \cup {None}]

IsTerminal(o) == o \in {"local", "egress", "drop", "reject"}

\* Faults, each the code with one mistake; the mutants put them in place of the
\* definition that follows.
AnyVerdict(backend, o, ev) == IF ev.verdict # None THEN ev.verdict ELSE o
QuietLineResets(backend, o, ev) ==
  CASE ev.verdict \in {"drop", "reject"} -> ev.verdict
    [] OTHER -> CASE ev.hint = "input"       -> "local"
                  [] ev.hint = "postrouting" -> "egress"
                  [] OTHER -> "unknown"

FirstAnswerStays(backend, o, ev) ==
  IF o # "timeout" THEN o
  ELSE CASE ev.verdict \in {"drop", "reject"} -> ev.verdict
         [] ev.verdict = "accept" /\ backend = "iptables" /\ ev.chain = "INPUT" -> "local"
         [] ev.hint = "input"       -> "local"
         [] ev.hint = "postrouting" -> "egress"
         [] OTHER -> o

\* A verdict decides first, then the auxiliary rule (hint) that was hit.
OutcomeAfter(backend, o, ev) ==
  CASE ev.verdict \in {"drop", "reject"} -> ev.verdict
    [] ev.verdict = "accept" /\ backend = "iptables" /\ ev.chain = "INPUT" -> "local"
    [] OTHER ->
         CASE ev.hint = "input"       -> "local"
           [] ev.hint = "postrouting" -> "egress"
           [] ev.hint = "forward" /\ o = "timeout" -> "unknown"
           [] OTHER -> o

LastInIface(i, ev) == IF ev.in # None THEN ev.in ELSE i   \* fault

InIfaceAfter(i, ev)  == IF i = None THEN ev.in ELSE i
OutIfaceAfter(i, ev) == IF ev.out # None THEN ev.out ELSE i

NotAdjusted(o, evs) == o   \* fault

\* A run that saw events but no decisive one is "unknown", not "timeout".
OutcomeAtEnd(o, evs) == IF o = "timeout" /\ Len(evs) > 0 THEN "unknown" ELSE o

\* finishResult: an interface still missing is looked up in the events.
FinishIn(i, evs) ==
  LET named == {k \in 1..Len(evs) : evs[k].in # None}
  IN  IF i = None /\ named # {} THEN evs[Min(named)].in ELSE i

FinishOut(i, evs) ==
  LET named == {k \in 1..Len(evs) : evs[k].out # None}
  IN  IF i = None /\ named # {} THEN evs[Max(named)].out ELSE i
=============================================================================
