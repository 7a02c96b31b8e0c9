----------------------------- MODULE MCStartup -----------------------------
(* Startup on a sample of configurations: a plain one, all ways to leave one *)
(* field out or to get it wrong, and the pairs that matter together.         *)
EXTENDS Startup

Plain == [flow |-> "narrow", allowBroad |-> FALSE, mode |-> "listen", backend |-> "auto",
          kind |-> "local", hostGiven |-> FALSE, sshPort |-> 0, sudo |-> FALSE,
          timeout |-> 5, maxEvents |-> 2, traceLimit |-> "valid", burst |-> 1]

Bare == [Plain EXCEPT !.mode = "", !.backend = "", !.kind = "", !.timeout = 0,
                      !.maxEvents = 0, !.traceLimit = "", !.burst = 0]

SampleConfigs ==
  {Plain, Bare}
  \cup {[Plain EXCEPT !.flow = f, !.allowBroad = b] : f \in {"broad", "bad"}, b \in BOOLEAN}
  \cup {[Plain EXCEPT !.mode = m] : m \in {"active", "other"}}
  \cup {[Plain EXCEPT !.backend = b, !.sudo = s] : b \in {"nft", "iptables", "other"}, s \in BOOLEAN}
  \cup {[Plain EXCEPT !.kind = k, !.hostGiven = h] : k \in {"ssh", "other"}, h \in BOOLEAN}
  \cup {[Plain EXCEPT !.timeout = -1], [Plain EXCEPT !.maxEvents = -1],
         [Plain EXCEPT !.traceLimit = "bad"], [Plain EXCEPT !.burst = -1]}
=============================================================================
