--------------------------- MODULE MCCommandLine ---------------------------
(* CommandLine on calls that say nothing, everything, or nearly so, and calls *)
(* with one odd text each.                                                    *)
EXTENDS CommandLine, FiniteSets

Nothing == [f \in Field |-> FlagDefault(f)]

Local == [f \in Field |->
  CASE f = "proto" -> "udp" [] f = "src" -> "A" [] f = "dst" -> "B"
    [] f = "sport" -> "80" [] f = "dport" -> "443" [] f = "inIface" -> "eth0"
    [] f = "mode" -> "active" [] f = "backend" -> "nft" [] f = "target" -> "local"
    [] f = "sshHost" -> "host" [] f = "sshUser" -> "user" [] f = "sshPort" -> "2222"
    [] f = "sshKey" -> "key"]

Ssh == [Local EXCEPT !["target"] = "ssh"]

\* All but at most two of the flags, or one of them.
Mostly(flags) ==
  {[f \in Field |-> IF f \in S THEN Unset(f) ELSE flags[f]] :
     S \in {S \in SUBSET Field : Cardinality(S) <= 2}}
  \cup {[Nothing EXCEPT ![f] = flags[f]] : f \in Field}

Odd ==
  {[Ssh EXCEPT ![f] = t] : f \in {"proto"}, t \in {"TCP", " ", "icmp"}}
  \cup {[Local EXCEPT !["src"] = t] : t \in {"::ffff:A", "nonsense"}}
  \cup {[Local EXCEPT !["inIface"] = t, !["backend"] = b] : t \in {" ", " eth0", "eth!"}, b \in {"", "nft"}}
  \cup {[Local EXCEPT !["inIface"] = t, !["mode"] = ""] : t \in {" ", " eth0"}}
  \cup {[Local EXCEPT !["dport"] = "70000"], [Ssh EXCEPT !["sshPort"] = "70000", !["mode"] = ""]}

SampleGiven == {Nothing} \cup Mostly(Local) \cup Mostly(Ssh) \cup Odd

SampleReplies == [f \in Field |->
  CASE f = "proto" -> {"TCP"} [] f = "src" -> {"A", "::ffff:A"} [] f = "dst" -> {"B"}
    [] f = "sport" -> {"80"} [] f = "dport" -> {"0", "nonsense"} [] f = "inIface" -> {" eth0"}
    [] f = "mode" -> {"listen"} [] f = "backend" -> {"iptables"} [] f = "target" -> {"ssh"}
    [] f = "sshHost" -> {"host"} [] f = "sshUser" -> {"user"} [] f = "sshPort" -> {"0", "2222"}
    [] f = "sshKey" -> {" "}]
=============================================================================
