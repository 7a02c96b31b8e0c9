---------------------------- MODULE CommandLine ----------------------------
(***************************************************************************)
(* `nftracepath run` before trace.Run: what was not said in flags is asked *)
(* for, field by field; the answers become a configuration, which is       *)
(* validated; and a run that asked prints the command line that would have *)
(* asked nothing.  A person may then run that line again.                  *)
(*                                                                         *)
(* A value is the text it is written as.  The flags that are never asked   *)
(* for and always printed (limits, timeout, sudo, debug) are left out, and *)
(* so is a flag that package flag refuses: nothing has happened by then.   *)
(***************************************************************************)
EXTENDS Integers, Sequences

CONSTANTS Given,     \* what the flags may say: functions from Field to texts
          Replies    \* what a person may answer to each question

\* In the order of the questions.
Questions == <<"proto", "src", "sport", "dst", "dport", "inIface", "mode", "backend",
               "target", "sshHost", "sshUser", "sshPort", "sshKey">>
Field     == {Questions[i] : i \in DOMAIN Questions}
Ports     == {"sport", "dport", "sshPort"}
SshFields == {"sshHost", "sshUser", "sshPort", "sshKey"}

Text == {"", " ", "TCP", "tcp", "udp", "icmp", "A", "::ffff:A", "B", "nonsense",
         "0", "22", "80", "443", "2222", "70000", "eth0", " eth0", "eth!",
         "listen", "active", "auto", "nft", "iptables", "local", "ssh", "host", "user", "key"}
Numbers == {"0", "22", "80", "443", "2222", "70000"}

ASSUME GivenAssumption ==
  Given \subseteq {a \in [Field -> Text] : \A f \in Ports : a[f] \in Numbers}
ASSUME RepliesAssumption == Replies \in [Field -> SUBSET Text]

VARIABLES
  pc,        \* "asking", "started" (trace.Run is called) or "failed"
  told,      \* the flags of this call
  json,      \* one of them: --json
  broad,     \* another: --allow-broad-match
  at,        \* the question it has come to
  args,      \* the flags' variables, filled in so far
  replies,   \* answers of this call, "" where it did not ask
  prompted,  \* the fields it asked for
  cfg,       \* the configuration trace.Run is called with
  printed,   \* the printed command line, as flags; or NotPrinted
  before     \* the configuration of the call whose line this one is, or NoConfig

callVars == <<told, json, broad, before>>
vars == <<pc, at, args, replies, prompted, cfg, printed, callVars>>

Blank      == [f \in Field |-> ""]
NoConfig   == Blank
NotPrinted == Blank

Unset(f) == IF f \in Ports THEN "0" ELSE ""

\* What a flag is worth that is not given.
FlagDefault(f) == IF f = "sshPort" THEN "22" ELSE Unset(f)

\* Every variable keeps its type.
CmdTypeOK ==
  /\ pc \in {"asking", "started", "failed"}
  /\ json \in BOOLEAN /\ broad \in BOOLEAN
  /\ at \in 1..(Len(Questions) + 1)
  /\ {told, args, replies, cfg, printed, before} \subseteq [Field -> Text]
  /\ \A f \in Ports : args[f] \in Numbers
  /\ prompted \subseteq Field

Call(flags) ==
  /\ pc' = "asking" /\ at' = 1
  /\ told' = flags /\ args' = flags
  /\ replies' = Blank /\ prompted' = {}
  /\ cfg' = NoConfig /\ printed' = NotPrinted

Init ==
  /\ pc = "asking" /\ at = 1
  /\ told \in Given /\ args = told
  /\ json \in BOOLEAN /\ broad \in BOOLEAN
  /\ replies = Blank /\ prompted = {}
  /\ cfg = NoConfig /\ printed = NotPrinted /\ before = NoConfig

----------------------------------------------------------------------------
\* The questions.

\* Fault: a call with an ssh host and no target counts as one that needs help.
PromptsWithoutTarget ==
  \/ \E f \in {"proto", "src", "dst", "mode"} : told[f] = ""
  \/ told["target"] = ""

\* Computed once, from the flags: with all that is required, nothing optional is asked.
PromptOptional ==
  \/ \E f \in {"proto", "src", "dst", "mode"} : told[f] = ""
  \/ told["target"] = "" /\ told["sshHost"] = ""

Optional == {"sport", "dport", "inIface", "backend", "sshUser", "sshKey"}

Asks(f) ==
  /\ args[f] = Unset(f)
  /\ f \in Optional => PromptOptional
  /\ f \in SshFields => args["target"] = "ssh"
  /\ f = "target" => args["sshHost"] = ""

Suggested(f) ==
  CASE f = "proto" -> "tcp" [] f = "mode" -> "listen" [] f = "backend" -> "auto"
    [] f = "target" -> "local" [] f = "sshPort" -> "22" [] OTHER -> Unset(f)

\* TrimSpace, told apart as far as the samples go.
Trimmed(text) == CASE text = " " -> "" [] text = " eth0" -> "eth0" [] OTHER -> text

\* askString.  The end of the input is an empty line.
AskString(f, line) == IF Trimmed(line) = "" THEN Suggested(f) ELSE Trimmed(line)

Go == pc = "asking" /\ at <= Len(Questions)

\* Fault: what is no number is taken for a port.
AcceptsAnything(f, value) == f \in Field

\* askInt refuses what is no number.
Accepts(f, value) == f \in Ports => value \in Numbers

\* One question and its answer.
Ask ==
  /\ Go /\ Asks(Questions[at])
  /\ LET f == Questions[at] IN
       /\ prompted' = prompted \cup {f}
       /\ \E line \in Replies[f] \cup {""} :
            LET value == AskString(f, line) IN
            IF Accepts(f, value)
            THEN /\ args' = [args EXCEPT ![f] = value]
                 /\ replies' = [replies EXCEPT ![f] = line]
                 /\ at' = at + 1 /\ UNCHANGED pc
            ELSE pc' = "failed" /\ UNCHANGED <<args, replies, at>>
  /\ UNCHANGED <<cfg, printed, callVars>>

\* The input breaks, which is not its end.
InputFails ==
  /\ Go /\ Asks(Questions[at])
  /\ prompted' = prompted \cup {Questions[at]}
  /\ pc' = "failed"
  /\ UNCHANGED <<at, args, replies, cfg, printed, callVars>>

\* Nothing to ask; a host stands for the target ssh.
PassOver ==
  /\ Go /\ ~Asks(Questions[at])
  /\ at' = at + 1
  /\ args' = IF Questions[at] = "target" /\ args["target"] = ""
             THEN [args EXCEPT !["target"] = "ssh"] ELSE args
  /\ UNCHANGED <<pc, replies, prompted, cfg, printed, callVars>>

----------------------------------------------------------------------------
\* The configuration and the command line.

\* NewFlow: trimmed, the protocol in lower case, addresses as IPv4.
NormalForm(f, text) ==
  IF f = "proto" /\ Trimmed(text) = "TCP" THEN "tcp"
  ELSE IF f \in {"src", "dst"} /\ text = "::ffff:A" THEN "A"
  ELSE IF f \in {"proto", "src", "dst", "inIface"} THEN Trimmed(text) ELSE text

\* Fault: the two ports are passed in the wrong order.
SwappedPorts(a) ==
  LET b == [a EXCEPT !["sport"] = a["dport"], !["dport"] = a["sport"]]
  IN  [f \in Field |-> IF f = "backend" /\ b[f] = "" THEN "auto" ELSE NormalForm(f, b[f])]

Config(a) == [f \in Field |-> IF f = "backend" /\ a[f] = "" THEN "auto" ELSE NormalForm(f, a[f])]

FlowValid(c) ==
  /\ c["proto"] \in {"tcp", "udp"}
  /\ c["src"] \in {"A", "B"} /\ c["dst"] \in {"A", "B"}
  /\ c["sport"] # "70000" /\ c["dport"] # "70000"
  /\ c["inIface"] # "eth!"

\* The port of ssh is not looked at.
Valid(c) ==
  /\ FlowValid(c)
  /\ c["sport"] # "0" \/ c["dport"] # "0" \/ broad
  /\ c["mode"] \in {"listen", "active"}
  /\ c["backend"] \in {"auto", "nft", "iptables"}
  /\ c["target"] = "local" \/ (c["target"] = "ssh" /\ c["sshHost"] # "")

\* Fault: an interface is not printed.
LineWithoutIface(c) ==
  [f \in Field |-> IF f = "inIface" \/ (f \in SshFields /\ c["target"] # "ssh")
                   THEN FlagDefault(f) ELSE c[f]]

\* commandLineForConfig, as the flags that reading the line again gives: what it
\* leaves out takes the flag's default.
CommandLineFor(c) ==
  [f \in Field |-> IF c[f] = Unset(f) \/ (f \in SshFields /\ c["target"] # "ssh")
                   THEN FlagDefault(f) ELSE c[f]]

Start ==
  /\ pc = "asking" /\ at > Len(Questions)
  /\ IF Valid(Config(args))
     THEN /\ pc' = "started"
          /\ cfg' = Config(args)
          /\ printed' = IF prompted # {} /\ ~json THEN CommandLineFor(cfg') ELSE NotPrinted
     ELSE pc' = "failed" /\ UNCHANGED <<cfg, printed>>
  /\ UNCHANGED <<at, args, replies, prompted, callVars>>

\* A person copies the printed line.  Its other flags say what this call's said.
RunLineAgain ==
  /\ pc = "started" /\ printed # NotPrinted
  /\ before' = cfg
  /\ Call(printed)
  /\ UNCHANGED <<json, broad>>

Stopped ==
  /\ pc = "failed" \/ (pc = "started" /\ printed = NotPrinted)
  /\ UNCHANGED vars

Next == Ask \/ InputFails \/ PassOver \/ Start \/ RunLineAgain \/ Stopped

Spec == Init /\ [][Next]_vars

----------------------------------------------------------------------------
\* What trace.Run and the executor make of a configuration: nothing of the ssh
\* fields on a local target, and 22 of no port.
Effect(c) ==
  [f \in Field |-> IF f \in SshFields /\ c["target"] # "ssh" THEN ""
                   ELSE IF f = "sshPort" /\ c[f] = "0" THEN "22" ELSE c[f]]

\* README 28: the printed line is equivalent.  Run again it asks for nothing, is not
\* refused, and starts the same run, whichever way the first came by its values.
SameAgain ==
  before # NoConfig =>
    /\ prompted = {} /\ pc # "failed"
    /\ pc = "started" => Effect(cfg) = Effect(before)

\* app.go 122-153, 177-278: a run starts with what the flags said, else with the answer, else
\* with the default, for each of thirteen fields; a host alone means ssh.
AsTold ==
  LET Wanted(f) ==
        IF told[f] # Unset(f) THEN told[f]
        ELSE IF Trimmed(replies[f]) # "" THEN Trimmed(replies[f])
        ELSE IF f = "target" /\ told["sshHost"] # "" THEN "ssh"
        ELSE IF f = "sshPort" /\ cfg["target"] # "ssh" THEN "0"
        ELSE Suggested(f)
  IN  pc = "started" => \A f \in Field : cfg[f] = NormalForm(f, Wanted(f))

\* app.go 121, README 137: a script that says the protocol, both addresses, the mode and the
\* target is not kept waiting for an answer, unless it leaves out what ssh cannot do
\* without.
ScriptsAreNotAsked ==
  (/\ \A f \in {"proto", "src", "dst", "mode"} : told[f] # ""
   /\ told["target"] # "" \/ told["sshHost"] # "")
  => prompted \subseteq {f \in {"sshHost", "sshPort"} : told[f] = Unset(f)}
=============================================================================
