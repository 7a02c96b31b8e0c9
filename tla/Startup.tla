------------------------------ MODULE Startup ------------------------------
(***************************************************************************)
(* trace.Run before backend.Run: the configuration is completed and        *)
(* validated, the privilege checked, the backend selected by probing the   *)
(* target, and the iptables backend detects its tools once more.  Every    *)
(* probe is a command on a target that others may change meanwhile, over a *)
(* connection that may fail.                                               *)
(***************************************************************************)
EXTENDS Integers

CONSTANTS Configs,      \* configurations a caller may pass
          MaxChanges    \* bound: changes others make to the target meanwhile

\* RunConfig.  "" and 0 are what a caller left out.
ConfigFields ==
  [flow: {"narrow", "broad", "bad"},     \* with a port, without any, or malformed
   allowBroad: BOOLEAN,
   mode: {"", "listen", "active", "other"},
   backend: {"", "auto", "nft", "iptables", "other"},
   kind: {"", "local", "ssh", "other"},
   hostGiven: BOOLEAN, sshPort: Int, sudo: BOOLEAN,
   timeout: Int, maxEvents: Int,
   traceLimit: {"", "valid", "bad"}, burst: Int]

ASSUME ConfigsAssumption == Configs \subseteq ConfigFields
ASSUME ChangesAssumption == MaxChanges \in Nat

\* The target: who we are there, which tools it has and which rules.  The tool
\* iptables-legacy and an iptables of the legacy kind show the same rules.
Targets ==
  [root: BOOLEAN, sudo: BOOLEAN,
   nft: BOOLEAN, nftRules: BOOLEAN,
   legacy: BOOLEAN, iptables: {"absent", "nf_tables", "legacy"}, legacyRules: BOOLEAN]

NoTools == [command |-> "none", rules |-> FALSE]
Tools   == {NoTools} \cup [command: {"iptables-legacy", "iptables"}, rules: BOOLEAN]

VARIABLES
  pc,          \* where the goroutine of trace.Run is
  cfg,         \* its configuration
  target,      \* the target as it is
  nftAvailable,  \* the probe of nft succeeded
  tools,       \* what the latest detection of the iptables tools returned
  detecting,   \* who asked for the detection: "probe", "run", or "none"
  chosen,      \* the selected backend
  emptyWarned, \* the result warns of an empty iptables ruleset
  moved,       \* the target has changed since the probes of `auto` began
  changes,     \* changes of the target so far
  failures     \* some command failed for a reason of its own

probeVars == <<nftAvailable, tools, detecting, moved>>
vars == <<pc, cfg, target, probeVars, chosen, emptyWarned, changes, failures>>

Detecting == {"legacyVersion", "legacySave", "version", "save"}

\* Every variable keeps its type.
StartTypeOK ==
  /\ pc \in {"configure", "privilege", "select", "probeNft", "choose", "running", "failed"}
            \cup Detecting
  /\ cfg \in ConfigFields
  /\ target \in Targets
  /\ nftAvailable \in BOOLEAN
  /\ tools \in Tools
  /\ detecting \in {"none", "probe", "run"} /\ moved \in BOOLEAN
  /\ chosen \in {"none", "nft", "iptables"}
  /\ emptyWarned \in BOOLEAN
  /\ changes \in 0..MaxChanges /\ failures \in BOOLEAN

Init ==
  /\ pc = "configure"
  /\ cfg \in Configs /\ target \in Targets
  /\ nftAvailable = FALSE
  /\ tools = NoTools /\ detecting = "none" /\ moved = FALSE
  /\ chosen = "none" /\ emptyWarned = FALSE
  /\ changes = 0 /\ failures = FALSE

----------------------------------------------------------------------------
\* The configuration.

Default(value, unset, default) == IF value = unset THEN default ELSE value

\* Fault: the defaults of two fields are swapped.
SwappedNormalized(c) ==
  [c EXCEPT !.kind = Default(@, "", "local"), !.timeout = Default(@, 0, 30),
            !.backend = Default(@, "", "listen"), !.mode = Default(@, "", "auto"),
            !.maxEvents = Default(@, 0, 200),
            !.traceLimit = Default(@, "", "valid"), !.burst = Default(@, 0, 20)]

Normalized(c) ==
  LET kind == Default(c.kind, "", "local")
  IN  [c EXCEPT !.kind = kind,
                !.sshPort = IF kind = "ssh" THEN Default(@, 0, 22) ELSE @,
                !.timeout = Default(@, 0, 30),
                !.backend = Default(@, "", "auto"),
                !.mode = Default(@, "", "listen"),
                !.maxEvents = Default(@, 0, 200),
                !.traceLimit = Default(@, "", "valid"),
                !.burst = Default(@, 0, 20)]

FlowValid(c) == c.flow # "bad"

IsBroadPortMatch(c) == c.flow = "broad"

\* Fault: the limits are not looked at.
LaxValid(c) ==
  /\ FlowValid(c) /\ (IsBroadPortMatch(c) => c.allowBroad)
  /\ c.mode \in {"listen", "active"} /\ c.backend \in {"auto", "nft", "iptables"}
  /\ c.kind = "local" \/ (c.kind = "ssh" /\ c.hostGiven)
  /\ c.timeout > 0 /\ c.traceLimit = "valid"

Valid(c) ==
  /\ FlowValid(c) /\ (IsBroadPortMatch(c) => c.allowBroad)
  /\ c.mode \in {"listen", "active"}
  /\ c.backend \in {"auto", "nft", "iptables"}
  /\ c.kind = "local" \/ (c.kind = "ssh" /\ c.hostGiven)
  /\ c.timeout > 0 /\ c.maxEvents >= 1
  /\ c.traceLimit = "valid" /\ c.burst >= 1

\* Completed, validated, and given a random run id, which may fail too.
Configure ==
  /\ pc = "configure"
  /\ cfg' = Normalized(cfg)
  /\ \E idOK \in BOOLEAN :
       /\ pc' = IF Valid(cfg') /\ idOK THEN "privilege" ELSE "failed"
       /\ failures' = ~idOK
  /\ UNCHANGED <<target, probeVars, chosen, emptyWarned, changes>>

----------------------------------------------------------------------------
\* Commands on the target.

\* One command: it succeeds if the target can do it, unless something else fails
\* (the connection, the context, a lock).
Shell(possible, ok) ==
  /\ ok => possible
  /\ failures' = (failures \/ (possible /\ ~ok))
  /\ UNCHANGED <<cfg, target, changes>>

CheckPrivilege ==
  /\ pc = "privilege"
  /\ \E ok \in BOOLEAN :
       /\ Shell(IF cfg.sudo THEN target.sudo ELSE target.root, ok)
       /\ pc' = IF ok THEN "select" ELSE "failed"
  /\ UNCHANGED <<probeVars, chosen, emptyWarned>>

\* A backend that was chosen: nft starts, iptables looks for its tools (again).
Enter(backend) ==
  /\ chosen' = backend
  /\ IF backend = "nft"
     THEN pc' = "running" /\ UNCHANGED detecting
     ELSE pc' = "legacyVersion" /\ detecting' = "run"

SelectBackend ==
  /\ pc = "select"
  /\ IF cfg.backend = "auto"
     THEN pc' = "probeNft" /\ UNCHANGED <<chosen, detecting>>
     ELSE Enter(cfg.backend)
  /\ UNCHANGED <<cfg, target, nftAvailable, tools, moved, emptyWarned, changes, failures>>

ProbeNft ==
  /\ pc = "probeNft"
  /\ \E ok \in BOOLEAN :
       /\ Shell(target.nft, ok)
       /\ nftAvailable' = ok
  /\ pc' = "legacyVersion" /\ detecting' = "probe" /\ moved' = FALSE
  /\ UNCHANGED <<tools, chosen, emptyWarned>>

\* detectIPTablesLegacyTools.  Who asked for it goes on with what it found.
Detected(found) ==
  /\ tools' = found
  /\ pc' = CASE detecting = "probe" -> "choose"
             [] detecting = "run" /\ found # NoTools -> "running"
             [] OTHER -> "failed"
  /\ emptyWarned' = (detecting = "run" /\ found # NoTools /\ ~found.rules)
  /\ detecting' = "none"

LegacyVersion ==
  /\ pc = "legacyVersion"
  /\ \E ok \in BOOLEAN :
       /\ Shell(target.legacy, ok)
       /\ pc' = IF ok THEN "legacySave" ELSE "version"
  /\ UNCHANGED <<probeVars, chosen, emptyWarned>>

LegacySave ==
  /\ pc = "legacySave"
  /\ \E ok \in BOOLEAN :
       /\ Shell(target.legacy, ok)
       /\ Detected(IF ok THEN [command |-> "iptables-legacy", rules |-> target.legacyRules]
                         ELSE NoTools)
  /\ UNCHANGED <<nftAvailable, moved, chosen>>

\* Fault: no look at the version of the default iptables.
AnyVersion ==
  /\ pc = "version"
  /\ \E ok \in BOOLEAN :
       /\ Shell(target.iptables # "absent", ok)
       /\ IF ok THEN pc' = "save" /\ UNCHANGED <<tools, detecting, emptyWarned>>
                ELSE Detected(NoTools)
  /\ UNCHANGED <<nftAvailable, moved, chosen>>

\* The default iptables may be the one on top of nftables: it is not used.
DefaultVersion ==
  /\ pc = "version"
  /\ \E ok \in BOOLEAN :
       /\ Shell(target.iptables # "absent", ok)
       /\ IF ok /\ target.iptables = "legacy"
          THEN pc' = "save" /\ UNCHANGED <<tools, detecting, emptyWarned>>
          ELSE Detected(NoTools)
  /\ UNCHANGED <<nftAvailable, moved, chosen>>

\* What it lists is what the default iptables is now.
DefaultSave ==
  /\ pc = "save"
  /\ \E ok \in BOOLEAN :
       /\ Shell(target.iptables # "absent", ok)
       /\ Detected(IF ok THEN [command |-> "iptables",
                               rules |-> IF target.iptables = "legacy" THEN target.legacyRules
                                                                       ELSE target.nftRules]
                         ELSE NoTools)
  /\ UNCHANGED <<nftAvailable, moved, chosen>>

NoBackend == pc' = "failed" /\ UNCHANGED <<chosen, detecting>>

\* Fault: a legacy stack without rules is preferred too.
EagerChoose ==
  /\ pc = "choose"
  /\ \/ tools # NoTools /\ Enter("iptables")
     \/ tools = NoTools /\ nftAvailable /\ Enter("nft")
     \/ tools = NoTools /\ ~nftAvailable /\ NoBackend
  /\ UNCHANGED <<cfg, target, nftAvailable, tools, moved, emptyWarned, changes, failures>>

\* Whether nft has rules makes no difference: it comes second in either case.
Choose ==
  /\ pc = "choose"
  /\ \/ tools.rules /\ Enter("iptables")
     \/ ~tools.rules /\ nftAvailable /\ Enter("nft")
     \/ ~tools.rules /\ ~nftAvailable /\ tools # NoTools /\ Enter("iptables")
     \/ ~nftAvailable /\ tools = NoTools /\ NoBackend
  /\ UNCHANGED <<cfg, target, nftAvailable, tools, moved, emptyWarned, changes, failures>>

----------------------------------------------------------------------------
\* Somebody installs or removes a tool, or adds the first rule or deletes the last.
TargetChanges ==
  /\ pc \notin {"running", "failed"} /\ changes < MaxChanges
  /\ changes' = changes + 1 /\ moved' = TRUE
  /\ \/ \E field \in {"nft", "nftRules", "legacy", "legacyRules"} :
          target' = [target EXCEPT ![field] = ~@]
     \/ \E kind \in {"absent", "nf_tables", "legacy"} \ {target.iptables} :
          target' = [target EXCEPT !.iptables = kind]
  /\ UNCHANGED <<pc, cfg, nftAvailable, tools, detecting, chosen, emptyWarned, failures>>

Terminated == pc \in {"running", "failed"} /\ UNCHANGED vars

Detection == LegacyVersion \/ LegacySave \/ DefaultVersion \/ DefaultSave

Next == Configure \/ CheckPrivilege \/ SelectBackend \/ ProbeNft \/ Detection \/ Choose
        \/ TargetChanges \/ Terminated

Spec == Init /\ [][Next]_vars

----------------------------------------------------------------------------
\* types.go 185-223, run.go 36-105: a run starts only with a flow that can be
\* matched, as narrow as was asked, with the mode, the target and the limits that
\* TraceRun assumes, the right to change rules, and the backend that was asked for.
Privileged == IF cfg.sudo THEN target.sudo ELSE target.root

ConfigFits ==
  pc = "running" =>
    /\ cfg.flow # "bad" /\ (cfg.flow = "broad" => cfg.allowBroad)
    /\ cfg.mode \in {"listen", "active"}
    /\ cfg.kind = "local" \/ (cfg.kind = "ssh" /\ cfg.hostGiven /\ cfg.sshPort # 0)
    /\ cfg.maxEvents \in Nat \ {0} /\ cfg.timeout > 0
    /\ cfg.traceLimit = "valid" /\ cfg.burst > 0
    /\ Privileged
    /\ chosen = cfg.backend \/ (cfg.backend = "auto" /\ chosen \in {"nft", "iptables"})

Admitted == Valid(cfg) /\ Privileged

\* README 88: the backend of a target, told in terms of the target.
Best(t) ==
  LET legacyTools == t.legacy \/ t.iptables = "legacy"
  IN  IF legacyTools /\ t.legacyRules THEN "iptables"
      ELSE IF t.nft THEN "nft"
      ELSE IF legacyTools THEN "iptables" ELSE "none"

\* run.go 108-153: on a target that stays as the probes met it, and with commands
\* that fail only when they must, `auto` comes to run the right backend, and fails
\* only if there is none: the second detection never undoes the choice.
AutoIsBest ==
  pc \in {"running", "failed"} /\ Admitted /\ cfg.backend = "auto" /\ ~moved /\ ~failures =>
    chosen = Best(target) /\ (pc = "running" <=> chosen # "none")

\* run.go 120-128, iptables.go 28-30: whatever commands failed, and whatever others
\* did to the target before the probes, `auto` passes over an nft whose probe
\* succeeded only for iptables rules that are there when the run starts, unless the
\* target was changed after the probes had begun.
NftYieldsToRules ==
  pc = "running" /\ cfg.backend = "auto" /\ chosen = "iptables" /\ nftAvailable =>
    target.legacyRules \/ moved
=============================================================================
