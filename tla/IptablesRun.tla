----------------------------- MODULE IptablesRun -----------------------------
(***************************************************************************)
(* A run of the iptables backend and its rules in the kernel: TraceRun     *)
(* with the scripts of iptablesBackend.  Unlike the batch of nft, they are *)
(* a command per rule, each of which succeeds or fails on its own.         *)
(***************************************************************************)
EXTENDS TraceRun

CONSTANTS InIfaceGiven,    \* cfg.Flow.InIface is not empty
          LockTaken        \* another program may hold the xtables lock

ASSUME BackendAssumption == Backend = "iptables"
ASSUME ScriptAssumption == InIfaceGiven \in BOOLEAN /\ LockTaken \in BOOLEAN

VARIABLES rules,      \* the run's rules that are in the kernel
          added,      \* commands of the setup script that ran
          lastOK,     \* whether the last of them succeeded
          deleted     \* commands of the cleanup script that ran

hostVars == <<rules, added, lastOK, deleted>>
iptVars  == <<runVars, hostVars>>

\* The rules of a run, named for their chains, in the order of the setup script.
SetupScript ==
  IF InIfaceGiven
  THEN <<"PREROUTING", "INPUT", "FORWARD", "POSTROUTING">>
  ELSE <<"PREROUTING", "OUTPUT", "INPUT", "FORWARD", "POSTROUTING">>

\* Fault: the rule that is only sometimes installed is forgotten.
CleanupWithoutOutput == <<"POSTROUTING", "FORWARD", "INPUT", "PREROUTING">>

CleanupScript ==
  IF InIfaceGiven
  THEN <<"POSTROUTING", "FORWARD", "INPUT", "PREROUTING">>
  ELSE <<"POSTROUTING", "FORWARD", "INPUT", "OUTPUT", "PREROUTING">>

RuleNames == {"PREROUTING", "OUTPUT", "INPUT", "FORWARD", "POSTROUTING"}

\* Every variable, those of the run included, keeps its type.
IptTypeOK ==
  /\ TypeOK
  /\ rules \subseteq RuleNames
  /\ added \in 0..Len(SetupScript) /\ lastOK \in BOOLEAN
  /\ deleted \in 0..Len(CleanupScript)

IptInit == RunInit /\ rules = {} /\ added = 0 /\ lastOK = TRUE /\ deleted = 0

----------------------------------------------------------------------------
\* The setup script, after LaunchSetup started it.  A command fails when the
\* lock is taken, or the kernel lacks the target or a match.
AddRule ==
  /\ script = "running" /\ added < Len(SetupScript)
  /\ added' = added + 1
  /\ lastOK' \in BOOLEAN
  /\ rules' = IF lastOK' THEN rules \cup {SetupScript[added']} ELSE rules
  /\ UNCHANGED <<runVars, deleted>>

\* The commands are joined by newlines: the status is that of the last one.
SetupExits ==
  /\ added = Len(SetupScript)
  /\ ScriptExits(IF lastOK THEN "ok" ELSE "failed")
  /\ UNCHANGED hostVars

\* The shell is killed between two commands.  Nothing kills it across ssh.
SetupKilled ==
  /\ Target = "local" /\ ctx = "cancelled"
  /\ ScriptExits("failed")
  /\ UNCHANGED hostVars

\* The cleanup script: a deletion that fails is no error.
DeleteRule ==
  /\ pc = "cleanup" /\ deleted < Len(CleanupScript)
  /\ deleted' = deleted + 1
  /\ rules' \in {rules \ {CleanupScript[deleted']}} \cup (IF LockTaken THEN {rules} ELSE {})
  /\ UNCHANGED <<runVars, added, lastOK>>

\* Fault: nobody waits for the cleanup script.
CleanupNotAwaited == Cleanup /\ UNCHANGED hostVars

\* Its end, or the end of its five seconds.
CleanupEnds ==
  /\ Cleanup
  /\ ~cleanupErr' => deleted = Len(CleanupScript)
  /\ UNCHANGED hostVars

IptQuiet == BeforeLoop \/ InLoop \/ StopAndCancel \/ Return \/ Environment \/ Terminated

IptNext == AddRule \/ SetupExits \/ SetupKilled \/ DeleteRule \/ CleanupEnds
           \/ (IptQuiet /\ UNCHANGED hostVars)

IptSpec == IptInit /\ [][IptNext]_iptVars

----------------------------------------------------------------------------
\* iptables.go 31-35, README 93: when the run is over and reports no cleanup
\* error, its rules are gone and no setup script is left to add more.  A setup
\* that failed half-way counts.
NoResidue == pc = "done" /\ ~cleanupErr => rules = {} /\ script # "running"

\* iptables.go 50-53: what an ssh target may be left with without a cleanup error
\* is the work of a setup script the run has lost sight of.
OnlyLostSetupLeaves ==
  pc = "done" /\ ~cleanupErr /\ (rules # {} \/ script = "running") => ret = "setup"

Rules == INSTANCE TempRules WITH stage <- Stage

\* iptables.go 50-58: on a local target the rules come and go as TempRules says.  In
\* particular no rule comes or goes after the numbers were listed, until the cleanup.
RulesKept == Rules!TempSpec
=============================================================================
