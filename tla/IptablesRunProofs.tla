------------------------- MODULE IptablesRunProofs -------------------------
(***************************************************************************)
(* A run of the iptables backend is a run, so that all of TraceRunProofs   *)
(* holds of it; and, as long as no other program holds the xtables lock,   *)
(* its cleanup script takes out every rule its setup script put in, however *)
(* far that script came.                                                   *)
(***************************************************************************)
EXTENDS IptablesRun, TraceRunProofs

Installable   == {SetupScript[k] : k \in 1..Len(SetupScript)}
NotDeleted(n) == {CleanupScript[k] : k \in (n + 1)..Len(CleanupScript)}

\* The run went on while its setup script may still be running across ssh.
Lost == Target = "ssh" /\ ret = "setup"

\* A rule is there only after the setup script was started, and it is one that
\* the cleanup script knows; from the cleanup on no rule comes any more, unless
\* the script is lost, and those still there are yet to be deleted.
RuleInv ==
  /\ pc \in {"detect", "start", "setup"} => script = "idle"
  /\ pc \notin Leaving => ret = "none"
  /\ script = "running" => pc = "installing" \/ Lost
  /\ script = "idle" => rules = {}
  /\ rules \subseteq Installable
  /\ pc \notin {"cleanup", "returning", "done"} => deleted = 0
  /\ pc = "cleanup" /\ ~Lost => rules \subseteq NotDeleted(deleted)
  /\ pc \in {"returning", "done"} /\ ~cleanupErr /\ ~Lost => rules = {}

\* A step of the backend is a step of the run or leaves the run alone.
LEMMA StepOfRun == [IptNext]_iptVars => [RunNext]_runVars
<1> SUFFICES ASSUME [IptNext]_iptVars PROVE [RunNext]_runVars
  OBVIOUS
<1>1. CASE AddRule
  BY <1>1 DEF AddRule
<1>2. CASE SetupExits
  BY <1>2 DEF SetupExits, RunNext
<1>3. CASE SetupKilled
  BY <1>3 DEF SetupKilled, RunNext
<1>4. CASE DeleteRule
  BY <1>4 DEF DeleteRule
<1>5. CASE CleanupEnds
  BY <1>5 DEF CleanupEnds, RunNext, Deferred
<1>6. CASE IptQuiet
  BY <1>6 DEF IptQuiet, RunNext, Deferred
<1>7. CASE UNCHANGED iptVars
  BY <1>7 DEF iptVars
<1> QED
  BY <1>1, <1>2, <1>3, <1>4, <1>5, <1>6, <1>7 DEF IptNext

\* iptables.go 21-106: the backend with its rules in view implements the run
\* without them.
THEOREM IptIsRun == IptSpec => RunSpec
<1>1. IptInit => RunInit
  BY DEF IptInit
<1> QED
  BY <1>1, StepOfRun, PTL DEF IptSpec, RunSpec

----------------------------------------------------------------------------
(* The scripts.                                                            *)

LEMMA LengthsOfScripts ==
  /\ Len(SetupScript) \in {4, 5} /\ Len(CleanupScript) \in {4, 5}
  /\ Installable \subseteq RuleNames
<1>1. CASE InIfaceGiven
  BY <1>1 DEF SetupScript, CleanupScript, Installable, RuleNames
<1>2. CASE ~InIfaceGiven
  BY <1>2 DEF SetupScript, CleanupScript, Installable, RuleNames
<1> QED
  BY <1>1, <1>2

\* Every rule the setup script may add has its deletion in the cleanup script.
LEMMA EveryRuleHasItsDeletion == Installable \subseteq NotDeleted(0)
<1> SUFFICES ASSUME NEW k \in 1..Len(SetupScript) PROVE SetupScript[k] \in NotDeleted(0)
  BY DEF Installable
<1>1. CASE InIfaceGiven
  <2>1. /\ SetupScript = <<"PREROUTING", "INPUT", "FORWARD", "POSTROUTING">>
        /\ CleanupScript = <<"POSTROUTING", "FORWARD", "INPUT", "PREROUTING">>
    BY <1>1 DEF SetupScript, CleanupScript
  <2>2. k \in 1..4 /\ 5 - k \in 1..4 /\ SetupScript[k] = CleanupScript[5 - k]
    BY <2>1
  <2> QED
    BY <2>1, <2>2 DEF NotDeleted
<1>2. CASE ~InIfaceGiven
  <2>1. /\ SetupScript = <<"PREROUTING", "OUTPUT", "INPUT", "FORWARD", "POSTROUTING">>
        /\ CleanupScript = <<"POSTROUTING", "FORWARD", "INPUT", "OUTPUT", "PREROUTING">>
    BY <1>2 DEF SetupScript, CleanupScript
  <2>2. k \in 1..5 /\ 6 - k \in 1..5 /\ SetupScript[k] = CleanupScript[6 - k]
    BY <2>1
  <2> QED
    BY <2>1, <2>2 DEF NotDeleted
<1> QED
  BY <1>1, <1>2

\* A deletion that takes its rule out leaves those of the commands after it.
LEMMA OneLess ==
  ASSUME NEW n \in Nat, n < Len(CleanupScript), NEW S \in SUBSET NotDeleted(n)
  PROVE  S \ {CleanupScript[n + 1]} \subseteq NotDeleted(n + 1)
<1> SUFFICES ASSUME NEW k \in (n + 1)..Len(CleanupScript),
                    CleanupScript[k] # CleanupScript[n + 1]
             PROVE  k \in ((n + 1) + 1)..Len(CleanupScript)
  BY DEF NotDeleted
<1> QED
  BY LengthsOfScripts

LEMMA NoneLeft == NotDeleted(Len(CleanupScript)) = {}
  BY LengthsOfScripts DEF NotDeleted

\* Every variable keeps its type.
THEOREM IptTypeCorrect == IptSpec => []IptTypeOK
<1> DEFINE HostTypeOK == /\ rules \subseteq RuleNames
                         /\ added \in 0..Len(SetupScript) /\ lastOK \in BOOLEAN
                         /\ deleted \in 0..Len(CleanupScript)
<1>1. IptInit => HostTypeOK
  BY LengthsOfScripts DEF IptInit
<1>2. HostTypeOK /\ [IptNext]_iptVars => HostTypeOK'
  <2> SUFFICES ASSUME HostTypeOK, [IptNext]_iptVars PROVE HostTypeOK'
    OBVIOUS
  <2> USE LengthsOfScripts
  <2>1. CASE AddRule
    <3>1. added' \in 1..Len(SetupScript) /\ SetupScript[added'] \in RuleNames
      BY <2>1 DEF AddRule, Installable
    <3>2. lastOK' \in BOOLEAN /\ deleted' = deleted
      BY <2>1 DEF AddRule
    <3>3. rules' \subseteq RuleNames
      BY <2>1, <3>1 DEF AddRule
    <3> QED
      BY <3>1, <3>2, <3>3
  <2>2. CASE DeleteRule
    BY <2>2 DEF DeleteRule
  <2>3. CASE UNCHANGED hostVars
    BY <2>3 DEF hostVars
  <2> QED
    BY <2>1, <2>2, <2>3 DEF IptNext, SetupExits, SetupKilled, CleanupEnds, iptVars
<1>3. IptSpec => []HostTypeOK
  <2> HIDE DEF HostTypeOK
  <2> QED
    BY <1>1, <1>2, PTL DEF IptSpec
<1>4. TypeOK /\ HostTypeOK => IptTypeOK
  BY DEF IptTypeOK
<1> QED
  BY <1>3, <1>4, IptIsRun, TypeCorrect, PTL

----------------------------------------------------------------------------
(* The rules in the kernel, while nobody else holds the lock.              *)

\* Every action preserves RuleInv.
LEMMA RuleStep ==
  ASSUME ~LockTaken, IptTypeOK, RuleInv, [IptNext]_iptVars
  PROVE  RuleInv'
<1> USE ConfigAssumption
        DEF feedVars, ctxVars, asideVars, resultVars, loopVars, hostVars, Goto, ReturnWith,
            Leaving, Lost
<1>1. CASE AddRule
  <2>1. UNCHANGED runVars /\ script = "running" /\ deleted' = deleted
    BY <1>1 DEF AddRule
  <2>2. UNCHANGED <<script, pc, ret, cleanupErr>>
    BY <2>1 DEF runVars
  <2>3. rules' \subseteq Installable
    <3>1. added' \in 1..Len(SetupScript)
      BY <1>1, LengthsOfScripts DEF AddRule, IptTypeOK
    <3> QED
      BY <1>1, <3>1 DEF AddRule, RuleInv, Installable
  <2> QED
    BY <2>1, <2>2, <2>3 DEF RuleInv
<1>2. CASE SetupExits
  BY <1>2 DEF SetupExits, ScriptExits, RuleInv
<1>3. CASE SetupKilled
  BY <1>3 DEF SetupKilled, ScriptExits, RuleInv
<1>4. CASE DeleteRule
  <2>1. /\ UNCHANGED runVars /\ pc = "cleanup" /\ deleted < Len(CleanupScript)
        /\ deleted' = deleted + 1 /\ rules' = rules \ {CleanupScript[deleted + 1]}
    BY <1>4 DEF DeleteRule
  <2>2. UNCHANGED <<script, pc, ret, cleanupErr>>
    BY <2>1 DEF runVars
  <2>3. ~Lost => rules' \subseteq NotDeleted(deleted')
    <3>1. deleted \in Nat
      BY LengthsOfScripts DEF IptTypeOK
    <3>2. ~Lost => rules \in SUBSET NotDeleted(deleted)
      BY <2>1 DEF RuleInv
    <3> QED
      BY <2>1, <3>1, <3>2, OneLess
  <2>4. rules' \subseteq rules
    BY <2>1
  <2> QED
    BY <2>1, <2>2, <2>3, <2>4 DEF RuleInv
<1>5. CASE CleanupEnds
  <2>1. /\ pc = "cleanup" /\ pc' = "returning" /\ UNCHANGED <<script, ret, rules, deleted>>
        /\ ~cleanupErr' => deleted = Len(CleanupScript)
    BY <1>5 DEF CleanupEnds, Cleanup
  <2>2. ~cleanupErr' /\ ~Lost => rules = {}
    BY <2>1, NoneLeft DEF RuleInv
  <2> QED
    BY <2>1, <2>2 DEF RuleInv
<1>6. CASE StopAndCancel /\ UNCHANGED hostVars
  <2>1. /\ pc = "deferred" /\ pc' = "cleanup"
        /\ UNCHANGED <<script, ret, cleanupErr, rules, deleted>>
    BY <1>6 DEF StopAndCancel
  <2>2. rules \subseteq NotDeleted(deleted)
    BY <2>1, EveryRuleHasItsDeletion DEF RuleInv
  <2> QED
    BY <2>1, <2>2 DEF RuleInv
<1>7. ASSUME UNCHANGED hostVars, IptQuiet, ~StopAndCancel PROVE RuleInv'
  <2>1. CASE Detect
    BY <1>7, <2>1 DEF Detect, RuleInv
  <2>2. CASE DetectFails
    BY <1>7, <2>2 DEF DetectFails, RuleInv
  <2>3. CASE StartMonitor
    BY <1>7, <2>3 DEF StartMonitor, RuleInv
  <2>4. CASE StartFails
    BY <1>7, <2>4 DEF StartFails, RuleInv
  <2>5. CASE LaunchSetup
    BY <1>7, <2>5 DEF LaunchSetup, RuleInv
  <2>6. CASE SetupSucceeds
    BY <1>7, <2>6 DEF SetupSucceeds, RuleInv
  <2>7. CASE SetupFails
    BY <1>7, <2>7 DEF SetupFails, ShellGaveUp, CancelTrace, RuleInv
  <2>8. CASE Snapshot
    BY <1>7, <2>8 DEF Snapshot, RuleInv
  <2>9a. CASE ProbeRefused
    BY <1>7, <2>9a DEF ProbeRefused, RuleInv
  <2>9b. CASE ProbeStarts
    BY <1>7, <2>9b DEF ProbeStarts, RuleInv
  <2>9c. CASE ProbeHeard
    BY <1>7, <2>9c DEF ProbeHeard, RuleInv
  <2>9d. CASE ProbeAbandoned
    BY <1>7, <2>9d DEF ProbeAbandoned, RuleInv
  <2>10. CASE SkipLine
    BY <1>7, <2>10 DEF SkipLine, RuleInv
  <2>11. CASE RecordLine
    BY <1>7, <2>11 DEF RecordLine, RuleInv
  <2>12. CASE FeedClosed
    BY <1>7, <2>12 DEF FeedClosed, RuleInv
  <2>13. CASE DrainFires
    BY <1>7, <2>13 DEF DrainFires, RuleInv
  <2>14. CASE TraceCtxDone
    BY <1>7, <2>14 DEF TraceCtxDone, RuleInv
  <2>15. CASE Return
    BY <1>7, <2>15 DEF Return, RuleInv
  <2>16. CASE FeedMoves
    BY <1>7, <2>16 DEF FeedMoves, RuleInv
  <2>17. CASE KillMonitor
    BY <1>7, <2>17 DEF KillMonitor, RuleInv
  <2>17a. CASE ProbeAnswers
    BY <1>7, <2>17a DEF ProbeAnswers, RuleInv
  <2>18. CASE DrainElapses
    BY <1>7, <2>18 DEF DrainElapses, RuleInv
  <2>19. CASE Deadline
    BY <1>7, <2>19 DEF Deadline, RuleInv
  <2>20. CASE Interrupt
    BY <1>7, <2>20 DEF Interrupt, CancelTrace, RuleInv
  <2>21. CASE UNCHANGED runVars
    BY <1>7, <2>21 DEF runVars, RuleInv
  <2> QED
    BY <1>7, <2>1, <2>2, <2>3, <2>4, <2>5, <2>6, <2>7, <2>8,
       <2>9a, <2>9b, <2>9c, <2>9d, <2>10,
       <2>11, <2>12, <2>13, <2>14, <2>15, <2>16, <2>17, <2>17a, <2>18, <2>19, <2>20, <2>21
    DEF IptQuiet, BeforeLoop, InLoop, Environment, Terminated
<1>8. CASE UNCHANGED iptVars
  BY <1>8 DEF iptVars, runVars, RuleInv
<1> QED
  BY <1>1, <1>2, <1>3, <1>4, <1>5, <1>6, <1>7, <1>8 DEF IptNext

LEMMA RuleInvariant ==
  ASSUME ~LockTaken
  PROVE  IptSpec => []RuleInv
<1>1. IptInit => RuleInv
  BY DEF IptInit, RunInit, RuleInv, Lost, Leaving
<1>2. IptTypeOK /\ RuleInv /\ [IptNext]_iptVars => RuleInv'
  BY RuleStep
<1> QED
  BY <1>1, <1>2, IptTypeCorrect, PTL DEF IptSpec

\* iptables.go 31-35, README 93: a local run that ends without a cleanup error
\* has left no rule, also when its setup script failed or was killed half-way.
THEOREM NothingLeft == ASSUME Target = "local", ~LockTaken PROVE IptSpec => []NoResidue
<1>1. RuleInv => NoResidue
  BY DEF RuleInv, Lost, NoResidue
<1> QED
  BY <1>1, RuleInvariant, PTL

\* iptables.go 50-53: on any target, only the work of a setup script that the run
\* has lost sight of may be left without a cleanup error.
THEOREM OnlyTheLostLeave == ASSUME ~LockTaken PROVE IptSpec => []OnlyLostSetupLeaves
<1>1. RuleInv => OnlyLostSetupLeaves
  BY DEF RuleInv, Lost, OnlyLostSetupLeaves
<1> QED
  BY <1>1, RuleInvariant, PTL

----------------------------------------------------------------------------
(* The stages, which the lock has no part in.                              *)

\* While the setup script may still add a rule, a local run waits for it.
ScriptInv ==
  /\ pc \in {"detect", "start", "setup"} => script = "idle"
  /\ script = "running" => pc = "installing"

LEMMA ScriptStep ==
  ASSUME Target = "local", ScriptInv, [IptNext]_iptVars
  PROVE  ScriptInv'
<1> USE DEF ScriptInv, feedVars, ctxVars, asideVars, resultVars, loopVars, Goto, ReturnWith
<1>1. CASE AddRule \/ DeleteRule
  BY <1>1 DEF AddRule, DeleteRule, runVars
<1>2. CASE SetupExits \/ SetupKilled
  BY <1>2 DEF SetupExits, SetupKilled, ScriptExits
<1>3. CASE CleanupEnds
  BY <1>3 DEF CleanupEnds, Cleanup
<1>4. CASE BeforeLoop
  <2>1. CASE Detect \/ DetectFails \/ StartMonitor \/ StartFails \/ Snapshot
    BY <2>1 DEF Detect, DetectFails, StartMonitor, StartFails, Snapshot
  <2>2. CASE LaunchSetup \/ SetupSucceeds
    BY <2>2 DEF LaunchSetup, SetupSucceeds
  <2>3. CASE SetupFails
    BY <2>3 DEF SetupFails, ShellGaveUp
  <2>4. CASE ProbeRefused \/ ProbeStarts \/ ProbeHeard \/ ProbeAbandoned
    BY <2>4 DEF ProbeRefused, ProbeStarts, ProbeHeard, ProbeAbandoned
  <2> QED
    BY <1>4, <2>1, <2>2, <2>3, <2>4 DEF BeforeLoop
<1>5. CASE InLoop
  <2>1. pc = "loop" /\ pc' \in {"loop", "deferred"} /\ script' = script
    BY <1>5 DEF InLoop, SkipLine, RecordLine, FeedClosed, DrainFires, TraceCtxDone
  <2> QED
    BY <2>1
<1>6. CASE StopAndCancel \/ Return
  BY <1>6 DEF StopAndCancel, Return
<1>7. CASE Environment \/ Terminated \/ UNCHANGED iptVars
  <2>1. pc' = pc /\ script' = script
    BY <1>7 DEF Environment, FeedMoves, KillMonitor, ProbeAnswers, DrainElapses, Deadline,
                Interrupt, Terminated, iptVars, runVars
  <2> QED
    BY <2>1
<1> QED
  BY <1>1, <1>2, <1>3, <1>4, <1>5, <1>6, <1>7 DEF IptNext, IptQuiet

\* Rules come while the script runs, go while the cleanup does, and do not change
\* otherwise.
LEMMA StepKeepsRules ==
  ASSUME ScriptInv, [IptNext]_iptVars
  PROVE  [Rules!TempNext]_(Rules!tempVars)
<1> USE DEF Rules!TempNext, Rules!tempVars, hostVars
<1>1. CASE AddRule
  <2>1. UNCHANGED runVars /\ pc = "installing" /\ rules \subseteq rules'
    BY <1>1 DEF AddRule, ScriptInv
  <2>2. pc' = pc
    BY <2>1 DEF runVars
  <2> QED
    BY <2>1, <2>2 DEF Rules!Install, Stage
<1>2. CASE SetupExits \/ SetupKilled
  BY <1>2 DEF SetupExits, SetupKilled, ScriptExits, Stage
<1>3. CASE DeleteRule
  <2>1. UNCHANGED runVars /\ pc = "cleanup" /\ rules' \subseteq rules
    BY <1>3 DEF DeleteRule
  <2>2. pc' = pc
    BY <2>1 DEF runVars
  <2> QED
    BY <2>1, <2>2 DEF Rules!Remove, Stage
<1>4. CASE CleanupEnds
  <2>1. pc = "cleanup" /\ pc' = "returning" /\ rules' = rules
    BY <1>4 DEF CleanupEnds, Cleanup, Goto
  <2> QED
    BY <2>1 DEF Rules!Remove, Stage
<1>5. CASE IptQuiet /\ UNCHANGED hostVars
  <2>1. rules' = rules
    BY <1>5
  <2>2. \/ Stage' = Stage
        \/ Stage = "before" /\ Stage' \in {"setup", "run", "after"}
        \/ Stage = "setup" /\ Stage' = "run"
        \/ Stage = "run" /\ Stage' = "cleanup"
    BY <1>5, StageAdvances DEF IptQuiet
  <2> QED
    BY <2>1, <2>2 DEF Rules!Advance, Rules!NextStages
<1>6. CASE UNCHANGED iptVars
  BY <1>6 DEF iptVars, runVars, Stage
<1> QED
  BY <1>1, <1>2, <1>3, <1>4, <1>5, <1>6 DEF IptNext

\* iptables.go 50-58: the rules of a local run keep to the stages of TempRules, whatever
\* fails and whoever holds the lock: in particular they stay as they were listed.
THEOREM RunKeepsRules == ASSUME Target = "local" PROVE IptSpec => RulesKept
<1>1. IptInit => Rules!TempInit
  BY BackendAssumption DEF IptInit, RunInit, Rules!TempInit, Stage
<1>2. IptInit => ScriptInv
  BY DEF IptInit, RunInit, ScriptInv
<1>3. ScriptInv /\ [IptNext]_iptVars => ScriptInv' /\ [Rules!TempNext]_(Rules!tempVars)
  BY ScriptStep, StepKeepsRules
<1> QED
  BY <1>1, <1>2, <1>3, PTL DEF IptSpec, RulesKept, Rules!TempSpec
=============================================================================
