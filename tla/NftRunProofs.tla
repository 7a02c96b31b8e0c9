----------------------------- MODULE NftRunProofs -----------------------------
(***************************************************************************)
(* A run of the nftables backend is a run, so that all of TraceRunProofs   *)
(* holds of it; and on a local target it leaves no table behind.           *)
(***************************************************************************)
EXTENDS NftRun, TraceRunProofs

\* While the setup script may still commit, the run waits for it; a table is
\* there only after the script was started, and after a clean cleanup
\* only if its deletion failed.
ScriptInv ==
  /\ pc \in {"detect", "start", "setup"} => script = "idle"
  /\ script = "running" => pc = "installing"
  /\ script = "idle" => ~table
  /\ refused => DeletionFails
  /\ pc \in {"returning", "done"} /\ ~cleanupErr => (table => refused)

\* A step of the backend is a step of the run or leaves the run alone.
LEMMA StepOfRun == [NftNext]_nftVars => [RunNext]_runVars
<1> SUFFICES ASSUME [NftNext]_nftVars PROVE [RunNext]_runVars
  OBVIOUS
<1>1. CASE ScriptCommits
  BY <1>1 DEF ScriptCommits, RunNext
<1>2. CASE ScriptRejected
  BY <1>2 DEF ScriptRejected, RunNext
<1>3. CASE DeleteTable
  BY <1>3 DEF DeleteTable, RunNext, Deferred
<1>4. CASE NftQuiet
  BY <1>4 DEF NftQuiet, RunNext, Deferred
<1>5. CASE UNCHANGED nftVars
  BY <1>5 DEF nftVars
<1> QED
  BY <1>1, <1>2, <1>3, <1>4, <1>5 DEF NftNext

\* nft.go 16-99: the backend with its table in view implements the run without it.
THEOREM NftIsRun == NftSpec => RunSpec
<1>1. NftInit => RunInit
  BY DEF NftInit
<1> QED
  BY <1>1, StepOfRun, PTL DEF NftSpec, RunSpec

\* Every behaviour of the backend is well typed.
THEOREM NftTypeCorrect == NftSpec => []NftTypeOK
<1> DEFINE TableTypeOK == table \in BOOLEAN /\ refused \in BOOLEAN
<1>1. NftInit => TableTypeOK
  BY DEF NftInit
<1>2. TableTypeOK /\ [NftNext]_nftVars => TableTypeOK'
  BY DEF NftNext, ScriptCommits, ScriptRejected, DeleteTable, nftVars, tableVars
<1>3. NftSpec => []TableTypeOK
  <2> HIDE DEF TableTypeOK
  <2> QED
    BY <1>1, <1>2, PTL DEF NftSpec
<1>4. TypeOK /\ TableTypeOK => NftTypeOK
  BY DEF NftTypeOK
<1> QED
  BY <1>3, <1>4, NftIsRun, TypeCorrect, PTL

\* nft.go 62-65, 93-95: in a result of this backend "timeout" means no event.
THEOREM NftTimeoutIsNoEvent == NftSpec => []OutcomeAgrees
  BY NftIsRun, TimeoutIsNoEvent, PTL

----------------------------------------------------------------------------
(* The temporary table, on a local target.                                 *)

\* Every action preserves ScriptInv, because a local Shell outlives its script.
LEMMA ScriptStep ==
  ASSUME Target = "local", NftTypeOK, ScriptInv, [NftNext]_nftVars
  PROVE  ScriptInv'
<1> USE DEF feedVars, ctxVars, asideVars, resultVars, loopVars, tableVars, Goto, ReturnWith
<1>1. CASE ScriptCommits
  BY <1>1 DEF ScriptCommits, ScriptExits, ScriptInv
<1>2. CASE ScriptRejected
  BY <1>2 DEF ScriptRejected, ScriptExits, ScriptInv
<1>3. CASE DeleteTable
  <2>1. /\ pc = "cleanup" /\ pc' = "returning" /\ script' = script
        /\ table \in BOOLEAN /\ refused' \in BOOLEAN
    BY <1>3 DEF DeleteTable, Cleanup, NftTypeOK
  <2>2. refused' => table /\ DeletionFails
    BY <1>3 DEF DeleteTable
  <2>3. table' => refused' \/ (cleanupErr' /\ table)
    BY <1>3 DEF DeleteTable
  <2>4. script = "idle" => ~table
    BY <1>3 DEF ScriptInv
  <2> QED
    BY <2>1, <2>2, <2>3, <2>4, <1>3 DEF ScriptInv
<1>4. ASSUME UNCHANGED tableVars, NftQuiet PROVE ScriptInv'
  <2>1. CASE Detect
    BY <1>4, <2>1 DEF Detect, ScriptInv
  <2>2. CASE DetectFails
    BY <1>4, <2>2 DEF DetectFails, ScriptInv
  <2>3. CASE StartMonitor
    BY <1>4, <2>3 DEF StartMonitor, ScriptInv
  <2>4. CASE StartFails
    BY <1>4, <2>4 DEF StartFails, ScriptInv
  <2>5. CASE LaunchSetup
    BY <1>4, <2>5 DEF LaunchSetup, ScriptInv
  <2>6. CASE SetupSucceeds
    BY <1>4, <2>6 DEF SetupSucceeds, ScriptInv
  <2>7. CASE SetupFails
    BY <1>4, <2>7 DEF SetupFails, ShellGaveUp, CancelTrace, ScriptInv
  <2>8. CASE Snapshot
    BY <1>4, <2>8 DEF Snapshot, ScriptInv
  <2>9a. CASE ProbeRefused
    BY <1>4, <2>9a DEF ProbeRefused, ScriptInv
  <2>9b. CASE ProbeStarts
    BY <1>4, <2>9b DEF ProbeStarts, ScriptInv
  <2>9c. CASE ProbeHeard
    BY <1>4, <2>9c DEF ProbeHeard, ScriptInv
  <2>9d. CASE ProbeAbandoned
    BY <1>4, <2>9d DEF ProbeAbandoned, ScriptInv
  <2>10. CASE SkipLine
    BY <1>4, <2>10 DEF SkipLine, ScriptInv
  <2>11. CASE RecordLine
    BY <1>4, <2>11 DEF RecordLine, ScriptInv
  <2>12. CASE FeedClosed
    BY <1>4, <2>12 DEF FeedClosed, ScriptInv
  <2>13. CASE DrainFires
    BY <1>4, <2>13 DEF DrainFires, ScriptInv
  <2>14. CASE TraceCtxDone
    BY <1>4, <2>14 DEF TraceCtxDone, ScriptInv
  <2>15. CASE StopAndCancel
    BY <1>4, <2>15 DEF StopAndCancel, CancelTrace, ScriptInv
  <2>16. CASE Return
    BY <1>4, <2>16 DEF Return, ScriptInv
  <2>17. CASE FeedMoves
    BY <1>4, <2>17 DEF FeedMoves, ScriptInv
  <2>18. CASE KillMonitor
    BY <1>4, <2>18 DEF KillMonitor, ScriptInv
  <2>18a. CASE ProbeAnswers
    BY <1>4, <2>18a DEF ProbeAnswers, ScriptInv
  <2>19. CASE DrainElapses
    BY <1>4, <2>19 DEF DrainElapses, ScriptInv
  <2>20. CASE Deadline
    BY <1>4, <2>20 DEF Deadline, ScriptInv
  <2>21. CASE Interrupt
    BY <1>4, <2>21 DEF Interrupt, CancelTrace, ScriptInv
  <2>22. CASE UNCHANGED runVars
    BY <1>4, <2>22 DEF runVars, ScriptInv
  <2> QED
    BY <1>4, <2>1, <2>2, <2>3, <2>4, <2>5, <2>6, <2>7, <2>8,
       <2>9a, <2>9b, <2>9c, <2>9d, <2>10,
       <2>11, <2>12, <2>13, <2>14, <2>15, <2>16, <2>17, <2>18, <2>18a, <2>19, <2>20,
       <2>21, <2>22
    DEF NftQuiet, BeforeLoop, InLoop, Environment, Terminated
<1>5. CASE UNCHANGED nftVars
  BY <1>5 DEF nftVars, runVars, ScriptInv
<1> QED
  BY <1>1, <1>2, <1>3, <1>4, <1>5 DEF NftNext

LEMMA ScriptInvariant ==
  ASSUME Target = "local"
  PROVE  NftSpec => []ScriptInv
<1>1. NftInit => ScriptInv
  BY DEF NftInit, RunInit, ScriptInv
<1>2. NftTypeOK /\ ScriptInv /\ [NftNext]_nftVars => ScriptInv'
  BY ScriptStep
<1> QED
  BY <1>1, <1>2, NftTypeCorrect, PTL DEF NftSpec

\* nft.go 20-24: a local run that ends without a cleanup error has left no script
\* that could still add the table, and no table but one that nft failed to delete.
THEOREM NothingLeft == ASSUME Target = "local" PROVE NftSpec => []NoResidue
<1>1. ScriptInv => NoResidue
  BY DEF ScriptInv, NoResidue
<1> QED
  BY <1>1, ScriptInvariant, PTL

\* nft.go 131-136: ... which is none at all, where deletions do not fail.
THEOREM NoTableLeft ==
  ASSUME Target = "local", ~DeletionFails
  PROVE  NftSpec => [](pc = "done" /\ ~cleanupErr => ~table)
<1>1. ScriptInv => (pc = "done" /\ ~cleanupErr => ~table)
  BY DEF ScriptInv
<1> QED
  BY <1>1, ScriptInvariant, PTL

\* The table comes while the script runs, goes while the cleanup does, and does not
\* change otherwise.
LEMMA StepKeepsRules ==
  ASSUME ScriptInv, [NftNext]_nftVars
  PROVE  [Rules!TempNext]_(Rules!tempVars)
<1> USE DEF Rules!TempNext, Rules!tempVars, tableVars
<1>1. CASE ScriptCommits
  <2>1. pc = "installing" /\ pc' = pc /\ table' = TRUE
    BY <1>1 DEF ScriptCommits, ScriptExits, ScriptInv
  <2> QED
    BY <2>1 DEF Rules!Install, Stage
<1>2. CASE ScriptRejected
  BY <1>2 DEF ScriptRejected, ScriptExits, Stage
<1>3. CASE DeleteTable
  <2>1. pc = "cleanup" /\ pc' = "returning" /\ (table' => table)
    BY <1>3 DEF DeleteTable, Cleanup, Goto
  <2> QED
    BY <2>1 DEF Rules!Remove, Stage
<1>4. CASE NftQuiet /\ UNCHANGED tableVars
  <2>1. table' = table
    BY <1>4
  <2>2. \/ Stage' = Stage
        \/ Stage = "before" /\ Stage' \in {"setup", "run", "after"}
        \/ Stage = "setup" /\ Stage' = "run"
        \/ Stage = "run" /\ Stage' = "cleanup"
    BY <1>4, StageAdvances DEF NftQuiet
  <2> QED
    BY <2>1, <2>2 DEF Rules!Advance, Rules!NextStages
<1>5. CASE UNCHANGED nftVars
  BY <1>5 DEF nftVars, runVars, Stage
<1> QED
  BY <1>1, <1>2, <1>3, <1>4, <1>5 DEF NftNext

\* nft.go 39-47: the table of a local run keeps to the stages of TempRules, whatever
\* fails: in particular it stays as it was listed.
THEOREM RunKeepsRules == ASSUME Target = "local" PROVE NftSpec => RulesKept
<1>1. NftInit => Rules!TempInit
  BY BackendAssumption DEF NftInit, RunInit, Rules!TempInit, Stage
<1>2. ScriptInv /\ [NftNext]_nftVars => [Rules!TempNext]_(Rules!tempVars)
  BY StepKeepsRules
<1> QED
  BY <1>1, <1>2, ScriptInvariant, PTL DEF NftSpec, RulesKept, Rules!TempSpec
=============================================================================
