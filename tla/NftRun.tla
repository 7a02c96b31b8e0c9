------------------------------- MODULE NftRun -------------------------------
(***************************************************************************)
(* A run of the nftables backend and its table in the kernel: TraceRun     *)
(* with what nftSetupScript and nftCleanupScript do.                       *)
(***************************************************************************)
EXTENDS TraceRun

CONSTANT DeletionFails   \* nft may fail to delete a table that is there

ASSUME BackendAssumption == Backend = "nft"
ASSUME DeletionAssumption == DeletionFails \in BOOLEAN

VARIABLES table,     \* the table nftracepath_<runid> is in the kernel
          refused    \* its deletion failed (only the properties read this)

tableVars == <<table, refused>>
nftVars   == <<runVars, tableVars>>

\* Every variable, those of the run included, keeps its type.
NftTypeOK == TypeOK /\ table \in BOOLEAN /\ refused \in BOOLEAN

NftInit == RunInit /\ table = FALSE /\ refused = FALSE

\* `nft -f -` applies the whole batch as one transaction ...
ScriptCommits == ScriptExits("ok") /\ table' = TRUE /\ UNCHANGED refused

\* ... or nothing of it.
ScriptRejected == ScriptExits("failed") /\ UNCHANGED tableVars

\* `nft delete table ... || true`: the script succeeds also when there is no
\* table, and when nft failed to delete it.  A shell that gave up may have deleted
\* the table or not.
DeleteTable ==
  /\ Cleanup
  /\ refused' \in IF table /\ DeletionFails THEN BOOLEAN ELSE {FALSE}
  /\ table' \in IF refused' THEN {TRUE} ELSE IF cleanupErr' THEN {table, FALSE} ELSE {FALSE}

NftQuiet == BeforeLoop \/ InLoop \/ StopAndCancel \/ Return \/ Environment \/ Terminated

NftNext == ScriptCommits \/ ScriptRejected \/ DeleteTable \/ (NftQuiet /\ UNCHANGED tableVars)

NftSpec == NftInit /\ [][NftNext]_nftVars

\* The fairness of a run: see TraceRun.
NftFairSpec == NftSpec /\ Scheduling /\ ScriptEnds /\ ListingEnds

----------------------------------------------------------------------------
\* nft.go 20-24, README 93: when the run is over and reports no cleanup error,
\* nothing on the target is about to add the table, and a table that is still there
\* is one that nft failed to delete.
NoResidue == pc = "done" /\ ~cleanupErr => (table => refused) /\ script # "running"

Rules == INSTANCE TempRules WITH rules <- IF table THEN {"table"} ELSE {}, stage <- Stage

\* nft.go 39-47: on a local target the table comes and goes as TempRules says.  In
\* particular it stays as it was listed, and no late script adds it again.
RulesKept == Rules!TempSpec
=============================================================================
