----------------------------- MODULE TempRules -----------------------------
(***************************************************************************)
(* What a run promises to the owner of a firewall while it goes on: its    *)
(* rules come during the setup and go during the cleanup, and are the same *)
(* all the time between and after, so that the ruleset that is listed once *)
(* stays true of them.  That none is left in the end is not said here.     *)
(***************************************************************************)
VARIABLES rules,   \* the temporary rules that are in the kernel
          stage    \* of the run

tempVars == <<rules, stage>>

\* Where a run may go from each stage.
NextStages ==
  [before |-> {"setup", "run", "after"}, setup |-> {"run"}, run |-> {"cleanup"},
   cleanup |-> {"after"}, after |-> {}]

TempInit == rules = {} /\ stage = "before"

Install == stage = "setup" /\ rules \subseteq rules' /\ UNCHANGED stage

Remove == stage = "cleanup" /\ rules' \subseteq rules /\ stage' \in {"cleanup", "after"}

Advance == stage' \in NextStages[stage] /\ UNCHANGED rules

TempNext == Install \/ Remove \/ Advance

TempSpec == TempInit /\ [][TempNext]_tempVars
=============================================================================
