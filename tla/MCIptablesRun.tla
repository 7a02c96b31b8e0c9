---------------------------- MODULE MCIptablesRun ----------------------------
(* Small instances of IptablesRun. *)
EXTENDS IptablesRun, SampleLines
=============================================================================
