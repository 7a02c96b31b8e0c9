------------------------------ MODULE MCNftRun ------------------------------
(* Small instances of NftRun. *)
EXTENDS NftRun, SampleLines
=============================================================================
