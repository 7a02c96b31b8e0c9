----------------------------- MODULE MCTraceRun -----------------------------
(* Small instances of TraceRun. *)
EXTENDS TraceRun, SampleLines
=============================================================================
