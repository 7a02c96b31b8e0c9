------------------------------ MODULE TraceRun ------------------------------
(***************************************************************************)
(* What nftBackend.Run and iptablesBackend.Run have in common, which is    *)
(* all but the rules themselves: the monitor is started, a setup script    *)
(* runs on the target, the lines of the monitor become events, a select    *)
(* waits for the next line, the drain timer or the end of the context, and *)
(* the deferred calls clean up.  NftRun and IptablesRun extend this module *)
(* with what their scripts do to the kernel.                               *)
(***************************************************************************)
EXTENDS LineFeed, Outcome

CONSTANTS Backend,       \* "nft" or "iptables"
          Target,        \* cfg.Target.Kind: "local" or "ssh"
          Mode,          \* cfg.Mode: "listen" or "active"
          MaxEvents      \* cfg.MaxEvents

ASSUME LineAssumption == Line \subseteq EventFields
ASSUME MaxEventsAssumption == MaxEvents \in Nat \ {0}
ASSUME ConfigAssumption ==
  /\ Backend \in {"nft", "iptables"}
  /\ Target \in {"local", "ssh"}
  /\ Mode \in {"listen", "active"}

VARIABLES
  pc,          \* where the goroutine of Run is
  ctx,         \* the caller's context, cancelled by SIGINT or SIGTERM
  traceCtx,    \* its child, which also ends at the deadline or by cancel()
  script,      \* the setup script, as a process on the target
  probe,       \* the goroutine of the active probe; "ok" and "failed" wait in its channel
  outcome, events, inIface, outIface, warnings, cleanupErr,   \* the Result
  ret,         \* the error returned, "nil" for none, "none" before the return
  tracked,     \* trace ids of packets known to belong to the flow
  drain        \* terminalDrain's timer

ctxVars    == <<ctx, traceCtx>>
asideVars  == <<script, probe>>
resultVars == <<outcome, events, inIface, outIface, warnings>>
loopVars   == <<tracked, drain>>
runVars == <<feedVars, ctxVars, asideVars, resultVars, loopVars, pc, ret, cleanupErr>>

RunTypeOK ==
  /\ pc \in {"detect", "start", "setup", "installing", "snapshot", "active", "probing",
             "loop", "deferred", "cleanup", "returning", "done"}
  /\ ctx \in {"live", "cancelled"}
  /\ traceCtx \in {"none", "live", "expired", "cancelled"}
  /\ script \in {"idle", "running", "ok", "failed"}
  /\ probe \in {"none", "trying", "ok", "failed", "heard"}
  /\ outcome \in Outcomes
  /\ events \in Seq(Line)
  /\ inIface \in Iface \cup {None} /\ outIface \in Iface \cup {None}
  /\ warnings \subseteq {"empty", "snapshot", "active", "max-events"}
  /\ ret \in {"none", "nil", "detect", "start", "setup", "scan", "exit"}
  /\ cleanupErr \in BOOLEAN
  /\ tracked \subseteq Trace
  /\ drain \in {"off", "armed", "fired"}

\* Every variable, those of the feed included, keeps its type.
TypeOK == FeedTypeOK /\ RunTypeOK

RunInit ==
  /\ FeedInit
  /\ pc = IF Backend = "iptables" THEN "detect" ELSE "start"
  /\ ctx = "live" /\ traceCtx = "none"
  /\ script = "idle" /\ probe = "none"
  /\ outcome = "timeout" /\ events = <<>> /\ inIface = None /\ outIface = None
  /\ warnings = {} /\ cleanupErr = FALSE
  /\ ret = "none"
  /\ tracked = {} /\ drain = "off"

Goto(label) == pc' = label

\* `return result, err`: the deferred calls come next.
ReturnWith(e) == ret' = e /\ Goto("deferred")

----------------------------------------------------------------------------
\* Until the loop.

\* detectIPTablesLegacyTools; an empty ruleset is only a warning.
Detect ==
  /\ pc = "detect" /\ ctx = "live"
  /\ warnings' \in {warnings, warnings \cup {"empty"}}
  /\ Goto("start")
  /\ UNCHANGED <<feedVars, ctxVars, asideVars, outcome, events, inIface, outIface,
                 loopVars, ret, cleanupErr>>

\* This return comes before any call is deferred.
DetectFails ==
  /\ pc = "detect"
  /\ ret' = "detect" /\ Goto("done")
  /\ UNCHANGED <<feedVars, ctxVars, asideVars, resultVars, loopVars, cleanupErr>>

\* exec.Stream(traceCtx, ...): an exec.Cmd does not start under a done context.
StartMonitor ==
  /\ pc = "start" /\ ctx = "live"
  /\ OpenFeed
  /\ traceCtx' = "live"
  /\ Goto("setup")
  /\ UNCHANGED <<ctx, asideVars, resultVars, loopVars, ret, cleanupErr>>

StartFails ==
  /\ pc = "start"
  /\ traceCtx' = IF ctx = "live" THEN "live" ELSE "cancelled"
  /\ ReturnWith("start")
  /\ UNCHANGED <<feedVars, ctx, asideVars, resultVars, loopVars, cleanupErr>>

\* exec.Shell(ctx, setupScript): the caller's context, not the one with the deadline.
LaunchSetup ==
  /\ pc = "setup" /\ ctx = "live"
  /\ script' = "running"
  /\ Goto("installing")
  /\ UNCHANGED <<feedVars, ctxVars, probe, resultVars, loopVars, ret, cleanupErr>>

\* Fault: the script is started and not waited for.
SetupNotAwaited ==
  /\ pc = "installing"
  /\ Goto("snapshot")
  /\ UNCHANGED <<feedVars, ctxVars, asideVars, resultVars, loopVars, ret, cleanupErr>>

SetupSucceeds ==
  /\ pc = "installing" /\ script = "ok"
  /\ Goto("snapshot")
  /\ UNCHANGED <<feedVars, ctxVars, asideVars, resultVars, loopVars, ret, cleanupErr>>

\* Fault: a local Shell that leaves the children of its shell behind.
ReturnsWhenKilled == script = "failed" \/ ctx = "cancelled" \/ Target = "ssh"

\* A local Shell returns only once nothing holds the script's output, even
\* when its context was cancelled.  The ssh client returns when it is killed
\* or loses the connection, and the script goes on at the other end.
ShellGaveUp ==
  \/ script = "failed"
  \/ ctx = "cancelled" /\ script # "running"
  \/ Target = "ssh"

KeepTrace == UNCHANGED traceCtx   \* fault: no cancel()

CancelTrace == traceCtx' = IF traceCtx = "live" THEN "cancelled" ELSE traceCtx

\* Fault: the cleanup is deferred only after the setup succeeded.
SetupFailsUncleaned ==
  /\ pc = "setup" \/ (pc = "installing" /\ ShellGaveUp)
  /\ CancelTrace
  /\ ret' = "setup" /\ cleanupErr' = FALSE
  /\ Goto("returning")
  /\ UNCHANGED <<feedVars, ctx, asideVars, resultVars, loopVars>>

\* At "setup" the shell was not even started: its context is done, or the fork
\* or the connection failed.
SetupFails ==
  /\ pc = "setup" \/ (pc = "installing" /\ ShellGaveUp)
  /\ CancelTrace
  /\ ReturnWith("setup")
  /\ UNCHANGED <<feedVars, ctx, asideVars, resultVars, loopVars, cleanupErr>>

\* The ruleset is listed once; a failure is only a warning.
Snapshot ==
  /\ pc = "snapshot"
  /\ \E failed \in BOOLEAN :
       /\ ctx = "cancelled" => failed
       /\ warnings' = IF failed THEN warnings \cup {"snapshot"} ELSE warnings
  /\ Goto(IF Mode = "active" THEN "active" ELSE "loop")
  /\ UNCHANGED <<feedVars, ctxVars, asideVars, outcome, events, inIface, outIface,
                 loopVars, ret, cleanupErr>>

\* maybeTriggerActive refuses a flow with an ingress interface and a target that
\* is not local.
ProbeRefused ==
  /\ pc = "active"
  /\ warnings' = warnings \cup {"active"}
  /\ Goto("loop")
  /\ UNCHANGED <<feedVars, ctxVars, asideVars, outcome, events, inIface, outIface,
                 loopVars, ret, cleanupErr>>

\* The goroutine sleeps, dials and writes, while nothing reads the feed.
ProbeStarts ==
  /\ pc = "active" /\ Target = "local"
  /\ probe' = "trying"
  /\ Goto("probing")
  /\ UNCHANGED <<feedVars, ctxVars, script, resultVars, loopVars, ret, cleanupErr>>

ProbeHeard ==
  /\ pc = "probing" /\ probe \in {"ok", "failed"}
  /\ warnings' = IF probe = "failed" THEN warnings \cup {"active"} ELSE warnings
  /\ probe' = "heard"
  /\ Goto("loop")
  /\ UNCHANGED <<feedVars, ctxVars, script, outcome, events, inIface, outIface,
                 loopVars, ret, cleanupErr>>

\* The context ends first, and the goroutine is left to itself.
ProbeAbandoned ==
  /\ pc = "probing" /\ traceCtx # "live"
  /\ Goto("loop")
  /\ UNCHANGED <<feedVars, ctxVars, asideVars, resultVars, loopVars, ret, cleanupErr>>

----------------------------------------------------------------------------
\* The loop: a select over three channels, any ready case may be chosen.

\* A line of nft names its packet, and only some of the lines about a packet
\* show the five-tuple; a line of the kernel log must show it itself.
TracksPackets == Backend = "nft"

AnyParsed(l) == l.parsed   \* fault: no look at tracked

Relevant(l) == l.parsed /\ (l.ours \/ (TracksPackets /\ l.trace \in tracked))

SkipLine ==
  /\ pc = "loop"
  /\ Take
  /\ ~Relevant(Head(lines))
  /\ UNCHANGED <<ctxVars, asideVars, resultVars, loopVars, pc, ret, cleanupErr>>

TrackedAfter(l) == IF l.ours /\ TracksPackets THEN tracked \cup {l.trace} ELSE tracked

DrainOnDrop(o) == IF o \in {"drop", "reject"} /\ drain = "off" THEN "armed" ELSE drain   \* fault

\* terminalDrain.Arm: the first terminal event starts the timer, the next ones do not.
DrainAfter(o) == IF IsTerminal(o) /\ drain = "off" THEN "armed" ELSE drain

OneTooMany(evs) == Len(evs) > MaxEvents   \* fault

\* reachedMaxEvents, seen from the events with the new one appended.
ReachedMaxEvents(evs) == Len(evs) >= MaxEvents

Finish(o, i, out, evs) ==
  /\ outcome' = o
  /\ inIface' = FinishIn(i, evs)
  /\ outIface' = FinishOut(out, evs)

RecordLine ==
  /\ pc = "loop"
  /\ Take
  /\ LET l    == Head(lines)
         evs  == Append(events, l)
         o    == OutcomeAfter(Backend, outcome, l)
         i    == InIfaceAfter(inIface, l)
         out  == OutIfaceAfter(outIface, l)
     IN /\ Relevant(l)
        /\ tracked' = TrackedAfter(l)
        /\ events' = evs
        /\ drain' = DrainAfter(o)
        /\ IF ReachedMaxEvents(evs)
           THEN /\ Finish(OutcomeAtEnd(o, evs), i, out, evs)
                /\ warnings' = warnings \cup {"max-events"}
                /\ ReturnWith("nil")
           ELSE /\ outcome' = o /\ inIface' = i /\ outIface' = out
                /\ UNCHANGED <<warnings, pc, ret>>
  /\ UNCHANGED <<ctxVars, asideVars, cleanupErr>>

\* streamErr does not wait: an exit status that is not posted yet is not seen.
StreamErr == IF err = "none" THEN "nil" ELSE err

FeedClosed ==
  /\ pc = "loop" /\ closed /\ lines = <<>>
  /\ Finish(OutcomeAtEnd(outcome, events), inIface, outIface, events)
  /\ ReturnWith(StreamErr)
  /\ UNCHANGED <<feedVars, ctxVars, asideVars, events, warnings, loopVars, cleanupErr>>

DrainFires ==
  /\ pc = "loop" /\ drain = "fired"
  /\ Finish(outcome, inIface, outIface, events)
  /\ ReturnWith("nil")
  /\ UNCHANGED <<feedVars, ctxVars, asideVars, events, warnings, loopVars, cleanupErr>>

\* Fault: the select waits for the caller's context.
CtxDone ==
  /\ pc = "loop" /\ ctx # "live"
  /\ Finish(OutcomeAtEnd(outcome, events), inIface, outIface, events)
  /\ ReturnWith("nil")
  /\ UNCHANGED <<feedVars, ctxVars, asideVars, events, warnings, loopVars, cleanupErr>>

TraceCtxDone ==
  /\ pc = "loop" /\ traceCtx # "live"
  /\ Finish(OutcomeAtEnd(outcome, events), inIface, outIface, events)
  /\ ReturnWith("nil")
  /\ UNCHANGED <<feedVars, ctxVars, asideVars, events, warnings, loopVars, cleanupErr>>

----------------------------------------------------------------------------
\* The deferred calls, last one first: drain.Stop and cancel, then the cleanup.

StopAndCancel ==
  /\ pc = "deferred"
  /\ drain' = "off"
  /\ CancelTrace
  /\ Goto("cleanup")
  /\ UNCHANGED <<feedVars, ctx, asideVars, resultVars, tracked, ret, cleanupErr>>

\* cleanupShell, under a context of its own.  Only a shell that cannot be run or
\* does not end in time is an error: the scripts themselves always exit with 0.
Cleanup ==
  /\ pc = "cleanup"
  /\ cleanupErr' \in BOOLEAN
  /\ Goto("returning")
  /\ UNCHANGED <<feedVars, ctxVars, asideVars, resultVars, loopVars, ret>>

Return ==
  /\ pc = "returning"
  /\ Goto("done")
  /\ UNCHANGED <<feedVars, ctxVars, asideVars, resultVars, loopVars, ret, cleanupErr>>

----------------------------------------------------------------------------
\* The environment.

ScriptExits(how) ==
  /\ script = "running"
  /\ script' = how
  /\ UNCHANGED <<feedVars, ctxVars, probe, resultVars, loopVars, pc, ret, cleanupErr>>

FeedMoves ==
  /\ FeedStep
  /\ UNCHANGED <<ctxVars, asideVars, resultVars, loopVars, pc, ret, cleanupErr>>

\* exec.CommandContext kills the monitor once traceCtx is done.
KillMonitor ==
  /\ traceCtx \in {"expired", "cancelled"}
  /\ ProcEnds("killed")
  /\ UNCHANGED <<ctxVars, asideVars, resultVars, loopVars, pc, ret, cleanupErr>>

\* Fault: the channel of the probe has no buffer.
ProbeHandsOver ==
  /\ probe = "trying" /\ pc = "probing"
  /\ probe' \in {"ok", "failed"}
  /\ UNCHANGED <<feedVars, ctxVars, script, resultVars, loopVars, pc, ret, cleanupErr>>

\* The dialer gives up after three seconds or with the context; its answer finds
\* room in the channel whether or not anybody still waits for it.
ProbeAnswers ==
  /\ probe = "trying"
  /\ probe' \in {"ok", "failed"}
  /\ UNCHANGED <<feedVars, ctxVars, script, resultVars, loopVars, pc, ret, cleanupErr>>

DrainElapses ==
  /\ drain = "armed"
  /\ drain' = "fired"
  /\ UNCHANGED <<feedVars, ctxVars, asideVars, resultVars, tracked, pc, ret, cleanupErr>>

Deadline ==
  /\ traceCtx = "live"
  /\ traceCtx' = "expired"
  /\ UNCHANGED <<feedVars, ctx, asideVars, resultVars, loopVars, pc, ret, cleanupErr>>

\* SIGINT or SIGTERM; the cancellation reaches traceCtx before it is seen.
Interrupt ==
  /\ pc # "done" /\ ctx = "live"
  /\ ctx' = "cancelled"
  /\ CancelTrace
  /\ UNCHANGED <<feedVars, asideVars, resultVars, loopVars, pc, ret, cleanupErr>>

\* The run is over: only its leftovers may still move.
Terminated == pc = "done" /\ UNCHANGED runVars

----------------------------------------------------------------------------
BeforeLoop == Detect \/ DetectFails \/ StartMonitor \/ StartFails \/ LaunchSetup \/ SetupSucceeds
              \/ SetupFails \/ Snapshot
              \/ ProbeRefused \/ ProbeStarts \/ ProbeHeard \/ ProbeAbandoned
InLoop     == SkipLine \/ RecordLine \/ FeedClosed \/ DrainFires \/ TraceCtxDone
Deferred   == StopAndCancel \/ Cleanup \/ Return
Environment == FeedMoves \/ KillMonitor \/ ProbeAnswers \/ DrainElapses \/ Deadline \/ Interrupt

RunNext == BeforeLoop \/ InLoop \/ Deferred \/ Environment \/ Terminated
           \/ ScriptExits("ok") \/ ScriptExits("failed")

RunSpec == RunInit /\ [][RunNext]_runVars

----------------------------------------------------------------------------
(* Fairness.  The goroutine of Run is scheduled.  A select chooses among its *)
(* ready cases at random, so no case stays ready and unchosen for ever.      *)
(* Timers elapse, a kill reaches the process, and the pipes of a process     *)
(* that has ended reach their end.  The commands that the run waits for      *)
(* under the caller's context have no deadline: that they end is assumed     *)
(* apart from the rest, or not at all.                                       *)

\* The target works on a command of one step: a detection or a listing.
Waits == pc \in {"detect", "snapshot"}

Scheduling ==
  /\ WF_runVars(~Waits /\ BeforeLoop) /\ WF_runVars(Deferred)
  /\ WF_runVars(SkipLine \/ RecordLine) /\ WF_runVars(FeedClosed)
  /\ WF_runVars(DrainFires) /\ WF_runVars(TraceCtxDone)
  /\ WF_runVars(DrainElapses) /\ WF_runVars(KillMonitor) /\ WF_runVars(ProbeAnswers)

\* The setup script, the detection and the listing end by themselves ...
ScriptEnds == WF_runVars(ScriptExits("ok") \/ ScriptExits("failed"))
ListingEnds == WF_runVars(Waits /\ BeforeLoop)

\* ... or when their context was cancelled and they were killed.
KilledEnd == /\ WF_runVars(ctx = "cancelled" /\ ScriptExits("failed"))
             /\ WF_runVars(ctx = "cancelled" /\ Waits /\ BeforeLoop)

\* No deadline in sight: only the drain may end a run that has its answer.
FairSpec == RunSpec /\ Scheduling /\ ScriptEnds /\ ListingEnds

\* Nothing is assumed of a command that is not killed.
HangSpec == RunSpec /\ Scheduling /\ KilledEnd

----------------------------------------------------------------------------
(* Safety.                                                                   *)

\* How far the run is, for the owner of the firewall: see TempRules.
Stage ==
  IF pc \in {"detect", "start", "setup"} THEN "before"
  ELSE IF pc = "installing" THEN "setup"
  ELSE IF pc \in {"returning", "done"} THEN "after"
  ELSE IF pc = "cleanup" THEN "cleanup" ELSE "run"

\* nft.go 62-65, 93-95: a result without error says "timeout" exactly when
\* no event was recorded.
OutcomeAgrees ==
  pc = "done" /\ ret = "nil" => (outcome = "timeout" <=> events = <<>>)

\* run.go 195-204: at most MaxEvents events are kept, and the warning that
\* says so is there exactly when the limit was reached.
CapRespected ==
  /\ Len(events) <= MaxEvents
  /\ "max-events" \in warnings <=> Len(events) = MaxEvents

\* nft.go 72-77, README 144: every event belongs to a packet that was matched
\* with the five-tuple (or the run's comment) by that event or an earlier one.
EventsTracked ==
  \A i \in 1..Len(events) :
    \E j \in 1..i : events[j].ours /\ events[j].trace = events[i].trace

\* nft.go 157-163, run.go 175-193: the interfaces of the result are the first
\* one a recorded event came in on and the last one an event left by.
IfacesAgree ==
  pc \in {"deferred", "cleanup", "returning", "done"} =>
    /\ inIface = FinishIn(None, events)
    /\ outIface = FinishOut(None, events)

\* nft.go 157-192: the answer of a run may become another answer, never none.
TerminalIsStable == [][IsTerminal(outcome) => IsTerminal(outcome')]_runVars

----------------------------------------------------------------------------
(* Liveness.                                                                 *)

\* README 5 "for a bounded time": a run whose deadline comes returns.
Returns == (traceCtx = "live" ~> traceCtx # "live") => <>(pc = "done")

\* run.go 17-30: a run that has a terminal outcome ends without its deadline,
\* however many irrelevant lines the monitor goes on printing.
TerminalSettles == pc = "loop" /\ IsTerminal(outcome) ~> pc = "done"

\* nft.go 27, exec.go 65-68: no monitor outlives its run.
MonitorStops == pc = "done" ~> proc # "running"

\* active.go 17-30: the goroutine of the probe ends, also when the context ended
\* first and nobody is left to receive its answer.
ProbeEnds == probe = "trying" ~> probe # "trying"

----------------------------------------------------------------------------
(* What a reader of the documents would expect; the violation runs refute    *)
(* these.                                                                    *)

\* README 145, 原理 145: a run that meets its deadline, with a monitor that was
\* doing well until then, ends with a result and not with an error.
ErrorMeansMonitorFailed == ret = "exit" => proc = "failed"

\* 原理 296: a run whose deadline has passed ends by itself.
DeadlineEndsRun == traceCtx = "expired" ~> pc = "done"
=============================================================================
