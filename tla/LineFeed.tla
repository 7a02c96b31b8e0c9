------------------------------ MODULE LineFeed ------------------------------
(***************************************************************************)
(* What Executor.Stream promises to the loop of a backend: a monitor       *)
(* process, a bounded channel of its lines that is closed at the end, and  *)
(* the first error the error channel holds.  Module Stream is the code     *)
(* that keeps this promise.                                                *)
(***************************************************************************)
EXTENDS Naturals, Sequences

CONSTANTS Line,     \* the lines the monitor may print
          Cap       \* capacity of the channel of lines (128 in the code)

ASSUME CapAssumption == Cap \in Nat \ {0}

VARIABLES proc,     \* the monitor process
          lines,    \* lines sent and not yet received
          closed,   \* the channel of lines is closed
          err       \* oldest value of the error channel, "none" if it is empty

feedVars == <<proc, lines, closed, err>>

Ended == {"exited", "failed", "killed"}

FeedTypeOK ==
  /\ proc \in {"off", "running"} \cup Ended
  /\ lines \in Seq(Line) /\ Len(lines) <= Cap
  /\ closed \in BOOLEAN
  /\ err \in {"none", "scan", "exit"}

FeedInit == proc = "off" /\ lines = <<>> /\ closed = FALSE /\ err = "none"

\* cmd.Start succeeded: the channels exist and the goroutines run.
OpenFeed ==
  /\ proc = "off"
  /\ proc' = "running"
  /\ UNCHANGED <<lines, closed, err>>

\* A line reaches the channel.  Lines may still arrive from a process that
\* has ended: its pipe is drained first.
Emit(l) ==
  /\ proc # "off" /\ ~closed
  /\ Len(lines) < Cap
  /\ lines' = Append(lines, l)
  /\ UNCHANGED <<proc, closed, err>>

ProcEnds(how) ==
  /\ proc = "running"
  /\ proc' = how
  /\ UNCHANGED <<lines, closed, err>>

\* Both pipes are at their end, or a scanner gave up on an oversized line.
CloseFeed ==
  /\ ~closed
  /\ proc \in Ended \/ err = "scan"
  /\ closed' = TRUE
  /\ UNCHANGED <<proc, lines, err>>

\* A scanner posts its error before the lines are closed, cmd.Wait posts the
\* exit status after: between the two the error channel is still empty.
PostError(e) ==
  /\ err = "none"
  /\ \/ e = "scan" /\ proc # "off" /\ ~closed
     \/ e = "exit" /\ closed /\ proc \in {"failed", "killed"}
  /\ err' = e
  /\ UNCHANGED <<proc, lines, closed>>

Take ==
  /\ lines # <<>>
  /\ lines' = Tail(lines)
  /\ UNCHANGED <<proc, closed, err>>

\* The steps of the monitor and of the goroutines that read it, but for its kill.
FeedStep ==
  \/ \E l \in Line : Emit(l)
  \/ \E how \in {"exited", "failed"} : ProcEnds(how)
  \/ CloseFeed
  \/ \E e \in {"scan", "exit"} : PostError(e)

FeedNext == OpenFeed \/ FeedStep \/ ProcEnds("killed") \/ Take

FeedSpec == FeedInit /\ [][FeedNext]_feedVars
=============================================================================
