------------------------------- MODULE Stream -------------------------------
(***************************************************************************)
(* startStream: the goroutines between the monitor process and the loop of *)
(* a backend.  One scanner per pipe sends the lines it reads, a closer     *)
(* waits for both scanners, closes the lines, waits for the process and    *)
(* closes the errors.  A line is <<pipe, n>>, the n-th line of its pipe.   *)
(***************************************************************************)
EXTENDS Naturals, Sequences

CONSTANTS MaxLines,    \* bound: lines the process writes to each pipe
          Cap          \* capacity of the channel of lines (128 in the code)

ASSUME StreamAssumption == MaxLines \in Nat /\ Cap \in Nat \ {0}

Pipes == {"stdout", "stderr"}
Lines == Pipes \X (1..MaxLines)

TwoErrs == 2           \* fault: no room for both scanners and the exit status

ErrCap == 3            \* capacity of the channel of errors

VARIABLES
  proc,        \* the process, as in LineFeed
  held,        \* the write ends are open: the process or a child of it has them
  written,     \* written[p]: lines the process wrote to pipe p
  scanned,     \* scanned[p]: lines the scanner of p took from it
  scanner,     \* where the scanner of p is
  lines, closed,         \* the channel of lines
  errs, errsClosed,      \* the channel of errors
  closer,      \* where the goroutine that closes the channels is
  got,         \* got[p]: lines of p the consumer received
  consumer     \* whether the consumer still receives

pipeVars == <<held, written>>
chanVars == <<lines, closed, errs, errsClosed>>
vars == <<proc, pipeVars, scanned, scanner, chanVars, closer, got, consumer>>

\* Every variable keeps its type and no channel exceeds its capacity.
TypeOK ==
  /\ proc \in {"off", "running", "exited", "failed", "killed"}
  /\ held \in BOOLEAN
  /\ written \in [Pipes -> 0..MaxLines] /\ scanned \in [Pipes -> 0..MaxLines]
  /\ scanner \in [Pipes -> {"off", "read", "send", "error", "done"}]
  /\ lines \in Seq(Lines) /\ Len(lines) <= Cap /\ closed \in BOOLEAN
  /\ errs \in Seq({"scan", "exit"}) /\ Len(errs) <= ErrCap /\ errsClosed \in BOOLEAN
  /\ closer \in {"off", "join", "wait", "post", "close", "done"}
  /\ got \in [Pipes -> Seq(1..MaxLines)]
  /\ consumer \in {"receiving", "gone"}

Zero == [p \in Pipes |-> 0]

Init ==
  /\ proc = "off" /\ held = FALSE
  /\ written = Zero /\ scanned = Zero
  /\ scanner = [p \in Pipes |-> "off"]
  /\ lines = <<>> /\ closed = FALSE
  /\ errs = <<>> /\ errsClosed = FALSE
  /\ closer = "off"
  /\ got = [p \in Pipes |-> <<>>] /\ consumer = "receiving"

\* cmd.Start, the channels, and the three goroutines.
Start ==
  /\ proc = "off"
  /\ proc' = "running" /\ held' = TRUE
  /\ scanner' = [p \in Pipes |-> "read"]
  /\ closer' = "join"
  /\ UNCHANGED <<written, scanned, chanVars, got, consumer>>

----------------------------------------------------------------------------
\* The scanner of pipe p.

\* Fault: one empty line more at the end of the pipe.
ScanPastEnd(p) ==
  /\ scanner[p] = "read" /\ scanned[p] <= written[p]
  /\ scanned' = [scanned EXCEPT ![p] = @ + 1]
  /\ scanner' = [scanner EXCEPT ![p] = "send"]
  /\ UNCHANGED <<proc, pipeVars, chanVars, closer, got, consumer>>

ScanLine(p) ==
  /\ scanner[p] = "read" /\ scanned[p] < written[p]
  /\ scanned' = [scanned EXCEPT ![p] = @ + 1]
  /\ scanner' = [scanner EXCEPT ![p] = "send"]
  /\ UNCHANGED <<proc, pipeVars, chanVars, closer, got, consumer>>

\* `lines <- s.Text()` waits for room in the channel.
SendLine(p) ==
  /\ scanner[p] = "send" /\ Len(lines) < Cap
  /\ lines' = Append(lines, <<p, scanned[p]>>)
  /\ scanner' = [scanner EXCEPT ![p] = "read"]
  /\ UNCHANGED <<proc, pipeVars, scanned, closed, errs, errsClosed, closer, got, consumer>>

\* Fault: the process is waited for, and its pipes closed, before they are read.
ScanCut(p) ==
  /\ scanner[p] = "read" /\ ~held
  /\ scanner' = [scanner EXCEPT ![p] = "done"]
  /\ UNCHANGED <<proc, pipeVars, scanned, chanVars, closer, got, consumer>>

ScanEnds(p) ==
  /\ scanner[p] = "read" /\ ~held /\ scanned[p] = written[p]
  /\ scanner' = [scanner EXCEPT ![p] = "done"]
  /\ UNCHANGED <<proc, pipeVars, scanned, chanVars, closer, got, consumer>>

\* A line longer than the scanner's buffer: the rest of the pipe is not read.
ScanFails(p) ==
  /\ scanner[p] = "read" /\ scanned[p] < written[p]
  /\ scanner' = [scanner EXCEPT ![p] = "error"]
  /\ UNCHANGED <<proc, pipeVars, scanned, chanVars, closer, got, consumer>>

\* Fault: a scanner that fails closes the lines itself.
PostAndClose(p) ==
  /\ scanner[p] = "error" /\ Len(errs) < ErrCap
  /\ errs' = Append(errs, "scan")
  /\ closed' = TRUE
  /\ scanner' = [scanner EXCEPT ![p] = "done"]
  /\ UNCHANGED <<proc, pipeVars, scanned, lines, errsClosed, closer, got, consumer>>

PostScanError(p) ==
  /\ scanner[p] = "error" /\ Len(errs) < ErrCap
  /\ errs' = Append(errs, "scan")
  /\ scanner' = [scanner EXCEPT ![p] = "done"]
  /\ UNCHANGED <<proc, pipeVars, scanned, lines, closed, errsClosed, closer, got, consumer>>

----------------------------------------------------------------------------
\* The closer.

OneScannerDone == \E p \in Pipes : scanner[p] = "done"   \* fault

ScannersDone == \A p \in Pipes : scanner[p] = "done"

CloseLines ==
  /\ closer = "join" /\ ScannersDone
  /\ closed' = TRUE
  /\ closer' = "wait"
  /\ UNCHANGED <<proc, pipeVars, scanned, scanner, lines, errs, errsClosed, got, consumer>>

\* cmd.Wait reaps the process; it needs the process, not its children, to end.
Reap ==
  /\ closer = "wait" /\ proc \in {"exited", "failed", "killed"}
  /\ closer' = IF proc = "exited" THEN "close" ELSE "post"
  /\ UNCHANGED <<proc, pipeVars, scanned, scanner, chanVars, got, consumer>>

PostExit ==
  /\ closer = "post" /\ Len(errs) < ErrCap
  /\ errs' = Append(errs, "exit")
  /\ closer' = "close"
  /\ UNCHANGED <<proc, pipeVars, scanned, scanner, lines, closed, errsClosed, got, consumer>>

CloseErrs ==
  /\ closer = "close"
  /\ errsClosed' = TRUE
  /\ closer' = "done"
  /\ UNCHANGED <<proc, pipeVars, scanned, scanner, lines, closed, errs, got, consumer>>

----------------------------------------------------------------------------
\* The process and the consumer.

Write(p) ==
  /\ held /\ written[p] < MaxLines
  /\ written' = [written EXCEPT ![p] = @ + 1]
  /\ UNCHANGED <<proc, held, scanned, scanner, chanVars, closer, got, consumer>>

Exit(how) ==
  /\ proc = "running"
  /\ proc' = how
  /\ UNCHANGED <<pipeVars, scanned, scanner, chanVars, closer, got, consumer>>

\* The last holder of the write ends is gone: with the process, or later,
\* when it left a child behind.
ReleasePipes ==
  /\ held /\ proc \notin {"off", "running"}
  /\ held' = FALSE
  /\ UNCHANGED <<proc, written, scanned, scanner, chanVars, closer, got, consumer>>

Receive ==
  /\ consumer = "receiving" /\ lines # <<>>
  /\ lines' = Tail(lines)
  /\ LET l == Head(lines) IN got' = [got EXCEPT ![l[1]] = Append(@, l[2])]
  /\ UNCHANGED <<proc, pipeVars, scanned, scanner, closed, errs, errsClosed, closer, consumer>>

\* Run returns at max-events, at the drain or at the deadline: nobody receives.
Leave ==
  /\ consumer = "receiving" /\ proc # "off"
  /\ consumer' = "gone"
  /\ UNCHANGED <<proc, pipeVars, scanned, scanner, chanVars, closer, got>>

\* All goroutines ended, or wait for a consumer that is gone.
Terminated ==
  /\ closer = "done" \/ consumer = "gone"
  /\ UNCHANGED vars

----------------------------------------------------------------------------
Scanner(p) == ScanLine(p) \/ SendLine(p) \/ ScanEnds(p) \/ ScanFails(p) \/ PostScanError(p)
Closer     == CloseLines \/ Reap \/ PostExit \/ CloseErrs
Process    == (\E p \in Pipes : Write(p)) \/ (\E how \in {"exited", "failed", "killed"} : Exit(how))
              \/ ReleasePipes

Next == Start \/ (\E p \in Pipes : Scanner(p)) \/ Closer \/ Process \/ Receive \/ Leave \/ Terminated

Spec == Init /\ [][Next]_vars

(* Goroutines are scheduled, a consumer that has not left receives, a process *)
(* that has ended lets go of its pipes.  The process need not end by itself.  *)
FairSpec ==
  /\ Spec
  /\ \A p \in Pipes : WF_vars(Scanner(p))
  /\ WF_vars(Closer) /\ WF_vars(Receive) /\ WF_vars(ReleasePipes)

----------------------------------------------------------------------------
\* exec.go 129-143: nobody sends on a channel that was closed (Go would panic).
NoSendOnClosed ==
  /\ closed => \A p \in Pipes : scanner[p] \notin {"read", "send"}
  /\ errsClosed => closer = "done" /\ \A p \in Pipes : scanner[p] # "error"

\* exec.go 122: nobody reads the errors before the lines are closed, and nobody
\* at all after Run returned; the channel has room for all that can be posted.
ErrsNeverBlock ==
  (closer = "post" \/ \E p \in Pipes : scanner[p] = "error") => Len(errs) < ErrCap

\* exec.go 124-141: a consumer that sees the end of the lines has got every line
\* of each pipe, in order and once, unless an error tells otherwise.
EndMeansAll ==
  closed /\ lines = <<>> /\ consumer = "receiving" /\ "scan" \notin {errs[i] : i \in 1..Len(errs)}
    => \A p \in Pipes : got[p] = [i \in 1..written[p] |-> i]

\* exec.go 139-146: a process that ends is reaped and its goroutines end too,
\* provided the consumer stays.
Reaped == proc \in {"exited", "failed", "killed"} ~> (closer = "done" \/ consumer = "gone")

Feed == INSTANCE LineFeed WITH
          Line <- Lines,
          err  <- IF errs = <<>> THEN "none" ELSE errs[1]

\* exec.go 108-148: startStream keeps the promise the backends rely on.
FeedKept == Feed!FeedSpec
=============================================================================
