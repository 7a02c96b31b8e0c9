# nftracepath in TLA+

`nftracepath` answers one question: what does the netfilter of this host do with
packets of that five-tuple?  It installs temporary rules that mark (nft) or log
(iptables) the packets, reads the kernel's trace through a monitor process for a
bounded time, turns each line into an event and the events into one outcome, and
removes its rules.  This directory holds TLA+ models of that program, the TLC
configurations that check them, and proofs checked by TLAPS.

## The parts of the system

| part | code | state | operations |
|---|---|---|---|
| run loop of a backend | `nft.go` 16-99, `iptables.go` 21-106, `run.go` | the `Result` (outcome, events, interfaces, warnings, cleanup error), `tracked`, the drain timer, `traceCtx` | start the monitor, set up, snapshot, probe, select over lines, drain and context, deferred calls |
| nft rules | `nft.go` 101-140 | one table in the kernel | add it (one transaction), delete it |
| iptables rules | `iptables.go` 131-227 | up to five rules in four chains and tables | add and delete each by a command of its own |
| executor | `exec.go` | processes, pipes, two channels | `Shell`, `Stream` (local and ssh), `startStream` |
| active probe | `active.go` | a goroutine and its channel | send one packet of the flow |
| backend selection | `run.go` 91-153, `iptables.go` 108-129 | what the probes saw | privilege check, probes, choice |
| parsers, flow filter | `parse.go`, `match.go` | the listing of the rules | a line to an event; does it show the flow? which rule was it, whose, and with what verdict? |
| configuration, command line | `types.go`, `internal/app/app.go` | the flags' variables | questions, defaults, validation, the printed command line, signals |
| output | `output.go` | none | formatting |

They interact as follows.  `app.run` makes a context that SIGINT and SIGTERM
cancel and calls `trace.Run`, which selects a backend and calls its `Run`.
`Run` is one goroutine.  Beside it run the monitor process, the two scanners and
the closer of `startStream`, the scripts on the target (across ssh they are not
children of the program) and the timers of the deadline and of the drain.  They
meet in two channels (lines, errors), two contexts and the kernel's rule set.

What is hard to get right there, and what no unit test of the repository reaches:

* the select takes any ready case: a line, the drain or the end of the context;
* a deadline that kills the monitor also closes the feed the loop reads from;
* the deferred calls run in every state the function can be left in, half
  installed rules included, while a cancelled script may still be running;
* three goroutines share two bounded channels that a fourth one may abandon;
* a result is assembled from interleaved events of several packets;
* the rules of a run are added one by one while packets already hit them, and
  what the kernel prints refers to a listing taken afterwards;
* a configuration comes from flags, questions and defaults, and goes back to flags.

`PROJECT.json` lists these hazards line by line, each with the properties that
would notice it going wrong.

## The modules

| module | models | built on |
|---|---|---|
| `Outcome` | the pure half: outcome and interfaces as functions of the events | |
| `LineFeed` | what `Stream` promises: a process, a bounded closed-at-the-end channel of lines, the first error | |
| `Stream` | `startStream` in detail; implements `LineFeed` | `INSTANCE LineFeed` |
| `TraceRun` | the `Run` both backends share, without the rules | `LineFeed`, `Outcome` |
| `TempRules` | the promise while a run goes on: rules come during the setup, go during the cleanup, and stay the same between | |
| `NftRun` | `TraceRun` with the nft table; implements `TempRules` | `TraceRun`, `INSTANCE TempRules` |
| `IptablesRun` | `TraceRun` with the single iptables rules; implements `TempRules` | `TraceRun`, `INSTANCE TempRules` |
| `Startup` | `trace.Run` before `backend.Run`: defaults, validation, privilege, selection, detection | |
| `Parse` | `parse.go` as functions from lines to events: listings, lookup, filter, verdicts, hints, origins | `Outcome` |
| `TracePath` | packets through the chains of a host with the rules of a run in them, the lines they cause, and what the run makes of them | `Parse` |
| `CommandLine` | the dialogue of `app.run`, the configuration and the printed line, run again | |
| `SampleLines`, `MC*` | sets of lines, of configurations, of calls and a host for the small instances | |
| `OutcomeProofs` | lemmas on `Outcome`: least and greatest positions, types, interfaces of a longer sequence | `Outcome` |
| `TraceRunProofs`, `NftRunProofs`, `IptablesRunProofs`, `StreamProofs`, `StartupProofs`, `PathProofs`, `CommandLineProofs` | theorems, each about the module of its name | |

### How state and actions correspond to the code

`TraceRun`.  `pc` is the place in `Run`: `detect` (iptables only), `start`
(`exec.Stream`), `setup` and `installing` (before and during the `Shell` of the
setup script), `snapshot`, `active`, `probing` (waiting for the probe), `loop`, `deferred` (`drain.Stop` and
`cancel`), `cleanup`, `returning`, `done`.  `script` is the setup script as a
process, `ctx` and `traceCtx` are the two contexts (`expired` is the deadline),
`outcome`, `events`, `inIface`, `outIface`, `warnings`, `cleanupErr` are the
`Result` and `ret` is the error.  Each case of the select is an action: a line
that is skipped (`SkipLine`) or recorded (`RecordLine`, with the outcome, the
drain and the limit, as in the code), `FeedClosed`, `DrainFires`, `TraceCtxDone`.
The two backends differ in the shape of what they recognise, which `Backend`
decides: nft follows a packet by its trace id after one line showed the
five-tuple (`tracked`), iptables judges each log line by itself, and an `ACCEPT`
in `INPUT` is an answer only for iptables.

An event is what the parsers return, abstracted to the fields the result depends
on: whether the line is accepted, whether it shows the flow or the comment of the
run, the packet, the chain, the verdict, the hint of the run's own rules, and the
interfaces.  Any line may come at any time, so the models ask nothing of the order in
which the kernel prints.

`ShellGaveUp` holds the difference between the executors.  A local `Shell`
waits, even when it is cancelled, until nobody holds the script's output: Go's
`Cmd.Run` copies from a pipe and has no `WaitDelay` here.  The ssh client
returns when it is killed or loses its connection, and what it started
goes on at the other end.  In `NftRun` and
`IptablesRun` the script then really goes on, beside the cleanup.

`IptablesRun` runs the setup script command by command (`AddRule`), each of
which may fail; only the last status counts (`SetupExits`).  `DeleteRule` is the
cleanup, whose commands end in `|| true`; with `LockTaken` a deletion may fail
silently.  `NftRun` deletes its table in one step.  Its command ends in `|| true` as well, so that
with `DeletionFails` the table may stay although the shell succeeded; `refused` remembers
that, for the properties only.

`TempRules` says what `NoResidue` does not: the ruleset that is listed after the setup stays true
of the run's rules until the cleanup.  Its stages are computed from `pc` (`Stage`).  A
script that nobody waits for any more would break it.

A cleanup script over ssh that loses its client may also finish later; the
models let it stop where it was.  Only runs that report a cleanup error are concerned.

`Stream` gives each pipe its scanner, with the unbounded `wg.Wait` of the
closer, the error channel of three, and a process whose pipe ends may be held by
a child that outlives it.  `err` of `LineFeed` is the head of the error channel,
which is all `streamErr` ever looks at.

`probe` in `TraceRun` is the goroutine of `maybeTriggerActive`: refused at once over
ssh (`ProbeRefused`), started, heard, or abandoned when the trace context ends first; its
answer then stays in the channel of one place, which is why it ends (`ProbeEnds`).

`Startup` is `trace.Run` up to the point where `TraceRun` begins, plus the second
detection of the iptables tools, which `TraceRun` shows as `Detect`.  Each command
on the target is a step (`Shell`): it fails when the target cannot do it, and it may fail for
a reason of its own, which `failures` remembers.  Between the steps others may
install or remove tools and rules (`TargetChanges`).  A ruleset is abstracted to whether
it has rules, which is all that `selectBackend` compares.

`Parse` abstracts a line to the fields the regular expressions capture and to how
its addresses and ports compare with the flow's: equal, longer numbers that begin
with them, others, or not printed.  The filter of the code is
`strings.Contains`, so that it takes the second for the first (`FlowMatches`).  The hints of the
final hooks are substrings too, without the run id: `Marks` tells which of them a name has,
and `Prints` gives the names of the host that have some.  A line
also carries, for the properties only, the packet and the rule it is really about.

`TracePath` gives lines a cause.  `ruleset` is what is in the kernel: the chains of
the host on three ways (in, through, out), one chain that is only jumped to, and the
rules of the run, added by `AddRule` one command after the other (iptables) or by `AddTable` as a
whole (nft).  A packet enters a chain with the rules that are there at that moment,
and hits the next rule that matches, which may be any one of the host's, for
their conditions are not modelled; the rules of the run match the flow exactly.
A traced packet makes the kernel print.  `Snapshot` lists the ruleset; if that fails, what was
printed until then is parsed all the same (`CutListing`: the first rules of each chain, by `Cuts`).
`ReadLine` is the loop's work on a line: filter, parse, record.  It neither sees nor
changes anything of the kernel, so that it commutes with the movement of packets,
and is shown between packets only.  `othersTrace` says that another tracer of the
host marks packets that are not the flow's; without it only the run does.
How the kernel walks chains and what it prints is not in the repository: those
definitions are external, taken from what the parsers and their tests expect.

`CommandLine` goes through the thirteen questions of `fillInteractive` in order: whether each
is asked depends on the flags and on earlier answers (`Asks`), an empty answer
takes the suggestion, and what is no number where one is due ends the program.
`Config` is `NewFlow` and the literal of `run`.  `CommandLineFor` is
`commandLineForConfig` composed with reading the flags again: what it leaves out
gets the flag's default.  `RunLineAgain` is a person who copies the line.

## The runs

The runs of `TraceRun`, `NftRun` and `IptablesRun` use `Trace = {a1, b2}` (a packet of the flow and a foreign one) and five
interface names.  Bounds are constants: `Cap` (channel of lines, 128 in the
code), `MaxEvents`, `MaxLines`, `MaxChanges`, `MaxPackets`, `MaxEarly`, `MaxMishaps`.  Other
constants say what the environment may do: `LockTaken`, `DeletionFails`, `Prints`, `Cuts`.

| run | question | instance |
|---|---|---|
| `nft` | Does the result agree with its events however the select decides, is the table gone unless nft failed to delete it, does it stay as it was listed, and does every run, answer, monitor and probe come to its end? | nft, local, active; deletions may fail; four kinds of lines, `MaxEvents` 2, 0.43 M states |
| `ipt_local` | Do rules that come and go one at a time all go, and only then? | local, listen; five rules, one kind of line, 0.37 M states |
| `ipt_ssh` | What can an ssh run leave behind, and does the result of log lines agree with its events? | active; four rules (`InIface` given), four kinds of lines, `MaxEvents` 2, 2.2 M states |
| `stream` | Are the channels used safely, is nothing lost, is everything reaped? | three lines per pipe, channel of two, 49 k states |
| `startup` | Does a start end up with the right backend and a configuration a run can work with? | every target, a sample of configurations, two changes to the target, 0.13 M states |
| `path` | Are events true of the packets behind them: rule, origin, outcome? | two packets, one of them possibly before the loop, one mishap, two ways to cut the listing, two rulesets of the host, both backends, 3.3 M states |
| `cmdline` | Does a run start as it was told to, and its printed line the same one again? | some 200 sets of flags with and without `--json` and `--allow-broad-match`, every sequence of sampled answers, 0.62 M states |
| `doc_killed_monitor` | refuted: only a monitor that failed makes a run an error | |
| `doc_setup_hangs` | refuted: the deadline ends the run | |
| `doc_ssh_orphan` | refuted: over ssh too, nothing is left behind in silence | |
| `doc_lock_residue` | refuted: a failed deletion is reported | |
| `doc_policy_drop` | refuted: a packet lost on its way makes the result a drop | |

Why the bounds are enough.  The loop looks at one line and at `tracked` (two
packets: one tracked, one not), so that two events reach every combination of
first and later event, interface taken and overwritten, answer given and
replaced, and the limit reached with and without an answer.  The channel of
lines matters only when it is full, empty or in between; with `Cap` 1 or 2 it is
each of these.  `MaxLines` 3 exceeds `Cap` 2, so that scanners block on a full
channel.  The setup of iptables is checked with all its five rules.  `startup` covers
every target; its configurations vary one field at a time around a plain one
(`MCStartup`), since validation looks at them one at a time, except for the pairs
that belong together.  Two changes of the target reach both detections.

In `path` the host has, on each way, empty chains and chains with rules; its two rulesets, which keep the
product of their choices small, have all targets of host rules: one a LOG in front and a REJECT behind it, the
other an ACCEPT whose packet a jump to a DROP may still discard, both with a DROP policy.  A rule
may or may not match, so that one of each kind stands for many.  Two packets are
one of the flow and one other in each order, or two of the flow; one of them may
come while rules are still being added.  One mishap is a failed command, a listing
cut short or a change of rules by others; the properties that need rule numbers to mean what they
meant when they were listed say so (`Readable`).  `cmdline` takes flags that say
nothing, one thing, everything, or all but two things, which shows each pair of questions
with both outcomes; the theorems lift it to all sets of calls and answers over the same texts.

### Fairness

`Scheduling` in `TraceRun` is weak fairness of: the goroutine of `Run` (the Go
scheduler is fair enough for that), each case of the select on its own (the
runtime chooses among ready cases at random, so that a case that stays ready is
taken some time: probability one, which weak fairness renders), the drain timer,
and the delivery of a kill to the local process.  Nothing is assumed of the
lines: the monitor may print for ever or not at all.  The deadline has no
fairness; `Returns` states its coming as a hypothesis, and `TerminalSettles`
does without it.  The probe's goroutine is scheduled, and its one `Dial` and
write end: UDP does not wait, TCP has a timeout (`active.go` 48-66).  The `nft` run
checks `NftFairSpec`, which is `Scheduling` with `ScriptEnds` and `ListingEnds`.  These two are assumptions on the
target that the code does not enforce: the setup script ends, and so do the commands of one step that
`Run` waits for under the caller's context, the detection of the iptables tools and the listing
(`Waits`), which is why `Scheduling` leaves those steps out.  `Returns` holds under both
only.  `doc_setup_hangs` is the same model with the assumptions reduced to commands that were killed
(`KilledEnd`), and there the deadline passes and the run stays.  The cleanup has a timeout of
its own (`cleanupShell`).  In `Stream`, goroutines are scheduled and a consumer that has not
left receives; the process need not end.

A sudo or ssh between the program and the monitor can keep a kill from it (the
signal reaches the first process only).  `MonitorStops` and `Returns` are about
the process that was started.

### What the refuted expectations mean

* `doc_killed_monitor` (`nft.go` 66): at the deadline the monitor is killed.  If
  the loop sees its closed channel before `traceCtx.Done()`, and `cmd.Wait` has
  posted by then, an ordinary timeout is reported as the error "signal: killed",
  and `app.go` 168 then prints the error in place of the events.
* `doc_setup_hangs` (`nft.go` 39, `iptables.go` 50): setup and snapshot run under
  the caller's context.  Only Ctrl-C ends them.
* `doc_ssh_orphan` (`exec.go` 75): `ipt_ssh` shows the exact
  extent, `OnlyLostSetupLeaves`: only a run whose setup was reported as failed.
* `doc_lock_residue` (`iptables.go` 226): a deletion that cannot take the xtables
  lock fails behind `|| true`.  The table of nft may stay in the same way (`nft.go` 135); there
  `NoResidue` excepts it by name (`refused`), and `nft` checks that there is no other way.
* `doc_policy_drop` (`parse.go` 257, `nft.go` 164): a chain's policy gives the verdict
  "policy" (iptables) or none (nft) whatever it does, and neither counts as a
  drop.  `AnswerIsTrue` and `DropIsTold` say what remains true: a drop means that a rule dropped
  a packet that was shown, and a rule that drops is told; local and egress mean, with nft, that such
  a packet arrived, and with iptables that no rule dropped it.  There the ACCEPT of a chain, or the
  run's LOG rule at the end of it, is an answer although the policy of that chain or of a later one may still discard the
  packet (`Arrived`): nothing that iptables prints tells the two apart.

More such differences follow from a single line each and have no run: a
monitor that dies at once gives the outcome "timeout" without any time having
passed (`nft.go` 61); `app.go` 168 drops the `cleanup_error` of a run that
also failed otherwise, against 原理.md:314; of the five setup commands of iptables only the last
one's status is seen (`iptables.go` 155), so that a run may go on without a rule that
README.md:5 and 原理.md:9 take for installed; and `askString` writes its questions to stdout also with
`--json` (`app.go` 282), so that the call of README.md:62, which leaves the mode and the target out,
prints more than JSON.

One more came out of the proof of `AnswerIsTrue`.  With iptables the monitor listens while the run
inserts its rule at the head of raw PREROUTING (`iptables.go` 50-58), which gives every rule
behind it another number.  A line printed before that, of a packet that another tracer
marks, is looked up in the listing taken after, and gets the text of another
rule, against 原理.md:232.  The flow's own lines are safe (`RuleTextTrue`): nothing traces the
flow before the inserted rule does.  But the filter takes numbers that begin like the flow's, so that
`AnswerIsTrue` must exclude another tracer with iptables: without that condition, and with a
DROP and a counting rule of the host in that chain, TLC finds it violated.

`AnswerIsTrue` also asks that nothing of the host be called like the marks of the run's final chains
(`NoNamesake`).  `parseFinalHint` (`parse.go` 272) looks for `:final-input` or `final_input` without the run
id, so that a chain or a comment so called, or those of a second run of the program, make a
packet "local" on any way: with a rule so called in raw PREROUTING TLC finds the
property without this condition violated.  The run `path` has no such names (`SamplePrints`); the
theorem is about all hosts, and the other properties hold of those with such names too.

Two passages of the documents are read as follows.  README.md:117 calls policy events without saying
whose; record.md:12 and :26 show those of the run's own chains as "temporary", which is
what the code and `OriginTrue` do.  README.md:88 takes iptables "only when" it has rules; 原理.md:269 has it
also as the last resort where nft is missing, which is what `Best` follows.

## What is proved

The theorems hold for every set of lines, of packets and interfaces, every
capacity and every limit, under the named assumptions on the constants
(`LineAssumption`, `CapAssumption`, `MaxEventsAssumption`, `ConfigAssumption`,
`BackendAssumption`, `DeletionAssumption`, `ScriptAssumption`, `StreamAssumption`, `ChangesAssumption`, `PathAssumption`,
`HostAssumption`, `GivenAssumption`, `RepliesAssumption`).

`TraceRunProofs`, of `RunSpec`:

* `TypeCorrect`: `[]TypeOK`.  Inductive as it stands; the lemmas behind it say
  that outcome and interfaces computed from events keep their types, for which
  `MinOfPositions` and `MaxOfPositions` show that the first and the last named
  interface exist.
* `TimeoutIsNoEvent`: `[]OutcomeAgrees`.  The property speaks of finished runs
  only; `AnswerInv` adds what carries it there: no events before the loop, no
  event means the outcome is still "timeout", and an armed drain implies an
  answer (which is why that exit may skip the adjustment the other exits make).
* `AnswerStays`: `TerminalIsStable`, an action property, from two facts on
  `OutcomeAfter` and `OutcomeAtEnd`.
* `LimitHolds`: `[]CapRespected`.  `RoomInv` adds that the loop always has room
  for one more event: without it a step could start at the limit.
* `EventsAreOurs`: `[]EventsTracked`.  `TrackInv` adds where each member of
  `tracked` comes from.
* `IfacesOfEvents`: `[]IfacesAgree`.  `IfaceInv` states it for the whole run, not
  only its end: the fields kept event by event are at every moment what `finishResult` would
  find in the whole sequence.  `FirstStays` and `LastMoves` of `OutcomeProofs` are
  the step, `FinishAgain` shows that finishing changes nothing.

`NftRunProofs`, of `NftSpec`:

* `NftIsRun`: `NftSpec => RunSpec`.  Everything above holds of the backend with
  its table (`NftTypeCorrect` uses it).
* `NothingLeft`: `[]NoResidue` for `Target = "local"`, whether deletions fail or not.  `ScriptInv` says that a
  running setup script has a run that waits for it, that there is no table
  before the script started, and none after a clean cleanup but one that nft failed to delete.
  `NoTableLeft` is the case in which it never fails to.  The assumption on
  the target is necessary: `doc_ssh_orphan` refutes the property without it.
* `RunKeepsRules`: `RulesKept`, the refinement of `TempRules`, from the same invariant and
  `StageAdvances`, which says where a step of the run may lead.

`IptablesRunProofs`, of `IptSpec`:

* `IptIsRun`: `IptSpec => RunSpec`, and `IptTypeCorrect` with it.
* `NothingLeft` (`[]NoResidue`), for a local target whose lock nobody
  holds, and `OnlyTheLostLeave` (`[]OnlyLostSetupLeaves`), which needs the second
  assumption only.  `RunKeepsRules` (`RulesKept`) needs the first only: a deletion that
  fails keeps a rule, but adds none.  `RuleInv` follows the rules through the cleanup: after `n` deletions only
  rules that come later in the cleanup script are left, because every
  rule that the setup can install is among those the cleanup deletes; a script that still runs
  belongs to a run that waits for it, or was lost.  Both
  assumptions are necessary: `doc_lock_residue`, `doc_ssh_orphan`.

`StreamProofs`, of `Spec` of `Stream`:

* `StreamTypeCorrect`, `NeverSendsOnClosed`, `ThreeErrorsAreEnough`: `CloserInv`
  ties the closer to what it waited for and counts the errors that were posted, one at most by
  each scanner and one by the closer.
* `NothingLost`: `[]EndMeansAll`.  `OrderInv` says which lines of a pipe are
  in the channel and in which order, `DoneInv` that a scanner that is done has read all
  there was or left an error.
* `StreamKeepsFeed`: the goroutines of `startStream` implement `LineFeed`, on which
  every theorem about a run rests.

`StartupProofs`, of `Spec` of `Startup`:

* `StartTypeCorrect`, `RunsAsAsked` (`[]ConfigFits`): what starts is valid field by field, has the right to
  change rules, and satisfies `ConfigAssumption`
  and `MaxEventsAssumption` of `TraceRun`.  `StageInv` says what is known at each stage.
* `NftYields` (`[]NftYieldsToRules`) from `RulesInv`, and `AutoRunsTheBest` (`[]AutoIsBest`) from `QuietInv`: what the
  probes saw of a target that nobody changed since the first of them (`~moved`) is true of it, and if no
  command failed without need (`~failures`) they saw everything.  The first of the two
  theorems holds whatever fails.  Neither says anything of a target that changes between the probes and the
  run, nor can the code.

`CommandLineProofs`, of `Spec` of `CommandLine`:

* `CmdTypeCorrect`; `BaseInv` adds that fields whose questions are to come still have
  their flags' values, and where a configuration and a printed line come from.
* `ScriptsRunThrough` (`[]ScriptsAreNotAsked`), `RunsAsTold` (`[]AsTold`, by `WantedInv` about the
  questions that are over).
* `LineStartsTheSame` (`[]SameAgain`): `SameConfig` says that the line of a valid
  configuration is read as a valid one of the same effect, `LineAsksNothing` that
  none of its fields is one to ask for.  `AgainInv` carries both through the second run.

`PathProofs`, of `Spec` of `TracePath`, for every ruleset of the host, any numbers of packets
and mishaps:

* `PathTypeCorrect` (`[]PathTypeOK`), `TextsAreTrue` (`[]RuleTextTrue`), `OriginsAreTrue`
  (`[]OriginTrue`), `AnswersAreTrue` (`[]AnswerIsTrue`) and
  `DropsAreTold` (`[]DropIsTold`), all from one inductive invariant, `PathInv` (`PathIsInductive`).

None of the properties is inductive: each compares an event with a rule or a packet as they were when
the line was printed, several steps of the kernel earlier.  `PathInv` keeps what is needed in between.

* `RulesInv` and `SetupInv` say which rules a chain may have: those of the host, and
  the run's in their places once the command that adds them ran (`ChainRule`).  The final LOG rules are
  the last ones of their chains (`LogIsLast`).
* `PacketsInv`: unless another tracer runs, only packets of the flow are traced; and with iptables
  a packet of the flow is traced only when all insertions on its way are done
  (`Fixed`).  This is why a number printed for it still has its meaning when the listing
  is taken, although the setup goes on: what comes later is appended.
* `PlaceInv`: the rules a packet goes by may be older than those of its chain, but a traced one
  of the flow sees a beginning of them (`ViewInv`).
* `LinesInv`: each unread line is true of its packet and its rule (`LineTrue`); the lines of a
  packet that a rule dropped end with that rule's (`DropsEnd`); and who printed a final LOG line
  meets no rule that could drop him (`LogsAreFinal`), which needs the order of the chains (`WayEnds`).
* `AnswerInv` is `AnswerIsTrue` before all lines are read: an answer is true of its packet, or the
  line is on its way that will replace it by a drop (`DropComes`).
* `IntroInv` and `ToldInv`: with nft a packet that is not tracked yet has the line that shows the flow
  still ahead; the drop of the latest packet is the last line, or was told.

The proof has a lemma per action.  `GroundStep` serves those that touch no packet,
`KernelStep` those that move one and print, and `ReadStep` is the loop, by `EventTells`
and `OutcomeTells` about the parsers.  The assumptions on the host (`HostAssumption`): its rules
trace nothing themselves (what others trace is `othersTrace`), a handle names one rule, and
its chains and rules are not those of the run's table (which carries the run id; what merely looks like
one of them is in `Prints`).  `MaxEarly \in 0..MaxPackets` is a bound only.
`PathInv` was also evaluated by TLC on the instance of the run `path` before it was proved.

Only model-checked: the liveness properties `Returns`, `TerminalSettles`, `MonitorStops`,
`ProbeEnds` and `Reaped`, which rest on fairness (out of the prover's reach).  Every safety
property of a passing run is the subject of a theorem.  The theorems of
`CommandLineProofs` range over calls and answers, but over the texts of `Text` only.

## What is not modelled

* `output.go`, usage and shell quoting: formatting without state.  Regular expressions
  and ssh arguments: their results enter as fields of lines and as what `Shell` guarantees.
* Flags that are never asked for and always printed (limits, timeout, sudo, debug), and
  flags that package `flag` refuses.
* A crash of the program itself: nothing is deferred then and nothing recovers.
* In `TracePath`: flows with an ingress interface (`TraceRun` and `IptablesRun` have
  them), the lines of another run of the same program, conditions of
  host rules, more than one chain that is jumped to, and NAT.  An unconditional DROP at the end of a
  chain is printed by some kernels like a policy; the model prints it as a rule.
  Without a listing the rules of an iptables run are unknown and their events have the
  origin "system": the properties ask for a listing (`Readable`), all but `RuleTextTrue`.  A listing
  is cut between rules, not within a line.
* The loop's ways to end in `TracePath`: they are in `TraceRun`, which takes
  any line at any time.
* The scripts under `scripts/` and `.codex/`: they test the program on machines.

## Plan

Written so far, in this order: `Outcome`, `LineFeed`, `TraceRun`, `TempRules`,
`NftRun`, `IptablesRun`, `Stream`, `Startup`, `Parse`, `TracePath`, `CommandLine`, and
the proofs above.  Left, the most important first:

1. `TracePath` with an ingress interface, and with a second run of the program on the
   same host.
2. `TracePath` under the loop of `TraceRun`, so that the drain may miss a later drop.
