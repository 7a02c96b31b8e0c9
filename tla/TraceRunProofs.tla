--------------------------- MODULE TraceRunProofs ---------------------------
(***************************************************************************)
(* What holds of a run of either backend for every set of lines, capacity  *)
(* and limit: types, the meaning of "timeout", the permanence of answers,  *)
(* the limit on events and the origin of each event.                       *)
(***************************************************************************)
EXTENDS TraceRun, OutcomeProofs

BeforeTheLoop == {"detect", "start", "setup", "installing", "snapshot", "active",
                  "probing"}
Leaving       == {"deferred", "cleanup", "returning", "done"}

(* The strengthenings under which the properties are inductive.            *)

\* A timer that was armed means that the run has its answer; a run that goes on
\* has no error yet; the outcome leaves "timeout" only with an event.
AnswerInv ==
  /\ pc \in BeforeTheLoop => events = <<>>
  /\ pc \notin Leaving => ret = "none"
  /\ events = <<>> => outcome = "timeout"
  /\ drain # "off" => IsTerminal(outcome)
  /\ ret = "nil" /\ outcome = "timeout" => events = <<>>

\* In the loop there is always room for one event more.
RoomInv ==
  /\ CapRespected
  /\ pc \in BeforeTheLoop => events = <<>>
  /\ pc = "loop" => Len(events) < MaxEvents

\* A packet is tracked because one of the events matched.
TrackInv ==
  /\ EventsTracked
  /\ \A t \in tracked : \E j \in 1..Len(events) : events[j].ours /\ events[j].trace = t

----------------------------------------------------------------------------
(* Types.                                                                  *)

\* Receiving a line keeps the types of the feed.
LEMMA TakeType ==
  ASSUME FeedTypeOK, Take
  PROVE  FeedTypeOK' /\ Head(lines) \in Line
<1>1. lines \in Seq(Line) /\ lines # <<>>
  BY DEF FeedTypeOK, Take
<1>2. /\ Head(lines) \in Line /\ Tail(lines) \in Seq(Line)
      /\ Len(lines) \in Nat /\ Len(Tail(lines)) = Len(lines) - 1
  BY <1>1, HeadTailProperties, LenProperties
<1>3. Len(Tail(lines)) <= Cap
  BY <1>2, CapAssumption DEF FeedTypeOK
<1> QED
  BY <1>2, <1>3 DEF FeedTypeOK, Take

\* Every action of a run keeps every variable in its type.
LEMMA TypeStep == TypeOK /\ [RunNext]_runVars => TypeOK'
<1> SUFFICES ASSUME TypeOK, [RunNext]_runVars PROVE TypeOK'
  OBVIOUS
<1> USE DEF TypeOK, FeedTypeOK, RunTypeOK,
            feedVars, ctxVars, asideVars, resultVars, loopVars, Goto, ReturnWith
<1>1. CASE Detect
  BY <1>1 DEF Detect
<1>2. CASE DetectFails
  BY <1>2 DEF DetectFails
<1>3. CASE StartMonitor
  BY <1>3 DEF StartMonitor, OpenFeed
<1>4. CASE StartFails
  BY <1>4 DEF StartFails
<1>5. CASE LaunchSetup
  BY <1>5 DEF LaunchSetup
<1>6. CASE SetupSucceeds
  BY <1>6 DEF SetupSucceeds
<1>7. CASE SetupFails
  BY <1>7 DEF SetupFails, CancelTrace
<1>8. CASE Snapshot
  BY <1>8 DEF Snapshot
<1>9a. CASE ProbeRefused
  BY <1>9a DEF ProbeRefused
<1>9b. CASE ProbeStarts
  BY <1>9b DEF ProbeStarts
<1>9c. CASE ProbeHeard
  BY <1>9c DEF ProbeHeard
<1>9d. CASE ProbeAbandoned
  BY <1>9d DEF ProbeAbandoned
<1>10. CASE SkipLine
  <2>1. FeedTypeOK'
    <3> HIDE DEF FeedTypeOK
    <3> QED
      BY <1>10, TakeType DEF SkipLine, TypeOK
  <2> QED
    BY <1>10, <2>1 DEF SkipLine
<1>11. CASE RecordLine
  <2> DEFINE l   == Head(lines)
             evs == Append(events, l)
  <2>1. l \in Line /\ l \in EventFields /\ evs \in Seq(Line) /\ evs \in Seq(EventFields)
    BY <1>11, LineAssumption DEF RecordLine, Take
  <2>2. l.trace \in Trace
    BY <2>1 DEF EventFields
  <2>3. /\ OutcomeAfter(Backend, outcome, l) \in Outcomes
        /\ InIfaceAfter(inIface, l) \in Iface \cup {None}
        /\ OutIfaceAfter(outIface, l) \in Iface \cup {None}
    BY <2>1, OutcomeAfterType, IfaceAfterType
  <2>4. RunTypeOK'
    <3>1. outcome' \in Outcomes
      BY <1>11, <2>3, OutcomeAtEndType DEF RecordLine, Finish
    <3>2. inIface' \in Iface \cup {None} /\ outIface' \in Iface \cup {None}
      BY <1>11, <2>1, <2>3, FinishType DEF RecordLine, Finish
    <3>3. tracked' \subseteq Trace
      BY <1>11, <2>2 DEF RecordLine, TrackedAfter
    <3>4. drain' \in {"off", "armed", "fired"}
      BY <1>11 DEF RecordLine, DrainAfter
    <3>5. events' \in Seq(Line)
      BY <1>11, <2>1 DEF RecordLine
    <3>6. /\ pc' \in {"loop", "deferred"}
          /\ ret' \in {"nil", ret}
          /\ warnings' \in {warnings, warnings \cup {"max-events"}}
          /\ UNCHANGED <<ctxVars, asideVars, cleanupErr>>
      BY <1>11 DEF RecordLine
    <3> QED
      BY <3>1, <3>2, <3>3, <3>4, <3>5, <3>6
  <2>5. FeedTypeOK'
    <3> HIDE DEF FeedTypeOK
    <3> QED
      BY <1>11, TakeType DEF RecordLine, TypeOK
  <2> QED
    BY <2>4, <2>5
<1>12. CASE FeedClosed
  <2>1. events \in Seq(EventFields)
    BY LineAssumption
  <2>2. outcome' \in Outcomes /\ inIface' \in Iface \cup {None} /\ outIface' \in Iface \cup {None}
    BY <1>12, <2>1, FinishType, OutcomeAtEndType DEF FeedClosed, Finish
  <2> QED
    BY <1>12, <2>2 DEF FeedClosed, StreamErr
<1>13. CASE DrainFires
  <2>1. events \in Seq(EventFields)
    BY LineAssumption
  <2>2. outcome' \in Outcomes /\ inIface' \in Iface \cup {None} /\ outIface' \in Iface \cup {None}
    BY <1>13, <2>1, FinishType, OutcomeAtEndType DEF DrainFires, Finish
  <2> QED
    BY <1>13, <2>2 DEF DrainFires
<1>14. CASE TraceCtxDone
  <2>1. events \in Seq(EventFields)
    BY LineAssumption
  <2>2. outcome' \in Outcomes /\ inIface' \in Iface \cup {None} /\ outIface' \in Iface \cup {None}
    BY <1>14, <2>1, FinishType, OutcomeAtEndType DEF TraceCtxDone, Finish
  <2> QED
    BY <1>14, <2>2 DEF TraceCtxDone
<1>15. CASE StopAndCancel
  BY <1>15 DEF StopAndCancel, CancelTrace
<1>16. CASE Cleanup
  BY <1>16 DEF Cleanup
<1>17. CASE Return
  BY <1>17 DEF Return
<1>18. CASE FeedMoves
  <2>1. ASSUME NEW l \in Line, Emit(l) PROVE TypeOK'
    <3>1. lines' \in Seq(Line) /\ Len(lines') <= Cap
      BY <2>1, CapAssumption DEF Emit
    <3> QED
      BY <1>18, <2>1, <3>1 DEF FeedMoves, Emit
  <2>2. ASSUME NEW how \in {"exited", "failed"}, ProcEnds(how) PROVE TypeOK'
    BY <1>18, <2>2 DEF FeedMoves, ProcEnds, Ended
  <2>3. CASE CloseFeed
    BY <1>18, <2>3 DEF FeedMoves, CloseFeed
  <2>4. ASSUME NEW e \in {"scan", "exit"}, PostError(e) PROVE TypeOK'
    BY <1>18, <2>4 DEF FeedMoves, PostError
  <2> QED
    BY <1>18, <2>1, <2>2, <2>3, <2>4 DEF FeedMoves, FeedStep
<1>19. CASE KillMonitor
  BY <1>19 DEF KillMonitor, ProcEnds, Ended
<1>19a. CASE ProbeAnswers
  BY <1>19a DEF ProbeAnswers
<1>20. CASE DrainElapses
  BY <1>20 DEF DrainElapses
<1>21. CASE Deadline
  BY <1>21 DEF Deadline
<1>22. CASE Interrupt
  BY <1>22 DEF Interrupt, CancelTrace
<1>23. ASSUME NEW how \in {"ok", "failed"}, ScriptExits(how) PROVE TypeOK'
  BY <1>23 DEF ScriptExits
<1>24. CASE UNCHANGED runVars
  BY <1>24 DEF runVars
<1> QED
  BY <1>1, <1>2, <1>3, <1>4, <1>5, <1>6, <1>7, <1>8,
     <1>9a, <1>9b, <1>9c, <1>9d, <1>10, <1>11, <1>12,
     <1>13, <1>14, <1>15, <1>16, <1>17, <1>18, <1>19, <1>19a, <1>20, <1>21, <1>22,
     <1>23, <1>24
  DEF RunNext, BeforeLoop, InLoop, Deferred, Environment, Terminated

\* Every behaviour of a run is well typed.
THEOREM TypeCorrect == RunSpec => []TypeOK
<1>1. RunInit => TypeOK
  <2> SUFFICES ASSUME RunInit PROVE TypeOK
    OBVIOUS
  <2>1. lines \in Seq(Line) /\ Len(lines) <= Cap
    BY CapAssumption DEF RunInit, FeedInit
  <2>2. FeedTypeOK
    BY <2>1 DEF RunInit, FeedInit, FeedTypeOK
  <2>3. events \in Seq(Line) /\ outcome \in Outcomes
    BY DEF RunInit, Outcomes
  <2>4. RunTypeOK
    BY <2>3 DEF RunInit, RunTypeOK
  <2> QED
    BY <2>2, <2>4 DEF TypeOK
<1> QED
  BY <1>1, TypeStep, PTL DEF RunSpec

----------------------------------------------------------------------------
(* The meaning of "timeout".                                               *)

\* An event never takes an answer away, nor the run back to "timeout".
LEMMA OutcomeAfterStable ==
  ASSUME NEW backend, NEW o, NEW ev
  PROVE  /\ IsTerminal(o) => IsTerminal(OutcomeAfter(backend, o, ev))
         /\ OutcomeAfter(backend, o, ev) = "timeout" => o = "timeout"
  BY DEF OutcomeAfter, IsTerminal

LEMMA AtEndNotTimeout ==
  ASSUME NEW o, NEW evs \in Seq(Line), evs # <<>>
  PROVE  OutcomeAtEnd(o, evs) # "timeout"
<1>1. Len(evs) > 0
  BY EmptySeq
<1> QED
  BY <1>1 DEF OutcomeAtEnd

\* Every action preserves AnswerInv.
LEMMA AnswerStep == TypeOK /\ AnswerInv /\ [RunNext]_runVars => AnswerInv'
<1> SUFFICES ASSUME TypeOK, AnswerInv, [RunNext]_runVars PROVE AnswerInv'
  OBVIOUS
<1> USE DEF feedVars, ctxVars, asideVars, resultVars, loopVars, Goto, ReturnWith
<1>1. CASE Detect
  BY <1>1 DEF Detect, AnswerInv, BeforeTheLoop, Leaving
<1>2. CASE DetectFails
  BY <1>2 DEF DetectFails, AnswerInv, BeforeTheLoop, Leaving
<1>3. CASE StartMonitor
  BY <1>3 DEF StartMonitor, AnswerInv, BeforeTheLoop, Leaving
<1>4. CASE StartFails
  BY <1>4 DEF StartFails, AnswerInv, BeforeTheLoop, Leaving
<1>5. CASE LaunchSetup
  BY <1>5 DEF LaunchSetup, AnswerInv, BeforeTheLoop, Leaving
<1>6. CASE SetupSucceeds
  BY <1>6 DEF SetupSucceeds, AnswerInv, BeforeTheLoop, Leaving
<1>7. CASE SetupFails
  BY <1>7 DEF SetupFails, CancelTrace, AnswerInv, BeforeTheLoop, Leaving
<1>8. CASE Snapshot
  BY <1>8 DEF Snapshot, AnswerInv, BeforeTheLoop, Leaving
<1>9a. CASE ProbeRefused
  BY <1>9a DEF ProbeRefused, AnswerInv, BeforeTheLoop, Leaving
<1>9b. CASE ProbeStarts
  BY <1>9b DEF ProbeStarts, AnswerInv, BeforeTheLoop, Leaving
<1>9c. CASE ProbeHeard
  BY <1>9c DEF ProbeHeard, AnswerInv, BeforeTheLoop, Leaving
<1>9d. CASE ProbeAbandoned
  BY <1>9d DEF ProbeAbandoned, AnswerInv, BeforeTheLoop, Leaving
<1>10. CASE SkipLine
  BY <1>10 DEF SkipLine, AnswerInv, BeforeTheLoop, Leaving
<1>11. CASE RecordLine
  <2> DEFINE l   == Head(lines)
             evs == Append(events, l)
             o   == OutcomeAfter(Backend, outcome, l)
  <2>1. evs # <<>> /\ evs \in Seq(Line) /\ events' = evs
    BY <1>11, TakeType DEF RecordLine, TypeOK, RunTypeOK
  <2>2. outcome' \in {o, OutcomeAtEnd(o, evs)} /\ drain' = DrainAfter(o)
    BY <1>11 DEF RecordLine, Finish
  <2>3. IsTerminal(o) => outcome' = o
    BY <2>2 DEF OutcomeAtEnd, IsTerminal
  <2>4. drain' # "off" => IsTerminal(outcome')
    BY <2>2, <2>3, OutcomeAfterStable DEF AnswerInv, DrainAfter
  <2>5. pc' = "deferred" /\ ret' = "nil" => outcome' # "timeout"
    <3>1. CASE ReachedMaxEvents(evs)
      BY <1>11, <2>1, <3>1, AtEndNotTimeout DEF RecordLine, Finish
    <3>2. CASE ~ReachedMaxEvents(evs)
      BY <1>11, <3>2 DEF RecordLine
    <3> QED
      BY <3>1, <3>2
  <2>6. \/ pc' = "loop" /\ ret' = "none"
        \/ pc' = "deferred" /\ ret' = "nil"
    BY <1>11 DEF RecordLine, AnswerInv, Leaving
  <2> QED
    BY <2>1, <2>4, <2>5, <2>6 DEF AnswerInv, BeforeTheLoop, Leaving
<1>12. CASE FeedClosed
  <2>1. /\ outcome' = OutcomeAtEnd(outcome, events)
        /\ pc' = "deferred" /\ UNCHANGED <<events, drain>>
    BY <1>12 DEF FeedClosed, Finish
  <2>2. outcome' = "timeout" => events = <<>>
    BY <2>1, AtEndNotTimeout DEF TypeOK, RunTypeOK
  <2>3. events = <<>> => outcome' = "timeout"
    BY <2>1 DEF AnswerInv, OutcomeAtEnd
  <2>4. IsTerminal(outcome) => outcome' = outcome
    BY <2>1 DEF OutcomeAtEnd, IsTerminal
  <2> QED
    BY <2>1, <2>2, <2>3, <2>4 DEF AnswerInv, BeforeTheLoop, Leaving
<1>13. CASE DrainFires
  BY <1>13 DEF DrainFires, Finish, AnswerInv, BeforeTheLoop, Leaving, IsTerminal
<1>14. CASE TraceCtxDone
  <2>1. /\ outcome' = OutcomeAtEnd(outcome, events)
        /\ pc' = "deferred" /\ UNCHANGED <<events, drain>>
    BY <1>14 DEF TraceCtxDone, Finish
  <2>2. outcome' = "timeout" => events = <<>>
    BY <2>1, AtEndNotTimeout DEF TypeOK, RunTypeOK
  <2>3. events = <<>> => outcome' = "timeout"
    BY <2>1 DEF AnswerInv, OutcomeAtEnd
  <2>4. IsTerminal(outcome) => outcome' = outcome
    BY <2>1 DEF OutcomeAtEnd, IsTerminal
  <2> QED
    BY <2>1, <2>2, <2>3, <2>4 DEF AnswerInv, BeforeTheLoop, Leaving
<1>15. CASE StopAndCancel
  BY <1>15 DEF StopAndCancel, CancelTrace, AnswerInv, BeforeTheLoop, Leaving
<1>16. CASE Cleanup
  BY <1>16 DEF Cleanup, AnswerInv, BeforeTheLoop, Leaving
<1>17. CASE Return
  BY <1>17 DEF Return, AnswerInv, BeforeTheLoop, Leaving
<1>18. CASE FeedMoves
  BY <1>18 DEF FeedMoves, AnswerInv, BeforeTheLoop, Leaving
<1>19. CASE KillMonitor
  BY <1>19 DEF KillMonitor, AnswerInv, BeforeTheLoop, Leaving
<1>19a. CASE ProbeAnswers
  BY <1>19a DEF ProbeAnswers, AnswerInv, BeforeTheLoop, Leaving
<1>20. CASE DrainElapses
  BY <1>20 DEF DrainElapses, AnswerInv, BeforeTheLoop, Leaving
<1>21. CASE Deadline
  BY <1>21 DEF Deadline, AnswerInv, BeforeTheLoop, Leaving
<1>22. CASE Interrupt
  BY <1>22 DEF Interrupt, CancelTrace, AnswerInv, BeforeTheLoop, Leaving
<1>23. ASSUME NEW how \in {"ok", "failed"}, ScriptExits(how) PROVE AnswerInv'
  BY <1>23 DEF ScriptExits, AnswerInv, BeforeTheLoop, Leaving
<1>24. CASE UNCHANGED runVars
  BY <1>24 DEF runVars, AnswerInv, BeforeTheLoop, Leaving
<1> QED
  BY <1>1, <1>2, <1>3, <1>4, <1>5, <1>6, <1>7, <1>8,
     <1>9a, <1>9b, <1>9c, <1>9d, <1>10, <1>11, <1>12,
     <1>13, <1>14, <1>15, <1>16, <1>17, <1>18, <1>19, <1>19a, <1>20, <1>21, <1>22,
     <1>23, <1>24
  DEF RunNext, BeforeLoop, InLoop, Deferred, Environment, Terminated

\* nft.go 62-65, 93-95: in a result without error, "timeout" means that no event
\* was recorded and nothing else.
THEOREM TimeoutIsNoEvent == RunSpec => []OutcomeAgrees
<1>1. RunInit => AnswerInv
  BY DEF RunInit, AnswerInv, BeforeTheLoop, Leaving
<1>2. AnswerInv => OutcomeAgrees
  BY DEF AnswerInv, OutcomeAgrees
<1> QED
  BY <1>1, <1>2, TypeCorrect, AnswerStep, PTL DEF RunSpec

\* nft.go 157-192: once a run has an answer, no later event and no way of ending
\* leaves it without one.
THEOREM AnswerStays == RunSpec => TerminalIsStable
<1>1. [RunNext]_runVars => [IsTerminal(outcome) => IsTerminal(outcome')]_runVars
  <2> SUFFICES ASSUME RunNext, IsTerminal(outcome) PROVE IsTerminal(outcome')
    OBVIOUS
  <2>1. \A evs : OutcomeAtEnd(outcome, evs) = outcome
    BY DEF OutcomeAtEnd, IsTerminal
  <2>2. \A o, evs : IsTerminal(o) => IsTerminal(OutcomeAtEnd(o, evs))
    BY DEF OutcomeAtEnd, IsTerminal
  <2>3. CASE RecordLine
    <3> DEFINE o == OutcomeAfter(Backend, outcome, Head(lines))
    <3>1. IsTerminal(o)
      BY OutcomeAfterStable
    <3>2. outcome' \in {o, OutcomeAtEnd(o, Append(events, Head(lines)))}
      BY <2>3 DEF RecordLine, Finish
    <3> QED
      BY <2>2, <3>1, <3>2
  <2>4. CASE FeedClosed \/ DrainFires \/ TraceCtxDone
    BY <2>1, <2>4 DEF FeedClosed, DrainFires, TraceCtxDone, Finish
  <2>5. ASSUME UNCHANGED outcome PROVE IsTerminal(outcome')
    BY <2>5
  <2>6. CASE Detect
    BY <2>5, <2>6 DEF Detect, resultVars
  <2>7. CASE DetectFails
    BY <2>5, <2>7 DEF DetectFails, resultVars
  <2>8. CASE StartMonitor
    BY <2>5, <2>8 DEF StartMonitor, resultVars
  <2>9. CASE StartFails
    BY <2>5, <2>9 DEF StartFails, resultVars
  <2>10. CASE LaunchSetup
    BY <2>5, <2>10 DEF LaunchSetup, resultVars
  <2>11. CASE SetupSucceeds
    BY <2>5, <2>11 DEF SetupSucceeds, resultVars
  <2>12. CASE SetupFails
    BY <2>5, <2>12 DEF SetupFails, resultVars
  <2>13. CASE Snapshot
    BY <2>5, <2>13 DEF Snapshot, resultVars
  <2>14a. CASE ProbeRefused
    BY <2>5, <2>14a DEF ProbeRefused, resultVars
  <2>14b. CASE ProbeStarts
    BY <2>5, <2>14b DEF ProbeStarts, resultVars
  <2>14c. CASE ProbeHeard
    BY <2>5, <2>14c DEF ProbeHeard, resultVars
  <2>14d. CASE ProbeAbandoned
    BY <2>5, <2>14d DEF ProbeAbandoned, resultVars
  <2>15. CASE SkipLine
    BY <2>5, <2>15 DEF SkipLine, resultVars
  <2>16. CASE StopAndCancel
    BY <2>5, <2>16 DEF StopAndCancel, resultVars
  <2>17. CASE Cleanup
    BY <2>5, <2>17 DEF Cleanup, resultVars
  <2>18. CASE Return
    BY <2>5, <2>18 DEF Return, resultVars
  <2>19. CASE FeedMoves
    BY <2>5, <2>19 DEF FeedMoves, resultVars
  <2>20. CASE KillMonitor
    BY <2>5, <2>20 DEF KillMonitor, resultVars
  <2>20a. CASE ProbeAnswers
    BY <2>5, <2>20a DEF ProbeAnswers, resultVars
  <2>21. CASE DrainElapses
    BY <2>5, <2>21 DEF DrainElapses, resultVars
  <2>22. CASE Deadline
    BY <2>5, <2>22 DEF Deadline, resultVars
  <2>23. CASE Interrupt
    BY <2>5, <2>23 DEF Interrupt, resultVars
  <2>24. ASSUME NEW how \in {"ok", "failed"}, ScriptExits(how) PROVE IsTerminal(outcome')
    BY <2>5, <2>24 DEF ScriptExits, resultVars
  <2>25. CASE Terminated
    BY <2>5, <2>25 DEF Terminated, runVars, resultVars
  <2> QED
    BY <2>3, <2>4, <2>6, <2>7, <2>8, <2>9, <2>10, <2>11, <2>12, <2>13,
       <2>14a, <2>14b, <2>14c, <2>14d,
       <2>15, <2>16, <2>17, <2>18, <2>19, <2>20, <2>20a, <2>21, <2>22, <2>23, <2>24,
       <2>25
    DEF RunNext, BeforeLoop, InLoop, Deferred, Environment
<1> QED
  BY <1>1, PTL DEF RunSpec, TerminalIsStable

----------------------------------------------------------------------------
(* The limit on events.                                                    *)

\* Every action preserves RoomInv.
LEMMA RoomStep == TypeOK /\ RoomInv /\ [RunNext]_runVars => RoomInv'
<1> SUFFICES ASSUME TypeOK, RoomInv, [RunNext]_runVars PROVE RoomInv'
  OBVIOUS
<1> USE DEF feedVars, ctxVars, asideVars, resultVars, loopVars, Goto, ReturnWith
<1>1. CASE Detect
  <2>1. events' = <<>> /\ Len(events') = 0
    BY <1>1 DEF Detect, RoomInv, BeforeTheLoop
  <2>2. "max-events" \notin warnings'
    BY <1>1, MaxEventsAssumption DEF Detect, RoomInv, CapRespected, BeforeTheLoop
  <2> QED
    BY <2>1, <2>2, MaxEventsAssumption DEF RoomInv, CapRespected, BeforeTheLoop
<1>2. CASE DetectFails
  BY <1>2 DEF DetectFails, RoomInv, CapRespected, BeforeTheLoop
<1>3. CASE StartMonitor
  BY <1>3 DEF StartMonitor, RoomInv, CapRespected, BeforeTheLoop
<1>4. CASE StartFails
  BY <1>4 DEF StartFails, RoomInv, CapRespected, BeforeTheLoop
<1>5. CASE LaunchSetup
  BY <1>5 DEF LaunchSetup, RoomInv, CapRespected, BeforeTheLoop
<1>6. CASE SetupSucceeds
  BY <1>6 DEF SetupSucceeds, RoomInv, CapRespected, BeforeTheLoop
<1>7. CASE SetupFails
  BY <1>7 DEF SetupFails, CancelTrace, RoomInv, CapRespected, BeforeTheLoop
<1>8. CASE Snapshot
  <2>1. events' = <<>> /\ Len(events') = 0
    BY <1>8 DEF Snapshot, RoomInv, BeforeTheLoop
  <2>2. "max-events" \notin warnings'
    BY <1>8, MaxEventsAssumption DEF Snapshot, RoomInv, CapRespected, BeforeTheLoop
  <2> QED
    BY <2>1, <2>2, MaxEventsAssumption DEF RoomInv, CapRespected, BeforeTheLoop
<1>9a. CASE ProbeRefused
  <2>1. events' = <<>> /\ Len(events') = 0
    BY <1>9a DEF ProbeRefused, RoomInv, BeforeTheLoop
  <2>2. "max-events" \notin warnings'
    BY <1>9a, MaxEventsAssumption DEF ProbeRefused, RoomInv, CapRespected, BeforeTheLoop
  <2> QED
    BY <2>1, <2>2, MaxEventsAssumption DEF RoomInv, CapRespected, BeforeTheLoop
<1>9b. CASE ProbeStarts
  BY <1>9b DEF ProbeStarts, RoomInv, CapRespected, BeforeTheLoop
<1>9c. CASE ProbeHeard
  <2>1. events' = <<>> /\ Len(events') = 0
    BY <1>9c DEF ProbeHeard, RoomInv, BeforeTheLoop
  <2>2. "max-events" \notin warnings'
    BY <1>9c, MaxEventsAssumption DEF ProbeHeard, RoomInv, CapRespected, BeforeTheLoop
  <2> QED
    BY <2>1, <2>2, MaxEventsAssumption DEF RoomInv, CapRespected, BeforeTheLoop
<1>9d. CASE ProbeAbandoned
  <2>1. events' = <<>> /\ Len(events') = 0
    BY <1>9d DEF ProbeAbandoned, RoomInv, BeforeTheLoop
  <2>2. "max-events" \notin warnings'
    BY <1>9d, MaxEventsAssumption DEF ProbeAbandoned, RoomInv, CapRespected, BeforeTheLoop
  <2> QED
    BY <2>1, <2>2, MaxEventsAssumption DEF RoomInv, CapRespected, BeforeTheLoop
<1>10. CASE SkipLine
  BY <1>10 DEF SkipLine, RoomInv, CapRespected, BeforeTheLoop
<1>11. CASE RecordLine
  <2> DEFINE evs == Append(events, Head(lines))
  <2>1. /\ events' = evs /\ Len(evs) = Len(events) + 1 /\ Len(events) \in Nat
        /\ Len(events) < MaxEvents
    BY <1>11, TakeType DEF RecordLine, TypeOK, RunTypeOK, RoomInv
  <2>2. CASE ReachedMaxEvents(evs)
    <3>1. Len(evs) = MaxEvents /\ warnings' = warnings \cup {"max-events"} /\ pc' = "deferred"
      BY <1>11, <2>1, <2>2, MaxEventsAssumption DEF RecordLine, ReachedMaxEvents
    <3> QED
      BY <2>1, <3>1 DEF RoomInv, CapRespected, BeforeTheLoop
  <2>3. CASE ~ReachedMaxEvents(evs)
    <3>1. Len(evs) < MaxEvents /\ warnings' = warnings /\ pc' = "loop"
      BY <1>11, <2>1, <2>3, MaxEventsAssumption DEF RecordLine, ReachedMaxEvents
    <3> QED
      BY <2>1, <3>1, MaxEventsAssumption DEF RoomInv, CapRespected, BeforeTheLoop
  <2> QED
    BY <2>2, <2>3
<1>12. CASE FeedClosed
  BY <1>12 DEF FeedClosed, Finish, RoomInv, CapRespected, BeforeTheLoop
<1>13. CASE DrainFires
  BY <1>13 DEF DrainFires, Finish, RoomInv, CapRespected, BeforeTheLoop
<1>14. CASE TraceCtxDone
  BY <1>14 DEF TraceCtxDone, Finish, RoomInv, CapRespected, BeforeTheLoop
<1>15. CASE StopAndCancel
  BY <1>15 DEF StopAndCancel, CancelTrace, RoomInv, CapRespected, BeforeTheLoop
<1>16. CASE Cleanup
  BY <1>16 DEF Cleanup, RoomInv, CapRespected, BeforeTheLoop
<1>17. CASE Return
  BY <1>17 DEF Return, RoomInv, CapRespected, BeforeTheLoop
<1>18. CASE FeedMoves
  BY <1>18 DEF FeedMoves, RoomInv, CapRespected, BeforeTheLoop
<1>19. CASE KillMonitor
  BY <1>19 DEF KillMonitor, RoomInv, CapRespected, BeforeTheLoop
<1>19a. CASE ProbeAnswers
  BY <1>19a DEF ProbeAnswers, RoomInv, CapRespected, BeforeTheLoop
<1>20. CASE DrainElapses
  BY <1>20 DEF DrainElapses, RoomInv, CapRespected, BeforeTheLoop
<1>21. CASE Deadline
  BY <1>21 DEF Deadline, RoomInv, CapRespected, BeforeTheLoop
<1>22. CASE Interrupt
  BY <1>22 DEF Interrupt, CancelTrace, RoomInv, CapRespected, BeforeTheLoop
<1>23. ASSUME NEW how \in {"ok", "failed"}, ScriptExits(how) PROVE RoomInv'
  BY <1>23 DEF ScriptExits, RoomInv, CapRespected, BeforeTheLoop
<1>24. CASE UNCHANGED runVars
  BY <1>24 DEF runVars, RoomInv, CapRespected, BeforeTheLoop
<1> QED
  BY <1>1, <1>2, <1>3, <1>4, <1>5, <1>6, <1>7, <1>8,
     <1>9a, <1>9b, <1>9c, <1>9d, <1>10, <1>11, <1>12,
     <1>13, <1>14, <1>15, <1>16, <1>17, <1>18, <1>19, <1>19a, <1>20, <1>21, <1>22,
     <1>23, <1>24
  DEF RunNext, BeforeLoop, InLoop, Deferred, Environment, Terminated

\* run.go 195-204: no run records more than MaxEvents events, and it warns exactly
\* when it stopped at the limit.
THEOREM LimitHolds == RunSpec => []CapRespected
<1>1. RunInit => RoomInv
  BY MaxEventsAssumption DEF RunInit, RoomInv, CapRespected, BeforeTheLoop
<1>2. RoomInv => CapRespected
  BY DEF RoomInv
<1> QED
  BY <1>1, <1>2, TypeCorrect, RoomStep, PTL DEF RunSpec

----------------------------------------------------------------------------
(* The origin of the events.                                               *)

\* Every action preserves TrackInv.
LEMMA TrackStep == TypeOK /\ TrackInv /\ [RunNext]_runVars => TrackInv'
<1> SUFFICES ASSUME TypeOK, TrackInv, [RunNext]_runVars PROVE TrackInv'
  OBVIOUS
<1> USE DEF feedVars, ctxVars, asideVars, resultVars, loopVars, Goto, ReturnWith
<1>1. CASE Detect
  BY <1>1 DEF Detect, TrackInv, EventsTracked
<1>2. CASE DetectFails
  BY <1>2 DEF DetectFails, TrackInv, EventsTracked
<1>3. CASE StartMonitor
  BY <1>3 DEF StartMonitor, TrackInv, EventsTracked
<1>4. CASE StartFails
  BY <1>4 DEF StartFails, TrackInv, EventsTracked
<1>5. CASE LaunchSetup
  BY <1>5 DEF LaunchSetup, TrackInv, EventsTracked
<1>6. CASE SetupSucceeds
  BY <1>6 DEF SetupSucceeds, TrackInv, EventsTracked
<1>7. CASE SetupFails
  BY <1>7 DEF SetupFails, CancelTrace, TrackInv, EventsTracked
<1>8. CASE Snapshot
  BY <1>8 DEF Snapshot, TrackInv, EventsTracked
<1>9a. CASE ProbeRefused
  BY <1>9a DEF ProbeRefused, TrackInv, EventsTracked
<1>9b. CASE ProbeStarts
  BY <1>9b DEF ProbeStarts, TrackInv, EventsTracked
<1>9c. CASE ProbeHeard
  BY <1>9c DEF ProbeHeard, TrackInv, EventsTracked
<1>9d. CASE ProbeAbandoned
  BY <1>9d DEF ProbeAbandoned, TrackInv, EventsTracked
<1>10. CASE SkipLine
  BY <1>10 DEF SkipLine, TrackInv, EventsTracked
<1>11. CASE RecordLine
  <2> DEFINE l == Head(lines)
             n == Len(events)
  <2>1. /\ n \in Nat /\ Len(events') = n + 1
        /\ events'[n + 1] = l
        /\ \A j \in 1..n : events'[j] = events[j]
    BY <1>11, TakeType DEF RecordLine, TypeOK, RunTypeOK
  <2>2. /\ l.ours \/ l.trace \in tracked
        /\ tracked' = TrackedAfter(l)
    BY <1>11 DEF RecordLine, Relevant
  <2>3. \A t \in tracked : \E j \in 1..n : events'[j].ours /\ events'[j].trace = t
    BY <2>1 DEF TrackInv
  <2>4. \A t \in tracked' : \E j \in 1..(n + 1) : events'[j].ours /\ events'[j].trace = t
    BY <2>1, <2>2, <2>3 DEF TrackedAfter
  <2>5. \A i \in 1..n : \E j \in 1..i : events'[j].ours /\ events'[j].trace = events'[i].trace
    BY <2>1 DEF TrackInv, EventsTracked
  <2>6. \E j \in 1..(n + 1) : events'[j].ours /\ events'[j].trace = events'[n + 1].trace
    BY <2>1, <2>2, <2>3
  <2> QED
    BY <2>1, <2>4, <2>5, <2>6 DEF TrackInv, EventsTracked
<1>12. CASE FeedClosed
  BY <1>12 DEF FeedClosed, TrackInv, EventsTracked
<1>13. CASE DrainFires
  BY <1>13 DEF DrainFires, TrackInv, EventsTracked
<1>14. CASE TraceCtxDone
  BY <1>14 DEF TraceCtxDone, TrackInv, EventsTracked
<1>15. CASE StopAndCancel
  BY <1>15 DEF StopAndCancel, CancelTrace, TrackInv, EventsTracked
<1>16. CASE Cleanup
  BY <1>16 DEF Cleanup, TrackInv, EventsTracked
<1>17. CASE Return
  BY <1>17 DEF Return, TrackInv, EventsTracked
<1>18. CASE FeedMoves
  BY <1>18 DEF FeedMoves, TrackInv, EventsTracked
<1>19. CASE KillMonitor
  BY <1>19 DEF KillMonitor, TrackInv, EventsTracked
<1>19a. CASE ProbeAnswers
  BY <1>19a DEF ProbeAnswers, TrackInv, EventsTracked
<1>20. CASE DrainElapses
  BY <1>20 DEF DrainElapses, TrackInv, EventsTracked
<1>21. CASE Deadline
  BY <1>21 DEF Deadline, TrackInv, EventsTracked
<1>22. CASE Interrupt
  BY <1>22 DEF Interrupt, CancelTrace, TrackInv, EventsTracked
<1>23. ASSUME NEW how \in {"ok", "failed"}, ScriptExits(how) PROVE TrackInv'
  BY <1>23 DEF ScriptExits, TrackInv, EventsTracked
<1>24. CASE UNCHANGED runVars
  BY <1>24 DEF runVars, TrackInv, EventsTracked
<1> QED
  BY <1>1, <1>2, <1>3, <1>4, <1>5, <1>6, <1>7, <1>8,
     <1>9a, <1>9b, <1>9c, <1>9d, <1>10, <1>11, <1>12,
     <1>13, <1>14, <1>15, <1>16, <1>17, <1>18, <1>19, <1>19a, <1>20, <1>21, <1>22,
     <1>23, <1>24
  DEF RunNext, BeforeLoop, InLoop, Deferred, Environment, Terminated

\* nft.go 72-77, iptables.go 78-80: every event of a result belongs to a packet
\* that this event or an earlier one showed to be of the traced flow.
THEOREM EventsAreOurs == RunSpec => []EventsTracked
<1>1. RunInit => TrackInv
  BY DEF RunInit, TrackInv, EventsTracked
<1>2. TrackInv => EventsTracked
  BY DEF TrackInv
<1> QED
  BY <1>1, <1>2, TypeCorrect, TrackStep, PTL DEF RunSpec

----------------------------------------------------------------------------
(* The interfaces.                                                         *)

\* The loop keeps the interfaces that finishResult would find in the events.
IfaceInv == inIface = FinishIn(None, events) /\ outIface = FinishOut(None, events)

\* All but the ends of the loop and the recording of a line leave these fields alone.
LEMMA OtherSteps ==
  ASSUME [RunNext]_runVars
  PROVE  \/ RecordLine \/ FeedClosed \/ DrainFires \/ TraceCtxDone
         \/ UNCHANGED <<events, inIface, outIface>>
<1> USE DEF resultVars
<1>1. BeforeLoop => UNCHANGED <<events, inIface, outIface>>
  BY DEF BeforeLoop, Detect, DetectFails, StartMonitor, StartFails, LaunchSetup,
         SetupSucceeds, SetupFails, Snapshot, ProbeRefused, ProbeStarts, ProbeHeard,
         ProbeAbandoned
<1>2. SkipLine \/ Deferred => UNCHANGED <<events, inIface, outIface>>
  BY DEF SkipLine, Deferred, StopAndCancel, Cleanup, Return
<1>3. Environment => UNCHANGED <<events, inIface, outIface>>
  BY DEF Environment, FeedMoves, KillMonitor, ProbeAnswers, DrainElapses, Deadline,
         Interrupt
<1>4. \A how : ScriptExits(how) => UNCHANGED <<events, inIface, outIface>>
  BY DEF ScriptExits
<1>5. UNCHANGED runVars => UNCHANGED <<events, inIface, outIface>>
  BY DEF runVars
<1> QED
  BY <1>1, <1>2, <1>3, <1>4, <1>5 DEF RunNext, InLoop, Terminated

\* Every action preserves IfaceInv.
LEMMA IfaceStep == TypeOK /\ IfaceInv /\ [RunNext]_runVars => IfaceInv'
<1> SUFFICES ASSUME TypeOK, IfaceInv, [RunNext]_runVars PROVE IfaceInv'
  OBVIOUS
<1>1. CASE RecordLine
  <2> DEFINE l   == Head(lines)
             evs == Append(events, l)
             i   == InIfaceAfter(inIface, l)
             out == OutIfaceAfter(outIface, l)
  <2>1. events \in Seq(EventFields) /\ l \in EventFields
    BY <1>1, TakeType, LineAssumption DEF RecordLine, TypeOK, RunTypeOK
  <2>2. i = FinishIn(None, evs) /\ out = FinishOut(None, evs)
    BY <2>1, FirstStays, LastMoves DEF IfaceInv
  <2>3. events' = evs
    BY <1>1 DEF RecordLine
  <2>4. inIface' \in {i, FinishIn(i, evs)} /\ outIface' \in {out, FinishOut(out, evs)}
    BY <1>1 DEF RecordLine, Finish
  <2> QED
    BY <2>2, <2>3, <2>4, FinishAgain DEF IfaceInv
<1>2. CASE FeedClosed \/ DrainFires \/ TraceCtxDone
  <2>1. /\ events' = events
        /\ inIface' = FinishIn(inIface, events) /\ outIface' = FinishOut(outIface, events)
    BY <1>2 DEF FeedClosed, DrainFires, TraceCtxDone, Finish
  <2> QED
    BY <2>1, FinishAgain DEF IfaceInv
<1>3. CASE UNCHANGED <<events, inIface, outIface>>
  BY <1>3 DEF IfaceInv
<1> QED
  BY <1>1, <1>2, <1>3, OtherSteps

\* nft.go 157-163, run.go 175-193: the interfaces of a result are the first and the
\* last of its events, although they are kept up while the events come.
THEOREM IfacesOfEvents == RunSpec => []IfacesAgree
<1>1. RunInit => IfaceInv
  <2> SUFFICES ASSUME RunInit PROVE IfaceInv
    OBVIOUS
  <2>1. events = <<>> /\ inIface = None /\ outIface = None /\ 1..Len(events) = {}
    BY DEF RunInit
  <2> QED
    BY <2>1 DEF IfaceInv, FinishIn, FinishOut
<1>2. IfaceInv => IfacesAgree
  BY DEF IfaceInv, IfacesAgree
<1> QED
  BY <1>1, <1>2, TypeCorrect, IfaceStep, PTL DEF RunSpec

----------------------------------------------------------------------------
(* Stages of a run, for the rules of the backends.                         *)

\* A run goes through its stages in their order.
LEMMA StageAdvances ==
  ASSUME BeforeLoop \/ InLoop \/ StopAndCancel \/ Return \/ Environment \/ Terminated
  PROVE  \/ Stage' = Stage
         \/ Stage = "before" /\ Stage' \in {"setup", "run", "after"}
         \/ Stage = "setup" /\ Stage' = "run"
         \/ Stage = "run" /\ Stage' = "cleanup"
<1> USE DEF Stage, Goto, ReturnWith, loopVars, resultVars
<1>1. CASE BeforeLoop
  <2>1. CASE Detect \/ DetectFails \/ StartMonitor \/ StartFails
    BY <2>1 DEF Detect, DetectFails, StartMonitor, StartFails
  <2>2. CASE LaunchSetup \/ SetupSucceeds \/ SetupFails
    BY <2>2 DEF LaunchSetup, SetupSucceeds, SetupFails
  <2>3. CASE Snapshot
    BY <2>3 DEF Snapshot
  <2>4. CASE ProbeRefused \/ ProbeStarts \/ ProbeHeard \/ ProbeAbandoned
    BY <2>4 DEF ProbeRefused, ProbeStarts, ProbeHeard, ProbeAbandoned
  <2> QED
    BY <1>1, <2>1, <2>2, <2>3, <2>4 DEF BeforeLoop
<1>2. CASE InLoop
  <2>1. pc = "loop" /\ pc' \in {"loop", "deferred"}
    BY <1>2 DEF InLoop, SkipLine, RecordLine, FeedClosed, DrainFires, TraceCtxDone
  <2> QED
    BY <2>1
<1>3. CASE StopAndCancel \/ Return
  BY <1>3 DEF StopAndCancel, Return
<1>4. CASE Environment \/ Terminated
  <2>1. pc' = pc
    BY <1>4 DEF Environment, FeedMoves, KillMonitor, ProbeAnswers, DrainElapses, Deadline,
                Interrupt, Terminated, runVars
  <2> QED
    BY <2>1
<1> QED
  BY <1>1, <1>2, <1>3, <1>4
=============================================================================
