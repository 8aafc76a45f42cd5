--------------------------- MODULE GatewayProofs ----------------------------
(***************************************************************************)
(* Proofs about Gateway: whatever phase a stop, a signal or an exception   *)
(* meets, a task that still runs finds its store and its client open, and  *)
(* after a grace period only turns keep the stop waiting.                  *)
(***************************************************************************)
EXTENDS Gateway, TLAPS

Over(task) == task \in {"none", "ended"}

\* What each phase of the stop has behind it, and what a task leaves behind.
TurnsTyped   == turn \in [Turns -> Nat]
StartIsAlone == phase \in Starting => chan = "none" /\ job = "none" /\ upd = "none"
ChannelFirst == phase \in {"jobs", "updates", "closing", "stopped"} => Over(chan)
JobsNext     == phase \in {"updates", "closing", "stopped"} => Over(job)
UpdatesLast  == phase \in {"closing", "stopped"} => Over(upd)
NoTurnLeft   == Over(chan) => Quiet
OpenUntilEnd == link = "closed" \/ store = "closed" => phase = "stopped"

Inv ==
    /\ TurnsTyped /\ StartIsAlone
    /\ ChannelFirst /\ JobsNext /\ UpdatesLast
    /\ NoTurnLeft /\ OpenUntilEnd

LEMMA InitInv == Init => Inv
BY DEF Init, Inv, TurnsTyped, StartIsAlone, ChannelFirst, JobsNext, UpdatesLast, NoTurnLeft,
       OpenUntilEnd, Over, Quiet, Starting

LEMMA StartKeeps ==
    ASSUME Inv, Validate \/ Keychain \/ Healthy \/ Unhealthy \/ Check \/ Open PROVE Inv'
<1> USE DEF Inv, TurnsTyped, StartIsAlone, ChannelFirst, JobsNext, UpdatesLast, NoTurnLeft,
            OpenUntilEnd, Over, Quiet, Starting, Raise, tasks
<1>1. CASE Validate
  BY <1>1 DEF Validate
<1>2. CASE Keychain
  BY <1>2 DEF Keychain
<1>3. CASE Healthy
  BY <1>3 DEF Healthy
<1>4. CASE Unhealthy
  BY <1>4 DEF Unhealthy
<1>5. CASE Check
  BY <1>5 DEF Check
<1>6. CASE Open
  BY <1>6 DEF Open
<1> QED
  BY <1>1, <1>2, <1>3, <1>4, <1>5, <1>6

\* No turn is opened but by a channel that listens, and none goes on after the
\* channel has ended.
LEMMA TurnKeeps ==
    ASSUME Inv, NEW t \in Turns, Frame(t) \/ TurnGoesOn(t) \/ TurnFails(t) PROVE Inv'
<1> USE DEF Inv, TurnsTyped, StartIsAlone, ChannelFirst, JobsNext, UpdatesLast, NoTurnLeft,
            OpenUntilEnd, Over, Quiet, Starting, Free
<1>1. CASE Frame(t)
  BY <1>1, PartsAssumption DEF Frame
<1>2. CASE TurnGoesOn(t)
  BY <1>2 DEF TurnGoesOn
<1>3. CASE TurnFails(t)
  BY <1>3 DEF TurnFails
<1> QED
  BY <1>1, <1>2, <1>3

LEMMA ChannelKeeps ==
    ASSUME Inv, Connect \/ Dropped \/ Closed \/ BackOffEnds \/ Breaks \/ Drained PROVE Inv'
<1> USE DEF Inv, TurnsTyped, StartIsAlone, ChannelFirst, JobsNext, UpdatesLast, NoTurnLeft,
            OpenUntilEnd, Over, Quiet, Starting, Free, Again
<1>1. CASE Connect
  BY <1>1 DEF Connect
<1>2. CASE Dropped
  BY <1>2 DEF Dropped
<1>3. CASE Closed
  BY <1>3 DEF Closed
<1>4. CASE BackOffEnds
  BY <1>4 DEF BackOffEnds
<1>5. CASE Breaks
  BY <1>5 DEF Breaks
<1>6. CASE Drained
  BY <1>6 DEF Drained
<1> QED
  BY <1>1, <1>2, <1>3, <1>4, <1>5, <1>6

LEMMA TaskKeeps ==
    ASSUME Inv, JobStep \/ UpdateStep \/ RequestShutdown \/ Stop PROVE Inv'
<1> USE DEF Inv, TurnsTyped, StartIsAlone, ChannelFirst, JobsNext, UpdatesLast, NoTurnLeft,
            OpenUntilEnd, Over, Quiet, Starting, Loop, tasks
<1>1. CASE JobStep
  BY <1>1 DEF JobStep
<1>2. CASE UpdateStep
  BY <1>2 DEF UpdateStep
<1>3. CASE RequestShutdown
  BY <1>3 DEF RequestShutdown
<1>4. CASE Stop
  BY <1>4 DEF Stop
<1> QED
  BY <1>1, <1>2, <1>3, <1>4

LEMMA StopKeeps ==
    ASSUME Inv, ChannelAwaited \/ JobsAwaited \/ UpdatesAwaited \/ GraceRunsOut \/ Close PROVE Inv'
<1> USE DEF Inv, TurnsTyped, StartIsAlone, ChannelFirst, JobsNext, UpdatesLast, NoTurnLeft,
            OpenUntilEnd, Over, Quiet, Starting, tasks
<1>1. CASE ChannelAwaited
  BY <1>1 DEF ChannelAwaited
<1>2. CASE JobsAwaited
  BY <1>2 DEF JobsAwaited
<1>3. CASE UpdatesAwaited
  BY <1>3 DEF UpdatesAwaited
<1>4. CASE GraceRunsOut
  BY <1>4 DEF GraceRunsOut
<1>5. CASE Close
  BY <1>5 DEF Close
<1> QED
  BY <1>1, <1>2, <1>3, <1>4, <1>5

LEMMA NextKeeps == Inv /\ [Next]_vars => Inv'
<1> SUFFICES ASSUME Inv, [Next]_vars PROVE Inv'
  OBVIOUS
<1>1. CASE UNCHANGED vars
  BY <1>1 DEF vars, tasks, Inv, TurnsTyped, StartIsAlone, ChannelFirst, JobsNext, UpdatesLast,
              NoTurnLeft, OpenUntilEnd, Over, Quiet
<1>2. CASE \E t \in Turns : Frame(t) \/ TurnGoesOn(t) \/ TurnFails(t)
  BY <1>2, TurnKeeps
<1> QED
  BY <1>1, <1>2, StartKeeps, ChannelKeeps, TaskKeeps, StopKeeps DEF Next, Main

\* The phases keep their order in every state, for any number of turns and
\* parts (_stop_signal, _close_owned).
THEOREM Invariance == Spec => []Inv
BY InitInv, NextKeeps, PTL DEF Spec

\* Nothing is closed under a task that still uses it (_stop_signal,
\* _close_owned).
THEOREM ClosesLast == Spec => []ClosedLast
<1>1. Inv => ClosedLast
  BY DEF Inv, ClosedLast, ChannelFirst, JobsNext, UpdatesLast, NoTurnLeft, OpenUntilEnd, Over
<1> QED
  BY <1>1, Invariance, PTL

-----------------------------------------------------------------------------
(* What a stop waits for                                                   *)

\* The timer of the channel and that of the job runner expire once at most; that
\* of the watcher does not, for it ends with the event.
GracesCounted ==
    /\ phase \in Starting \cup {"running"} => ~timeup /\ graces = 0
    /\ phase = "channel" => graces = IF timeup THEN 1 ELSE 0
    /\ phase = "jobs" => graces <= IF timeup THEN 2 ELSE 1

Typed == TypeOK /\ GracesCounted

LEMMA StartTyped ==
    ASSUME Typed, Validate \/ Keychain \/ Healthy \/ Unhealthy \/ Check \/ Open PROVE Typed'
<1>1. /\ phase \in Starting /\ phase' \in Starting \cup {"running", "channel"}
      /\ UNCHANGED <<broken, turn, timeup, graces>>
  BY DEF Validate, Keychain, Healthy, Unhealthy, Check, Open, Raise, tasks, Starting
<1>2. stop' = TRUE \/ stop' = stop
  BY DEF Validate, Keychain, Healthy, Unhealthy, Check, Open, Raise, tasks
<1>3. {stop', broken', timeup'} \subseteq BOOLEAN
  BY <1>1, <1>2 DEF Typed, TypeOK
<1>4. /\ chan' \in {chan, "connecting"} /\ job' \in {job, "idle"} /\ upd' \in {upd, "idle"}
      /\ link' \in {link, "open"} /\ store' \in {store, "none", "open"}
  BY DEF Validate, Keychain, Healthy, Unhealthy, Check, Open, Raise, tasks
<1>5. TypeOK'
  BY <1>1, <1>3, <1>4 DEF Typed, TypeOK, Starting, Stopping
<1>6. GracesCounted'
  BY <1>1 DEF Typed, GracesCounted, Starting
<1> QED
  BY <1>5, <1>6 DEF Typed

LEMMA TurnTyped ==
    ASSUME Typed, NEW t \in Turns, Frame(t) \/ TurnGoesOn(t) \/ TurnFails(t) PROVE Typed'
<1>1. turn' \in [Turns -> 0..Parts + 1]
  <2>1. turn[t] \in 0..Parts + 1 /\ Parts \in Nat
    BY PartsAssumption DEF Typed, TypeOK
  <2>2. PICK n \in 0..Parts + 1 : turn' = [turn EXCEPT ![t] = n]
    BY <2>1 DEF Frame, TurnGoesOn, TurnFails
  <2> QED
    BY <2>2 DEF Typed, TypeOK
<1>2. UNCHANGED <<phase, stop, chan, broken, job, upd, link, store, timeup, graces>>
  BY DEF Frame, TurnGoesOn, TurnFails, Free
<1> QED
  BY <1>1, <1>2 DEF Typed, TypeOK, GracesCounted

LEMMA ChannelTyped ==
    ASSUME Typed, Connect \/ Dropped \/ Closed \/ BackOffEnds \/ Breaks \/ Drained PROVE Typed'
<1>1. /\ chan' \in {"connecting", "listening", "waiting", "draining", "ended"}
      /\ UNCHANGED <<phase, job, upd, link, store, timeup, graces, turn>>
  BY DEF Connect, Dropped, Closed, BackOffEnds, Breaks, Drained, Free, Again
<1>2. {stop', broken'} \subseteq BOOLEAN
  BY DEF Typed, TypeOK, Connect, Dropped, Closed, BackOffEnds, Breaks, Drained, Free
<1> QED
  BY <1>1, <1>2 DEF Typed, TypeOK, GracesCounted

LEMMA TaskTyped ==
    ASSUME Typed, JobStep \/ UpdateStep \/ RequestShutdown \/ Stop PROVE Typed'
<1> USE DEF Typed, TypeOK, GracesCounted, Starting, Stopping, Loop, tasks
<1>1. CASE JobStep
  BY <1>1 DEF JobStep
<1>2. CASE UpdateStep
  BY <1>2 DEF UpdateStep
<1>3. CASE RequestShutdown
  BY <1>3 DEF RequestShutdown
<1>4. CASE Stop
  BY <1>4 DEF Stop
<1> QED
  BY <1>1, <1>2, <1>3, <1>4

LEMMA StopTyped ==
    ASSUME Typed, ChannelAwaited \/ JobsAwaited \/ UpdatesAwaited \/ GraceRunsOut \/ Close PROVE Typed'
<1> USE DEF Typed, TypeOK, GracesCounted, Starting, Stopping, tasks
<1>1. CASE ChannelAwaited
  <2>1. graces \in {0, 1} /\ graces' = graces /\ timeup' = FALSE /\ phase' = "jobs"
    BY <1>1 DEF ChannelAwaited
  <2>2. GracesCounted'
    BY <2>1
  <2>3. {stop', broken', timeup'} \subseteq BOOLEAN
    BY <1>1, <2>1 DEF ChannelAwaited
  <2> QED
    BY <1>1, <2>2, <2>3 DEF ChannelAwaited
<1>2. CASE JobsAwaited
  BY <1>2 DEF JobsAwaited
<1>3. CASE UpdatesAwaited
  BY <1>3 DEF UpdatesAwaited
<1>4. CASE GraceRunsOut
  <2>1. turn' \in [Turns -> 0..Parts + 1]
    BY <1>4, PartsAssumption DEF GraceRunsOut
  <2> QED
    BY <1>4, <2>1 DEF GraceRunsOut
<1>5. CASE Close
  BY <1>5 DEF Close
<1> QED
  BY <1>1, <1>2, <1>3, <1>4, <1>5

LEMMA InitTyped == Init => Typed
<1> SUFFICES ASSUME Init PROVE Typed
  OBVIOUS
<1>1. {stop, broken, timeup} \subseteq BOOLEAN
  BY DEF Init
<1>2. turn \in [Turns -> 0..Parts + 1]
  BY PartsAssumption DEF Init
<1>3. TypeOK
  BY <1>1, <1>2 DEF Init, TypeOK, Starting
<1>4. GracesCounted
  BY DEF Init, GracesCounted
<1> QED
  BY <1>3, <1>4 DEF Typed

LEMMA NextTyped == Typed /\ [Next]_vars => Typed'
<1> SUFFICES ASSUME Typed, [Next]_vars PROVE Typed'
  OBVIOUS
<1>1. CASE UNCHANGED vars
  BY <1>1 DEF vars, tasks, Typed, TypeOK, GracesCounted
<1>2. CASE \E t \in Turns : Frame(t) \/ TurnGoesOn(t) \/ TurnFails(t)
  BY <1>2, TurnTyped
<1> QED
  BY <1>1, <1>2, StartTyped, ChannelTyped, TaskTyped, StopTyped DEF Next, Main

\* Every variable stays in its range; the timers of the grace expire twice at most.
\* That bounds no time, for the turns of a cancelled channel are gathered without
\* one (_stop_signal, _await_task).
THEOREM TypeCorrect == Spec => []TypeOK
<1>1. Typed => TypeOK
  BY DEF Typed
<1> QED
  BY <1>1, InitTyped, NextTyped, PTL DEF Spec

\* No timer runs but in the phase that awaits its task.
TimersOfPhases == phase \notin {"channel", "jobs"} => ~timeup

\* A channel that broke receives no more, and only one that runs breaks.
BrokenIsOver == broken => chan \in {"draining", "ended"} /\ phase \notin Starting

Overrun == TimersOfPhases /\ BrokenIsOver /\ OnlyTurnsOverrun

LEMMA OverrunKeeps == Overrun /\ StartIsAlone /\ [Next]_vars => Overrun'
<1> SUFFICES ASSUME Overrun, StartIsAlone, [Next]_vars PROVE Overrun'
  OBVIOUS
<1> USE DEF Overrun, TimersOfPhases, BrokenIsOver, OnlyTurnsOverrun, StartIsAlone, Starting, tasks
<1>1. CASE UNCHANGED vars
  BY <1>1 DEF vars
<1>2. CASE Validate \/ Keychain \/ Healthy \/ Unhealthy \/ Check \/ Open \/ Stop
  <2>1. ~timeup /\ UNCHANGED <<broken, timeup>>
    BY <1>2 DEF Validate, Keychain, Healthy, Unhealthy, Check, Open, Stop, Raise
  <2>2. broken => phase = "running" /\ phase' = "channel" /\ UNCHANGED chan
    BY <1>2 DEF Validate, Keychain, Healthy, Unhealthy, Check, Open, Stop
  <2> QED
    BY <2>1, <2>2
<1>3. CASE ChannelAwaited \/ JobsAwaited \/ UpdatesAwaited
  BY <1>3 DEF ChannelAwaited, JobsAwaited, UpdatesAwaited
<1>4. CASE Close \/ RequestShutdown
  BY <1>4 DEF Close, RequestShutdown
<1>5. CASE GraceRunsOut
  BY <1>5 DEF GraceRunsOut
<1>6. CASE Connect \/ Dropped \/ Closed \/ BackOffEnds \/ Breaks \/ Drained
  <2>1. /\ UNCHANGED <<phase, job, timeup>>
        /\ chan \in {"connecting", "listening", "waiting", "draining"}
        /\ chan = "draining" => chan' = "ended" /\ UNCHANGED broken
        /\ broken' # broken => chan' = "draining" /\ chan = "listening"
    BY <1>6 DEF Connect, Dropped, Closed, BackOffEnds, Breaks, Drained, Free
  <2> QED
    BY <2>1
<1>7. CASE \E t \in Turns : Frame(t) \/ TurnGoesOn(t) \/ TurnFails(t)
  <2>1. UNCHANGED <<phase, chan, broken, job, timeup>>
    BY <1>7 DEF Frame, TurnGoesOn, TurnFails, Free
  <2> QED
    BY <2>1
<1>8. CASE JobStep \/ UpdateStep
  BY <1>8 DEF JobStep, UpdateStep
<1> QED
  BY <1>1, <1>2, <1>3, <1>4, <1>5, <1>6, <1>7, <1>8 DEF Next, Main

\* After a grace has run out nothing keeps the stop waiting but the turns of a
\* channel that was cancelled while it received, for any number of turns and parts
\* (_await_task, the finally of SignalChannel.run).
THEOREM OnlyTurns == Spec => []OnlyTurnsOverrun
<1>1. Init => Overrun
  BY DEF Init, Overrun, TimersOfPhases, BrokenIsOver, OnlyTurnsOverrun
<1>2. Inv => StartIsAlone
  BY DEF Inv
<1>3. Overrun => OnlyTurnsOverrun
  BY DEF Overrun
<1> QED
  BY <1>1, <1>2, <1>3, OverrunKeeps, Invariance, PTL DEF Spec

=============================================================================
