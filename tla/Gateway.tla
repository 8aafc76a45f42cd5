------------------------------ MODULE Gateway -------------------------------
(***************************************************************************)
(* The life of the process: the order of a start, the three tasks beside   *)
(* the heartbeat, and the order of a stop (gateway.py); what the channel's *)
(* task does meanwhile (SignalChannel.run), and the client it receives and *)
(* sends with (signal/client.py).                                          *)
(*                                                                         *)
(* A tick of the job runner and a check of the update watcher are one busy *)
(* state here; they are modelled in JobRunner and UpdateWatcher. Times are *)
(* left out: a grace period is known by its end, the expiry of the timer of*)
(* wait_for.                                                               *)
(***************************************************************************)
EXTENDS Naturals

CONSTANTS
    Turns,   \* turns that can be open
    Parts    \* of an answer (_chunks)

ASSUME PartsAssumption == Parts \in Nat \ {0}

VARIABLES
    phase,   \* where Gateway.run is
    stop,    \* the _shutdown event
    chan,    \* the channel's task
    broken,  \* it ends by an exception
    turn,    \* of each open turn, what is left: the model call and the parts of the answer
    job,     \* the job runner's task
    upd,     \* the update watcher's task
    link,    \* the client of signal-cli
    store,   \* the database
    timeup,  \* the task that is awaited has been cancelled
    graces   \* observed: timers of a grace that have expired

tasks == <<chan, broken, turn, job, upd>>
vars == <<phase, stop, tasks, link, store, timeup, graces>>

Starting == {"validating", "keychain", "waiting", "checking", "opening"}
Stopping == {"channel", "jobs", "updates", "closing"}

TypeOK ==
    /\ phase \in Starting \cup Stopping \cup {"running", "stopped"}
    /\ chan \in {"none", "connecting", "listening", "waiting", "draining", "ended"}
    /\ turn \in [Turns -> 0..Parts + 1]
    /\ job \in {"none", "idle", "busy", "ended"} /\ upd \in {"none", "idle", "busy", "ended"}
    /\ link \in {"none", "open", "closed"} /\ store \in {"none", "open", "closed"}
    /\ {stop, broken, timeup} \subseteq BOOLEAN
    /\ graces \in 0..2

Init ==
    /\ phase = "validating" /\ stop = FALSE
    /\ chan = "none" /\ broken = FALSE /\ turn = [t \in Turns |-> 0]
    /\ job = "none" /\ upd = "none"
    /\ link = "none" /\ store = "none"
    /\ timeup = FALSE /\ graces = 0

-----------------------------------------------------------------------------
(* The start                                                               *)

\* An exception in the start: the finally of run sets the event and stops.
Raise ==
    /\ phase' = "channel" /\ stop' = TRUE
    /\ UNCHANGED <<tasks, timeup, graces>>

\* _validate_models
Validate ==
    /\ phase = "validating"
    /\ \/ phase' = "keychain" /\ UNCHANGED <<stop, tasks, timeup, graces>>
       \/ Raise
    /\ UNCHANGED <<link, store>>

\* apply_caldav_password in a thread, then the client is made.
Keychain ==
    /\ phase = "keychain"
    /\ \/ /\ phase' = "waiting" /\ link' = "open"
          /\ UNCHANGED <<stop, tasks, timeup, graces>>
       \/ Raise /\ UNCHANGED link
    /\ UNCHANGED store

\* wait_until_healthy: an answer ends the wait also when a stop was asked for.
Healthy ==
    /\ phase = "waiting" /\ phase' = "checking"
    /\ UNCHANGED <<stop, tasks, link, store, timeup, graces>>

\* The time is up, or a stop ends the wait.
Unhealthy ==
    /\ phase = "waiting" /\ Raise
    /\ UNCHANGED <<link, store>>

\* check
Check ==
    /\ phase = "checking"
    /\ \/ phase' = "opening" /\ UNCHANGED <<stop, tasks, timeup, graces>>
       \/ Raise
    /\ UNCHANGED <<link, store>>

\* The rest of _start_signal, in which nothing awaits: the household, the
\* isolated extractor, the store, the policy, the channel, the tools, the tasks.
Open ==
    /\ phase = "opening"
    /\ \/ /\ phase' = "running" /\ store' = "open"
          /\ chan' = "connecting" /\ job' = "idle" /\ upd' = "idle"
          /\ UNCHANGED <<stop, broken, turn, timeup, graces>>
       \/ Raise /\ store' \in {"none", "open"}
    /\ UNCHANGED link

\* A signal of the operating system, at any time (install_signal_handlers).
RequestShutdown ==
    /\ ~stop /\ phase # "stopped" /\ stop' = TRUE
    /\ UNCHANGED <<phase, tasks, link, store, timeup, graces>>

\* _heartbeat_loop ends with the event.
Stop ==
    /\ phase = "running" /\ stop /\ phase' = "channel"
    /\ UNCHANGED <<stop, tasks, link, store, timeup, graces>>

-----------------------------------------------------------------------------
(* The channel's task and its turns                                        *)

Free == phase # "stopped" /\ UNCHANGED <<phase, job, upd, link, store, timeup, graces>>

\* The loop of receive looks at the event before each connection.
Again == IF stop THEN "draining" ELSE "connecting"

Connect ==
    /\ chan = "connecting" /\ chan' = "listening"
    /\ Free /\ UNCHANGED <<stop, broken, turn>>

\* (Bug) A connection that failed is not tried again.
DroppedGivesUp ==
    /\ chan \in {"connecting", "listening"} /\ chan' = "draining"
    /\ Free /\ UNCHANGED <<stop, broken, turn>>

\* The connection cannot be made, or drops.
Dropped ==
    /\ chan \in {"connecting", "listening"}
    /\ chan' = IF stop THEN "draining" ELSE "waiting"
    /\ Free /\ UNCHANGED <<stop, broken, turn>>

\* The other side closes it in good order, or _close_on_stop does: no wait.
Closed ==
    /\ chan = "listening" /\ chan' = Again
    /\ Free /\ UNCHANGED <<stop, broken, turn>>

\* The back-off runs out, or the event ends it.
BackOffEnds ==
    /\ chan = "waiting" /\ chan' = Again
    /\ Free /\ UNCHANGED <<stop, broken, turn>>

\* A frame that is a message opens a turn; others are passed over.
Frame(t) ==
    /\ chan = "listening" /\ turn[t] = 0
    /\ turn' = [turn EXCEPT ![t] = Parts + 1]
    /\ Free /\ UNCHANGED <<stop, chan, broken>>

\* Something nobody foresaw ends run.
Breaks ==
    /\ chan = "listening" /\ chan' = "draining" /\ broken' = TRUE
    /\ Free /\ UNCHANGED <<stop, turn>>

\* The model has answered, or a part of the answer is on the phone. A turn that
\* fails, or a part that does, ends it (_send_part, _guarded).
TurnGoesOn(t) ==
    /\ turn[t] > 0
    /\ turn' = [turn EXCEPT ![t] = @ - 1]
    /\ Free /\ UNCHANGED <<stop, chan, broken>>

TurnFails(t) ==
    /\ turn[t] > 1
    /\ turn' = [turn EXCEPT ![t] = 0]
    /\ Free /\ UNCHANGED <<stop, chan, broken>>

Quiet == \A t \in Turns : turn[t] = 0

\* (Bug) A channel that broke ends in silence.
DrainedSilent ==
    /\ chan = "draining" /\ Quiet
    /\ chan' = "ended"
    /\ Free /\ UNCHANGED <<stop, broken, turn>>

\* The finally of run has gathered the turns. _run_channel asks for a stop when
\* run broke.
Drained ==
    /\ chan = "draining" /\ Quiet
    /\ chan' = "ended" /\ stop' = (stop \/ broken)
    /\ Free /\ UNCHANGED <<broken, turn>>

-----------------------------------------------------------------------------
(* The other two tasks                                                     *)

\* The loop of a task: the event, looked at before each round of work, ends it.
Loop(task) == IF task = "busy" THEN "idle" ELSE IF stop THEN "ended" ELSE "busy"

\* JobRunner.run. A tick does not look at the event.
JobStep ==
    /\ job \in {"idle", "busy"} /\ job' = Loop(job)
    /\ UNCHANGED <<phase, stop, chan, broken, turn, upd, link, store, timeup, graces>>

\* UpdateWatcher.run, whose check the event cancels (_check_unless_stopped).
UpdateStep ==
    /\ upd \in {"idle", "busy"} /\ upd' = Loop(upd)
    /\ UNCHANGED <<phase, stop, chan, broken, turn, job, link, store, timeup, graces>>

-----------------------------------------------------------------------------
(* The stop                                                                *)

\* A task that is over, or was never there, is not waited for (_await_task).
ChannelAwaited ==
    /\ phase = "channel" /\ chan \in {"none", "ended"}
    /\ phase' = "jobs" /\ timeup' = FALSE
    /\ UNCHANGED <<stop, tasks, link, store, graces>>

\* (Bug) Only the channel is awaited.
JobsNotAwaited ==
    /\ phase = "jobs" /\ phase' = "updates" /\ timeup' = FALSE
    /\ UNCHANGED <<stop, tasks, link, store, graces>>

JobsAwaited ==
    /\ phase = "jobs" /\ job \in {"none", "ended"}
    /\ phase' = "updates" /\ timeup' = FALSE
    /\ UNCHANGED <<stop, tasks, link, store, graces>>

UpdatesAwaited ==
    /\ phase = "updates" /\ upd \in {"none", "ended"}
    /\ phase' = "closing" /\ timeup' = FALSE
    /\ UNCHANGED <<stop, tasks, link, store, graces>>

\* (Bug) A tick takes its cancellation for a failure of a job and goes on.
GraceRunsOutUnheard ==
    /\ ~timeup /\ timeup' = TRUE /\ graces' = graces + 1
    /\ \/ /\ phase = "channel" /\ chan \in {"connecting", "listening"}
          /\ chan' = "draining"
          /\ UNCHANGED <<turn, job>>
       \/ /\ phase = "channel" /\ chan = "draining" /\ ~Quiet
          /\ chan' = "ended" /\ turn' = [t \in Turns |-> 0]
          /\ UNCHANGED job
       \/ /\ phase = "jobs" /\ job = "busy"
          /\ UNCHANGED <<chan, turn, job>>
    /\ UNCHANGED <<phase, stop, broken, upd, link, store>>

\* The grace period of the task that is awaited is over, and it is cancelled: a
\* connection that is slow to come or go, turns that are still open, a tick that
\* is still at work. A channel that still receives goes on to gather its turns,
\* which nobody cancels then; one that gathers them passes the cancellation on.
GraceRunsOut ==
    /\ ~timeup /\ timeup' = TRUE /\ graces' = graces + 1
    /\ \/ /\ phase = "channel" /\ chan \in {"connecting", "listening"}
          /\ chan' = "draining"
          /\ UNCHANGED <<turn, job>>
       \/ /\ phase = "channel" /\ chan = "draining" /\ ~Quiet
          /\ chan' = "ended" /\ turn' = [t \in Turns |-> 0]
          /\ UNCHANGED job
       \/ /\ phase = "jobs" /\ job = "busy"
          /\ job' = "ended"
          /\ UNCHANGED <<chan, turn>>
    /\ UNCHANGED <<phase, stop, broken, upd, link, store>>

\* _close_owned
Close ==
    /\ phase = "closing" /\ phase' = "stopped"
    /\ link' = IF link = "open" THEN "closed" ELSE link
    /\ store' = IF store = "open" THEN "closed" ELSE store
    /\ UNCHANGED <<stop, tasks, timeup, graces>>

Main == Validate \/ Keychain \/ Healthy \/ Unhealthy \/ Check \/ Open \/ Stop
        \/ ChannelAwaited \/ JobsAwaited \/ UpdatesAwaited \/ Close
Ends == Drained \/ BackOffEnds \/ (stop /\ (Closed \/ Dropped))

Next ==
    \/ Main \/ RequestShutdown \/ GraceRunsOut
    \/ Connect \/ Dropped \/ Closed \/ BackOffEnds \/ Breaks \/ Drained
    \/ \E t \in Turns : Frame(t) \/ TurnGoesOn(t) \/ TurnFails(t)
    \/ JobStep \/ UpdateStep

\* Every request has a timeout, a closing connection closes, the loop serves
\* every task, and signal-cli can be reached again and again.
Fairness ==
    /\ WF_vars(Main) /\ WF_vars(Ends) /\ WF_vars(JobStep) /\ WF_vars(UpdateStep)
    /\ \A t \in Turns : WF_vars(TurnGoesOn(t))
    /\ SF_vars(Connect)

Spec == Init /\ [][Next]_vars
FairSpec == Spec /\ Fairness

-----------------------------------------------------------------------------
(* Properties                                                              *)

\* Nothing is closed under a task that still uses it, in whatever phase the stop
\* or an exception comes (_stop_signal, _close_owned).
ClosedLast ==
    link = "closed" \/ store = "closed" =>
        /\ chan \in {"none", "ended"} /\ Quiet
        /\ job \in {"none", "ended"} /\ upd \in {"none", "ended"}

\* A stop that was asked for ends the process, also during the start, and so
\* does a channel that is over (_run_channel, request_shutdown).
StopEnds == (stop \/ chan = "ended") ~> (phase = "stopped")

\* "Reconnects on drop": the channel listens again, unless a stop comes
\* (receive).
ListensAgain == (chan \in {"connecting", "waiting"}) ~> (chan = "listening" \/ stop)

\* A grace that has run out leaves the stop nothing to wait for, with one
\* exception, which no timer bounds: the turns of a channel that was cancelled
\* while it still received (_await_task, the finally of SignalChannel.run).
OnlyTurnsOverrun ==
    timeup => \/ phase = "channel" /\ chan = "ended"
              \/ phase = "channel" /\ chan = "draining" /\ ~broken
              \/ phase = "jobs" /\ job = "ended"

\* One grace period is all that a stop waits (.env.example:23).
OneGrace == graces <= 1
=============================================================================
