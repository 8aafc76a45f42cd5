----------------------------- MODULE JobRunner -----------------------------
(***************************************************************************)
(* The in-process runner of stored jobs (scheduler.py), the job rows it    *)
(* reads and writes (store.py), and the other tasks of the event loop that *)
(* touch the same rows: a turn that saves a reminder, a turn that fails,   *)
(* a confirmed cancel or reschedule, and a restart of the process.         *)
(*                                                                         *)
(* The gateway is one asyncio event loop, so another task runs only while  *)
(* the runner awaits: pc is a point of control, AwaitPoints are those at   *)
(* which the loop may run something else, and a restart may come anywhere. *)
(***************************************************************************)
EXTENDS Naturals

CONSTANTS
    Jobs,       \* job ids
    NoJob,      \* the runner is between two jobs
    Profiles,   \* the kinds of job that may be stored
    MaxFaults   \* bound: failed writes and sends, lost answers and restarts

Kinds == {"relay", "reminder", "digest", "watch"}

Profile == [kind: Kinds, once: BOOLEAN, tainted: BOOLEAN]

ASSUME JobsAssumption == NoJob \notin Jobs
\* parse_create: a watch is never one-time.
ASSUME ProfilesAssumption ==
    /\ Profiles \subseteq Profile
    /\ \A p \in Profiles : p.kind = "watch" => ~p.once
ASSUME MaxFaultsAssumption == MaxFaults \in Nat

VARIABLES
    (***********************************************************************)
    (* What survives a restart: the jobs table                             *)
    (***********************************************************************)
    profile,   \* the columns of a row that never change
    row,       \* the columns the runner and the owner write
    (***********************************************************************)
    (* What a restart loses                                                *)
    (***********************************************************************)
    relaySent, relayRecorded, notified,
               \* side effects whose row mark may not have stuck
    backoff,   \* jobs whose next attempt is held off
    turn,      \* the turn or yes that saved the job
    pc, cur,   \* where the runner is, and the job it is firing
    todo,      \* jobs of this tick's due_jobs still to be looked at
    snap,      \* the row each of them had when due_jobs read it
    (***********************************************************************)
    (* Observation only                                                    *)
    (***********************************************************************)
    count,     \* effects of the job's present run
    shaped,    \* jobs whose report was written from fetched text
    trusted,   \* jobs whose last report went into history unlabelled
    faults

effects == <<relaySent, relayRecorded, notified>>
mem     == <<effects, backoff>>
runner  == <<pc, cur, todo, snap>>
labels  == <<shaped, trusted>>
vars    == <<profile, row, mem, turn, runner, count, labels, faults>>

Texts   == {"none", "relayed", "prompt", "failed", "report", "expired"}

Row == [live: BOOLEAN, due: BOOLEAN, expired: BOOLEAN,
        sent: BOOLEAN, recorded: BOOLEAN,
        text: Texts, untrusted: BOOLEAN, after: {"advance", "cancel"},
        delivered: BOOLEAN]

Blank == [live |-> FALSE, due |-> FALSE, expired |-> FALSE,
          sent |-> FALSE, recorded |-> FALSE,
          text |-> "none", untrusted |-> FALSE, after |-> "advance",
          delivered |-> FALSE]

Count   == [phone: Nat, record: Nat, told: Nat, hist: Nat]
NoCount == [phone |-> 0, record |-> 0, told |-> 0, hist |-> 0]

AwaitPoints == {"idle", "relay_send", "record", "run", "notify", "persist"}
SyncPoints  == {"pick", "fire", "relay_mark", "record_mark", "queue",
                "delivered_mark", "finish", "clear"}

Kind(j)    == profile[j].kind
Once(j)    == profile[j].once
Tainted(j) == profile[j].tainted
Yielded    == pc \in AwaitPoints

TypeOK ==
    /\ profile \in [Jobs -> Profiles]
    /\ row \in [Jobs -> Row]
    /\ relaySent \subseteq Jobs /\ relayRecorded \subseteq Jobs
    /\ notified \subseteq Jobs /\ backoff \subseteq Jobs
    /\ turn \in [Jobs -> {"unborn", "open", "over", "failed"}]
    /\ pc \in AwaitPoints \cup SyncPoints
    /\ cur \in Jobs \cup {NoJob}
    /\ todo \subseteq Jobs
    /\ snap \in [Jobs -> Row]
    /\ count \in [Jobs -> Count]
    /\ shaped \subseteq Jobs
    /\ trusted \subseteq Jobs
    /\ faults \in 0..MaxFaults

Init ==
    /\ profile \in [Jobs -> Profiles]
    /\ row = [j \in Jobs |-> Blank]
    /\ relaySent = {} /\ relayRecorded = {} /\ notified = {} /\ backoff = {}
    /\ turn = [j \in Jobs |-> "unborn"]
    /\ pc = "idle"
    /\ cur = NoJob
    /\ todo = {}
    /\ snap = [j \in Jobs |-> Blank]
    /\ count = [j \in Jobs |-> NoCount]
    /\ shaped = {}
    /\ trusted = {}
    /\ faults = 0

-----------------------------------------------------------------------------
(* Helpers shared by the steps of _fire.                                   *)

Works == UNCHANGED <<profile, faults>>
Fails == faults < MaxFaults /\ faults' = faults + 1 /\ UNCHANGED profile

Goto(label) == pc' = label /\ UNCHANGED <<cur, todo, snap>>

\* The runner is through with cur in this tick.
Leave ==
    /\ pc' = "pick"
    /\ cur' = NoJob
    /\ todo' = todo \ {cur}
    /\ snap' = [snap EXCEPT ![cur] = Blank]

\* (Bug) The memory of a run is kept for the next one.
ForgetNothing == UNCHANGED effects

\* _forget: the run is over; the next one sends again.
Forget ==
    /\ relaySent' = relaySent \ {cur}
    /\ relayRecorded' = relayRecorded \ {cur}
    /\ notified' = notified \ {cur}

\* _defer: hold off the next attempt.
Defer ==
    /\ backoff' = backoff \cup {cur}
    /\ UNCHANGED effects
    /\ Leave

\* A StoreError that _fire catches itself or leaves to _tick: both defer.
StoreError == Fails /\ Defer /\ UNCHANGED row

Add(c, e) == [c EXCEPT ![e] = @ + 1]

Happens(e) == count' = [count EXCEPT ![cur] = Add(@, e)]

\* (Bugs) An UPDATE that takes the outbox along, forgets the label, or leaves
\* the due time of the run that ended.
CancelledWhole(r)      == [r EXCEPT !.live = FALSE, !.text = "none", !.delivered = FALSE]
RescheduledWhole(r)    == [r EXCEPT !.due = FALSE, !.text = "none", !.delivered = FALSE]
QueuedUnlabelled(r, q) == [r EXCEPT !.text = q.text, !.after = q.after, !.delivered = FALSE]
AdvancedStillDue(r)    == [r EXCEPT !.text = "none", !.delivered = FALSE,
                                    !.sent = FALSE, !.recorded = FALSE]

\* The writes of store.py, one operator for each UPDATE.
SentIn(r)      == [r EXCEPT !.sent = @ \/ r.live]
RecordedIn(r)  == [r EXCEPT !.recorded = TRUE]
DeliveredIn(r) == [r EXCEPT !.delivered = TRUE]
Cancelled(r)   == [r EXCEPT !.live = FALSE]
Queued(r, q)   == [r EXCEPT !.text = q.text, !.untrusted = q.untrusted,
                            !.after = q.after, !.delivered = FALSE]
Cleared(r)     == [r EXCEPT !.text = "none", !.untrusted = FALSE,
                            !.after = "advance", !.delivered = FALSE]
Advanced(r)    == [Cleared(r) EXCEPT !.due = FALSE, !.sent = FALSE, !.recorded = FALSE]
Rescheduled(r) == [r EXCEPT !.due = FALSE]

\* The local copy that _queue makes of the job before it writes the outbox.
Report(text, untrusted, after) ==
    /\ pc' = "queue"
    /\ snap' = [snap EXCEPT ![cur] =
                  Queued(@, [text |-> text, untrusted |-> untrusted, after |-> after])]
    /\ UNCHANGED <<cur, todo>>

\* (Bugs) The runner's own memory is not asked, or the record is left out.
AfterSendByRow(j)    == IF snap[j].recorded THEN "queue" ELSE "record"
AfterSendToReport(j) == "queue"

\* Where _fire goes once the other phone is known to have the text.
AfterSend(j) ==
    IF snap[j].recorded THEN "queue"
    ELSE IF j \in relayRecorded THEN "record_mark" ELSE "record"

\* The relay confirmation is what such a run queues.
RelayOn(j) ==
    IF AfterSend(j) = "queue"
    THEN Report("relayed", Tainted(j), IF Once(j) THEN "cancel" ELSE "advance")
    ELSE Goto(AfterSend(j))

\* Where _deliver goes first.
DeliverAt(j, delivered) ==
    IF delivered THEN "persist"
    ELSE IF j \in notified THEN "delivered_mark" ELSE "notify"

-----------------------------------------------------------------------------
(* One tick: the due rows are read once, then fired one after the other.   *)

\* (Bug) A cancelled row is never due.
DueWhileLive(j) == row[j].live /\ (row[j].text # "none" \/ row[j].due)

\* due_jobs: a cancelled row is due only for a report that already went out.
Due(j) ==
    \/ /\ row[j].live
       /\ \/ row[j].text # "none"
          \/ row[j].due
          \/ Kind(j) = "watch" /\ row[j].expired
    \/ row[j].text # "none" /\ row[j].delivered

\* (Bug) holds_job is not asked.
HeldByBackoff(j) == j \in backoff

\* A tick that would skip every due row changes nothing and is left out.
Held(j) == turn[j] = "open" \/ j \in backoff

Tick ==
    /\ pc = "idle"
    /\ \E j \in Jobs : Due(j) /\ ~Held(j)
    /\ todo' = {j \in Jobs : Due(j)}
    /\ snap' = [j \in Jobs |-> IF Due(j) THEN row[j] ELSE Blank]
    /\ pc' = "pick"
    /\ UNCHANGED <<row, mem, turn, cur, count, labels>>
    /\ Works

Skip(j) ==
    /\ pc = "pick" /\ j \in todo /\ Held(j)
    /\ todo' = todo \ {j}
    /\ snap' = [snap EXCEPT ![j] = Blank]
    /\ UNCHANGED <<row, mem, turn, pc, cur, count, labels>>
    /\ Works

Pick(j) ==
    /\ pc = "pick" /\ j \in todo /\ ~Held(j)
    /\ pc' = "fire"
    /\ cur' = j
    /\ UNCHANGED <<row, mem, turn, todo, snap, count, labels>>
    /\ Works

TickEnds ==
    /\ pc = "pick" /\ todo = {}
    /\ Goto("idle")
    /\ UNCHANGED <<row, mem, turn, count, labels>>
    /\ Works

-----------------------------------------------------------------------------
(* A relay: send the stored bytes, record them, then tell the sender.      *)

FiresRelay == pc = "fire" /\ snap[cur].text = "none" /\ Kind(cur) = "relay"

\* The phone has the text but the row does not say so: write the mark only.
RelayMarkAgain ==
    /\ FiresRelay /\ ~snap[cur].sent /\ cur \in relaySent
    /\ RelayOn(cur)
    /\ \/ row' = [row EXCEPT ![cur] = SentIn(@)] /\ Works
       \/ UNCHANGED row /\ Fails
    /\ UNCHANGED <<mem, turn, count, labels>>

RelayResume ==
    /\ FiresRelay /\ snap[cur].sent
    /\ RelayOn(cur)
    /\ UNCHANGED <<row, mem, turn, count, labels>>
    /\ Works

RelayBegin ==
    /\ FiresRelay /\ ~snap[cur].sent /\ cur \notin relaySent
    /\ Goto("relay_send")
    /\ UNCHANGED <<row, mem, turn, count, labels>>
    /\ Works

RelaySent ==
    /\ pc = "relay_send"
    /\ relaySent' = relaySent \cup {cur}
    /\ UNCHANGED <<relayRecorded, notified, backoff>>
    /\ Happens("phone")
    /\ Goto("relay_mark")
    /\ UNCHANGED <<row, turn, labels>>
    /\ Works

\* The send raised. _relay_was_sent reads the row; only this runner sets it.
RelayFails ==
    /\ pc = "relay_send"
    /\ Fails
    /\ IF row[cur].live /\ row[cur].sent
       THEN RelayOn(cur) /\ UNCHANGED mem
       ELSE Defer
    /\ UNCHANGED <<row, turn, count, labels>>

\* on_sent: a mark that fails is caught in _fire, which goes on to record.
RelayMark ==
    /\ pc = "relay_mark"
    /\ RelayOn(cur)
    /\ \/ row' = [row EXCEPT ![cur] = SentIn(@)] /\ Works
       \/ UNCHANGED row /\ Fails
    /\ UNCHANGED <<mem, turn, count, labels>>

Record ==
    /\ pc = "record"
    /\ \/ /\ Happens("record")
          /\ relayRecorded' = relayRecorded \cup {cur}
          /\ UNCHANGED <<relaySent, notified, backoff>>
          /\ Goto("record_mark")
          /\ Works
       \/ Fails /\ Defer /\ UNCHANGED count
    /\ UNCHANGED <<row, turn, labels>>

RecordMark ==
    /\ pc = "record_mark"
    /\ \/ /\ row[cur].live
          /\ row' = [row EXCEPT ![cur] = RecordedIn(@)]
          /\ Report("relayed", Tainted(cur), IF Once(cur) THEN "cancel" ELSE "advance")
          /\ UNCHANGED mem
          /\ Works
       \/ /\ ~row[cur].live
          /\ Forget /\ UNCHANGED backoff
          /\ Leave
          /\ UNCHANGED row
          /\ Works
       \/ StoreError
    /\ UNCHANGED <<turn, count, labels>>

-----------------------------------------------------------------------------
(* Every other job: text the prompt, or run the model and report.          *)

\* can_notify_job refused: a run that always talks is not worth a model call.
CheckRefused ==
    /\ pc = "fire" /\ snap[cur].text = "none" /\ Kind(cur) # "relay"
    /\ Kind(cur) # "watch" \/ snap[cur].expired
    /\ Leave
    /\ UNCHANGED <<row, mem, turn, count, labels>>
    /\ Fails

\* What the run does to the schedule once its report is stored.
AfterRun(j) ==
    IF (Kind(j) = "watch" /\ snap[j].expired) \/ Once(j) THEN "cancel" ELSE "advance"

Check ==
    /\ pc = "fire" /\ snap[cur].text = "none" /\ Kind(cur) # "relay"
    /\ IF Kind(cur) = "watch" /\ snap[cur].expired /\ ~snap[cur].due
       THEN Report("expired", Tainted(cur), "cancel")
       ELSE IF Kind(cur) = "reminder"
       THEN Report("prompt", Tainted(cur), AfterRun(cur))
       ELSE Goto("run")
    /\ shaped' = shaped \ {cur}
    /\ trusted' = trusted \ {cur}
    /\ UNCHANGED <<row, mem, turn, count>>
    /\ Works

\* The model answered. fetched is the label of what this run read.
RunReports ==
    /\ pc = "run"
    /\ \E fetched \in BOOLEAN :
         /\ Report("report", fetched \/ Tainted(cur), AfterRun(cur))
         /\ shaped' = IF fetched THEN shaped \cup {cur} ELSE shaped
    /\ UNCHANGED <<row, mem, turn, count, trusted>>
    /\ Works

\* The run raised, or answered without looking.
RunFails ==
    /\ pc = "run"
    /\ Report("failed", Tainted(cur), AfterRun(cur))
    /\ UNCHANGED <<row, mem, turn, count, labels>>
    /\ Works

\* A watch looked and found nothing: silence, unless its time is up.
RunFindsNothing ==
    /\ pc = "run" /\ Kind(cur) = "watch"
    /\ IF snap[cur].expired
       THEN /\ Report("expired", Tainted(cur), "cancel")
            /\ UNCHANGED <<row, mem, count>>
            /\ Works
       ELSE \/ /\ row' = [row EXCEPT ![cur] = IF @.live THEN Advanced(@) ELSE @]
               /\ count' = [count EXCEPT ![cur] = IF row[cur].live THEN NoCount ELSE @]
               /\ Leave
               /\ UNCHANGED mem
               /\ Works
            \/ StoreError /\ UNCHANGED count
    /\ UNCHANGED <<turn, labels>>

-----------------------------------------------------------------------------
(* The outbox: store the report, send it, append it to the history, and    *)
(* only then move the schedule on.                                         *)

\* (Bug) The report is stored without asking whether the row is still active.
QueueAnyway ==
    /\ pc = "queue"
    /\ row' = [row EXCEPT ![cur] = Queued(@, snap[cur])]
    /\ Goto(DeliverAt(cur, FALSE))
    /\ UNCHANGED <<mem, turn, count, labels>>
    /\ Works

Queue ==
    /\ pc = "queue"
    /\ \/ /\ row[cur].live
          /\ row' = [row EXCEPT ![cur] = Queued(@, snap[cur])]
          /\ Goto(DeliverAt(cur, FALSE))
          /\ UNCHANGED mem
          /\ Works
       \/ /\ ~row[cur].live
          /\ Forget /\ UNCHANGED backoff
          /\ Leave
          /\ UNCHANGED row
          /\ Works
       \/ StoreError
    /\ UNCHANGED <<turn, count, labels>>

\* A report an earlier tick or an earlier process could not finish.
Deliver ==
    /\ pc = "fire" /\ snap[cur].text # "none"
    /\ Goto(DeliverAt(cur, snap[cur].delivered))
    /\ UNCHANGED <<row, mem, turn, count, labels>>
    /\ Works

Notify ==
    /\ pc = "notify"
    /\ \/ /\ Happens("told")
          /\ notified' = notified \cup {cur}
          /\ UNCHANGED <<relaySent, relayRecorded, backoff>>
          /\ Goto("delivered_mark")
          /\ Works
       \/ Fails /\ Defer /\ UNCHANGED count
    /\ UNCHANGED <<row, turn, labels>>

\* mark_job_delivered does not ask whether the job was cancelled. Nothing but
\* this runner clears the outbox, so the row it marks is always there
\* (OutboxStillThere); the code's last append for a vanished one is folded in.
DeliveredMark ==
    /\ pc = "delivered_mark"
    /\ \/ /\ IF row[cur].text # "none"
             THEN /\ row' = [row EXCEPT ![cur] = DeliveredIn(@)]
                  /\ Goto("persist")
                  /\ UNCHANGED <<mem, count>>
             ELSE /\ Forget /\ backoff' = backoff \ {cur}
                  /\ Leave
                  /\ Happens("hist")
                  /\ UNCHANGED row
          /\ Works
       \/ StoreError /\ UNCHANGED count
    /\ UNCHANGED <<turn, labels>>

Persist ==
    /\ pc = "persist"
    /\ \/ /\ Happens("hist")
          /\ trusted' = IF snap[cur].untrusted THEN trusted \ {cur} ELSE trusted \cup {cur}
          /\ backoff' = backoff \ {cur} /\ UNCHANGED effects
          /\ Goto("finish")
          /\ Works
       \/ Fails /\ Defer /\ UNCHANGED <<count, trusted>>
    /\ UNCHANGED <<row, turn, shaped>>

Finish ==
    /\ pc = "finish"
    /\ \/ /\ snap[cur].after = "cancel"
          /\ row' = [row EXCEPT ![cur] = Cancelled(@)]
          /\ Goto("clear")
          /\ UNCHANGED <<mem, count>>
          /\ Works
       \/ /\ snap[cur].after = "advance" /\ row[cur].live
          /\ row' = [row EXCEPT ![cur] = Advanced(@)]
          /\ count' = [count EXCEPT ![cur] = NoCount]
          /\ Forget /\ UNCHANGED backoff
          /\ Leave
          /\ Works
       \/ /\ snap[cur].after = "advance" /\ ~row[cur].live
          /\ Forget /\ UNCHANGED backoff
          /\ Goto("clear")
          /\ UNCHANGED <<row, count>>
          /\ Works
       \/ StoreError /\ UNCHANGED count
    /\ UNCHANGED <<turn, labels>>

Clear ==
    /\ pc = "clear"
    /\ \/ /\ row' = [row EXCEPT ![cur] = Cleared(@)]
          /\ count' = [count EXCEPT ![cur] = NoCount]
          /\ Forget /\ UNCHANGED backoff
          /\ Leave
          /\ Works
       \/ StoreError /\ UNCHANGED count
    /\ UNCHANGED <<turn, labels>>

-----------------------------------------------------------------------------
(* The other tasks of the event loop. They run while the runner awaits.    *)

\* job_create, or a future relay stored at its yes. A created job is held
\* until its turn or its yes has answered; a stored relay is not.
Save(j) ==
    /\ Yielded /\ turn[j] = "unborn"
    /\ row' = [row EXCEPT ![j].live = TRUE]
    /\ turn' = [turn EXCEPT ![j] = IF Kind(j) = "relay" THEN "over" ELSE "open"]
    /\ UNCHANGED <<mem, runner, count, labels>>
    /\ Works

TurnEnds(j) ==
    /\ Yielded /\ turn[j] = "open"
    /\ turn' = [turn EXCEPT ![j] = "over"]
    /\ UNCHANGED <<row, mem, runner, count, labels>>
    /\ Works

\* _cancel_turn_jobs: a write that fails is logged and the id is let go. Only
\* a reminder of a clean conversation is saved by the turn itself.
TurnFails(j) ==
    /\ Yielded /\ turn[j] = "open"
    /\ Kind(j) = "reminder" /\ ~Tainted(j)
    /\ turn' = [turn EXCEPT ![j] = "failed"]
    /\ \/ row' = [row EXCEPT ![j] = Cancelled(@)] /\ Works
       \/ UNCHANGED row /\ Fails
    /\ UNCHANGED <<mem, runner, count, labels>>

\* The owner confirmed a cancel. Turns of one person are serialised, so the
\* one that saved the job is over.
Cancel(j) ==
    /\ Yielded /\ row[j].live /\ turn[j] # "open"
    /\ row' = [row EXCEPT ![j] = Cancelled(@)]
    /\ UNCHANGED <<mem, turn, runner, count, labels>>
    /\ Works

\* A new interval counts from now. The outbox and the relay marks stay.
Reschedule(j) ==
    /\ Yielded /\ row[j].live /\ row[j].due /\ turn[j] # "open"
    /\ row' = [row EXCEPT ![j] = Rescheduled(@)]
    /\ UNCHANGED <<mem, turn, runner, count, labels>>
    /\ Works

\* Time is read by due_jobs and by the back-off check of the same tick, so it
\* is enough to let it pass between two ticks.
Ripen(j) ==
    /\ pc = "idle" /\ row[j].live /\ ~row[j].due
    /\ row' = [row EXCEPT ![j].due = TRUE]
    /\ UNCHANGED <<mem, turn, runner, count, labels>>
    /\ Works

Expire(j) ==
    /\ pc = "idle" /\ row[j].live /\ Kind(j) = "watch" /\ ~row[j].expired
    /\ row' = [row EXCEPT ![j].expired = TRUE]
    /\ UNCHANGED <<mem, turn, runner, count, labels>>
    /\ Works

BackoffOver(j) ==
    /\ pc = "idle" /\ j \in backoff
    /\ backoff' = backoff \ {j} /\ UNCHANGED effects
    /\ UNCHANGED <<row, turn, runner, count, labels>>
    /\ Works

\* The effects of the present run that a row still speaks of.
Known(c, r) ==
    [phone  |-> IF r.sent THEN c.phone ELSE 0,
     record |-> IF r.recorded THEN c.record ELSE 0,
     told   |-> IF r.delivered THEN c.told ELSE 0,
     hist   |-> c.hist]

\* The process stops anywhere and starts again with the table and nothing
\* else. An effect no row speaks of is one the new process cannot know.
Restart ==
    /\ Fails
    /\ relaySent' = {} /\ relayRecorded' = {} /\ notified' = {} /\ backoff' = {}
    /\ turn' = [j \in Jobs |-> IF turn[j] = "open" THEN "over" ELSE turn[j]]
    /\ pc' = "idle" /\ cur' = NoJob /\ todo' = {}
    /\ snap' = [j \in Jobs |-> Blank]
    /\ count' = [j \in Jobs |-> Known(count[j], row[j])]
    /\ UNCHANGED <<row, labels>>

-----------------------------------------------------------------------------

RelaySteps ==
    \/ RelayMarkAgain \/ RelayResume \/ RelayBegin \/ RelaySent \/ RelayFails
    \/ RelayMark \/ Record \/ RecordMark

RunSteps ==
    \/ CheckRefused \/ Check \/ RunReports \/ RunFails \/ RunFindsNothing

OutboxSteps ==
    \/ Queue \/ Deliver \/ Notify \/ DeliveredMark \/ Persist \/ Finish \/ Clear

Runner ==
    \/ Tick
    \/ \E j \in Jobs : Skip(j) \/ Pick(j)
    \/ TickEnds
    \/ RelaySteps \/ RunSteps \/ OutboxSteps

Others(j) ==
    \/ Save(j) \/ TurnEnds(j) \/ TurnFails(j) \/ Cancel(j) \/ Reschedule(j)
    \/ Ripen(j) \/ Expire(j) \/ BackoffOver(j)

Next == Runner \/ (\E j \in Jobs : Others(j)) \/ Restart

\* The poll loop never stops, a task that is ready whenever the loop yields
\* runs (a turn ends), and a back-off runs out. Nothing obliges the owner to
\* act, a job to fall due, or a fault to happen.
Fairness ==
    /\ WF_vars(Runner)
    /\ \A j \in Jobs :
        /\ SF_vars(TurnEnds(j))
        /\ SF_vars(BackoffOver(j))

Spec     == Init /\ [][Next]_vars
FairSpec == Spec /\ Fairness

\* One life of the process.
Running      == Runner \/ \E j \in Jobs : Others(j)
RunningSpec  == Init /\ [][Running]_vars
FairRunning  == RunningSpec /\ Fairness

-----------------------------------------------------------------------------
(* Safety                                                                  *)

\* No relay send, relay record or report is repeated within one run of a job,
\* whatever bookkeeping writes fail, unless a restart forgot it: the relay
\* block, _deliver and the three memory sets of the runner.
EffectsOnce ==
    \A j \in Jobs : count[j].phone <= 1 /\ count[j].record <= 1 /\ count[j].told <= 1

\* The sender of a relay is told only after the record is stored, and nothing
\* is in the history that the phone did not get: _fire and _deliver.
InOrder ==
    \A j \in Jobs :
        /\ Kind(j) = "relay" /\ count[j].told > 0 => count[j].record > 0
        /\ count[j].hist > 0 => count[j].told > 0

\* A job cannot reach a phone before the turn or the yes that saved it has
\* answered: holds_job.
HeldUntilAnswered ==
    \A j \in Jobs : turn[j] = "open" => count[j].told = 0 /\ count[j].phone = 0

\* A report of a tainted job, or of a run that read untrusted text, is never
\* in the history as the assistant's own words: the labels _fire passes on
\* through the outbox, over retries and restarts.
LabelKept ==
    \A j \in trusted : ~Tainted(j) /\ j \notin shaped

\* The mid-send branch of _deliver is never taken: a cancel leaves the outbox
\* of a report that is on its way.
OutboxStillThere ==
    pc = "delivered_mark" => row[cur].text # "none"

\* A job cancelled before its report was stored is silent for good, even if
\* the runner fires it, or is running it, from the row it read before the
\* cancel: queue_job_report refuses a row that is no longer active.
Silenced(j) == turn[j] # "unborn" /\ ~row[j].live /\ row[j].text = "none"

CancelledIsSilent ==
    [][\A j \in Jobs : Silenced(j)
          => Silenced(j)' /\ count'[j].told <= count[j].told]_vars

\* A report marked delivered leaves the outbox only through the history.
DeliveredIsKept ==
    [][\A j \in Jobs : row[j].delivered /\ ~row'[j].delivered
                          => count[j].hist > 0]_vars

\* The runner, with its rows, marks, retries and restarts, does to the phones
\* and the histories only what JobContract allows.
Contract == INSTANCE JobContract WITH
    Jobs <- Jobs, Profiles <- Profiles, profile <- profile, count <- count
ImplementsContract == Contract!Spec

-----------------------------------------------------------------------------
(* Liveness                                                                *)

\* No row holds up another: a job that is due is run, moved or cancelled.
DueIsServed ==
    \A j \in Jobs : (row[j].live /\ row[j].due) ~> ~(row[j].live /\ row[j].due)

\* A report marked delivered is appended and its outbox cleared, cancel or not.
DeliveredIsFinished ==
    \A j \in Jobs : row[j].delivered ~> ~row[j].delivered

-----------------------------------------------------------------------------
(* What the documents say and the code does not do                         *)

\* architecture.md: a turn that fails after the save cancels that reminder.
FailedTurnStaysSilent ==
    \A j \in Jobs : turn[j] = "failed" => count[j].told = 0

\* A relay cancelled before its send began is not sent.
CancelledRelayStaysHome ==
    [][pc = "fire" /\ pc' = "relay_send" => row[cur].live]_vars

\* prd.md: the record of a message that reached the phone is retried on its own.
SentIsRecorded ==
    \A j \in Jobs : (count[j].phone > 0) ~> (count[j].phone = 0 \/ count[j].record > 0)

-----------------------------------------------------------------------------
(* The inductive invariant behind the safety properties, which             *)
(* JobRunnerProofs proves.                                                 *)

RelayPoints  == {"relay_send", "relay_mark", "record", "record_mark"}
OutboxPoints == {"notify", "delivered_mark", "persist", "finish", "clear"}

\* Where the runner is decides whether it holds a job, and that the job is
\* one of this tick.
ControlInv ==
    /\ pc = "idle" => todo = {}
    /\ pc \in {"idle", "pick"} => cur = NoJob
    /\ pc \notin {"idle", "pick"} => cur \in todo

\* What each point of _fire and _deliver may rely on.
StageInv ==
    /\ pc \in RelayPoints =>
        /\ Kind(cur) = "relay"
        /\ row[cur].text = "none" /\ snap[cur].text = "none"
        /\ row[cur].recorded = snap[cur].recorded
    /\ pc = "relay_send" => count[cur].phone = 0
    /\ pc \in RelayPoints \ {"relay_send"} => count[cur].phone = 1
    /\ pc = "record" => count[cur].record = 0
    /\ pc = "record_mark" => count[cur].record = 1
    /\ pc = "run" =>
        /\ Kind(cur) # "relay"
        /\ row[cur].text = "none" /\ snap[cur].text = "none"
        /\ cur \notin trusted \cup shaped
    /\ pc = "queue" =>
        /\ row[cur].text = "none" /\ snap[cur].text # "none"
        /\ Kind(cur) = "relay" => row[cur].recorded
    /\ pc \in OutboxPoints => row[cur].text # "none" /\ snap[cur].text # "none"
    /\ pc = "notify" => count[cur].told = 0
    /\ pc = "delivered_mark" => count[cur].told = 1
    /\ pc \in {"persist", "finish", "clear"} => row[cur].delivered
    /\ pc \in {"finish", "clear"} => count[cur].hist > 0
    /\ pc = "clear" => ~row[cur].live

\* Until a job is fired, only the owner's columns of its row may differ from
\* the row that due_jobs read.
Fresh(j) ==
    j \in todo /\ (j # cur \/ pc = "fire") =>
        /\ snap[j].sent = row[j].sent
        /\ snap[j].recorded = row[j].recorded
        /\ snap[j].text = row[j].text
        /\ snap[j].untrusted = row[j].untrusted
        /\ snap[j].delivered = row[j].delivered

\* The job can be fired again, or is being fired.
Unfinished(j) == row[j].live \/ row[j].text # "none" \/ j \in todo

\* An effect of a relay that happened is known to its row or to the runner's
\* memory for as long as the relay block can be reached.
RelayKnown(j) ==
    /\ count[j].phone \in {0, 1} /\ count[j].record \in {0, 1}
    /\ Kind(j) # "relay" => count[j].phone = 0 /\ count[j].record = 0
    /\ j \in relaySent => count[j].phone = 1
    /\ row[j].sent /\ Unfinished(j) => count[j].phone = 1
    /\ j \in relayRecorded => count[j].record = 1
    /\ row[j].recorded /\ Unfinished(j) => count[j].record = 1
    /\ Kind(j) = "relay" /\ row[j].text # "none" => row[j].recorded
    /\ count[j].phone = 1 =>
        row[j].sent \/ j \in relaySent \/ ~row[j].live \/ row[j].text # "none"
    /\ count[j].record = 1 =>
        row[j].recorded \/ j \in relayRecorded \/ ~row[j].live \/ row[j].text # "none"
    /\ j \in todo /\ count[j].phone = 1 =>
        snap[j].sent \/ j \in relaySent \/ snap[j].text # "none"
    /\ j \in todo /\ count[j].record = 1 =>
        snap[j].recorded \/ j \in relayRecorded \/ snap[j].text # "none"

\* A report that went out is in the outbox, and the row or the runner's
\* memory says that it went out.
ReportKnown(j) ==
    /\ count[j].told \in {0, 1}
    /\ row[j].delivered \/ j \in notified => count[j].told = 1
    /\ count[j].told = 1 => row[j].delivered \/ j \in notified
    /\ count[j].told = 1 => row[j].text # "none"
    /\ row[j].delivered => row[j].text # "none"
    /\ count[j].hist > 0 => row[j].delivered

\* Nothing happens for a job until the turn that saved it is over.
NotBeforeTurn(j) ==
    /\ turn[j] \in {"unborn", "open"} =>
        /\ j # cur /\ row[j].text = "none"
        /\ count[j].phone = 0 /\ count[j].record = 0 /\ count[j].told = 0
    /\ turn[j] = "unborn" =>
        ~row[j].live /\ ~row[j].sent /\ ~row[j].recorded /\ j \notin todo

\* The label of a report survives the outbox.
Labelled(j) ==
    /\ Kind(j) = "relay" => j \notin shaped
    /\ Tainted(j) \/ j \in shaped =>
        /\ j \notin trusted
        /\ row[j].text # "none" => row[j].untrusted
        /\ j \in todo /\ snap[j].text # "none" => snap[j].untrusted

JobInv(j) ==
    Fresh(j) /\ RelayKnown(j) /\ ReportKnown(j) /\ NotBeforeTurn(j) /\ Labelled(j)

IInv == ControlInv /\ StageInv /\ \A j \in Jobs : JobInv(j)

=============================================================================
