# assistAI: a verification project

TLA+ models of the household assistant in this repository, the TLC runs that
check them on small instances, and TLAPS proofs of what matters most. All
paths below are relative to `src/assistai/` unless they start with `docs/`.

## The system

One process, one asyncio event loop, one SQLite file. Two people text a bot
over Signal; each is bound to an agent with its own history. Nothing runs in
parallel: tasks interleave at `await`, and the database survives a restart.

| Part | State | Operations | Meets |
| --- | --- | --- | --- |
| Job runner (`scheduler.py`) | three in-memory sets of effects, back-off times | poll, fire, queue, deliver | store (rows), channel (sends, model turns, history) |
| Job tools (`jobs.py`) | - | create, cancel, reschedule, list | store; run inside a turn or a yes |
| Channel (`signal/channel.py`) | cached histories, open turns, three kinds of lock, UUID cache | handle a message, run a job turn, append a report or a relay | everything |
| Staging (`staging.py`, `broker.py`) | calls staged by a turn, one stored proposal per agent | stage, confirm, discard, expire | channel, store |
| Relay (`relay.py`) | - | send, record for the other person, store for later | channel (other history lock), store |
| Store (`store.py`) | tables: messages, proposals, jobs, allowlist, lists, tokens, notice | one transaction per call | all |
| Window (`conversation.py`) | - | cut a history by number and age, drop untrusted text for a job | channel |
| Access (`signal/policy.py`, `signal/ratelimit.py`) | pending codes, approved numbers, hits per key | decide, pair, approve, allow, record | channel |
| Lists (`shared/`) | lists and items, shared or private | read, apply | store, broker |
| Updates (`updates/`) | the last notice | check, report | store, Signal |
| Gateway (`gateway.py`) | the three tasks, the stop event | start, heartbeat, stop | all tasks |
| Turn loop (`inference/loop.py`) | the list of messages, the rounds | ask the model, run its calls | broker, channel |
| Broker (`broker.py`) | a surface per turn: grants, label, staged calls, whether the clock was read | execute, commit, deny | loop, staging, job and relay tools |
| Inference client (`inference/`) | the stream being read | complete | loop |
| Signal client (`signal/client.py`) | the connection | receive, send in parts, reconnect | channel, gateway |
| Mail (`mail/`) | one token row per agent | list, read, draft, file a batch, refresh; login (another process) | store, broker |
| Calendar (`calendar/`) | the address of the calendar | agenda, create | broker |
| Research (`research/`) | - | search, fetch | broker |

What is hard in it:

* a tick fires rows it read before it awaited, while their owner cancels them;
* every effect on a phone is followed by a write that may fail, so a retry
  must know what already happened, and a restart forgets what no row says;
* a turn saves a reminder before its own answer is sent, and may fail after it;
* a proposal may be confirmed twice, replaced, expire, or be half saved;
* a turn keeps the whole history in memory and saves the whole history, while
  relays and reports are appended by other tasks;
* three kinds of lock, taken by turns, by job turns and across two people;
* the label of untrusted text must follow a report, a proposal and a job over
  all of this, and three pieces of code keep one each;
* the calls of a proposal are judged one by one when they are staged, and run
  later, in another turn, on a table that may have changed;
* tables of 64 codes and 256 keys must forget somebody when they are full;
* what an agent may read and what it may write differ, and a list may not show
  through a name, a limit or a refusal to someone who may not read it;
* the watcher texts first and writes after it, and may know half of the truth;
* a stop may come in any phase of the start, and of the stop itself;
* a request to Google or to the calendar may be carried out and its answer lost,
  and what a client read before it waited is old when the answer comes.

What makes each part correct: the runner repeats no effect within a run, tells
nobody too early, keeps labels, finishes what went out and serves every due
job; a proposal's calls run at most once and exactly as shown, and a dead
proposal stays dead; no exchange is overwritten, no half turn is stored, every
message is answered; a completion's calls all have results, in every window cut
from the history; no change to jobs that a preview shows is turned down after the
yes; a report changes nothing; the code an operator types admits the number it was
texted to and no other, and a meter never exceeds its limit in a window; a list stays within its limits and its scope, and changes as a whole;
a notice is neither repeated nor forgotten; nothing is closed under a task and a
stop ends; a confirmed change to the mailbox or the calendar is made at most once and as
shown, a login is kept, every call ends; an answer is what the model said.

## Modules

`JobRunner` models `scheduler.py`, the job methods of `store.py`, and the other
tasks that write the same rows. `row` holds the columns of the jobs table the
runner and the owner change, `relaySent`, `relayRecorded`, `notified` and
`backoff` are the runner's memory, `snap` the rows `due_jobs` read, `pc` and
`cur` where `_fire` is. The statements between two awaits of `_fire` that touch
the database are one action each, because each may fail and because a restart
may come in between; other tasks run only at the await points (`Yielded`).
Abstracted: text of prompts and reports, names, the length of a back-off, the
clock (a job becomes due or a watch expires between two ticks), the send meter
(a refusal is a fault). `count`, `shaped` and `trusted` only observe.

`JobContract` is what a job promises, seen from the phones and histories, with
no rows, marks or retries. `JobRunner` implements it with the same `profile`
and `count`.

`JobRunnerProofs` holds the proofs about `JobRunner`.

`Conversation` models the channel: one task per message, the sender's lock as a
queue (`line`), the turn slots, the history locks, `_histories` as `cache`, the
stored `history` and `prop`, a turn with its model call, the four ways a
decision may go, the calls of a confirmed proposal, and the runner's model
turns and appends. An exchange is one element of a history: a message, its
tool calls and its answer are always appended together. `by` and `call` say
whose it is, so that no two are equal, not even the relays of one yes to the same
person. Steps without an await
in between are one action, except the calls of a proposal: a restart may come
between two of them. Abstracted: the text of messages and answers (a chat, a
yes or a no), the reminders a turn saves (`JobRunner` has them), the arguments
of calls (a call writes rows or texts the other phone), and the answers that
need no slot. The label of an exchange is the disjunction of those of its
messages. `offer`, `runs`, `saved`, `shaped` and `seen` only observe.

`ConfirmContract` is what staging promises; `Conversation` implements it with
`OfferPhase` computed from the stored proposals and those a yes has taken.

`Turn` models what happens inside the turns of one agent: `run_turn`,
`BoundSurface`, the staging checks, the handlers of the job and relay tools,
the window and `trusted_context`. `messages`, `rounds`, `derived` and `queue` are the
loop's, `surface` is the `BoundSurface`, `jobs` the live rows of the agent,
`stored` and `prop` what the store holds. Each call of a completion is one
action, by what becomes of it (`Refuse`, `Stage`, `Remind`, `Read`), and so is
each call of a confirmed proposal (`CommitCall`); the runner may end a job where
the code awaits (`Yields`). The model may call any tool of the catalog, also
those it was not told of (`specs` is left out for that reason). Abstracted: texts,
prompts, the parsing of arguments (a call has been parsed, and its change to a
list is one the agent may write), the
audit log, the clock (a start time may have passed or not, and a time may be more
than the clock can show), ages (any prefix of a history may be too old). A handler
that saves, cancels or moves a job may also fail at the store. Locks, failed
writes of histories and proposals, and restarts are in `Conversation`, and one turn of the agent runs at a time, which its sender's
lock sees to. `asked` in a row, `results` and `drift` only observe.

`AccessPolicy` models `signal/policy.py`, and what the channel does with it and
with the meters: a stranger's first message (`Unknown`), approval by an operator,
the turns and reports that are metered (`Message`, `Notify`, `Notified`), a clock
and restarts, each of which first imports what the allowlist file of an earlier
release holds (`file`), number by number, up to a write that fails. `stored` is the
allowlist table, `approved`, `pending` and `hits` the memory. `RateLimiter` has the sliding window as operators on a table of hits.
Where several entries are equally old, any of them may go. Codes are drawn from
a set, so two strangers may hold the same. `issued`, `typed` (the code an operator
just sent) and `spent` only observe.

`SharedLists` models `shared/organizer.py`, `apply_shared` of `store.py` and the
check that is repeated after the yes. Nothing awaits between them, so a confirmed
change is one step (`Apply`), and `Result` is the set of the tables it may leave:
none when it is refused or an item is missing. A list is a count of open and
checked rows for each text.

`UpdateWatcher` models `updates/`: a check as one lookup for each pin, in any
order, then a text and then a write, each of which may fail; a stop at any of
them. A lookup asks for one page after the other (`walk`), and a repository may
publish between two of them. A text is its set of lines, and whether a finding is
in it is asked of the text as the code does (`Within`): the line of a release
contains that of one whose name begins its name (`Begins`). `shown` is what the phone
was told, `excuse` that the watcher cannot know it, `changed` that a list changed
under its walk.

`Gateway` models `gateway.py`, `SignalChannel.run` and the receive loop of
`signal/client.py`: the phases of the start, the three tasks, turns that stream
their answer in parts, a dropped connection, and the stop with its grace periods
and cancellations. There is no clock: a grace is over when its timer expires, and
what goes on after that without one is seen as such. A tick and a check are one
busy state here.

`Mail` models `mail/`: the token row that two tasks refresh and another process
replaces, and each call as a sequence of requests whose answers may be refused,
lost or late; a batch is checked message by message and then filed. `Calendar`
models `calendar/client.py`: the cached address, its discovery, the agenda, and
the PUT with its second attempt, after a conflict or after a status below 400 that
is no success to the client, behind which the server may have stored the event
(`odd`). Addresses may be refused by `guard_url` (`Foreign`), or answer nothing at all
once the calendar has left them (`Mute`). `Completion` models `inference/client.py` and
`inference/sse.py`: frames cut anywhere, deltas of calls interleaved by index, and
a response that ends early. `Services` joins the three: they share no state, so
a behaviour is about one of them.

`TurnProofs`, `ConversationProofs`, `AccessPolicyProofs`, `SharedListsProofs`,
`UpdateWatcherProofs`, `GatewayProofs` and `ServicesProofs` hold the proofs about
the modules they are named for.

The `MC...` modules hold the small instances. Operators marked (Bug) are wrong
versions of the definition that follows them. They are used by nothing here: each
shows, when put in its place, that a property notices.

## Runs

| Run | Instance | Shows |
| --- | --- | --- |
| `One` | 1 job of each of the 14 kinds, 3 faults | every safety property of the runner, the contract |
| `Two` | a relay and a tainted reminder, 1 fault, fairness | the two properties of several jobs in a tick, liveness |
| `StaleCancel` | two relays | a relay that was cancelled during the tick is sent |
| `Turns` | 3 messages, 2 people, 2 slots, proposals of two calls, 1 fault | life of a proposal, labels, half turns, the contract |
| `Locks` | 2 messages, 2 people, 1 slot, 1 report, a UUID sender, fairness | no deadlock, no overwritten exchange |
| `Labels` | 2 tools that read, 2 calls in a completion, 2 rounds, a window of 3 | exchanges and labels in turns, reports and windows |
| `Calls` | 8 calls, of every kind of tool, 1 name, 1 round of 2 | what waits for a yes, and what is turned down after it |
| `Access` | 2 strangers, an operator, an agent, 2 codes, tables of 2, limits of 1 in 2 ticks, an old file of 2 numbers or none | codes, approval, the import, the meters, over restarts |
| `Lists` | 2 people, one without the right to write her own lists, 2 names, 3 texts, limits 1 and 2 | limits, scopes, changes made whole |
| `Updates` | a pin of high priority and another, lists of 1 to 3 pages of which 2 are read, 1 stop, fairness | what is texted again, what is called gone, what is told |
| `Gateway` | 2 turns of 2 parts, fairness | the order of a stop, what it waits for, that it ends, that the channel listens again |
| `Services` | a turn and a job; 2 messages, 2 batches, 2 grants; 3 addresses, one foreign, one mute; 2 calls in a stream; fairness | changes made once and as shown, logins, ends of calls, answers |

The bounds. `MaxFaults` counts failed reads, writes and sends and restarts: three
let a mark fail, its retry fail and the process restart within one run of a
job. Counts reset at the end of a run, so any number of runs is covered. Two
jobs suffice for what one row may do to another, as a tick handles one at a
time. `MaxMessages = 3` is what a proposal needs to be staged, replaced or
confirmed, and confirmed again; `MaxAged` lets one exchange leave a window at
each save; one slot is the hardest case for the lock order, and 4, the
default, is more than two people and a runner can use. In `Labels` a window of
three cuts between and inside exchanges of two calls, and histories grow for
ever, cut at each save. In `Calls` one name suffices for every conflict of two
calls of a proposal, with any table the earlier proposals left.

In `Access` three keys compete for tables of two, so that every way to forget a
key happens, and the clock (`Horizon`) covers one window and its end; `MaxSpent`
lets a key through, two others that push it out, and the key again. In `Lists` a limit of one list makes both creating and sharing
hit it, three texts exceed what a list may have open, and `MaxDone` bounds the rows
that are checked off. In `Updates` one list is longer than the two pages that are read of
it, another hides its tag if it takes the first one's place between two pages, and
the name of one release begins that of the other; a repository may change between any
two pages. (That a tag is really gone, or gone without a newer release, does not
occur there; the theorem covers it.) Grants, moves of the
calendar and its faults are bounded by what a race needs: a login during a
refresh, a move away and back, one answer that is lost. No bound is on what a mute
or a foreign address does: it fails each time.

Fairness. The poll loop never stops and the model call and every send have
timeouts, hence `WF_vars(Runner)`; a task that is ready whenever the loop yields
is run, and a back-off runs out, hence `SF` for the end of a turn and of a
back-off. asyncio wakes those who wait for a lock or a semaphore in order,
hence `SF` for each task of `Conversation`. Nothing obliges a person to write,
a job to fall due, or a fault to happen. `FairRunning` is fairness within one
life of the process: the counterexample to `SentIsRecorded` is not a stop.
In `UpdateWatcher` the loop goes on, and each repository and the phone answer
again and again (`SF`), as `HighIsTold` speaks of a watcher that can reach them.
In `Gateway` every await of the main task, of a turn, a tick and a check has a
timeout or is cancelled (`WF`), and signal-cli accepts a connection again some
time (`SF` of `Connect`). In `Services` every request has a timeout, hence `WF` for
each step of a call; no person or job has to begin one.

Statements without a run. A module may state more than its runs check, where a
statement is what a finding denies, or was not worth a run of its own; each can
be checked by naming it in a cfg. False, as "Findings" says: `FailedTurnStaysSilent`
and `SentIsRecorded` in `JobRunner`, `OnlySeenIsConfirmed`, `AbandonedIsDead`,
`DiscardedIsDead` and `InArrivalOrder` in `Conversation`, `ExecutableAsIs` in `Turn`,
`LiveCodeAdmits` in `AccessPolicy`, `HighIsNamed` in `UpdateWatcher`, `OneGrace` in
`Gateway`, `SingleNewEvent` and `AgendaFollows` in `Services`; TLC finds the last three violated
in the instances of `Updates` and `Services`. True, and proved: `IInv` in `JobRunner`, `OwnYes`, `OneAtATime` and `NoCircle` in `Conversation`,
`RoundsCapped`, `ReportsOnly` and `PreviewInv` in `Turn`, `TablesBounded` in
`AccessPolicy`, `OneOpenRow` in `SharedLists`, `NoticeKnows` and `NoticeKept` in
`UpdateWatcher`, and the type invariants of `JobRunner`, `Turn`, `UpdateWatcher` and `Gateway`. The
other type invariants are only true in the instances.

## Proofs

`JobRunnerProofs` proves for any set of jobs, kinds of job and number of faults
that `TypeOK /\ IInv` is an invariant (`Invariance`), and from it the invariants
of run `One`, `CancelledIsSilent`, `DeliveredIsKept` and that the runner
implements `JobContract`. The assumptions are those of `JobRunner`: `NoJob` is no
job, a watch is never one-time (`parse_create`), `MaxFaults` is a number.

Why `IInv`: "no effect twice" is not inductive by itself. A send is safe only if
every earlier one is known to the row, to the snapshot the tick holds, or to
the runner's memory (`RelayKnown`, `ReportKnown`); this needs that the runner is
alone in writing the marks and the outbox, so the snapshot still agrees with
the row when a job is fired (`Fresh`), what each point of `_fire` may rely on
(`StageInv`), that a job whose turn is open has not been touched
(`NotBeforeTurn`), and that labels survive the outbox (`Labelled`). Each action
has a lemma; steps that leave a job alone are handled once by frame lemmas.

`TurnProofs` proves for any names, tools, grants, calls and bounds that without a
yes the jobs are only reminders saved while no outside text was read (`Waits`),
that no change to jobs which a preview shows is turned down after the yes by the
broker or for want of its job or of a free name (`Previews`, `PreviewsRun`), and
that a report changes nothing (`ReportsReport`); that every call has its result
(`Exchanges`), that the three labels agree (`LabelsOfTurns`) and answers carry them
(`AnswersCarryLabels`); and that no turn asks the model more often than its cap
(`RoundsAreCapped`). The assumptions are those of `Turn`: bounds are numbers,
`Spares` names jobs, calls are calls.

Why `PreviewInv`: what runs after a yes was judged at staging, one call at a time,
on another table. `Runnable` says of a list of calls that each finds its job, or
its name free, once those before it ran, on a table and beside names that may still
be taken because a cancel failed (`StillTaken`). What no check at staging sees is
left to fail: a time the clock cannot show, the store, and a create behind a
cancel that failed. The staging check keeps it when a call is
appended (`StagedRunnable`), a stored call keeps it for the rest
(`TailRunnable`), and `drift` names the steps that move the table under a list: a
job that ends, a reminder saved at once. A turn that fails takes its reminders
back, so the rest of `PreviewInv` is about who has saved what in which mode.

Why `MessagesInv`: a window may be cut anywhere, so what is kept of every list,
stored or held, is that each exchange is whole (`Whole`) except the last one's
calls that are still queued. Each way to make a list from another is shown to keep
it: appending what the loop appends, `apply_window`, which starts after an
exchange, and `trusted_context`, which takes whole exchanges away. That one folds
over the list; it is written as the ordered selection of the positions to keep
(`InOrder`), for which the proof counts positions instead of unfolding a fold. The
labels then follow, as the loop's label is that of the list at every step.
`RoundsInv` counts the completions that asked since the message of the turn.

`ConversationProofs` proves for any people, messages, offers, slots, reports and
faults that the calls of a proposal run at most once (`RunsOnce`), that what outside
text shaped is labelled where it is saved (`LabelsFollow`), that no half turn is
stored (`HalvesStayOut`), and that `Conversation` implements `ConfirmContract`
(`Implements`). Its assumptions are those of `Conversation`. Two invariants carry
it. `ProposalInv` says for each task how far it can have come where it is
(`Placed`), that what it has taken is what it offered and is stored nowhere else
(`Taken`), how many calls have run (`Counted`), and for each person that the
stored proposal is the offer of one task whose calls have not begun (`Pending`):
a proposal is in one place, so it is run from one place. The actions do one of
seven things to a proposal (`Moves`, `Drops`, `Ages`, `Stages`, `Takes`, `Calling`,
`Injects`); each action is shown to be one of them, and each of them to keep
the invariant and to be a step of the contract or none. `HistoryInv` says that
a message without an answer is the last of the memory of its person, while its
task holds that history's lock.

That no save overwrites what another task appended (`StaysInOrder`) needs a third,
`OrderInv`: no exchange is twice in a history, memory begins with what is stored,
a task that waits for the model has its message last in memory, and every exchange
is behind the task it is of (`Said`), so that what is appended next is new. The
second part is why it is true although a turn saves the whole of its memory:
everybody who appends reads the stored history, writes both, and holds the lock
or awaits nothing in between. From it, each save is a suffix of what continues
the stored history, and something new (`MadeFrom`). The attempt to prove this
showed that two relays of one yes were one and the same exchange in the model,
which is why an exchange has its `call`.

`LockInv` is about the locks alone: a line holds exactly those who are inside,
each once, and only its head works; who holds a slot works; who holds a history
lock is at the model or answering, and so waits for nothing. Hence one message of
a person at a time (`OneByOne`), and nobody waits in a circle (`NeverStuck`): the
safety half of `Answered`, for any number of people, messages and slots. With
`ProposalInv` it gives `YesIsOwn`: a yes runs only what was previewed to the one who
says it, and the turn of the preview is over by then. That the preview had been
read when the yes was written is more, and false (`OnlySeenIsConfirmed`).

`AccessPolicyProofs` proves for any senders, codes, limits and clock that a code
that was texted lives (`CodesLive`), that a number is admitted only when an operator
types the live code texted to it, or at a start from the file of an earlier release
(`AdmitsByCode`), and that no meter's table outgrows its bound (`TablesStaySmall`). `CodesInv` relates
the pending codes to those that were texted, the memory to the table, and counts
the codes that run out later than one that was evicted: that count never
falls, as a code is only replaced by one that runs out later.

It also proves that a meter lets no more through in a window than its limit, as
long as its table remembers the key (`MetersHold`). `MetersInv` (`MetersAccount`)
says of each key that the hits its table holds are the last times it was let
through, and of each time they lack that it no longer counts, or that the table
was full of active keys then or since (`Accounts`). It speaks of every time the key
was ever let through, since a key may be forgotten and learned again within one
window. A report that is on its way still has room in its meter.

`SharedListsProofs` proves for any household, grants, texts and limits that limits
hold (`StaysLimited`), that a change is made whole and in its scope
(`ChangesWhole`), and that no text is open twice (`OpenOnce`), which the second
needs: else removing or checking off one row would leave another. Each step is
one of `Shares`, `Creates` and `Edits`. The limits follow because a writer who may
read sees all of the scope that is counted (`SightedSees`). `NobodyCanTell` proves that
what an agent reads, and what becomes of a change, is the same on the tables with
and without the private lists of others: each question that `read` and `apply` ask
of the table is about the shared lists and the agent's own.

`UpdateWatcherProofs` proves `TextsNews` and `KeepsNotice` for any pins and page
cap: while a text is on its way it is new against the notice (`SendsNews`), and the
notice is what the phone was told, unless there is an excuse (`NoticeKnows`).
`TypeCorrect` needs that the newest of some tags is one of them (`Newest`, by
induction over the pages). `GoneIsSo` needs that a walk holds the first pages of a
list that did not change since (`WalkInv`, `PageReads`): then the walk that ends with
the last page has read all of it.

`GatewayProofs` proves `ClosesLast` for any turns: the invariant says which tasks
are over in each phase of the stop, and that an ended channel leaves no turn.
`TypeCorrect` says with `GracesCounted` that at most two timers expire in a stop, as
the check of the watcher ends with the stop event. That bounds no time: a channel
that is cancelled while it receives gathers its turns without a limit. `OnlyTurns`
says that these are all that a stop waits for after a timer has expired.

`ServicesProofs` proves for any callers, batches and addresses that a confirmed
change is made at most once (`WritesOnce`), that messages are filed as shown
(`FilesWhatWasShown`), and what may cost a login (`KeepsLogin`). A new event may be
stored a second time only behind a status that the client takes for neither
success nor error. The invariant says that a call under way has written nothing,
except behind such an answer to its first PUT, which of its messages were checked, and
that a refresh under way holds the grant of the last login or was overtaken by it.
Of a completion it says that what was collected is all that was said, except what
the line brings that is still pending (`Lacks`), and so an answer is what was said
(`AnswersAsSaid`).

Where a proof needs an induction over numbers, the module proves the principle for
a set of numbers (`Induction`), as the library's takes an operator; the set is then
given by what is to be shown.

Only model-checked: liveness (`DueIsServed`, `DeliveredIsFinished`, `Answered`,
`HighIsTold`, `StopEnds`, `ListensAgain`, `CallsEnd`, `AgendaComesBack`), which this
prover does not reach. Every invariant and every action property of a passing
run is proved.

## Findings

`PROJECT.json` quotes both sides of each disagreement between the code and its
documents or comments. `StaleCancel` shows one by a run: a relay that is cancelled
while the tick that fires it waits for an earlier job is sent. The others, each
with the statement that says so:

* a reminder whose cancelling failed outlives its failed turn
  (`FailedTurnStaysSilent`), and a cancelled relay is never recorded
  (`SentIsRecorded`);
* a yes confirms a preview that was never seen (`OnlySeenIsConfirmed`), an older
  proposal outlives a staging save that failed (`AbandonedIsDead`), a refusal that
  failed is stored by a later turn (`DiscardedIsDead`), and messages of a hidden
  number overtake each other (`InArrivalOrder`);
* a previewed call fails after the yes: a name taken by a relay for later, a start
  that has passed, a delay the clock cannot show (`ExecutableAsIs`);
* a notice that was extended after a failed lookup makes the next complete check
  repeat it (`NotRepeated` exempts this), and a release whose name begins that of
  another one that was told is not sent while a lookup keeps failing (`HighIsNamed`;
  `HighIsTold` asks for its text in any line);
* the address of a calendar that was refused once stays in the cache
  (`AgendaComesBack` exempts this), and so does one that the calendar has left and
  that answers nothing (`AgendaFollows`; exempted likewise);
* a server that stores a new event and answers 202 gets it a second time
  (`SingleNewEvent`; `WrittenOnce` allows this);
* a refresh overwrites a login that was saved while it waited (`LoginStands`
  exempts this);
* a stop may wait two grace periods (`OneGrace`), and beyond them as long as the turns
  of a cancelled channel take (`OnlyTurnsOverrun`: for nothing else);
* an approval may evict the code it is about (`LiveCodeAdmits`);
* an answer that was cut short counts as whole (`AnswerAsSaid` speaks of the text
  only up to `[DONE]`).

## Plan

Every module of the first plan is written. What is left, in order of importance:

1. A composition of `JobRunner` and `Conversation`, which now meet by what each
   may assume of the other: a job's turn and its report are there one step each.
2. Proofs about several jobs in one tick, and that each state of the stop, of a
   call and of a check has a step that fairness is about, as `NeverStuck` has for
   the channel.
3. The parts of a text in `Conversation`: a failed part after one that arrived
   counts as a failed send today.

## Not modelled

Research keeps no state and changes nothing: each request stands alone, and that
its text is outside text is in `Turn`. Parsing and formatting (messages,
previews, ICS, HTML), the schema and its migrations (they run once, before
anything else), the rollback of a transaction that fails half way (a change of
`store.py` is made whole or not at all, which is what `sqlite3` promises its `with`),
the keychain, settings, the audit log, typing marks and
attachments, the terminal chat and the model comparison (developer tools without
state), and the wire formats of Signal, Fireworks, CalDAV and Gmail.
