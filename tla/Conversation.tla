---------------------------- MODULE Conversation ----------------------------
(***************************************************************************)
(* The turns of the household on the Signal channel (signal/channel.py):   *)
(* each inbound message is a task that takes its sender's lock, then one   *)
(* of the turn slots, then the agent's history lock; a turn may stage a    *)
(* proposal, a later yes runs exactly the staged calls, a relay among them *)
(* writes into the other person's history, and the job runner runs its     *)
(* model turns and appends its reports under the same locks.               *)
(*                                                                         *)
(* An exchange is what one task adds to a history: the message and what    *)
(* the assistant answered, with every tool call in between.                *)
(***************************************************************************)
EXTENDS Naturals, Sequences, FiniteSets

CONSTANTS
    Agents,       \* one per person of the household
    MaxMessages,  \* bound: inbound messages; Tasks are numbered as they arrive
    Reports,      \* job reports and relay records the runner has to append
    Hidden,       \* senders Signal names by a UUID instead of their number
    Runner,       \* the job runner
    Nobody,       \* a free lock, a proposal of no task
    Offers,       \* what a turn may stage: a sequence of calls
    Slots,        \* max_concurrent_turns
    MaxAged,      \* bound: exchanges that leave the window at once
    MaxFaults     \* bound: failed reads, writes and sends, and restarts

Tasks == 1..MaxMessages
Procs == Tasks \cup {Runner}
Calls == {"relay", "store"}

ASSUME AgentsAssumption == \A a \in Agents : \E b \in Agents : b # a
ASSUME BoundsAssumption ==
    MaxMessages \in Nat /\ MaxFaults \in Nat /\ MaxAged \in Nat /\ Slots \in Nat \ {0}
ASSUME NamesAssumption ==
    /\ Runner \notin Tasks /\ Nobody \notin Procs
    /\ Reports \cap Tasks = {}
\* take_staged: a turn that recorded no call offers nothing.
ASSUME OffersAssumption == Offers \subseteq Seq(Calls) \ {<<>>}
ASSUME HiddenAssumption == Hidden \subseteq Agents

VARIABLES
    (***********************************************************************)
    (* What survives a restart                                             *)
    (***********************************************************************)
    history,   \* the stored exchanges of each agent
    prop,      \* the stored proposal of each agent
    (***********************************************************************)
    (* What a restart loses                                                *)
    (***********************************************************************)
    cache,     \* _histories: the exchanges held in memory
    cached,    \* the agents that have an entry there
    known,     \* _uuid_numbers: the senders whose UUID is resolved
    line,      \* each sender's lock: its holder, then those who wait
    slots,     \* who holds a turn slot
    hist,      \* who holds each history lock
    pc, msg, reply,  \* each task: where it is, its message, what it answers
    held, at,  \* the proposal a yes took, and the call it is at
    (***********************************************************************)
    (* Observation only                                                    *)
    (***********************************************************************)
    offer,     \* the calls each previewing turn showed
    runs,      \* how many of them ran
    saved,     \* the label of the row that a stored call wrote
    shaped,    \* turns that staged with untrusted text in context
    seen,      \* the previews on the phone when each yes was sent
    appended,  \* reports already in a history
    faults

disk   == <<history, prop>>
memory == <<cache, cached>>
locks  == <<line, slots, hist>>
task   == <<pc, msg, reply>>
yes    == <<held, at>>
ghosts == <<offer, runs, saved, shaped>>
vars   == <<disk, memory, known, locks, task, yes, ghosts, seen, appended, faults>>

Texts   == {"chat", "yes", "no"}
Replies == {"none", "answer", "preview", "summary", "discarded", "expired",
            "unavailable", "save_failed", "stage_failed", "refused"}
Says    == {"half", "answer", "preview", "summary", "discarded", "report", "relay"}

\* `call` tells the relays of one yes apart; 0 for every other exchange.
Exchange == [by: Tasks \cup Reports, call: Nat, says: Says, untrusted: BOOLEAN]

Proposal   == [of: Tasks, calls: Offers, tainted: BOOLEAN, fresh: BOOLEAN]
NoProposal == [of |-> Nobody, calls |-> <<>>, tainted |-> FALSE, fresh |-> FALSE]

NoMessage == [to |-> Nobody, text |-> "chat"]

TypeOK ==
    /\ history \in [Agents -> Seq(Exchange)]
    /\ prop \in [Agents -> Proposal \cup {NoProposal}]
    /\ cache \in [Agents -> Seq(Exchange)]
    /\ cached \subseteq Agents /\ known \subseteq Agents
    /\ line \in [Agents -> Seq(Procs)]
    /\ slots \subseteq Procs
    /\ hist \in [Agents -> Procs \cup {Nobody}]
    /\ pc \in [Procs -> {"new", "resolving", "line", "model", "commit", "inject",
                         "summary", "reply", "done", "lost"}]
    /\ msg \in [Procs -> [to: Agents, text: Texts] \cup {NoMessage}]
    /\ reply \in [Tasks -> Replies]
    /\ held \in [Tasks -> Proposal \cup {NoProposal}]
    /\ at \in [Tasks -> Nat]
    /\ offer \in [Tasks -> Offers \cup {<<>>}]
    /\ runs \in [Tasks -> Nat]
    /\ saved \in [Tasks -> {"none", "clean", "tainted"}]
    /\ shaped \subseteq Tasks
    /\ seen \in [Tasks -> SUBSET Tasks]
    /\ appended \subseteq Reports
    /\ faults \in 0..MaxFaults

Init ==
    /\ history = [a \in Agents |-> <<>>]
    /\ prop = [a \in Agents |-> NoProposal]
    /\ cache = [a \in Agents |-> <<>>]
    /\ cached = {} /\ known = {}
    /\ line = [a \in Agents |-> <<>>]
    /\ slots = {}
    /\ hist = [a \in Agents |-> Nobody]
    /\ pc = [p \in Procs |-> "new"]
    /\ msg = [p \in Procs |-> NoMessage]
    /\ reply = [t \in Tasks |-> "none"]
    /\ held = [t \in Tasks |-> NoProposal]
    /\ at = [t \in Tasks |-> 0]
    /\ offer = [t \in Tasks |-> <<>>]
    /\ runs = [t \in Tasks |-> 0]
    /\ saved = [t \in Tasks |-> "none"]
    /\ shaped = {}
    /\ seen = [t \in Tasks |-> {}]
    /\ appended = {}
    /\ faults = 0

-----------------------------------------------------------------------------
(* Helpers                                                                 *)

Works == UNCHANGED faults
Fails == faults < MaxFaults /\ faults' = faults + 1
FailsTwice == faults + 1 < MaxFaults /\ faults' = faults + 2

To(p)    == msg[p].to
Other(a) == CHOOSE b \in Agents : b # a

Goto(p, label)     == pc' = [pc EXCEPT ![p] = label] /\ UNCHANGED msg
Answers(t, answer) == Goto(t, "reply") /\ reply' = [reply EXCEPT ![t] = answer]

\* Scope.from_history
Taint(m) == \E i \in 1..Len(m) : m[i].untrusted

\* apply_window: old exchanges leave from the front, by number or by age.
Windows(m) == {SubSeq(m, k + 1, Len(m)) : k \in {n \in 0..MaxAged : n <= Len(m)}}
\* The exchange just added is new, so it stays.
WindowsWith(m, e) == {Append(w, e) : w \in Windows(m)}

Front(m) == SubSeq(m, 1, Len(m) - 1)

\* _history: the cached messages, or the stored ones through the window,
\* which is saved. A save that fails leaves both as they were.
Loads(a) == IF a \in cached THEN {cache[a]} ELSE Windows(history[a])
LoadedTo(a, m) == IF a \in cached THEN history[a] ELSE m

Cache(a, m)  == cache' = [cache EXCEPT ![a] = m] /\ cached' = cached \cup {a}
Uncache(a)   == cache' = [cache EXCEPT ![a] = <<>>] /\ cached' = cached \ {a}
Store(a, m)  == history' = [history EXCEPT ![a] = m]
Free(a)      == hist[a] = Nobody
Locks(a, p)  == hist' = [hist EXCEPT ![a] = p] /\ UNCHANGED line

-----------------------------------------------------------------------------
(* From the socket to the sender's lock                                    *)

Joins(p, a) == line' = [line EXCEPT ![a] = Append(@, p)] /\ UNCHANGED <<slots, hist>>

\* The previews that reached a phone.
OnPhone(a) == {u \in Tasks : To(u) = a /\ pc[u] = "done" /\ reply[u] = "preview"}

\* A frame becomes a task. A sender known by a UUID alone is looked up first.
Arrive(t) ==
    /\ pc[t] = "new" /\ \A u \in Tasks : u < t => pc[u] # "new"
    /\ \E a \in Agents, text \in Texts :
         /\ msg' = [msg EXCEPT ![t] = [to |-> a, text |-> text]]
         /\ IF a \in Hidden \ known
            THEN pc' = [pc EXCEPT ![t] = "resolving"] /\ UNCHANGED locks
            ELSE pc' = [pc EXCEPT ![t] = "line"] /\ Joins(t, a)
         /\ seen' = IF text = "yes" THEN [seen EXCEPT ![t] = OnPhone(a)] ELSE seen
    /\ UNCHANGED <<disk, memory, known, reply, yes, ghosts, appended>>
    /\ Works

Resolve(t) ==
    /\ pc[t] = "resolving"
    /\ \/ /\ known' = known \cup {To(t)}
          /\ Goto(t, "line")
          /\ Joins(t, To(t))
          /\ Works
       \/ /\ Goto(t, "done")
          /\ UNCHANGED <<known, locks>>
          /\ Fails
    /\ UNCHANGED <<disk, memory, reply, yes, ghosts, seen, appended>>

Holds(p) == pc[p] = "line" /\ Head(line[To(p)]) = p

\* The answers that need no turn slot: /approve, no agent bound, a message too
\* long, a sender too fast.
Refuse(t) ==
    /\ Holds(t)
    /\ Answers(t, "refused")
    /\ UNCHANGED <<disk, memory, known, locks, yes, ghosts, seen, appended>>
    /\ Works

TakesSlot(p) ==
    /\ Holds(p)
    /\ Cardinality(slots) < Slots
    /\ slots' = slots \cup {p}

-----------------------------------------------------------------------------
(* _converse                                                               *)

Decides(t) == msg[t].text # "chat" /\ prop[To(t)] # NoProposal

HalfTurn(t) == [by |-> t, call |-> 0, says |-> "half", untrusted |-> FALSE]

\* take_proposal or load_history raised. The second holds the history lock
\* while it says so.
Unreadable(t) ==
    /\ TakesSlot(t)
    /\ Answers(t, "unavailable")
    /\ \/ msg[t].text # "chat" /\ UNCHANGED <<line, hist>>
       \/ To(t) \notin cached /\ Free(To(t)) /\ Locks(To(t), t)
    /\ UNCHANGED <<disk, memory, known, yes, ghosts, seen, appended>>
    /\ Fails

\* The message is appended before the model is called, under the history lock.
StartTurn(t) ==
    LET a == To(t) IN
    /\ TakesSlot(t) /\ ~Decides(t)
    /\ Free(a) /\ Locks(a, t)
    /\ \E m \in Loads(a) :
         /\ Store(a, LoadedTo(a, m))
         /\ Cache(a, Append(m, HalfTurn(t)))
    /\ Goto(t, "model")
    /\ UNCHANGED <<prop, known, reply, yes, ghosts, seen, appended>>
    /\ Works

\* (Bug) The failed turn stays in memory.
RolledBackNot(a) == cache[a]

\* del messages[baseline:]
RolledBack(a) == Front(cache[a])

ModelFails(t) ==
    /\ pc[t] = "model"
    /\ Cache(To(t), RolledBack(To(t)))
    /\ Answers(t, "unavailable")
    /\ UNCHANGED <<disk, known, locks, yes, ghosts, seen, appended>>
    /\ Works

\* The turn's exchange and the proposal it staged are one transaction.
AnswerSaved(t, fetched, calls) ==
    LET a       == To(t)
        tainted == Taint(cache[a]) \/ fetched
        preview == calls # <<>>
    IN
    /\ \E m \in WindowsWith(Front(cache[a]),
                  [by |-> t, call |-> 0, says |-> IF preview THEN "preview" ELSE "answer",
                   untrusted |-> tainted]) :
         Store(a, m) /\ Cache(a, m)
    /\ prop' = IF preview
               THEN [prop EXCEPT ![a] = [of |-> t, calls |-> calls,
                                         tainted |-> tainted, fresh |-> TRUE]]
               ELSE prop
    /\ offer' = [offer EXCEPT ![t] = calls]
    /\ shaped' = IF preview /\ tainted THEN shaped \cup {t} ELSE shaped
    /\ Locks(a, Nobody) /\ UNCHANGED slots
    /\ Answers(t, IF preview THEN "preview" ELSE "answer")
    /\ Works

\* The save failed. A turn that staged takes the older proposal along, but
\* that write may fail as well and is only logged. The person reads the same
\* sentence, that nothing was saved, in every case.
AnswerNotSaved(t, calls) ==
    LET a == To(t) IN
    /\ Cache(a, RolledBack(a))
    /\ \/ calls = <<>> /\ UNCHANGED prop /\ Fails
       \/ calls # <<>> /\ prop' = [prop EXCEPT ![a] = NoProposal] /\ Fails
       \/ calls # <<>> /\ UNCHANGED prop /\ FailsTwice
    /\ Answers(t, IF calls = <<>> THEN "save_failed" ELSE "stage_failed")
    /\ UNCHANGED <<history, locks, offer, shaped>>

ModelAnswers(t) ==
    /\ pc[t] = "model"
    /\ \E calls \in Offers \cup {<<>>} :
         \/ \E fetched \in BOOLEAN : AnswerSaved(t, fetched, calls)
         \/ AnswerNotSaved(t, calls)
    /\ UNCHANGED <<known, yes, runs, saved, seen, appended>>

-----------------------------------------------------------------------------
(* _handle_decision                                                        *)

\* take_proposal drops an expired row.
DecideExpired(t) ==
    LET a == To(t) IN
    /\ TakesSlot(t) /\ Decides(t) /\ ~prop[a].fresh
    /\ prop' = [prop EXCEPT ![a] = NoProposal]
    /\ Answers(t, IF msg[t].text = "yes" THEN "expired" ELSE "discarded")
    /\ UNCHANGED <<history, memory, known, line, hist, yes, ghosts, seen, appended>>
    /\ Works

\* (Bugs) The proposal stays in the table, or its own label is not asked when
\* its calls run.
ClaimKeeping(t, m) ==
    /\ UNCHANGED prop
    /\ held' = [held EXCEPT ![t] = [prop[To(t)] EXCEPT !.tainted = @ \/ Taint(m)]]

ClaimUnlabelled(t, m) ==
    /\ prop' = [prop EXCEPT ![To(t)] = NoProposal]
    /\ held' = [held EXCEPT ![t] = [prop[To(t)] EXCEPT !.tainted = Taint(m)]]

\* The proposal leaves the table before any of its calls runs.
Claim(t, m) ==
    /\ prop' = [prop EXCEPT ![To(t)] = NoProposal]
    /\ held' = [held EXCEPT ![t] = [prop[To(t)] EXCEPT !.tainted = @ \/ Taint(m)]]

Confirm(t) ==
    LET a == To(t) IN
    /\ TakesSlot(t) /\ Decides(t) /\ msg[t].text = "yes" /\ prop[a].fresh
    /\ Free(a)
    /\ \E m \in Loads(a) :
         /\ Store(a, LoadedTo(a, m)) /\ Cache(a, m)
         /\ \/ /\ Claim(t, m)
               /\ at' = [at EXCEPT ![t] = 1]
               /\ Goto(t, "commit")
               /\ UNCHANGED <<line, hist, reply>>
               /\ Works
            \/ /\ Locks(a, t)
               /\ Answers(t, "save_failed")
               /\ UNCHANGED <<prop, yes>>
               /\ Fails
    /\ UNCHANGED <<known, ghosts, seen, appended>>

\* A failed save leaves what was appended in memory.
Reject(t) ==
    LET a == To(t)
        e == [by |-> t, call |-> 0, says |-> "discarded", untrusted |-> FALSE]
    IN
    /\ TakesSlot(t) /\ Decides(t) /\ msg[t].text = "no" /\ prop[a].fresh
    /\ Free(a)
    /\ \E m \in Loads(a) :
         \/ /\ \E w \in WindowsWith(m, e) : Store(a, w) /\ Cache(a, w)
            /\ prop' = [prop EXCEPT ![a] = NoProposal]
            /\ Answers(t, "discarded")
            /\ UNCHANGED <<line, hist>>
            /\ Works
         \/ /\ Store(a, LoadedTo(a, m)) /\ Cache(a, Append(m, e))
            /\ Locks(a, t)
            /\ Answers(t, "save_failed")
            /\ UNCHANGED prop
            /\ Fails
    /\ UNCHANGED <<known, yes, ghosts, seen, appended>>

-----------------------------------------------------------------------------
(* _commit_proposal: the calls run one after the other with no history     *)
(* lock held; each ends in a result, never in an exception.                *)

Of(t)   == held[t].of
Call(t) == held[t].calls[at[t]]

Ran(t) == runs' = [runs EXCEPT ![Of(t)] = @ + 1]

NextCall(t) ==
    /\ at' = [at EXCEPT ![t] = @ + 1]
    /\ Goto(t, IF at[t] = Len(held[t].calls) THEN "summary" ELSE "commit")
    /\ UNCHANGED <<held, reply>>

\* A call that writes rows: a job, a future relay, a list, a draft.
StoreCall(t) ==
    /\ pc[t] = "commit" /\ Call(t) = "store"
    /\ Ran(t)
    /\ \/ saved' = [saved EXCEPT ![Of(t)] = IF held[t].tainted THEN "tainted" ELSE "clean"] /\ Works
       \/ UNCHANGED saved /\ Fails
    /\ NextCall(t)
    /\ UNCHANGED <<disk, memory, known, locks, offer, shaped, seen, appended>>

\* (Bug) A relay that could not be sent is tried again.
RelayCallRetried(t) ==
    /\ pc[t] = "commit" /\ Call(t) = "relay"
    /\ Ran(t)
    /\ \/ Goto(t, "inject") /\ UNCHANGED <<yes, reply>> /\ Works
       \/ UNCHANGED <<yes, task>> /\ Fails
    /\ UNCHANGED <<disk, memory, known, locks, offer, saved, shaped, seen, appended>>

\* A relay texts the other phone, then takes the other history lock.
RelayCall(t) ==
    /\ pc[t] = "commit" /\ Call(t) = "relay"
    /\ Ran(t)
    /\ \/ Goto(t, "inject") /\ UNCHANGED <<yes, reply>> /\ Works
       \/ NextCall(t) /\ Fails
    /\ UNCHANGED <<disk, memory, known, locks, offer, saved, shaped, seen, appended>>

\* (Bug) The messages in memory are left as they were.
UntrustedOnDisk(a, p, n) ==
    /\ \E w \in WindowsWith(history[a], [by |-> p, call |-> n, says |-> "relay", untrusted |-> TRUE]) :
         Store(a, w)
    /\ UNCHANGED memory

\* _append_untrusted: from the store, not from memory, and into both.
Untrusted(a, p, n) ==
    \E w \in WindowsWith(history[a], [by |-> p, call |-> n, says |-> "relay", untrusted |-> TRUE]) :
        Store(a, w) /\ Cache(a, w)

Inject(t) ==
    LET b == Other(To(t)) IN
    /\ pc[t] = "inject" /\ Free(b)
    /\ \/ Untrusted(b, t, at[t]) /\ Works
       \/ UNCHANGED <<history, memory>> /\ Fails
    /\ NextCall(t)
    /\ UNCHANGED <<prop, known, locks, ghosts, seen, appended>>

\* The history is read again: a relay may have come in while the calls ran.
\* The answer is the same whether or not the exchange could be saved.
Summary(t) ==
    LET a == To(t)
        e == [by |-> t, call |-> 0, says |-> "summary", untrusted |-> held[t].tainted]
    IN
    /\ pc[t] = "summary" /\ Free(a)
    /\ \/ /\ \E m \in Windows(history[a]) :
               \/ /\ \E w \in WindowsWith(m, e) : Store(a, w) /\ Cache(a, w)
                  /\ Works
               \/ Store(a, m) /\ Cache(a, Append(m, e)) /\ Fails
          /\ UNCHANGED locks
       \/ Uncache(a) /\ Locks(a, t) /\ UNCHANGED <<history, slots>> /\ Fails
    /\ Answers(t, "summary")
    /\ UNCHANGED <<prop, known, yes, ghosts, seen, appended>>

-----------------------------------------------------------------------------
(* The answer goes out and the locks are let go.                           *)

Releases(p) ==
    /\ line' = [line EXCEPT ![To(p)] = Tail(@)]
    /\ slots' = slots \ {p}
    /\ hist' = [a \in Agents |-> IF hist[a] = p THEN Nobody ELSE hist[a]]

\* _safe_send logs an answer that could not be sent.
Reply(t) ==
    /\ pc[t] = "reply"
    /\ Goto(t, "done")
    /\ Releases(t)
    /\ \/ UNCHANGED reply /\ Works
       \/ reply' = [reply EXCEPT ![t] = "none"] /\ Fails
    /\ UNCHANGED <<disk, memory, known, yes, ghosts, seen, appended>>

-----------------------------------------------------------------------------
(* The job runner's part: run_job, persist_job_report, record_relay        *)

RunnerIdle == pc[Runner] \in {"new", "done"}

JobDue(a) ==
    /\ RunnerIdle /\ appended # Reports
    /\ msg' = [msg EXCEPT ![Runner] = [to |-> a, text |-> "chat"]]
    /\ pc' = [pc EXCEPT ![Runner] = "line"]
    /\ Joins(Runner, a)
    /\ UNCHANGED <<disk, memory, known, reply, yes, ghosts, seen, appended>>
    /\ Works

\* (Bug) The history lock is taken before the slot.
JobTurnBackwards ==
    LET a == To(Runner) IN
    /\ Holds(Runner)
    /\ \/ Free(a) /\ Locks(a, Runner) /\ UNCHANGED <<slots, pc, msg>>
       \/ hist[a] = Runner /\ TakesSlot(Runner) /\ Goto(Runner, "model") /\ UNCHANGED <<line, hist>>
    /\ UNCHANGED <<disk, memory, known, reply, yes, ghosts, seen, appended>>
    /\ Works

\* The model answers into a scratch copy: nothing is appended here.
JobTurn ==
    LET a == To(Runner) IN
    /\ TakesSlot(Runner)
    /\ Free(a) /\ Locks(a, Runner)
    /\ Goto(Runner, "model")
    /\ \E m \in Loads(a) : Store(a, LoadedTo(a, m)) /\ Cache(a, m)
    /\ UNCHANGED <<prop, known, reply, yes, ghosts, seen, appended>>
    /\ Works

JobTurnEnds ==
    /\ pc[Runner] = "model"
    /\ Goto(Runner, "done")
    /\ Releases(Runner)
    /\ UNCHANGED <<disk, memory, known, reply, yes, ghosts, seen, appended>>
    /\ Works

\* persist_job_report. A report that was not saved is retried later.
AppendReport(a, r) ==
    /\ RunnerIdle /\ r \in Reports \ appended /\ Free(a)
    /\ \/ /\ \E u \in BOOLEAN :
               \E w \in WindowsWith(history[a],
                              [by |-> r, call |-> 0, says |-> "report", untrusted |-> u]) :
                 Store(a, w) /\ Cache(a, w)
          /\ appended' = appended \cup {r}
          /\ Works
       \/ /\ \E m \in Windows(history[a]) : Store(a, m) /\ Uncache(a)
          /\ UNCHANGED appended
          /\ Fails
    /\ UNCHANGED <<prop, known, locks, task, yes, ghosts, seen>>

\* record_relay
AppendRelay(a, r) ==
    /\ RunnerIdle /\ r \in Reports \ appended /\ Free(a)
    /\ Untrusted(a, r, 0)
    /\ appended' = appended \cup {r}
    /\ UNCHANGED <<prop, known, locks, task, yes, ghosts, seen>>
    /\ Works

-----------------------------------------------------------------------------

\* staging_ttl_seconds after the preview was stored.
Expire(a) ==
    /\ prop[a].fresh
    /\ prop' = [prop EXCEPT ![a].fresh = FALSE]
    /\ UNCHANGED <<history, memory, known, locks, task, yes, ghosts, seen, appended>>
    /\ Works

Restart ==
    /\ cache' = [a \in Agents |-> <<>>] /\ cached' = {} /\ known' = {}
    /\ line' = [a \in Agents |-> <<>>] /\ slots' = {}
    /\ hist' = [a \in Agents |-> Nobody]
    /\ pc' = [p \in Procs |-> IF p = Runner THEN "new"
                              ELSE IF pc[p] \in {"new", "done"} THEN pc[p] ELSE "lost"]
    /\ UNCHANGED <<disk, msg, reply, yes, ghosts, seen, appended>>
    /\ Fails

Deciding(t)   == DecideExpired(t) \/ Confirm(t) \/ Reject(t)
Committing(t) == StoreCall(t) \/ RelayCall(t) \/ Inject(t) \/ Summary(t)

Task(t) ==
    \/ Resolve(t) \/ Refuse(t) \/ Unreadable(t) \/ StartTurn(t) \/ ModelFails(t)
    \/ ModelAnswers(t) \/ Deciding(t) \/ Committing(t) \/ Reply(t)

RunnerTask ==
    \/ JobTurn \/ JobTurnEnds
    \/ \E a \in Agents, r \in Reports : AppendReport(a, r) \/ AppendRelay(a, r)

Next ==
    \/ \E t \in Tasks : Arrive(t) \/ Task(t)
    \/ \E a \in Agents : JobDue(a) \/ Expire(a)
    \/ RunnerTask
    \/ Restart

Spec == Init /\ [][Next]_vars

\* asyncio wakes those who wait for a lock or a slot in their order, and every
\* model call and every send ends, if only by its timeout.
Fairness ==
    /\ \A t \in Tasks : SF_vars(Task(t))
    /\ SF_vars(JobTurn \/ JobTurnEnds)

FairSpec == Spec /\ Fairness

-----------------------------------------------------------------------------
(* Safety                                                                  *)

\* However many yeses, faults, restarts and newer previews there are, the
\* calls that a preview showed run at most once each, in their order: the
\* proposal leaves the table before its handlers run.
AtMostOnce ==
    /\ \A p \in Tasks : runs[p] <= Len(offer[p])
    /\ \A t \in Tasks : pc[t] = "commit" =>
         held[t].calls = offer[Of(t)] /\ at[t] = runs[Of(t)] + 1

\* A job stored by a yes, and the summary the yes leaves behind, keep the label
\* of the page that shaped the proposal, even when the window has dropped it.
TaintFollows ==
    /\ \A p \in shaped : saved[p] # "clean"
    /\ \A a \in Agents : \A i \in 1..Len(history[a]) :
         LET e == history[a][i] IN
         /\ e.says = "preview" /\ e.by \in shaped => e.untrusted
         /\ e.says = "summary" /\ Of(e.by) \in shaped => e.untrusted

\* A turn that failed leaves no half exchange behind for a later turn, a job
\* report or a relay to save.
HalfTurnsStayOut ==
    \A a \in Agents : \A i \in 1..Len(history[a]) : history[a][i].says # "half"

\* No save overwrites what another task appended: an exchange leaves a stored
\* history only by the window, after every older one.
KeptInOrder ==
    [][\A a \in Agents :
         LET there == {history'[a][k] : k \in 1..Len(history'[a])} IN
         \A i, j \in 1..Len(history[a]) :
            i < j /\ history[a][i] \in there => history[a][j] \in there]_vars

\* Seen from the person, a proposal is offered, replaced, dropped or confirmed
\* once, and never comes back.
Live(p) == \E a \in Agents : prop[a].of = p
Claimed(p) == \E t \in Tasks : held[t].of = p

OfferPhase ==
    [p \in Tasks |->
        IF Claimed(p) THEN "claimed"
        ELSE IF Live(p) THEN "live"
        ELSE IF offer[p] = <<>> THEN "unborn"
        ELSE "dead"]

Contract == INSTANCE ConfirmContract WITH
    Tasks <- Tasks, Offers <- Offers, phase <- OfferPhase, offer <- offer, runs <- runs
ImplementsContract == Contract!Spec

\* A yes runs only what was previewed to the one who says it, and only when the
\* turn that previewed it is over: the preview went out, or could not.
OwnYes ==
    \A t \in Tasks : held[t] # NoProposal =>
        msg[t].text = "yes" /\ To(Of(t)) = To(t) /\ pc[Of(t)] \in {"done", "lost"}

\* Those who have asked for a sender's lock, and those who have gone past it.
Work   == {"model", "commit", "inject", "summary", "reply"}
Inside == Work \cup {"line"}

\* A person's messages and the jobs that ask the model for them are worked on
\* one at a time, from the first read of the history to the answer's way out.
OneAtATime ==
    \A p, q \in Procs : pc[p] \in Work /\ pc[q] \in Work /\ To(p) = To(q) => p = q

Waiting(p) ==
    \/ pc[p] = "line" /\ (~Holds(p) \/ Cardinality(slots) >= Slots \/ ~Free(To(p)))
    \/ pc[p] = "inject" /\ ~Free(Other(To(p)))
    \/ pc[p] = "summary" /\ ~Free(To(p))

\* Of those who wait for a lock or hold one, somebody can go on: over sender
\* locks, slots and two history locks there is no circle, and never are there
\* more turns than slots.
NoCircle ==
    /\ (\E p \in Procs : pc[p] \in Inside) => \E q \in Procs : pc[q] \in Inside /\ ~Waiting(q)
    /\ Cardinality(slots) <= Slots

-----------------------------------------------------------------------------
(* Liveness                                                                *)

\* Two people who confirm relays to each other, and a job in between, never
\* wait for each other: every message is answered, lost in a restart or dropped.
Answered ==
    \A t \in Tasks : (pc[t] # "new") ~> (pc[t] \in {"done", "lost"})

-----------------------------------------------------------------------------
(* What the code's comments say and the code does not do                   *)

\* The preview the person sees is what the yes confirms.
OnlySeenIsConfirmed ==
    \A t \in Tasks : held[t] # NoProposal => Of(t) \in seen[t]

\* A failed staging save must not leave an older proposal confirmable.
AbandonedIsDead ==
    \A t \in Tasks : pc[t] = "commit" =>
        \A u \in Tasks : To(u) = To(t) /\ Of(t) < u /\ u < t => reply[u] # "stage_failed"

\* A conversation does not say Discarded of a proposal a yes would still run.
DiscardedIsDead ==
    \A a \in Agents : \A i, j \in 1..Len(history[a]) :
        i < j /\ history[a][j].says = "discarded" /\ history[a][i].says = "preview"
            => history[a][i].by # prop[a].of

\* A single conversation is strictly ordered.
InArrivalOrder ==
    \A t, u \in Tasks :
        u < t /\ To(u) = To(t) /\ pc[u] = "resolving"
            => pc[t] \in {"new", "resolving", "done", "lost"}

=============================================================================
