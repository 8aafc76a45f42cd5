------------------------------- MODULE Turn --------------------------------
(***************************************************************************)
(* What happens inside the turns of one agent: the model's loop            *)
(* (inference/loop.py), the surface that stands between the model and the  *)
(* tools (broker.py), the job and relay tools (jobs.py, relay.py), and the *)
(* window over the messages they leave (conversation.py). A turn answers a *)
(* message, reports for a job, or carries out a proposal after a yes.      *)
(*                                                                         *)
(* Locks, failed reads and restarts are in Conversation; here one turn of  *)
(* the agent runs at a time.                                               *)
(***************************************************************************)
EXTENDS Naturals, Sequences, FiniteSets

CONSTANTS
    Names,      \* names of jobs, up to case
    Spares,     \* the default name of a relay and its numbered successors
    Granted,    \* agent.tools
    WebAccess,  \* agent.web_access
    Denied,     \* tainted_sinks_denied
    Asked,      \* the calls the model makes
    Keep,       \* history_keep
    MaxRounds,  \* max_tool_rounds
    Breadth     \* bound: calls in one completion

ASSUME BoundsAssumption ==
    Keep \in Nat \ {0} /\ MaxRounds \in Nat /\ Breadth \in Nat /\ WebAccess \in BOOLEAN
ASSUME SparesAssumption == Spares \in Seq(Names)

-----------------------------------------------------------------------------
(* The catalog (builtin_catalog)                                           *)

Web       == {"web_search", "web_fetch"}
Untrusted == Web \cup {"calendar_today", "mail_inbox", "mail_read", "shared_lists"}
Sink      == [relay |-> "message:other_peer", calendar_add |-> "calendar:write",
              mail_file |-> "gmail:file", mail_draft |-> "gmail:draft",
              shared_change |-> "shared:write"]
JobTools  == {"job_create", "job_reschedule", "job_list", "job_cancel"}
Staging   == DOMAIN Sink \cup (JobTools \ {"job_list"})
Catalog   == Untrusted \cup Staging \cup {"get_time", "job_list"}

Kinds == {"reminder", "report", "watch"}
\* A call: its tool, and of its arguments the name and kind of a job, whether
\* it names a start time, is for later, or asks for more than a watch's end.
Call == [tool: STRING, name: Names, kind: Kinds, timed: BOOLEAN, later: BOOLEAN,
         long: BOOLEAN]
ASSUME AskedAssumption == Asked \subseteq Call

VARIABLES
    jobs,      \* the agent's live rows, by name
    stored,    \* the stored messages
    prop,      \* the stored proposal, in a set of at most one
    mode,      \* what the open turn is for
    messages,  \* the list the loop appends to
    baseline,  \* its length before the turn
    queue,     \* the calls still to run
    rounds,    \* of the loop
    derived,   \* derived_from_untrusted
    nudged,    \* a report was sent back to look again
    surface,   \* the BoundSurface of the turn
    results,   \* of a proposal's calls so far
    drift      \* observed: the job table moved under what is staged, or stored

loop == <<messages, baseline, queue, rounds, derived, nudged>>
vars == <<jobs, stored, prop, mode, loop, surface, results, drift>>

Role    == {"user", "say", "ask", "tool"}
Message == [role: Role, calls: 0..Breadth, untrusted: BOOLEAN]
\* How a stored call ended: done, turned down by the broker or for the table of
\* jobs, or failed for another reason.
End     == {"done", "refused", "failed"}
\* asked: the row was stored by a yes (observed).
Job     == [kind: Kinds \cup {"relay"}, tainted: BOOLEAN, asked: BOOLEAN]
NoJob   == [kind |-> "none"]

Surface == [tainted: BOOLEAN, fetched: BOOLEAN, clock: BOOLEAN, staged: Seq(Asked),
            saved: SUBSET Names]
Proposal == [calls: Seq(Asked), tainted: BOOLEAN]

TypeOK ==
    /\ jobs \in [Names -> Job \cup {NoJob}]
    /\ stored \in Seq(Message)
    /\ prop \subseteq Proposal /\ \A p, q \in prop : p = q
    /\ mode \in {"idle", "turn", "report", "yes"}
    /\ messages \in Seq(Message)
    /\ baseline \in 0..Len(messages)
    /\ queue \in Seq(Asked)
    /\ rounds \in 0..MaxRounds
    /\ derived \in BOOLEAN /\ nudged \in BOOLEAN
    /\ surface \in Surface
    /\ results \in Seq([call: Asked, end: End])
    /\ drift \in [staged: BOOLEAN, stored: BOOLEAN]

NewSurface(tainted) ==
    [tainted |-> tainted, fetched |-> FALSE, clock |-> FALSE, staged |-> <<>>, saved |-> {}]

NoLoop ==
    /\ messages = <<>> /\ baseline = 0 /\ queue = <<>> /\ rounds = 0
    /\ derived = FALSE /\ nudged = FALSE

Init ==
    /\ jobs = [n \in Names |-> NoJob]
    /\ stored = <<>> /\ prop = {} /\ mode = "idle"
    /\ NoLoop
    /\ surface = NewSurface(FALSE)
    /\ results = <<>>
    /\ drift = [staged |-> FALSE, stored |-> FALSE]

-----------------------------------------------------------------------------
(* Messages and the window over them                                       *)

User(u) == [role |-> "user", calls |-> 0, untrusted |-> u]
Say(u)  == [role |-> "say", calls |-> 0, untrusted |-> u]
Ask(n, u) == [role |-> "ask", calls |-> n, untrusted |-> u]
Tool(u) == [role |-> "tool", calls |-> 0, untrusted |-> u]

\* Scope.from_history
Taint(m) == \E i \in 1..Len(m) : m[i].untrusted

\* (Bug) The cut stays where it is.
PastOrphanToolsNot(m, cut) == cut

\* A cut that lands on a tool result moves past all of them.
PastOrphanTools(m, cut) ==
    CHOOSE end \in cut..Len(m) :
        /\ \A k \in cut+1..end : m[k].role = "tool"
        /\ end = Len(m) \/ m[end + 1].role # "tool"

Cut(m, n) == SubSeq(m, PastOrphanTools(m, n) + 1, Len(m))

\* apply_window: the first `old` messages are too old; then at most Keep stay.
Window(m, old) ==
    LET recent == Cut(m, old) IN
    IF Len(recent) <= Keep THEN recent ELSE Cut(recent, Len(recent) - Keep)

\* trusted_context: a tool exchange is kept or dropped as a whole.
Start(m, i) ==
    CHOOSE k \in 1..i : /\ m[k].role # "tool" \/ k = 1
                        /\ \A l \in k+1..i : m[l].role = "tool"
Outside(m, i) == \E j \in 1..Len(m) : Start(m, j) = Start(m, i) /\ m[j].untrusted

\* The numbers of S, each larger than the one before.
InOrder(S) ==
    CHOOSE e \in [1..Cardinality(S) -> S] : \A a, b \in 1..Cardinality(S) : a < b => e[a] < e[b]

TrustedContext(m) ==
    LET kept == {i \in 1..Len(m) : ~Outside(m, i)} IN
    [k \in 1..Cardinality(kept) |-> m[InOrder(kept)[k]]]

-----------------------------------------------------------------------------
(* The broker                                                              *)

\* _not_report_tool, the other way round
ReportTool(tool) == tool \notin DOMAIN Sink \cup Staging \cup JobTools

\* _deny_reason: the model may also call what it was not told of.
Denies(tool) ==
    \/ tool \notin Catalog
    \/ tool \notin Granted
    \/ mode = "report" /\ ~ReportTool(tool)
    \/ tool \in Web /\ ~WebAccess
    \/ /\ surface.tainted /\ tool \in DOMAIN Sink /\ Sink[tool] \in Denied
       /\ tool \notin Staging

\* A named time has to come after get_time in this turn.
Unclocked(c) == c.tool \in {"job_create", "relay"} /\ c.timed /\ ~surface.clock

Reminder(c) == c.tool = "job_create" /\ c.kind = "reminder"

\* (Bug) What the model read since is not asked.
SavesNowAnyway(c) == Reminder(c)

\* A reminder is saved at once, unless outside text is in the conversation.
SavesNow(c) == Reminder(c) /\ ~surface.tainted

\* (Bug) The other calls of the proposal are not asked.
StagedCancelMissed(n) == FALSE

StagedCancelCovers(n) ==
    \E i \in 1..Len(surface.staged) :
        surface.staged[i].tool = "job_cancel" /\ surface.staged[i].name = n

StagedCreate(n) ==
    \E i \in 1..Len(surface.staged) :
        surface.staged[i].tool = "job_create" /\ surface.staged[i].name = n

Live(n)    == jobs[n] # NoJob
TooLong(c) == jobs[c.name].kind = "watch" /\ c.long

\* _staging_error, for arguments that are well formed and lists that may be written
StagingError(c) ==
    \/ /\ c.tool = "job_create"
       /\ (Live(c.name) /\ ~StagedCancelCovers(c.name)) \/ StagedCreate(c.name)
    \/ /\ c.tool \in {"job_reschedule", "job_cancel"}
       /\ ~Live(c.name) \/ StagedCancelCovers(c.name)
    \/ c.tool = "job_reschedule" /\ TooLong(c)

-----------------------------------------------------------------------------
(* The job and relay tools                                                 *)

Row(kind, asked) == [kind |-> kind, tainted |-> surface.tainted, asked |-> asked]

\* The default name of a relay moves to the next that is free; a name the
\* person chose does not.
JobName(c) ==
    IF c.tool = "relay" /\ c.name = Head(Spares)
    THEN LET free == {i \in 1..Len(Spares) : ~Live(Spares[i])} IN
         {Spares[i] : i \in {j \in free : \A k \in free : j <= k}}
    ELSE {c.name} \ {n \in Names : Live(n)}

\* The outcomes of a handler that stores a job. It fails, whatever the name, if
\* the start time has passed, if it is too far out for the clock, which nobody
\* looked at when the call was staged, or if the row cannot be read or written.
SavesJob(c, kind, end, asked) ==
    \/ /\ end = "done"
       /\ \E n \in JobName(c) : jobs' = [jobs EXCEPT ![n] = Row(kind, asked)]
    \/ end = "refused" /\ JobName(c) = {} /\ UNCHANGED jobs
    \/ end = "failed" /\ UNCHANGED jobs

\* cancel; a write that fails leaves the job.
CancelsJob(c, end) ==
    \/ end = "done" /\ Live(c.name) /\ jobs' = [jobs EXCEPT ![c.name] = NoJob]
    \/ end = "refused" /\ ~Live(c.name) /\ UNCHANGED jobs
    \/ end = "failed" /\ UNCHANGED jobs

\* reschedule; the interval of a row is left out.
MovesJob(c, end) ==
    /\ \/ end = "done" /\ Live(c.name) /\ ~TooLong(c)
       \/ end = "refused" /\ (~Live(c.name) \/ TooLong(c))
       \/ end = "failed"
    /\ UNCHANGED jobs

\* The outcomes of a stored call. Where the work is done elsewhere, by Signal,
\* the calendar, the mailbox or the lists, it may fail.
Commits(c, end) ==
    \/ c.tool = "job_create" /\ SavesJob(c, c.kind, end, TRUE)
    \/ c.tool = "relay" /\ c.later /\ SavesJob(c, "relay", end, TRUE)
    \/ c.tool = "job_cancel" /\ CancelsJob(c, end)
    \/ c.tool = "job_reschedule" /\ MovesJob(c, end)
    \/ /\ c.tool \in Staging \ JobTools /\ ~(c.tool = "relay" /\ c.later)
       /\ end # "refused" /\ UNCHANGED jobs

-----------------------------------------------------------------------------
(* Turns begin                                                             *)

\* _history
Loaded == {Window(stored, old) : old \in 0..Len(stored)}

Begins(what, m) ==
    /\ mode = "idle"
    /\ mode' = what
    /\ messages' = Append(m, User(FALSE)) /\ baseline' = Len(m)
    /\ derived' = Taint(m)
    /\ UNCHANGED <<jobs, prop, queue, rounds, nudged, results, drift>>

StartTurn ==
    \E m \in Loaded :
        /\ Begins("turn", m)
        /\ stored' = m
        /\ surface' = NewSurface(Taint(m))

StartReport ==
    \E m \in Loaded :
        /\ Begins("report", TrustedContext(m))
        /\ stored' = m
        /\ surface' = NewSurface(Taint(m))

\* A yes: the stored calls run on a surface that remembers the proposal's label.
Confirm ==
    \E p \in prop, m \in Loaded :
        /\ mode = "idle"
        /\ mode' = "yes"
        /\ prop' = {}
        /\ stored' = m
        /\ queue' = p.calls
        /\ surface' = NewSurface(Taint(m) \/ p.tainted)
        /\ UNCHANGED <<jobs, messages, baseline, rounds, derived, nudged, results, drift>>

Appends(list, new, old) == stored' = Window(list \o new, old)
Settled == drift' = [staged |-> FALSE, stored |-> FALSE]

\* A no
Discard ==
    /\ mode = "idle" /\ prop # {}
    /\ prop' = {}
    /\ \E old \in 0..Len(stored) : Appends(stored, <<User(FALSE), Say(FALSE)>>, old)
    /\ Settled
    /\ UNCHANGED <<jobs, mode, loop, surface, results>>

-----------------------------------------------------------------------------
(* The loop                                                                *)

Thinking == mode \in {"turn", "report"} /\ queue = <<>>
Over     == mode' = "idle" /\ messages' = <<>> /\ baseline' = 0 /\ queue' = <<>>
            /\ rounds' = 0 /\ derived' = FALSE /\ nudged' = FALSE
            /\ surface' = NewSurface(FALSE) /\ results' = <<>>

Counts == rounds' = rounds + 1

WithinCap == rounds < MaxRounds

Asks ==
    /\ Thinking /\ WithinCap
    /\ \E n \in 1..Breadth :
         /\ queue' \in [1..n -> Asked]
         /\ messages' = Append(messages, Ask(n, derived))
    /\ Counts
    /\ UNCHANGED <<jobs, stored, prop, mode, baseline, derived, nudged, surface, results, drift>>

\* (Bug) What a tool returned does not label what is said next.
DerivesNot(untrusted) == derived

Derives(untrusted) == derived \/ untrusted

Answers(untrusted) ==
    /\ queue' = Tail(queue)
    /\ messages' = Append(messages, Tool(untrusted))
    /\ derived' = Derives(untrusted)
    /\ UNCHANGED <<stored, prop, mode, baseline, rounds, nudged, results>>

Calling == mode \in {"turn", "report"} /\ queue # <<>>

\* A call that is denied, or that could not be stored as it is.
Refuse ==
    LET c == Head(queue) IN
    /\ Calling
    /\ \/ Denies(c.tool) \/ Unclocked(c)
       \/ c.tool \in Staging /\ ~SavesNow(c) /\ StagingError(c)
    /\ Answers(FALSE)
    /\ UNCHANGED <<jobs, surface, drift>>

Stage ==
    LET c == Head(queue) IN
    /\ Calling
    /\ ~Denies(c.tool) /\ ~Unclocked(c)
    /\ c.tool \in Staging /\ ~SavesNow(c) /\ ~StagingError(c)
    /\ surface' = [surface EXCEPT !.staged = Append(@, c)]
    /\ Answers(FALSE)
    /\ UNCHANGED <<jobs, drift>>

Remind ==
    LET c == Head(queue) IN
    /\ Calling
    /\ ~Denies(c.tool) /\ ~Unclocked(c) /\ SavesNow(c)
    /\ \E end \in End :
         /\ SavesJob(c, "reminder", end, FALSE)
         /\ surface' = IF end = "done" THEN [surface EXCEPT !.saved = @ \cup {c.name}] ELSE surface
         /\ drift' = IF end = "done" THEN [staged |-> surface.staged # <<>>, stored |-> prop # {}]
                     ELSE drift
    /\ Answers(FALSE)

\* (Bug) A page taints the messages but not the conversation's scope.
ReadsUntainted(s, tool) ==
    [s EXCEPT !.clock = @ \/ tool = "get_time", !.fetched = @ \/ tool \in Untrusted]

\* What a tool that only reads does to the surface. An error from an untrusted
\* tool is untrusted as well.
Reads(s, tool) ==
    [s EXCEPT !.clock = @ \/ tool = "get_time", !.fetched = @ \/ tool \in Untrusted,
              !.tainted = @ \/ tool \in Untrusted]

Read ==
    LET c == Head(queue) IN
    /\ Calling
    /\ ~Denies(c.tool) /\ c.tool \notin Staging
    /\ surface' = Reads(surface, c.tool)
    /\ Answers(c.tool \in Untrusted)
    /\ UNCHANGED <<jobs, drift>>

\* _cancel_turn_jobs
RolledBack == jobs' = [n \in Names |-> IF n \in surface.saved THEN NoJob ELSE jobs[n]]

\* The model, the loop's cap, or the save of what it said failed. When a save
\* fails after something was staged, the older proposal goes too.
TurnFails ==
    /\ Thinking
    /\ RolledBack
    /\ Over
    /\ \/ UNCHANGED prop /\ drift' = [drift EXCEPT !.staged = FALSE]
       \/ surface.staged # <<>> /\ prop' = {} /\ Settled
    /\ UNCHANGED stored

\* The turn's messages, and with something staged its preview and proposal,
\* are stored.
TurnAnswers ==
    LET said    == Append(messages, Say(derived))
        preview == <<Say(surface.tainted)>>
    IN
    /\ mode = "turn" /\ queue = <<>>
    /\ \E old \in 0..baseline :
         IF surface.staged = <<>>
         THEN Appends(said, <<>>, old) /\ UNCHANGED <<prop, drift>>
         ELSE /\ Appends(said, preview, old)
              /\ prop' = {[calls |-> surface.staged, tainted |-> surface.tainted]}
              /\ drift' = [staged |-> FALSE, stored |-> drift.staged]
    /\ Over
    /\ UNCHANGED jobs

\* A report's messages are a scratch copy; its text is appended later.
ReportAnswers ==
    /\ mode = "report" /\ queue = <<>>
    /\ Over
    /\ UNCHANGED <<jobs, stored, prop, drift>>

\* A report that found nothing is sent back once, if it looked nowhere or its
\* calls may all have failed.
LookAgain ==
    LET said == messages \o <<Say(derived), User(FALSE)>> IN
    /\ mode = "report" /\ queue = <<>> /\ ~nudged
    /\ nudged' = TRUE
    /\ rounds' = 0
    /\ messages' = said
    /\ derived' = Taint(said)
    /\ UNCHANGED <<jobs, stored, prop, mode, baseline, queue, surface, results, drift>>

-----------------------------------------------------------------------------
(* A yes                                                                   *)

CommitCall ==
    /\ mode = "yes" /\ queue # <<>>
    /\ \E end \in End :
         /\ IF Denies(Head(queue).tool)
            THEN end = "refused" /\ UNCHANGED jobs
            ELSE Commits(Head(queue), end)
         /\ results' = Append(results, [call |-> Head(queue), end |-> end])
         /\ surface' = IF end = "done" /\ Reminder(Head(queue))
                       THEN [surface EXCEPT !.saved = @ \cup {Head(queue).name}]
                       ELSE surface
    /\ queue' = Tail(queue)
    /\ UNCHANGED <<stored, prop, mode, messages, baseline, rounds, derived, nudged, drift>>

Summary ==
    /\ mode = "yes" /\ queue = <<>>
    /\ \E old \in 0..Len(stored) : Appends(stored, <<User(FALSE), Say(surface.tainted)>>, old)
    /\ Over /\ Settled
    /\ UNCHANGED <<jobs, prop>>

-----------------------------------------------------------------------------
(* Meanwhile                                                               *)

\* At these points another task may run.
Awaits == Untrusted \cup {"relay", "calendar_add", "mail_file", "mail_draft"}
Yields == \A i \in 1..Len(queue) : i = 1 => queue[i].tool \in Awaits

\* The runner ends a job. It leaves those of the open turn alone.
JobEnds(n) ==
    /\ Yields /\ Live(n) /\ n \notin surface.saved
    /\ jobs' = [jobs EXCEPT ![n] = NoJob]
    /\ drift' = [staged |-> surface.staged # <<>>, stored |-> prop # {} \/ mode = "yes"]
    /\ UNCHANGED <<stored, prop, mode, loop, surface, results>>

\* A job report, or what the other person had relayed.
Arrives ==
    /\ mode = "idle" \/ (mode = "yes" /\ Yields)
    /\ \E e \in {Say(TRUE), Say(FALSE), User(TRUE)}, old \in 0..Len(stored) :
         Appends(stored, <<e>>, old)
    /\ UNCHANGED <<jobs, prop, mode, loop, surface, results, drift>>

Expire ==
    /\ mode = "idle" /\ prop # {}
    /\ prop' = {}
    /\ Settled
    /\ UNCHANGED <<jobs, stored, mode, loop, surface, results>>

Loop == Asks \/ Refuse \/ Stage \/ Remind \/ Read \/ LookAgain
Ends == TurnFails \/ TurnAnswers \/ ReportAnswers \/ Summary

Next ==
    \/ StartTurn \/ StartReport \/ Confirm \/ Discard
    \/ Loop \/ CommitCall \/ Ends
    \/ (\E n \in Names : JobEnds(n)) \/ Arrives \/ Expire

Spec == Init /\ [][Next]_vars

-----------------------------------------------------------------------------
(* Safety                                                                  *)

\* Every tool call the provider is shown has its results, all of them, right
\* after it, and every result has its call: in the stored window however it
\* was cut, in a report's filtered copy, and in the open turn but for the
\* calls still to run.
Paired(m, pending) ==
    \A i \in 1..Len(m) :
        /\ m[i].role = "tool" =>
             LET k == Start(m, i) IN m[k].role = "ask" /\ i - k <= m[k].calls
        /\ m[i].role = "ask" =>
             LET there == {j \in i+1..Len(m) : Start(m, j) = i} IN
             m[i].calls = Cardinality(there) + (IF i + Cardinality(there) = Len(m) THEN pending ELSE 0)

ExchangesWhole == Paired(stored, 0) /\ Paired(messages, Len(queue))

\* The loop's label, the broker's and the messages' own agree at every step: a
\* turn's answer is labelled exactly when its context held outside text, and
\* the label a report is given is that of what it read.
LabelsAgree ==
    /\ mode \in {"turn", "report"} => derived = Taint(messages)
    /\ mode = "turn" => surface.tainted = derived
    /\ mode = "report" => surface.fetched = derived

\* What follows outside text in a turn carries its label, so that the label
\* outlives the text in the window.
AnswersLabelled ==
    \A i, k \in 1..Len(messages) :
        /\ i < k /\ k > baseline
        /\ messages[i].untrusted /\ messages[k].role \in {"say", "ask"}
        => messages[k].untrusted

\* Nothing a page could have written is in the table of jobs without a yes,
\* and without a yes there are only reminders.
OutsideTextWaits ==
    \A n \in Names : Live(n) => jobs[n].asked \/ (jobs[n].kind = "reminder" /\ ~jobs[n].tainted)

\* A report changes no job and stages nothing, whatever the model calls.
ReportsOnly ==
    [][mode = "report" => /\ surface'.staged = <<>> /\ surface'.saved = {}
                          /\ \A n \in Names : jobs'[n] \in {jobs[n], NoJob}]_vars

\* A completion that asks for tools is answered at most MaxRounds times, and a
\* report may be sent back to look once more.
RoundsCapped ==
    Cardinality({i \in baseline+1..Len(messages) : messages[i].role = "ask"})
        <= MaxRounds * (IF nudged THEN 2 ELSE 1)

\* Of a preview, no change to jobs is turned down when the person says yes, unless
\* a job ended or was saved in between, or a relay for later took a name, or a
\* cancel before it in the proposal failed and so left the name taken. What may
\* be staged is decided with the calls before it; whether the clock can show its
\* time and the table can be written is not.
LaterRelay(c)   == c.tool = "relay" /\ c.later
NoLaterRelay    == \A i \in 1..Len(results) : ~LaterRelay(results[i].call)
\* The names that the first n results may have left taken.
StillTaken(n) ==
    {results[i].call.name : i \in {j \in 1..n : /\ results[j].call.tool = "job_cancel"
                                               /\ results[j].end = "failed"}}

PreviewedRuns ==
    mode = "yes" /\ ~drift.stored /\ NoLaterRelay
    => \A i \in 1..Len(results) :
            results[i].call.tool \in JobTools /\ results[i].end = "refused"
            => results[i].call.name \in StillTaken(i - 1)

\* Why PreviewedRuns holds, whatever is staged: at each point the calls still to
\* run are such that each finds its job, or its name free, after those before
\* it; not so those whose name is still taken. This is the inductive invariant
\* that the proofs use; it relates what the staging check accepts to what the
\* handlers ask.
Runnable(s, taken) ==
    \A k \in 1..Len(s) :
        LET c == s[k]
            Before(tool) == \E j \in 1..k-1 : s[j].tool = tool /\ s[j].name = c.name
        IN
        /\ c.tool \in Staging \cap Granted
        /\ c.name \notin taken =>
            /\ c.tool = "job_create" =>
                 (~Live(c.name) \/ Before("job_cancel")) /\ ~Before("job_create")
            /\ c.tool \in {"job_cancel", "job_reschedule"} =>
                 Live(c.name) /\ ~Before("job_cancel")
            /\ c.tool = "job_reschedule" => ~TooLong(c)

PreviewInv ==
    /\ mode # "turn" => surface.staged = <<>>
    /\ mode \in {"idle", "report"} => surface.saved = {}
    /\ mode = "yes" => prop = {}
    /\ mode # "yes" => results = <<>>
    /\ surface.saved # {} /\ prop # {} => drift.stored
    /\ drift.staged \/ Runnable(surface.staged, {})
    /\ drift.stored \/ \A p \in prop : Runnable(p.calls, {})
    /\ mode = "yes" /\ ~drift.stored /\ NoLaterRelay => Runnable(queue, StillTaken(Len(results)))
    /\ PreviewedRuns

-----------------------------------------------------------------------------
(* What a comment says and the code does not do                            *)

\* A change to jobs that could be staged is executable as it is.
ExecutableAsIs ==
    mode = "yes" /\ ~drift.stored
    => \A i \in 1..Len(results) : results[i].call.tool \in JobTools => results[i].end = "done"

=============================================================================
