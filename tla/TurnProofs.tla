----------------------------- MODULE TurnProofs -----------------------------
(***************************************************************************)
(* What a turn may do to the agent's jobs, what becomes of its messages    *)
(* and their labels, and how often it asks the model, proved for every set *)
(* of names, calls, grants and bounds.                                     *)
(*                                                                         *)
(* Typing is what the proofs about jobs need to know of the variables.     *)
(* PreviewInv is inductive under it, OutsideTextWaits as it stands, and    *)
(* MessagesInv and RoundsInv relate the messages to the loop.              *)
(***************************************************************************)
EXTENDS Turn, FiniteSetTheorems, TLAPS

Typing ==
    /\ jobs \in [Names -> Job \cup {NoJob}]
    /\ prop \subseteq Proposal
    /\ mode \in {"idle", "turn", "report", "yes"}
    /\ queue \in Seq(Asked)
    /\ surface \in Surface
    /\ results \in Seq([call: Asked, end: End])
    /\ drift \in [staged: BOOLEAN, stored: BOOLEAN]

-----------------------------------------------------------------------------
(* Tools                                                                   *)

LEMMA StagingTools ==
    \A t \in Staging : t \in Catalog /\ t \notin Web /\ ~ReportTool(t)
BY DEF Staging, Catalog, Web, Untrusted, Sink, JobTools, ReportTool

LEMMA JobToolsStage ==
    /\ "job_create" \in Staging /\ "job_cancel" \in Staging
    /\ "job_reschedule" \in Staging /\ "relay" \in Staging
BY DEF Staging, Sink, JobTools

\* A report may call no tool that stages.
LEMMA ReportDenies ==
    ASSUME NEW t \in Staging, mode = "report" PROVE Denies(t)
BY StagingTools DEF Denies

\* A yes denies no call that could be staged.
LEMMA YesAllows ==
    ASSUME NEW t \in Staging \cap Granted, mode = "yes" PROVE ~Denies(t)
BY StagingTools DEF Denies

-----------------------------------------------------------------------------
(* Typing                                                                  *)

LEMMA TaintIsBoolean ==
    ASSUME NEW m PROVE Taint(m) \in BOOLEAN
BY DEF Taint

LEMMA EmptySeq == \A S : <<>> \in Seq(S)
OBVIOUS

LEMMA DriftTyped ==
    \A a, b \in BOOLEAN : [staged |-> a, stored |-> b] \in [staged: BOOLEAN, stored: BOOLEAN]
OBVIOUS

LEMMA NewSurfaceTyped ==
    ASSUME NEW t \in BOOLEAN
    PROVE  /\ NewSurface(t) \in Surface
           /\ NewSurface(t).staged = <<>>
           /\ NewSurface(t).saved = {}
BY DEF NewSurface, Surface

LEMMA RowTyped ==
    ASSUME surface \in Surface, NEW kind \in Kinds \cup {"relay"}, NEW asked \in BOOLEAN
    PROVE  Row(kind, asked) \in Job
BY DEF Row, Job, Surface

LEMMA SavesJobTyped ==
    ASSUME surface \in Surface, jobs \in [Names -> Job \cup {NoJob}],
           NEW c, NEW kind \in Kinds \cup {"relay"}, NEW end, NEW asked \in BOOLEAN,
           SavesJob(c, kind, end, asked)
    PROVE  jobs' \in [Names -> Job \cup {NoJob}]
BY RowTyped DEF SavesJob

LEMMA CommitsTyped ==
    ASSUME surface \in Surface, jobs \in [Names -> Job \cup {NoJob}],
           NEW c \in Call, NEW end, Commits(c, end)
    PROVE  jobs' \in [Names -> Job \cup {NoJob}]
<1>1. c.kind \in Kinds \cup {"relay"} /\ c.name \in Names
  BY DEF Call
<1> QED
  BY <1>1, SavesJobTyped DEF Commits, CancelsJob, MovesJob

LEMMA HeadOfQueue ==
    ASSUME Typing, queue # <<>>
    PROVE  /\ Head(queue) \in Asked /\ Head(queue) \in Call
           /\ Head(queue).name \in Names /\ Head(queue).kind \in Kinds
           /\ Tail(queue) \in Seq(Asked)
BY AskedAssumption DEF Typing, Call

LEMMA ReadsTyped ==
    ASSUME surface \in Surface, NEW t
    PROVE  /\ Reads(surface, t) \in Surface
           /\ Reads(surface, t).staged = surface.staged
           /\ Reads(surface, t).saved = surface.saved
BY DEF Reads, Surface

LEMMA StagedTyped ==
    ASSUME surface \in Surface, NEW c \in Asked
    PROVE  [surface EXCEPT !.staged = Append(@, c)] \in Surface
<1>1. surface.staged \in Seq(Asked)
  BY DEF Surface
<1>2. Append(surface.staged, c) \in Seq(Asked)
  BY <1>1
<1>3. \A s \in Seq(Asked) : [surface EXCEPT !.staged = s] \in Surface
  BY DEF Surface
<1> QED
  BY <1>2, <1>3

LEMMA SavedTyped ==
    ASSUME surface \in Surface, NEW n \in Names
    PROVE  [surface EXCEPT !.saved = @ \cup {n}] \in Surface
BY DEF Surface

LEMMA TypingInit == Init => Typing
<1>1. NewSurface(FALSE) \in Surface
  BY NewSurfaceTyped
<1>2. [staged |-> FALSE, stored |-> FALSE] \in [staged: BOOLEAN, stored: BOOLEAN]
  BY DriftTyped
<1>3. <<>> \in Seq(Asked) /\ <<>> \in Seq([call: Asked, end: End])
  BY EmptySeq
<1> QED
  BY <1>1, <1>2, <1>3 DEF Init, NoLoop, Typing

LEMMA TypingOver ==
    ASSUME Typing, Over, jobs' \in [Names -> Job \cup {NoJob}], prop' \subseteq Proposal,
           drift' \in [staged: BOOLEAN, stored: BOOLEAN]
    PROVE  Typing'
<1>1. NewSurface(FALSE) \in Surface
  BY NewSurfaceTyped
<1>2. <<>> \in Seq(Asked) /\ <<>> \in Seq([call: Asked, end: End])
  BY EmptySeq
<1> QED
  BY <1>1, <1>2 DEF Over, Typing

LEMMA TypingAnswers ==
    ASSUME Typing, Calling, NEW u, Answers(u),
           jobs' \in [Names -> Job \cup {NoJob}], surface' \in Surface,
           drift' \in [staged: BOOLEAN, stored: BOOLEAN]
    PROVE  Typing'
<1>1. Tail(queue) \in Seq(Asked)
  BY HeadOfQueue DEF Calling
<1> QED
  BY <1>1 DEF Answers, Typing

LEMMA TypingNext == Typing /\ [Next]_vars => Typing'
<1> SUFFICES ASSUME Typing, [Next]_vars PROVE Typing'
  OBVIOUS
<1>1. CASE StartTurn
  <2>1. PICK m \in Loaded : Begins("turn", m) /\ surface' = NewSurface(Taint(m))
    BY <1>1 DEF StartTurn
  <2>2. surface' \in Surface
    BY <2>1, TaintIsBoolean, NewSurfaceTyped
  <2> QED
    BY <2>1, <2>2 DEF Begins, Typing
<1>2. CASE StartReport
  <2>1. PICK m \in Loaded : /\ Begins("report", TrustedContext(m))
                            /\ surface' = NewSurface(Taint(m))
    BY <1>2 DEF StartReport
  <2>2. surface' \in Surface
    BY <2>1, TaintIsBoolean, NewSurfaceTyped
  <2> QED
    BY <2>1, <2>2 DEF Begins, Typing
<1>3. CASE Confirm
  <2>1. PICK p \in prop, m \in Loaded :
            /\ queue' = p.calls /\ surface' = NewSurface(Taint(m) \/ p.tainted)
            /\ mode' = "yes" /\ prop' = {}
            /\ UNCHANGED <<jobs, results, drift>>
    BY <1>3 DEF Confirm
  <2>2. p.calls \in Seq(Asked) /\ p.tainted \in BOOLEAN
    BY DEF Typing, Proposal
  <2>3. (Taint(m) \/ p.tainted) \in BOOLEAN
    OBVIOUS
  <2>4. surface' \in Surface
    BY <2>1, <2>3, NewSurfaceTyped
  <2> QED
    BY <2>1, <2>2, <2>4 DEF Typing
<1>4. CASE Discard
  BY <1>4 DEF Discard, Settled, loop, Typing
<1>5. CASE Asks
  <2>1. PICK n \in 1..Breadth : queue' \in [1..n -> Asked]
    BY <1>5 DEF Asks
  <2>2. queue' \in Seq(Asked)
    BY <2>1, BoundsAssumption
  <2> QED
    BY <1>5, <2>2 DEF Asks, Typing
<1>6. CASE Refuse
  BY <1>6, TypingAnswers DEF Refuse, Typing
<1>7. CASE Stage
  <2>1. surface' \in Surface
    BY <1>7, StagedTyped, HeadOfQueue DEF Stage, Calling, Typing
  <2> QED
    BY <1>7, <2>1, TypingAnswers DEF Stage, Typing
<1>8. CASE Remind
  <2>1. PICK end \in End :
            /\ SavesJob(Head(queue), "reminder", end, FALSE)
            /\ surface' = IF end = "done" THEN [surface EXCEPT !.saved = @ \cup {Head(queue).name}] ELSE surface
            /\ drift' = IF end = "done" THEN [staged |-> surface.staged # <<>>, stored |-> prop # {}]
                        ELSE drift
    BY <1>8 DEF Remind
  <2>2. Calling /\ Answers(FALSE)
    BY <1>8 DEF Remind
  <2>3. jobs' \in [Names -> Job \cup {NoJob}]
    <3>1. "reminder" \in Kinds \cup {"relay"} /\ FALSE \in BOOLEAN
      BY DEF Kinds
    <3>2. surface \in Surface /\ jobs \in [Names -> Job \cup {NoJob}]
      BY DEF Typing
    <3> QED
      BY ONLY <2>1, <3>1, <3>2, SavesJobTyped
  <2>4. surface' \in Surface
    BY <2>1, <2>2, SavedTyped, HeadOfQueue DEF Calling, Typing
  <2>5. drift' \in [staged: BOOLEAN, stored: BOOLEAN]
    BY <2>1 DEF Typing
  <2> QED
    BY <2>2, <2>3, <2>4, <2>5, TypingAnswers
<1>9. CASE Read
  <2>1. surface' \in Surface
    BY <1>9, ReadsTyped DEF Read, Typing
  <2>2. PICK u : Answers(u)
    BY <1>9 DEF Read
  <2> QED
    BY <1>9, <2>1, <2>2, TypingAnswers DEF Read, Typing
<1>10. CASE LookAgain
  BY <1>10 DEF LookAgain, Typing
<1>11. CASE CommitCall
  <2>1. PICK end \in End :
            /\ IF Denies(Head(queue).tool) THEN end = "refused" /\ UNCHANGED jobs
               ELSE Commits(Head(queue), end)
            /\ results' = Append(results, [call |-> Head(queue), end |-> end])
            /\ surface' = IF end = "done" /\ Reminder(Head(queue))
                          THEN [surface EXCEPT !.saved = @ \cup {Head(queue).name}]
                          ELSE surface
    BY <1>11 DEF CommitCall
  <2>2. /\ Head(queue) \in Asked /\ Head(queue) \in Call
        /\ Head(queue).name \in Names /\ Tail(queue) \in Seq(Asked)
    BY <1>11, HeadOfQueue DEF CommitCall
  <2>3. jobs' \in [Names -> Job \cup {NoJob}]
    BY <2>1, <2>2, CommitsTyped DEF Typing
  <2>4. surface' \in Surface
    BY <2>1, <2>2, SavedTyped DEF Typing
  <2>5. results' \in Seq([call: Asked, end: End])
    BY <2>1, <2>2 DEF Typing
  <2> QED
    BY <1>11, <2>2, <2>3, <2>4, <2>5 DEF CommitCall, Typing
<1>12. CASE TurnFails
  <2>1. jobs' \in [Names -> Job \cup {NoJob}]
    BY <1>12 DEF TurnFails, RolledBack, Typing
  <2>2. prop' \subseteq Proposal
    BY <1>12 DEF TurnFails, Typing
  <2>3. drift' \in [staged: BOOLEAN, stored: BOOLEAN]
    <3>1. drift' \in {[drift EXCEPT !.staged = FALSE], [staged |-> FALSE, stored |-> FALSE]}
      BY <1>12 DEF TurnFails, Settled
    <3>2. [drift EXCEPT !.staged = FALSE] \in [staged: BOOLEAN, stored: BOOLEAN]
      BY DEF Typing
    <3> QED
      BY <3>1, <3>2, DriftTyped
  <2> QED
    BY <1>12, <2>1, <2>2, <2>3, TypingOver DEF TurnFails
<1>13. CASE TurnAnswers
  <2>1. [calls |-> surface.staged, tainted |-> surface.tainted] \in Proposal
    BY DEF Typing, Surface, Proposal
  <2>2. prop' \subseteq Proposal /\ drift' \in [staged: BOOLEAN, stored: BOOLEAN]
    <3>1. CASE surface.staged = <<>>
      BY <1>13, <3>1 DEF TurnAnswers, Typing
    <3>2. CASE surface.staged # <<>>
      <4>1. drift.staged \in BOOLEAN
        BY DEF Typing
      <4>2. [staged |-> FALSE, stored |-> drift.staged] \in [staged: BOOLEAN, stored: BOOLEAN]
        BY <4>1, DriftTyped
      <4>3. /\ prop' = {[calls |-> surface.staged, tainted |-> surface.tainted]}
            /\ drift' = [staged |-> FALSE, stored |-> drift.staged]
        BY <1>13, <3>2 DEF TurnAnswers
      <4> QED
        BY ONLY <2>1, <4>2, <4>3
    <3> QED
      BY <3>1, <3>2
  <2> QED
    BY <1>13, <2>2, TypingOver DEF TurnAnswers, Typing
<1>14. CASE ReportAnswers
  BY <1>14, TypingOver DEF ReportAnswers, Typing
<1>15. CASE Summary
  BY <1>15, TypingOver DEF Summary, Settled, Typing
<1>16. CASE \E n \in Names : JobEnds(n)
  BY <1>16 DEF JobEnds, loop, Typing
<1>17. CASE Arrives
  BY <1>17 DEF Arrives, loop, Typing
<1>18. CASE Expire
  BY <1>18 DEF Expire, Settled, loop, Typing
<1>19. CASE UNCHANGED vars
  BY <1>19 DEF vars, loop, Typing
<1> QED
  BY <1>1, <1>2, <1>3, <1>4, <1>5, <1>6, <1>7, <1>8, <1>9, <1>10, <1>11, <1>12,
     <1>13, <1>14, <1>15, <1>16, <1>17, <1>18, <1>19 DEF Next, Loop, Ends

\* In every state the variables have the types that the proofs below rely on.
THEOREM Typed == Spec => []Typing
<1>1. Init => Typing
  BY TypingInit
<1>2. Typing /\ [Next]_vars => Typing'
  BY TypingNext
<1> QED
  BY <1>1, <1>2, PTL DEF Spec

-----------------------------------------------------------------------------
(* Outside text waits for a yes                                            *)

\* What a handler stores is asked for, if its row says so.
LEMMA SavesJobWaits ==
    ASSUME Typing, OutsideTextWaits,
           NEW c, NEW kind, NEW end, NEW asked \in BOOLEAN,
           SavesJob(c, kind, end, asked),
           asked \/ (kind = "reminder" /\ ~surface.tainted)
    PROVE  OutsideTextWaits'
<1> SUFFICES ASSUME NEW n \in Names, Live(n)'
             PROVE  jobs'[n].asked \/ (jobs'[n].kind = "reminder" /\ ~jobs'[n].tainted)
  BY DEF OutsideTextWaits
<1>1. CASE jobs'[n] = jobs[n]
  BY <1>1 DEF OutsideTextWaits, Live
<1>2. CASE jobs'[n] # jobs[n]
  <2>1. PICK m \in JobName(c) : jobs' = [jobs EXCEPT ![m] = Row(kind, asked)]
    BY <1>2 DEF SavesJob
  <2>2. jobs'[n] = Row(kind, asked)
    BY <1>2, <2>1 DEF Typing
  <2> QED
    BY <2>2 DEF Row
<1> QED
  BY <1>1, <1>2

\* So is one that goes, or stays as it is.
LEMMA FewerJobsWait ==
    ASSUME OutsideTextWaits, \A n \in Names : jobs'[n] \in {jobs[n], NoJob}
    PROVE  OutsideTextWaits'
BY DEF OutsideTextWaits, Live

LEMMA CommitsWait ==
    ASSUME Typing, OutsideTextWaits, NEW c, NEW end, Commits(c, end)
    PROVE  OutsideTextWaits'
<1>1. CASE \E kind : SavesJob(c, kind, end, TRUE)
  BY <1>1, SavesJobWaits
<1>2. CASE jobs' = [jobs EXCEPT ![c.name] = NoJob]
  BY <1>2, FewerJobsWait DEF Typing
<1>3. CASE UNCHANGED jobs
  BY <1>3, FewerJobsWait
<1> QED
  BY <1>1, <1>2, <1>3 DEF Commits, CancelsJob, MovesJob

LEMMA WaitsNext == Typing /\ OutsideTextWaits /\ [Next]_vars => OutsideTextWaits'
<1> SUFFICES ASSUME Typing, OutsideTextWaits, [Next]_vars PROVE OutsideTextWaits'
  OBVIOUS
<1>1. CASE Remind
  <2>1. PICK end \in End : SavesJob(Head(queue), "reminder", end, FALSE)
    BY <1>1 DEF Remind
  <2>2. ~surface.tainted
    BY <1>1 DEF Remind, SavesNow
  <2> QED
    BY <2>1, <2>2, SavesJobWaits
<1>2. CASE CommitCall
  <2>1. PICK end \in End : UNCHANGED jobs \/ Commits(Head(queue), end)
    BY <1>2 DEF CommitCall
  <2> QED
    BY <2>1, CommitsWait, FewerJobsWait
<1>3. CASE TurnFails
  BY <1>3, FewerJobsWait DEF TurnFails, RolledBack
<1>4. CASE \E n \in Names : JobEnds(n)
  BY <1>4, FewerJobsWait DEF JobEnds, Typing
<1>5. CASE UNCHANGED jobs
  BY <1>5, FewerJobsWait
<1>6. CASE StartTurn \/ StartReport \/ Confirm \/ Discard \/ Arrives \/ Expire
  BY <1>5, <1>6 DEF StartTurn, StartReport, Begins, Confirm, Discard, Arrives, Expire
<1>7. CASE Asks \/ Refuse \/ Stage \/ Read \/ LookAgain
  BY <1>5, <1>7 DEF Asks, Refuse, Stage, Read, LookAgain
<1>8. CASE TurnAnswers \/ ReportAnswers \/ Summary
  BY <1>5, <1>8 DEF TurnAnswers, ReportAnswers, Summary
<1>9. CASE UNCHANGED vars
  BY <1>5, <1>9 DEF vars
<1> QED
  BY <1>1, <1>2, <1>3, <1>4, <1>6, <1>7, <1>8, <1>9 DEF Next, Loop, Ends

\* Nothing a page could have written is in the table of jobs without a yes
\* (BoundSurface.execute, _commit_proposal).
THEOREM Waits == Spec => []OutsideTextWaits
<1>1. Init => OutsideTextWaits
  BY DEF Init, OutsideTextWaits, Live
<1>2. Typing /\ OutsideTextWaits /\ [Next]_vars => OutsideTextWaits'
  BY WaitsNext
<1> QED
  BY <1>1, <1>2, Typed, PTL DEF Spec

-----------------------------------------------------------------------------
(* What may be staged                                                      *)

LEMMA NothingRunnable == \A taken : Runnable(<<>>, taken) /\ Runnable(<<>>, taken)'
BY DEF Runnable

LEMMA NothingStaged ==
    ASSUME surface'.staged = <<>> PROVE Runnable(surface.staged, {})'
BY DEF Runnable

\* Only the jobs matter.
LEMMA SameJobs ==
    ASSUME jobs' = jobs, NEW s, NEW taken PROVE Runnable(s, taken)' <=> Runnable(s, taken)
BY DEF Runnable, Live, TooLong

LEMMA SameProposal ==
    ASSUME UNCHANGED <<jobs, prop>>
    PROVE  (\A p \in prop : Runnable(p.calls, {}))' <=> \A p \in prop : Runnable(p.calls, {})
BY DEF Runnable, Live, TooLong

\* A call that passes the staging check can run after those staged before it.
LEMMA StagedRunnable ==
    ASSUME NEW s \in Seq(Asked), NEW c \in Asked, s = surface.staged, Runnable(s, {}),
           c.tool \in Staging \cap Granted, ~StagingError(c), jobs' = jobs
    PROVE  Runnable(Append(s, c), {})'
<1> DEFINE t == Append(s, c)
           Before(k, tool) == \E j \in 1..k-1 : t[j].tool = tool /\ t[j].name = t[k].name
<1>1. /\ Len(t) = Len(s) + 1 /\ t[Len(t)] = c /\ Len(s) \in Nat
      /\ \A k \in 1..Len(s) : t[k] = s[k]
  OBVIOUS
<1> HIDE DEF t
<1>2. ASSUME NEW k \in 1..Len(t)
      PROVE  /\ t[k].tool \in Staging \cap Granted
             /\ t[k].tool = "job_create" =>
                  (~Live(t[k].name) \/ Before(k, "job_cancel")) /\ ~Before(k, "job_create")
             /\ t[k].tool \in {"job_cancel", "job_reschedule"} =>
                  Live(t[k].name) /\ ~Before(k, "job_cancel")
             /\ t[k].tool = "job_reschedule" => ~TooLong(t[k])
  <2>1. CASE k \in 1..Len(s)
    <3>1. t[k] = s[k] /\ \A j \in 1..k-1 : t[j] = s[j]
      BY <1>1, <2>1
    <3>2. \A tool : Before(k, tool) <=>
              \E j \in 1..k-1 : s[j].tool = tool /\ s[j].name = s[k].name
      BY <3>1
    <3> HIDE DEF Before
    <3> QED
      BY <2>1, <3>1, <3>2 DEF Runnable
  <2>2. CASE k = Len(t)
    <3>1. \A tool : Before(k, tool) <=>
              \E j \in 1..Len(s) : s[j].tool = tool /\ s[j].name = c.name
      BY <1>1, <2>2
    <3>2. /\ Before(k, "job_cancel") <=> StagedCancelCovers(c.name)
          /\ Before(k, "job_create") <=> StagedCreate(c.name)
      BY <3>1 DEF StagedCancelCovers, StagedCreate
    <3>3. t[k] = c
      BY <1>1, <2>2
    <3> HIDE DEF Before
    <3> QED
      BY <3>2, <3>3 DEF StagingError
  <2> QED
    BY <1>1, <2>1, <2>2
<1>3. Runnable(t, {})
  BY <1>2 DEF Runnable
<1> QED
  BY <1>3 DEF Runnable, Live, TooLong, t

\* What a stored call does to the jobs: nothing, or only to the one it names.
LEMMA CommitsTouch ==
    ASSUME Typing, NEW c \in Call, NEW end \in End, Commits(c, end), ~LaterRelay(c)
    PROVE  /\ \A n \in Names : n # c.name => jobs'[n] = jobs[n]
           /\ c.tool = "job_cancel" /\ end # "failed" => jobs'[c.name] = NoJob
           /\ c.tool \notin {"job_create", "job_cancel"} => jobs' = jobs
<1>1. c.name \in Names
  BY DEF Call
<1>2. CASE c.tool = "job_create"
  <2>1. JobName(c) \subseteq {c.name}
    BY <1>2 DEF JobName
  <2>2. SavesJob(c, c.kind, end, TRUE)
    BY <1>2 DEF Commits, JobTools
  <2> QED
    BY <1>2, <2>1, <2>2 DEF SavesJob, Typing
<1>3. CASE c.tool = "job_cancel"
  <2>1. CancelsJob(c, end)
    BY <1>3 DEF Commits, JobTools
  <2> QED
    BY <1>1, <1>3, <2>1 DEF CancelsJob, Live, Typing, End
<1>4. CASE c.tool \notin {"job_create", "job_cancel"}
  BY <1>4 DEF Commits, LaterRelay, MovesJob
<1> QED
  BY <1>2, <1>3, <1>4

\* A change to jobs whose turn it is is not turned down.
LEMMA CommitsRun ==
    ASSUME Typing, NEW c \in Call, NEW end \in End, Commits(c, end), c.tool \in JobTools,
           c.tool = "job_create" => ~Live(c.name),
           c.tool \in {"job_cancel", "job_reschedule"} => Live(c.name),
           c.tool = "job_reschedule" => ~TooLong(c),
           c.tool \in Staging
    PROVE  end # "refused"
<1>1. CASE c.tool = "job_create"
  <2>1. JobName(c) # {}
    BY <1>1 DEF JobName, Call
  <2>2. SavesJob(c, c.kind, end, TRUE)
    BY <1>1 DEF Commits, JobTools
  <2> QED
    BY <2>1, <2>2 DEF SavesJob
<1>2. CASE c.tool = "job_cancel"
  BY <1>2 DEF Commits, CancelsJob, JobTools
<1>3. CASE c.tool = "job_reschedule"
  BY <1>3 DEF Commits, MovesJob, JobTools
<1> QED
  BY <1>1, <1>2, <1>3 DEF Staging, Sink, JobTools

LEMMA HeadRunnable ==
    ASSUME Typing, queue # <<>>, NEW taken, Runnable(queue, taken), NEW c, c = Head(queue)
    PROVE  /\ c.tool \in Staging \cap Granted
           /\ c.name \notin taken =>
                /\ c.tool = "job_create" => ~Live(c.name)
                /\ c.tool \in {"job_cancel", "job_reschedule"} => Live(c.name)
                /\ c.tool = "job_reschedule" => ~TooLong(c)
<1>1. 1 \in 1..Len(queue) /\ c = queue[1] /\ 1..1-1 = {}
  BY DEF Typing
<1> QED
  BY <1>1 DEF Runnable

\* The name that a call may leave taken, though the calls after it count on it.
Leaves(c, end) == IF c.tool = "job_cancel" /\ end = "failed" THEN {c.name} ELSE {}

\* The calls after it still find their jobs.
LEMMA TailRunnable ==
    ASSUME Typing, queue # <<>>, NEW taken, Runnable(queue, taken), NEW end \in End,
           NEW c, c = Head(queue), NEW after, after = taken \cup Leaves(c, end),
           Commits(c, end), ~LaterRelay(c), queue' = Tail(queue)
    PROVE  Runnable(queue, after)'
<1> DEFINE t == Tail(queue)
           Was(k, tool)    == \E j \in 1..k-1 : queue[j].tool = tool /\ queue[j].name = queue[k].name
           Before(k, tool) == \E j \in 1..k-1 : t[j].tool = tool /\ t[j].name = t[k].name
<1>1. /\ c \in Call /\ c = queue[1] /\ Len(queue) \in Nat /\ Len(t) = Len(queue) - 1
      /\ \A k \in 1..Len(t) : t[k] = queue[k+1] /\ k+1 \in 1..Len(queue) /\ t[k] \in Call
  BY HeadOfQueue, AskedAssumption DEF Typing
<1>2. /\ \A n \in Names : n # c.name => jobs'[n] = jobs[n]
      /\ c.tool = "job_cancel" /\ end # "failed" => jobs'[c.name] = NoJob
      /\ c.tool \notin {"job_create", "job_cancel"} => jobs' = jobs
  BY <1>1, CommitsTouch
<1>3. c.name \notin taken /\ c.tool = "job_create" => ~Live(c.name)
  BY HeadRunnable
<1> HIDE DEF t
<1>4. ASSUME NEW k \in 1..Len(t)
      PROVE  /\ t[k].tool \in Staging \cap Granted
             /\ t[k].name \notin after =>
                /\ t[k].tool = "job_create" =>
                     (jobs'[t[k].name] = NoJob \/ Before(k, "job_cancel")) /\ ~Before(k, "job_create")
                /\ t[k].tool \in {"job_cancel", "job_reschedule"} =>
                     jobs'[t[k].name] # NoJob /\ ~Before(k, "job_cancel")
                /\ t[k].tool = "job_reschedule" => ~(jobs'[t[k].name].kind = "watch" /\ t[k].long)
  <2> DEFINE d == t[k]
  <2>1. d = queue[k+1] /\ k+1 \in 1..Len(queue) /\ d.name \in Names
    BY <1>1 DEF Call
  <2>2. /\ d.tool \in Staging \cap Granted
        /\ d.name \notin taken =>
            /\ d.tool = "job_create" =>
                 (~Live(d.name) \/ Was(k+1, "job_cancel")) /\ ~Was(k+1, "job_create")
            /\ d.tool \in {"job_cancel", "job_reschedule"} =>
                 Live(d.name) /\ ~Was(k+1, "job_cancel")
            /\ d.tool = "job_reschedule" => ~TooLong(d)
    BY <2>1 DEF Runnable
  <2>3. \A tool : Was(k+1, tool) <=> Before(k, tool) \/ (c.tool = tool /\ c.name = d.name)
    <3> TAKE tool
    <3>1. \A j \in 1..k-1 : t[j] = queue[j+1] /\ j+1 \in 1..k
      BY <1>1
    <3>2. ASSUME NEW j \in 1..k, j # 1 PROVE j-1 \in 1..k-1 /\ queue[j] = t[j-1]
      BY <1>1, <3>2
    <3>3. 1 \in 1..k /\ (k+1)-1 = k
      BY <1>1
    <3>4. Was(k+1, tool) => Before(k, tool) \/ (c.tool = tool /\ c.name = d.name)
      BY <1>1, <2>1, <3>2, <3>3
    <3>5. Before(k, tool) => Was(k+1, tool)
      BY <1>1, <2>1, <3>1, <3>3
    <3>6. c.tool = tool /\ c.name = d.name => Was(k+1, tool)
      BY <1>1, <2>1, <3>3
    <3> QED
      BY <3>4, <3>5, <3>6
  <2> HIDE DEF Was, Before, d
  <2>4. d.name # c.name \/ c.tool \notin {"job_create", "job_cancel"} => jobs'[d.name] = jobs[d.name]
    BY <1>2, <2>1
  <2>5. /\ Live(d.name) <=> jobs[d.name] # NoJob
        /\ TooLong(d) <=> jobs[d.name].kind = "watch" /\ d.long
    BY DEF Live, TooLong
  <2>6. d.name \notin after =>
          /\ d.name \notin taken
          /\ d.name = c.name /\ c.tool = "job_cancel" => end # "failed"
    BY DEF Leaves
  <2>7. d.name \notin after /\ d.tool = "job_create" =>
          (jobs'[d.name] = NoJob \/ Before(k, "job_cancel")) /\ ~Before(k, "job_create")
    BY <1>2, <2>2, <2>3, <2>4, <2>5, <2>6
  <2>8. d.name \notin after /\ d.tool \in {"job_cancel", "job_reschedule"} =>
          /\ jobs'[d.name] = jobs[d.name]
          /\ jobs'[d.name] # NoJob /\ ~Before(k, "job_cancel")
    BY <1>3, <2>2, <2>3, <2>4, <2>5, <2>6
  <2> QED
    BY <2>2, <2>5, <2>6, <2>7, <2>8 DEF d
<1>5. queue' = t
  BY DEF t
<1> QED
  BY ONLY <1>4, <1>5 DEF Runnable, Live, TooLong

\* What a call leaves taken is remembered with its result.
LEMMA StillTakenNext ==
    ASSUME Typing, NEW c \in Asked, NEW end \in End,
           results' = Append(results, [call |-> c, end |-> end])
    PROVE  /\ \A n \in 0..Len(results) : StillTaken(n)' = StillTaken(n)
           /\ StillTaken(Len(results))' = StillTaken(Len(results)) \cup Leaves(c, end)
<1>1. /\ Len(results) \in Nat /\ Len(results') = Len(results) + 1
      /\ \A i \in 1..Len(results) : results'[i] = results[i]
      /\ results'[Len(results) + 1] = [call |-> c, end |-> end]
  BY DEF Typing
<1>2. ASSUME NEW n \in 0..Len(results) PROVE StillTaken(n)' = StillTaken(n)
  BY <1>1, <1>2 DEF StillTaken
<1>3. StillTaken(Len(results))' = StillTaken(Len(results)) \cup Leaves(c, end)
  BY <1>1 DEF StillTaken, Leaves
<1> QED
  BY <1>2, <1>3

-----------------------------------------------------------------------------
(* PreviewInv is inductive                                                 *)

\* A step of the loop that neither stages nor saves, or of someone else.
LEMMA PreviewFrame ==
    ASSUME PreviewInv, UNCHANGED <<jobs, prop, mode, results, drift>>,
           surface'.staged = surface.staged, surface'.saved = surface.saved,
           mode = "yes" => queue' = queue
    PROVE  PreviewInv'
<1>1. Runnable(surface.staged, {})' <=> Runnable(surface.staged, {})
  BY DEF Runnable, Live, TooLong
<1>2. (\A p \in prop : Runnable(p.calls, {}))' <=> \A p \in prop : Runnable(p.calls, {})
  BY SameProposal
<1>3. mode = "yes" => (Runnable(queue, StillTaken(Len(results)))' <=>
                       Runnable(queue, StillTaken(Len(results))))
  BY DEF Runnable, Live, TooLong, StillTaken
<1>4. (NoLaterRelay' <=> NoLaterRelay) /\ (PreviewedRuns' <=> PreviewedRuns)
  BY DEF NoLaterRelay, PreviewedRuns, StillTaken
<1> QED
  BY <1>1, <1>2, <1>3, <1>4 DEF PreviewInv

\* A turn begins.
LEMMA PreviewBegins ==
    ASSUME PreviewInv, mode = "idle", mode' \in {"turn", "report"},
           UNCHANGED <<jobs, prop, results, drift>>,
           surface'.staged = <<>>, surface'.saved = {}
    PROVE  PreviewInv'
<1>1. Runnable(surface.staged, {})'
  BY NothingStaged
<1>2. (\A p \in prop : Runnable(p.calls, {}))' <=> \A p \in prop : Runnable(p.calls, {})
  BY SameProposal
<1> QED
  BY <1>1, <1>2 DEF PreviewInv, PreviewedRuns

\* Whatever ends leaves nothing but what is stored.
LEMMA PreviewOver ==
    ASSUME PreviewInv, Over, drift'.stored \/ (\A p \in prop : Runnable(p.calls, {}))'
    PROVE  PreviewInv'
<1>1. surface'.staged = <<>> /\ surface'.saved = {} /\ mode' = "idle" /\ results' = <<>>
  BY NewSurfaceTyped DEF Over
<1>2. Runnable(surface.staged, {})'
  BY <1>1, NothingStaged
<1> QED
  BY <1>1, <1>2 DEF PreviewInv, PreviewedRuns

\* With no proposal stored, and nothing staged, the jobs do not matter.
LEMMA PreviewIdle ==
    ASSUME PreviewInv, mode = "idle", mode' = "idle", prop' = {},
           surface' = surface, results' = results
    PROVE  PreviewInv'
<1>1. surface'.staged = <<>>
  BY DEF PreviewInv
<1>2. Runnable(surface.staged, {})'
  BY <1>1, NothingStaged
<1> QED
  BY <1>2 DEF PreviewInv, PreviewedRuns

LEMMA PreviewConfirm == Typing /\ PreviewInv /\ Confirm => PreviewInv'
<1> SUFFICES ASSUME Typing, PreviewInv, Confirm PROVE PreviewInv'
  OBVIOUS
<1>1. PICK p \in prop, m \in Loaded :
          /\ mode = "idle" /\ mode' = "yes" /\ prop' = {} /\ queue' = p.calls
          /\ surface' = NewSurface(Taint(m) \/ p.tainted)
          /\ UNCHANGED <<jobs, results, drift>>
  BY DEF Confirm
<1>2. surface'.staged = <<>> /\ surface'.saved = {}
  BY <1>1, NewSurfaceTyped
<1>3. Runnable(surface.staged, {})'
  BY <1>2, NothingStaged
<1>4. drift.stored \/ Runnable(p.calls, {})
  BY DEF PreviewInv
<1>5. results' = <<>>
  BY <1>1 DEF PreviewInv
<1>6. StillTaken(Len(results))' = {}
  BY <1>5 DEF StillTaken
<1>7. drift.stored \/ Runnable(queue, StillTaken(Len(results)))'
  BY <1>1, <1>4, <1>6 DEF Runnable, Live, TooLong
<1> QED
  BY <1>1, <1>2, <1>3, <1>5, <1>7 DEF PreviewInv, PreviewedRuns

LEMMA PreviewStage == Typing /\ PreviewInv /\ Stage => PreviewInv'
<1> SUFFICES ASSUME Typing, PreviewInv, Stage PROVE PreviewInv'
  OBVIOUS
<1> DEFINE c == Head(queue)
<1>1. /\ mode \in {"turn", "report"} /\ queue # <<>>
      /\ ~Denies(c.tool) /\ c.tool \in Staging /\ ~StagingError(c)
      /\ surface' = [surface EXCEPT !.staged = Append(@, c)]
      /\ UNCHANGED <<jobs, prop, mode, results, drift>>
  BY DEF Stage, Calling, Answers
<1>2. c \in Asked
  BY <1>1, HeadOfQueue
<1>3. mode = "turn"
  BY <1>1, ReportDenies
<1>4. c.tool \in Staging \cap Granted
  BY <1>1 DEF Denies
<1>5. surface'.staged = Append(surface.staged, c) /\ surface'.saved = surface.saved
  BY <1>1 DEF Typing, Surface
<1>6. surface.staged \in Seq(Asked)
  BY DEF Typing, Surface
<1>7. drift.staged \/ Runnable(surface.staged, {})'
  <2>1. ASSUME NEW s, s = surface.staged, NEW d, d = c, Runnable(s, {})
        PROVE  Runnable(Append(s, d), {})'
    BY <1>1, <1>2, <1>4, <1>6, <2>1, StagedRunnable
  <2>2. ASSUME NEW s, s = Append(surface.staged, c), Runnable(s, {})'
        PROVE  Runnable(surface.staged, {})'
    BY <1>5, <2>2 DEF Runnable
  <2> QED
    BY <2>1, <2>2 DEF PreviewInv
<1>8. (\A p \in prop : Runnable(p.calls, {}))' <=> \A p \in prop : Runnable(p.calls, {})
  BY <1>1, SameProposal
<1> QED
  BY <1>1, <1>3, <1>5, <1>7, <1>8 DEF PreviewInv, PreviewedRuns

\* A reminder saved at once may take a name that something staged relies on.
LEMMA PreviewRemind == Typing /\ PreviewInv /\ Remind => PreviewInv'
<1> SUFFICES ASSUME Typing, PreviewInv, Remind PROVE PreviewInv'
  OBVIOUS
<1> DEFINE c == Head(queue)
<1>1. PICK end \in End :
          /\ SavesJob(c, "reminder", end, FALSE)
          /\ surface' = IF end = "done" THEN [surface EXCEPT !.saved = @ \cup {c.name}] ELSE surface
          /\ drift' = IF end = "done" THEN [staged |-> surface.staged # <<>>, stored |-> prop # {}]
                      ELSE drift
  BY DEF Remind
<1>2. /\ mode \in {"turn", "report"} /\ ~Denies(c.tool) /\ c.tool = "job_create"
      /\ UNCHANGED <<prop, mode, results>>
  BY DEF Remind, Calling, SavesNow, Reminder, Answers
<1>3. mode = "turn"
  BY <1>2, ReportDenies, JobToolsStage
<1>4. surface'.staged = surface.staged
  BY <1>1 DEF Typing, Surface
<1>5. CASE end = "done"
  <2>1. drift'.staged = (surface.staged # <<>>) /\ drift'.stored = (prop # {})
    BY <1>1, <1>5
  <2>2. drift'.staged \/ Runnable(surface.staged, {})'
    <3>1. CASE surface.staged = <<>>
      BY <1>4, <3>1, NothingStaged
    <3>2. CASE surface.staged # <<>>
      BY <2>1, <3>2
    <3> QED
      BY <3>1, <3>2
  <2> QED
    BY <1>2, <1>3, <2>1, <2>2 DEF PreviewInv, PreviewedRuns
<1>6. CASE end # "done"
  <2>1. UNCHANGED <<jobs, surface, drift>>
    BY <1>1, <1>6 DEF SavesJob
  <2> QED
    BY <1>2, <1>3, <2>1, PreviewFrame
<1> QED
  BY <1>5, <1>6

LEMMA PreviewCommit == Typing /\ PreviewInv /\ CommitCall => PreviewInv'
<1> SUFFICES ASSUME Typing, PreviewInv, CommitCall PROVE PreviewInv'
  OBVIOUS
<1> DEFINE c == Head(queue)
<1>1. PICK end \in End :
          /\ IF Denies(c.tool) THEN end = "refused" /\ UNCHANGED jobs ELSE Commits(c, end)
          /\ results' = Append(results, [call |-> c, end |-> end])
          /\ surface' = IF end = "done" /\ Reminder(c)
                        THEN [surface EXCEPT !.saved = @ \cup {c.name}] ELSE surface
  BY DEF CommitCall
<1>2. /\ mode = "yes" /\ queue # <<>> /\ queue' = Tail(queue)
      /\ UNCHANGED <<prop, mode, drift>>
  BY DEF CommitCall
<1>3. prop = {} /\ surface.staged = <<>>
  BY <1>2 DEF PreviewInv
<1>4. surface'.staged = <<>>
  BY <1>1, <1>3 DEF Typing, Surface
<1>5. Runnable(surface.staged, {})'
  BY <1>4, NothingStaged
<1>6. /\ Len(results) \in Nat /\ Len(results') = Len(results) + 1
      /\ \A i \in 1..Len(results) : results'[i] = results[i]
      /\ results'[Len(results')].call = c /\ results'[Len(results')].end = end
  BY <1>1 DEF Typing
<1>7. NoLaterRelay' => NoLaterRelay /\ ~LaterRelay(c)
  <2>1. Len(results') \in 1..Len(results')
    BY <1>6
  <2> QED
    BY <1>6, <2>1 DEF NoLaterRelay, LaterRelay
<1>8. CASE drift.stored \/ ~NoLaterRelay'
  BY <1>2, <1>3, <1>4, <1>5, <1>8 DEF PreviewInv, PreviewedRuns
<1>9. CASE ~drift.stored /\ NoLaterRelay'
  <2> PICK taken : taken = StillTaken(Len(results))
    OBVIOUS
  <2> PICK after : after = taken \cup Leaves(c, end)
    OBVIOUS
  <2>1. Runnable(queue, taken) /\ PreviewedRuns /\ NoLaterRelay
    BY <1>2, <1>7, <1>9 DEF PreviewInv
  <2>2. c \in Call /\ c \in Asked /\ c.tool \in Staging \cap Granted
    BY <1>2, <2>1, HeadOfQueue, HeadRunnable
  <2>3. Commits(c, end)
    BY <1>1, <1>2, <2>2, YesAllows
  <2>4. /\ \A n \in 0..Len(results) : StillTaken(n)' = StillTaken(n)
        /\ StillTaken(Len(results))' = after
    BY <1>1, <2>2, StillTakenNext
  <2>5. Runnable(queue, StillTaken(Len(results)))'
    <3>1. ~LaterRelay(c)
      BY <1>7, <1>9
    <3>2. Runnable(queue, after)'
      BY <1>2, <2>1, <2>3, <3>1, TailRunnable
    <3> QED
      BY <2>4, <3>2 DEF Runnable, Live, TooLong
  <2>6. c.tool \in JobTools /\ end = "refused" => c.name \in taken
    <3> SUFFICES ASSUME c.tool \in JobTools, c.name \notin taken PROVE end # "refused"
      OBVIOUS
    <3>1. /\ c.tool = "job_create" => ~Live(c.name)
          /\ c.tool \in {"job_cancel", "job_reschedule"} => Live(c.name)
          /\ c.tool = "job_reschedule" => ~TooLong(c)
      BY <1>2, <2>1, HeadRunnable
    <3> QED
      BY <2>2, <2>3, <3>1, CommitsRun
  <2>7. \A i \in 1..Len(results) :
            results[i].call.tool \in JobTools /\ results[i].end = "refused"
            => results[i].call.name \in StillTaken(i - 1)
    BY <1>2, <1>9, <2>1 DEF PreviewedRuns
  <2>8. PreviewedRuns'
    <3> SUFFICES ASSUME NEW i \in 1..Len(results'),
                        results'[i].call.tool \in JobTools, results'[i].end = "refused"
                 PROVE  results'[i].call.name \in StillTaken(i - 1)'
      BY DEF PreviewedRuns, JobTools
    <3>1. i - 1 \in 0..Len(results) /\ StillTaken(i - 1)' = StillTaken(i - 1)
      BY <1>6, <2>4
    <3>2. CASE i \in 1..Len(results)
      BY <1>6, <2>7, <3>1, <3>2
    <3>3. CASE i = Len(results')
      BY <1>6, <2>6, <3>1, <3>3
    <3> QED
      BY <1>6, <3>2, <3>3
  <2> QED
    BY <1>2, <1>3, <1>4, <1>5, <2>5, <2>8 DEF PreviewInv
<1> QED
  BY <1>8, <1>9

LEMMA PreviewFails == Typing /\ PreviewInv /\ TurnFails => PreviewInv'
<1> SUFFICES ASSUME Typing, PreviewInv, TurnFails PROVE PreviewInv'
  OBVIOUS
<1>1. Over /\ RolledBack
  BY DEF TurnFails
<1>2. CASE prop' = {}
  BY <1>1, <1>2, PreviewOver
<1>3. CASE UNCHANGED prop /\ drift' = [drift EXCEPT !.staged = FALSE] /\ prop # {}
  <2>1. drift'.stored = drift.stored
    BY <1>3 DEF Typing
  <2>2. CASE surface.saved = {}
    <3>1. jobs' = jobs
      BY <1>1, <2>2 DEF RolledBack, Typing
    <3>2. drift.stored \/ (\A p \in prop : Runnable(p.calls, {}))'
      BY <1>3, <3>1, SameProposal DEF PreviewInv
    <3> QED
      BY <1>1, <2>1, <3>2, PreviewOver
  <2>3. CASE surface.saved # {}
    BY <1>1, <1>3, <2>1, <2>3, PreviewOver DEF PreviewInv
  <2> QED
    BY <2>2, <2>3
<1> QED
  BY <1>2, <1>3 DEF TurnFails

LEMMA PreviewAnswers == Typing /\ PreviewInv /\ TurnAnswers => PreviewInv'
<1> SUFFICES ASSUME Typing, PreviewInv, TurnAnswers PROVE PreviewInv'
  OBVIOUS
<1>1. Over /\ jobs' = jobs
  BY DEF TurnAnswers
<1>2. CASE surface.staged = <<>>
  <2>1. UNCHANGED <<prop, drift>>
    BY <1>2 DEF TurnAnswers
  <2>2. drift.stored \/ (\A p \in prop : Runnable(p.calls, {}))'
    BY <1>1, <2>1, SameProposal DEF PreviewInv
  <2> QED
    BY <1>1, <2>1, <2>2, PreviewOver
<1>3. CASE surface.staged # <<>>
  <2>1. /\ prop' = {[calls |-> surface.staged, tainted |-> surface.tainted]}
        /\ drift' = [staged |-> FALSE, stored |-> drift.staged]
    BY <1>3 DEF TurnAnswers
  <2>2. drift'.stored = drift.staged
    BY <2>1
  <2>3. \A p \in prop' : p.calls = surface.staged
    BY <2>1
  <2>4. drift.staged \/ (\A p \in prop : Runnable(p.calls, {}))'
    <3>1. Runnable(surface.staged, {}) => (\A p \in prop : Runnable(p.calls, {}))'
      BY <1>1, <2>3, SameJobs
    <3> QED
      BY <3>1 DEF PreviewInv
  <2> QED
    BY <1>1, <2>2, <2>4, PreviewOver
<1> QED
  BY <1>2, <1>3

\* The runner ends a job.
LEMMA PreviewJobEnds ==
    ASSUME Typing, PreviewInv, NEW n \in Names, JobEnds(n)
    PROVE  PreviewInv'
<1>1. /\ drift'.staged = (surface.staged # <<>>) /\ drift'.stored = (prop # {} \/ mode = "yes")
      /\ UNCHANGED <<prop, mode, results, surface>>
  BY DEF JobEnds
<1>2. drift'.staged \/ Runnable(surface.staged, {})'
  <2>1. CASE surface.staged = <<>>
    BY <1>1, <2>1, NothingStaged
  <2>2. CASE surface.staged # <<>>
    BY <1>1, <2>2
  <2> QED
    BY <2>1, <2>2
<1> QED
  BY <1>1, <1>2 DEF PreviewInv, PreviewedRuns

LEMMA PreviewNext == Typing /\ PreviewInv /\ [Next]_vars => PreviewInv'
<1> SUFFICES ASSUME Typing, PreviewInv, [Next]_vars PROVE PreviewInv'
  OBVIOUS
<1>1. CASE StartTurn \/ StartReport
  <2>1. PICK m \in Loaded : surface' = NewSurface(Taint(m))
    BY <1>1 DEF StartTurn, StartReport
  <2>2. surface'.staged = <<>> /\ surface'.saved = {}
    BY <2>1, TaintIsBoolean, NewSurfaceTyped
  <2> QED
    BY <1>1, <2>2, PreviewBegins DEF StartTurn, StartReport, Begins
<1>2. CASE Discard \/ Expire
  BY <1>2, PreviewIdle DEF Discard, Expire
<1>3. CASE Asks \/ LookAgain \/ Refuse
  BY <1>3, PreviewFrame DEF Asks, LookAgain, Refuse, Thinking, Calling, Answers
<1>4. CASE Read
  <2>1. surface'.staged = surface.staged /\ surface'.saved = surface.saved
    BY <1>4, ReadsTyped DEF Read, Typing
  <2> QED
    BY <1>4, <2>1, PreviewFrame DEF Read, Calling, Answers
<1>5. CASE ReportAnswers
  <2>1. Over /\ UNCHANGED <<jobs, prop, drift>>
    BY <1>5 DEF ReportAnswers
  <2>2. drift.stored \/ (\A p \in prop : Runnable(p.calls, {}))'
    BY <2>1, SameProposal DEF PreviewInv
  <2> QED
    BY <2>1, <2>2, PreviewOver
<1>6. CASE Summary
  <2>1. Over /\ prop' = {}
    BY <1>6 DEF Summary, PreviewInv
  <2> QED
    BY <2>1, PreviewOver
<1>7. CASE Arrives
  BY <1>7, PreviewFrame DEF Arrives, loop
<1>8. CASE UNCHANGED vars
  BY <1>8, PreviewFrame DEF vars, loop
<1>9. CASE \E n \in Names : JobEnds(n)
  BY <1>9, PreviewJobEnds
<1> QED
  BY <1>1, <1>2, <1>3, <1>4, <1>5, <1>6, <1>7, <1>8, <1>9, PreviewConfirm, PreviewStage,
     PreviewRemind, PreviewCommit, PreviewFails, PreviewAnswers DEF Next, Loop, Ends

LEMMA PreviewInit == Init => PreviewInv
<1> SUFFICES ASSUME Init PROVE PreviewInv
  OBVIOUS
<1>1. surface.staged = <<>> /\ surface.saved = {}
  BY NewSurfaceTyped DEF Init
<1> QED
  BY <1>1, NothingRunnable DEF Init, PreviewInv, PreviewedRuns

\* The broker and the table do not turn down what is staged, stored or still to run,
\* as far as no call before it failed (_staging_error, commit and the handlers of
\* the job tools).
THEOREM Previews == Spec => []PreviewInv
<1>1. Init => PreviewInv
  BY PreviewInit
<1>2. Typing /\ PreviewInv /\ [Next]_vars => PreviewInv'
  BY PreviewNext
<1> QED
  BY <1>1, <1>2, Typed, PTL DEF Spec

\* No change to jobs that a preview shows is turned down after the yes, unless the
\* table moved, or a cancel before it failed on the store: what still may fail is a
\* time the clock cannot show, or a read or a write of the store.
THEOREM PreviewsRun == Spec => []PreviewedRuns
<1>1. PreviewInv => PreviewedRuns
  BY DEF PreviewInv
<1> QED
  BY <1>1, Previews, PTL

-----------------------------------------------------------------------------
(* Reports                                                                 *)

LEMMA ReportStep ==
    ASSUME Typing, PreviewInv, Next, mode = "report"
    PROVE  /\ surface'.staged = <<>> /\ surface'.saved = {}
           /\ \A n \in Names : jobs'[n] \in {jobs[n], NoJob}
<1>1. surface.staged = <<>> /\ surface.saved = {}
  BY DEF PreviewInv
<1>2. ~Stage
  BY ReportDenies DEF Stage
<1>3. ~Remind
  BY ReportDenies, JobToolsStage DEF Remind, SavesNow, Reminder
<1>4. CASE Read
  BY <1>1, <1>4, ReadsTyped DEF Read, Typing
<1>5. CASE Asks \/ Refuse \/ LookAgain
  BY <1>1, <1>5 DEF Asks, Refuse, LookAgain
<1>6. CASE TurnFails
  BY <1>1, <1>6, NewSurfaceTyped DEF TurnFails, Over, RolledBack
<1>7. CASE ReportAnswers
  BY <1>7, NewSurfaceTyped DEF ReportAnswers, Over
<1>8. CASE \E n \in Names : JobEnds(n)
  BY <1>1, <1>8 DEF JobEnds, Typing
<1> QED
  BY <1>2, <1>3, <1>4, <1>5, <1>6, <1>7, <1>8
  DEF Next, Loop, Ends, StartTurn, StartReport, Begins, Confirm, Discard, CommitCall,
      TurnAnswers, Summary, Arrives, Expire

\* A report changes no job and stages nothing (_not_report_tool, _deny_reason).
THEOREM ReportsReport == Spec => ReportsOnly
<1>1. Typing /\ PreviewInv /\ [Next]_vars =>
        [mode = "report" => /\ surface'.staged = <<>> /\ surface'.saved = {}
                            /\ \A n \in Names : jobs'[n] \in {jobs[n], NoJob}]_vars
  BY ReportStep
<1> QED
  BY <1>1, Typed, Previews, PTL DEF Spec, ReportsOnly

-----------------------------------------------------------------------------
(* Exchanges                                                               *)

\* Every result comes after its call, with only results in between.
ResultsFollow(m) ==
    \A i \in 1..Len(m) : m[i].role = "tool" =>
        \E k \in 1..i-1 : m[k].role = "ask" /\ \A l \in k+1..i : m[l].role = "tool"

\* The t messages after i, and no more, are results.
Run(m, i, t) ==
    /\ \A j \in i+1..i+t : m[j].role = "tool"
    /\ i + t = Len(m) \/ m[i + t + 1].role # "tool"

\* A call has all of its results, but for those pending at the end.
CallsAnswered(m, pending) ==
    \A i \in 1..Len(m) : m[i].role = "ask" =>
        \E t \in 0..Len(m)-i :
            Run(m, i, t) /\ m[i].calls = t + (IF i + t = Len(m) THEN pending ELSE 0)

\* The list ends in an exchange.
Ongoing(m) ==
    \E k \in 1..Len(m) : m[k].role = "ask" /\ \A l \in k+1..Len(m) : m[l].role = "tool"

Whole(m, pending) ==
    /\ ResultsFollow(m)
    /\ CallsAnswered(m, pending)
    /\ pending > 0 => Ongoing(m)

LEMMA StartIs ==
    ASSUME NEW m, NEW i \in Nat, NEW k \in 1..i,
           m[k].role # "tool", \A l \in k+1..i : m[l].role = "tool"
    PROVE  Start(m, i) = k
<1>1. ASSUME NEW x \in 1..i, m[x].role # "tool" \/ x = 1, \A l \in x+1..i : m[l].role = "tool"
      PROVE  x = k
  <2>1. CASE x < k
    BY <1>1, <2>1
  <2>2. CASE k < x
    BY <1>1, <2>2
  <2> QED
    BY <2>1, <2>2
<1> QED
  BY <1>1 DEF Start

\* In a list of whole exchanges an exchange starts with its call.
LEMMA StartInWhole ==
    ASSUME NEW m \in Seq(Message), ResultsFollow(m), NEW i \in 1..Len(m)
    PROVE  /\ Start(m, i) \in 1..i /\ m[Start(m, i)].role # "tool"
           /\ \A l \in Start(m, i)+1..i : m[l].role = "tool"
           /\ m[i].role = "tool" => m[Start(m, i)].role = "ask" /\ Start(m, i) < i
           /\ m[i].role # "tool" => Start(m, i) = i
<1>1. CASE m[i].role = "tool"
  <2>1. PICK k \in 1..i-1 : m[k].role = "ask" /\ \A l \in k+1..i : m[l].role = "tool"
    BY <1>1 DEF ResultsFollow
  <2>2. Start(m, i) = k
    BY <2>1, StartIs
  <2> QED
    BY <1>1, <2>1, <2>2
<1>2. CASE m[i].role # "tool"
  <2>1. Start(m, i) = i
    BY <1>2, StartIs
  <2> QED
    BY <1>2, <2>1
<1> QED
  BY <1>1, <1>2

\* The results of a call are the run after it.
LEMMA ResultsOf ==
    ASSUME NEW m \in Seq(Message), ResultsFollow(m), NEW i \in 1..Len(m), m[i].role = "ask",
           NEW t \in 0..Len(m)-i, Run(m, i, t)
    PROVE  {j \in i+1..Len(m) : Start(m, j) = i} = i+1..i+t
<1>1. ASSUME NEW j \in i+1..i+t PROVE j \in i+1..Len(m) /\ Start(m, j) = i
  <2>1. \A l \in i+1..j : m[l].role = "tool"
    BY <1>1 DEF Run
  <2> QED
    BY <1>1, <2>1, StartIs
<1>2. ASSUME NEW j \in i+1..Len(m), Start(m, j) = i, j > i + t PROVE FALSE
  <2>1. \A l \in i+1..j : m[l].role = "tool"
    BY <1>2, StartInWhole
  <2> QED
    BY <1>2, <2>1 DEF Run
<1> QED
  BY <1>1, <1>2

LEMMA WholeIsPaired ==
    ASSUME NEW m \in Seq(Message), NEW pending \in Nat, Whole(m, pending)
    PROVE  Paired(m, pending)
<1> USE DEF Whole
<1>1. ASSUME NEW i \in 1..Len(m), m[i].role = "ask"
      PROVE  LET there == {j \in i+1..Len(m) : Start(m, j) = i} IN
             m[i].calls = Cardinality(there) + (IF i + Cardinality(there) = Len(m) THEN pending ELSE 0)
  <2>1. PICK t \in 0..Len(m)-i :
            Run(m, i, t) /\ m[i].calls = t + (IF i + t = Len(m) THEN pending ELSE 0)
    BY <1>1 DEF CallsAnswered
  <2>2. {j \in i+1..Len(m) : Start(m, j) = i} = i+1..i+t
    BY <1>1, <2>1, ResultsOf
  <2>3. Cardinality(i+1..i+t) = t
    BY FS_Interval
  <2> QED
    BY <2>1, <2>2, <2>3
<1>2. ASSUME NEW i \in 1..Len(m), m[i].role = "tool"
      PROVE  LET k == Start(m, i) IN m[k].role = "ask" /\ i - k <= m[k].calls
  <2> PICK k : k = Start(m, i)
    OBVIOUS
  <2>1. k \in 1..Len(m) /\ k < i /\ m[k].role = "ask" /\ \A l \in k+1..i : m[l].role = "tool"
    BY <1>2, StartInWhole
  <2>2. PICK t \in 0..Len(m)-k :
            Run(m, k, t) /\ m[k].calls = t + (IF k + t = Len(m) THEN pending ELSE 0)
    BY <1>2, <2>1 DEF CallsAnswered
  <2>3. i <= k + t
    BY <1>2, <2>1, <2>2 DEF Run
  <2> QED
    BY <1>2, <2>1, <2>2, <2>3
<1> QED
  BY <1>1, <1>2 DEF Paired

-----------------------------------------------------------------------------
(* Lists that grow and are cut                                             *)

LEMMA EmptyIsWhole == Whole(<<>>, 0)
BY DEF Whole, ResultsFollow, CallsAnswered

\* A message that is neither a call nor a result.
LEMMA PlainKeeps ==
    ASSUME NEW m \in Seq(Message), Whole(m, 0), NEW x \in Message, x.role \in {"user", "say"}
    PROVE  Append(m, x) \in Seq(Message) /\ Whole(Append(m, x), 0)
<1> PICK s : s = Append(m, x)
  OBVIOUS
<1>1. /\ s \in Seq(Message) /\ Len(s) = Len(m) + 1
      /\ \A i \in 1..Len(m) : s[i] = m[i]
      /\ s[Len(m) + 1] = x /\ Len(m) \in Nat
  OBVIOUS
<1>2. ResultsFollow(s)
  <2> SUFFICES ASSUME NEW i \in 1..Len(s), s[i].role = "tool"
               PROVE  \E k \in 1..i-1 : s[k].role = "ask" /\ \A l \in k+1..i : s[l].role = "tool"
    BY DEF ResultsFollow
  <2>1. i \in 1..Len(m) /\ m[i].role = "tool"
    BY <1>1
  <2>2. PICK k \in 1..i-1 : m[k].role = "ask" /\ \A l \in k+1..i : m[l].role = "tool"
    BY <2>1 DEF Whole, ResultsFollow
  <2> QED
    BY <1>1, <2>1, <2>2
<1>3. CallsAnswered(s, 0)
  <2> SUFFICES ASSUME NEW i \in 1..Len(m), m[i].role = "ask"
               PROVE  \E t \in 0..Len(s)-i : Run(s, i, t) /\ s[i].calls = t
    BY <1>1 DEF CallsAnswered
  <2>1. PICK t \in 0..Len(m)-i : Run(m, i, t) /\ m[i].calls = t
    BY DEF Whole, CallsAnswered
  <2>2. Run(s, i, t)
    BY <1>1, <2>1 DEF Run
  <2> QED
    BY <1>1, <2>1, <2>2
<1> QED
  BY <1>1, <1>2, <1>3 DEF Whole

\* A call.
LEMMA AskKeeps ==
    ASSUME NEW m \in Seq(Message), Whole(m, 0), NEW n \in Nat, NEW x \in Message,
           x.role = "ask", x.calls = n
    PROVE  Append(m, x) \in Seq(Message) /\ Whole(Append(m, x), n)
<1> PICK s : s = Append(m, x)
  OBVIOUS
<1>1. /\ s \in Seq(Message) /\ Len(s) = Len(m) + 1
      /\ \A i \in 1..Len(m) : s[i] = m[i]
      /\ s[Len(m) + 1] = x /\ Len(m) \in Nat
  OBVIOUS
<1>2. ResultsFollow(s)
  <2> SUFFICES ASSUME NEW i \in 1..Len(s), s[i].role = "tool"
               PROVE  \E k \in 1..i-1 : s[k].role = "ask" /\ \A l \in k+1..i : s[l].role = "tool"
    BY DEF ResultsFollow
  <2>1. i \in 1..Len(m) /\ m[i].role = "tool"
    BY <1>1
  <2>2. PICK k \in 1..i-1 : m[k].role = "ask" /\ \A l \in k+1..i : m[l].role = "tool"
    BY <2>1 DEF Whole, ResultsFollow
  <2> QED
    BY <1>1, <2>1, <2>2
<1>3. CallsAnswered(s, n)
  <2> SUFFICES ASSUME NEW i \in 1..Len(s), s[i].role = "ask"
               PROVE  \E t \in 0..Len(s)-i :
                        Run(s, i, t) /\ s[i].calls = t + (IF i + t = Len(s) THEN n ELSE 0)
    BY DEF CallsAnswered
  <2>1. CASE i \in 1..Len(m)
    <3>1. PICK t \in 0..Len(m)-i : Run(m, i, t) /\ m[i].calls = t
      BY <1>1, <2>1 DEF Whole, CallsAnswered
    <3>2. Run(s, i, t) /\ i + t # Len(s)
      BY <1>1, <2>1, <3>1 DEF Run
    <3> QED
      BY <1>1, <2>1, <3>1, <3>2
  <2>2. CASE i = Len(m) + 1
    <3>1. Run(s, i, 0)
      BY <1>1, <2>2 DEF Run
    <3> QED
      BY <1>1, <2>2, <3>1
  <2> QED
    BY <1>1, <2>1, <2>2
<1>4. Ongoing(s)
  BY <1>1 DEF Ongoing
<1> QED
  BY <1>1, <1>2, <1>3, <1>4 DEF Whole

\* The next result of the exchange at the end.
LEMMA ResultKeeps ==
    ASSUME NEW m \in Seq(Message), NEW n \in Nat, Whole(m, n + 1), NEW x \in Message, x.role = "tool"
    PROVE  Append(m, x) \in Seq(Message) /\ Whole(Append(m, x), n)
<1> PICK s : s = Append(m, x)
  OBVIOUS
<1>1. /\ s \in Seq(Message) /\ Len(s) = Len(m) + 1
      /\ \A i \in 1..Len(m) : s[i] = m[i]
      /\ s[Len(m) + 1] = x /\ Len(m) \in Nat
  OBVIOUS
<1>2. PICK q \in 1..Len(m) : m[q].role = "ask" /\ \A l \in q+1..Len(m) : m[l].role = "tool"
  BY DEF Whole, Ongoing
<1>3. Ongoing(s)
  BY <1>1, <1>2 DEF Ongoing
<1>4. ResultsFollow(s)
  <2> SUFFICES ASSUME NEW i \in 1..Len(s), s[i].role = "tool"
               PROVE  \E k \in 1..i-1 : s[k].role = "ask" /\ \A l \in k+1..i : s[l].role = "tool"
    BY DEF ResultsFollow
  <2>1. CASE i \in 1..Len(m)
    <3>1. PICK k \in 1..i-1 : m[k].role = "ask" /\ \A l \in k+1..i : m[l].role = "tool"
      BY <1>1, <2>1 DEF Whole, ResultsFollow
    <3> QED
      BY <1>1, <2>1, <3>1
  <2>2. CASE i = Len(m) + 1
    BY <1>1, <1>2, <2>2
  <2> QED
    BY <1>1, <2>1, <2>2, SMTT(30)
<1>5. CallsAnswered(s, n)
  <2> SUFFICES ASSUME NEW i \in 1..Len(s), s[i].role = "ask"
               PROVE  \E t \in 0..Len(s)-i :
                        Run(s, i, t) /\ s[i].calls = t + (IF i + t = Len(s) THEN n ELSE 0)
    BY DEF CallsAnswered
  <2>0. i \in 1..Len(m) /\ m[i].role = "ask"
    BY <1>1
  <2>1. PICK t \in 0..Len(m)-i :
            Run(m, i, t) /\ m[i].calls = t + (IF i + t = Len(m) THEN n + 1 ELSE 0)
    BY <2>0 DEF Whole, CallsAnswered
  <2>2. CASE i = q
    <3>1. i + t = Len(m)
      BY <1>2, <2>0, <2>1, <2>2 DEF Run
    <3>2. i + (t + 1) = Len(s) /\ i \in Nat /\ t \in Nat
      <4>1. Len(m) \in Nat /\ Len(s) = Len(m) + 1
        BY <1>1
      <4>2. i \in Nat
        BY ONLY <2>0, <4>1
      <4>3. t \in 0..Len(m)-i
        BY <2>1
      <4>4. t \in Nat
        BY ONLY <4>1, <4>2, <4>3
      <4> QED
        BY ONLY <3>1, <4>1, <4>2, <4>4
    <3>3. ASSUME NEW j \in i+1..i+(t + 1) PROVE s[j].role = "tool"
      <4>1. CASE j \in i+1..i+t
        <5>1. j \in 1..Len(m) /\ m[j].role = "tool"
          BY <2>1, <3>1, <3>2, <4>1 DEF Run
        <5> QED
          BY <1>1, <5>1
      <4>2. CASE j = Len(m) + 1
        BY <1>1, <4>2
      <4>3. j \in i+1..i+t \/ j = Len(m) + 1
        BY <3>1, <3>2, <3>3
      <4> QED
        BY <4>1, <4>2, <4>3
    <3>4. Run(s, i, t + 1)
      BY <3>2, <3>3 DEF Run
    <3>5. t + 1 \in 0..Len(s)-i /\ s[i].calls = (t + 1) + n
      BY <1>1, <2>0, <2>1, <3>1
    <3> QED
      BY <3>2, <3>4, <3>5
  <2>3. CASE i # q
    <3>1. i < q
      BY <1>2, <2>0, <2>3
    <3>2. i + t < q
      <4>1. \A j \in i+1..i+t : m[j].role = "tool"
        BY <2>1 DEF Run
      <4>2. i \in Nat /\ t \in Nat /\ q \in Nat
        BY <1>1, <2>0, <2>1
      <4>3. q \notin i+1..i+t
        BY <1>2, <4>1
      <4> QED
        BY <3>1, <4>2, <4>3
    <3>3. Run(s, i, t) /\ i + t # Len(m) /\ i + t # Len(s)
      BY <1>1, <2>0, <2>1, <3>2, <1>2 DEF Run
    <3> QED
      BY <1>1, <2>0, <2>1, <3>3
  <2> QED
    BY <2>2, <2>3
<1> QED
  BY <1>1, <1>3, <1>4, <1>5 DEF Whole

\* What is left of a list when it is cut before a message that is not a result.
LEMMA SuffixKeeps ==
    ASSUME NEW m \in Seq(Message), Whole(m, 0), NEW e \in 0..Len(m),
           e = Len(m) \/ m[e + 1].role # "tool"
    PROVE  /\ SubSeq(m, e + 1, Len(m)) \in Seq(Message)
           /\ Whole(SubSeq(m, e + 1, Len(m)), 0)
           /\ Len(SubSeq(m, e + 1, Len(m))) = Len(m) - e
<1> PICK s : s = SubSeq(m, e + 1, Len(m))
  OBVIOUS
<1>1. /\ s \in Seq(Message) /\ Len(s) = Len(m) - e
      /\ \A i \in 1..Len(s) : s[i] = m[i + e]
  OBVIOUS
<1>2. ResultsFollow(s)
  <2> SUFFICES ASSUME NEW i \in 1..Len(s), s[i].role = "tool"
               PROVE  \E k \in 1..i-1 : s[k].role = "ask" /\ \A l \in k+1..i : s[l].role = "tool"
    BY DEF ResultsFollow
  <2>1. i + e \in 1..Len(m) /\ m[i + e].role = "tool"
    BY <1>1
  <2>2. PICK k \in 1..(i+e)-1 : m[k].role = "ask" /\ \A l \in k+1..i+e : m[l].role = "tool"
    BY <2>1 DEF Whole, ResultsFollow
  <2>3. k > e
    BY <2>1, <2>2
  <2>4. k - e \in 1..i-1 /\ s[k - e].role = "ask"
    BY <1>1, <2>2, <2>3
  <2>5. \A l \in (k-e)+1..i : s[l].role = "tool"
    BY <1>1, <2>2, <2>3
  <2> QED
    BY <2>4, <2>5
<1>3. CallsAnswered(s, 0)
  <2> SUFFICES ASSUME NEW i \in 1..Len(s), s[i].role = "ask"
               PROVE  \E t \in 0..Len(s)-i :
                        Run(s, i, t) /\ s[i].calls = t + (IF i + t = Len(s) THEN 0 ELSE 0)
    BY DEF CallsAnswered
  <2>1. i + e \in 1..Len(m) /\ m[i + e].role = "ask"
    BY <1>1
  <2>2. PICK t \in 0..Len(m)-(i+e) : Run(m, i + e, t) /\ m[i + e].calls = t
    BY <2>1 DEF Whole, CallsAnswered
  <2>3. Run(s, i, t)
    <3>1. \A j \in i+1..i+t : s[j].role = "tool"
      BY <1>1, <2>2 DEF Run
    <3>2. i + t = Len(s) \/ s[i + t + 1].role # "tool"
      <4>1. CASE i + t = Len(s)
        BY <4>1
      <4>2. CASE i + t # Len(s)
        <5>1. i + t + 1 \in 1..Len(s)
          <6>1. i \in Nat /\ e \in Nat /\ Len(m) \in Nat
            BY <1>1
          <6>2. t \in Nat /\ t <= Len(m) - (i + e)
            BY <2>2, <6>1
          <6>3. Len(s) = Len(m) - e
            BY <1>1
          <6>4. i + t < Len(s)
            BY ONLY <4>2, <6>1, <6>2, <6>3
          <6> QED
            BY <6>1, <6>2, <6>3, <6>4
        <5>2. s[i + t + 1] = m[(i + e) + t + 1] /\ (i + e) + t # Len(m)
          BY <1>1, <2>2, <4>2, <5>1
        <5> QED
          BY <2>2, <5>2 DEF Run
      <4> QED
        BY <4>1, <4>2
    <3> QED
      BY <3>1, <3>2 DEF Run
  <2> QED
    BY <1>1, <2>2, <2>3
<1> QED
  BY <1>1, <1>2, <1>3 DEF Whole

\* A cut moves past the results it would leave without their call.
LEMMA CutMoves ==
    ASSUME NEW m \in Seq(Message), Whole(m, 0), NEW cut \in 0..Len(m)
    PROVE  /\ PastOrphanTools(m, cut) \in cut..Len(m)
           /\ \/ PastOrphanTools(m, cut) = Len(m)
              \/ m[PastOrphanTools(m, cut) + 1].role # "tool"
<1> DEFINE P(end) == /\ \A k \in cut+1..end : m[k].role = "tool"
                     /\ end = Len(m) \/ m[end + 1].role # "tool"
<1>1. \E end \in cut..Len(m) : P(end)
  <2>1. CASE cut = Len(m) \/ m[cut + 1].role # "tool"
    BY <2>1
  <2>2. CASE cut # Len(m) /\ m[cut + 1].role = "tool"
    <3>1. PICK k \in 1..cut : m[k].role = "ask" /\ \A l \in k+1..cut+1 : m[l].role = "tool"
      BY <2>2 DEF Whole, ResultsFollow
    <3>2. PICK t \in 0..Len(m)-k : Run(m, k, t)
      <4>1. k \in 1..Len(m) /\ CallsAnswered(m, 0)
        BY <3>1 DEF Whole
      <4> QED
        BY <3>1, <4>1 DEF CallsAnswered
    <3>3. k + t > cut
      BY <2>2, <3>1, <3>2 DEF Run
    <3>4. k + t \in cut..Len(m) /\ P(k + t)
      BY <3>2, <3>3 DEF Run
    <3> QED
      BY <3>4
  <2> QED
    BY <2>1, <2>2
<1>2. PICK end : end = PastOrphanTools(m, cut)
  OBVIOUS
<1>3. end \in cut..Len(m) /\ P(end)
  BY <1>1, <1>2 DEF PastOrphanTools
<1> QED
  BY <1>2, <1>3

LEMMA CutKeeps ==
    ASSUME NEW m \in Seq(Message), Whole(m, 0), NEW n \in 0..Len(m)
    PROVE  Cut(m, n) \in Seq(Message) /\ Whole(Cut(m, n), 0)
<1> PICK e : e = PastOrphanTools(m, n)
  OBVIOUS
<1>1. e \in 0..Len(m) /\ (e = Len(m) \/ m[e + 1].role # "tool")
  BY CutMoves
<1> QED
  BY <1>1, SuffixKeeps DEF Cut

\* The window over whole exchanges holds whole exchanges.
LEMMA WindowKeeps ==
    ASSUME NEW m \in Seq(Message), Whole(m, 0), NEW old \in 0..Len(m)
    PROVE  Window(m, old) \in Seq(Message) /\ Whole(Window(m, old), 0)
<1> PICK recent : recent = Cut(m, old)
  OBVIOUS
<1>1. recent \in Seq(Message) /\ Whole(recent, 0)
  BY CutKeeps
<1>2. CASE Len(recent) <= Keep
  BY <1>1, <1>2 DEF Window
<1>3. CASE ~(Len(recent) <= Keep)
  <2>1. Len(recent) - Keep \in 0..Len(recent)
    BY <1>1, <1>3, BoundsAssumption
  <2>2. Window(m, old) = Cut(recent, Len(recent) - Keep)
    BY <1>3 DEF Window
  <2> QED
    BY <1>1, <2>1, <2>2, CutKeeps
<1> QED
  BY <1>2, <1>3

-----------------------------------------------------------------------------
(* Induction                                                               *)

\* A set of numbers that holds 0, and n + 1 for each n of it, holds every number.
\* If it lacked n, adding one would map its part below n into itself, injectively
\* and not onto 0: no finite set allows that.
LEMMA Induction ==
    ASSUME NEW S \in SUBSET Nat, 0 \in S, \A n \in S : n + 1 \in S
    PROVE  S = Nat
<1> SUFFICES ASSUME NEW n \in Nat, n \notin S PROVE FALSE
  OBVIOUS
<1> DEFINE T == S \cap (0..n)
           f == [x \in T |-> x + 1]
<1>1. IsFiniteSet(T)
  <2>1. IsFiniteSet(0..n)
    BY FS_Interval
  <2> QED
    BY <2>1, FS_Subset
<1>2. f \in [T -> T]
  <2>1. ASSUME NEW x \in T PROVE x + 1 \in T
    BY <2>1
  <2> QED
    BY <2>1
<1>3. f \in Injection(T, T)
  BY <1>2 DEF Injection, IsInjective
<1>4. f \in Surjection(T, T)
  BY <1>1, <1>3, FS_Injection
<1>5. 0 \in T
  OBVIOUS
<1>6. PICK x \in T : f[x] = 0
  BY <1>4, <1>5 DEF Surjection
<1> QED
  BY <1>6

-----------------------------------------------------------------------------
(* The numbers of a set, in order                                          *)

Increasing(e, n) == \A a, b \in 1..n : a < b => e[a] < e[b]

LEMMA OrdersExist ==
    ASSUME NEW n \in Nat, NEW S \in SUBSET (1..n)
    PROVE  IsFiniteSet(S) /\ \E e \in [1..Cardinality(S) -> S] : Increasing(e, Cardinality(S))
<1> DEFINE Good(k) == \A R \in SUBSET (1..k) :
                        \E e \in [1..Cardinality(R) -> R] : Increasing(e, Cardinality(R))
           G == {k \in Nat : Good(k)}
<1>1. ASSUME NEW k \in Nat, NEW R \in SUBSET (1..k)
      PROVE  IsFiniteSet(R) /\ Cardinality(R) \in Nat
  <2>1. IsFiniteSet(1..k)
    BY FS_Interval
  <2>2. IsFiniteSet(R)
    BY <2>1, FS_Subset
  <2> QED
    BY <2>2, FS_CardinalityType
<1>2. Good(0)
  <2> SUFFICES ASSUME NEW R \in SUBSET (1..0)
               PROVE  \E e \in [1..Cardinality(R) -> R] : Increasing(e, Cardinality(R))
    OBVIOUS
  <2>1. R = {} /\ Cardinality(R) = 0
    <3>1. R = {}
      OBVIOUS
    <3> QED
      BY <3>1, FS_EmptySet
  <2>2. <<>> \in [1..0 -> R]
    OBVIOUS
  <2> QED
    BY <2>1, <2>2 DEF Increasing
<1>3. ASSUME NEW k \in Nat, Good(k) PROVE Good(k + 1)
  <2> SUFFICES ASSUME NEW R \in SUBSET (1..k+1)
               PROVE  \E e \in [1..Cardinality(R) -> R] : Increasing(e, Cardinality(R))
    OBVIOUS
  <2>1. CASE k + 1 \notin R
    <3>1. R \in SUBSET (1..k)
      BY <2>1
    <3> QED
      BY <1>3, <3>1
  <2>2. CASE k + 1 \in R
    <3> PICK Q : Q = R \ {k + 1}
      OBVIOUS
    <3>1. Q \in SUBSET (1..k) /\ k + 1 \notin Q /\ R = Q \cup {k + 1}
      BY <2>2
    <3>2. PICK c \in Nat : c = Cardinality(Q)
      BY <1>1, <3>1
    <3>3. PICK e \in [1..c -> Q] : Increasing(e, c)
      BY <1>3, <3>1, <3>2
    <3>4. Cardinality(R) = c + 1
      <4>1. IsFiniteSet(Q)
        BY <1>1, <3>1
      <4> QED
        BY <3>1, <3>2, <4>1, FS_AddElement
    <3> DEFINE g == [a \in 1..c+1 |-> IF a = c + 1 THEN k + 1 ELSE e[a]]
    <3>5. g \in [1..c+1 -> R]
      BY <3>1
    <3>6. Increasing(g, c + 1)
      <4> SUFFICES ASSUME NEW a \in 1..c+1, NEW b \in 1..c+1, a < b PROVE g[a] < g[b]
        BY DEF Increasing
      <4>1. a \in 1..c /\ g[a] = e[a] /\ e[a] \in 1..k
        <5>1. a \in 1..c
          OBVIOUS
        <5>2. e[a] \in Q /\ g[a] = e[a]
          BY <5>1
        <5> QED
          BY <3>1, <5>1, <5>2
      <4>2. CASE b = c + 1
        BY <4>1, <4>2
      <4>3. CASE b # c + 1
        BY <3>3, <4>1, <4>3 DEF Increasing
      <4> QED
        BY <4>2, <4>3
    <3> QED
      BY <3>4, <3>5, <3>6
  <2> QED
    BY <2>1, <2>2
<1>4. G = Nat
  <2>1. 0 \in G /\ \A k \in G : k + 1 \in G
    BY <1>2, <1>3, SMTT(30)
  <2> QED
    BY <2>1, Induction
<1> QED
  BY <1>1, <1>4

\* It is an enumeration: in order, and onto.
LEMMA InOrderIs ==
    ASSUME NEW n \in Nat, NEW S \in SUBSET (1..n)
    PROVE  /\ Cardinality(S) \in Nat
           /\ InOrder(S) \in [1..Cardinality(S) -> S]
           /\ Increasing(InOrder(S), Cardinality(S))
           /\ \A x \in S : \E a \in 1..Cardinality(S) : InOrder(S)[a] = x
<1> PICK c : c = Cardinality(S)
  OBVIOUS
<1> PICK e : e = InOrder(S)
  OBVIOUS
<1>1. IsFiniteSet(S) /\ c \in Nat
  BY OrdersExist, FS_CardinalityType
<1>2. e \in [1..c -> S] /\ Increasing(e, c)
  <2>1. \E d \in [1..c -> S] : Increasing(d, c)
    BY OrdersExist
  <2>2. e = CHOOSE d \in [1..c -> S] : Increasing(d, c)
    BY DEF InOrder, Increasing
  <2> QED
    BY <2>1, <2>2
<1>3. IsFiniteSet(1..c) /\ Cardinality(1..c) = c
  BY <1>1, FS_Interval
<1>4. e \in Injection(1..c, S)
  <2>1. ASSUME NEW a \in 1..c, NEW b \in 1..c, e[a] = e[b] PROVE a = b
    <3>1. e[a] \in 1..n /\ e[b] \in 1..n
      BY <1>2
    <3>2. ~(a < b) /\ ~(b < a)
      BY <1>2, <2>1, <3>1 DEF Increasing
    <3> QED
      BY <1>1, <3>2
  <2> QED
    BY <1>2, <2>1 DEF Injection, IsInjective
<1>5. e \in Surjection(1..c, S)
  BY <1>1, <1>3, <1>4, FS_Injection
<1> QED
  BY <1>1, <1>2, <1>5 DEF Surjection

-----------------------------------------------------------------------------
(* What a report is shown                                                  *)

\* TrustedContext as a list s with the places e, in m, of its messages.
Picked(s, m, e) ==
    LET kept == {i \in 1..Len(m) : ~Outside(m, i)} IN
    /\ Len(s) \in Nat /\ s \in [1..Len(s) -> Message]
    /\ e \in [1..Len(s) -> kept]
    /\ \A a, b \in 1..Len(s) : a < b => e[a] < e[b]
    /\ \A i \in kept : \E a \in 1..Len(s) : e[a] = i
    /\ \A a \in 1..Len(s) : s[a] = m[e[a]]

LEMMA TrustedPicks ==
    ASSUME NEW m \in Seq(Message)
    PROVE  TrustedContext(m) \in Seq(Message) /\ \E e : Picked(TrustedContext(m), m, e)
<1> PICK kept : kept = {i \in 1..Len(m) : ~Outside(m, i)}
  OBVIOUS
<1> PICK c : c = Cardinality(kept)
  OBVIOUS
<1> PICK e : e = InOrder(kept)
  OBVIOUS
<1>1. /\ c \in Nat /\ e \in [1..c -> kept] /\ Increasing(e, c)
      /\ \A x \in kept : \E a \in 1..c : e[a] = x
  <2>1. kept \in SUBSET (1..Len(m)) /\ Len(m) \in Nat
    OBVIOUS
  <2> QED
    BY <2>1, InOrderIs
<1>2. TrustedContext(m) = [k \in 1..c |-> m[e[k]]]
  BY DEF TrustedContext
<1>3. \A k \in 1..c : m[e[k]] \in Message
  <2> SUFFICES ASSUME NEW k \in 1..c PROVE m[e[k]] \in Message
    OBVIOUS
  <2>1. e[k] \in 1..Len(m)
    BY <1>1
  <2> QED
    BY <2>1
<1> PICK s : s = TrustedContext(m)
  OBVIOUS
<1>4. s \in [1..c -> Message] /\ \A k \in 1..c : s[k] = m[e[k]]
  BY <1>2, <1>3
<1>5. s \in Seq(Message) /\ Len(s) = c
  BY <1>1, <1>4
<1>6. Picked(s, m, e)
  BY <1>1, <1>4, <1>5 DEF Picked, Increasing
<1> QED
  BY <1>5, <1>6

\* A report reads nothing that came from outside.
LEMMA TrustedIsClean ==
    ASSUME NEW m \in Seq(Message)
    PROVE  TrustedContext(m) \in Seq(Message) /\ Taint(TrustedContext(m)) = FALSE
<1> PICK s : s = TrustedContext(m)
  OBVIOUS
<1>1. PICK e : s \in Seq(Message) /\ Picked(s, m, e)
  BY TrustedPicks
<1>2. ASSUME NEW a \in 1..Len(s) PROVE ~s[a].untrusted
  <2>1. e[a] \in 1..Len(m) /\ ~Outside(m, e[a]) /\ s[a] = m[e[a]]
    BY <1>1 DEF Picked
  <2> QED
    BY <2>1 DEF Outside
<1>3. ~Taint(s)
  BY <1>2 DEF Taint
<1> QED
  BY <1>1, <1>3 DEF Taint

\* The messages of one exchange are kept or dropped together.
LEMMA ExchangeTogether ==
    ASSUME NEW m, NEW i \in 1..Len(m), NEW k \in 1..Len(m), Start(m, i) = Start(m, k)
    PROVE  Outside(m, i) <=> Outside(m, k)
BY DEF Outside

\* Neighbours that are kept stay neighbours.
LEMMA PickedNeighbours ==
    ASSUME NEW m \in Seq(Message), NEW s \in Seq(Message), NEW e, Picked(s, m, e),
           NEW b \in 1..Len(s), NEW t \in Nat,
           \A i \in e[b]..e[b]+t : i \in 1..Len(m) /\ ~Outside(m, i)
    PROVE  \A j \in 0..t : b + j \in 1..Len(s) /\ e[b + j] = e[b] + j
<1> DEFINE P(j) == j <= t => b + j \in 1..Len(s) /\ e[b + j] = e[b] + j
           G == {j \in Nat : P(j)}
<1>1. Len(s) \in Nat /\ \A a \in 1..Len(s) : e[a] \in Nat
  BY SMTT(30) DEF Picked
<1>2. P(0)
  BY <1>1
<1>3. ASSUME NEW j \in Nat, P(j) PROVE P(j + 1)
  <2> SUFFICES ASSUME j + 1 <= t
               PROVE  b + (j + 1) \in 1..Len(s) /\ e[b + (j + 1)] = e[b] + (j + 1)
    OBVIOUS
  <2>1. b + j \in 1..Len(s) /\ e[b + j] = e[b] + j
    BY <1>3
  <2>2. PICK a \in 1..Len(s) : e[a] = e[b] + (j + 1)
    <3>1. e[b] + (j + 1) \in e[b]..e[b]+t
      BY <1>1
    <3> QED
      BY <3>1 DEF Picked
  <2>3. b + j < a
    <3>1. ~(a < b + j) /\ a # b + j
      BY <1>1, <2>1, <2>2 DEF Picked
    <3> QED
      BY <1>1, <2>1, <3>1
  <2>4. b + (j + 1) \in 1..Len(s) /\ b + j < b + (j + 1) /\ b + (j + 1) <= a
    BY <1>1, <2>1, <2>3
  <2>5. e[b + j] < e[b + (j + 1)]
    BY <2>1, <2>4 DEF Picked
  <2>6. b + (j + 1) = a \/ e[b + (j + 1)] < e[a]
    BY <2>4 DEF Picked
  <2>7. e[b + (j + 1)] = e[b] + (j + 1)
    <3>1. e[b + (j + 1)] \in Nat /\ e[b] \in Nat
      BY <1>1, <2>4
    <3>2. PICK x \in Nat, y \in Nat : x = e[b + (j + 1)] /\ y = e[b]
      BY <3>1
    <3>3. y + j < x /\ (x = y + (j + 1) \/ x < y + (j + 1))
      BY <2>1, <2>2, <2>5, <2>6, <3>2
    <3>4. x = y + (j + 1)
      BY ONLY <3>3, j \in Nat, x \in Nat, y \in Nat
    <3> QED
      BY <3>2, <3>4
  <2> QED
    BY <2>4, <2>7
<1>4. G = Nat
  <2>1. 0 \in G /\ \A j \in G : j + 1 \in G
    BY <1>2, <1>3
  <2> QED
    BY <2>1, Induction
<1>5. ASSUME NEW j \in 0..t PROVE P(j)
  <2>1. j \in Nat /\ j <= t
    OBVIOUS
  <2>2. j \in G
    BY <1>4, <2>1
  <2> QED
    BY <2>1, <2>2
<1>6. ASSUME NEW j \in 0..t PROVE b + j \in 1..Len(s) /\ e[b + j] = e[b] + j
  BY <1>5, <1>6
<1> QED
  BY <1>6

\* What is picked is whole exchanges.
LEMMA PickedIsWhole ==
    ASSUME NEW m \in Seq(Message), Whole(m, 0),
           NEW s \in Seq(Message), NEW e, Picked(s, m, e)
    PROVE  Whole(s, 0)
<1> USE DEF Whole
<1>1. /\ Len(s) \in Nat /\ Len(m) \in Nat
      /\ \A a \in 1..Len(s) : e[a] \in 1..Len(m) /\ ~Outside(m, e[a]) /\ s[a] = m[e[a]]
      /\ \A i \in 1..Len(m) : ~Outside(m, i) => \E a \in 1..Len(s) : e[a] = i
  BY DEF Picked
<1>2. \A a, b \in 1..Len(s) : a < b => e[a] < e[b]
  BY DEF Picked
<1>3. \A a, b \in 1..Len(s) : e[a] < e[b] => a < b
  <2> SUFFICES ASSUME NEW a \in 1..Len(s), NEW b \in 1..Len(s), e[a] < e[b], b <= a
               PROVE  FALSE
    BY <1>1
  <2>1. a = b \/ e[b] < e[a]
    BY <1>1, <1>2
  <2>2. e[a] \in Nat /\ e[b] \in Nat
    BY <1>1
  <2> QED
    BY <2>1, <2>2
\* The call of a result that is kept is kept.
<1>4. ASSUME NEW a \in 1..Len(s), s[a].role = "tool"
      PROVE  \E b \in 1..a-1 : /\ s[b].role = "ask"
                               /\ \A l \in e[b]+1..e[a] : m[l].role = "tool"
  <2>1. e[a] \in 1..Len(m) /\ m[e[a]].role = "tool"
    BY <1>1, <1>4
  <2>2. PICK k \in 1..e[a]-1 : m[k].role = "ask" /\ \A l \in k+1..e[a] : m[l].role = "tool"
    BY <2>1 DEF ResultsFollow
  <2>3. k \in 1..Len(m) /\ Start(m, k) = k /\ Start(m, e[a]) = k
    <3>1. k \in 1..Len(m) /\ k \in 1..e[a] /\ m[k].role # "tool"
      BY <1>1, <2>1, <2>2
    <3>2. Start(m, k) = k
      BY <3>1, StartInWhole
    <3>3. Start(m, e[a]) = k
      BY <2>1, <2>2, <3>1, StartIs, SMTT(30)
    <3> QED
      BY <3>1, <3>2, <3>3
  <2>4. ~Outside(m, k)
    <3>1. ~Outside(m, e[a])
      BY <1>1
    <3> QED
      BY <2>1, <2>3, <3>1, ExchangeTogether
  <2>5. PICK b \in 1..Len(s) : e[b] = k
    BY <1>1, <2>3, <2>4
  <2>6. b < a
    BY <1>3, <2>1, <2>2, <2>5
  <2>7. s[b].role = "ask"
    BY <1>1, <2>2, <2>5
  <2> QED
    BY <2>2, <2>5, <2>6, <2>7
<1>5. ResultsFollow(s)
  <2> SUFFICES ASSUME NEW a \in 1..Len(s), s[a].role = "tool"
               PROVE  \E b \in 1..a-1 : s[b].role = "ask" /\ \A l \in b+1..a : s[l].role = "tool"
    BY DEF ResultsFollow
  <2>1. PICK b \in 1..a-1 : s[b].role = "ask" /\ \A l \in e[b]+1..e[a] : m[l].role = "tool"
    BY <1>4
  <2>2. ASSUME NEW l \in b+1..a PROVE s[l].role = "tool"
    <3>1. l \in 1..Len(s) /\ b \in 1..Len(s) /\ b < l /\ (l = a \/ l < a)
      BY <1>1, <2>1, <2>2
    <3>2. e[b] < e[l] /\ (e[l] = e[a] \/ e[l] < e[a])
      BY <1>2, <3>1
    <3>3. e[l] \in Nat /\ e[b] \in Nat /\ e[a] \in Nat
      BY <1>1, <3>1
    <3>4. e[l] \in e[b]+1..e[a]
      BY <3>2, <3>3
    <3> QED
      BY <1>1, <2>1, <3>1, <3>4, SMTT(30)
  <2> QED
    BY <2>1, <2>2
<1>6. ASSUME NEW b \in 1..Len(s), s[b].role = "ask"
      PROVE  \E t \in 0..Len(s)-b : Run(s, b, t) /\ s[b].calls = t
  <2>1. e[b] \in 1..Len(m) /\ m[e[b]].role = "ask" /\ m[e[b]] = s[b] /\ ~Outside(m, e[b])
    BY <1>1, <1>6
  <2>2. PICK t \in 0..Len(m)-e[b] : Run(m, e[b], t) /\ m[e[b]].calls = t
    BY <2>1 DEF CallsAnswered
  <2>3. \A i \in e[b]+1..e[b]+t : m[i].role = "tool"
    BY <2>2 DEF Run
  <2>4. \A i \in e[b]..e[b]+t : i \in 1..Len(m) /\ ~Outside(m, i)
    <3> SUFFICES ASSUME NEW i \in e[b]..e[b]+t PROVE i \in 1..Len(m) /\ ~Outside(m, i)
      OBVIOUS
    <3>1. i \in 1..Len(m) /\ e[b] \in 1..i
      BY <1>1, <2>1, <2>2
    <3>2. Start(m, i) = e[b] /\ Start(m, e[b]) = e[b]
      <4>1. \A l \in e[b]+1..i : m[l].role = "tool"
        BY <2>1, <2>2, <2>3, <3>1
      <4>2. m[e[b]].role # "tool"
        BY <2>1
      <4>3. Start(m, i) = e[b]
        <5>1. i \in Nat
          BY <3>1
        <5> QED
          BY <3>1, <4>1, <4>2, <5>1, StartIs
      <4>4. Start(m, e[b]) = e[b]
        BY <2>1, <4>2, StartInWhole
      <4> QED
        BY <4>3, <4>4
    <3> QED
      BY <2>1, <3>1, <3>2, ExchangeTogether
  <2>5. \A j \in 0..t : b + j \in 1..Len(s) /\ e[b + j] = e[b] + j
    <3>1. t \in Nat
      BY <1>1, <2>1, <2>2
    <3> QED
      BY ONLY <2>4, <3>1, PickedNeighbours, Picked(s, m, e), m \in Seq(Message), s \in Seq(Message),
              b \in 1..Len(s)
  <2>6. t \in Nat /\ b \in Nat /\ t \in 0..Len(s)-b
    <3>1. t \in Nat /\ b \in Nat
      BY <1>1, <2>1, <2>2
    <3>2. b + t \in 1..Len(s)
      BY <2>5, <3>1
    <3> QED
      BY <1>1, <3>1, <3>2
  <2>7. \A j \in b+1..b+t : s[j].role = "tool"
    <3> SUFFICES ASSUME NEW j \in b+1..b+t PROVE s[j].role = "tool"
      OBVIOUS
    <3>1. PICK x \in 0..t : j = b + x /\ x > 0
      <4>1. j - b \in 0..t /\ j = b + (j - b) /\ j - b > 0
        BY <2>6
      <4> QED
        BY <4>1
    <3>2. j \in 1..Len(s) /\ e[j] = e[b] + x
      BY <2>5, <3>1
    <3>3. e[b] + x \in e[b]+1..e[b]+t
      BY <2>1, <2>6, <3>1
    <3>4. s[j] = m[e[b] + x]
      BY <1>1, <3>2
    <3> QED
      BY <2>3, <3>3, <3>4
  <2>8. ASSUME b + t # Len(s), s[b + t + 1].role = "tool" PROVE FALSE
    <3> PICK n : n = b + t + 1
      OBVIOUS
    <3>1. n \in 1..Len(s) /\ n \in Nat /\ s[n].role = "tool"
      BY <1>1, <2>6, <2>8
    <3>2. PICK d \in 1..n-1 : s[d].role = "ask" /\ \A l \in e[d]+1..e[n] : m[l].role = "tool"
      BY <1>4, <3>1
    <3>3. d \in 1..Len(s) /\ d <= b + t
      BY <2>6, <3>1, <3>2
    <3>4. ~(d > b)
      <4> SUFFICES ASSUME d > b PROVE FALSE
        OBVIOUS
      <4>1. d \in b+1..b+t
        BY <2>6, <3>3
      <4> QED
        BY <2>7, <3>2, <4>1
    <3>5. d <= b
      BY <1>1, <2>6, <3>3, <3>4
    <3>6. e[d] <= e[b]
      <4>1. d = b \/ e[d] < e[b]
        BY <1>1, <1>2, <2>6, <3>3, <3>5
      <4>2. e[d] \in Nat /\ e[b] \in Nat
        BY <1>1, <3>3
      <4> QED
        BY <4>1, <4>2
    <3>7. e[b] + t < e[n] /\ e[n] <= Len(m)
      <4>1. b + t \in 1..Len(s) /\ e[b + t] = e[b] + t
        BY <2>5, <2>6
      <4>2. b + t < n
        BY <2>6
      <4>3. e[b + t] < e[n]
        BY <1>2, <3>1, <4>1, <4>2
      <4> QED
        BY <1>1, <3>1, <4>1, <4>3
    <3>8. e[b] + t + 1 \in e[d]+1..e[n]
      <4>1. e[d] \in Nat /\ e[b] \in Nat /\ e[n] \in Nat
        BY <1>1, <3>1, <3>3, SMTT(30)
      <4> QED
        BY <2>6, <3>6, <3>7, <4>1, SMTT(30)
    <3>9. m[e[b] + t + 1].role = "tool" /\ e[b] + t # Len(m)
      <4>1. e[b] \in Nat /\ e[n] \in Nat
        BY <1>1, <3>1, SMTT(30)
      <4> QED
        BY <1>1, <2>6, <3>2, <3>7, <3>8, <4>1, SMTT(30)
    <3> QED
      BY <2>2, <3>9 DEF Run
  <2>9. Run(s, b, t)
    BY <2>7, <2>8 DEF Run
  <2> QED
    BY <2>1, <2>2, <2>6, <2>9
<1>7. CallsAnswered(s, 0)
  <2> SUFFICES ASSUME NEW b \in 1..Len(s), s[b].role = "ask"
               PROVE  \E t \in 0..Len(s)-b :
                        Run(s, b, t) /\ s[b].calls = t + (IF b + t = Len(s) THEN 0 ELSE 0)
    BY DEF CallsAnswered
  <2>1. PICK t \in 0..Len(s)-b : Run(s, b, t) /\ s[b].calls = t
    BY <1>6
  <2> QED
    BY <1>1, <2>1
<1> QED
  BY <1>5, <1>7

LEMMA TrustedKeeps ==
    ASSUME NEW m \in Seq(Message), Whole(m, 0)
    PROVE  Whole(TrustedContext(m), 0)
BY TrustedPicks, PickedIsWhole

-----------------------------------------------------------------------------
(* Exchanges and labels along a turn                                       *)

\* The stored window and, for the calls still to run, the open turn hold whole
\* exchanges; the loop's label is that of the messages.
MessagesInv ==
    /\ stored \in Seq(Message) /\ Whole(stored, 0)
    /\ messages \in Seq(Message) /\ baseline \in 0..Len(messages)
    /\ derived \in BOOLEAN
    /\ mode = "idle" => queue = <<>>
    /\ mode \in {"turn", "report"} => Whole(messages, Len(queue)) /\ derived = Taint(messages)
    /\ mode \in {"idle", "yes"} => messages = <<>>
    /\ LabelsAgree
    /\ AnswersLabelled

LEMMA MessagesTyped ==
    ASSUME NEW u \in BOOLEAN
    PROVE  /\ User(u) \in Message /\ User(u).role = "user" /\ User(u).untrusted = u
           /\ Say(u) \in Message /\ Say(u).role = "say" /\ Say(u).untrusted = u
           /\ Tool(u) \in Message /\ Tool(u).role = "tool" /\ Tool(u).untrusted = u
BY BoundsAssumption DEF User, Say, Tool, Message, Role

LEMMA AskTyped ==
    ASSUME NEW n \in 1..Breadth, NEW u \in BOOLEAN
    PROVE  /\ Ask(n, u) \in Message /\ Ask(n, u).role = "ask"
           /\ Ask(n, u).calls = n /\ Ask(n, u).untrusted = u
BY BoundsAssumption DEF Ask, Message, Role

LEMMA OneMore ==
    ASSUME NEW m \in Seq(Message), NEW x
    PROVE  Len(Append(m, x)) = Len(m) + 1 /\ Len(m) \in Nat
OBVIOUS

LEMMA TwoMore ==
    ASSUME NEW m \in Seq(Message), NEW x \in Message, NEW y \in Message
    PROVE  m \o <<x, y>> = Append(Append(m, x), y)
OBVIOUS

LEMMA TaintAppend ==
    ASSUME NEW m \in Seq(Message), NEW x \in Message
    PROVE  Taint(Append(m, x)) = (Taint(m) \/ x.untrusted)
<1> PICK s : s = Append(m, x)
  OBVIOUS
<1>1. /\ Len(s) = Len(m) + 1 /\ Len(m) \in Nat /\ s[Len(m) + 1] = x
      /\ \A i \in 1..Len(m) : s[i] = m[i]
  OBVIOUS
<1>2. x.untrusted \in BOOLEAN
  BY DEF Message
<1>3. ASSUME NEW i \in 1..Len(s), s[i].untrusted PROVE Taint(m) \/ x.untrusted
  <2>1. i \in 1..Len(m) \/ i = Len(m) + 1
    BY <1>1
  <2> QED
    BY <1>1, <1>3, <2>1 DEF Taint
<1>4. ASSUME Taint(m) PROVE Taint(s)
  <2>1. PICK i \in 1..Len(m) : m[i].untrusted
    BY <1>4 DEF Taint
  <2>2. i \in 1..Len(s) /\ s[i].untrusted
    BY <1>1, <2>1
  <2> QED
    BY <2>2 DEF Taint
<1>5. ASSUME x.untrusted PROVE Taint(s)
  <2>1. Len(m) + 1 \in 1..Len(s) /\ s[Len(m) + 1].untrusted
    BY <1>1, <1>5
  <2> QED
    BY <2>1 DEF Taint
<1>6. Taint(s) <=> Taint(m) \/ x.untrusted
  BY <1>3, <1>4, <1>5 DEF Taint
<1> QED
  BY <1>2, <1>6, TaintIsBoolean

\* What follows outside text after the first b messages is labelled.
Labelled(m, b) ==
    \A i, k \in 1..Len(m) :
        i < k /\ k > b /\ m[i].untrusted /\ m[k].role \in {"say", "ask"} => m[k].untrusted

LEMMA LabelledAppend ==
    ASSUME NEW m \in Seq(Message), NEW b, Labelled(m, b), NEW x \in Message,
           x.role \in {"say", "ask"} => (Taint(m) => x.untrusted)
    PROVE  Labelled(Append(m, x), b)
<1> PICK s : s = Append(m, x)
  OBVIOUS
<1>1. /\ Len(s) = Len(m) + 1 /\ Len(m) \in Nat /\ s[Len(m) + 1] = x
      /\ \A i \in 1..Len(m) : s[i] = m[i]
  OBVIOUS
<1> SUFFICES ASSUME NEW i \in 1..Len(s), NEW k \in 1..Len(s), i < k, k > b,
                    s[i].untrusted, s[k].role \in {"say", "ask"}
             PROVE  s[k].untrusted
  BY DEF Labelled
<1>2. i \in 1..Len(m) /\ s[i] = m[i]
  BY <1>1
<1>3. CASE k \in 1..Len(m)
  BY <1>1, <1>2, <1>3 DEF Labelled
<1>4. CASE k = Len(m) + 1
  <2>1. Taint(m)
    BY <1>2 DEF Taint
  <2> QED
    BY <1>1, <1>4, <2>1
<1> QED
  BY <1>1, <1>3, <1>4

\* At the start of a turn nothing has been said in it.
LEMMA LabelledBegins ==
    ASSUME NEW m \in Seq(Message) PROVE Labelled(m, Len(m))
BY DEF Labelled

LEMMA LoadedIsWhole ==
    ASSUME MessagesInv, NEW m \in Loaded
    PROVE  m \in Seq(Message) /\ Whole(m, 0)
BY WindowKeeps DEF MessagesInv, Loaded

\* What is appended to the stored messages leaves the exchanges whole.
LEMMA AppendsKeeps ==
    ASSUME NEW list \in Seq(Message), Whole(list, 0),
           NEW x \in Message, x.role \in {"user", "say"},
           NEW y \in Message, y.role \in {"user", "say"},
           NEW new \in {<<>>, <<x>>, <<x, y>>},
           NEW old \in 0..Len(list), Appends(list, new, old)
    PROVE  (stored \in Seq(Message) /\ Whole(stored, 0))'
<1> PICK w : w = stored'
  OBVIOUS
<1>1. Append(list, x) \in Seq(Message) /\ Whole(Append(list, x), 0)
  BY PlainKeeps
<1>2. Append(Append(list, x), y) \in Seq(Message) /\ Whole(Append(Append(list, x), y), 0)
  BY <1>1, PlainKeeps
<1>3. PICK s : s = list \o new
  OBVIOUS
<1>4. s \in {list, Append(list, x), Append(Append(list, x), y)}
  <2>1. CASE new = <<>>
    <3>1. list \o <<>> = list
      OBVIOUS
    <3> QED
      BY <1>3, <2>1, <3>1
  <2>2. CASE new = <<x>>
    <3>1. list \o <<x>> = Append(list, x)
      OBVIOUS
    <3> QED
      BY <1>3, <2>2, <3>1
  <2>3. CASE new = <<x, y>>
    BY <1>3, <2>3, TwoMore
  <2> QED
    BY <2>1, <2>2, <2>3
<1>5. s \in Seq(Message) /\ Whole(s, 0) /\ old \in 0..Len(s)
  <2>1. s \in Seq(Message) /\ Whole(s, 0)
    BY <1>1, <1>2, <1>4
  <2>2. Len(s) \in {Len(list), Len(list) + 1, Len(list) + 2} /\ Len(list) \in Nat
    <3>1. Len(Append(list, x)) = Len(list) + 1 /\ Len(list) \in Nat
      OBVIOUS
    <3>2. Len(Append(Append(list, x), y)) = Len(list) + 2
      BY <1>1, <3>1
    <3> QED
      BY <1>4, <3>1, <3>2
  <2>3. old \in 0..Len(s)
    BY <2>2
  <2> QED
    BY <2>1, <2>3
<1>6. w = Window(s, old)
  BY <1>3 DEF Appends
<1>7. w \in Seq(Message) /\ Whole(w, 0)
  BY <1>5, <1>6, WindowKeeps
<1> QED
  BY <1>7

\* Nobody thinks or calls: only the stored messages matter.
LEMMA IdleKeeps ==
    ASSUME MessagesInv, (stored \in Seq(Message) /\ Whole(stored, 0))',
           mode' \in {"idle", "yes"}, messages' = <<>>, baseline' = 0, derived' \in BOOLEAN,
           mode' = "idle" => queue' = <<>>
    PROVE  MessagesInv'
BY DEF MessagesInv, LabelsAgree, AnswersLabelled

\* Someone else works: the open turn stays as it is.
LEMMA OthersKeep ==
    ASSUME MessagesInv, UNCHANGED <<stored, mode, messages, baseline, queue, derived, surface>>
    PROVE  MessagesInv'
BY DEF MessagesInv, LabelsAgree, AnswersLabelled, Taint

\* The loop goes on with messages that are whole and labelled.
LEMMA LoopKeeps ==
    ASSUME MessagesInv, mode \in {"turn", "report"}, UNCHANGED <<stored, mode, baseline>>,
           NEW m \in Seq(Message), NEW q, NEW d \in BOOLEAN,
           messages' = m, queue' = q, derived' = d,
           Len(m) >= Len(messages), Whole(m, Len(q)), d = Taint(m), Labelled(m, baseline),
           mode = "turn" => surface'.tainted = d,
           mode = "report" => surface'.fetched = d
    PROVE  MessagesInv'
<1>1. Whole(messages, Len(queue))'
  <2>1. Whole(m, Len(q))
    OBVIOUS
  <2> QED
    BY <2>1
<1>2. (derived = Taint(messages))'
  <2>1. d = Taint(m)
    OBVIOUS
  <2> QED
    BY <2>1
<1>3. AnswersLabelled'
  BY DEF AnswersLabelled, Labelled
<1>4. LabelsAgree'
  BY <1>2 DEF LabelsAgree
<1>5. baseline' \in 0..Len(messages')
  BY DEF MessagesInv
<1> QED
  BY <1>1, <1>2, <1>3, <1>4, <1>5 DEF MessagesInv

LEMMA BeginsKeeps ==
    ASSUME MessagesInv, NEW m \in Seq(Message), Whole(m, 0), NEW w \in Seq(Message), Whole(w, 0),
           NEW what \in {"turn", "report"}, Begins(what, m), stored' = w,
           what = "turn" => surface'.tainted = Taint(m),
           what = "report" => surface'.fetched = Taint(m)
    PROVE  MessagesInv'
<1> PICK s : s = Append(m, User(FALSE))
  OBVIOUS
<1>1. /\ mode = "idle" /\ mode' = what /\ messages' = s /\ baseline' = Len(m)
      /\ derived' = Taint(m) /\ queue' = <<>>
  BY DEF Begins, MessagesInv
<1>0. User(FALSE) \in Message /\ User(FALSE).role = "user" /\ User(FALSE).untrusted = FALSE
  BY MessagesTyped
<1>2. s \in Seq(Message) /\ Whole(s, 0) /\ Len(s) = Len(m) + 1
  BY <1>0, PlainKeeps, OneMore
<1>3. Taint(s) = Taint(m)
  <2>1. Taint(s) = (Taint(m) \/ FALSE)
    BY <1>0, TaintAppend
  <2> QED
    BY <2>1, TaintIsBoolean
<1>4. Labelled(s, Len(m))
  BY MessagesTyped, LabelledBegins, LabelledAppend
<1>5. Whole(messages, Len(queue))'
  <2>1. Len(<<>>) = 0
    OBVIOUS
  <2>2. PICK z : z = queue'
    OBVIOUS
  <2>3. Whole(s, Len(z))
    BY <1>1, <1>2, <2>1, <2>2
  <2> QED
    BY <1>1, <2>2, <2>3
<1>6. (derived = Taint(messages))'
  BY <1>1, <1>3
<1>7. AnswersLabelled'
  BY <1>1, <1>4 DEF AnswersLabelled, Labelled
<1>8. LabelsAgree'
  <2>1. derived' = Taint(s) /\ messages' = s
    BY <1>1, <1>3
  <2>2. mode' = "turn" => surface'.tainted = derived'
    BY <1>1
  <2>3. mode' = "report" => surface'.fetched = derived'
    BY <1>1
  <2> QED
    BY <1>6, <2>2, <2>3 DEF LabelsAgree
<1>9. baseline' \in 0..Len(messages') /\ derived' \in BOOLEAN
  BY <1>1, <1>2, TaintIsBoolean
<1> QED
  BY <1>1, <1>2, <1>5, <1>6, <1>7, <1>8, <1>9 DEF MessagesInv

LEMMA StartTurnKeeps == MessagesInv /\ StartTurn => MessagesInv'
<1> SUFFICES ASSUME MessagesInv, StartTurn PROVE MessagesInv'
  OBVIOUS
<1>1. PICK m \in Loaded :
          Begins("turn", m) /\ stored' = m /\ surface' = NewSurface(Taint(m))
  BY DEF StartTurn
<1>2. m \in Seq(Message) /\ Whole(m, 0)
  BY LoadedIsWhole
<1>3. surface'.tainted = Taint(m)
  BY <1>1 DEF NewSurface
<1> QED
  BY <1>1, <1>2, <1>3, BeginsKeeps

LEMMA StartReportKeeps == MessagesInv /\ StartReport => MessagesInv'
<1> SUFFICES ASSUME MessagesInv, StartReport PROVE MessagesInv'
  OBVIOUS
<1>1. PICK w \in Loaded :
          Begins("report", TrustedContext(w)) /\ stored' = w /\ surface' = NewSurface(Taint(w))
  BY DEF StartReport
<1>2. w \in Seq(Message) /\ Whole(w, 0)
  BY LoadedIsWhole
<1>3. PICK m : m = TrustedContext(w)
  OBVIOUS
<1>4. m \in Seq(Message) /\ Whole(m, 0) /\ Taint(m) = FALSE
  BY <1>2, <1>3, TrustedIsClean, TrustedKeeps
<1>5. surface'.fetched = Taint(m)
  BY <1>1, <1>4 DEF NewSurface
<1>6. Begins("report", m)
  BY <1>1, <1>3
<1> QED
  BY <1>1, <1>2, <1>4, <1>5, <1>6, BeginsKeeps

LEMMA AsksKeeps == Typing /\ MessagesInv /\ Asks => MessagesInv'
<1> SUFFICES ASSUME Typing, MessagesInv, Asks PROVE MessagesInv'
  OBVIOUS
<1>1. PICK n \in 1..Breadth :
          queue' \in [1..n -> Asked] /\ messages' = Append(messages, Ask(n, derived))
  BY DEF Asks
<1> PICK m, q : m = messages' /\ q = queue'
  OBVIOUS
<1>2. /\ mode \in {"turn", "report"} /\ queue = <<>> /\ n \in Nat
      /\ UNCHANGED <<stored, mode, baseline, derived, surface>>
  BY BoundsAssumption DEF Asks, Thinking
<1>3. /\ messages \in Seq(Message) /\ Whole(messages, 0)
      /\ derived = Taint(messages) /\ derived \in BOOLEAN /\ Labelled(messages, baseline)
  <2>1. Len(queue) = 0
    BY <1>2
  <2> QED
    BY <1>2, <2>1 DEF MessagesInv, AnswersLabelled, Labelled
<1>4. /\ Ask(n, derived) \in Message /\ Ask(n, derived).role = "ask"
      /\ Ask(n, derived).calls = n /\ Ask(n, derived).untrusted = derived
  BY <1>3, AskTyped
<1>5. m \in Seq(Message) /\ Whole(m, n) /\ Len(m) = Len(messages) + 1
  BY <1>1, <1>2, <1>3, <1>4, AskKeeps
<1>6. Taint(m) = derived
  BY <1>1, <1>3, <1>4, TaintAppend
<1>7. Labelled(m, baseline)
  BY <1>1, <1>3, <1>4, LabelledAppend
<1>8. Len(q) = n
  BY <1>1, <1>2
<1>9. /\ mode = "turn" => surface'.tainted = derived
      /\ mode = "report" => surface'.fetched = derived
  BY <1>2 DEF MessagesInv, LabelsAgree
<1>10. Len(m) >= Len(messages)
  BY <1>3, <1>5
<1> QED
  BY <1>2, <1>3, <1>5, <1>6, <1>7, <1>8, <1>9, <1>10, LoopKeeps

\* A call is answered, with the label of what the tool returned.
LEMMA AnswersKeep ==
    ASSUME Typing, MessagesInv, Calling, NEW u \in BOOLEAN, Answers(u),
           mode = "turn" => surface'.tainted = (surface.tainted \/ u),
           mode = "report" => surface'.fetched = (surface.fetched \/ u)
    PROVE  MessagesInv'
<1> PICK m, q, d : m = messages' /\ q = queue' /\ d = derived'
  OBVIOUS
<1>1. /\ mode \in {"turn", "report"} /\ queue # <<>> /\ UNCHANGED <<stored, mode, baseline>>
      /\ m = Append(messages, Tool(u)) /\ q = Tail(queue) /\ d = (derived \/ u)
  BY DEF Calling, Answers, Derives
<1>2. Len(q) \in Nat /\ Len(queue) = Len(q) + 1
  BY <1>1 DEF Typing
<1>3. /\ messages \in Seq(Message) /\ Whole(messages, Len(q) + 1)
      /\ derived = Taint(messages) /\ derived \in BOOLEAN /\ Labelled(messages, baseline)
  BY <1>1, <1>2 DEF MessagesInv, AnswersLabelled, Labelled
<1>4. Tool(u) \in Message /\ Tool(u).role = "tool" /\ Tool(u).untrusted = u
  BY MessagesTyped
<1>5. m \in Seq(Message) /\ Whole(m, Len(q)) /\ Len(m) = Len(messages) + 1
  BY <1>1, <1>2, <1>3, <1>4, ResultKeeps
<1>6. d = Taint(m) /\ d \in BOOLEAN
  BY <1>1, <1>3, <1>4, TaintAppend
<1>7. Labelled(m, baseline)
  BY <1>1, <1>3, <1>4, LabelledAppend
<1>8. /\ mode = "turn" => surface'.tainted = d
      /\ mode = "report" => surface'.fetched = d
  BY <1>1 DEF MessagesInv, LabelsAgree
<1>9. Len(m) >= Len(messages)
  BY <1>3, <1>5
<1> QED
  BY <1>1, <1>5, <1>6, <1>7, <1>8, <1>9, LoopKeeps

\* What a call that reads no outside text does to the labels of the surface.
LEMMA SameLabels ==
    ASSUME Typing, surface'.tainted = surface.tainted, surface'.fetched = surface.fetched
    PROVE  /\ surface'.tainted = (surface.tainted \/ FALSE)
           /\ surface'.fetched = (surface.fetched \/ FALSE)
BY DEF Typing, Surface

LEMMA CallsKeep == Typing /\ MessagesInv /\ (Refuse \/ Stage \/ Remind \/ Read) => MessagesInv'
<1> SUFFICES ASSUME Typing, MessagesInv, Refuse \/ Stage \/ Remind \/ Read PROVE MessagesInv'
  OBVIOUS
<1>1. CASE Refuse
  <2>1. Calling /\ Answers(FALSE) /\ surface' = surface
    BY <1>1 DEF Refuse
  <2> QED
    BY <2>1, SameLabels, AnswersKeep
<1>2. CASE Stage
  <2>1. Calling /\ Answers(FALSE)
    BY <1>2 DEF Stage
  <2>2. surface'.tainted = surface.tainted /\ surface'.fetched = surface.fetched
    BY <1>2 DEF Stage, Typing, Surface
  <2> QED
    BY <2>1, <2>2, SameLabels, AnswersKeep
<1>3. CASE Remind
  <2>1. Calling /\ Answers(FALSE)
    BY <1>3 DEF Remind
  <2>2. surface'.tainted = surface.tainted /\ surface'.fetched = surface.fetched
    BY <1>3 DEF Remind, Typing, Surface
  <2> QED
    BY <2>1, <2>2, SameLabels, AnswersKeep
<1>4. CASE Read
  <2> PICK u : u = (Head(queue).tool \in Untrusted)
    OBVIOUS
  <2>1. Calling /\ Answers(u) /\ u \in BOOLEAN
    BY <1>4 DEF Read
  <2>2. surface'.tainted = (surface.tainted \/ u) /\ surface'.fetched = (surface.fetched \/ u)
    BY <1>4 DEF Read, Reads, Typing, Surface
  <2> QED
    BY <2>1, <2>2, AnswersKeep
<1> QED
  BY <1>1, <1>2, <1>3, <1>4

LEMMA LookAgainKeeps == Typing /\ MessagesInv /\ LookAgain => MessagesInv'
<1> SUFFICES ASSUME Typing, MessagesInv, LookAgain PROVE MessagesInv'
  OBVIOUS
<1> PICK s, m, d, q : /\ s = Append(messages, Say(derived)) /\ m = Append(s, User(FALSE))
                      /\ d = derived' /\ q = queue'
  OBVIOUS
<1>1. /\ mode = "report" /\ queue = <<>> /\ q = <<>>
      /\ UNCHANGED <<stored, mode, baseline, surface>>
      /\ messages' = messages \o <<Say(derived), User(FALSE)>> /\ d = Taint(messages')
  BY DEF LookAgain
<1>2. /\ messages \in Seq(Message) /\ Whole(messages, 0)
      /\ derived = Taint(messages) /\ derived \in BOOLEAN /\ Labelled(messages, baseline)
  <2>1. Len(queue) = 0
    BY <1>1
  <2> QED
    BY <1>1, <2>1 DEF MessagesInv, AnswersLabelled, Labelled
<1>3. /\ Say(derived) \in Message /\ Say(derived).role = "say" /\ Say(derived).untrusted = derived
      /\ User(FALSE) \in Message /\ User(FALSE).role = "user" /\ User(FALSE).untrusted = FALSE
  BY <1>2, MessagesTyped
<1>4. s \in Seq(Message) /\ Whole(s, 0) /\ Taint(s) = derived /\ Labelled(s, baseline)
      /\ Len(s) = Len(messages) + 1
  <2>1. s \in Seq(Message) /\ Whole(s, 0)
    BY <1>2, <1>3, PlainKeeps
  <2>2. Taint(s) = derived
    BY <1>2, <1>3, TaintAppend
  <2>3. Labelled(s, baseline)
    BY <1>2, <1>3, LabelledAppend
  <2> QED
    BY <1>2, <2>1, <2>2, <2>3
<1>5. m \in Seq(Message) /\ Whole(m, 0) /\ Taint(m) = derived /\ Labelled(m, baseline)
      /\ Len(m) = Len(s) + 1
  <2>1. m \in Seq(Message) /\ Whole(m, 0)
    BY <1>3, <1>4, PlainKeeps
  <2>2. Taint(m) = derived
    BY <1>2, <1>3, <1>4, TaintAppend
  <2>3. Labelled(m, baseline)
    BY <1>3, <1>4, LabelledAppend
  <2> QED
    BY <1>4, <2>1, <2>2, <2>3, OneMore
<1>6. messages' = m
  <2>1. messages \o <<Say(derived), User(FALSE)>> = Append(Append(messages, Say(derived)), User(FALSE))
    BY <1>2, <1>3, TwoMore
  <2> QED
    BY <1>1, <2>1
<1>7. d = Taint(m) /\ d \in BOOLEAN
  BY <1>1, <1>2, <1>5, <1>6
<1>8. surface'.fetched = d
  BY <1>1, <1>5, <1>7 DEF MessagesInv, LabelsAgree
<1>9. Len(m) >= Len(messages) /\ Len(q) = 0
  BY <1>1, <1>2, <1>4, <1>5
<1> QED
  BY <1>1, <1>5, <1>6, <1>7, <1>8, <1>9, LoopKeeps

LEMMA TurnAnswersKeeps == Typing /\ MessagesInv /\ TurnAnswers => MessagesInv'
<1> SUFFICES ASSUME Typing, MessagesInv, TurnAnswers PROVE MessagesInv'
  OBVIOUS
<1> PICK said, x : said = Append(messages, Say(derived)) /\ x = Say(surface.tainted)
  OBVIOUS
<1>1. mode = "turn" /\ queue = <<>> /\ Over
  BY DEF TurnAnswers
<1>2. /\ messages \in Seq(Message) /\ Whole(messages, 0) /\ derived \in BOOLEAN
      /\ baseline \in 0..Len(messages) /\ Len(messages) \in Nat
  <2>1. Len(queue) = 0
    BY <1>1
  <2> QED
    BY <1>1, <2>1 DEF MessagesInv
<1>3. said \in Seq(Message) /\ Whole(said, 0) /\ Len(said) = Len(messages) + 1
  BY <1>2, MessagesTyped, PlainKeeps
<1>4. x \in Message /\ x.role \in {"user", "say"}
  <2>1. surface.tainted \in BOOLEAN
    BY DEF Typing, Surface
  <2> QED
    BY <2>1, MessagesTyped
<1>5. PICK old \in 0..baseline, new \in {<<>>, <<x>>} : Appends(said, new, old)
  BY DEF TurnAnswers
<1>6. old \in 0..Len(said)
  BY <1>2, <1>3
<1>7. (stored \in Seq(Message) /\ Whole(stored, 0))'
  <2>1. new \in {<<>>, <<x>>, <<x, x>>}
    BY <1>5
  <2> QED
    BY <1>3, <1>4, <1>5, <1>6, <2>1, AppendsKeeps
<1> QED
  BY <1>1, <1>7, IdleKeeps DEF Over

\* Something short is appended to the stored messages, outside a turn.
LEMMA StoredGrows ==
    ASSUME MessagesInv, NEW new, NEW old \in 0..Len(stored), Appends(stored, new, old),
           NEW x \in Message, x.role \in {"user", "say"},
           NEW y \in Message, y.role \in {"user", "say"},
           new \in {<<x>>, <<x, y>>}
    PROVE  (stored \in Seq(Message) /\ Whole(stored, 0))'
<1>1. stored \in Seq(Message) /\ Whole(stored, 0)
  BY DEF MessagesInv
<1>2. new \in {<<>>, <<x>>, <<x, y>>}
  OBVIOUS
<1> QED
  BY <1>1, <1>2, AppendsKeeps

LEMMA MessagesNext == Typing /\ MessagesInv /\ [Next]_vars => MessagesInv'
<1> SUFFICES ASSUME Typing, MessagesInv, [Next]_vars PROVE MessagesInv'
  OBVIOUS
<1>1. /\ mode \in {"idle", "yes"} => messages = <<>> /\ baseline = 0
      /\ stored \in Seq(Message) /\ Whole(stored, 0) /\ derived \in BOOLEAN
      /\ mode = "idle" => queue = <<>>
  BY DEF MessagesInv
<1>2. CASE Confirm
  <2>1. PICK m \in Loaded :
            mode = "idle" /\ mode' = "yes" /\ stored' = m /\ UNCHANGED <<messages, baseline, derived>>
    BY <1>2 DEF Confirm
  <2>2. m \in Seq(Message) /\ Whole(m, 0)
    BY LoadedIsWhole
  <2>3. (stored \in Seq(Message) /\ Whole(stored, 0))'
    BY <2>1, <2>2
  <2> QED
    BY <1>1, <2>1, <2>3, IdleKeeps
<1>3. CASE Discard
  <2>1. PICK old \in 0..Len(stored) : Appends(stored, <<User(FALSE), Say(FALSE)>>, old)
    BY <1>3 DEF Discard
  <2>2. (stored \in Seq(Message) /\ Whole(stored, 0))'
    BY <2>1, MessagesTyped, StoredGrows
  <2> QED
    BY <1>1, <1>3, <2>2, IdleKeeps DEF Discard, loop
<1>4. CASE Summary
  <2>1. PICK old \in 0..Len(stored) : Appends(stored, <<User(FALSE), Say(surface.tainted)>>, old)
    BY <1>4 DEF Summary
  <2>2. surface.tainted \in BOOLEAN
    BY DEF Typing, Surface
  <2>3. (stored \in Seq(Message) /\ Whole(stored, 0))'
    BY <2>1, <2>2, MessagesTyped, StoredGrows
  <2> QED
    BY <1>4, <2>3, IdleKeeps DEF Summary, Over
<1>5. CASE Arrives
  <2>1. PICK e \in {Say(TRUE), Say(FALSE), User(TRUE)}, old \in 0..Len(stored) : Appends(stored, <<e>>, old)
    BY <1>5 DEF Arrives
  <2>2. e \in Message /\ e.role \in {"user", "say"}
    BY MessagesTyped
  <2>3. (stored \in Seq(Message) /\ Whole(stored, 0))'
    BY <2>1, <2>2, StoredGrows
  <2> QED
    BY <1>1, <1>5, <2>3, IdleKeeps DEF Arrives, loop
<1>6. CASE TurnFails \/ ReportAnswers
  <2>1. Over /\ stored' = stored
    BY <1>6 DEF TurnFails, ReportAnswers
  <2>2. (stored \in Seq(Message) /\ Whole(stored, 0))'
    BY <1>1, <2>1
  <2> QED
    BY <2>1, <2>2, IdleKeeps DEF Over
<1>7. CASE CommitCall
  <2>1. /\ mode = "yes" /\ UNCHANGED <<stored, mode, messages, baseline, derived>>
    BY <1>7 DEF CommitCall
  <2>2. (stored \in Seq(Message) /\ Whole(stored, 0))'
    BY <1>1, <2>1
  <2> QED
    BY <1>1, <2>1, <2>2, IdleKeeps
<1>8. CASE \E n \in Names : JobEnds(n)
  BY <1>8, OthersKeep DEF JobEnds, loop
<1>9. CASE Expire
  BY <1>9, OthersKeep DEF Expire, loop
<1>10. CASE UNCHANGED vars
  BY <1>10, OthersKeep DEF vars, loop
<1> QED
  BY <1>2, <1>3, <1>4, <1>5, <1>6, <1>7, <1>8, <1>9, <1>10, StartTurnKeeps, StartReportKeeps,
     AsksKeeps, CallsKeep, LookAgainKeeps, TurnAnswersKeeps DEF Next, Loop, Ends

LEMMA MessagesInit == Init => MessagesInv
<1> SUFFICES ASSUME Init PROVE MessagesInv
  OBVIOUS
<1>1. /\ stored = <<>> /\ messages = <<>> /\ baseline = 0 /\ mode = "idle" /\ queue = <<>>
      /\ derived = FALSE
  BY DEF Init, NoLoop
<1>2. stored \in Seq(Message) /\ Whole(stored, 0)
  BY <1>1, EmptyIsWhole
<1>3. messages \in Seq(Message) /\ Len(messages) = 0 /\ baseline \in 0..Len(messages)
  BY <1>1
<1>4. LabelsAgree /\ AnswersLabelled
  BY <1>1, <1>3 DEF LabelsAgree, AnswersLabelled
<1> QED
  BY <1>1, <1>2, <1>3, <1>4 DEF MessagesInv

\* In every state the messages are whole exchanges, and their labels agree.
THEOREM Messages == Spec => []MessagesInv
<1>1. Init => MessagesInv
  BY MessagesInit
<1>2. Typing /\ MessagesInv /\ [Next]_vars => MessagesInv'
  BY MessagesNext
<1> QED
  BY <1>1, <1>2, Typed, PTL DEF Spec

\* No exchange is split, wherever the window is cut, in the stored messages, in what
\* a report is shown and in the open turn (apply_window, trusted_context, run_turn).
THEOREM Exchanges == Spec => []ExchangesWhole
<1>1. Typing /\ MessagesInv => ExchangesWhole
  <2> SUFFICES ASSUME Typing, MessagesInv PROVE ExchangesWhole
    OBVIOUS
  <2>1. Paired(stored, 0)
    BY WholeIsPaired DEF MessagesInv
  <2>2. Paired(messages, Len(queue))
    <3>1. CASE mode \in {"turn", "report"}
      <4>1. Len(queue) \in Nat /\ messages \in Seq(Message) /\ Whole(messages, Len(queue))
        BY <3>1 DEF Typing, MessagesInv
      <4> QED
        BY <4>1, WholeIsPaired
    <3>2. CASE mode \in {"idle", "yes"}
      <4>1. messages = <<>>
        BY <3>2 DEF MessagesInv
      <4> QED
        BY <4>1 DEF Paired
    <3> QED
      BY <3>1, <3>2 DEF Typing
  <2> QED
    BY <2>1, <2>2 DEF ExchangesWhole
<1> QED
  BY <1>1, Typed, Messages, PTL

\* The loop's label of outside text, the broker's and the messages' own agree, and a
\* report begins without any (run_turn, BoundSurface, trusted_context).
THEOREM LabelsOfTurns == Spec => []LabelsAgree
<1>1. MessagesInv => LabelsAgree
  BY DEF MessagesInv
<1> QED
  BY <1>1, Messages, PTL

\* What follows outside text in a turn carries its label (run_turn).
THEOREM AnswersCarryLabels == Spec => []AnswersLabelled
<1>1. MessagesInv => AnswersLabelled
  BY DEF MessagesInv
<1> QED
  BY <1>1, Messages, PTL

-----------------------------------------------------------------------------
(* Rounds                                                                  *)

AsksSince(m, b) == {i \in b+1..Len(m) : m[i].role = "ask"}

\* A round is counted for each completion that asked, from zero again after the
\* one time a report is sent back.
RoundsInv ==
    /\ rounds \in 0..MaxRounds /\ nudged \in BOOLEAN
    /\ \A p, q \in prop : p = q
    /\ Cardinality(AsksSince(messages, baseline)) <= rounds + (IF nudged THEN MaxRounds ELSE 0)

LEMMA AsksFinite ==
    ASSUME NEW m \in Seq(Message), NEW b \in Nat
    PROVE  IsFiniteSet(AsksSince(m, b)) /\ Cardinality(AsksSince(m, b)) \in Nat
<1>1. IsFiniteSet(b+1..Len(m))
  BY FS_Interval
<1>2. IsFiniteSet(AsksSince(m, b))
  BY <1>1, FS_Subset DEF AsksSince
<1> QED
  BY <1>2, FS_CardinalityType

LEMMA NoAsks ==
    ASSUME NEW m, NEW b, AsksSince(m, b) = {}
    PROVE  Cardinality(AsksSince(m, b)) = 0
BY FS_EmptySet

LEMMA NoneYet ==
    ASSUME NEW r \in 0..MaxRounds, NEW n \in BOOLEAN
    PROVE  0 <= r + (IF n THEN MaxRounds ELSE 0)
<1>1. r \in Nat /\ MaxRounds \in Nat
  BY BoundsAssumption
<1> QED
  BY <1>1

LEMMA AsksAppend ==
    ASSUME NEW m \in Seq(Message), NEW b \in 0..Len(m), NEW x \in Message
    PROVE  /\ Cardinality(AsksSince(Append(m, x), b)) <= Cardinality(AsksSince(m, b)) + 1
           /\ x.role # "ask" => Cardinality(AsksSince(Append(m, x), b)) = Cardinality(AsksSince(m, b))
<1> PICK A, B : A = AsksSince(m, b) /\ B = AsksSince(Append(m, x), b)
  OBVIOUS
<1>1. IsFiniteSet(A) /\ Cardinality(A) \in Nat
  BY AsksFinite
<1> PICK s : s = Append(m, x)
  OBVIOUS
<1>2. /\ Len(s) = Len(m) + 1 /\ Len(m) \in Nat /\ s[Len(m) + 1] = x
      /\ \A i \in 1..Len(m) : s[i] = m[i]
  OBVIOUS
<1>3. CASE x.role = "ask"
  <2>1. B = A \cup {Len(m) + 1}
    BY <1>2, <1>3 DEF AsksSince
  <2>2. Cardinality(B) = Cardinality(A) \/ Cardinality(B) = Cardinality(A) + 1
    BY <1>1, <2>1, FS_AddElement, ZenonT(30)
  <2> QED
    BY <1>1, <1>3, <2>2
<1>4. CASE x.role # "ask"
  <2>1. B = A
    BY <1>2, <1>4 DEF AsksSince
  <2> QED
    BY <1>1, <2>1
<1> QED
  BY <1>3, <1>4

\* The messages, the rounds and the proposal stay as they are, or there are none.
LEMMA RoundsStay ==
    ASSUME RoundsInv, UNCHANGED <<messages, baseline, rounds, nudged>>, prop' = prop \/ prop' = {}
    PROVE  RoundsInv'
BY DEF RoundsInv, AsksSince

LEMMA RoundsOver ==
    ASSUME Over, prop' = prop \/ prop' = {} \/ \E p : prop' = {p}, RoundsInv
    PROVE  RoundsInv'
<1>1. messages' = <<>> /\ baseline' = 0 /\ rounds' = 0 /\ nudged' = FALSE
  BY DEF Over
<1>2. AsksSince(messages, baseline)' = {}
  BY <1>1 DEF AsksSince
<1>3. Cardinality(AsksSince(messages, baseline))' = 0
  BY <1>2, FS_EmptySet
<1>4. rounds' \in 0..MaxRounds
  BY <1>1, BoundsAssumption
<1>5. (\A p, q \in prop : p = q)'
  BY DEF RoundsInv
<1>6. (Cardinality(AsksSince(messages, baseline)) <= rounds + (IF nudged THEN MaxRounds ELSE 0))'
  BY <1>1, <1>3, <1>4, NoneYet
<1> QED
  BY <1>1, <1>4, <1>5, <1>6 DEF RoundsInv

LEMMA RoundsBegin ==
    ASSUME RoundsInv, NEW what, NEW m \in Seq(Message), Begins(what, m)
    PROVE  RoundsInv'
<1> PICK s : s = Append(m, User(FALSE))
  OBVIOUS
<1>1. User(FALSE) \in Message /\ User(FALSE).role = "user"
  BY MessagesTyped
<1>2. messages' = s /\ baseline' = Len(m) /\ UNCHANGED <<rounds, nudged, prop>>
  BY DEF Begins
<1>3. AsksSince(m, Len(m)) = {}
  BY DEF AsksSince
<1>4. Cardinality(AsksSince(m, Len(m))) = 0 /\ Len(m) \in 0..Len(m)
  BY <1>3, FS_EmptySet
<1>5. Cardinality(AsksSince(s, Len(m))) = 0
  BY <1>1, <1>4, AsksAppend
<1>6. Cardinality(AsksSince(messages, baseline))' = 0
  BY <1>2, <1>5 DEF AsksSince
<1>7. (Cardinality(AsksSince(messages, baseline)) <= rounds + (IF nudged THEN MaxRounds ELSE 0))'
  BY <1>2, <1>6, NoneYet DEF RoundsInv
<1> QED
  BY <1>2, <1>7 DEF RoundsInv

\* One message more.
LEMMA RoundsGrow ==
    ASSUME RoundsInv, messages \in Seq(Message), baseline \in 0..Len(messages),
           NEW x \in Message, messages' = Append(messages, x),
           UNCHANGED <<baseline, nudged, prop>>,
           IF x.role = "ask" THEN WithinCap /\ Counts ELSE rounds' = rounds
    PROVE  RoundsInv'
<1> PICK s, c, d : /\ s = Append(messages, x)
                   /\ c = Cardinality(AsksSince(messages, baseline))
                   /\ d = Cardinality(AsksSince(s, baseline))
  OBVIOUS
<1>1. s \in Seq(Message) /\ baseline \in Nat
  OBVIOUS
<1>2. c \in Nat /\ d \in Nat /\ d <= c + 1 /\ (x.role # "ask" => d = c)
  BY <1>1, AsksFinite, AsksAppend
<1>3. Cardinality(AsksSince(messages, baseline))' = d
  BY DEF AsksSince
<1>4. rounds \in 0..MaxRounds /\ nudged \in BOOLEAN /\ c <= rounds + (IF nudged THEN MaxRounds ELSE 0)
  BY DEF RoundsInv
<1>5. rounds' \in 0..MaxRounds /\ d <= rounds' + (IF nudged THEN MaxRounds ELSE 0)
  <2>1. CASE x.role = "ask"
    BY <1>2, <1>4, <2>1, BoundsAssumption DEF WithinCap, Counts
  <2>2. CASE x.role # "ask"
    BY <1>2, <1>4, <2>2, BoundsAssumption
  <2> QED
    BY <2>1, <2>2
<1> QED
  BY <1>3, <1>4, <1>5 DEF RoundsInv

LEMMA RoundsLookAgain == MessagesInv /\ RoundsInv /\ LookAgain => RoundsInv'
<1> SUFFICES ASSUME MessagesInv, RoundsInv, LookAgain PROVE RoundsInv'
  OBVIOUS
<1> PICK s, m : s = Append(messages, Say(derived)) /\ m = Append(s, User(FALSE))
  OBVIOUS
<1>1. /\ ~nudged /\ nudged' = TRUE /\ rounds' = 0 /\ UNCHANGED <<baseline, prop>>
      /\ messages' = messages \o <<Say(derived), User(FALSE)>>
  BY DEF LookAgain
<1>2. messages \in Seq(Message) /\ baseline \in 0..Len(messages) /\ derived \in BOOLEAN
  BY DEF MessagesInv
<1>3. /\ Say(derived) \in Message /\ Say(derived).role = "say"
      /\ User(FALSE) \in Message /\ User(FALSE).role = "user"
  BY <1>2, MessagesTyped
<1>4. s \in Seq(Message) /\ baseline \in 0..Len(s)
  <2>1. Len(s) = Len(messages) + 1 /\ Len(messages) \in Nat
    BY <1>2, OneMore
  <2> QED
    BY <1>2, <1>3, <2>1
<1>5. messages' = m
  BY <1>1, <1>2, <1>3, TwoMore
<1>6. Cardinality(AsksSince(m, baseline)) = Cardinality(AsksSince(messages, baseline))
  <2>1. Cardinality(AsksSince(s, baseline)) = Cardinality(AsksSince(messages, baseline))
    BY <1>2, <1>3, AsksAppend
  <2>2. Cardinality(AsksSince(m, baseline)) = Cardinality(AsksSince(s, baseline))
    BY <1>3, <1>4, AsksAppend
  <2> QED
    BY <2>1, <2>2
<1>7. Cardinality(AsksSince(messages, baseline))' = Cardinality(AsksSince(messages, baseline))
  BY <1>1, <1>5, <1>6 DEF AsksSince
<1>8. Cardinality(AsksSince(messages, baseline)) \in Nat
  BY <1>2, AsksFinite
<1>9. Cardinality(AsksSince(messages, baseline)) <= MaxRounds
  BY <1>1, <1>8, BoundsAssumption DEF RoundsInv
<1> QED
  BY <1>1, <1>7, <1>8, <1>9, BoundsAssumption DEF RoundsInv

LEMMA RoundsNext == MessagesInv /\ RoundsInv /\ [Next]_vars => RoundsInv'
<1> SUFFICES ASSUME MessagesInv, RoundsInv, [Next]_vars PROVE RoundsInv'
  OBVIOUS
<1>1. messages \in Seq(Message) /\ baseline \in 0..Len(messages) /\ derived \in BOOLEAN
  BY DEF MessagesInv
<1>2. CASE StartTurn \/ StartReport
  <2>1. PICK m \in Loaded, what \in {"turn", "report"} :
            Begins(what, m) \/ Begins(what, TrustedContext(m))
    BY <1>2 DEF StartTurn, StartReport
  <2>2. m \in Seq(Message) /\ TrustedContext(m) \in Seq(Message)
    BY LoadedIsWhole, TrustedIsClean
  <2> QED
    BY <2>1, <2>2, RoundsBegin
<1>3. CASE Asks
  <2>1. PICK n \in 1..Breadth : messages' = Append(messages, Ask(n, derived))
    BY <1>3 DEF Asks
  <2>2. Ask(n, derived) \in Message /\ Ask(n, derived).role = "ask"
    BY <1>1, AskTyped
  <2>3. WithinCap /\ Counts /\ UNCHANGED <<baseline, nudged, prop>>
    BY <1>3 DEF Asks
  <2> QED
    BY <1>1, <2>1, <2>2, <2>3, RoundsGrow
<1>4. CASE Refuse \/ Stage \/ Remind \/ Read
  <2>1. PICK u \in BOOLEAN : Answers(u)
    <3>1. CASE Read
      <4>1. (Head(queue).tool \in Untrusted) \in BOOLEAN
        OBVIOUS
      <4> QED
        BY <3>1, <4>1 DEF Read
    <3>2. CASE Refuse \/ Stage \/ Remind
      BY <3>2 DEF Refuse, Stage, Remind
    <3> QED
      BY <1>4, <3>1, <3>2
  <2>2. Tool(u) \in Message /\ Tool(u).role # "ask"
    BY MessagesTyped
  <2>3. messages' = Append(messages, Tool(u)) /\ UNCHANGED <<baseline, rounds, nudged, prop>>
    BY <2>1 DEF Answers
  <2> QED
    BY <1>1, <2>2, <2>3, RoundsGrow
<1>5. CASE LookAgain
  BY <1>5, RoundsLookAgain
<1>6. CASE TurnFails \/ ReportAnswers \/ Summary
  BY <1>6, RoundsOver DEF TurnFails, ReportAnswers, Summary
<1>7. CASE TurnAnswers
  <2>1. Over /\ (prop' = prop \/ \E p : prop' = {p})
    BY <1>7 DEF TurnAnswers
  <2> QED
    BY <2>1, RoundsOver
<1>8. CASE Confirm \/ Discard \/ Expire \/ Arrives \/ CommitCall
  BY <1>8, RoundsStay DEF Confirm, Discard, Expire, Arrives, CommitCall, loop
<1>9. CASE \E n \in Names : JobEnds(n)
  BY <1>9, RoundsStay DEF JobEnds, loop
<1>10. CASE UNCHANGED vars
  BY <1>10, RoundsStay DEF vars, loop
<1> QED
  BY <1>2, <1>3, <1>4, <1>5, <1>6, <1>7, <1>8, <1>9, <1>10 DEF Next, Loop, Ends

LEMMA RoundsBegun == Init => RoundsInv
<1> SUFFICES ASSUME Init PROVE RoundsInv
  OBVIOUS
<1>1. messages = <<>> /\ baseline = 0 /\ rounds = 0 /\ nudged = FALSE /\ prop = {}
  BY DEF Init, NoLoop
<1>2. AsksSince(messages, baseline) = {}
  BY <1>1 DEF AsksSince
<1>3. Cardinality(AsksSince(messages, baseline)) = 0
  BY <1>2, FS_EmptySet
<1>4. rounds \in 0..MaxRounds
  BY <1>1, BoundsAssumption
<1>5. Cardinality(AsksSince(messages, baseline)) <= rounds + (IF nudged THEN MaxRounds ELSE 0)
  BY <1>1, <1>3, <1>4, NoneYet
<1> QED
  BY <1>1, <1>4, <1>5 DEF RoundsInv

\* The rounds are counted as the completions that ask.
THEOREM RoundsCounted == Spec => []RoundsInv
<1>1. Init => RoundsInv
  BY RoundsBegun
<1>2. MessagesInv /\ RoundsInv /\ [Next]_vars => RoundsInv'
  BY RoundsNext
<1> QED
  BY <1>1, <1>2, Messages, PTL DEF Spec

\* A completion that asks for tools is answered at most MaxRounds times, or twice
\* that when a report is sent back to look again (run_turn, look_again).
THEOREM RoundsAreCapped == Spec => []RoundsCapped
<1>1. MessagesInv /\ RoundsInv => RoundsCapped
  <2> SUFFICES ASSUME MessagesInv, RoundsInv PROVE RoundsCapped
    OBVIOUS
  <2> PICK c : c = Cardinality(AsksSince(messages, baseline))
    OBVIOUS
  <2>1. c \in Nat
    <3>1. messages \in Seq(Message) /\ baseline \in Nat
      BY DEF MessagesInv
    <3> QED
      BY <3>1, AsksFinite
  <2>2. rounds \in 0..MaxRounds /\ c <= rounds + (IF nudged THEN MaxRounds ELSE 0)
    BY DEF RoundsInv
  <2>3. c <= MaxRounds * (IF nudged THEN 2 ELSE 1)
    <3>1. CASE nudged
      BY <2>1, <2>2, <3>1, BoundsAssumption
    <3>2. CASE ~nudged
      BY <2>1, <2>2, <3>2, BoundsAssumption
    <3> QED
      BY <3>1, <3>2
  <2> QED
    BY <2>3 DEF RoundsCapped, AsksSince
<1> QED
  BY <1>1, Messages, RoundsCounted, PTL

\* Every variable has its type.
THEOREM TypeCorrect == Spec => []TypeOK
<1>1. Typing /\ MessagesInv /\ RoundsInv => TypeOK
  BY DEF Typing, MessagesInv, RoundsInv, TypeOK
<1> QED
  BY <1>1, Typed, Messages, RoundsCounted, PTL
=============================================================================
