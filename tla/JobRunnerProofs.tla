--------------------------- MODULE JobRunnerProofs ---------------------------
(***************************************************************************)
(* Proofs about JobRunner: its type invariant, its safety invariants and   *)
(* its action properties hold for every set of jobs, every set of kinds of *)
(* job and every number of faults. All of them follow from one inductive   *)
(* invariant, TypeOK /\ IInv; each action has a lemma of its own.          *)
(***************************************************************************)
EXTENDS JobRunner, TLAPS

USE DEF Kind, Once, Tainted

Inv == TypeOK /\ IInv

-----------------------------------------------------------------------------
(* What the writes of store.py do to the columns of a row. The columns     *)
(* named here are the ones the invariant speaks of.                        *)

\* Two rows that agree on what the runner reads of them.
SameMarks(s, r) ==
    s.sent = r.sent /\ s.recorded = r.recorded

SameOutbox(s, r) ==
    s.text = r.text /\ s.untrusted = r.untrusted /\ s.delivered = r.delivered

LEMMA RowType ==
    ASSUME NEW r \in Row
    PROVE  /\ r.live \in BOOLEAN /\ r.due \in BOOLEAN /\ r.expired \in BOOLEAN
           /\ r.sent \in BOOLEAN /\ r.recorded \in BOOLEAN /\ r.text \in Texts
           /\ r.untrusted \in BOOLEAN /\ r.after \in {"advance", "cancel"}
           /\ r.delivered \in BOOLEAN
BY DEF Row

LEMMA BlankRow == Blank \in Row
BY DEF Blank, Row, Texts

LEMMA SentRow ==
    ASSUME NEW r \in Row
    PROVE  /\ SentIn(r) \in Row
           /\ SentIn(r).live = r.live /\ SentIn(r).sent = (r.sent \/ r.live)
           /\ SentIn(r).recorded = r.recorded /\ SameOutbox(SentIn(r), r)
BY DEF Row, SentIn, SameOutbox

LEMMA RecordedRow ==
    ASSUME NEW r \in Row
    PROVE  /\ RecordedIn(r) \in Row
           /\ RecordedIn(r).live = r.live /\ RecordedIn(r).sent = r.sent
           /\ RecordedIn(r).recorded = TRUE /\ SameOutbox(RecordedIn(r), r)
BY DEF Row, RecordedIn, SameOutbox

LEMMA DeliveredRow ==
    ASSUME NEW r \in Row
    PROVE  /\ DeliveredIn(r) \in Row
           /\ DeliveredIn(r).live = r.live /\ SameMarks(DeliveredIn(r), r)
           /\ DeliveredIn(r).text = r.text /\ DeliveredIn(r).untrusted = r.untrusted
           /\ DeliveredIn(r).delivered = TRUE
BY DEF Row, DeliveredIn, SameMarks

LEMMA CancelledRow ==
    ASSUME NEW r \in Row
    PROVE  /\ Cancelled(r) \in Row
           /\ Cancelled(r).live = FALSE
           /\ SameMarks(Cancelled(r), r) /\ SameOutbox(Cancelled(r), r)
BY DEF Row, Cancelled, SameMarks, SameOutbox

LEMMA QueuedRow ==
    ASSUME NEW r \in Row, NEW q,
           q.text \in Texts, q.untrusted \in BOOLEAN, q.after \in {"advance", "cancel"}
    PROVE  /\ Queued(r, q) \in Row
           /\ Queued(r, q).live = r.live /\ SameMarks(Queued(r, q), r)
           /\ Queued(r, q).text = q.text /\ Queued(r, q).untrusted = q.untrusted
           /\ Queued(r, q).delivered = FALSE
BY DEF Row, Queued, SameMarks

LEMMA ClearedRow ==
    ASSUME NEW r \in Row
    PROVE  /\ Cleared(r) \in Row
           /\ Cleared(r).live = r.live /\ SameMarks(Cleared(r), r)
           /\ Cleared(r).text = "none" /\ Cleared(r).delivered = FALSE
BY DEF Row, Cleared, SameMarks, Texts

LEMMA AdvancedRow ==
    ASSUME NEW r \in Row
    PROVE  /\ Advanced(r) \in Row
           /\ Advanced(r).live = r.live
           /\ Advanced(r).sent = FALSE /\ Advanced(r).recorded = FALSE
           /\ Advanced(r).text = "none" /\ Advanced(r).delivered = FALSE
BY DEF Row, Advanced, Cleared, Texts

LEMMA OwnerRow ==
    ASSUME NEW r \in Row,
           NEW s \in {Rescheduled(r), [r EXCEPT !.due = TRUE],
                      [r EXCEPT !.expired = TRUE], [r EXCEPT !.live = TRUE]}
    PROVE  /\ s \in Row
           /\ SameMarks(s, r) /\ SameOutbox(s, r)
BY DEF Row, Rescheduled, SameMarks, SameOutbox

LEMMA LiveRow ==
    ASSUME NEW r \in Row
    PROVE  /\ Rescheduled(r).live = r.live
           /\ [r EXCEPT !.due = TRUE].live = r.live
           /\ [r EXCEPT !.expired = TRUE].live = r.live
           /\ [r EXCEPT !.live = TRUE].live = TRUE
BY DEF Row, Rescheduled

LEMMA CountType ==
    ASSUME NEW c \in Count
    PROVE  c.phone \in Nat /\ c.record \in Nat /\ c.told \in Nat /\ c.hist \in Nat
BY DEF Count

LEMMA AddCount ==
    ASSUME NEW c \in Count, NEW e \in {"phone", "record", "told", "hist"}
    PROVE  /\ Add(c, e) \in Count
           /\ Add(c, e).phone = (IF e = "phone" THEN c.phone + 1 ELSE c.phone)
           /\ Add(c, e).record = (IF e = "record" THEN c.record + 1 ELSE c.record)
           /\ Add(c, e).told = (IF e = "told" THEN c.told + 1 ELSE c.told)
           /\ Add(c, e).hist = (IF e = "hist" THEN c.hist + 1 ELSE c.hist)
BY DEF Count, Add

LEMMA NoCountCount ==
    /\ NoCount \in Count
    /\ NoCount.phone = 0 /\ NoCount.record = 0 /\ NoCount.told = 0 /\ NoCount.hist = 0
BY DEF Count, NoCount

LEMMA KnownCount ==
    ASSUME NEW c \in Count, NEW r \in Row
    PROVE  /\ Known(c, r) \in Count
           /\ Known(c, r).phone = (IF r.sent THEN c.phone ELSE 0)
           /\ Known(c, r).record = (IF r.recorded THEN c.record ELSE 0)
           /\ Known(c, r).told = (IF r.delivered THEN c.told ELSE 0)
           /\ Known(c, r).hist = c.hist
BY DEF Count, Known, Row

-----------------------------------------------------------------------------
(* What the helpers of _fire do to the runner's own state.                 *)

\* Between two jobs cur is NoJob; at every other point it is a job of the tick.
LEMMA CurIsJob ==
    ASSUME Inv, pc \notin {"idle", "pick"}
    PROVE  /\ cur \in Jobs /\ cur \in todo /\ cur # NoJob
           /\ profile[cur] \in Profile
           /\ row[cur] \in Row /\ snap[cur] \in Row /\ count[cur] \in Count
           /\ JobInv(cur)
BY JobsAssumption, ProfilesAssumption DEF Inv, IInv, ControlInv, TypeOK

LEMMA ReportEffect ==
    ASSUME TypeOK, cur \in Jobs, NEW t \in Texts, NEW u \in BOOLEAN,
           NEW a \in {"advance", "cancel"}, Report(t, u, a)
    PROVE  /\ pc' = "queue" /\ cur' = cur /\ todo' = todo
           /\ snap' \in [Jobs -> Row]
           /\ \A j \in Jobs : j # cur => snap'[j] = snap[j]
           /\ snap'[cur].text = t /\ snap'[cur].untrusted = u
           /\ SameMarks(snap'[cur], snap[cur])
<1> DEFINE q == [text |-> t, untrusted |-> u, after |-> a]
<1>1. snap[cur] \in Row /\ snap' = [snap EXCEPT ![cur] = Queued(@, q)]
  BY DEF TypeOK, Report
<1>2. snap'[cur] = Queued(snap[cur], q)
  BY <1>1 DEF TypeOK
<1>3. q.text = t /\ q.untrusted = u /\ q.after = a
  OBVIOUS
<1> HIDE DEF q
<1>4. /\ snap'[cur] \in Row
      /\ snap'[cur].text = q.text /\ snap'[cur].untrusted = q.untrusted
      /\ SameMarks(snap'[cur], snap[cur])
  BY <1>1, <1>2, <1>3, QueuedRow
<1> QED
  BY <1>1, <1>2, <1>3, <1>4 DEF Report, TypeOK

LEMMA LeaveEffect ==
    ASSUME TypeOK, cur \in Jobs, Leave
    PROVE  /\ pc' = "pick" /\ cur' = NoJob /\ todo' = todo \ {cur}
           /\ snap' \in [Jobs -> Row]
           /\ \A j \in Jobs : j # cur => snap'[j] = snap[j]
BY BlankRow DEF TypeOK, Leave

LEMMA HappensEffect ==
    ASSUME TypeOK, cur \in Jobs, NEW e \in {"phone", "record", "told", "hist"}, Happens(e)
    PROVE  /\ count' \in [Jobs -> Count]
           /\ \A j \in Jobs : j # cur => count'[j] = count[j]
           /\ count'[cur].phone = (IF e = "phone" THEN count[cur].phone + 1 ELSE count[cur].phone)
           /\ count'[cur].record = (IF e = "record" THEN count[cur].record + 1 ELSE count[cur].record)
           /\ count'[cur].told = (IF e = "told" THEN count[cur].told + 1 ELSE count[cur].told)
           /\ count'[cur].hist = (IF e = "hist" THEN count[cur].hist + 1 ELSE count[cur].hist)
<1>1. count[cur] \in Count /\ count' = [count EXCEPT ![cur] = Add(@, e)]
  BY DEF TypeOK, Happens
<1> QED
  BY <1>1, AddCount DEF TypeOK

\* A step that leaves a job's own state alone leaves its invariant alone.
Untouched(j) ==
    /\ profile'[j] = profile[j] /\ row'[j] = row[j] /\ turn'[j] = turn[j]
    /\ snap'[j] = snap[j] /\ count'[j] = count[j]
    /\ (j \in relaySent') = (j \in relaySent)
    /\ (j \in relayRecorded') = (j \in relayRecorded)
    /\ (j \in notified') = (j \in notified)
    /\ (j \in todo') = (j \in todo)
    /\ (j \in shaped') = (j \in shaped)
    /\ (j \in trusted') = (j \in trusted)
    /\ \/ j # cur /\ j # cur'
       \/ pc' = pc /\ cur' = cur

LEMMA Frame ==
    ASSUME NEW j \in Jobs, JobInv(j), Untouched(j)
    PROVE  JobInv(j)'
<1>1. Fresh(j)'         BY DEF Untouched, JobInv, Fresh
<1>2. RelayKnown(j)'    BY DEF Untouched, JobInv, RelayKnown, Unfinished
<1>3. ReportKnown(j)'   BY DEF Untouched, JobInv, ReportKnown
<1>4. NotBeforeTurn(j)' BY DEF Untouched, JobInv, NotBeforeTurn
<1>5. Labelled(j)'      BY DEF Untouched, JobInv, Labelled
<1> QED BY <1>1, <1>2, <1>3, <1>4, <1>5 DEF JobInv

LEMMA EachJob ==
    ASSUME Inv, TypeOK', ControlInv', StageInv',
           \A j \in Jobs : Untouched(j) \/ JobInv(j)'
    PROVE  Inv'
BY Frame DEF Inv, IInv

-----------------------------------------------------------------------------
(* The two ways in which _fire lets go of a job.                           *)

\* The row and the memory stay: the job is tried again.
LEMMA GivesUp ==
    ASSUME Inv, pc \notin {"idle", "pick"}, Leave, faults' \in 0..MaxFaults,
           backoff' \subseteq Jobs, UNCHANGED <<profile, row, effects, turn, count, labels>>
    PROVE  Inv'
<1>1. /\ pc' = "pick" /\ cur' = NoJob /\ todo' = todo \ {cur}
      /\ snap' \in [Jobs -> Row]
      /\ \A j \in Jobs : j # cur => snap'[j] = snap[j]
  BY CurIsJob, LeaveEffect DEF Inv
<1> USE DEF effects, labels
<1>2. TypeOK'
  BY <1>1 DEF Inv, TypeOK, SyncPoints
<1>3. ControlInv' /\ StageInv'
  BY <1>1 DEF ControlInv, StageInv, RelayPoints, OutboxPoints
<1>4. ASSUME NEW j \in Jobs, j = cur PROVE JobInv(j)'
  <2>1. JobInv(j) /\ j \in todo /\ j \notin todo' /\ j # cur'
    BY <1>1, <1>4, CurIsJob, JobsAssumption
  <2>2. Fresh(j)'
    BY <2>1 DEF Fresh
  <2> QED
    BY <1>4, <2>1, <2>2
       DEF JobInv, RelayKnown, Unfinished, ReportKnown, NotBeforeTurn, Labelled
<1>5. \A j \in Jobs : j # cur => Untouched(j)
  BY <1>1, JobsAssumption DEF Untouched
<1> QED
  BY <1>2, <1>3, <1>4, <1>5, EachJob

LEMMA Deferred ==
    ASSUME Inv, pc \notin {"idle", "pick"}, Fails, Defer, UNCHANGED <<row, turn, count, labels>>
    PROVE  Inv'
<1>1. backoff' \subseteq Jobs /\ faults' \in 0..MaxFaults
  BY CurIsJob, MaxFaultsAssumption DEF Defer, Fails, Inv, TypeOK
<1> QED
  BY <1>1, GivesUp DEF Defer, Fails

\* The job was cancelled under the runner before its report was stored.
LEMMA Dropped ==
    ASSUME Inv, pc \notin {"idle", "pick"}, Leave, Forget, Works,
           UNCHANGED <<row, backoff, turn, count, labels>>,
           ~row[cur].live, row[cur].text = "none"
    PROVE  Inv'
<1>1. /\ pc' = "pick" /\ cur' = NoJob /\ todo' = todo \ {cur}
      /\ snap' \in [Jobs -> Row]
      /\ \A j \in Jobs : j # cur => snap'[j] = snap[j]
  BY CurIsJob, LeaveEffect DEF Inv
<1>2. /\ relaySent' = relaySent \ {cur} /\ relayRecorded' = relayRecorded \ {cur}
      /\ notified' = notified \ {cur} /\ UNCHANGED <<profile, faults>>
  BY DEF Forget, Works
<1> USE DEF labels
<1>3. TypeOK'
  BY <1>1, <1>2 DEF Inv, TypeOK, SyncPoints
<1>4. ControlInv' /\ StageInv'
  BY <1>1 DEF ControlInv, StageInv, RelayPoints, OutboxPoints
<1>5. ASSUME NEW j \in Jobs, j = cur PROVE JobInv(j)'
  <2>1. JobInv(j) /\ j \in todo /\ j \notin todo' /\ j # cur'
    BY <1>1, <1>5, CurIsJob, JobsAssumption
  <2>2. Fresh(j)'
    BY <2>1 DEF Fresh
  <2> QED
    BY <1>2, <1>5, <2>1, <2>2
       DEF JobInv, RelayKnown, Unfinished, ReportKnown, NotBeforeTurn, Labelled
<1>6. \A j \in Jobs : j # cur => Untouched(j)
  BY <1>1, <1>2, JobsAssumption DEF Untouched
<1> QED
  BY <1>3, <1>4, <1>5, <1>6, EachJob

-----------------------------------------------------------------------------
(* One lemma for each action.                                              *)

LEMMA InitInv == Init => Inv
<1> SUFFICES ASSUME Init PROVE Inv
  OBVIOUS
<1>1. TypeOK
  BY BlankRow, NoCountCount, MaxFaultsAssumption DEF Init, TypeOK, AwaitPoints
<1>2. ControlInv /\ StageInv
  BY DEF Init, ControlInv, StageInv, RelayPoints, OutboxPoints
<1>3. ASSUME NEW j \in Jobs PROVE JobInv(j)
  <2>1. /\ row[j] = Blank /\ count[j] = NoCount /\ j # cur /\ todo = {}
        /\ j \notin relaySent /\ j \notin relayRecorded /\ j \notin notified
        /\ j \notin shaped /\ j \notin trusted
    BY JobsAssumption DEF Init
  <2>2. /\ ~row[j].live /\ ~row[j].sent /\ ~row[j].recorded
        /\ row[j].text = "none" /\ ~row[j].delivered
    BY <2>1 DEF Blank
  <2> QED
    BY <2>1, <2>2, NoCountCount
       DEF JobInv, Fresh, RelayKnown, ReportKnown, NotBeforeTurn, Labelled
<1> QED
  BY <1>1, <1>2, <1>3 DEF Inv, IInv

LEMMA TickInv == ASSUME Inv, Tick PROVE Inv'
<1> USE DEF mem, effects, labels, Works, Tick
<1>1. TypeOK'
  BY BlankRow DEF Inv, TypeOK, SyncPoints
<1>2. ControlInv' /\ StageInv'
  BY DEF Inv, IInv, ControlInv, StageInv, RelayPoints, OutboxPoints
<1>3. ASSUME NEW j \in Jobs PROVE JobInv(j)'
  <2>1. JobInv(j) /\ pc' = "pick" /\ cur = NoJob /\ cur' = NoJob /\ j # NoJob
    BY JobsAssumption DEF Inv, IInv, ControlInv
  <2>2. (j \in todo' /\ Due(j) /\ snap'[j] = row[j]) \/ (j \notin todo' /\ j \notin todo)
    BY DEF Inv, IInv, ControlInv
  <2>3. Due(j) => row[j].live \/ row[j].text # "none"
    BY DEF Due
  <2>4. Fresh(j)'
    BY <2>1, <2>2 DEF Fresh
  <2>5. RelayKnown(j)'
    BY <2>1, <2>2, <2>3 DEF JobInv, RelayKnown, Unfinished
  <2> QED
    BY <2>1, <2>2, <2>3, <2>4, <2>5 DEF JobInv, ReportKnown, NotBeforeTurn, Labelled
<1> QED
  BY <1>1, <1>2, <1>3 DEF Inv, IInv

LEMMA SkipInv == ASSUME Inv, NEW j \in Jobs, Skip(j) PROVE Inv'
<1> USE DEF mem, effects, labels, Works, Skip
<1>1. TypeOK'
  BY BlankRow DEF Inv, TypeOK
<1>2. ControlInv' /\ StageInv' /\ cur = NoJob /\ cur' = NoJob
  BY DEF Inv, IInv, ControlInv, StageInv, RelayPoints, OutboxPoints
<1>3. JobInv(j)'
  <2>1. JobInv(j) /\ j \notin todo' /\ j # cur'
    BY <1>2, JobsAssumption DEF Inv, IInv
  <2> QED
    BY <2>1 DEF JobInv, Fresh, RelayKnown, Unfinished, ReportKnown, NotBeforeTurn, Labelled
<1>4. \A i \in Jobs : i # j => Untouched(i)
  BY DEF Untouched, Inv, TypeOK
<1> QED
  BY <1>1, <1>2, <1>3, <1>4, EachJob

LEMMA PickInv == ASSUME Inv, NEW j \in Jobs, Pick(j) PROVE Inv'
<1> USE DEF mem, effects, labels, Works, Pick
<1>1. TypeOK'
  BY DEF Inv, TypeOK, SyncPoints
<1>2. ControlInv' /\ StageInv' /\ cur = NoJob
  BY DEF Inv, IInv, ControlInv, StageInv, RelayPoints, OutboxPoints
<1>3. JobInv(j)'
  <2>1. JobInv(j) /\ j # cur
    BY <1>2, JobsAssumption DEF Inv, IInv
  <2>2. Fresh(j)' /\ NotBeforeTurn(j)'
    BY <2>1 DEF JobInv, Fresh, NotBeforeTurn, Held
  <2> QED
    BY <2>1, <2>2 DEF JobInv, RelayKnown, Unfinished, ReportKnown, Labelled
<1>4. \A i \in Jobs : i # j => Untouched(i)
  BY <1>2, JobsAssumption DEF Untouched
<1> QED
  BY <1>1, <1>2, <1>3, <1>4, EachJob

LEMMA TickEndsInv == ASSUME Inv, TickEnds PROVE Inv'
<1> USE DEF mem, effects, labels, Works, Goto, TickEnds
<1>1. TypeOK'
  BY DEF Inv, TypeOK, AwaitPoints
<1>2. ControlInv' /\ StageInv' /\ cur = NoJob /\ cur' = NoJob
  BY DEF Inv, IInv, ControlInv, StageInv, RelayPoints, OutboxPoints
<1>3. \A i \in Jobs : i # NoJob => Untouched(i)
  BY <1>2 DEF Untouched
<1> QED
  BY <1>1, <1>2, <1>3, EachJob, JobsAssumption

\* The common end of the relay branches: the other phone has the text, and
\* the row says so, or still does not.
LEMMA RelayOnInv ==
    ASSUME Inv, pc \notin {"idle", "pick"}, RelayOn(cur), Kind(cur) = "relay",
           row[cur].text = "none", snap[cur].text = "none",
           row[cur].recorded = snap[cur].recorded, count[cur].phone = 1,
           row' = [row EXCEPT ![cur] = SentIn(@)] \/ UNCHANGED row,
           faults' \in 0..MaxFaults, UNCHANGED <<profile, mem, turn, count, labels>>
    PROVE  Inv'
<1> USE DEF mem, effects, labels
<1>1. /\ cur \in Jobs /\ cur \in todo /\ cur # NoJob /\ profile[cur] \in Profile
      /\ row[cur] \in Row /\ snap[cur] \in Row /\ count[cur] \in Count /\ JobInv(cur)
  BY CurIsJob
<1>2. /\ row' \in [Jobs -> Row]
      /\ \A j \in Jobs : j # cur => row'[j] = row[j]
      /\ row'[cur].live = row[cur].live
      /\ row'[cur].sent = row[cur].sent \/ row'[cur].sent = (row[cur].sent \/ row[cur].live)
      /\ row'[cur].recorded = row[cur].recorded /\ SameOutbox(row'[cur], row[cur])
  <2>1. CASE UNCHANGED row
    BY <2>1 DEF Inv, TypeOK, SameOutbox
  <2>2. CASE row' = [row EXCEPT ![cur] = SentIn(@)]
    BY <1>1, <2>2, SentRow DEF Inv, TypeOK
  <2> QED BY <2>1, <2>2
<1>3. /\ cur' = cur /\ todo' = todo
      /\ snap' \in [Jobs -> Row]
      /\ \A j \in Jobs : j # cur => snap'[j] = snap[j]
      /\ SameMarks(snap'[cur], snap[cur])
      /\ \/ /\ pc' = "queue" /\ row[cur].recorded
            /\ snap'[cur].text = "relayed" /\ snap'[cur].untrusted = Tainted(cur)
         \/ pc' = "record_mark" /\ cur \in relayRecorded /\ snap' = snap
         \/ pc' = "record" /\ cur \notin relayRecorded /\ ~snap[cur].recorded /\ snap' = snap
  <2>1. CASE snap[cur].recorded
    <3>1. Report("relayed", Tainted(cur), IF Once(cur) THEN "cancel" ELSE "advance")
      BY <2>1 DEF RelayOn, AfterSend
    <3>2. "relayed" \in Texts /\ Tainted(cur) \in BOOLEAN
      BY <1>1 DEF Texts, Profile
    <3> QED
      BY <1>1, <2>1, <3>1, <3>2, ReportEffect DEF Inv
  <2>2. CASE ~snap[cur].recorded
    BY <2>2 DEF RelayOn, AfterSend, Goto, Inv, TypeOK, SameMarks
  <2> QED BY <2>1, <2>2
<1>4. TypeOK'
  BY <1>2, <1>3 DEF Inv, TypeOK, SyncPoints, AwaitPoints
<1>5. ControlInv'
  BY <1>1, <1>3 DEF ControlInv
<1>6. StageInv'
  <2>1. cur \in relayRecorded => count[cur].record = 1
    BY <1>1 DEF JobInv, RelayKnown
  <2>2. cur \notin relayRecorded /\ ~snap[cur].recorded => count[cur].record = 0
    BY <1>1 DEF JobInv, RelayKnown
  <2> QED
    BY <1>2, <1>3, <2>1, <2>2
       DEF StageInv, RelayPoints, OutboxPoints, SameMarks, SameOutbox
<1>7. ASSUME NEW j \in Jobs, j = cur PROVE JobInv(j)'
  <2>1. Fresh(j)'
    BY <1>3, <1>7 DEF Fresh
  <2>2. RelayKnown(j)'
    BY <1>1, <1>2, <1>3, <1>7 DEF JobInv, RelayKnown, Unfinished, SameMarks, SameOutbox
  <2>3. ReportKnown(j)' /\ NotBeforeTurn(j)'
    BY <1>1, <1>2, <1>3, <1>7 DEF JobInv, ReportKnown, NotBeforeTurn, SameOutbox
  <2>4. Labelled(j)'
    BY <1>1, <1>2, <1>3, <1>7 DEF JobInv, Labelled, SameOutbox
  <2> QED BY <2>1, <2>2, <2>3, <2>4 DEF JobInv
<1>8. \A j \in Jobs : j # cur => Untouched(j)
  BY <1>2, <1>3 DEF Untouched
<1> QED
  BY <1>4, <1>5, <1>6, <1>7, <1>8, EachJob

LEMMA FaultsType ==
    ASSUME Inv, Works \/ Fails
    PROVE  faults' \in 0..MaxFaults /\ UNCHANGED profile
BY MaxFaultsAssumption DEF Inv, TypeOK, Works, Fails

\* What a relay that is about to be fired may rely on.
LEMMA FiresRelayFacts ==
    ASSUME Inv, FiresRelay
    PROVE  /\ pc \notin {"idle", "pick"} /\ Kind(cur) = "relay"
           /\ row[cur].text = "none" /\ snap[cur].text = "none"
           /\ row[cur].recorded = snap[cur].recorded /\ row[cur].sent = snap[cur].sent
           /\ cur \in relaySent \/ snap[cur].sent <=> count[cur].phone = 1
BY CurIsJob DEF FiresRelay, JobInv, Fresh, RelayKnown, Unfinished

LEMMA RelayMarkAgainInv == ASSUME Inv, RelayMarkAgain PROVE Inv'
BY FiresRelayFacts, FaultsType, RelayOnInv DEF RelayMarkAgain

LEMMA RelayResumeInv == ASSUME Inv, RelayResume PROVE Inv'
BY FiresRelayFacts, FaultsType, RelayOnInv DEF RelayResume

LEMMA RelayBeginInv == ASSUME Inv, RelayBegin PROVE Inv'
<1> USE DEF mem, effects, labels, Works, Goto, RelayBegin
<1>1. /\ cur \in Jobs /\ cur \in todo /\ cur # NoJob /\ JobInv(cur)
      /\ count[cur].phone = 0 /\ Kind(cur) = "relay" /\ pc' = "relay_send"
      /\ row[cur].text = "none" /\ snap[cur].text = "none"
      /\ row[cur].recorded = snap[cur].recorded
  BY CurIsJob, FiresRelayFacts DEF JobInv, RelayKnown
<1>2. TypeOK'
  BY DEF Inv, TypeOK, AwaitPoints
<1>3. ControlInv' /\ StageInv'
  BY <1>1 DEF ControlInv, StageInv, RelayPoints, OutboxPoints
<1>4. ASSUME NEW j \in Jobs, j = cur PROVE JobInv(j)'
  BY <1>1, <1>4 DEF JobInv, Fresh, RelayKnown, Unfinished, ReportKnown, NotBeforeTurn, Labelled
<1>5. \A j \in Jobs : j # cur => Untouched(j)
  BY DEF Untouched
<1> QED BY <1>2, <1>3, <1>4, <1>5, EachJob

LEMMA RelaySentInv == ASSUME Inv, RelaySent PROVE Inv'
<1> USE DEF mem, effects, labels, Works, Goto, RelaySent
<1>1. /\ cur \in Jobs /\ cur \in todo /\ cur # NoJob /\ JobInv(cur)
      /\ count[cur].phone = 0 /\ Kind(cur) = "relay" /\ pc' = "relay_mark"
      /\ row[cur].text = "none" /\ snap[cur].text = "none"
      /\ row[cur].recorded = snap[cur].recorded
  BY CurIsJob DEF Inv, IInv, StageInv, RelayPoints
<1>2. /\ count' \in [Jobs -> Count]
      /\ \A j \in Jobs : j # cur => count'[j] = count[j]
      /\ count'[cur].phone = 1 /\ count'[cur].record = count[cur].record
      /\ count'[cur].told = count[cur].told /\ count'[cur].hist = count[cur].hist
  BY <1>1, HappensEffect DEF Inv
<1>3. TypeOK'
  BY <1>1, <1>2 DEF Inv, TypeOK, SyncPoints
<1>4. ControlInv' /\ StageInv'
  BY <1>1, <1>2 DEF ControlInv, StageInv, RelayPoints, OutboxPoints
<1>5. ASSUME NEW j \in Jobs, j = cur PROVE JobInv(j)'
  BY <1>1, <1>2, <1>5
     DEF JobInv, Fresh, RelayKnown, Unfinished, ReportKnown, NotBeforeTurn, Labelled
<1>6. \A j \in Jobs : j # cur => Untouched(j)
  BY <1>2 DEF Untouched
<1> QED BY <1>3, <1>4, <1>5, <1>6, EachJob

LEMMA RelayFailsInv == ASSUME Inv, RelayFails PROVE Inv'
<1>1. pc \notin {"idle", "pick"} /\ count[cur].phone = 0 /\ cur \in todo
  BY CurIsJob DEF RelayFails, Inv, IInv, StageInv
<1>2. ~(row[cur].live /\ row[cur].sent)
  BY <1>1, CurIsJob DEF JobInv, RelayKnown, Unfinished
<1> QED
  BY <1>1, <1>2, Deferred DEF RelayFails

LEMMA RelayMarkInv == ASSUME Inv, RelayMark PROVE Inv'
<1>1. /\ pc \notin {"idle", "pick"} /\ Kind(cur) = "relay"
      /\ row[cur].text = "none" /\ snap[cur].text = "none"
      /\ row[cur].recorded = snap[cur].recorded /\ count[cur].phone = 1
  BY DEF RelayMark, Inv, IInv, StageInv, RelayPoints
<1> QED
  BY <1>1, FaultsType, RelayOnInv DEF RelayMark

LEMMA RecordInv == ASSUME Inv, Record PROVE Inv'
<1> USE DEF mem, effects, labels
<1>1. /\ pc \notin {"idle", "pick"} /\ Kind(cur) = "relay"
      /\ count[cur].phone = 1 /\ count[cur].record = 0
      /\ row[cur].text = "none" /\ snap[cur].text = "none"
      /\ row[cur].recorded = snap[cur].recorded
  BY DEF Record, Inv, IInv, StageInv, RelayPoints
<1>2. CASE Fails /\ Defer /\ UNCHANGED count
  BY <1>1, <1>2, Deferred DEF Record
<1>3. CASE /\ Happens("record") /\ relayRecorded' = relayRecorded \cup {cur}
           /\ UNCHANGED <<relaySent, notified, backoff>>
           /\ Goto("record_mark") /\ Works
  <2> USE <1>3 DEF Works, Goto
  <2>1. cur \in Jobs /\ cur \in todo /\ cur # NoJob /\ JobInv(cur)
    BY <1>1, CurIsJob
  <2>2. /\ count' \in [Jobs -> Count]
        /\ \A j \in Jobs : j # cur => count'[j] = count[j]
        /\ count'[cur].phone = count[cur].phone /\ count'[cur].record = 1
        /\ count'[cur].told = count[cur].told /\ count'[cur].hist = count[cur].hist
    BY <1>1, <2>1, HappensEffect DEF Inv
  <2>3. UNCHANGED <<row, turn, labels>>
    BY DEF Record
  <2>4. TypeOK'
    BY <2>1, <2>2, <2>3 DEF Inv, TypeOK, SyncPoints
  <2>5. ControlInv' /\ StageInv'
    BY <1>1, <2>1, <2>2, <2>3 DEF ControlInv, StageInv, RelayPoints, OutboxPoints
  <2>6. ASSUME NEW j \in Jobs, j = cur PROVE JobInv(j)'
    BY <1>1, <2>1, <2>2, <2>3, <2>6
       DEF JobInv, Fresh, RelayKnown, Unfinished, ReportKnown, NotBeforeTurn, Labelled
  <2>7. \A j \in Jobs : j # cur => Untouched(j)
    BY <2>2, <2>3 DEF Untouched
  <2> QED BY <2>4, <2>5, <2>6, <2>7, EachJob
<1> QED
  BY <1>2, <1>3 DEF Record

LEMMA RecordMarkInv == ASSUME Inv, RecordMark PROVE Inv'
<1> USE DEF labels
<1>1. /\ pc \notin {"idle", "pick"} /\ Kind(cur) = "relay"
      /\ count[cur].phone = 1 /\ count[cur].record = 1
      /\ row[cur].text = "none" /\ snap[cur].text = "none"
      /\ UNCHANGED <<turn, count, labels>>
  BY DEF RecordMark, Inv, IInv, StageInv, RelayPoints
<1>2. CASE StoreError
  BY <1>1, <1>2, Deferred DEF StoreError
<1>3. CASE ~row[cur].live /\ Forget /\ UNCHANGED backoff /\ Leave /\ UNCHANGED row /\ Works
  BY <1>1, <1>3, Dropped
<1>4. CASE /\ row' = [row EXCEPT ![cur] = RecordedIn(@)]
           /\ Report("relayed", Tainted(cur), IF Once(cur) THEN "cancel" ELSE "advance")
           /\ UNCHANGED mem /\ Works
  <2> USE <1>4 DEF Works, mem, effects
  <2>1. /\ cur \in Jobs /\ cur \in todo /\ cur # NoJob /\ JobInv(cur)
        /\ profile[cur] \in Profile /\ row[cur] \in Row
    BY <1>1, CurIsJob
  <2>2. /\ row' \in [Jobs -> Row]
        /\ \A j \in Jobs : j # cur => row'[j] = row[j]
        /\ row'[cur].live = row[cur].live /\ row'[cur].sent = row[cur].sent
        /\ row'[cur].recorded = TRUE /\ SameOutbox(row'[cur], row[cur])
    BY <2>1, RecordedRow DEF Inv, TypeOK
  <2>3. "relayed" \in Texts /\ Tainted(cur) \in BOOLEAN
    BY <2>1 DEF Texts, Profile
  <2>4. /\ pc' = "queue" /\ cur' = cur /\ todo' = todo
        /\ snap' \in [Jobs -> Row]
        /\ \A j \in Jobs : j # cur => snap'[j] = snap[j]
        /\ snap'[cur].text = "relayed" /\ snap'[cur].untrusted = Tainted(cur)
        /\ SameMarks(snap'[cur], snap[cur])
    BY <2>1, <2>3, ReportEffect DEF Inv
  <2>5. TypeOK'
    BY <1>1, <2>2, <2>4 DEF Inv, TypeOK, SyncPoints
  <2>6. ControlInv' /\ StageInv'
    BY <1>1, <2>1, <2>2, <2>4
       DEF ControlInv, StageInv, RelayPoints, OutboxPoints, SameOutbox
  <2>7. ASSUME NEW j \in Jobs, j = cur PROVE JobInv(j)'
    <3>1. Fresh(j)'
      BY <2>4, <2>7 DEF Fresh
    <3>2. RelayKnown(j)'
      BY <1>1, <2>1, <2>2, <2>4, <2>7 DEF JobInv, RelayKnown, Unfinished, SameMarks, SameOutbox
    <3>3. ReportKnown(j)' /\ NotBeforeTurn(j)' /\ Labelled(j)'
      BY <1>1, <2>1, <2>2, <2>4, <2>7
         DEF JobInv, ReportKnown, NotBeforeTurn, Labelled, SameOutbox
    <3> QED BY <3>1, <3>2, <3>3 DEF JobInv
  <2>8. \A j \in Jobs : j # cur => Untouched(j)
    BY <1>1, <2>2, <2>4 DEF Untouched
  <2> QED BY <2>5, <2>6, <2>7, <2>8, EachJob
<1> QED
  BY <1>2, <1>3, <1>4 DEF RecordMark

LEMMA CheckRefusedInv == ASSUME Inv, CheckRefused PROVE Inv'
<1>1. faults' \in 0..MaxFaults /\ UNCHANGED profile
  BY FaultsType DEF CheckRefused
<1> QED
  BY <1>1, GivesUp DEF CheckRefused, mem, Inv, TypeOK

\* Every run of a job that is not a relay ends with such a report, unless a
\* watch found nothing.
LEMMA ReportsInv ==
    ASSUME Inv, pc \notin {"idle", "pick"}, Kind(cur) # "relay",
           row[cur].text = "none", snap[cur].text = "none",
           NEW t \in Texts, t # "none", NEW u \in BOOLEAN, NEW a \in {"advance", "cancel"},
           Report(t, u, a), Tainted(cur) => u,
           shaped' \subseteq Jobs, trusted' \subseteq Jobs,
           cur \notin trusted', cur \in shaped' => u,
           \A j \in Jobs : j # cur => /\ (j \in shaped') = (j \in shaped)
                                      /\ (j \in trusted') = (j \in trusted),
           UNCHANGED <<profile, row, mem, turn, count, faults>>
    PROVE  Inv'
<1> USE DEF mem, effects
<1>1. cur \in Jobs /\ cur \in todo /\ cur # NoJob /\ JobInv(cur)
  BY CurIsJob
<1>2. /\ pc' = "queue" /\ cur' = cur /\ todo' = todo
      /\ snap' \in [Jobs -> Row]
      /\ \A j \in Jobs : j # cur => snap'[j] = snap[j]
      /\ snap'[cur].text = t /\ snap'[cur].untrusted = u
      /\ SameMarks(snap'[cur], snap[cur])
  BY <1>1, ReportEffect DEF Inv
<1>3. TypeOK'
  BY <1>2 DEF Inv, TypeOK, SyncPoints
<1>4. ControlInv' /\ StageInv'
  BY <1>1, <1>2 DEF ControlInv, StageInv, RelayPoints, OutboxPoints
<1>5. ASSUME NEW j \in Jobs, j = cur PROVE JobInv(j)'
  <2>1. Fresh(j)'
    BY <1>2, <1>5 DEF Fresh
  <2>2. RelayKnown(j)' /\ ReportKnown(j)' /\ NotBeforeTurn(j)'
    BY <1>1, <1>2, <1>5
       DEF JobInv, RelayKnown, Unfinished, ReportKnown, NotBeforeTurn, SameMarks
  <2>3. Labelled(j)'
    BY <1>1, <1>2, <1>5 DEF JobInv, Labelled
  <2> QED BY <2>1, <2>2, <2>3 DEF JobInv
<1>6. \A j \in Jobs : j # cur => Untouched(j)
  BY <1>2 DEF Untouched
<1> QED BY <1>3, <1>4, <1>5, <1>6, EachJob

LEMMA AfterRunType ==
    AfterRun(cur) \in {"advance", "cancel"}
BY DEF AfterRun

LEMMA CheckInv == ASSUME Inv, Check PROVE Inv'
<1> USE DEF labels, mem, effects, Works
<1>1. /\ cur \in Jobs /\ cur \in todo /\ cur # NoJob /\ JobInv(cur)
      /\ Tainted(cur) \in BOOLEAN /\ Kind(cur) # "relay"
      /\ row[cur].text = "none" /\ snap[cur].text = "none"
      /\ pc = "fire"
  BY CurIsJob DEF Check, JobInv, Fresh, Profile
<1>2. /\ UNCHANGED <<profile, row, mem, turn, count, faults>>
      /\ shaped' = shaped \ {cur} /\ trusted' = trusted \ {cur}
      /\ shaped' \subseteq Jobs /\ trusted' \subseteq Jobs
  BY DEF Check, Inv, TypeOK
<1>3. CASE Report("expired", Tainted(cur), "cancel")
  <2>1. "expired" \in Texts \ {"none"}
    BY DEF Texts
  <2> QED BY <1>1, <1>2, <1>3, <2>1, ReportsInv
<1>4. CASE Report("prompt", Tainted(cur), AfterRun(cur))
  <2>1. "prompt" \in Texts \ {"none"}
    BY DEF Texts
  <2> QED BY <1>1, <1>2, <1>4, <2>1, AfterRunType, ReportsInv
<1>5. CASE Goto("run")
  <2> USE <1>5 DEF Goto
  <2>1. TypeOK'
    BY <1>2 DEF Inv, TypeOK, AwaitPoints
  <2>2. ControlInv' /\ StageInv'
    BY <1>1, <1>2 DEF ControlInv, StageInv, RelayPoints, OutboxPoints
  <2>3. ASSUME NEW j \in Jobs, j = cur PROVE JobInv(j)'
    BY <1>1, <1>2, <2>3
       DEF JobInv, Fresh, RelayKnown, Unfinished, ReportKnown, NotBeforeTurn, Labelled
  <2>4. \A j \in Jobs : j # cur => Untouched(j)
    BY <1>2 DEF Untouched
  <2> QED BY <2>1, <2>2, <2>3, <2>4, EachJob
<1> QED
  BY <1>3, <1>4, <1>5 DEF Check

\* What a run of the model may rely on.
LEMMA RunFacts ==
    ASSUME Inv, pc = "run"
    PROVE  /\ cur \in Jobs /\ cur \in todo /\ cur # NoJob /\ JobInv(cur)
           /\ row[cur] \in Row /\ Tainted(cur) \in BOOLEAN /\ Kind(cur) # "relay"
           /\ row[cur].text = "none" /\ snap[cur].text = "none"
           /\ cur \notin trusted /\ cur \notin shaped
BY CurIsJob DEF Inv, IInv, StageInv, Profile

LEMMA RunReportsInv == ASSUME Inv, RunReports PROVE Inv'
<1>1. PICK fetched \in BOOLEAN :
        /\ Report("report", fetched \/ Tainted(cur), AfterRun(cur))
        /\ shaped' = IF fetched THEN shaped \cup {cur} ELSE shaped
  BY DEF RunReports
<1>2. pc = "run" /\ UNCHANGED <<profile, row, mem, turn, count, trusted, faults>>
  BY DEF RunReports, Works
<1>3. "report" \in Texts \ {"none"} /\ (fetched \/ Tainted(cur)) \in BOOLEAN
  BY DEF Texts
<1>4. shaped' \subseteq Jobs /\ trusted' \subseteq Jobs
  BY <1>1, <1>2, RunFacts DEF Inv, TypeOK
<1> QED
  BY <1>1, <1>2, <1>3, <1>4, RunFacts, AfterRunType, ReportsInv

LEMMA RunFailsInv == ASSUME Inv, RunFails PROVE Inv'
<1>1. "failed" \in Texts \ {"none"}
  BY DEF Texts
<1>2. /\ pc = "run" /\ UNCHANGED <<profile, row, mem, turn, count, labels, faults>>
      /\ Report("failed", Tainted(cur), AfterRun(cur))
  BY DEF RunFails, Works
<1>3. shaped' \subseteq Jobs /\ trusted' \subseteq Jobs
  BY <1>2 DEF Inv, TypeOK, labels
<1> QED
  BY <1>1, <1>2, <1>3, RunFacts, AfterRunType, ReportsInv DEF labels

LEMMA RunFindsNothingInv == ASSUME Inv, RunFindsNothing PROVE Inv'
<1> USE DEF labels, mem, effects
<1>1. pc = "run" /\ UNCHANGED <<turn, labels>>
  BY DEF RunFindsNothing
<1>2. CASE Report("expired", Tainted(cur), "cancel") /\ UNCHANGED <<row, mem, count>> /\ Works
  <2>1. "expired" \in Texts \ {"none"}
    BY DEF Texts
  <2>2. shaped' \subseteq Jobs /\ trusted' \subseteq Jobs
    BY <1>1 DEF Inv, TypeOK
  <2> QED BY <1>1, <1>2, <2>1, <2>2, RunFacts, ReportsInv DEF Works
<1>3. CASE StoreError /\ UNCHANGED count
  BY <1>1, <1>3, Deferred DEF StoreError
<1>4. CASE /\ row' = [row EXCEPT ![cur] = IF @.live THEN Advanced(@) ELSE @]
           /\ count' = [count EXCEPT ![cur] = IF row[cur].live THEN NoCount ELSE @]
           /\ Leave /\ UNCHANGED mem /\ Works
  <2> USE <1>1, <1>4 DEF Works
  <2>1. /\ pc' = "pick" /\ cur' = NoJob /\ todo' = todo \ {cur}
        /\ snap' \in [Jobs -> Row]
        /\ \A j \in Jobs : j # cur => snap'[j] = snap[j]
    BY RunFacts, LeaveEffect DEF Inv
  <2>2. /\ row' \in [Jobs -> Row] /\ count' \in [Jobs -> Count]
        /\ \A j \in Jobs : j # cur => row'[j] = row[j] /\ count'[j] = count[j]
    <3>1. row[cur] \in Row /\ Advanced(row[cur]) \in Row /\ NoCount \in Count
      BY RunFacts, AdvancedRow, NoCountCount
    <3> QED
      BY <3>1 DEF Inv, TypeOK
  <2>3. \/ row[cur].live /\ row'[cur] = Advanced(row[cur]) /\ count'[cur] = NoCount
        \/ ~row[cur].live /\ row'[cur] = row[cur] /\ count'[cur] = count[cur]
    BY RunFacts DEF Inv, TypeOK
  <2>4. TypeOK'
    BY <2>1, <2>2 DEF Inv, TypeOK, SyncPoints
  <2>5. ControlInv' /\ StageInv'
    BY <2>1 DEF ControlInv, StageInv, RelayPoints, OutboxPoints
  <2>6. ASSUME NEW j \in Jobs, j = cur PROVE JobInv(j)'
    <3>1. j \in todo /\ j \notin todo' /\ j # cur'
      BY <2>1, <2>6, RunFacts, JobsAssumption
    <3>2. Fresh(j)'
      BY <3>1 DEF Fresh
    <3>3. CASE row[cur].live
      <4>1. /\ row'[j].live /\ ~row'[j].sent /\ ~row'[j].recorded
            /\ row'[j].text = "none" /\ ~row'[j].delivered
            /\ count'[j].phone = 0 /\ count'[j].record = 0
            /\ count'[j].told = 0 /\ count'[j].hist = 0
        BY <2>3, <2>6, <3>3, RunFacts, AdvancedRow, NoCountCount, ZenonT(30)
      <4>2. /\ j \notin relaySent /\ j \notin relayRecorded /\ j \notin notified
            /\ JobInv(j) /\ Kind(j) # "relay"
        BY <2>6, RunFacts DEF JobInv, RelayKnown, ReportKnown
      <4> QED
        BY <3>1, <3>2, <4>1, <4>2
           DEF JobInv, RelayKnown, Unfinished, ReportKnown, NotBeforeTurn, Labelled
    <3>4. CASE ~row[cur].live
      BY <2>3, <2>6, <3>1, <3>2, <3>4, RunFacts
         DEF JobInv, RelayKnown, Unfinished, ReportKnown, NotBeforeTurn, Labelled
    <3> QED BY <3>3, <3>4
  <2>7. \A j \in Jobs : j # cur => Untouched(j)
    BY <2>1, <2>2, JobsAssumption DEF Untouched
  <2> QED BY <2>4, <2>5, <2>6, <2>7, EachJob
<1> QED
  BY <1>2, <1>3, <1>4 DEF RunFindsNothing

LEMMA QueueInv == ASSUME Inv, Queue PROVE Inv'
<1> USE DEF labels, mem, effects
<1>1. /\ pc = "queue" /\ UNCHANGED <<turn, count, labels>>
      /\ row[cur].text = "none" /\ snap[cur].text # "none"
      /\ Kind(cur) = "relay" => row[cur].recorded
  BY DEF Queue, Inv, IInv, StageInv
<1>2. CASE StoreError
  BY <1>1, <1>2, Deferred DEF StoreError
<1>3. CASE ~row[cur].live /\ Forget /\ UNCHANGED backoff /\ Leave /\ UNCHANGED row /\ Works
  BY <1>1, <1>3, Dropped
<1>4. CASE /\ row[cur].live /\ row' = [row EXCEPT ![cur] = Queued(@, snap[cur])]
           /\ Goto(DeliverAt(cur, FALSE)) /\ UNCHANGED mem /\ Works
  <2> USE <1>1, <1>4 DEF Works, Goto
  <2>1. /\ cur \in Jobs /\ cur \in todo /\ cur # NoJob /\ JobInv(cur)
        /\ row[cur] \in Row /\ snap[cur] \in Row /\ count[cur] \in Count
    BY CurIsJob
  <2>2. count[cur].told = 0 /\ cur \notin notified
    BY <2>1 DEF JobInv, ReportKnown
  <2>3. /\ row' \in [Jobs -> Row]
        /\ \A j \in Jobs : j # cur => row'[j] = row[j]
        /\ row'[cur].live = row[cur].live /\ SameMarks(row'[cur], row[cur])
        /\ row'[cur].text = snap[cur].text /\ row'[cur].untrusted = snap[cur].untrusted
        /\ row'[cur].delivered = FALSE
    <3>0. /\ snap[cur].text \in Texts /\ snap[cur].untrusted \in BOOLEAN
          /\ snap[cur].after \in {"advance", "cancel"}
      BY <2>1, RowType
    <3>1. /\ Queued(row[cur], snap[cur]) \in Row
          /\ Queued(row[cur], snap[cur]).live = row[cur].live
          /\ SameMarks(Queued(row[cur], snap[cur]), row[cur])
          /\ Queued(row[cur], snap[cur]).text = snap[cur].text
          /\ Queued(row[cur], snap[cur]).untrusted = snap[cur].untrusted
          /\ Queued(row[cur], snap[cur]).delivered = FALSE
      BY <2>1, <3>0, QueuedRow
    <3> QED
      BY <2>1, <3>1 DEF Inv, TypeOK
  <2>4. pc' = "notify" /\ UNCHANGED <<cur, todo, snap>>
    BY <2>2 DEF DeliverAt
  <2>5. TypeOK'
    BY <2>3, <2>4 DEF Inv, TypeOK, AwaitPoints
  <2>6. ControlInv' /\ StageInv'
    BY <2>1, <2>2, <2>3, <2>4 DEF ControlInv, StageInv, RelayPoints, OutboxPoints
  <2>7. ASSUME NEW j \in Jobs, j = cur PROVE JobInv(j)'
    <3>1. Fresh(j)'
      BY <2>4, <2>7 DEF Fresh
    <3>2. RelayKnown(j)'
      BY <2>1, <2>3, <2>4, <2>7 DEF JobInv, RelayKnown, Unfinished, SameMarks
    <3>3. ReportKnown(j)'
      <4>1. ~(count[cur].hist > 0)
        BY <2>1 DEF JobInv, ReportKnown
      <4> QED
        BY <2>2, <2>3, <2>4, <2>7, <4>1 DEF ReportKnown
    <3>4. NotBeforeTurn(j)' /\ Labelled(j)'
      BY <2>1, <2>3, <2>4, <2>7 DEF JobInv, NotBeforeTurn, Labelled
    <3> QED BY <3>1, <3>2, <3>3, <3>4 DEF JobInv
  <2>8. \A j \in Jobs : j # cur => Untouched(j)
    BY <2>3, <2>4 DEF Untouched
  <2> QED BY <2>5, <2>6, <2>7, <2>8, EachJob
<1> QED
  BY <1>2, <1>3, <1>4 DEF Queue

LEMMA DeliverInv == ASSUME Inv, Deliver PROVE Inv'
<1> USE DEF labels, mem, effects, Works, Goto, Deliver
<1>1. /\ cur \in Jobs /\ cur \in todo /\ cur # NoJob /\ JobInv(cur)
      /\ row[cur].text # "none" /\ snap[cur].text # "none"
      /\ row[cur].delivered = snap[cur].delivered
      /\ row[cur] \in Row
  BY CurIsJob DEF JobInv, Fresh
<1>2. \/ pc' = "persist" /\ row[cur].delivered
      \/ pc' = "delivered_mark" /\ count[cur].told = 1
      \/ pc' = "notify" /\ count[cur].told = 0
  BY <1>1 DEF DeliverAt, JobInv, ReportKnown
<1>3. TypeOK'
  BY <1>2 DEF Inv, TypeOK, AwaitPoints, SyncPoints
<1>4. ControlInv' /\ StageInv'
  BY <1>1, <1>2 DEF ControlInv, StageInv, RelayPoints, OutboxPoints
<1>5. ASSUME NEW j \in Jobs, j = cur PROVE JobInv(j)'
  BY <1>1, <1>2, <1>5
     DEF JobInv, Fresh, RelayKnown, Unfinished, ReportKnown, NotBeforeTurn, Labelled
<1>6. \A j \in Jobs : j # cur => Untouched(j)
  BY DEF Untouched
<1> QED BY <1>3, <1>4, <1>5, <1>6, EachJob

\* What the last points of _deliver may rely on.
LEMMA OutboxFacts ==
    ASSUME Inv, pc \in OutboxPoints
    PROVE  /\ pc \notin {"idle", "pick"}
           /\ cur \in Jobs /\ cur \in todo /\ cur # NoJob /\ JobInv(cur)
           /\ row[cur] \in Row /\ snap[cur] \in Row /\ count[cur] \in Count
           /\ row[cur].text # "none" /\ snap[cur].text # "none"
BY CurIsJob DEF Inv, IInv, StageInv, OutboxPoints

LEMMA NotifyInv == ASSUME Inv, Notify PROVE Inv'
<1> USE DEF labels, mem, effects
<1>1. pc = "notify" /\ UNCHANGED <<row, turn, labels>> /\ count[cur].told = 0
  BY DEF Notify, Inv, IInv, StageInv
<1>2. CASE Fails /\ Defer /\ UNCHANGED count
  BY <1>1, <1>2, Deferred
<1>3. CASE /\ Happens("told") /\ notified' = notified \cup {cur}
           /\ UNCHANGED <<relaySent, relayRecorded, backoff>>
           /\ Goto("delivered_mark") /\ Works
  <2> USE <1>1, <1>3 DEF Works, Goto
  <2>1. /\ cur \in Jobs /\ cur \in todo /\ cur # NoJob /\ JobInv(cur)
        /\ row[cur].text # "none" /\ snap[cur].text # "none"
    BY OutboxFacts DEF OutboxPoints
  <2>2. /\ count' \in [Jobs -> Count]
        /\ \A j \in Jobs : j # cur => count'[j] = count[j]
        /\ count'[cur].phone = count[cur].phone /\ count'[cur].record = count[cur].record
        /\ count'[cur].told = 1 /\ count'[cur].hist = count[cur].hist
    BY <2>1, HappensEffect DEF Inv
  <2>3. TypeOK'
    BY <2>1, <2>2 DEF Inv, TypeOK, SyncPoints
  <2>4. ControlInv' /\ StageInv'
    BY <2>1, <2>2 DEF ControlInv, StageInv, RelayPoints, OutboxPoints
  <2>5. ASSUME NEW j \in Jobs, j = cur PROVE JobInv(j)'
    <3>1. Fresh(j)'
      BY <2>5 DEF Fresh
    <3>2. RelayKnown(j)' /\ ReportKnown(j)'
      BY <2>1, <2>2, <2>5 DEF JobInv, RelayKnown, Unfinished, ReportKnown
    <3>3. NotBeforeTurn(j)' /\ Labelled(j)'
      BY <2>1, <2>2, <2>5 DEF JobInv, NotBeforeTurn, Labelled
    <3> QED BY <3>1, <3>2, <3>3 DEF JobInv
  <2>6. \A j \in Jobs : j # cur => Untouched(j)
    BY <2>2 DEF Untouched
  <2> QED BY <2>3, <2>4, <2>5, <2>6, EachJob
<1> QED
  BY <1>2, <1>3 DEF Notify

LEMMA DeliveredMarkInv == ASSUME Inv, DeliveredMark PROVE Inv'
<1> USE DEF labels, mem, effects
<1>1. pc = "delivered_mark" /\ UNCHANGED <<turn, labels>> /\ count[cur].told = 1
  BY DEF DeliveredMark, Inv, IInv, StageInv
<1>2. /\ cur \in Jobs /\ cur \in todo /\ cur # NoJob /\ JobInv(cur)
      /\ row[cur].text # "none" /\ snap[cur].text # "none" /\ row[cur] \in Row
  BY <1>1, OutboxFacts DEF OutboxPoints
<1>3. CASE StoreError /\ UNCHANGED count
  BY <1>1, <1>3, Deferred DEF StoreError
<1>4. CASE /\ row' = [row EXCEPT ![cur] = DeliveredIn(@)] /\ Goto("persist")
           /\ UNCHANGED <<mem, count>> /\ Works
  <2> USE <1>1, <1>2, <1>4 DEF Works, Goto
  <2>1. /\ row' \in [Jobs -> Row]
        /\ \A j \in Jobs : j # cur => row'[j] = row[j]
        /\ row'[cur].live = row[cur].live /\ SameMarks(row'[cur], row[cur])
        /\ row'[cur].text = row[cur].text /\ row'[cur].untrusted = row[cur].untrusted
        /\ row'[cur].delivered = TRUE
    BY DeliveredRow DEF Inv, TypeOK
  <2>2. TypeOK'
    BY <2>1 DEF Inv, TypeOK, AwaitPoints
  <2>3. ControlInv' /\ StageInv'
    BY <2>1 DEF ControlInv, StageInv, RelayPoints, OutboxPoints
  <2>4. ASSUME NEW j \in Jobs, j = cur PROVE JobInv(j)'
    <3>1. Fresh(j)'
      BY <2>4 DEF Fresh
    <3>2. RelayKnown(j)' /\ ReportKnown(j)'
      BY <2>1, <2>4 DEF JobInv, RelayKnown, Unfinished, ReportKnown, SameMarks
    <3>3. NotBeforeTurn(j)' /\ Labelled(j)'
      BY <2>1, <2>4 DEF JobInv, NotBeforeTurn, Labelled
    <3> QED BY <3>1, <3>2, <3>3 DEF JobInv
  <2>5. \A j \in Jobs : j # cur => Untouched(j)
    BY <2>1 DEF Untouched
  <2> QED BY <2>2, <2>3, <2>4, <2>5, EachJob
<1> QED
  BY <1>2, <1>3, <1>4 DEF DeliveredMark

LEMMA PersistInv == ASSUME Inv, Persist PROVE Inv'
<1> USE DEF labels, mem, effects
<1>1. pc = "persist" /\ UNCHANGED <<row, turn, shaped>> /\ row[cur].delivered
  BY DEF Persist, Inv, IInv, StageInv
<1>2. CASE Fails /\ Defer /\ UNCHANGED <<count, trusted>>
  BY <1>1, <1>2, Deferred DEF OutboxPoints
<1>3. CASE /\ Happens("hist")
           /\ trusted' = IF snap[cur].untrusted THEN trusted \ {cur} ELSE trusted \cup {cur}
           /\ backoff' = backoff \ {cur} /\ UNCHANGED effects
           /\ Goto("finish") /\ Works
  <2> USE <1>1, <1>3 DEF Works, Goto
  <2>1. /\ cur \in Jobs /\ cur \in todo /\ cur # NoJob /\ JobInv(cur)
        /\ row[cur].text # "none" /\ snap[cur].text # "none" /\ count[cur] \in Count
    BY OutboxFacts DEF OutboxPoints
  <2>2. /\ count' \in [Jobs -> Count]
        /\ \A j \in Jobs : j # cur => count'[j] = count[j]
        /\ count'[cur].phone = count[cur].phone /\ count'[cur].record = count[cur].record
        /\ count'[cur].told = count[cur].told /\ count'[cur].hist = count[cur].hist + 1
    BY <2>1, HappensEffect DEF Inv
  <2>3. count'[cur].hist > 0
    BY <2>1, <2>2, CountType
  <2>4. TypeOK'
    BY <2>1, <2>2 DEF Inv, TypeOK, SyncPoints
  <2>5. ControlInv' /\ StageInv'
    BY <2>1, <2>2, <2>3 DEF ControlInv, StageInv, RelayPoints, OutboxPoints
  <2>6. ASSUME NEW j \in Jobs, j = cur PROVE JobInv(j)'
    <3>1. Fresh(j)'
      BY <2>6 DEF Fresh
    <3>2. RelayKnown(j)' /\ ReportKnown(j)'
      BY <2>1, <2>2, <2>6 DEF JobInv, RelayKnown, Unfinished, ReportKnown
    <3>3. NotBeforeTurn(j)'
      BY <2>1, <2>2, <2>6 DEF JobInv, NotBeforeTurn
    <3>4. Labelled(j)'
      BY <2>1, <2>6 DEF JobInv, Labelled
    <3> QED BY <3>1, <3>2, <3>3, <3>4 DEF JobInv
  <2>7. \A j \in Jobs : j # cur => Untouched(j)
    BY <2>2 DEF Untouched
  <2> QED BY <2>4, <2>5, <2>6, <2>7, EachJob
<1> QED
  BY <1>2, <1>3 DEF Persist

\* The end of a run: the row is cleared, and everything about it forgotten.
LEMMA RunOver ==
    ASSUME Inv, pc \in OutboxPoints, Forget, Leave, UNCHANGED <<backoff, turn, labels>>, Works,
           NEW w \in Row, row' = [row EXCEPT ![cur] = w],
           w.text = "none", ~w.delivered, w.live => ~w.sent /\ ~w.recorded,
           count' = [count EXCEPT ![cur] = NoCount]
    PROVE  Inv'
<1> USE DEF labels, Works, Forget
<1>1. /\ cur \in Jobs /\ cur \in todo /\ cur # NoJob /\ JobInv(cur)
  BY OutboxFacts
<1>2. /\ pc' = "pick" /\ cur' = NoJob /\ todo' = todo \ {cur}
      /\ snap' \in [Jobs -> Row]
      /\ \A j \in Jobs : j # cur => snap'[j] = snap[j]
  BY <1>1, LeaveEffect DEF Inv
<1>3. TypeOK'
  BY <1>2, NoCountCount DEF Inv, TypeOK, SyncPoints
<1>4. ControlInv' /\ StageInv'
  BY <1>2 DEF ControlInv, StageInv, RelayPoints, OutboxPoints
<1>5. ASSUME NEW j \in Jobs, j = cur PROVE JobInv(j)'
  <2>1. row'[j] = w /\ count'[j] = NoCount /\ j \in todo /\ j \notin todo' /\ j # cur'
    BY <1>1, <1>2, <1>5 DEF Inv, TypeOK
  <2>2. j \notin relaySent' /\ j \notin relayRecorded' /\ j \notin notified'
    BY <1>5
  <2>3. ~Unfinished(j)' \/ (~w.sent /\ ~w.recorded)
    BY <2>1 DEF Unfinished
  <2>4. Fresh(j)' /\ RelayKnown(j)' /\ ReportKnown(j)'
    BY <2>1, <2>2, <2>3, NoCountCount DEF Fresh, RelayKnown, ReportKnown
  <2>5. NotBeforeTurn(j)' /\ Labelled(j)'
    BY <1>1, <1>5, <2>1 DEF JobInv, NotBeforeTurn, Labelled
  <2> QED BY <2>4, <2>5 DEF JobInv
<1>6. \A j \in Jobs : j # cur => Untouched(j)
  BY <1>2, JobsAssumption DEF Untouched
<1> QED BY <1>3, <1>4, <1>5, <1>6, EachJob

LEMMA FinishInv == ASSUME Inv, Finish PROVE Inv'
<1> USE DEF labels, mem, effects
<1>1. /\ pc = "finish" /\ pc \in OutboxPoints /\ UNCHANGED <<turn, labels>>
      /\ row[cur].delivered /\ count[cur].hist > 0
  BY DEF Finish, Inv, IInv, StageInv, OutboxPoints
<1>2. /\ cur \in Jobs /\ cur \in todo /\ cur # NoJob /\ JobInv(cur)
      /\ row[cur].text # "none" /\ snap[cur].text # "none" /\ row[cur] \in Row
  BY <1>1, OutboxFacts
<1>3. CASE StoreError /\ UNCHANGED count
  BY <1>1, <1>3, Deferred DEF StoreError
<1>4. CASE /\ row' = [row EXCEPT ![cur] = Cancelled(@)] /\ Goto("clear")
           /\ UNCHANGED <<mem, count>> /\ Works
  <2> USE <1>1, <1>2, <1>4 DEF Works, Goto
  <2>1. /\ row' \in [Jobs -> Row]
        /\ \A j \in Jobs : j # cur => row'[j] = row[j]
        /\ row'[cur].live = FALSE /\ SameMarks(row'[cur], row[cur])
        /\ SameOutbox(row'[cur], row[cur])
    BY CancelledRow DEF Inv, TypeOK
  <2>2. TypeOK'
    BY <2>1 DEF Inv, TypeOK, SyncPoints
  <2>3. ControlInv' /\ StageInv'
    BY <2>1 DEF ControlInv, StageInv, RelayPoints, OutboxPoints, SameOutbox
  <2>4. ASSUME NEW j \in Jobs, j = cur PROVE JobInv(j)'
    <3>1. Fresh(j)'
      BY <2>4 DEF Fresh
    <3>2. RelayKnown(j)' /\ ReportKnown(j)'
      BY <2>1, <2>4 DEF JobInv, RelayKnown, Unfinished, ReportKnown, SameMarks, SameOutbox
    <3>3. NotBeforeTurn(j)' /\ Labelled(j)'
      BY <2>1, <2>4 DEF JobInv, NotBeforeTurn, Labelled, SameOutbox
    <3> QED BY <3>1, <3>2, <3>3 DEF JobInv
  <2>5. \A j \in Jobs : j # cur => Untouched(j)
    BY <2>1 DEF Untouched
  <2> QED BY <2>2, <2>3, <2>4, <2>5, EachJob
<1>5. CASE /\ row[cur].live /\ row' = [row EXCEPT ![cur] = Advanced(@)]
           /\ count' = [count EXCEPT ![cur] = NoCount]
           /\ Forget /\ UNCHANGED backoff /\ Leave /\ Works
  <2>1. /\ Advanced(row[cur]) \in Row /\ Advanced(row[cur]).text = "none"
        /\ ~Advanced(row[cur]).delivered
        /\ ~Advanced(row[cur]).sent /\ ~Advanced(row[cur]).recorded
    BY <1>2, AdvancedRow
  <2>2. row' = [row EXCEPT ![cur] = Advanced(row[cur])]
    BY <1>5
  <2> QED BY <1>1, <1>5, <2>1, <2>2, RunOver
<1>6. CASE ~row[cur].live /\ Forget /\ UNCHANGED backoff /\ Goto("clear")
           /\ UNCHANGED <<row, count>> /\ Works
  <2> USE <1>1, <1>2, <1>6 DEF Works, Goto, Forget
  <2>1. TypeOK'
    BY DEF Inv, TypeOK, SyncPoints
  <2>2. ControlInv' /\ StageInv'
    BY DEF ControlInv, StageInv, RelayPoints, OutboxPoints
  <2>3. ASSUME NEW j \in Jobs, j = cur PROVE JobInv(j)'
    BY <2>3 DEF JobInv, Fresh, RelayKnown, Unfinished, ReportKnown, NotBeforeTurn, Labelled
  <2>4. \A j \in Jobs : j # cur => Untouched(j)
    BY DEF Untouched
  <2> QED BY <2>1, <2>2, <2>3, <2>4, EachJob
<1> QED
  BY <1>3, <1>4, <1>5, <1>6 DEF Finish

LEMMA ClearInv == ASSUME Inv, Clear PROVE Inv'
<1>1. /\ pc = "clear" /\ pc \in OutboxPoints /\ UNCHANGED <<turn, labels>>
      /\ ~row[cur].live
  BY DEF Clear, Inv, IInv, StageInv, OutboxPoints
<1>2. CASE StoreError /\ UNCHANGED count
  BY <1>1, <1>2, Deferred DEF StoreError
<1>3. CASE /\ row' = [row EXCEPT ![cur] = Cleared(@)]
           /\ count' = [count EXCEPT ![cur] = NoCount]
           /\ Forget /\ UNCHANGED backoff /\ Leave /\ Works
  <2>1. /\ Cleared(row[cur]) \in Row /\ Cleared(row[cur]).text = "none"
        /\ ~Cleared(row[cur]).delivered /\ ~Cleared(row[cur]).live
    BY <1>1, OutboxFacts, ClearedRow
  <2>2. row' = [row EXCEPT ![cur] = Cleared(row[cur])]
    BY <1>3
  <2> QED BY <1>1, <1>3, <2>1, <2>2, RunOver
<1> QED
  BY <1>2, <1>3 DEF Clear

\* The owner's writes and the passing of time move neither the runner nor the
\* marks and the outbox of a row, and bring no row back to life.
LEMMA OwnerInv ==
    ASSUME Inv, NEW j \in Jobs, NEW w \in Row, row' = [row EXCEPT ![j] = w],
           SameMarks(w, row[j]), SameOutbox(w, row[j]), w.live => row[j].live,
           pc = "clear" => ~w.live,
           turn' \in [Jobs -> {"unborn", "open", "over", "failed"}],
           \A i \in Jobs : i # j => turn'[i] = turn[i],
           turn'[j] = turn[j] \/ turn'[j] \in {"over", "failed"},
           faults' \in 0..MaxFaults, UNCHANGED <<profile, mem, runner, count, labels>>
    PROVE  Inv'
<1> USE DEF mem, effects, runner, labels
<1>1. JobInv(j) /\ row'[j] = w
  BY DEF Inv, IInv, TypeOK
<1>2. \A i \in Jobs : i # j => row'[i] = row[i]
  BY DEF Inv, TypeOK
<1>3. TypeOK'
  BY DEF Inv, TypeOK
<1>4. ControlInv'
  BY DEF Inv, IInv, ControlInv
<1>5. StageInv'
  <2>1. pc \in {"idle", "pick"} \/ cur \in Jobs
    BY CurIsJob
  <2>2. CASE cur \in Jobs
    <3>1. SameMarks(row'[cur], row[cur]) /\ SameOutbox(row'[cur], row[cur])
      BY <1>1, <1>2, <2>2 DEF SameMarks, SameOutbox
    <3>2. pc = "clear" => ~row'[cur].live
      BY <1>1, <1>2, <2>2 DEF Inv, IInv, StageInv
    <3> QED
      BY <3>1, <3>2 DEF Inv, IInv, StageInv, SameMarks, SameOutbox
  <2>3. CASE pc \in {"idle", "pick"}
    BY <2>3 DEF StageInv, RelayPoints, OutboxPoints
  <2> QED BY <2>1, <2>2, <2>3
<1>6. JobInv(j)'
  <2>1. Fresh(j)' /\ ReportKnown(j)'
    BY <1>1 DEF JobInv, Fresh, ReportKnown, SameMarks, SameOutbox
  <2>2. RelayKnown(j)'
    BY <1>1 DEF JobInv, RelayKnown, Unfinished, SameMarks, SameOutbox
  <2>3. NotBeforeTurn(j)' /\ Labelled(j)'
    BY <1>1 DEF JobInv, NotBeforeTurn, Labelled, SameMarks, SameOutbox
  <2> QED BY <2>1, <2>2, <2>3 DEF JobInv
<1>7. \A i \in Jobs : i # j => Untouched(i)
  BY <1>2 DEF Untouched
<1> QED BY <1>3, <1>4, <1>5, <1>6, <1>7, EachJob

LEMMA SaveInv == ASSUME Inv, NEW j \in Jobs, Save(j) PROVE Inv'
<1> USE DEF mem, effects, runner, labels, Works, Save
<1> DEFINE w == [row[j] EXCEPT !.live = TRUE]
<1>1. JobInv(j) /\ row[j] \in Row /\ row'[j] = w /\ j # cur
      /\ turn'[j] \in {"over", "open"}
      /\ \A i \in Jobs : i # j => row'[i] = row[i] /\ turn'[i] = turn[i]
  BY DEF Inv, IInv, TypeOK, JobInv, NotBeforeTurn
<1>2. w \in Row /\ SameMarks(w, row[j]) /\ SameOutbox(w, row[j])
  BY <1>1, OwnerRow
<1> HIDE DEF w
<1>3. TypeOK'
  <2>1. row' \in [Jobs -> Row]
    BY <1>2 DEF Inv, TypeOK, w
  <2> QED BY <2>1 DEF Inv, TypeOK
<1>4. ControlInv'
  BY DEF Inv, IInv, ControlInv
<1>5. StageInv'
  <2>1. cur \in Jobs => row'[cur] = row[cur]
    BY <1>1
  <2>2. pc \in {"idle", "pick"} \/ cur \in Jobs
    BY CurIsJob
  <2>3. CASE cur \in Jobs
    BY <2>1, <2>3 DEF Inv, IInv, StageInv
  <2>4. CASE pc \in {"idle", "pick"}
    BY <2>4 DEF StageInv, RelayPoints, OutboxPoints
  <2> QED BY <2>2, <2>3, <2>4
<1>6. JobInv(j)'
  <2>1. Fresh(j)' /\ ReportKnown(j)'
    BY <1>1, <1>2 DEF JobInv, Fresh, ReportKnown, SameMarks, SameOutbox
  <2>2. RelayKnown(j)'
    BY <1>1, <1>2 DEF JobInv, RelayKnown, Unfinished, NotBeforeTurn, SameMarks, SameOutbox
  <2>3. NotBeforeTurn(j)' /\ Labelled(j)'
    BY <1>1, <1>2 DEF JobInv, NotBeforeTurn, Labelled, SameMarks, SameOutbox
  <2> QED BY <2>1, <2>2, <2>3 DEF JobInv
<1>7. \A i \in Jobs : i # j => Untouched(i)
  BY <1>1 DEF Untouched
<1> QED BY <1>3, <1>4, <1>5, <1>6, <1>7, EachJob

LEMMA TurnEndsInv == ASSUME Inv, NEW j \in Jobs, TurnEnds(j) PROVE Inv'
<1>1. row[j] \in Row /\ row' = [row EXCEPT ![j] = row[j]]
  BY DEF TurnEnds, Inv, TypeOK
<1>2. /\ turn' \in [Jobs -> {"unborn", "open", "over", "failed"}]
      /\ \A i \in Jobs : i # j => turn'[i] = turn[i]
      /\ turn'[j] = "over"
  BY DEF TurnEnds, Inv, TypeOK
<1> QED
  BY <1>1, <1>2, FaultsType, OwnerInv
     DEF TurnEnds, SameMarks, SameOutbox, Yielded, AwaitPoints, runner, mem, effects, labels

LEMMA TurnFailsInv == ASSUME Inv, NEW j \in Jobs, TurnFails(j) PROVE Inv'
<1>1. row[j] \in Row /\ pc # "clear"
  BY DEF TurnFails, Inv, TypeOK, Yielded, AwaitPoints
<1>2. /\ turn' \in [Jobs -> {"unborn", "open", "over", "failed"}]
      /\ \A i \in Jobs : i # j => turn'[i] = turn[i]
      /\ turn'[j] = "failed"
  BY DEF TurnFails, Inv, TypeOK
<1>3. PICK w \in Row : /\ row' = [row EXCEPT ![j] = w]
                       /\ SameMarks(w, row[j]) /\ SameOutbox(w, row[j])
                       /\ w.live => row[j].live
  <2>1. CASE row' = [row EXCEPT ![j] = Cancelled(@)]
    BY <1>1, <2>1, CancelledRow
  <2>2. CASE UNCHANGED row
    <3>1. row' = [row EXCEPT ![j] = row[j]]
      BY <2>2 DEF Inv, TypeOK
    <3> QED BY <1>1, <3>1 DEF SameMarks, SameOutbox
  <2> QED BY <2>1, <2>2 DEF TurnFails
<1>4. faults' \in 0..MaxFaults /\ UNCHANGED <<profile, mem, runner, count, labels>>
  BY FaultsType DEF TurnFails
<1> QED
  BY <1>1, <1>2, <1>3, <1>4, OwnerInv

\* The steps of Others that write one row and nothing else.
LEMMA RowOnlyInv ==
    ASSUME Inv, NEW j \in Jobs, NEW w \in Row, row' = [row EXCEPT ![j] = w],
           SameMarks(w, row[j]), SameOutbox(w, row[j]), w.live => row[j].live,
           pc # "clear", Works, UNCHANGED <<mem, turn, runner, count, labels>>
    PROVE  Inv'
<1>1. turn' \in [Jobs -> {"unborn", "open", "over", "failed"}]
  BY DEF Inv, TypeOK
<1> QED BY <1>1, FaultsType, OwnerInv

LEMMA CancelInv == ASSUME Inv, NEW j \in Jobs, Cancel(j) PROVE Inv'
<1>1. row[j] \in Row
  BY DEF Inv, TypeOK
<1>2. row' = [row EXCEPT ![j] = Cancelled(row[j])]
  BY DEF Cancel
<1> QED
  BY <1>1, <1>2, CancelledRow, RowOnlyInv DEF Cancel, Yielded, AwaitPoints

LEMMA RescheduleInv == ASSUME Inv, NEW j \in Jobs, Reschedule(j) PROVE Inv'
<1>1. row[j] \in Row
  BY DEF Inv, TypeOK
<1>2. row' = [row EXCEPT ![j] = Rescheduled(row[j])]
  BY DEF Reschedule
<1> QED
  BY <1>1, <1>2, OwnerRow, LiveRow, RowOnlyInv DEF Reschedule, Yielded, AwaitPoints

LEMMA RipenInv == ASSUME Inv, NEW j \in Jobs, Ripen(j) PROVE Inv'
<1>1. row[j] \in Row
  BY DEF Inv, TypeOK
<1>2. row' = [row EXCEPT ![j] = [row[j] EXCEPT !.due = TRUE]]
  BY DEF Ripen
<1> QED
  BY <1>1, <1>2, OwnerRow, LiveRow, RowOnlyInv DEF Ripen

LEMMA ExpireInv == ASSUME Inv, NEW j \in Jobs, Expire(j) PROVE Inv'
<1>1. row[j] \in Row
  BY DEF Inv, TypeOK
<1>2. row' = [row EXCEPT ![j] = [row[j] EXCEPT !.expired = TRUE]]
  BY DEF Expire
<1> QED
  BY <1>1, <1>2, OwnerRow, LiveRow, RowOnlyInv DEF Expire

LEMMA BackoffOverInv == ASSUME Inv, NEW j \in Jobs, BackoffOver(j) PROVE Inv'
<1> USE DEF effects, runner, labels, Works, BackoffOver
<1>1. TypeOK'
  BY DEF Inv, TypeOK
<1>2. ControlInv' /\ StageInv'
  BY DEF Inv, IInv, ControlInv, StageInv
<1>3. \A i \in Jobs : Untouched(i)
  BY DEF Untouched
<1> QED BY <1>1, <1>2, <1>3, EachJob

LEMMA RestartInv == ASSUME Inv, Restart PROVE Inv'
<1> USE DEF labels, Restart
<1>1. faults' \in 0..MaxFaults /\ UNCHANGED profile
  BY FaultsType
<1>2. ASSUME NEW j \in Jobs
      PROVE  /\ row[j] \in Row /\ count[j] \in Count /\ JobInv(j)
             /\ row'[j] = row[j] /\ count'[j] = Known(count[j], row[j])
             /\ turn'[j] = IF turn[j] = "open" THEN "over" ELSE turn[j]
  BY DEF Inv, IInv, TypeOK
<1>3. TypeOK'
  <2>1. count' \in [Jobs -> Count]
    BY <1>2, KnownCount
  <2> QED
    BY <1>1, <2>1, BlankRow DEF Inv, TypeOK, AwaitPoints
<1>4. ControlInv' /\ StageInv'
  BY DEF ControlInv, StageInv, RelayPoints, OutboxPoints
<1>5. ASSUME NEW j \in Jobs PROVE JobInv(j)'
  <2>1. /\ count'[j].phone = (IF row[j].sent THEN count[j].phone ELSE 0)
        /\ count'[j].record = (IF row[j].recorded THEN count[j].record ELSE 0)
        /\ count'[j].told = (IF row[j].delivered THEN count[j].told ELSE 0)
        /\ count'[j].hist = count[j].hist
    BY <1>2, KnownCount
  <2>2. Unfinished(j)' => Unfinished(j)
    BY <1>2 DEF Unfinished
  <2>3. Fresh(j)'
    BY DEF Fresh
  <2>4. RelayKnown(j)'
    BY <1>1, <1>2, <2>1, <2>2 DEF JobInv, RelayKnown
  <2>5. ReportKnown(j)'
    BY <1>2, <2>1 DEF JobInv, ReportKnown
  <2>6. NotBeforeTurn(j)'
    BY <1>2, <2>1, JobsAssumption DEF JobInv, NotBeforeTurn
  <2>7. Labelled(j)'
    BY <1>1, <1>2 DEF JobInv, Labelled
  <2> QED BY <2>3, <2>4, <2>5, <2>6, <2>7 DEF JobInv
<1> QED BY <1>3, <1>4, <1>5 DEF Inv, IInv

-----------------------------------------------------------------------------
(* Type correctness and the safety invariants.                             *)

LEMMA NextInv == Inv /\ [Next]_vars => Inv'
<1> SUFFICES ASSUME Inv, [Next]_vars PROVE Inv'
  OBVIOUS
<1>1. CASE RelaySteps
  BY <1>1, RelayMarkAgainInv, RelayResumeInv, RelayBeginInv, RelaySentInv,
     RelayFailsInv, RelayMarkInv, RecordInv, RecordMarkInv DEF RelaySteps
<1>2. CASE RunSteps
  BY <1>2, CheckRefusedInv, CheckInv, RunReportsInv, RunFailsInv, RunFindsNothingInv
     DEF RunSteps
<1>3. CASE OutboxSteps
  BY <1>3, QueueInv, DeliverInv, NotifyInv, DeliveredMarkInv, PersistInv, FinishInv,
     ClearInv DEF OutboxSteps
<1>4. ASSUME NEW j \in Jobs, Others(j) PROVE Inv'
  BY <1>4, SaveInv, TurnEndsInv, TurnFailsInv, CancelInv, RescheduleInv, RipenInv,
     ExpireInv, BackoffOverInv DEF Others
<1>5. CASE Runner
  BY <1>1, <1>2, <1>3, <1>5, TickInv, SkipInv, PickInv, TickEndsInv DEF Runner
<1>6. CASE UNCHANGED vars
  BY <1>6 DEF vars, mem, effects, runner, labels, Inv, TypeOK, IInv, ControlInv, StageInv,
              JobInv, Fresh, RelayKnown, Unfinished, ReportKnown, NotBeforeTurn, Labelled
<1> QED
  BY <1>4, <1>5, <1>6, RestartInv DEF Next

\* The inductive invariant holds in every state the runner of scheduler.py and
\* the other tasks of the event loop can reach, restarts included.
THEOREM Invariance == Spec => []Inv
<1> QED
  BY InitInv, NextInv, PTL DEF Spec

\* Every variable keeps its type: cur is a job of the tick whenever _fire runs.
THEOREM TypeCorrect == Spec => []TypeOK
<1>1. Inv => TypeOK
  BY DEF Inv
<1> QED
  BY <1>1, Invariance, PTL

\* The three memory sets of the runner do what they are for: whichever writes
\* fail, no relay send, relay record or report is repeated within a run of a
\* job unless a restart forgot it.
THEOREM NothingTwice == Spec => []EffectsOnce
<1>1. Inv => EffectsOnce
  <2> SUFFICES ASSUME Inv, NEW j \in Jobs
               PROVE  count[j].phone <= 1 /\ count[j].record <= 1 /\ count[j].told <= 1
    BY DEF EffectsOnce
  <2> QED
    BY DEF Inv, IInv, JobInv, RelayKnown, ReportKnown
<1> QED
  BY <1>1, Invariance, PTL

\* _fire confirms a relay only after its record, and _deliver appends to the
\* history only what the phone got.
THEOREM Ordered == Spec => []InOrder
<1>1. Inv => InOrder
  <2> SUFFICES ASSUME Inv, NEW j \in Jobs
               PROVE  /\ Kind(j) = "relay" /\ count[j].told > 0 => count[j].record > 0
                      /\ count[j].hist > 0 => count[j].told > 0
    BY DEF InOrder
  <2>1. JobInv(j)
    BY DEF Inv, IInv
  <2> QED
    BY <2>1 DEF JobInv, RelayKnown, ReportKnown, Unfinished
<1> QED
  BY <1>1, Invariance, PTL

\* holds_job is enough: nothing of a job reaches a phone before the turn that
\* saved it has answered.
THEOREM Holds == Spec => []HeldUntilAnswered
<1>1. Inv => HeldUntilAnswered
  BY DEF Inv, IInv, JobInv, NotBeforeTurn, HeldUntilAnswered
<1> QED
  BY <1>1, Invariance, PTL

\* The label of a report survives the outbox, retries and restarts: untrusted
\* text is never in the history as the assistant's own.
THEOREM Labels == Spec => []LabelKept
<1>1. Inv => LabelKept
  BY DEF Inv, TypeOK, IInv, JobInv, Labelled, LabelKept
<1> QED
  BY <1>1, Invariance, PTL

\* Whatever the owner cancels or reschedules during the send, the outbox of the
\* report being delivered is there for mark_job_delivered.
THEOREM OutboxStays == Spec => []OutboxStillThere
<1>1. Inv => OutboxStillThere
  BY DEF Inv, IInv, StageInv, OutboxPoints, OutboxStillThere
<1> QED
  BY <1>1, Invariance, PTL

-----------------------------------------------------------------------------
(* The action properties and the refinement. Both rest on a classification *)
(* of the steps by what they do outside the runner.                        *)

\* The effect of a step on the phones and the histories.
Effect ==
    \/ UNCHANGED <<profile, count>>
    \/ pc = "relay_send" /\ Happens("phone") /\ UNCHANGED profile
    \/ pc = "record" /\ Happens("record") /\ UNCHANGED profile
    \/ pc = "notify" /\ Happens("told") /\ UNCHANGED profile
    \/ pc = "persist" /\ Happens("hist") /\ UNCHANGED profile
    \/ /\ pc \in {"finish", "clear"}
       /\ count' = [count EXCEPT ![cur] = NoCount] /\ UNCHANGED profile
    \/ Restart

LEMMA NoneIsNoCount ==
    ASSUME NEW c \in Count, c.phone = 0, c.record = 0, c.told = 0, c.hist = 0
    PROVE  c = NoCount
BY DEF Count, NoCount

LEMMA EffectOfStep == ASSUME Inv, Next PROVE Effect
<1>1. CASE RelaySteps
  BY <1>1 DEF RelaySteps, RelayMarkAgain, RelayResume, RelayBegin, RelaySent, RelayFails,
              RelayMark, Record, RecordMark, StoreError, Works, Fails, Effect
<1>2. CASE RunSteps
  <2>1. CASE RunFindsNothing
    <3>1. /\ cur \in Jobs /\ count[cur] \in Count /\ pc = "run"
          /\ JobInv(cur) /\ row[cur].text = "none" /\ Kind(cur) # "relay"
      BY <2>1, RunFacts DEF RunFindsNothing, Inv, TypeOK
    <3>2. count[cur] = NoCount
      BY <3>1, NoneIsNoCount, CountType DEF JobInv, RelayKnown, ReportKnown
    <3>3. [count EXCEPT ![cur] = IF row[cur].live THEN NoCount ELSE @] = count
      BY <3>1, <3>2 DEF Inv, TypeOK
    <3> QED
      BY <2>1, <3>3 DEF RunFindsNothing, StoreError, Works, Fails, Effect
  <2> QED
    BY <1>2, <2>1 DEF RunSteps, CheckRefused, Check, RunReports, RunFails, Works, Fails, Effect
<1>3. CASE OutboxSteps
  <2>1. DeliveredMark => row[cur].text # "none"
    BY DEF DeliveredMark, Inv, IInv, StageInv, OutboxPoints
  <2> QED
    BY <1>3, <2>1 DEF OutboxSteps, Queue, Deliver, Notify, DeliveredMark, Persist, Finish,
                      Clear, StoreError, Works, Fails, Effect
<1>4. ASSUME NEW j \in Jobs, Others(j) \/ Skip(j) \/ Pick(j) PROVE Effect
  BY <1>4 DEF Others, Save, TurnEnds, TurnFails, Cancel, Reschedule, Ripen, Expire,
              BackoffOver, Skip, Pick, Works, Fails, Effect
<1>5. CASE Tick \/ TickEnds
  BY <1>5 DEF Tick, TickEnds, Works, Effect
<1> QED
  BY <1>1, <1>2, <1>3, <1>4, <1>5 DEF Next, Runner, Effect

\* Nothing but a save brings a row to life, and only a live row gets a report.
LEMMA SilenceLasts ==
    ASSUME Inv, Next, NEW j \in Jobs, Silenced(j)
    PROVE  Silenced(j)'
<1> USE DEF Silenced
<1>1. row[j] \in Row
  BY DEF Inv, TypeOK
<1>2. pc \notin {"idle", "pick"} => cur \in Jobs /\ row[cur] \in Row
  BY CurIsJob
<1>3. turn'[j] # "unborn" /\ (row'[j].live = FALSE /\ row'[j].text = "none" => Silenced(j)')
  BY DEF Inv, TypeOK, Next, Runner, Others, RelaySteps, RunSteps, OutboxSteps,
         Tick, Skip, Pick, TickEnds, RelayMarkAgain, RelayResume, RelayBegin, RelaySent,
         RelayFails, RelayMark, Record, RecordMark, CheckRefused, Check, RunReports, RunFails,
         RunFindsNothing, Queue, Deliver, Notify, DeliveredMark, Persist, Finish, Clear,
         Save, TurnEnds, TurnFails, Cancel, Reschedule, Ripen, Expire, BackoffOver, Restart
<1>4. CASE row'[j] = row[j]
  BY <1>1, <1>3, <1>4, RowType
<1>5. CASE cur \in Jobs /\ row[cur] \in Row /\ row' = [row EXCEPT ![cur] = SentIn(@)]
  BY <1>1, <1>3, <1>5, SentRow, RowType DEF SameOutbox, Inv, TypeOK
<1>6. CASE cur \in Jobs /\ row[cur] \in Row /\ row' = [row EXCEPT ![cur] = DeliveredIn(@)]
  BY <1>1, <1>3, <1>6, DeliveredRow, RowType DEF Inv, TypeOK
<1>7. CASE cur \in Jobs /\ row[cur] \in Row /\ row' = [row EXCEPT ![cur] = Cleared(@)]
  BY <1>1, <1>3, <1>7, ClearedRow, RowType DEF Inv, TypeOK
<1>8. ASSUME NEW i \in Jobs, row' = [row EXCEPT ![i] = Cancelled(@)]
      PROVE  Silenced(j)'
  <2>1. row[i] \in Row
    BY DEF Inv, TypeOK
  <2> QED
    BY <1>1, <1>3, <1>8, <2>1, CancelledRow, RowType DEF SameOutbox, Inv, TypeOK
<1>9. ASSUME NEW i \in Jobs, i # j, \A k \in Jobs : k # i => row'[k] = row[k]
      PROVE  Silenced(j)'
  BY <1>4, <1>9
<1>10. CASE RelaySteps
  <2>1. CASE RecordMark /\ row[cur].live /\ row' = [row EXCEPT ![cur] = RecordedIn(@)]
    <3>1. cur \in Jobs /\ cur # j
      BY <1>2, <2>1 DEF RecordMark
    <3> QED
      BY <1>4, <2>1, <3>1 DEF Inv, TypeOK
  <2> QED
    BY <1>2, <1>4, <1>5, <1>10, <2>1
       DEF RelaySteps, RelayMarkAgain, RelayResume, RelayBegin, RelaySent, RelayFails,
           RelayMark, Record, RecordMark, StoreError, FiresRelay
<1>11. CASE RunSteps
  <2>1. CASE RunFindsNothing
    <3>1. cur \in Jobs
      BY <2>1, RunFacts DEF RunFindsNothing
    <3>2. UNCHANGED row \/ row' = [row EXCEPT ![cur] = IF @.live THEN Advanced(@) ELSE @]
      BY <2>1 DEF RunFindsNothing, StoreError
    <3>3. row'[j] = row[j]
      BY <3>1, <3>2 DEF Inv, TypeOK
    <3> QED BY <1>4, <3>3
  <2> QED
    BY <1>4, <1>11, <2>1 DEF RunSteps, CheckRefused, Check, RunReports, RunFails
<1>12. CASE OutboxSteps
  <2>1. CASE Queue \/ Finish
    <3>1. cur \in Jobs
      BY <1>2, <2>1 DEF Queue, Finish
    <3>2. CASE row[cur].live /\ \E w \in {Queued(row[cur], snap[cur]), Advanced(row[cur])} :
                                   row' = [row EXCEPT ![cur] = w]
      BY <1>4, <3>1, <3>2 DEF Inv, TypeOK
    <3> QED
      BY <1>4, <1>8, <2>1, <3>1, <3>2 DEF Queue, Finish, StoreError
  <2> QED
    BY <1>2, <1>4, <1>6, <1>7, <1>12, <2>1
       DEF OutboxSteps, Deliver, Notify, DeliveredMark, Persist, Clear, StoreError
<1>13. ASSUME NEW i \in Jobs, Others(i) PROVE Silenced(j)'
  <2>1. CASE i # j
    <3>1. row'[j] = row[j]
      BY <1>13, <2>1 DEF Inv, TypeOK, Others, Save, TurnEnds, TurnFails, Cancel, Reschedule,
                         Ripen, Expire, BackoffOver
    <3> QED BY <1>4, <3>1
  <2>2. CASE i = j
    BY <1>4, <1>8, <1>13, <2>2
       DEF Others, Save, TurnEnds, TurnFails, Cancel, Reschedule, Ripen, Expire, BackoffOver
  <2> QED BY <2>1, <2>2
<1>14. CASE Tick \/ TickEnds \/ (\E i \in Jobs : Skip(i) \/ Pick(i)) \/ Restart
  BY <1>4, <1>14 DEF Tick, TickEnds, Skip, Pick, Restart
<1> QED
  BY <1>10, <1>11, <1>12, <1>13, <1>14 DEF Next, Runner

\* queue_job_report refuses a cancelled row, so a job cancelled before its
\* report was stored is never reported, even if it was already being run.
THEOREM CancelIsSilent == Spec => CancelledIsSilent
<1>1. Inv /\ [Next]_vars =>
        [\A j \in Jobs : Silenced(j) => Silenced(j)' /\ count'[j].told <= count[j].told]_vars
  <2> SUFFICES ASSUME Inv, Next, NEW j \in Jobs, Silenced(j)
               PROVE  count'[j].told <= count[j].told
    BY SilenceLasts
  <2>1. count[j].told = 0 /\ count[j] \in Count /\ row[j].text = "none"
    BY DEF Inv, TypeOK, IInv, JobInv, ReportKnown, Silenced
  <2>2. Effect
    BY EffectOfStep
  <2>3. CASE UNCHANGED <<profile, count>>
    BY <2>1, <2>3
  <2>4. CASE pc = "notify" /\ Happens("told")
    <3>1. cur \in Jobs /\ cur # j
      BY <2>1, <2>4, OutboxFacts DEF OutboxPoints
    <3> QED
      BY <2>1, <2>4, <3>1, HappensEffect DEF Inv
  <2>5. ASSUME NEW e \in {"phone", "record", "hist"}, pc \notin {"idle", "pick"}, Happens(e)
        PROVE  count'[j].told <= count[j].told
    <3>1. cur \in Jobs
      BY <2>5, CurIsJob
    <3> QED
      BY <2>1, <2>5, <3>1, HappensEffect DEF Inv
  <2>6. CASE count' = [count EXCEPT ![cur] = NoCount]
    BY <2>1, <2>6, NoCountCount DEF Inv, TypeOK
  <2>7. CASE Restart
    <3>1. count'[j] = Known(count[j], row[j]) /\ row[j] \in Row
      BY <2>7 DEF Restart, Inv, TypeOK
    <3> QED
      BY <2>1, <3>1, KnownCount
  <2> QED
    BY <2>2, <2>3, <2>4, <2>5, <2>6, <2>7 DEF Effect
<1> QED
  BY <1>1, Invariance, PTL DEF Spec, CancelledIsSilent

\* A report that mark_job_delivered marked leaves the outbox only after
\* persist_job_report appended it.
THEOREM DeliveredStays == Spec => DeliveredIsKept
<1>1. Inv /\ [Next]_vars =>
        [\A j \in Jobs : row[j].delivered /\ ~row'[j].delivered => count[j].hist > 0]_vars
  <2> SUFFICES ASSUME Inv, Next, NEW j \in Jobs, row[j].delivered, ~(count[j].hist > 0)
               PROVE  row'[j].delivered
    OBVIOUS
  <2>1. row[j] \in Row /\ row[j].text # "none"
    BY DEF Inv, TypeOK, IInv, JobInv, ReportKnown
  <2>2. pc \notin {"idle", "pick"} => cur \in Jobs /\ row[cur] \in Row
    BY CurIsJob
  <2>3. CASE UNCHANGED row
    BY <2>3
  <2>4. CASE pc \notin {"idle", "pick"} /\ row' = [row EXCEPT ![cur] = SentIn(@)]
    BY <2>1, <2>2, <2>4, SentRow DEF SameOutbox, Inv, TypeOK
  <2>5. CASE pc \notin {"idle", "pick"} /\ row' = [row EXCEPT ![cur] = RecordedIn(@)]
    BY <2>1, <2>2, <2>5, RecordedRow DEF SameOutbox, Inv, TypeOK
  <2>6. CASE pc \notin {"idle", "pick"} /\ row' = [row EXCEPT ![cur] = DeliveredIn(@)]
    BY <2>1, <2>2, <2>6, DeliveredRow DEF Inv, TypeOK
  <2>7. CASE RelaySteps
    BY <2>3, <2>4, <2>5, <2>7
       DEF RelaySteps, RelayMarkAgain, RelayResume, RelayBegin, RelaySent, RelayFails,
           RelayMark, Record, RecordMark, StoreError, FiresRelay
  <2>8. CASE RunSteps
    <3>1. CASE RunFindsNothing
      <4>1. pc = "run" /\ j # cur
        BY <2>1, <3>1, RunFacts DEF RunFindsNothing
      <4> QED
        BY <3>1, <4>1, <2>3 DEF RunFindsNothing, StoreError, Inv, TypeOK
    <3> QED
      BY <2>3, <2>8, <3>1 DEF RunSteps, CheckRefused, Check, RunReports, RunFails
  <2>9. CASE OutboxSteps
    <3>1. CASE Queue
      <4>1. j # cur
        BY <2>1, <3>1 DEF Queue, Inv, IInv, StageInv
      <4> QED
        BY <3>1, <4>1, <2>3 DEF Queue, StoreError, Inv, TypeOK
    <3>2. CASE Finish \/ Clear
      <4>1. j # cur
        BY <3>2 DEF Finish, Clear, Inv, IInv, StageInv
      <4> QED
        BY <3>2, <4>1, <2>3 DEF Finish, Clear, StoreError, Inv, TypeOK
    <3> QED
      BY <2>3, <2>6, <2>9, <3>1, <3>2
         DEF OutboxSteps, Deliver, Notify, DeliveredMark, Persist, StoreError
  <2>10. ASSUME NEW i \in Jobs, Others(i) PROVE row'[j].delivered
    <3>1. row[i] \in Row
      BY DEF Inv, TypeOK
    <3>2. CASE UNCHANGED row
      BY <2>3, <3>2
    <3>3. CASE row' = [row EXCEPT ![i] = Cancelled(@)]
      BY <3>1, <3>3, CancelledRow DEF SameOutbox, Inv, TypeOK
    <3>4. ASSUME NEW w \in {Rescheduled(row[i]), [row[i] EXCEPT !.due = TRUE],
                            [row[i] EXCEPT !.expired = TRUE], [row[i] EXCEPT !.live = TRUE]},
                 row' = [row EXCEPT ![i] = w]
          PROVE  row'[j].delivered
      <4>1. SameOutbox(w, row[i])
        BY <3>1, <3>4, OwnerRow
      <4> QED
        BY <3>4, <4>1 DEF SameOutbox, Inv, TypeOK
    <3> QED
      BY <2>10, <3>2, <3>3, <3>4
         DEF Others, Save, TurnEnds, TurnFails, Cancel, Reschedule, Ripen, Expire, BackoffOver
  <2>11. CASE Tick \/ TickEnds \/ (\E i \in Jobs : Skip(i) \/ Pick(i)) \/ Restart
    BY <2>3, <2>11 DEF Tick, TickEnds, Skip, Pick, Restart
  <2> QED
    BY <2>7, <2>8, <2>9, <2>10, <2>11 DEF Next, Runner
<1> QED
  BY <1>1, Invariance, PTL DEF Spec, DeliveredIsKept

\* The runner, its rows and its marks implement JobContract: every step is one
\* of the contract's, a restart included, or changes nothing outside.
THEOREM Implements == Spec => ImplementsContract
<1>1. Init => Contract!Init
  BY DEF Init, Contract!Init, NoCount, Contract!NoCount
<1>2. Inv /\ [Next]_vars => [Contract!Next]_<<profile, count>>
  <2> SUFFICES ASSUME Inv, Next
               PROVE  Contract!Next \/ UNCHANGED <<profile, count>>
    BY DEF vars
  <2>1. pc \notin {"idle", "pick"} => cur \in Jobs /\ JobInv(cur) /\ count[cur] \in Count
    BY CurIsJob
  <2>2. CASE pc = "relay_send" /\ Happens("phone") /\ UNCHANGED profile
    <3>1. /\ cur \in Jobs /\ Kind(cur) = "relay"
          /\ count[cur].phone = 0 /\ count[cur].told = 0
      BY <2>1, <2>2 DEF Inv, IInv, StageInv, RelayPoints, JobInv, ReportKnown
    <3>2. Contract!Send(cur)
      BY <2>2, <3>1 DEF Happens, Add, Contract!Send, Contract!Add, Contract!Relays
    <3> QED BY <3>1, <3>2 DEF Contract!Next
  <2>3. CASE pc = "record" /\ Happens("record") /\ UNCHANGED profile
    <3>1. /\ cur \in Jobs /\ Kind(cur) = "relay"
          /\ count[cur].phone = 1 /\ count[cur].record = 0
      BY <2>1, <2>3 DEF Inv, IInv, StageInv, RelayPoints
    <3>2. Contract!Record(cur)
      BY <2>3, <3>1 DEF Happens, Add, Contract!Record, Contract!Add, Contract!Relays
    <3> QED BY <3>1, <3>2 DEF Contract!Next
  <2>4. CASE pc = "notify" /\ Happens("told") /\ UNCHANGED profile
    <3>1. cur \in Jobs /\ JobInv(cur) /\ count[cur].told = 0 /\ row[cur].text # "none"
      BY <2>1, <2>4, OutboxFacts DEF Inv, IInv, StageInv, OutboxPoints
    <3>2. ~(count[cur].hist > 0) /\ count[cur].hist \in Nat
      BY <2>1, <2>4, <3>1, CountType DEF JobInv, ReportKnown
    <3>3. Kind(cur) = "relay" => count[cur].record = 1
      BY <3>1 DEF JobInv, RelayKnown, Unfinished
    <3>4. Contract!Tell(cur)
      BY <2>4, <3>1, <3>2, <3>3 DEF Happens, Add, Contract!Tell, Contract!Add, Contract!Relays
    <3> QED BY <3>1, <3>4 DEF Contract!Next
  <2>5. CASE pc = "persist" /\ Happens("hist") /\ UNCHANGED profile
    <3>1. cur \in Jobs /\ count[cur].told = 1
      BY <2>1, <2>5 DEF Inv, IInv, StageInv, JobInv, ReportKnown
    <3>2. Contract!Remember(cur)
      BY <2>5, <3>1 DEF Happens, Add, Contract!Remember, Contract!Add
    <3> QED BY <3>1, <3>2 DEF Contract!Next
  <2>6. CASE /\ pc \in {"finish", "clear"}
             /\ count' = [count EXCEPT ![cur] = NoCount] /\ UNCHANGED profile
    <3>1. cur \in Jobs /\ count[cur].hist > 0
      BY <2>1, <2>6 DEF Inv, IInv, StageInv
    <3>2. Contract!Close(cur)
      BY <2>6, <3>1 DEF Contract!Close, NoCount, Contract!NoCount
    <3> QED BY <3>1, <3>2 DEF Contract!Next
  <2>7. CASE Restart
    <3> DEFINE kept == [j \in Jobs |-> [phone  |-> row[j].sent,
                                        record |-> row[j].recorded,
                                        told   |-> row[j].delivered]]
    <3>1. ASSUME NEW j \in Jobs
          PROVE  /\ row[j].sent \in BOOLEAN /\ row[j].recorded \in BOOLEAN
                 /\ row[j].delivered \in BOOLEAN
                 /\ count[j].hist > 0 => row[j].delivered
                 /\ Kind(j) = "relay" /\ count[j].told > 0 => row[j].recorded
      <4>1. row[j] \in Row /\ JobInv(j)
        BY DEF Inv, TypeOK, IInv
      <4> QED
        BY <4>1, RowType DEF JobInv, RelayKnown, ReportKnown
    <3>2. kept \in [Jobs -> [phone: BOOLEAN, record: BOOLEAN, told: BOOLEAN]]
      BY <3>1
    <3>3. \A j \in Jobs : /\ count[j].hist > 0 => kept[j].told
                          /\ Contract!Relays(j) /\ count[j].told > 0 => kept[j].record
      BY <3>1 DEF Contract!Relays
    <3>4. count' = [j \in Jobs |->
                     [phone  |-> IF kept[j].phone THEN count[j].phone ELSE 0,
                      record |-> IF kept[j].record THEN count[j].record ELSE 0,
                      told   |-> IF kept[j].told THEN count[j].told ELSE 0,
                      hist   |-> count[j].hist]]
      BY <2>7 DEF Restart, Known
    <3>5. UNCHANGED profile
      BY <2>7 DEF Restart, Fails
    <3> HIDE DEF kept
    <3>6. Contract!Forget
      BY <3>2, <3>3, <3>4, <3>5 DEF Contract!Forget
    <3> QED BY <3>6 DEF Contract!Next
  <2> QED
    BY <2>2, <2>3, <2>4, <2>5, <2>6, <2>7, EffectOfStep DEF Effect
<1> QED
  BY <1>1, <1>2, Invariance, PTL DEF Spec, ImplementsContract, Contract!Spec

=============================================================================
