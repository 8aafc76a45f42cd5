------------------------- MODULE ConversationProofs -------------------------
(***************************************************************************)
(* Proofs about Conversation, for any household, messages, offers, windows *)
(* and faults: a confirmed call runs at most once, after its preview and   *)
(* for its own person, labels follow what they label, failed turns stay    *)
(* out of the stored histories, no save overwrites what another task       *)
(* appended, nobody waits in a circle for the locks, and the module        *)
(* implements ConfirmContract.                                             *)
(***************************************************************************)
EXTENDS Conversation, FiniteSetTheorems, TLAPS

-----------------------------------------------------------------------------
(* The inductive invariant                                                 *)

\* Where a task has not answered yet.
Early == {"new", "resolving", "line", "model"}

Places == Early \cup {"commit", "inject", "summary", "reply", "done", "lost"}

\* The values that the invariant speaks of.
Types ==
    /\ prop \in [Agents -> Proposal \cup {NoProposal}]
    /\ held \in [Tasks -> Proposal \cup {NoProposal}]
    /\ at \in [Tasks -> Nat]
    /\ offer \in [Tasks -> Seq(Calls)]
    /\ runs \in [Tasks -> Nat]
    /\ saved \in [Tasks -> {"none", "clean", "tainted"}]
    /\ shaped \subseteq Tasks
    /\ pc \in [Procs -> Places]
    /\ msg \in [Procs -> [to: Agents, text: Texts] \cup {NoMessage}]

\* Where a task is tells how far it has come: an early one has offered and
\* taken nothing, one that commits is at the call after those that ran.
Placed(t) ==
    /\ pc[t] # "new" => To(t) \in Agents
    /\ pc[t] \in Early => offer[t] = <<>> /\ Of(t) = Nobody
    /\ pc[t] = "commit" => /\ Of(t) \in Tasks
                           /\ at[t] = runs[Of(t)] + 1 /\ at[t] <= Len(offer[Of(t)])
    /\ pc[t] = "inject" => /\ Of(t) \in Tasks
                           /\ at[t] = runs[Of(t)] /\ at[t] <= Len(offer[Of(t)])
    /\ pc[t] = "summary" => Of(t) \in Tasks

\* A yes took exactly what was shown, with its label, and took it alone.
Taken(t) ==
    Of(t) \in Tasks =>
        /\ held[t].calls = offer[Of(t)] /\ held[t].calls # <<>>
        /\ Of(t) \in shaped => held[t].tainted
        /\ \A u \in Tasks : Of(u) = Of(t) => u = t

\* A stored proposal is what was shown; nothing of it ran and nobody took it.
Pending(a) ==
    LET p == prop[a].of IN
    p \in Tasks =>
        /\ prop[a].calls = offer[p] /\ prop[a].calls # <<>>
        /\ runs[p] = 0
        /\ p \in shaped => prop[a].tainted
        /\ \A t \in Tasks : Of(t) # p
        /\ \A b \in Agents : prop[b].of = p => b = a

Counted(p) ==
    /\ runs[p] <= Len(offer[p])
    /\ offer[p] = <<>> => saved[p] = "none"
    /\ p \in shaped => offer[p] # <<>> /\ saved[p] # "clean"

ProposalInv ==
    /\ Types
    /\ \A t \in Tasks : Placed(t) /\ Taken(t) /\ Counted(t)
    /\ \A a \in Agents : Pending(a)

-----------------------------------------------------------------------------
(* Proposals                                                               *)

LEMMA NobodyFacts == Nobody \notin Tasks /\ Runner \notin Tasks /\ Nobody # Runner
BY NamesAssumption DEF Procs

LEMMA OfferFacts ==
    ASSUME NEW calls \in Offers
    PROVE  calls \in Seq(Calls) /\ calls # <<>> /\ Len(calls) \in Nat /\ Len(calls) > 0
<1>1. calls \in Seq(Calls) /\ calls # <<>>
  BY OffersAssumption
<1> QED BY <1>1

LEMMA ProposalFacts ==
    ASSUME NEW r \in Proposal \cup {NoProposal}
    PROVE  /\ r.of \in Tasks \cup {Nobody}
           /\ r # NoProposal <=> r.of \in Tasks
           /\ r.of \in Tasks =>
                r.calls \in Offers /\ r.tainted \in BOOLEAN /\ r.fresh \in BOOLEAN /\ r \in Proposal
           /\ r.tainted \in BOOLEAN
<1>1. CASE r \in Proposal
  <2>1. r.of \in Tasks /\ r.calls \in Offers /\ r.tainted \in BOOLEAN /\ r.fresh \in BOOLEAN
    BY <1>1 DEF Proposal
  <2>2. r # NoProposal
    BY <2>1, NobodyFacts DEF NoProposal
  <2> QED BY <1>1, <2>1, <2>2
<1>2. CASE r = NoProposal
  <2>1. r.of = Nobody /\ r.tainted = FALSE
    BY <1>2 DEF NoProposal
  <2> QED BY <1>2, <2>1, NobodyFacts
<1> QED BY <1>1, <1>2

LEMMA NoneOfAny == NoProposal.of = Nobody /\ NoProposal \in Proposal \cup {NoProposal}
BY DEF NoProposal

-----------------------------------------------------------------------------
(* What a step does to the proposals                                       *)

\* A task moves on, is lost, or begins, and no call is due after it.
Walks ==
    /\ pc' \in [Procs -> Places]
    /\ msg' \in [Procs -> [to: Agents, text: Texts] \cup {NoMessage}]
    /\ \A t \in Tasks :
         \/ pc'[t] = pc[t] /\ msg'[t] = msg[t]
         \/ /\ pc'[t] \notin {"commit", "inject"}
            /\ pc'[t] \in Early => pc[t] \in Early
            /\ pc'[t] = "summary" => Of(t) \in Tasks
            /\ pc'[t] # "new" => msg'[t].to \in Agents

Moves == Walks /\ UNCHANGED <<prop, yes, ghosts>>

Drops ==
    /\ Walks
    /\ \E a \in Agents : prop' = [prop EXCEPT ![a] = NoProposal]
    /\ UNCHANGED <<yes, ghosts>>

Ages ==
    /\ \E a \in Agents : prop[a].fresh /\ prop' = [prop EXCEPT ![a].fresh = FALSE]
    /\ UNCHANGED <<task, yes, ghosts>>

Stages(t, a, calls, tainted) ==
    /\ pc[t] = "model" /\ To(t) = a
    /\ pc' = [pc EXCEPT ![t] = "reply"] /\ UNCHANGED msg
    /\ prop' = [prop EXCEPT ![a] = [of |-> t, calls |-> calls, tainted |-> tainted, fresh |-> TRUE]]
    /\ offer' = [offer EXCEPT ![t] = calls]
    /\ shaped' = IF tainted THEN shaped \cup {t} ELSE shaped
    /\ UNCHANGED <<yes, runs, saved>>

Takes(t, a, claim) ==
    /\ pc[t] = "line" /\ To(t) = a
    /\ prop[a].of \in Tasks
    /\ claim \in Proposal /\ claim.of = prop[a].of /\ claim.calls = prop[a].calls
    /\ prop[a].tainted => claim.tainted
    /\ prop' = [prop EXCEPT ![a] = NoProposal]
    /\ held' = [held EXCEPT ![t] = claim]
    /\ at' = [at EXCEPT ![t] = 1]
    /\ pc' = [pc EXCEPT ![t] = "commit"] /\ UNCHANGED msg
    /\ UNCHANGED ghosts

\* The next call, or the summary after the last one.
Advances(t) ==
    /\ at' = [at EXCEPT ![t] = @ + 1]
    /\ pc' = [pc EXCEPT ![t] = IF at[t] = Len(held[t].calls) THEN "summary" ELSE "commit"]
    /\ UNCHANGED <<msg, held>>

Calling(t, label) ==
    /\ pc[t] = "commit"
    /\ runs' = [runs EXCEPT ![Of(t)] = @ + 1]
    /\ \/ Advances(t)
       \/ pc' = [pc EXCEPT ![t] = "inject"] /\ UNCHANGED <<msg, yes>>
    /\ saved' = [saved EXCEPT ![Of(t)] = label]
    /\ label \in {saved[Of(t)], IF held[t].tainted THEN "tainted" ELSE "clean"}
    /\ UNCHANGED <<prop, offer, shaped>>

Injects(t) == pc[t] = "inject" /\ Advances(t) /\ UNCHANGED <<prop, ghosts>>

Kind ==
    \/ Moves \/ Drops \/ Ages
    \/ \E t \in Tasks, a \in Agents, calls \in Offers, tainted \in BOOLEAN :
         Stages(t, a, calls, tainted)
    \/ \E t \in Tasks, a \in Agents : \E claim \in Proposal : Takes(t, a, claim)
    \/ \E t \in Tasks, label \in {"none", "clean", "tainted"} : Calling(t, label)
    \/ \E t \in Tasks : Injects(t)

-----------------------------------------------------------------------------
(* Every action is of one of these kinds.                                  *)

LEMMA GotoWalks ==
    ASSUME ProposalInv, NEW p \in Procs, NEW label \in Places, Goto(p, label),
           p \in Tasks => /\ pc[p] # "new" /\ label \notin {"commit", "inject"}
                          /\ label \in Early => pc[p] \in Early
                          /\ label = "summary" => Of(p) \in Tasks
    PROVE  Walks
<1>1. pc' \in [Procs -> Places] /\ UNCHANGED msg
  BY DEF ProposalInv, Types, Goto
<1>2. ASSUME NEW t \in Tasks, t # p
      PROVE  pc'[t] = pc[t]
  BY <1>2 DEF ProposalInv, Types, Goto, Procs
<1>3. ASSUME p \in Tasks
      PROVE  pc'[p] = label /\ msg[p].to \in Agents
  BY <1>3 DEF ProposalInv, Types, Goto, Procs, Placed, To
<1> QED
  BY <1>1, <1>2, <1>3 DEF Walks, ProposalInv, Types

LEMMA AnswerWalks ==
    ASSUME ProposalInv, NEW t \in Tasks, NEW answer, Answers(t, answer), pc[t] # "new"
    PROVE  Walks
<1>1. t \in Procs /\ Goto(t, "reply")
  BY DEF Answers, Procs
<1>2. "reply" \in Places /\ "reply" \notin {"commit", "inject"} /\ "reply" \notin Early /\ "reply" # "summary"
  BY DEF Early, Places
<1> QED BY <1>1, <1>2, GotoWalks

LEMMA ArriveKind ==
    ASSUME ProposalInv, NEW t \in Tasks, Arrive(t)
    PROVE  Kind
<1>1. PICK a \in Agents, text \in Texts, label \in {"resolving", "line"} :
        /\ msg' = [msg EXCEPT ![t] = [to |-> a, text |-> text]]
        /\ pc' = [pc EXCEPT ![t] = label]
  BY DEF Arrive
<1>2. pc[t] = "new" /\ UNCHANGED <<prop, yes, ghosts>>
  BY DEF Arrive, disk
<1>3. t \in Procs /\ pc \in [Procs -> Places] 
      /\ msg \in [Procs -> [to: Agents, text: Texts] \cup {NoMessage}]
  BY DEF Procs, ProposalInv, Types
<1>4. /\ pc' \in [Procs -> Places] /\ pc'[t] = label
      /\ \A u \in Tasks : u # t => pc'[u] = pc[u] /\ msg'[u] = msg[u]
  BY <1>1, <1>3 DEF Procs, Early, Places
<1>5. [to |-> a, text |-> text] \in [to: Agents, text: Texts]
  OBVIOUS
<1>6. /\ msg' \in [Procs -> [to: Agents, text: Texts] \cup {NoMessage}]
      /\ msg'[t].to = a
  BY <1>1, <1>3, <1>5
<1>7. Walks
  BY <1>2, <1>4, <1>6 DEF Walks, Early
<1> QED BY <1>2, <1>7 DEF Kind, Moves

LEMMA ResolveKind ==
    ASSUME ProposalInv, NEW t \in Tasks, Resolve(t)
    PROVE  Kind
<1>1. t \in Procs /\ pc[t] = "resolving" /\ (Goto(t, "line") \/ Goto(t, "done"))
  BY DEF Resolve, Procs
<1>2. Walks
  BY <1>1, GotoWalks DEF Early, Places
<1> QED BY <1>2 DEF Resolve, Kind, Moves, disk

LEMMA RefuseKind ==
    ASSUME ProposalInv, NEW t \in Tasks, Refuse(t)
    PROVE  Kind
<1>1. Walks
  BY AnswerWalks DEF Refuse, Holds
<1> QED BY <1>1 DEF Refuse, Kind, Moves, disk

LEMMA UnreadableKind ==
    ASSUME ProposalInv, NEW t \in Tasks, Unreadable(t)
    PROVE  Kind
<1>1. Walks
  BY AnswerWalks DEF Unreadable, TakesSlot, Holds
<1> QED BY <1>1 DEF Unreadable, Kind, Moves, disk

LEMMA StartTurnKind ==
    ASSUME ProposalInv, NEW t \in Tasks, StartTurn(t)
    PROVE  Kind
<1>1. t \in Procs /\ pc[t] = "line" /\ Goto(t, "model")
  BY DEF StartTurn, TakesSlot, Holds, Procs
<1>2. Walks
  BY <1>1, GotoWalks DEF Early, Places
<1> QED BY <1>2 DEF StartTurn, Kind, Moves

LEMMA ModelFailsKind ==
    ASSUME ProposalInv, NEW t \in Tasks, ModelFails(t)
    PROVE  Kind
<1>1. Walks
  BY AnswerWalks DEF ModelFails
<1> QED BY <1>1 DEF ModelFails, Kind, Moves, disk

LEMMA ModelAnswersKind ==
    ASSUME ProposalInv, NEW t \in Tasks, ModelAnswers(t)
    PROVE  Kind
<1> DEFINE a == To(t)
<1>1. /\ pc[t] = "model" /\ a \in Agents /\ offer[t] = <<>> /\ UNCHANGED <<yes, runs, saved>>
      /\ offer \in [Tasks -> Seq(Calls)]
  BY DEF ModelAnswers, ProposalInv, Placed, Early, Types
<1>2. PICK calls \in Offers \cup {<<>>} :
        \/ \E fetched \in BOOLEAN : AnswerSaved(t, fetched, calls)
        \/ AnswerNotSaved(t, calls)
  BY DEF ModelAnswers
<1>3. CASE AnswerNotSaved(t, calls)
  <2>1. Walks
    BY <1>1, <1>3, AnswerWalks DEF AnswerNotSaved
  <2>2. UNCHANGED <<offer, shaped>> /\ (UNCHANGED prop \/ prop' = [prop EXCEPT ![a] = NoProposal])
    BY <1>3 DEF AnswerNotSaved
  <2> QED BY <1>1, <2>1, <2>2 DEF Kind, Moves, Drops, ghosts
<1>4. ASSUME NEW fetched \in BOOLEAN, AnswerSaved(t, fetched, calls)
      PROVE  Kind
  <2> DEFINE tainted == Taint(cache[a]) \/ fetched
  <2>1. tainted \in BOOLEAN
    BY DEF Taint
  <2>2. Goto(t, "reply") /\ Walks
    BY <1>1, <1>4, AnswerWalks DEF AnswerSaved, Answers
  <2>3. offer' = [offer EXCEPT ![t] = calls]
    BY <1>4 DEF AnswerSaved
  <2>4. CASE calls = <<>>
    <3>1. UNCHANGED <<prop, shaped>>
      BY <1>4, <2>4 DEF AnswerSaved
    <3>2. UNCHANGED offer
      BY <1>1, <2>3, <2>4
    <3> QED BY <1>1, <2>2, <3>1, <3>2 DEF Kind, Moves, ghosts
  <2>5. CASE calls # <<>>
    <3>1. /\ prop' = [prop EXCEPT ![a] = [of |-> t, calls |-> calls,
                                          tainted |-> tainted, fresh |-> TRUE]]
          /\ shaped' = IF tainted THEN shaped \cup {t} ELSE shaped
      BY <1>4, <2>5 DEF AnswerSaved
    <3> HIDE DEF tainted
    <3>2. Stages(t, a, calls, tainted)
      BY <1>1, <2>2, <2>3, <3>1 DEF Stages, Goto
    <3> HIDE DEF a
    <3>3. a \in Agents /\ calls \in Offers
      BY <1>1, <2>5
    <3> QED BY <2>1, <3>2, <3>3 DEF Kind
  <2> QED BY <2>4, <2>5
<1> QED BY <1>2, <1>3, <1>4

LEMMA DecideExpiredKind ==
    ASSUME ProposalInv, NEW t \in Tasks, DecideExpired(t)
    PROVE  Kind
<1>1. Walks
  BY AnswerWalks DEF DecideExpired, TakesSlot, Holds
<1>2. To(t) \in Agents
  BY DEF DecideExpired, TakesSlot, Holds, ProposalInv, Placed
<1> QED BY <1>1, <1>2 DEF DecideExpired, Kind, Drops

LEMMA RejectKind ==
    ASSUME ProposalInv, NEW t \in Tasks, Reject(t)
    PROVE  Kind
<1>1. Walks
  BY AnswerWalks DEF Reject, TakesSlot, Holds
<1>2. To(t) \in Agents
  BY DEF Reject, TakesSlot, Holds, ProposalInv, Placed
<1>3. /\ UNCHANGED <<yes, ghosts>>
      /\ UNCHANGED prop \/ prop' = [prop EXCEPT ![To(t)] = NoProposal]
  BY DEF Reject
<1> QED BY <1>1, <1>2, <1>3 DEF Kind, Drops, Moves

LEMMA ConfirmKind ==
    ASSUME ProposalInv, NEW t \in Tasks, Confirm(t)
    PROVE  Kind
<1> DEFINE a == To(t)
<1>1. pc[t] = "line" /\ a \in Agents /\ prop[a] # NoProposal /\ UNCHANGED ghosts
  BY DEF Confirm, TakesSlot, Holds, Decides, ProposalInv, Placed
<1>2. PICK m : \/ /\ Claim(t, m) /\ at' = [at EXCEPT ![t] = 1]
                  /\ Goto(t, "commit")
               \/ Answers(t, "save_failed") /\ UNCHANGED <<prop, yes>>
  BY DEF Confirm
<1>3. CASE Answers(t, "save_failed") /\ UNCHANGED <<prop, yes>>
  BY <1>1, <1>3, AnswerWalks DEF Kind, Moves
<1>4. CASE /\ Claim(t, m) /\ at' = [at EXCEPT ![t] = 1]
           /\ Goto(t, "commit")
  <2> DEFINE r == prop[a]
             claim == [r EXCEPT !.tainted = @ \/ Taint(m)]
  <2>1. r \in Proposal /\ r.of \in Tasks
    BY <1>1, ProposalFacts DEF ProposalInv, Types
  <2>2. prop' = [prop EXCEPT ![a] = NoProposal] /\ held' = [held EXCEPT ![t] = claim]
    BY <1>4 DEF Claim
  <2>3. Taint(m) \in BOOLEAN
    BY DEF Taint
  <2> HIDE DEF r
  <2>4. /\ claim \in Proposal /\ claim.of = r.of /\ claim.calls = r.calls
        /\ r.tainted => claim.tainted
    BY <2>1, <2>3 DEF Proposal
  <2> HIDE DEF claim
  <2>5. Takes(t, a, claim)
    BY <1>1, <1>4, <2>1, <2>2, <2>4 DEF Takes, Goto, r
  <2> QED BY <1>1, <2>4, <2>5 DEF Kind
<1> QED BY <1>2, <1>3, <1>4

LEMMA NextCallAdvances ==
    ASSUME NEW t \in Tasks, NextCall(t)
    PROVE  Advances(t)
BY DEF NextCall, Advances, Goto

LEMMA CallFacts ==
    ASSUME ProposalInv, NEW t \in Tasks, pc[t] = "commit"
    PROVE  /\ Of(t) \in Tasks /\ saved[Of(t)] \in {"none", "clean", "tainted"}
           /\ saved = [saved EXCEPT ![Of(t)] = saved[Of(t)]]
BY DEF ProposalInv, Placed, Types

LEMMA StoreCallKind ==
    ASSUME ProposalInv, NEW t \in Tasks, StoreCall(t)
    PROVE  Kind
<1> DEFINE label == IF held[t].tainted THEN "tainted" ELSE "clean"
<1>1. /\ pc[t] = "commit" /\ Advances(t) /\ runs' = [runs EXCEPT ![Of(t)] = @ + 1]
      /\ UNCHANGED <<prop, offer, shaped>>
      /\ \/ saved' = [saved EXCEPT ![Of(t)] = label]
         \/ UNCHANGED saved
  BY NextCallAdvances DEF StoreCall, Ran, disk
<1>2. CASE saved' = [saved EXCEPT ![Of(t)] = label]
  <2>1. Calling(t, label)
    BY <1>1, <1>2 DEF Calling
  <2> QED BY <2>1 DEF Kind
<1>3. CASE UNCHANGED saved
  <2>1. Calling(t, saved[Of(t)])
    BY <1>1, <1>3, CallFacts DEF Calling
  <2> QED BY <1>1, <2>1, CallFacts DEF Kind
<1> QED BY <1>1, <1>2, <1>3

LEMMA RelayCallKind ==
    ASSUME ProposalInv, NEW t \in Tasks, RelayCall(t)
    PROVE  Kind
<1>1. /\ pc[t] = "commit" /\ runs' = [runs EXCEPT ![Of(t)] = @ + 1]
      /\ UNCHANGED <<prop, offer, shaped, saved>>
      /\ \/ Advances(t)
         \/ pc' = [pc EXCEPT ![t] = "inject"] /\ UNCHANGED <<msg, yes>>
  BY NextCallAdvances DEF RelayCall, Ran, disk, Goto
<1>2. Calling(t, saved[Of(t)])
  BY <1>1, CallFacts DEF Calling
<1> QED BY <1>1, <1>2, CallFacts DEF Kind

LEMMA InjectKind ==
    ASSUME ProposalInv, NEW t \in Tasks, Inject(t)
    PROVE  Kind
BY NextCallAdvances DEF Inject, Injects, Kind

LEMMA SummaryKind ==
    ASSUME ProposalInv, NEW t \in Tasks, Summary(t)
    PROVE  Kind
<1>1. Walks
  BY AnswerWalks DEF Summary
<1> QED BY <1>1 DEF Summary, Kind, Moves

LEMMA ReplyKind ==
    ASSUME ProposalInv, NEW t \in Tasks, Reply(t)
    PROVE  Kind
<1>1. t \in Procs /\ pc[t] = "reply" /\ Goto(t, "done")
  BY DEF Reply, Procs
<1>2. Walks
  BY <1>1, GotoWalks DEF Early, Places
<1> QED BY <1>2 DEF Reply, Kind, Moves, disk

LEMMA RunnerKind ==
    ASSUME ProposalInv, RunnerTask
    PROVE  Kind
<1>1. /\ UNCHANGED <<prop, yes, ghosts>>
      /\ UNCHANGED task \/ \E label \in {"model", "done"} : Goto(Runner, label)
  BY DEF RunnerTask, JobTurn, JobTurnEnds, AppendReport, AppendRelay, disk, task
<1>2. UNCHANGED task => Walks
  BY DEF Walks, task, ProposalInv, Types
<1>3. ASSUME NEW label \in {"model", "done"}, Goto(Runner, label)
      PROVE  Walks
  BY <1>3, GotoWalks, NobodyFacts DEF Procs, Early, Places
<1> QED BY <1>1, <1>2, <1>3 DEF Kind, Moves

LEMMA JobDueKind ==
    ASSUME ProposalInv, NEW a \in Agents, JobDue(a)
    PROVE  Kind
<1>1. /\ msg' = [msg EXCEPT ![Runner] = [to |-> a, text |-> "chat"]]
      /\ pc' = [pc EXCEPT ![Runner] = "line"]
      /\ UNCHANGED <<prop, yes, ghosts>>
  BY DEF JobDue, disk
<1>2. [to |-> a, text |-> "chat"] \in [to: Agents, text: Texts]
  BY DEF Texts
<1>3. Walks
  BY <1>1, <1>2, NobodyFacts DEF Walks, ProposalInv, Types, Procs, Early, Places
<1> QED BY <1>1, <1>3 DEF Kind, Moves

LEMMA ExpireKind ==
    ASSUME ProposalInv, NEW a \in Agents, Expire(a)
    PROVE  Kind
BY DEF Expire, Kind, Ages

LEMMA RestartKind ==
    ASSUME ProposalInv, Restart
    PROVE  Kind
<1>1. /\ UNCHANGED <<prop, msg, yes, ghosts>>
      /\ pc' = [p \in Procs |-> IF p = Runner THEN "new"
                                ELSE IF pc[p] \in {"new", "done"} THEN pc[p] ELSE "lost"]
  BY DEF Restart, disk
<1>2. pc' \in [Procs -> Places]
  BY <1>1 DEF ProposalInv, Types, Early, Places
<1>3. ASSUME NEW t \in Tasks
      PROVE  /\ pc'[t] = pc[t] \/ pc'[t] = "lost"
             /\ pc'[t] # pc[t] => pc[t] # "new"
  BY <1>1, NobodyFacts DEF Procs
<1>4. Walks
  BY <1>1, <1>2, <1>3 DEF Walks, ProposalInv, Types, Placed, To, Early
<1> QED BY <1>1, <1>4 DEF Kind, Moves

LEMMA KindOfStep ==
    ASSUME ProposalInv, [Next]_vars
    PROVE  Kind
<1>1. CASE UNCHANGED vars
  <2>1. UNCHANGED <<prop, task, yes, ghosts>>
    BY <1>1 DEF vars, disk
  <2>2. Walks
    BY <2>1 DEF Walks, task, ProposalInv, Types
  <2> QED BY <2>1, <2>2 DEF Kind, Moves
<1>2. ASSUME NEW t \in Tasks, Arrive(t) \/ Task(t)
      PROVE  Kind
  BY <1>2, ArriveKind, ResolveKind, RefuseKind, UnreadableKind, StartTurnKind, ModelFailsKind,
     ModelAnswersKind, DecideExpiredKind, RejectKind, ConfirmKind, StoreCallKind, RelayCallKind,
     InjectKind, SummaryKind, ReplyKind DEF Task, Deciding, Committing
<1> QED BY <1>1, <1>2, RunnerKind, JobDueKind, ExpireKind, RestartKind DEF Next

-----------------------------------------------------------------------------
(* Every kind of step keeps the invariant.                                 *)

LEMMA WalksPlaced ==
    ASSUME ProposalInv, Walks, UNCHANGED <<yes, ghosts>>
    PROVE  \A t \in Tasks : Placed(t)'
<1> SUFFICES ASSUME NEW t \in Tasks PROVE Placed(t)'
  OBVIOUS
<1>1. Placed(t)
  BY DEF ProposalInv
<1>2. CASE pc'[t] = pc[t] /\ msg'[t] = msg[t]
  BY <1>1, <1>2 DEF Placed, To, Of, yes, ghosts
<1>3. CASE /\ pc'[t] \notin {"commit", "inject"}
           /\ pc'[t] \in Early => pc[t] \in Early
           /\ pc'[t] = "summary" => Of(t) \in Tasks
           /\ pc'[t] # "new" => msg'[t].to \in Agents
  BY <1>1, <1>3 DEF Placed, To, Of, yes, ghosts
<1> QED BY <1>2, <1>3 DEF Walks

LEMMA SameTaken ==
    ASSUME ProposalInv, UNCHANGED <<held, offer, runs, saved, shaped>>
    PROVE  \A t \in Tasks : Taken(t)' /\ Counted(t)'
BY DEF ProposalInv, Taken, Counted, Of

LEMMA MovesKeeps ==
    ASSUME ProposalInv, Moves
    PROVE  ProposalInv'
<1>1. UNCHANGED <<held, offer, runs, saved, shaped, prop, at>> /\ UNCHANGED <<yes, ghosts>>
  BY DEF Moves, yes, ghosts
<1>2. Types'
  BY <1>1 DEF Moves, Walks, ProposalInv, Types
<1>3. \A a \in Agents : Pending(a)'
  BY <1>1 DEF ProposalInv, Pending, Of
<1>4. \A t \in Tasks : Placed(t)' /\ Taken(t)' /\ Counted(t)'
  BY <1>1, WalksPlaced, SameTaken DEF Moves
<1> QED BY <1>2, <1>3, <1>4 DEF ProposalInv

\* What is left in the table after a proposal has gone from it.
LEMMA OthersPending ==
    ASSUME ProposalInv, NEW a \in Agents, prop' = [prop EXCEPT ![a] = NoProposal]
    PROVE  /\ prop' \in [Agents -> Proposal \cup {NoProposal}]
           /\ prop'[a].of = Nobody
           /\ \A b \in Agents : b # a => prop'[b] = prop[b]
           /\ \A b \in Agents : prop'[b].of \in Tasks => b # a /\ prop'[b] = prop[b]
<1>1. prop \in [Agents -> Proposal \cup {NoProposal}]
  BY DEF ProposalInv, Types
<1>2. prop'[a] = NoProposal /\ \A b \in Agents : b # a => prop'[b] = prop[b]
  BY <1>1
<1> QED BY <1>1, <1>2, NoneOfAny, NobodyFacts

LEMMA DropsKeeps ==
    ASSUME ProposalInv, Drops
    PROVE  ProposalInv'
<1>1. UNCHANGED <<held, offer, runs, saved, shaped, at>> /\ UNCHANGED <<yes, ghosts>>
  BY DEF Drops, yes, ghosts
<1>2. PICK a \in Agents : prop' = [prop EXCEPT ![a] = NoProposal]
  BY DEF Drops
<1>3. /\ prop' \in [Agents -> Proposal \cup {NoProposal}]
      /\ \A b \in Agents : prop'[b].of \in Tasks => b # a /\ prop'[b] = prop[b]
  BY <1>2, OthersPending
<1>4. Types'
  BY <1>1, <1>3 DEF Drops, Walks, ProposalInv, Types
<1>5. ASSUME NEW b \in Agents PROVE Pending(b)'
  BY <1>1, <1>3 DEF ProposalInv, Pending, Of
<1>6. \A t \in Tasks : Placed(t)' /\ Taken(t)' /\ Counted(t)'
  BY <1>1, WalksPlaced, SameTaken DEF Drops
<1> QED BY <1>4, <1>5, <1>6 DEF ProposalInv

LEMMA AgedProposal ==
    ASSUME NEW r \in Proposal, NEW s, s = [r EXCEPT !.fresh = FALSE]
    PROVE  s \in Proposal /\ s.of = r.of /\ s.calls = r.calls /\ s.tainted = r.tainted
BY DEF Proposal

LEMMA NoneIsOld == NoProposal.fresh = FALSE
BY DEF NoProposal

LEMMA AgesFacts ==
    ASSUME ProposalInv, Ages
    PROVE  /\ prop' \in [Agents -> Proposal \cup {NoProposal}]
           /\ \A b \in Agents : /\ prop'[b].of = prop[b].of /\ prop'[b].calls = prop[b].calls
                                /\ prop'[b].tainted = prop[b].tainted
<1>1. PICK a \in Agents : prop[a].fresh /\ prop' = [prop EXCEPT ![a].fresh = FALSE]
  BY DEF Ages
<1>2. prop \in [Agents -> Proposal \cup {NoProposal}]
  BY DEF ProposalInv, Types
<1> DEFINE s == [prop[a] EXCEPT !.fresh = FALSE]
<1>3. prop' = [prop EXCEPT ![a] = s]
  BY <1>1
<1>4. prop[a] \in Proposal
  BY <1>1, <1>2, NoneIsOld
<1>5. /\ s \in Proposal /\ s.of = prop[a].of /\ s.calls = prop[a].calls
      /\ s.tainted = prop[a].tainted
  BY <1>4, AgedProposal
<1> HIDE DEF s
<1>6. prop'[a] = s /\ \A b \in Agents : b # a => prop'[b] = prop[b]
  BY <1>2, <1>3
<1> QED BY <1>2, <1>3, <1>5, <1>6

LEMMA AgesKeeps ==
    ASSUME ProposalInv, Ages
    PROVE  ProposalInv'
<1>1. /\ UNCHANGED <<held, offer, runs, saved, shaped, at, pc, msg>>
  BY DEF Ages, yes, ghosts, task
<1>2. Types'
  BY <1>1, AgesFacts DEF ProposalInv, Types
<1>3. \A t \in Tasks : Placed(t)' /\ Taken(t)' /\ Counted(t)'
  BY <1>1, SameTaken DEF ProposalInv, Placed, To, Of
<1>4. \A a \in Agents : Pending(a)'
  BY <1>1, AgesFacts DEF ProposalInv, Pending, Of
<1> QED BY <1>2, <1>3, <1>4 DEF ProposalInv

LEMMA StagedProposal ==
    ASSUME NEW t \in Tasks, NEW calls \in Offers, NEW tainted \in BOOLEAN,
           NEW r, r = [of |-> t, calls |-> calls, tainted |-> tainted, fresh |-> TRUE]
    PROVE  r \in Proposal /\ r.of = t /\ r.calls = calls /\ r.tainted = tainted
BY DEF Proposal

\* What a staging turn leaves behind, and what was there before it.
Staged(t, a, calls, tainted) ==
    /\ prop' \in [Agents -> Proposal \cup {NoProposal}]
    /\ prop'[a].of = t /\ prop'[a].calls = calls /\ prop'[a].tainted = tainted
    /\ \A b \in Agents : b # a => prop'[b] = prop[b]
    /\ offer' \in [Tasks -> Seq(Calls)] /\ offer'[t] = calls
    /\ \A u \in Tasks : u # t => offer'[u] = offer[u]
    /\ pc' \in [Procs -> Places] /\ pc'[t] = "reply"
    /\ \A u \in Tasks : u # t => pc'[u] = pc[u]
    /\ shaped' \subseteq Tasks /\ (t \in shaped' => tainted)
    /\ \A u \in Tasks : u # t => (u \in shaped' <=> u \in shaped)
    /\ UNCHANGED <<msg, held, at, runs, saved>>
    /\ offer[t] = <<>> /\ runs[t] = 0 /\ saved[t] = "none" /\ t \notin shaped
    /\ Of(t) = Nobody
    /\ \A b \in Agents : prop[b].of # t
    /\ \A u \in Tasks : Of(u) # t

LEMMA StagesFacts ==
    ASSUME ProposalInv, NEW t \in Tasks, NEW a \in Agents, NEW calls \in Offers,
           NEW tainted \in BOOLEAN, Stages(t, a, calls, tainted)
    PROVE  Staged(t, a, calls, tainted)
<1> DEFINE r == [of |-> t, calls |-> calls, tainted |-> tainted, fresh |-> TRUE]
<1>1. Types /\ Placed(t) /\ Counted(t) /\ pc[t] = "model"
  BY DEF ProposalInv, Stages
<1>2. prop' = [prop EXCEPT ![a] = r]
  BY DEF Stages
<1>3. r \in Proposal /\ r.of = t /\ r.calls = calls /\ r.tainted = tainted
  BY StagedProposal
<1> HIDE DEF r
<1>4. /\ prop' \in [Agents -> Proposal \cup {NoProposal}]
      /\ prop'[a] = r /\ \A b \in Agents : b # a => prop'[b] = prop[b]
  BY <1>1, <1>2, <1>3 DEF Types
<1>5. /\ offer' \in [Tasks -> Seq(Calls)] /\ offer'[t] = calls
      /\ \A u \in Tasks : u # t => offer'[u] = offer[u]
  BY <1>1, OfferFacts DEF Types, Stages
<1>6. /\ pc' \in [Procs -> Places] /\ pc'[t] = "reply"
      /\ \A u \in Tasks : u # t => pc'[u] = pc[u]
  BY <1>1 DEF Types, Stages, Procs, Early, Places
<1>7. offer[t] = <<>> /\ Of(t) = Nobody
  BY <1>1 DEF Placed, Early
<1>8. runs[t] = 0 /\ saved[t] = "none" /\ t \notin shaped
  <2>1. runs[t] \in Nat /\ Len(<<>>) = 0
    BY <1>1 DEF Types
  <2> QED BY <1>1, <1>7, <2>1 DEF Counted
<1>9. /\ shaped' \subseteq Tasks /\ (t \in shaped' => tainted)
      /\ \A u \in Tasks : u # t => (u \in shaped' <=> u \in shaped)
  BY <1>1, <1>8 DEF Types, Stages
<1>10. \A b \in Agents : prop[b].of # t
  BY <1>7 DEF ProposalInv, Pending
<1>11. \A u \in Tasks : Of(u) # t
  BY <1>7 DEF ProposalInv, Taken
<1>12. UNCHANGED <<msg, held, at, runs, saved>>
  BY DEF Stages, yes
<1> QED BY <1>3, <1>4, <1>5, <1>6, <1>7, <1>8, <1>9, <1>10, <1>11, <1>12 DEF Staged

LEMMA StagesKeeps ==
    ASSUME ProposalInv, NEW t \in Tasks, NEW a \in Agents, NEW calls \in Offers,
           NEW tainted \in BOOLEAN, Stages(t, a, calls, tainted)
    PROVE  ProposalInv'
<1>0. Staged(t, a, calls, tainted)
  BY StagesFacts
<1> USE <1>0 DEF Staged
<1>1. Types'
  BY DEF ProposalInv, Types
<1>2. ASSUME NEW u \in Tasks PROVE Placed(u)'
  <2>1. Placed(u) /\ (Of(u) \in Tasks => Of(u) # t)
    BY DEF ProposalInv
  <2>2. CASE u = t
    <3>1. To(t) \in Agents
      BY DEF Stages
    <3> QED BY <2>2, <3>1 DEF Placed, Early, To
  <2>3. CASE u # t
    BY <2>1, <2>3, NobodyFacts DEF Placed, To, Of
  <2> QED BY <2>2, <2>3
<1>3. ASSUME NEW u \in Tasks PROVE Taken(u)'
  BY DEF ProposalInv, Taken, Of
<1>4. ASSUME NEW p \in Tasks PROVE Counted(p)'
  <2>1. CASE p = t
    BY <2>1, OfferFacts DEF Counted
  <2>2. CASE p # t
    BY <2>2 DEF ProposalInv, Counted
  <2> QED BY <2>1, <2>2
<1>5. ASSUME NEW b \in Agents PROVE Pending(b)'
  <2>1. CASE b = a
    BY <2>1, OfferFacts, SMTT(30) DEF Pending, Of
  <2>2. CASE b # a
    <3>1. prop'[b] = prop[b] /\ prop[b].of # t /\ Pending(b)
      BY <2>2 DEF ProposalInv
    <3>2. \A c \in Agents : prop'[c].of = prop[b].of /\ prop[b].of \in Tasks => c = b
      BY <3>1 DEF Pending
    <3>3. \A u \in Tasks : Of(u)' = Of(u)
      BY DEF Of
    <3> QED BY <3>1, <3>2, <3>3 DEF Pending
  <2> QED BY <2>1, <2>2
<1> QED BY <1>1, <1>2, <1>3, <1>4, <1>5 DEF ProposalInv

\* What a claiming yes leaves behind, and what was there before it.
Took(t, a, claim) ==
    /\ claim.of \in Tasks /\ claim.of = prop[a].of
    /\ claim.calls = offer[claim.of] /\ claim.calls # <<>> /\ Len(offer[claim.of]) >= 1
    /\ claim.of \in shaped => claim.tainted
    /\ runs[claim.of] = 0
    /\ \A u \in Tasks : Of(u) # claim.of
    /\ \A b \in Agents : prop[b].of = claim.of => b = a
    /\ Of(t) = Nobody
    /\ prop' \in [Agents -> Proposal \cup {NoProposal}]
    /\ \A b \in Agents : prop'[b].of \in Tasks => b # a /\ prop'[b] = prop[b]
    /\ \A b \in Agents : b # a => prop'[b] = prop[b]
    /\ prop'[a].of = Nobody
    /\ held' \in [Tasks -> Proposal \cup {NoProposal}] /\ held'[t] = claim
    /\ at' \in [Tasks -> Nat] /\ at'[t] = 1
    /\ pc' \in [Procs -> Places] /\ pc'[t] = "commit"
    /\ \A u \in Tasks : u # t => /\ held'[u] = held[u] /\ at'[u] = at[u] /\ pc'[u] = pc[u]
    /\ UNCHANGED <<msg, offer, runs, saved, shaped>>

LEMMA TakesFacts ==
    ASSUME ProposalInv, NEW t \in Tasks, NEW a \in Agents, NEW claim \in Proposal,
           Takes(t, a, claim)
    PROVE  Took(t, a, claim)
<1>1. Types /\ Placed(t) /\ Pending(a) /\ pc[t] = "line" /\ prop[a].of \in Tasks
  BY DEF ProposalInv, Takes
<1>2. /\ claim.of = prop[a].of /\ claim.calls = prop[a].calls
      /\ prop[a].tainted => claim.tainted
  BY DEF Takes
<1>3. claim.calls \in Offers
  BY DEF Proposal
<1>4. /\ prop' \in [Agents -> Proposal \cup {NoProposal}] /\ prop'[a].of = Nobody
      /\ \A b \in Agents : prop'[b].of \in Tasks => b # a /\ prop'[b] = prop[b]
      /\ \A b \in Agents : b # a => prop'[b] = prop[b]
  BY OthersPending DEF Takes
<1>5. /\ held' \in [Tasks -> Proposal \cup {NoProposal}] /\ held'[t] = claim
      /\ at' \in [Tasks -> Nat] /\ at'[t] = 1
      /\ \A u \in Tasks : u # t => held'[u] = held[u] /\ at'[u] = at[u]
  BY <1>1 DEF Types, Takes
<1>6. /\ pc' \in [Procs -> Places] /\ pc'[t] = "commit"
      /\ \A u \in Tasks : u # t => pc'[u] = pc[u]
  BY <1>1 DEF Types, Takes, Procs, Places
<1>7. UNCHANGED <<msg, offer, runs, saved, shaped>>
  BY DEF Takes, ghosts
<1>8. Of(t) = Nobody
  BY <1>1 DEF Placed, Early
<1>9. Len(claim.calls) >= 1
  BY <1>3, OfferFacts
<1> QED
  BY <1>1, <1>2, <1>4, <1>5, <1>6, <1>7, <1>8, <1>9 DEF Took, Pending

LEMMA TakesKeeps ==
    ASSUME ProposalInv, NEW t \in Tasks, NEW a \in Agents, NEW claim \in Proposal,
           Takes(t, a, claim)
    PROVE  ProposalInv'
<1>0. Took(t, a, claim)
  BY TakesFacts
<1> USE <1>0 DEF Took
<1>1. Types'
  BY DEF ProposalInv, Types
<1>2. ASSUME NEW u \in Tasks PROVE Placed(u)'
  <2>1. CASE u = t
    <3>1. To(t) \in Agents
      BY DEF Takes
    <3> QED BY <2>1, <3>1 DEF Placed, Early, To, Of
  <2>2. CASE u # t
    BY <2>2 DEF ProposalInv, Placed, To, Of
  <2> QED BY <2>1, <2>2
<1>3. ASSUME NEW u \in Tasks PROVE Taken(u)'
  <2>1. \A v \in Tasks : v # t => Of(v)' = Of(v)
    BY DEF Of
  <2>2. Of(t)' = claim.of
    BY DEF Of
  <2>3. CASE u = t
    BY <2>1, <2>2, <2>3 DEF Taken
  <2>4. CASE u # t
    BY <2>1, <2>2, <2>4 DEF Taken, ProposalInv
  <2> QED BY <2>3, <2>4
<1>4. ASSUME NEW p \in Tasks PROVE Counted(p)'
  BY DEF ProposalInv, Counted
<1>5. ASSUME NEW b \in Agents, prop'[b].of \in Tasks PROVE Pending(b)'
  <2>1. b # a /\ prop'[b] = prop[b] /\ Pending(b)
    BY <1>5 DEF ProposalInv
  <2>2. \A u \in Tasks : Of(u)' # prop[b].of
    BY <1>5, <2>1 DEF Pending, Of
  <2>3. \A c \in Agents : prop'[c].of = prop[b].of => c = b
    BY <1>5, <2>1 DEF Pending
  <2> QED BY <1>5, <2>1, <2>2, <2>3 DEF Pending
<1>6. \A b \in Agents : Pending(b)'
  BY <1>5 DEF Pending
<1> QED BY <1>1, <1>2, <1>3, <1>4, <1>6 DEF ProposalInv

\* The call after this one.
LEMMA AdvanceFacts ==
    ASSUME ProposalInv, NEW t \in Tasks, Of(t) \in Tasks, Advances(t)
    PROVE  /\ at' \in [Tasks -> Nat] /\ at'[t] = at[t] + 1
           /\ pc' \in [Procs -> Places]
           /\ pc'[t] \in {"summary", "commit"}
           /\ pc'[t] = "commit" => at[t] # Len(offer[Of(t)])
           /\ \A u \in Tasks : u # t => at'[u] = at[u] /\ pc'[u] = pc[u]
           /\ UNCHANGED <<msg, held>>
<1>1. Types /\ held[t].calls = offer[Of(t)]
  BY DEF ProposalInv, Taken
<1>2. at' \in [Tasks -> Nat] /\ at'[t] = at[t] + 1 /\ \A u \in Tasks : u # t => at'[u] = at[u]
  BY <1>1 DEF Types, Advances
<1> DEFINE label == IF at[t] = Len(held[t].calls) THEN "summary" ELSE "commit"
<1>3. label \in {"summary", "commit"} /\ (label = "commit" => at[t] # Len(offer[Of(t)]))
  BY <1>1
<1>4. pc' = [pc EXCEPT ![t] = label] /\ UNCHANGED <<msg, held>>
  BY DEF Advances
<1> HIDE DEF label
<1> QED BY <1>1, <1>2, <1>3, <1>4 DEF Types, Procs, Places

\* A call is counted: nothing but the task and the count of its offer moves.
LEMMA CallingFacts ==
    ASSUME ProposalInv, NEW t \in Tasks, NEW label \in {"none", "clean", "tainted"},
           Calling(t, label)
    PROVE  /\ Of(t) \in Tasks /\ offer[Of(t)] # <<>>
           /\ Len(offer[Of(t)]) \in Nat /\ runs[Of(t)] \in Nat
           /\ runs[Of(t)] + 1 <= Len(offer[Of(t)]) /\ at[t] = runs[Of(t)] + 1
           /\ runs' \in [Tasks -> Nat] /\ runs'[Of(t)] = runs[Of(t)] + 1
           /\ saved' \in [Tasks -> {"none", "clean", "tainted"}] /\ saved'[Of(t)] = label
           /\ \A p \in Tasks : p # Of(t) => runs'[p] = runs[p] /\ saved'[p] = saved[p]
           /\ Of(t) \in shaped => label # "clean"
           /\ pc' \in [Procs -> Places] /\ at' \in [Tasks -> Nat]
           /\ \A u \in Tasks : u # t => at'[u] = at[u] /\ pc'[u] = pc[u]
           /\ \/ /\ pc'[t] \in {"summary", "commit"} /\ at'[t] = at[t] + 1
                 /\ pc'[t] = "commit" => at[t] # Len(offer[Of(t)])
              \/ pc'[t] = "inject" /\ at'[t] = at[t]
           /\ UNCHANGED <<msg, held, prop, offer, shaped>>
<1>1. Types /\ Placed(t) /\ Taken(t) /\ pc[t] = "commit"
  BY DEF ProposalInv, Calling
<1>2. /\ Of(t) \in Tasks /\ at[t] = runs[Of(t)] + 1 /\ at[t] <= Len(offer[Of(t)])
      /\ offer[Of(t)] # <<>> /\ (Of(t) \in shaped => held[t].tainted)
  BY <1>1 DEF Placed, Taken
<1>3. Len(offer[Of(t)]) \in Nat /\ runs[Of(t)] \in Nat
  BY <1>1, <1>2 DEF Types
<1>4. /\ runs' \in [Tasks -> Nat] /\ runs'[Of(t)] = runs[Of(t)] + 1
      /\ saved' \in [Tasks -> {"none", "clean", "tainted"}] /\ saved'[Of(t)] = label
      /\ \A p \in Tasks : p # Of(t) => runs'[p] = runs[p] /\ saved'[p] = saved[p]
  BY <1>1, <1>2, <1>3 DEF Types, Calling
<1>5. Of(t) \in shaped => label # "clean"
  BY <1>2 DEF ProposalInv, Counted, Calling
<1>6. /\ pc' \in [Procs -> Places] /\ at' \in [Tasks -> Nat]
      /\ \A u \in Tasks : u # t => at'[u] = at[u] /\ pc'[u] = pc[u]
      /\ \/ /\ pc'[t] \in {"summary", "commit"} /\ at'[t] = at[t] + 1
            /\ pc'[t] = "commit" => at[t] # Len(offer[Of(t)])
         \/ pc'[t] = "inject" /\ at'[t] = at[t]
      /\ UNCHANGED <<msg, held>>
  <2>1. CASE Advances(t)
    BY <1>2, <2>1, AdvanceFacts
  <2>2. CASE pc' = [pc EXCEPT ![t] = "inject"] /\ UNCHANGED <<msg, yes>>
    BY <1>1, <2>2 DEF Types, Procs, Places, yes
  <2> QED BY <2>1, <2>2 DEF Calling
<1> QED BY <1>2, <1>3, <1>4, <1>5, <1>6 DEF Calling

LEMMA CallingKeeps ==
    ASSUME ProposalInv, NEW t \in Tasks, NEW label \in {"none", "clean", "tainted"},
           Calling(t, label)
    PROVE  ProposalInv'
<1> DEFINE p == Of(t)
<1>1. \A u \in Tasks : Of(u)' = Of(u) /\ (Of(u) = p => u = t)
  BY CallingFacts DEF ProposalInv, Taken, Of
<1>2. Types'
  BY CallingFacts DEF ProposalInv, Types
<1>3. Placed(t)'
  <2>1. To(t)' \in Agents /\ pc[t] = "commit"
    BY CallingFacts DEF ProposalInv, Placed, Calling, To
  <2>2. Of(t)' = p /\ p \in Tasks /\ offer' = offer
    BY CallingFacts, <1>1
  <2>3. /\ Len(offer[p]) \in Nat /\ runs[p] \in Nat
        /\ runs[p] + 1 <= Len(offer[p]) /\ at[t] = runs[p] + 1 /\ runs'[p] = runs[p] + 1
        /\ \/ /\ pc'[t] \in {"summary", "commit"} /\ at'[t] = at[t] + 1
              /\ pc'[t] = "commit" => at[t] # Len(offer[p])
           \/ pc'[t] = "inject" /\ at'[t] = at[t]
    BY CallingFacts
  <2> HIDE DEF p
  <2> QED BY <2>1, <2>2, <2>3 DEF Placed, Early
<1>4. ASSUME NEW u \in Tasks, u # t PROVE Placed(u)'
  <2>1. Of(u)' = Of(u) /\ Of(u) # p /\ Placed(u)
    BY <1>1, <1>4 DEF ProposalInv
  <2> QED BY CallingFacts, <1>4, <2>1 DEF Placed, To
<1>5. ASSUME NEW u \in Tasks PROVE Taken(u)'
  BY CallingFacts DEF ProposalInv, Taken, Of
<1>6. ASSUME NEW q \in Tasks PROVE Counted(q)'
  <2>1. CASE q = p
    BY CallingFacts, <2>1 DEF Counted
  <2>2. CASE q # p
    <3>1. runs'[q] = runs[q] /\ saved'[q] = saved[q] /\ UNCHANGED <<offer, shaped>>
      BY CallingFacts, <2>2
    <3> QED BY <3>1 DEF ProposalInv, Counted
  <2> QED BY <2>1, <2>2
<1>7. ASSUME NEW b \in Agents PROVE Pending(b)'
  BY CallingFacts, SMTT(30) DEF ProposalInv, Pending, Of
<1> QED BY <1>2, <1>3, <1>4, <1>5, <1>6, <1>7 DEF ProposalInv

LEMMA InjectsKeeps ==
    ASSUME ProposalInv, NEW t \in Tasks, Injects(t)
    PROVE  ProposalInv'
<1>1. /\ Of(t) \in Tasks /\ at[t] = runs[Of(t)] /\ at[t] <= Len(offer[Of(t)])
      /\ Advances(t) /\ UNCHANGED <<prop, offer, runs, saved, shaped>>
      /\ Len(offer[Of(t)]) \in Nat /\ at[t] \in Nat /\ pc[t] = "inject"
  BY DEF ProposalInv, Placed, Injects, ghosts, Types
<1>2. /\ at' \in [Tasks -> Nat] /\ at'[t] = at[t] + 1
      /\ pc' \in [Procs -> Places]
      /\ pc'[t] \in {"summary", "commit"}
      /\ pc'[t] = "commit" => at[t] # Len(offer[Of(t)])
      /\ \A u \in Tasks : u # t => at'[u] = at[u] /\ pc'[u] = pc[u]
      /\ UNCHANGED <<msg, held>>
  BY <1>1, AdvanceFacts
<1>3. \A u \in Tasks : Of(u)' = Of(u)
  BY <1>2 DEF Of
<1>4. Types'
  BY <1>1, <1>2 DEF ProposalInv, Types
<1>5. Placed(t)'
  BY <1>1, <1>2, <1>3 DEF ProposalInv, Placed, To, Early
<1>6. ASSUME NEW u \in Tasks, u # t PROVE Placed(u)'
  BY <1>1, <1>2, <1>3, <1>6 DEF ProposalInv, Placed, To
<1>7. \A u \in Tasks : Taken(u)' /\ Counted(u)'
  BY <1>1, <1>2, SameTaken
<1>8. \A b \in Agents : Pending(b)'
  BY <1>1, <1>3 DEF ProposalInv, Pending
<1> QED BY <1>4, <1>5, <1>6, <1>7, <1>8 DEF ProposalInv

LEMMA KindKeeps ==
    ASSUME ProposalInv, Kind
    PROVE  ProposalInv'
BY MovesKeeps, DropsKeeps, AgesKeeps, StagesKeeps, TakesKeeps, CallingKeeps, InjectsKeeps DEF Kind

LEMMA ProposalStart == Init => ProposalInv
<1> SUFFICES ASSUME Init PROVE ProposalInv
  OBVIOUS
<1>1. Types
  BY NoneOfAny DEF Init, Types, Places, Early
<1>2. ASSUME NEW t \in Tasks PROVE Placed(t) /\ Taken(t) /\ Counted(t)
  <2>1. Of(t) = Nobody /\ pc[t] = "new" /\ offer[t] = <<>> /\ runs[t] = 0 /\ saved[t] = "none"
        /\ shaped = {}
    BY NoneOfAny DEF Init, Of, Procs
  <2>2. 0 <= Len(<<>>)
    OBVIOUS
  <2> QED BY <2>1, <2>2, NobodyFacts DEF Placed, Taken, Counted, Early
<1>3. ASSUME NEW a \in Agents PROVE Pending(a)
  BY NoneOfAny, NobodyFacts DEF Init, Pending
<1> QED BY <1>1, <1>2, <1>3 DEF ProposalInv

THEOREM Proposals == Spec => []ProposalInv
<1>1. Init => ProposalInv
  BY ProposalStart
<1>2. ProposalInv /\ [Next]_vars => ProposalInv'
  BY KindOfStep, KindKeeps
<1> QED BY <1>1, <1>2, PTL DEF Spec

\* However many yeses, faults, restarts and newer previews there are, each call
\* of a preview runs at most once, in its order (staging.py, channel.py).
THEOREM RunsOnce == Spec => []AtMostOnce
<1>1. ProposalInv => AtMostOnce
  BY DEF ProposalInv, Placed, Taken, Counted, AtMostOnce
<1> QED BY <1>1, Proposals, PTL

-----------------------------------------------------------------------------
(* The refinement                                                          *)

LEMMA PhaseFacts ==
    /\ \A p \in Tasks :
         /\ Claimed(p) => OfferPhase[p] = "claimed"
         /\ ~Claimed(p) /\ Live(p) => OfferPhase[p] = "live"
         /\ ~Claimed(p) /\ ~Live(p) /\ offer[p] = <<>> => OfferPhase[p] = "unborn"
         /\ ~Claimed(p) /\ ~Live(p) /\ offer[p] # <<>> => OfferPhase[p] = "dead"
    /\ OfferPhase = [p \in Tasks |-> OfferPhase[p]]
BY DEF OfferPhase

LEMMA SamePhase ==
    ASSUME NEW p \in Tasks,
           Claimed(p)' <=> Claimed(p), Live(p)' <=> Live(p), offer'[p] = <<>> <=> offer[p] = <<>>
    PROVE  OfferPhase'[p] = OfferPhase[p]
BY DEF OfferPhase

LEMMA PhaseIsFunction ==
    /\ OfferPhase = [p \in Tasks |-> OfferPhase[p]]
    /\ OfferPhase' = [p \in Tasks |-> OfferPhase'[p]]
BY DEF OfferPhase

\* A step that takes no proposal and puts none in place of another.
LEMMA QuietPhase ==
    ASSUME \A a \in Agents : prop'[a].of = prop[a].of,
           \A t \in Tasks : held'[t].of = held[t].of,
           \A p \in Tasks : offer'[p] = <<>> <=> offer[p] = <<>>
    PROVE  UNCHANGED OfferPhase
<1>1. ASSUME NEW p \in Tasks PROVE OfferPhase'[p] = OfferPhase[p]
  <2>1. Claimed(p)' <=> Claimed(p)
    BY DEF Claimed
  <2>2. Live(p)' <=> Live(p)
    BY DEF Live
  <2> QED BY <2>1, <2>2, SamePhase
<1> QED BY <1>1, PhaseIsFunction

LEMMA LivePhase ==
    ASSUME ProposalInv, NEW a \in Agents, prop[a].of \in Tasks
    PROVE  OfferPhase[prop[a].of] = "live"
BY PhaseFacts DEF ProposalInv, Pending, Live, Claimed, Of

LEMMA MovesImplements ==
    ASSUME ProposalInv, Moves
    PROVE  UNCHANGED <<OfferPhase, offer, runs>>
<1>1. UNCHANGED <<prop, held, offer, runs>>
  BY DEF Moves, yes, ghosts
<1>2. UNCHANGED OfferPhase
  BY <1>1, QuietPhase
<1> QED BY <1>1, <1>2

LEMMA AgesImplements ==
    ASSUME ProposalInv, Ages
    PROVE  UNCHANGED <<OfferPhase, offer, runs>>
<1>1. UNCHANGED <<held, offer, runs>>
  BY DEF Ages, yes, ghosts
<1>2. \A a \in Agents : prop'[a].of = prop[a].of
  BY AgesFacts
<1> QED BY <1>1, <1>2, QuietPhase

\* The proposal of one person goes; every other offer keeps its phase.
LEMMA GonePhase ==
    ASSUME ProposalInv, NEW a \in Agents, prop' = [prop EXCEPT ![a] = NoProposal]
    PROVE  /\ \A p \in Tasks : p # prop[a].of => (Live(p)' <=> Live(p))
           /\ prop[a].of \in Tasks => \A b \in Agents : prop'[b].of # prop[a].of
           /\ prop[a].of \notin Tasks => \A b \in Agents : prop'[b].of = prop[b].of
<1>1. /\ prop'[a].of = Nobody
      /\ \A b \in Agents : b # a => prop'[b] = prop[b]
  BY OthersPending
<1>2. prop[a].of \in Tasks => \A b \in Agents : prop[b].of = prop[a].of => b = a
  BY DEF ProposalInv, Pending
<1>3. ASSUME NEW p \in Tasks, p # prop[a].of PROVE Live(p)' <=> Live(p)
  BY <1>1, <1>3, NobodyFacts DEF Live
<1>4. prop[a].of \in Tasks \cup {Nobody}
  BY ProposalFacts DEF ProposalInv, Types
<1>5. ASSUME prop[a].of \in Tasks, NEW b \in Agents PROVE prop'[b].of # prop[a].of
  BY <1>1, <1>2, <1>5, NobodyFacts
<1>6. ASSUME prop[a].of \notin Tasks, NEW b \in Agents PROVE prop'[b].of = prop[b].of
  BY <1>1, <1>4, <1>6
<1> QED BY <1>3, <1>5, <1>6

LEMMA DropsImplements ==
    ASSUME ProposalInv, Drops
    PROVE  [Contract!Next]_<<OfferPhase, offer, runs>>
<1>1. PICK a \in Agents : prop' = [prop EXCEPT ![a] = NoProposal]
  BY DEF Drops
<1>2. UNCHANGED <<held, offer, runs>>
  BY DEF Drops, yes, ghosts
<1>q. PICK q : q = prop[a].of
  OBVIOUS
<1>3. \A p \in Tasks : Claimed(p)' <=> Claimed(p)
  BY <1>2 DEF Claimed
<1>4. CASE q \notin Tasks
  <2>1. \A b \in Agents : prop'[b].of = prop[b].of
    BY <1>q, <1>1, <1>4, GonePhase
  <2> QED BY <1>2, <2>1, QuietPhase
<1>5. CASE q \in Tasks
  <2>1. OfferPhase[q] = "live" /\ ~Claimed(q) /\ offer[q] # <<>>
    BY <1>q, <1>5, LivePhase DEF ProposalInv, Pending, Claimed, Of
  <2>2. ~Live(q)' /\ ~Claimed(q)' /\ offer'[q] # <<>>
    <3>1. \A b \in Agents : prop'[b].of # q
      BY <1>q, <1>1, <1>5, GonePhase
    <3> QED BY <1>2, <2>1, <3>1 DEF Live, Claimed
  <2>3. OfferPhase'[q] = "dead"
    BY <1>5, <2>2 DEF OfferPhase
  <2>4. \A p \in Tasks : p # q => OfferPhase'[p] = OfferPhase[p]
    BY <1>q, <1>1, <1>2, <1>3, GonePhase, SamePhase
  <2>5. OfferPhase' = [OfferPhase EXCEPT ![q] = "dead"]
    BY <1>5, <2>3, <2>4, PhaseIsFunction
  <2>6. Contract!Drop(q)
    BY <1>2, <2>1, <2>5 DEF Contract!Drop
  <2> QED BY <1>5, <2>6 DEF Contract!Next
<1> QED BY <1>4, <1>5

LEMMA StagesImplements ==
    ASSUME ProposalInv, NEW t \in Tasks, NEW a \in Agents, NEW calls \in Offers,
           NEW tainted \in BOOLEAN, Stages(t, a, calls, tainted)
    PROVE  Contract!Next
<1>0. Staged(t, a, calls, tainted)
  BY StagesFacts
<1>q. PICK q : q = prop[a].of
  OBVIOUS
<1>1. \A p \in Tasks : Claimed(p)' <=> Claimed(p)
  BY <1>0 DEF Staged, Claimed
<1>2. ~Claimed(t) /\ ~Live(t) /\ Live(t)' /\ offer[t] = <<>>
  BY <1>0 DEF Staged, Claimed, Live, Of
<1>3. OfferPhase[t] = "unborn" /\ OfferPhase'[t] = "live"
  BY <1>1, <1>2 DEF OfferPhase
<1>4. /\ prop'[a].of = t /\ q # t
      /\ \A b \in Agents : b # a => prop'[b] = prop[b]
      /\ \A p \in Tasks : p # t => offer'[p] = offer[p]
  BY <1>q, <1>0 DEF Staged
<1>5. \A p \in Tasks : p # t /\ p # q => OfferPhase'[p] = OfferPhase[p]
  <2> SUFFICES ASSUME NEW p \in Tasks, p # t, p # q PROVE OfferPhase'[p] = OfferPhase[p]
    OBVIOUS
  <2>1. Live(p)' <=> Live(p)
    BY <1>q, <1>4 DEF Live
  <2> QED BY <1>1, <1>4, <2>1, SamePhase
<1>6. offer' = [offer EXCEPT ![t] = calls] /\ UNCHANGED runs
  BY DEF Stages
<1>7. CASE q \notin Tasks
  <2>1. OfferPhase' = [OfferPhase EXCEPT ![t] = "dead", ![t] = "live"]
    BY <1>3, <1>5, <1>7, PhaseIsFunction
  <2>2. Contract!Stage(t, calls)
    BY <1>3, <1>6, <2>1 DEF Contract!Stage
  <2> QED BY <2>2 DEF Contract!Next
<1>8. CASE q \in Tasks
  <2>1. OfferPhase[q] = "live" /\ ~Claimed(q) /\ offer[q] # <<>>
    BY <1>q, <1>8, LivePhase DEF ProposalInv, Pending, Claimed, Of
  <2>2. ~Live(q)'
    <3>1. \A b \in Agents : prop[b].of = q => b = a
      BY <1>q, <1>8 DEF ProposalInv, Pending
    <3>2. \A b \in Agents : prop'[b].of # q
      BY <1>4, <3>1
    <3> QED BY <3>2 DEF Live
  <2>3. OfferPhase'[q] = "dead"
    BY <1>1, <1>4, <1>8, <2>1, <2>2 DEF OfferPhase
  <2>4. OfferPhase' = [OfferPhase EXCEPT ![q] = "dead", ![t] = "live"]
    BY <1>3, <1>4, <1>5, <1>8, <2>3, PhaseIsFunction
  <2>5. Contract!Stage(t, calls)
    BY <1>3, <1>6, <1>8, <2>1, <2>4 DEF Contract!Stage
  <2> QED BY <2>5 DEF Contract!Next
<1> QED BY <1>7, <1>8

LEMMA TakesImplements ==
    ASSUME ProposalInv, NEW t \in Tasks, NEW a \in Agents, NEW claim \in Proposal,
           Takes(t, a, claim)
    PROVE  Contract!Next
<1>0. Took(t, a, claim)
  BY TakesFacts
<1> DEFINE q == claim.of
<1>1. /\ q \in Tasks /\ q = prop[a].of /\ Of(t) = Nobody
      /\ \A u \in Tasks : Of(u)' = IF u = t THEN q ELSE Of(u)
      /\ UNCHANGED <<offer, runs>>
  BY <1>0 DEF Took, Of
<1>2. \A p \in Tasks : p # q => (Claimed(p)' <=> Claimed(p))
  BY <1>1, NobodyFacts DEF Claimed, Of
<1>3. Claimed(q)'
  BY <1>1 DEF Claimed, Of
<1>4. \A p \in Tasks : p # q => (Live(p)' <=> Live(p))
  BY <1>1, GonePhase DEF Takes
<1>5. OfferPhase[q] = "live" /\ OfferPhase'[q] = "claimed"
  BY <1>1, <1>3, LivePhase DEF OfferPhase
<1>6. \A p \in Tasks : p # q => OfferPhase'[p] = OfferPhase[p]
  BY <1>1, <1>2, <1>4, SamePhase
<1> HIDE DEF q
<1>7. OfferPhase' = [OfferPhase EXCEPT ![q] = "claimed"]
  BY <1>1, <1>5, <1>6, PhaseIsFunction
<1>8. Contract!Confirm(q)
  BY <1>1, <1>5, <1>7 DEF Contract!Confirm
<1> QED BY <1>1, <1>8 DEF Contract!Next

LEMMA CallingImplements ==
    ASSUME ProposalInv, NEW t \in Tasks, NEW label \in {"none", "clean", "tainted"},
           Calling(t, label)
    PROVE  Contract!Next
<1>1. /\ Of(t) \in Tasks /\ runs[Of(t)] \in Nat /\ Len(offer[Of(t)]) \in Nat
      /\ runs[Of(t)] + 1 <= Len(offer[Of(t)]) /\ UNCHANGED <<held, prop, offer>>
  BY CallingFacts
<1>2. UNCHANGED OfferPhase
  BY <1>1, QuietPhase
<1>3. Claimed(Of(t))
  BY <1>1 DEF Claimed, Of
<1>4. OfferPhase[Of(t)] = "claimed"
  BY <1>1, <1>3, PhaseFacts
<1>5. Contract!Run(Of(t))
  BY <1>1, <1>2, <1>4 DEF Contract!Run, Calling
<1> QED BY <1>1, <1>5 DEF Contract!Next

LEMMA InjectsImplements ==
    ASSUME ProposalInv, NEW t \in Tasks, Injects(t)
    PROVE  UNCHANGED <<OfferPhase, offer, runs>>
<1>1. UNCHANGED <<prop, held, offer, runs>>
  BY DEF Injects, Advances, ghosts
<1>2. UNCHANGED OfferPhase
  BY <1>1, QuietPhase
<1> QED BY <1>1, <1>2

\* Seen from the person, a proposal is offered, replaced, dropped or confirmed
\* once and never comes back: every step of the channel is one of
\* ConfirmContract or changes nothing there.
THEOREM Implements == Spec => ImplementsContract
<1>1. Init => Contract!Init
  <2> SUFFICES ASSUME Init PROVE Contract!Init
    OBVIOUS
  <2>1. ASSUME NEW p \in Tasks PROVE OfferPhase[p] = "unborn"
    BY NoneOfAny, NobodyFacts DEF Init, OfferPhase, Claimed, Live
  <2>2. OfferPhase = [p \in Tasks |-> "unborn"]
    BY <2>1, PhaseIsFunction
  <2> QED BY <2>2 DEF Init, Contract!Init
<1>2. ProposalInv /\ [Next]_vars => [Contract!Next]_<<OfferPhase, offer, runs>>
  BY KindOfStep, MovesImplements, AgesImplements, DropsImplements, StagesImplements,
     TakesImplements, CallingImplements, InjectsImplements DEF Kind
<1> QED BY <1>1, <1>2, Proposals, PTL DEF Spec, ImplementsContract, Contract!Spec

-----------------------------------------------------------------------------
(* Labels and failed turns: the invariant of the histories                 *)

\* A preview and a summary keep the label of the pages that shaped them.
Fits(e) ==
    /\ e.says = "preview" =>
         e.by \in Tasks /\ offer[e.by] # <<>> /\ (e.by \in shaped => e.untrusted)
    /\ e.says = "summary" =>
         e.by \in Tasks /\ Of(e.by) \in Tasks /\ (Of(e.by) \in shaped => e.untrusted)

AllFit(m) == \A i \in 1..Len(m) : Fits(m[i])

\* No turn that has not answered is among these.
Clean(m) == \A i \in 1..Len(m) : m[i].says # "half"

\* The message of a turn that has not answered is the last in memory, and the
\* turn holds the lock of that history until it has gone.
HistoryInv ==
    /\ history \in [Agents -> Seq(Exchange)] /\ cache \in [Agents -> Seq(Exchange)]
    /\ hist \in [Agents -> Procs \cup {Nobody}]
    /\ \A a \in Agents : AllFit(history[a]) /\ AllFit(cache[a]) /\ Clean(history[a])
    /\ \A a \in Agents : Clean(cache[a]) \/ \E t \in Tasks : pc[t] = "model" /\ msg[t].to = a
    /\ \A t \in Tasks : pc[t] = "model" =>
         /\ msg[t].to \in Agents /\ hist[msg[t].to] = t
         /\ cache[msg[t].to] # <<>> /\ Clean(Front(cache[msg[t].to]))

LEMMA WindowFacts ==
    ASSUME NEW m \in Seq(Exchange), NEW w \in Windows(m)
    PROVE  /\ w \in Seq(Exchange)
           /\ \A i \in 1..Len(w) : \E j \in 1..Len(m) : w[i] = m[j]
<1>1. PICK k \in 0..MaxAged : k <= Len(m) /\ w = SubSeq(m, k + 1, Len(m))
  BY DEF Windows
<1>2. k \in Nat /\ Len(m) \in Nat
  BY BoundsAssumption
<1>3. /\ w \in Seq(Exchange) /\ Len(w) = Len(m) - k
      /\ \A i \in 1..Len(w) : w[i] = m[i + k]
  BY <1>1, <1>2
<1>4. \A i \in 1..Len(w) : i + k \in 1..Len(m)
  BY <1>1, <1>2, <1>3
<1> QED BY <1>3, <1>4

LEMMA AppendFacts ==
    ASSUME NEW m \in Seq(Exchange), NEW e \in Exchange
    PROVE  /\ Append(m, e) \in Seq(Exchange) /\ Append(m, e) # <<>>
           /\ \A i \in 1..Len(Append(m, e)) :
                Append(m, e)[i] = e \/ \E j \in 1..Len(m) : Append(m, e)[i] = m[j]
<1>1. Append(m, e) \in Seq(Exchange) /\ Len(Append(m, e)) = Len(m) + 1 /\ Len(m) \in Nat
  OBVIOUS
<1>2. \A i \in 1..Len(m) + 1 : Append(m, e)[i] = IF i = Len(m) + 1 THEN e ELSE m[i]
  OBVIOUS
<1>3. \A i \in 1..Len(m) + 1 : i # Len(m) + 1 => i \in 1..Len(m)
  BY <1>1
<1>4. Append(m, e) # <<>>
  BY <1>1
<1> QED BY <1>1, <1>2, <1>3, <1>4

LEMMA FrontFacts ==
    ASSUME NEW m \in Seq(Exchange), m # <<>>
    PROVE  /\ Front(m) \in Seq(Exchange)
           /\ \A i \in 1..Len(Front(m)) : i \in 1..Len(m) /\ Front(m)[i] = m[i]
<1>1. Len(m) \in Nat /\ Len(m) > 0
  OBVIOUS
<1> QED BY <1>1 DEF Front

LEMMA FrontOfAppend ==
    ASSUME NEW m \in Seq(Exchange), NEW e \in Exchange, Clean(m)
    PROVE  Clean(Front(Append(m, e)))
<1>1. Len(Append(m, e)) = Len(m) + 1 /\ Len(m) \in Nat
  OBVIOUS
<1>2. \A i \in 1..Len(m) : Append(m, e)[i] = m[i]
  OBVIOUS
<1>3. /\ Len(Front(Append(m, e))) = Len(m)
      /\ \A i \in 1..Len(m) : Front(Append(m, e))[i] = Append(m, e)[i]
  BY <1>1 DEF Front
<1> QED BY <1>2, <1>3 DEF Clean

LEMMA NothingFits ==
    /\ <<>> \in Seq(Exchange) /\ Clean(<<>>) /\ AllFit(<<>>) /\ AllFit(<<>>)'
<1>1. 1..Len(<<>>) = {} /\ <<>> \in Seq(Exchange)
  OBVIOUS
<1> QED BY <1>1 DEF Clean, AllFit

\* Part of a history fits and is clean if the whole is.
LEMMA PartFits ==
    ASSUME NEW m, NEW w, \A i \in 1..Len(w) : \E j \in 1..Len(m) : w[i] = m[j]
    PROVE  /\ AllFit(m) => AllFit(w)
           /\ AllFit(m)' => AllFit(w)'
           /\ Clean(m) => Clean(w)
<1>1. AllFit(m) => AllFit(w)
  BY DEF AllFit
<1>2. AllFit(m)' => AllFit(w)'
  BY DEF AllFit
<1> QED BY <1>1, <1>2 DEF Clean

-----------------------------------------------------------------------------
(* What a step does to the histories                                       *)

\* Offers, claims and labels are only ever added.
Grows ==
    /\ \A p \in Tasks : offer[p] # <<>> => offer'[p] # <<>>
    /\ \A t \in Tasks : held[t].of \in Tasks => held'[t].of = held[t].of
    /\ \A p \in Tasks : p \in shaped' => p \in shaped \/ offer[p] = <<>>

LEMMA KindGrows ==
    ASSUME ProposalInv, Kind
    PROVE  Grows
<1>1. UNCHANGED <<offer, held, shaped>> => Grows
  BY DEF Grows
<1>2. Moves \/ Drops \/ Ages => UNCHANGED <<offer, held, shaped>>
  BY DEF Moves, Drops, Ages, yes, ghosts
<1>3. ASSUME NEW t \in Tasks, NEW a \in Agents, NEW calls \in Offers, NEW tainted \in BOOLEAN,
             Stages(t, a, calls, tainted)
      PROVE  Grows
  <2>1. Staged(t, a, calls, tainted)
    BY <1>3, StagesFacts
  <2> QED BY <2>1, OfferFacts DEF Staged, Grows
<1>4. ASSUME NEW t \in Tasks, NEW a \in Agents, NEW claim \in Proposal, Takes(t, a, claim)
      PROVE  Grows
  <2>1. Took(t, a, claim)
    BY <1>4, TakesFacts
  <2> QED BY <2>1, NobodyFacts DEF Took, Grows, Of
<1>5. ASSUME NEW t \in Tasks, NEW label \in {"none", "clean", "tainted"}, Calling(t, label)
      PROVE  Grows
  BY <1>5, <1>1, CallingFacts
<1>6. ASSUME NEW t \in Tasks, Injects(t)
      PROVE  Grows
  BY <1>6, <1>1 DEF Injects, Advances, ghosts
<1> QED BY <1>1, <1>2, <1>3, <1>4, <1>5, <1>6 DEF Kind

LEMMA FitsStays ==
    ASSUME ProposalInv, Grows, NEW m, AllFit(m)
    PROVE  AllFit(m)'
<1>1. \A t \in Tasks : held[t].of \in Tasks => offer[held[t].of] # <<>>
  BY DEF ProposalInv, Taken, Of
<1> SUFFICES ASSUME NEW i \in 1..Len(m) PROVE Fits(m[i])'
  BY DEF AllFit
<1> DEFINE e == m[i]
<1>2. Fits(e)
  BY DEF AllFit
<1> HIDE DEF e
<1>3. Fits(e)'
  BY <1>1, <1>2 DEF Fits, Grows, Of
<1> QED BY <1>3 DEF e

\* The turns that wait for the model go on waiting, with their locks.
ModelsStay ==
    \A t \in Tasks : /\ pc'[t] = "model" <=> pc[t] = "model"
                     /\ pc[t] = "model" => msg'[t] = msg[t] /\ hist'[msg[t].to] = t

LEMMA QuietKeeps ==
    ASSUME ProposalInv, HistoryInv, Grows, ModelsStay, UNCHANGED <<history, cache>>,
           hist' \in [Agents -> Procs \cup {Nobody}]
    PROVE  HistoryInv'
<1>1. ASSUME NEW a \in Agents
      PROVE  AllFit(history[a])' /\ AllFit(cache[a])' /\ Clean(history[a])'
  <2>1. PICK h, c : h = history[a] /\ c = cache[a]
    OBVIOUS
  <2>2. AllFit(h)' /\ AllFit(c)' /\ Clean(h)
    BY <2>1, FitsStays DEF HistoryInv
  <2>3. h = history'[a] /\ c = cache'[a]
    BY <2>1
  <2>4. AllFit(history[a])'
    BY <2>2, <2>3 DEF AllFit, Fits
  <2>5. AllFit(cache[a])'
    BY <2>2, <2>3 DEF AllFit, Fits
  <2> QED BY <2>2, <2>3, <2>4, <2>5 DEF Clean
<1>3. ASSUME NEW a \in Agents
      PROVE  Clean(cache[a])' \/ \E t \in Tasks : pc'[t] = "model" /\ msg'[t].to = a
  <2>1. CASE Clean(cache[a])
    BY <2>1 DEF Clean
  <2>2. ASSUME NEW t \in Tasks, pc[t] = "model", msg[t].to = a
        PROVE  pc'[t] = "model" /\ msg'[t].to = a
    BY <2>2 DEF ModelsStay
  <2> QED BY <2>1, <2>2 DEF HistoryInv
<1>4. \A t \in Tasks : pc'[t] = "model" =>
         /\ msg'[t].to \in Agents /\ hist'[msg'[t].to] = t
         /\ cache'[msg'[t].to] # <<>> /\ Clean(Front(cache'[msg'[t].to]))
  BY DEF HistoryInv, ModelsStay
<1> QED BY <1>1, <1>3, <1>4 DEF HistoryInv

\* What one task may put into one history, on disk and in memory.
Fit(h) == h \in Seq(Exchange) /\ AllFit(h)' /\ Clean(h)

\* One person's history is replaced while nobody else's turn is in it.
LEMMA PutsKeeps ==
    ASSUME ProposalInv, HistoryInv, Grows, NEW a \in Agents, NEW h, NEW c, Fit(h), Fit(c),
           history' = [history EXCEPT ![a] = h],
           cache' = [cache EXCEPT ![a] = c],
           hist' \in [Agents -> Procs \cup {Nobody}],
           \A t \in Tasks : pc'[t] = "model" =>
             /\ pc[t] = "model" /\ msg'[t] = msg[t]
             /\ msg[t].to # a /\ hist'[msg[t].to] = t,
           \A t \in Tasks : pc[t] = "model" /\ msg[t].to # a =>
             pc'[t] = "model" /\ msg'[t] = msg[t]
    PROVE  HistoryInv'
<1>1. /\ history' \in [Agents -> Seq(Exchange)] /\ cache' \in [Agents -> Seq(Exchange)]
      /\ history'[a] = h /\ cache'[a] = c
      /\ \A b \in Agents : b # a => history'[b] = history[b] /\ cache'[b] = cache[b]
  <2>1. /\ history' \in [Agents -> Seq(Exchange)] /\ history'[a] = h
        /\ \A b \in Agents : b # a => history'[b] = history[b]
    BY DEF HistoryInv, Fit
  <2> QED BY <2>1 DEF HistoryInv, Fit
<1>2. ASSUME NEW b \in Agents
      PROVE  AllFit(history[b])' /\ AllFit(cache[b])' /\ Clean(history[b])'
  <2>1. PICK x, y : x = history'[b] /\ y = cache'[b]
    OBVIOUS
  <2>2. AllFit(x)' /\ AllFit(y)' /\ Clean(x)
    <3>1. CASE b = a
      BY <1>1, <2>1, <3>1 DEF Fit
    <3>2. CASE b # a
      BY <1>1, <2>1, <3>2, FitsStays DEF HistoryInv
    <3> QED BY <3>1, <3>2
  <2>3. AllFit(history[b])'
    BY <2>1, <2>2 DEF AllFit, Fits
  <2>4. AllFit(cache[b])'
    BY <2>1, <2>2 DEF AllFit, Fits
  <2> QED BY <2>1, <2>2, <2>3, <2>4 DEF Clean
<1>3. ASSUME NEW b \in Agents
      PROVE  Clean(cache[b])' \/ \E t \in Tasks : pc'[t] = "model" /\ msg'[t].to = b
  <2>1. CASE b = a
    BY <1>1, <2>1 DEF Fit, Clean
  <2>2. CASE b # a /\ Clean(cache[b])
    BY <1>1, <2>2 DEF Clean
  <2>3. ASSUME b # a, NEW t \in Tasks, pc[t] = "model", msg[t].to = b
        PROVE  pc'[t] = "model" /\ msg'[t].to = b
    BY <2>3
  <2> QED BY <2>1, <2>2, <2>3 DEF HistoryInv
<1>4. ASSUME NEW t \in Tasks, pc'[t] = "model"
      PROVE  /\ msg'[t].to \in Agents /\ hist'[msg'[t].to] = t
             /\ cache'[msg'[t].to] # <<>> /\ Clean(Front(cache'[msg'[t].to]))
  <2>1. /\ pc[t] = "model" /\ msg'[t] = msg[t] /\ msg[t].to # a /\ hist'[msg[t].to] = t
        /\ msg[t].to \in Agents
    BY <1>4 DEF HistoryInv
  <2>2. cache'[msg[t].to] = cache[msg[t].to]
    BY <1>1, <2>1
  <2> QED BY <2>1, <2>2 DEF HistoryInv
<1> QED BY <1>1, <1>2, <1>3, <1>4 DEF HistoryInv

LEMMA SamePut ==
    ASSUME HistoryInv, NEW a \in Agents, NEW h, h = history[a], UNCHANGED history
    PROVE  history' = [history EXCEPT ![a] = h]
BY DEF HistoryInv

\* Who waits for the model holds its lock, so a free history is nobody's.
LEMMA FreeFacts ==
    ASSUME HistoryInv, NEW a \in Agents, Free(a), NEW t \in Tasks, pc[t] = "model"
    PROVE  msg[t].to # a
BY NobodyFacts DEF HistoryInv, Free

LEMMA SameLocks ==
    ASSUME HistoryInv, UNCHANGED hist
    PROVE  /\ hist' \in [Agents -> Procs \cup {Nobody}]
           /\ \A t \in Tasks : pc[t] = "model" => hist'[msg[t].to] = t
BY DEF HistoryInv

LEMMA TakenLocks ==
    ASSUME HistoryInv, NEW a \in Agents, Free(a), NEW p \in Procs, Locks(a, p)
    PROVE  /\ hist' \in [Agents -> Procs \cup {Nobody}]
           /\ \A t \in Tasks : pc[t] = "model" => hist'[msg[t].to] = t
BY FreeFacts DEF HistoryInv, Locks

LEMMA LetGoLocks ==
    ASSUME HistoryInv, NEW p \in Procs, Releases(p), p \in Tasks => pc[p] # "model"
    PROVE  /\ hist' \in [Agents -> Procs \cup {Nobody}]
           /\ \A t \in Tasks : pc[t] = "model" => hist'[msg[t].to] = t
BY NobodyFacts DEF HistoryInv, Releases

\* A task that moves on neither to the model nor from it leaves the others there.
LEMMA GotoStays ==
    ASSUME ProposalInv, NEW p \in Procs, NEW label, Goto(p, label),
           p \in Tasks => pc[p] # "model" /\ label # "model",
           \A t \in Tasks : pc[t] = "model" => hist'[msg[t].to] = t
    PROVE  ModelsStay
BY DEF ModelsStay, Goto, ProposalInv, Types

\* A history that nobody holds is replaced.
LEMMA FreePutKeeps ==
    ASSUME ProposalInv, HistoryInv, Grows, ModelsStay, NEW a \in Agents, Free(a),
           NEW h, NEW c, Fit(h), Fit(c),
           history' = [history EXCEPT ![a] = h],
           cache' = [cache EXCEPT ![a] = c],
           hist' \in [Agents -> Procs \cup {Nobody}]
    PROVE  HistoryInv'
<1>1. \A t \in Tasks : pc[t] = "model" => msg[t].to # a
  BY FreeFacts
<1>2. \A t \in Tasks : pc'[t] = "model" =>
        /\ pc[t] = "model" /\ msg'[t] = msg[t]
        /\ msg[t].to # a /\ hist'[msg[t].to] = t
  BY <1>1 DEF ModelsStay
<1>3. \A t \in Tasks : pc[t] = "model" /\ msg[t].to # a =>
        pc'[t] = "model" /\ msg'[t] = msg[t]
  BY DEF ModelsStay
<1> QED BY <1>2, <1>3, PutsKeeps

\* The histories one starts from, and what the window makes of them.
LEMMA StoredFits ==
    ASSUME ProposalInv, HistoryInv, Grows, NEW a \in Agents, NEW h, h = history[a]
    PROVE  Fit(h)
BY FitsStays DEF HistoryInv, Fit

LEMMA WindowFits ==
    ASSUME NEW m, Fit(m), NEW w \in Windows(m)
    PROVE  Fit(w)
BY WindowFacts, PartFits DEF Fit

LEMMA AppendFits ==
    ASSUME NEW m, Fit(m), NEW e \in Exchange, Fits(e)', e.says # "half"
    PROVE  Fit(Append(m, e))
<1>1. \A i \in 1..Len(Append(m, e)) :
        Append(m, e)[i] = e \/ \E j \in 1..Len(m) : Append(m, e)[i] = m[j]
  BY AppendFacts DEF Fit
<1>2. Append(m, e) \in Seq(Exchange)
  BY AppendFacts DEF Fit
<1> DEFINE w == Append(m, e)
<1> HIDE DEF w
<1>3. Clean(w)
  BY <1>1 DEF Fit, Clean, w
<1>4. AllFit(w)'
  <2> SUFFICES ASSUME NEW i \in 1..Len(w) PROVE Fits(w[i])'
    BY DEF AllFit
  <2>1. CASE w[i] = e
    BY <2>1 DEF Fits
  <2>2. ASSUME NEW j \in 1..Len(m), w[i] = m[j] PROVE Fits(w[i])'
    BY <2>2 DEF Fit, AllFit, Fits
  <2> QED BY <1>1, <2>1, <2>2 DEF w
<1> QED BY <1>2, <1>3, <1>4 DEF Fit, w

LEMMA WindowWithFits ==
    ASSUME NEW m, Fit(m), NEW e \in Exchange, Fits(e)', e.says # "half",
           NEW w \in WindowsWith(m, e)
    PROVE  Fit(w)
<1>1. PICK v \in Windows(m) : w = Append(v, e)
  BY DEF WindowsWith
<1> QED BY <1>1, WindowFits, AppendFits

LEMMA LoadsFit ==
    ASSUME ProposalInv, HistoryInv, Grows, NEW a \in Agents, Free(a), NEW m \in Loads(a)
    PROVE  Fit(m) /\ \E x : x = LoadedTo(a, m) /\ Fit(x)
<1>1. PICK h, c : h = history[a] /\ c = cache[a]
  OBVIOUS
<1>2. Fit(h)
  BY <1>1, StoredFits
<1>3. Fit(c)
  <2>1. Clean(c)
    BY <1>1, FreeFacts DEF HistoryInv
  <2> QED BY <1>1, <2>1, FitsStays DEF HistoryInv, Fit
<1>4. m = c \/ m \in Windows(h)
  BY <1>1 DEF Loads
<1>5. Fit(m)
  BY <1>2, <1>3, <1>4, WindowFits
<1>6. LoadedTo(a, m) \in {h, m}
  BY <1>1 DEF LoadedTo
<1>7. PICK x : x = LoadedTo(a, m)
  OBVIOUS
<1>8. Fit(x)
  BY <1>2, <1>5, <1>6, <1>7
<1> QED BY <1>5, <1>7, <1>8

\* A task's history while its lock is free: what it loads is put back, or more.
LEMMA LoadPutKeeps ==
    ASSUME ProposalInv, HistoryInv, Grows, ModelsStay, NEW a \in Agents, Free(a),
           NEW m \in Loads(a), Store(a, LoadedTo(a, m)), NEW c, Fit(c),
           cache' = [cache EXCEPT ![a] = c],
           hist' \in [Agents -> Procs \cup {Nobody}]
    PROVE  HistoryInv'
<1>1. PICK h : h = LoadedTo(a, m) /\ Fit(h)
  BY LoadsFit
<1>2. history' = [history EXCEPT ![a] = h]
  BY <1>1 DEF Store
<1>3. Fit(h)
  BY <1>1
<1> QED BY <1>2, <1>3, FreePutKeeps

-----------------------------------------------------------------------------
(* Every action keeps the histories.                                       *)

LEMMA ArriveHistory ==
    ASSUME ProposalInv, HistoryInv, Grows, NEW t \in Tasks, Arrive(t)
    PROVE  HistoryInv'
<1>1. /\ UNCHANGED <<history, cache, hist>> /\ pc[t] = "new"
      /\ \E a \in Agents, text \in Texts, label \in {"resolving", "line"} :
           /\ msg' = [msg EXCEPT ![t] = [to |-> a, text |-> text]]
           /\ pc' = [pc EXCEPT ![t] = label]
  BY DEF Arrive, disk, memory, locks, Joins
<1>2. ModelsStay
  BY <1>1, SameLocks DEF ModelsStay, ProposalInv, Types, Procs
<1> QED BY <1>1, <1>2, SameLocks, QuietKeeps

LEMMA ResolveHistory ==
    ASSUME ProposalInv, HistoryInv, Grows, NEW t \in Tasks, Resolve(t)
    PROVE  HistoryInv'
<1>1. /\ UNCHANGED <<history, cache, hist>> /\ pc[t] = "resolving" /\ t \in Procs
      /\ Goto(t, "line") \/ Goto(t, "done")
  BY DEF Resolve, disk, memory, locks, Joins, Procs
<1>2. ModelsStay
  BY <1>1, SameLocks, GotoStays
<1> QED BY <1>1, <1>2, SameLocks, QuietKeeps

LEMMA AnswerStays ==
    ASSUME ProposalInv, NEW t \in Tasks, NEW answer, Answers(t, answer), pc[t] # "model",
           \A u \in Tasks : pc[u] = "model" => hist'[msg[u].to] = u
    PROVE  ModelsStay
BY GotoStays DEF Answers, Procs

LEMMA RefuseHistory ==
    ASSUME ProposalInv, HistoryInv, Grows, NEW t \in Tasks, Refuse(t)
    PROVE  HistoryInv'
<1>1. /\ UNCHANGED <<history, cache, hist>> /\ pc[t] # "model" /\ Answers(t, "refused")
  BY DEF Refuse, Holds, disk, memory, locks
<1> QED BY <1>1, SameLocks, AnswerStays, QuietKeeps

LEMMA UnreadableHistory ==
    ASSUME ProposalInv, HistoryInv, Grows, NEW t \in Tasks, Unreadable(t)
    PROVE  HistoryInv'
<1>1. /\ UNCHANGED <<history, cache>> /\ pc[t] = "line" /\ Answers(t, "unavailable")
      /\ (UNCHANGED hist) \/ (Free(To(t)) /\ Locks(To(t), t))
  <2>1. (UNCHANGED hist) \/ (Free(To(t)) /\ Locks(To(t), t))
    BY DEF Unreadable
  <2> QED BY <2>1 DEF Unreadable, TakesSlot, Holds, disk, memory
<1>2. To(t) \in Agents
  BY <1>1 DEF ProposalInv, Placed
<1>3. /\ hist' \in [Agents -> Procs \cup {Nobody}]
      /\ \A u \in Tasks : pc[u] = "model" => hist'[msg[u].to] = u
  BY <1>1, <1>2, SameLocks, TakenLocks DEF Procs
<1> QED BY <1>1, <1>3, AnswerStays, QuietKeeps

LEMMA DecideExpiredHistory ==
    ASSUME ProposalInv, HistoryInv, Grows, NEW t \in Tasks, DecideExpired(t)
    PROVE  HistoryInv'
<1>1. /\ UNCHANGED <<history, cache, hist>> /\ pc[t] # "model"
      /\ \E answer : Answers(t, answer)
  BY DEF DecideExpired, TakesSlot, Holds, memory
<1> QED BY <1>1, SameLocks, AnswerStays, QuietKeeps

LEMMA AdvanceStays ==
    ASSUME ProposalInv, HistoryInv, NEW t \in Tasks, UNCHANGED hist,
           NextCall(t) \/ Goto(t, "inject"), pc[t] # "model"
    PROVE  ModelsStay
<1>1. PICK label \in {"summary", "commit", "inject"} : Goto(t, label)
  BY DEF NextCall
<1> QED BY <1>1, GotoStays, SameLocks DEF Procs

LEMMA CallHistory ==
    ASSUME ProposalInv, HistoryInv, Grows, NEW t \in Tasks, StoreCall(t) \/ RelayCall(t)
    PROVE  HistoryInv'
<1>1. /\ UNCHANGED <<history, cache, hist>> /\ pc[t] # "model"
      /\ NextCall(t) \/ Goto(t, "inject")
  BY DEF StoreCall, RelayCall, disk, memory, locks
<1> QED BY <1>1, SameLocks, AdvanceStays, QuietKeeps

LEMMA ReplyHistory ==
    ASSUME ProposalInv, HistoryInv, Grows, NEW t \in Tasks, Reply(t)
    PROVE  HistoryInv'
<1>1. /\ UNCHANGED <<history, cache>> /\ pc[t] = "reply" /\ Goto(t, "done") /\ Releases(t)
      /\ t \in Procs
  BY DEF Reply, disk, memory, Procs
<1>2. /\ hist' \in [Agents -> Procs \cup {Nobody}]
      /\ \A u \in Tasks : pc[u] = "model" => hist'[msg[u].to] = u
  BY <1>1, LetGoLocks
<1>3. ModelsStay
  BY <1>1, <1>2, GotoStays
<1> QED BY <1>1, <1>2, <1>3, QuietKeeps

LEMMA JobTurnEndsHistory ==
    ASSUME ProposalInv, HistoryInv, Grows, JobTurnEnds
    PROVE  HistoryInv'
<1>1. /\ UNCHANGED <<history, cache>> /\ Goto(Runner, "done") /\ Releases(Runner)
      /\ Runner \in Procs /\ Runner \notin Tasks
  BY NobodyFacts DEF JobTurnEnds, disk, memory, Procs
<1>2. /\ hist' \in [Agents -> Procs \cup {Nobody}]
      /\ \A u \in Tasks : pc[u] = "model" => hist'[msg[u].to] = u
  BY <1>1, LetGoLocks
<1>3. ModelsStay
  BY <1>1, <1>2, GotoStays
<1> QED BY <1>1, <1>2, <1>3, QuietKeeps

LEMMA JobDueHistory ==
    ASSUME ProposalInv, HistoryInv, Grows, NEW a \in Agents, JobDue(a)
    PROVE  HistoryInv'
<1>1. /\ UNCHANGED <<history, cache, hist>>
      /\ msg' = [msg EXCEPT ![Runner] = [to |-> a, text |-> "chat"]]
      /\ pc' = [pc EXCEPT ![Runner] = "line"]
  BY DEF JobDue, disk, memory, Joins
<1>2. ModelsStay
  BY <1>1, SameLocks, NobodyFacts DEF ModelsStay, ProposalInv, Types, Procs
<1> QED BY <1>1, <1>2, SameLocks, QuietKeeps

LEMMA IdleHistory ==
    ASSUME ProposalInv, HistoryInv, Grows, UNCHANGED <<history, cache, hist, pc, msg>>
    PROVE  HistoryInv'
<1>1. ModelsStay
  BY SameLocks DEF ModelsStay
<1> QED BY <1>1, SameLocks, QuietKeeps

\* An exchange of another kind needs no label to fit.
LEMMA PlainFits ==
    ASSUME NEW by \in Tasks \cup Reports, NEW n \in Nat, NEW says \in Says, NEW u \in BOOLEAN,
           says \notin {"preview", "summary", "half"},
           NEW e, e = [by |-> by, call |-> n, says |-> says, untrusted |-> u]
    PROVE  e \in Exchange /\ Fits(e)' /\ e.says # "half"
BY DEF Exchange, Fits

LEMMA StartTurnHistory ==
    ASSUME ProposalInv, HistoryInv, Grows, NEW t \in Tasks, StartTurn(t)
    PROVE  HistoryInv'
<1>1. PICK a : a = To(t)
  OBVIOUS
<1>2. a \in Agents /\ Free(a) /\ Locks(a, t) /\ Goto(t, "model") /\ pc[t] = "line" /\ t \in Procs
  BY <1>1 DEF StartTurn, TakesSlot, Holds, ProposalInv, Placed, Procs
<1>3. PICK m \in Loads(a) : Store(a, LoadedTo(a, m)) /\ Cache(a, Append(m, HalfTurn(t)))
  BY <1>1 DEF StartTurn
<1>4. PICK h : h = LoadedTo(a, m) /\ Fit(h) /\ Fit(m)
  BY <1>2, <1>3, LoadsFit
<1>5. PICK e : e = HalfTurn(t)
  OBVIOUS
<1>6. e \in Exchange /\ Fits(e)'
  BY <1>5 DEF HalfTurn, Exchange, Says, Fits
<1> DEFINE c == Append(m, e)
<1>7. c \in Seq(Exchange) /\ c # <<>> /\ Clean(Front(c))
  BY <1>4, <1>6, AppendFacts, FrontOfAppend DEF Fit
<1>8. AllFit(c)'
  <2>1. \A i \in 1..Len(c) : c[i] = e \/ \E j \in 1..Len(m) : c[i] = m[j]
    BY <1>4, <1>6, AppendFacts DEF Fit
  <2> HIDE DEF c
  <2>2. ASSUME NEW i \in 1..Len(c) PROVE Fits(c[i])'
    <3>1. CASE c[i] = e
      BY <1>6, <3>1 DEF Fits
    <3>2. ASSUME NEW j \in 1..Len(m), c[i] = m[j] PROVE Fits(c[i])'
      BY <1>4, <3>2 DEF Fit, AllFit, Fits
    <3> QED BY <2>1, <3>1, <3>2
  <2> QED BY <2>2 DEF AllFit
<1>9. history' = [history EXCEPT ![a] = h] /\ cache' = [cache EXCEPT ![a] = c]
  BY <1>3, <1>4, <1>5 DEF Store, Cache
<1> HIDE DEF c
<1>10. /\ history' \in [Agents -> Seq(Exchange)] /\ cache' \in [Agents -> Seq(Exchange)]
       /\ history'[a] = h /\ cache'[a] = c
       /\ \A b \in Agents : b # a => history'[b] = history[b] /\ cache'[b] = cache[b]
  BY <1>2, <1>4, <1>7, <1>9 DEF HistoryInv, Fit
<1>11. ASSUME NEW b \in Agents
       PROVE  AllFit(history[b])' /\ AllFit(cache[b])' /\ Clean(history[b])'
  <2>1. PICK x, y : x = history'[b] /\ y = cache'[b]
    OBVIOUS
  <2>2. AllFit(x)' /\ AllFit(y)' /\ Clean(x)
    <3>1. CASE b = a
      BY <1>4, <1>8, <1>10, <2>1, <3>1 DEF Fit
    <3>2. CASE b # a
      BY <1>10, <2>1, <3>2, FitsStays DEF HistoryInv
    <3> QED BY <3>1, <3>2
  <2>3. AllFit(history[b])'
    BY <2>1, <2>2 DEF AllFit, Fits
  <2>4. AllFit(cache[b])'
    BY <2>1, <2>2 DEF AllFit, Fits
  <2> QED BY <2>1, <2>2, <2>3, <2>4 DEF Clean
<1>12. /\ pc'[t] = "model" /\ msg' = msg /\ msg[t].to = a
       /\ \A u \in Tasks : u # t => pc'[u] = pc[u]
       /\ hist' \in [Agents -> Procs \cup {Nobody}] /\ hist'[a] = t
       /\ \A b \in Agents : b # a => hist'[b] = hist[b]
  BY <1>1, <1>2 DEF Goto, ProposalInv, Types, HistoryInv, Locks, To
<1>13. \A u \in Tasks : pc[u] = "model" => msg[u].to # a /\ u # t
  BY <1>2, FreeFacts
<1>14. ASSUME NEW b \in Agents
       PROVE  Clean(cache[b])' \/ \E u \in Tasks : pc'[u] = "model" /\ msg'[u].to = b
  <2>1. CASE b = a
    BY <1>12, <2>1
  <2>2. CASE b # a /\ Clean(cache[b])
    BY <1>10, <2>2 DEF Clean
  <2>3. ASSUME b # a, NEW u \in Tasks, pc[u] = "model", msg[u].to = b
        PROVE  pc'[u] = "model" /\ msg'[u].to = b
    BY <1>12, <1>13, <2>3
  <2> QED BY <2>1, <2>2, <2>3 DEF HistoryInv
<1>15. ASSUME NEW u \in Tasks, pc'[u] = "model"
       PROVE  /\ msg'[u].to \in Agents /\ hist'[msg'[u].to] = u
              /\ cache'[msg'[u].to] # <<>> /\ Clean(Front(cache'[msg'[u].to]))
  <2>1. CASE u = t
    BY <1>2, <1>7, <1>10, <1>12, <2>1
  <2>2. CASE u # t
    <3>1. pc[u] = "model" /\ msg[u].to # a /\ msg[u].to \in Agents
      BY <1>12, <1>13, <1>15, <2>2 DEF HistoryInv
    <3>2. cache'[msg[u].to] = cache[msg[u].to] /\ hist'[msg[u].to] = hist[msg[u].to]
      BY <1>10, <1>12, <3>1
    <3> QED BY <1>12, <3>1, <3>2 DEF HistoryInv
  <2> QED BY <2>1, <2>2
<1> QED BY <1>10, <1>11, <1>12, <1>14, <1>15 DEF HistoryInv

\* What is in memory before the message of the turn that waits for the model.
LEMMA RolledBackFits ==
    ASSUME ProposalInv, HistoryInv, Grows, NEW t \in Tasks, pc[t] = "model",
           NEW c, c = Front(cache[msg[t].to])
    PROVE  Fit(c)
<1>1. PICK m : m = cache[msg[t].to]
  OBVIOUS
<1>2. m \in Seq(Exchange) /\ m # <<>> /\ AllFit(m)' /\ Clean(c)
  BY <1>1, FitsStays DEF HistoryInv
<1>3. c \in Seq(Exchange) /\ \A i \in 1..Len(c) : \E j \in 1..Len(m) : c[i] = m[j]
  BY <1>1, <1>2, FrontFacts
<1>4. AllFit(m)' => AllFit(c)'
  BY <1>3 DEF AllFit, Fits
<1> QED BY <1>2, <1>3, <1>4 DEF Fit

\* The others who wait for the model are with other people.
LEMMA OthersWait ==
    ASSUME ProposalInv, HistoryInv, NEW t \in Tasks, pc[t] = "model", NEW a, a = msg[t].to,
           Goto(t, "reply"),
           hist' \in [Agents -> Procs \cup {Nobody}], \A b \in Agents : b # a => hist'[b] = hist[b]
    PROVE  /\ a \in Agents
           /\ \A u \in Tasks : pc'[u] = "model" =>
                /\ pc[u] = "model" /\ msg'[u] = msg[u] /\ msg[u].to # a /\ hist'[msg[u].to] = u
           /\ \A u \in Tasks : pc[u] = "model" /\ msg[u].to # a =>
                pc'[u] = "model" /\ msg'[u] = msg[u]
<1>1. pc'[t] = "reply" /\ msg' = msg /\ \A u \in Tasks : u # t => pc'[u] = pc[u]
  BY DEF Goto, ProposalInv, Types, Procs
<1>2. \A u \in Tasks : pc[u] = "model" /\ u # t => msg[u].to # a
  BY DEF HistoryInv
<1>3. \A u \in Tasks : pc[u] = "model" => msg[u].to \in Agents /\ hist[msg[u].to] = u
  BY DEF HistoryInv
<1> QED BY <1>1, <1>2, <1>3

LEMMA ModelFailsHistory ==
    ASSUME ProposalInv, HistoryInv, Grows, NEW t \in Tasks, ModelFails(t)
    PROVE  HistoryInv'
<1>1. PICK a, h, c : a = msg[t].to /\ h = history[a] /\ c = Front(cache[a])
  OBVIOUS
<1>2. /\ pc[t] = "model" /\ UNCHANGED <<history, hist>> /\ cache' = [cache EXCEPT ![a] = c]
      /\ Goto(t, "reply")
  BY <1>1 DEF ModelFails, disk, locks, Cache, RolledBack, To, Answers
<1>3. /\ hist' \in [Agents -> Procs \cup {Nobody}]
      /\ \A b \in Agents : b # a => hist'[b] = hist[b]
  BY <1>2 DEF HistoryInv
<1>4. /\ a \in Agents
      /\ \A u \in Tasks : pc'[u] = "model" =>
           /\ pc[u] = "model" /\ msg'[u] = msg[u] /\ msg[u].to # a /\ hist'[msg[u].to] = u
      /\ \A u \in Tasks : pc[u] = "model" /\ msg[u].to # a =>
           pc'[u] = "model" /\ msg'[u] = msg[u]
  BY <1>1, <1>2, <1>3, OthersWait
<1>5. Fit(h) /\ Fit(c)
  BY <1>1, <1>2, <1>4, StoredFits, RolledBackFits
<1>6. history' = [history EXCEPT ![a] = h]
  BY <1>1, <1>2, <1>4, SamePut
<1>7. cache' = [cache EXCEPT ![a] = c]
  BY <1>2
<1> QED BY <1>3, <1>4, <1>5, <1>6, <1>7, PutsKeeps, ZenonT(30)

LEMMA ModelAnswersHistory ==
    ASSUME ProposalInv, HistoryInv, Grows, NEW t \in Tasks, ModelAnswers(t)
    PROVE  HistoryInv'
<1>1. PICK a, h, f : a = msg[t].to /\ h = history[a] /\ f = Front(cache[a])
  OBVIOUS
<1>2. pc[t] = "model" /\ a \in Agents /\ offer[t] = <<>> /\ t \notin shaped
  BY <1>1 DEF ModelAnswers, HistoryInv, ProposalInv, Placed, Early, Counted
<1>3. Fit(h) /\ Fit(f)
  BY <1>1, <1>2, StoredFits, RolledBackFits
<1>4. PICK calls \in Offers \cup {<<>>} :
        \/ \E fetched \in BOOLEAN : AnswerSaved(t, fetched, calls)
        \/ AnswerNotSaved(t, calls)
  BY DEF ModelAnswers
<1>5. CASE AnswerNotSaved(t, calls)
  <2>1. UNCHANGED <<history, hist>> /\ cache' = [cache EXCEPT ![a] = f] /\ Goto(t, "reply")
    BY <1>1, <1>5 DEF AnswerNotSaved, locks, Cache, RolledBack, To, Answers
  <2>2. /\ hist' \in [Agents -> Procs \cup {Nobody}]
        /\ \A b \in Agents : b # a => hist'[b] = hist[b]
    BY <2>1 DEF HistoryInv
  <2>3. /\ \A u \in Tasks : pc'[u] = "model" =>
             /\ pc[u] = "model" /\ msg'[u] = msg[u] /\ msg[u].to # a /\ hist'[msg[u].to] = u
        /\ \A u \in Tasks : pc[u] = "model" /\ msg[u].to # a =>
             pc'[u] = "model" /\ msg'[u] = msg[u]
    BY <1>1, <1>2, <2>1, <2>2, OthersWait
  <2>4. history' = [history EXCEPT ![a] = h]
    BY <1>1, <1>2, <2>1, SamePut
  <2>5. cache' = [cache EXCEPT ![a] = f]
    BY <2>1
  <2>6. a \in Agents /\ hist' \in [Agents -> Procs \cup {Nobody}]
    BY <1>2, <2>2
  <2> QED BY <1>3, <2>3, <2>4, <2>5, <2>6, PutsKeeps, ZenonT(30)
<1>6. ASSUME NEW fetched \in BOOLEAN, AnswerSaved(t, fetched, calls)
      PROVE  HistoryInv'
  <2>1. PICK tainted \in BOOLEAN : tainted = (Taint(cache[a]) \/ fetched)
    BY DEF Taint
  <2>2. PICK e : e = [by |-> t, call |-> 0, says |-> IF calls # <<>> THEN "preview" ELSE "answer",
                      untrusted |-> tainted]
    OBVIOUS
  <2>3. /\ offer' = [offer EXCEPT ![t] = calls]
        /\ shaped' = IF calls # <<>> /\ tainted THEN shaped \cup {t} ELSE shaped
        /\ Locks(a, Nobody) /\ Goto(t, "reply")
    BY <1>1, <1>6, <2>1 DEF AnswerSaved, To, Answers
  <2>4. PICK w \in WindowsWith(f, e) : Store(a, w) /\ Cache(a, w)
    BY <1>1, <1>6, <2>1, <2>2 DEF AnswerSaved, To
  <2>5. e \in Exchange /\ e.says # "half"
    BY <2>2 DEF Exchange, Says
  <2>6. Fits(e)'
    <3>1. CASE calls = <<>>
      BY <2>2, <3>1 DEF Fits
    <3>2. CASE calls # <<>>
      <4>1. offer'[t] = calls /\ (t \in shaped' => tainted)
        BY <1>2, <2>3, <3>2 DEF ProposalInv, Types
      <4> QED BY <2>2, <3>2, <4>1 DEF Fits
    <3> QED BY <3>1, <3>2
  <2>7. Fit(w)
    BY <1>3, <2>4, <2>5, <2>6, WindowWithFits
  <2>8. history' = [history EXCEPT ![a] = w] /\ cache' = [cache EXCEPT ![a] = w]
    BY <2>4 DEF Store, Cache
  <2>9. /\ hist' \in [Agents -> Procs \cup {Nobody}]
        /\ \A b \in Agents : b # a => hist'[b] = hist[b]
    BY <2>3 DEF HistoryInv, Locks
  <2>10. /\ \A u \in Tasks : pc'[u] = "model" =>
             /\ pc[u] = "model" /\ msg'[u] = msg[u] /\ msg[u].to # a /\ hist'[msg[u].to] = u
        /\ \A u \in Tasks : pc[u] = "model" /\ msg[u].to # a =>
             pc'[u] = "model" /\ msg'[u] = msg[u]
    BY <1>1, <1>2, <2>3, <2>9, OthersWait
  <2> QED BY <1>2, <2>7, <2>8, <2>9, <2>10, PutsKeeps, ZenonT(30)
<1> QED BY <1>4, <1>5, <1>6

LEMMA ConfirmHistory ==
    ASSUME ProposalInv, HistoryInv, Grows, NEW t \in Tasks, Confirm(t)
    PROVE  HistoryInv'
<1>1. PICK a : a = To(t)
  OBVIOUS
<1>2. a \in Agents /\ Free(a) /\ pc[t] = "line" /\ t \in Procs
  BY <1>1 DEF Confirm, TakesSlot, Holds, ProposalInv, Placed, Procs
<1>3. PICK m \in Loads(a) :
        /\ Store(a, LoadedTo(a, m)) /\ Cache(a, m)
        /\ \/ Goto(t, "commit") /\ UNCHANGED hist
           \/ Locks(a, t) /\ Goto(t, "reply")
  BY <1>1 DEF Confirm, Answers
<1>4. Fit(m) /\ cache' = [cache EXCEPT ![a] = m]
  BY <1>2, <1>3, LoadsFit DEF Cache
<1>5. /\ hist' \in [Agents -> Procs \cup {Nobody}]
      /\ \A u \in Tasks : pc[u] = "model" => hist'[msg[u].to] = u
  BY <1>2, <1>3, SameLocks, TakenLocks
<1>6. ModelsStay
  BY <1>2, <1>3, <1>5, GotoStays
<1>7. Store(a, LoadedTo(a, m))
  BY <1>3
<1> QED BY <1>2, <1>4, <1>5, <1>6, <1>7, LoadPutKeeps

LEMMA RejectHistory ==
    ASSUME ProposalInv, HistoryInv, Grows, NEW t \in Tasks, Reject(t)
    PROVE  HistoryInv'
<1>1. PICK a, e : a = To(t) /\ e = [by |-> t, call |-> 0, says |-> "discarded", untrusted |-> FALSE]
  OBVIOUS
<1>2. a \in Agents /\ Free(a) /\ pc[t] = "line" /\ t \in Procs
  BY <1>1 DEF Reject, TakesSlot, Holds, ProposalInv, Placed, Procs
<1>3. PICK m \in Loads(a) :
        \/ /\ \E w \in WindowsWith(m, e) : Store(a, w) /\ Cache(a, w)
           /\ Goto(t, "reply") /\ UNCHANGED hist
        \/ /\ Store(a, LoadedTo(a, m)) /\ Cache(a, Append(m, e))
           /\ Locks(a, t) /\ Goto(t, "reply")
  BY <1>1 DEF Reject, Answers
<1>4. Fit(m)
  BY <1>2, LoadsFit
<1>5. e \in Exchange /\ Fits(e)' /\ e.says # "half"
  BY <1>1, PlainFits DEF Says
<1>6. /\ hist' \in [Agents -> Procs \cup {Nobody}]
      /\ \A u \in Tasks : pc[u] = "model" => hist'[msg[u].to] = u
  BY <1>2, <1>3, SameLocks, TakenLocks
<1>7. ModelsStay
  BY <1>2, <1>3, <1>6, GotoStays
<1>8. ASSUME NEW w \in WindowsWith(m, e), Store(a, w), Cache(a, w)
      PROVE  HistoryInv'
  <2>1. Fit(w) /\ history' = [history EXCEPT ![a] = w] /\ cache' = [cache EXCEPT ![a] = w]
    BY <1>4, <1>5, <1>8, WindowWithFits DEF Store, Cache
  <2> QED BY <1>2, <1>6, <1>7, <2>1, FreePutKeeps
<1>9. CASE Store(a, LoadedTo(a, m)) /\ Cache(a, Append(m, e))
  <2>1. PICK c : c = Append(m, e)
    OBVIOUS
  <2>2. Fit(c) /\ cache' = [cache EXCEPT ![a] = c]
    BY <1>4, <1>5, <1>9, <2>1, AppendFits DEF Cache, Fit
  <2> QED BY <1>2, <1>6, <1>7, <1>9, <2>2, LoadPutKeeps
<1> QED BY <1>3, <1>8, <1>9

\* What comes in from outside goes into the store and into memory.
LEMMA UntrustedFits ==
    ASSUME ProposalInv, HistoryInv, Grows, ModelsStay, NEW a \in Agents, Free(a),
           NEW p \in Tasks \cup Reports, NEW n \in Nat, Untrusted(a, p, n),
           hist' \in [Agents -> Procs \cup {Nobody}]
    PROVE  HistoryInv'
<1>1. PICK h, e : h = history[a] /\ e = [by |-> p, call |-> n, says |-> "relay", untrusted |-> TRUE]
  OBVIOUS
<1>2. PICK w \in WindowsWith(h, e) : Store(a, w) /\ Cache(a, w)
  BY <1>1 DEF Untrusted
<1>3. e \in Exchange /\ Fits(e)' /\ e.says # "half"
  BY <1>1, PlainFits DEF Says
<1>4. Fit(h)
  BY <1>1, StoredFits
<1>5. Fit(w) /\ history' = [history EXCEPT ![a] = w] /\ cache' = [cache EXCEPT ![a] = w]
  BY <1>2, <1>3, <1>4, WindowWithFits DEF Store, Cache
<1> QED BY <1>5, FreePutKeeps

LEMMA OtherAgent ==
    ASSUME NEW a \in Agents
    PROVE  Other(a) \in Agents
BY AgentsAssumption DEF Other

LEMMA InjectHistory ==
    ASSUME ProposalInv, HistoryInv, Grows, NEW t \in Tasks, Inject(t)
    PROVE  HistoryInv'
<1>1. PICK b : b = Other(To(t))
  OBVIOUS
<1>2. /\ pc[t] = "inject" /\ Free(b) /\ NextCall(t) /\ UNCHANGED hist
      /\ Untrusted(b, t, at[t]) \/ UNCHANGED <<history, cache>>
  BY <1>1 DEF Inject, locks, memory
<1>3. b \in Agents
  BY <1>1, <1>2, OtherAgent DEF ProposalInv, Placed
<1>4. ModelsStay
  BY <1>2, AdvanceStays
<1>5. hist' \in [Agents -> Procs \cup {Nobody}]
  BY <1>2, SameLocks
<1>6. PICK n \in Nat : n = at[t]
  BY DEF ProposalInv, Types
<1> QED BY <1>2, <1>3, <1>4, <1>5, <1>6, UntrustedFits, QuietKeeps

LEMMA SummaryHistory ==
    ASSUME ProposalInv, HistoryInv, Grows, NEW t \in Tasks, Summary(t)
    PROVE  HistoryInv'
<1>1. PICK a, h, e : /\ a = To(t) /\ h = history[a]
                     /\ e = [by |-> t, call |-> 0, says |-> "summary", untrusted |-> held[t].tainted]
  OBVIOUS
<1>2. a \in Agents /\ Free(a) /\ pc[t] = "summary" /\ t \in Procs /\ Goto(t, "reply")
  BY <1>1 DEF Summary, Answers, ProposalInv, Placed, Procs
<1>3. Fit(h)
  BY <1>1, <1>2, StoredFits
<1>4. e \in Exchange /\ e.says # "half"
  BY <1>1, ProposalFacts DEF ProposalInv, Types, Exchange, Says
<1>5. Fits(e)'
  <2>1. UNCHANGED <<held, shaped>> /\ Of(t) \in Tasks /\ (Of(t) \in shaped => held[t].tainted)
    BY <1>2 DEF Summary, yes, ghosts, ProposalInv, Placed, Taken
  <2> QED BY <1>1, <2>1 DEF Fits, Of
<1>6. \/ UNCHANGED hist \/ Locks(a, t)
  BY <1>1 DEF Summary, locks
<1>7. /\ hist' \in [Agents -> Procs \cup {Nobody}]
      /\ \A u \in Tasks : pc[u] = "model" => hist'[msg[u].to] = u
  BY <1>2, <1>6, SameLocks, TakenLocks
<1>8. ModelsStay
  BY <1>2, <1>7, GotoStays
<1>9. \/ \E m \in Windows(h) :
           \/ \E w \in WindowsWith(m, e) : Store(a, w) /\ Cache(a, w)
           \/ Store(a, m) /\ Cache(a, Append(m, e))
      \/ Uncache(a) /\ UNCHANGED history
  BY <1>1 DEF Summary
<1>10. ASSUME NEW m \in Windows(h), NEW w \in WindowsWith(m, e), Store(a, w), Cache(a, w)
       PROVE  HistoryInv'
  <2>1. Fit(w) /\ history' = [history EXCEPT ![a] = w] /\ cache' = [cache EXCEPT ![a] = w]
    BY <1>3, <1>4, <1>5, <1>10, WindowFits, WindowWithFits DEF Store, Cache
  <2> QED BY <1>2, <1>7, <1>8, <2>1, FreePutKeeps
<1>11. ASSUME NEW m \in Windows(h), Store(a, m), Cache(a, Append(m, e))
       PROVE  HistoryInv'
  <2>1. PICK c : c = Append(m, e)
    OBVIOUS
  <2>2. /\ Fit(m) /\ Fit(c)
        /\ history' = [history EXCEPT ![a] = m] /\ cache' = [cache EXCEPT ![a] = c]
    <3>1. Fit(m)
      BY <1>3, <1>11, WindowFits
    <3> QED BY <1>4, <1>5, <1>11, <2>1, <3>1, AppendFits DEF Store, Cache, Fit
  <2> QED BY <1>2, <1>7, <1>8, <2>2, FreePutKeeps
<1>12. CASE Uncache(a) /\ UNCHANGED history
  <2>1. history' = [history EXCEPT ![a] = h]
    BY <1>1, <1>2, <1>12, SamePut
  <2>2. Fit(<<>>) /\ cache' = [cache EXCEPT ![a] = <<>>]
    BY <1>12, NothingFits DEF Uncache, Fit
  <2> QED BY <1>2, <1>3, <1>7, <1>8, <2>1, <2>2, FreePutKeeps
<1> QED BY <1>9, <1>10, <1>11, <1>12

LEMMA JobTurnHistory ==
    ASSUME ProposalInv, HistoryInv, Grows, JobTurn
    PROVE  HistoryInv'
<1>1. PICK a : a = To(Runner)
  OBVIOUS
<1>2. Free(a) /\ Locks(a, Runner) /\ Goto(Runner, "model") /\ Runner \in Procs /\ Runner \notin Tasks
  BY <1>1, NobodyFacts DEF JobTurn, Procs
<1>3. PICK m \in Loads(a) : Store(a, LoadedTo(a, m)) /\ Cache(a, m)
  BY <1>1 DEF JobTurn
<1>5. CASE a \in Agents
  <2>1. Fit(m) /\ cache' = [cache EXCEPT ![a] = m]
    BY <1>2, <1>3, <1>5, LoadsFit DEF Cache
  <2>2. /\ hist' \in [Agents -> Procs \cup {Nobody}]
        /\ \A u \in Tasks : pc[u] = "model" => hist'[msg[u].to] = u
    BY <1>2, <1>5, TakenLocks
  <2>3. ModelsStay
    BY <1>2, <2>2, GotoStays
  <2>4. Store(a, LoadedTo(a, m))
    BY <1>3
  <2> QED BY <1>2, <1>5, <2>1, <2>2, <2>3, <2>4, LoadPutKeeps
<1>6. CASE a \notin Agents
  <2>1. UNCHANGED <<history, cache, hist>>
    BY <1>2, <1>3, <1>6 DEF HistoryInv, Store, Cache, Locks
  <2>2. ModelsStay
    BY <1>2, <2>1, SameLocks, GotoStays
  <2> QED BY <2>1, <2>2, SameLocks, QuietKeeps
<1> QED BY <1>5, <1>6

LEMMA AppendReportHistory ==
    ASSUME ProposalInv, HistoryInv, Grows, NEW a \in Agents, NEW r \in Reports, AppendReport(a, r)
    PROVE  HistoryInv'
<1>1. PICK h : h = history[a]
  OBVIOUS
<1>2. Free(a) /\ UNCHANGED <<hist, pc, msg>>
  BY DEF AppendReport, locks, task
<1>3. ModelsStay /\ hist' \in [Agents -> Procs \cup {Nobody}] /\ Fit(h)
  BY <1>1, <1>2, SameLocks, StoredFits DEF ModelsStay
<1>4. ASSUME NEW u \in BOOLEAN, NEW e, e = [by |-> r, call |-> 0, says |-> "report", untrusted |-> u],
             NEW w \in WindowsWith(h, e), Store(a, w), Cache(a, w)
      PROVE  HistoryInv'
  <2>1. e \in Exchange /\ Fits(e)' /\ e.says # "half"
    BY <1>4, PlainFits DEF Says
  <2>2. Fit(w) /\ history' = [history EXCEPT ![a] = w] /\ cache' = [cache EXCEPT ![a] = w]
    BY <1>3, <1>4, <2>1, WindowWithFits DEF Store, Cache
  <2> QED BY <1>2, <1>3, <2>2, FreePutKeeps
<1>5. ASSUME NEW m \in Windows(h), Store(a, m), Uncache(a)
      PROVE  HistoryInv'
  <2>1. Fit(m) /\ history' = [history EXCEPT ![a] = m] /\ cache' = [cache EXCEPT ![a] = <<>>]
    BY <1>3, <1>5, WindowFits DEF Store, Uncache
  <2>2. Fit(<<>>)
    BY NothingFits DEF Fit
  <2> QED BY <1>2, <1>3, <2>1, <2>2, FreePutKeeps
<1> QED BY <1>1, <1>4, <1>5 DEF AppendReport

LEMMA AppendRelayHistory ==
    ASSUME ProposalInv, HistoryInv, Grows, NEW a \in Agents, NEW r \in Reports, AppendRelay(a, r)
    PROVE  HistoryInv'
<1>1. Free(a) /\ UNCHANGED <<hist, pc, msg>> /\ Untrusted(a, r, 0)
  BY DEF AppendRelay, locks, task
<1>2. ModelsStay /\ hist' \in [Agents -> Procs \cup {Nobody}]
  BY <1>1, SameLocks DEF ModelsStay
<1> QED BY <1>1, <1>2, UntrustedFits

LEMMA RestartHistory ==
    ASSUME ProposalInv, HistoryInv, Grows, Restart
    PROVE  HistoryInv'
<1>1. /\ UNCHANGED history
      /\ cache' = [a \in Agents |-> <<>>] /\ hist' = [a \in Agents |-> Nobody]
      /\ \A t \in Tasks : pc'[t] \in {"new", "done", "lost"}
  BY NobodyFacts DEF Restart, disk, Procs
<1>2. ASSUME NEW a \in Agents
      PROVE  AllFit(history[a])' /\ AllFit(cache[a])' /\ Clean(history[a])' /\ Clean(cache[a])'
  <2>1. PICK h : h = history[a]
    OBVIOUS
  <2>2. AllFit(h)' /\ Clean(h) /\ h = history'[a]
    BY <1>1, <2>1, FitsStays DEF HistoryInv
  <2>3. AllFit(history[a])'
    BY <2>2 DEF AllFit, Fits
  <2>4. cache'[a] = <<>> /\ 1..Len(<<>>) = {}
    BY <1>1
  <2> QED BY <2>2, <2>3, <2>4 DEF AllFit, Clean
<1>3. cache' \in [Agents -> Seq(Exchange)] /\ hist' \in [Agents -> Procs \cup {Nobody}]
  BY <1>1, NothingFits
<1> QED BY <1>1, <1>2, <1>3 DEF HistoryInv

-----------------------------------------------------------------------------
(* The theorems about labels and failed turns                              *)

Inv == ProposalInv /\ HistoryInv

LEMMA InvHolds == Spec => []Inv
<1>1. Init => Inv
  <2> SUFFICES ASSUME Init PROVE HistoryInv
    BY ProposalStart DEF Inv
  <2>1. \A a \in Agents : history[a] = <<>> /\ cache[a] = <<>>
    BY DEF Init
  <2>2. \A t \in Tasks : pc[t] = "new"
    BY DEF Init, Procs
  <2>3. /\ history \in [Agents -> Seq(Exchange)] /\ cache \in [Agents -> Seq(Exchange)]
        /\ hist \in [Agents -> Procs \cup {Nobody}]
    BY NothingFits DEF Init
  <2> QED BY <2>1, <2>2, <2>3, NothingFits DEF HistoryInv
<1>2. Inv /\ [Next]_vars => Inv'
  <2> SUFFICES ASSUME ProposalInv, HistoryInv, [Next]_vars PROVE ProposalInv' /\ HistoryInv'
    BY DEF Inv
  <2>1. Kind /\ ProposalInv' /\ Grows
    BY KindOfStep, KindKeeps, KindGrows
  <2>2. CASE UNCHANGED vars
    BY <2>1, <2>2, IdleHistory DEF vars, disk, memory, locks, task
  <2>3. ASSUME NEW t \in Tasks, Arrive(t) \/ Task(t)
        PROVE  HistoryInv'
    BY <2>1, <2>3, ArriveHistory, ResolveHistory, RefuseHistory, UnreadableHistory,
       StartTurnHistory, ModelFailsHistory, ModelAnswersHistory, DecideExpiredHistory,
       ConfirmHistory, RejectHistory, CallHistory, InjectHistory, SummaryHistory, ReplyHistory
       DEF Task, Deciding, Committing
  <2>4. CASE RunnerTask
    BY <2>1, <2>4, JobTurnHistory, JobTurnEndsHistory, AppendReportHistory, AppendRelayHistory
       DEF RunnerTask
  <2>5. ASSUME NEW a \in Agents, JobDue(a) \/ Expire(a)
        PROVE  HistoryInv'
    BY <2>1, <2>5, JobDueHistory, IdleHistory DEF Expire, memory, locks, task
  <2>6. CASE Restart
    BY <2>1, <2>6, RestartHistory
  <2> QED BY <2>1, <2>2, <2>3, <2>4, <2>5, <2>6 DEF Next
<1> QED BY <1>1, <1>2, PTL DEF Spec

\* The label of the page that shaped a proposal is on the preview, on the job
\* that a yes stores and on the summary, whatever the window has dropped since.
THEOREM LabelsFollow == Spec => []TaintFollows
<1>1. Inv => TaintFollows
  <2> SUFFICES ASSUME Inv PROVE TaintFollows
    OBVIOUS
  <2>1. \A p \in shaped : saved[p] # "clean"
    BY DEF Inv, ProposalInv, Types, Counted
  <2>2. ASSUME NEW a \in Agents, NEW i \in 1..Len(history[a]) PROVE Fits(history[a][i])
    BY DEF Inv, HistoryInv, AllFit
  <2> QED BY <2>1, <2>2 DEF TaintFollows, Fits
<1> QED BY <1>1, InvHolds, PTL

\* A turn that failed, or that has not answered, is in no stored history.
THEOREM HalvesStayOut == Spec => []HalfTurnsStayOut
<1>1. Inv => HalfTurnsStayOut
  BY DEF Inv, HistoryInv, Clean, HalfTurnsStayOut
<1> QED BY <1>1, InvHolds, PTL

-----------------------------------------------------------------------------
(* Nothing that another task appended is overwritten: sequences            *)

Elements(m)  == {m[i] : i \in 1..Len(m)}
Distinct(m)  == \A i, j \in 1..Len(m) : m[i] = m[j] => i = j
Prefix(h, c) == Len(h) <= Len(c) /\ \A i \in 1..Len(h) : c[i] = h[i]

\* What a window leaves of a history.
Suffix(w, c) == \E k \in 0..Len(c) : Len(w) = Len(c) - k /\ \A i \in 1..Len(w) : w[i] = c[i + k]

\* What leaves h for g leaves after everything older than it.
Keeps(h, g) ==
    \A i, j \in 1..Len(h) : i < j /\ h[i] \in Elements(g) => h[j] \in Elements(g)

LEMMA SuffixOfWindow ==
    ASSUME NEW m \in Seq(Exchange), NEW w \in Windows(m)
    PROVE  w \in Seq(Exchange) /\ Suffix(w, m)
<1>1. PICK k \in 0..MaxAged : k <= Len(m) /\ w = SubSeq(m, k + 1, Len(m))
  BY DEF Windows
<1>2. k \in Nat /\ Len(m) \in Nat /\ k \in 0..Len(m)
  BY <1>1, BoundsAssumption
<1>3. w \in Seq(Exchange) /\ Len(w) = Len(m) - k /\ \A i \in 1..Len(w) : w[i] = m[i + k]
  BY <1>1, <1>2
<1> QED BY <1>2, <1>3 DEF Suffix

LEMMA SuffixSelf ==
    ASSUME NEW m \in Seq(Exchange)
    PROVE  Suffix(m, m) /\ Prefix(m, m) /\ Keeps(m, m)
<1>1. Len(m) \in Nat /\ 0 \in 0..Len(m) /\ Len(m) = Len(m) - 0 /\ \A i \in 1..Len(m) : m[i] = m[i + 0]
  OBVIOUS
<1>2. Suffix(m, m)
  BY <1>1 DEF Suffix
<1>3. Prefix(m, m)
  BY <1>1 DEF Prefix
<1> QED BY <1>2, <1>3 DEF Keeps, Elements

LEMMA SuffixOfSuffix ==
    ASSUME NEW c \in Seq(Exchange), NEW m \in Seq(Exchange), NEW w \in Seq(Exchange),
           Suffix(m, c), Suffix(w, m)
    PROVE  Suffix(w, c)
<1>1. Len(c) \in Nat /\ Len(m) \in Nat /\ Len(w) \in Nat
  OBVIOUS
<1>2. PICK k \in 0..Len(c) : Len(m) = Len(c) - k /\ \A i \in 1..Len(m) : m[i] = c[i + k]
  BY DEF Suffix
<1>3. PICK n \in 0..Len(m) : Len(w) = Len(m) - n /\ \A i \in 1..Len(w) : w[i] = m[i + n]
  BY DEF Suffix
<1>4. k + n \in 0..Len(c) /\ Len(w) = Len(c) - (k + n)
  BY <1>1, <1>2, <1>3
<1>5. ASSUME NEW i \in 1..Len(w) PROVE w[i] = c[i + (k + n)]
  <2>1. i + n \in 1..Len(m) /\ (i + n) + k = i + (k + n)
    BY <1>1, <1>2, <1>3
  <2> QED BY <1>2, <1>3, <2>1
<1> QED BY <1>4, <1>5 DEF Suffix

LEMMA SuffixFacts ==
    ASSUME NEW c \in Seq(Exchange), NEW w \in Seq(Exchange), Suffix(w, c)
    PROVE  /\ Elements(w) \subseteq Elements(c)
           /\ Distinct(c) => Distinct(w)
<1>1. Len(c) \in Nat /\ Len(w) \in Nat
  OBVIOUS
<1>2. PICK k \in 0..Len(c) : Len(w) = Len(c) - k /\ \A i \in 1..Len(w) : w[i] = c[i + k]
  BY DEF Suffix
<1>3. \A i \in 1..Len(w) : i + k \in 1..Len(c)
  BY <1>1, <1>2
<1>4. Elements(w) \subseteq Elements(c)
  BY <1>2, <1>3 DEF Elements
<1>5. ASSUME Distinct(c), NEW i \in 1..Len(w), NEW j \in 1..Len(w), w[i] = w[j]
      PROVE  i = j
  <2>1. i + k = j + k
    BY <1>2, <1>3, <1>5 DEF Distinct
  <2> QED BY <1>1, <1>2, <2>1
<1> QED BY <1>4, <1>5 DEF Distinct

LEMMA AppendElements ==
    ASSUME NEW w \in Seq(Exchange), NEW e \in Exchange
    PROVE  /\ Elements(Append(w, e)) = Elements(w) \cup {e}
           /\ Prefix(w, Append(w, e))
           /\ Distinct(w) /\ e \notin Elements(w) => Distinct(Append(w, e))
           /\ Append(w, e) \in Seq(Exchange) /\ Append(w, e)[Len(Append(w, e))] = e
<1>1. PICK v : v = Append(w, e)
  OBVIOUS
<1>2. v \in Seq(Exchange) /\ Len(v) = Len(w) + 1 /\ Len(w) \in Nat
  BY <1>1
<1>3. \A i \in 1..Len(w) : v[i] = w[i]
  BY <1>1
<1>4. v[Len(w) + 1] = e
  BY <1>1
<1>5. 1..Len(v) = (1..Len(w)) \cup {Len(w) + 1}
  BY <1>2
<1>6. Elements(v) = Elements(w) \cup {e}
  BY <1>3, <1>4, <1>5 DEF Elements
<1>7. Prefix(w, v)
  BY <1>2, <1>3 DEF Prefix
<1>8. Distinct(w) /\ e \notin Elements(w) => Distinct(v)
  BY <1>3, <1>4, <1>5 DEF Distinct, Elements
<1> QED BY <1>1, <1>2, <1>4, <1>6, <1>7, <1>8

\* A history that continues the stored one keeps its order, cut and lengthened.
LEMMA KeepsOrder ==
    ASSUME NEW h \in Seq(Exchange), NEW c \in Seq(Exchange), NEW w \in Seq(Exchange),
           Distinct(c), Prefix(h, c), Suffix(w, c),
           NEW g, Elements(w) \subseteq Elements(g),
           \A e \in Elements(g) : e \in Elements(w) \/ e \notin Elements(c)
    PROVE  Keeps(h, g)
<1>1. Len(c) \in Nat /\ Len(w) \in Nat /\ Len(h) \in Nat
  OBVIOUS
<1>2. PICK k \in 0..Len(c) : Len(w) = Len(c) - k /\ \A i \in 1..Len(w) : w[i] = c[i + k]
  BY DEF Suffix
<1>3. Len(h) <= Len(c) /\ \A i \in 1..Len(h) : i \in 1..Len(c) /\ c[i] = h[i]
  BY <1>1 DEF Prefix
<1>4. ASSUME NEW i \in 1..Len(h), NEW j \in 1..Len(h), i < j, h[i] \in Elements(g)
      PROVE  h[j] \in Elements(g)
  <2>1. h[i] \in Elements(c)
    BY <1>3 DEF Elements
  <2>2. h[i] \in Elements(w)
    BY <1>4, <2>1
  <2>3. PICK n \in 1..Len(w) : w[n] = h[i]
    BY <2>2 DEF Elements
  <2>4. n + k \in 1..Len(c) /\ c[n + k] = c[i]
    BY <1>1, <1>2, <1>3, <2>3
  <2>5. i = n + k
    BY <1>3, <2>4 DEF Distinct
  <2>6. j - k \in 1..Len(w) /\ (j - k) + k = j
    BY <1>1, <1>2, <1>3, <1>4, <2>3, <2>5
  <2>7. w[j - k] = h[j]
    BY <1>2, <1>3, <2>6
  <2>8. h[j] \in Elements(w)
    BY <2>6, <2>7 DEF Elements
  <2> QED BY <2>8
<1> QED BY <1>4 DEF Keeps

-----------------------------------------------------------------------------
(* Nothing that another task appended is overwritten: the invariant        *)

\* An exchange in a history, stored or in memory, is behind its task: nobody
\* says the same thing again, a relay of a yes only by its next call.
Said(e) ==
    /\ e.by \in Reports => e.by \in appended
    /\ e.by \in Tasks =>
         /\ pc[e.by] \notin {"new", "resolving", "line"}
         /\ pc[e.by] = "model" => e.says = "half"
         /\ pc[e.by] \in {"commit", "inject", "summary"} => e.says = "relay"
         /\ pc[e.by] \in {"commit", "inject"} => e.call < at[e.by]

AllSaid(m) == \A i \in 1..Len(m) : Said(m[i])

\* No exchange is twice in a history, and what is held in memory begins with
\* what is stored.
OrderInv ==
    /\ \A a \in Agents : Distinct(history[a]) /\ Distinct(cache[a])
    /\ \A a \in Agents : AllSaid(history[a]) /\ AllSaid(cache[a])
    /\ \A a \in Agents : a \in cached => Prefix(history[a], cache[a])
    /\ \A t \in Tasks : pc[t] = "model" =>
         msg[t].to \in cached /\ cache[msg[t].to][Len(cache[msg[t].to])] = HalfTurn(t)

InOrder == \A a \in Agents : Keeps(history[a], history'[a])

\* A task goes on only after what it said.
Speaks ==
    /\ appended \subseteq appended'
    /\ \A t \in Tasks :
         \/ pc'[t] = pc[t] /\ at'[t] = at[t]
         \/ pc'[t] \in {"reply", "done", "lost"}
         \/ pc[t] \in {"new", "resolving", "line"}
         \/ /\ pc[t] \in {"commit", "inject"} /\ pc'[t] \in {"commit", "inject", "summary"}
            /\ at'[t] \in Nat /\ at'[t] >= at[t]

\* No turn begins to wait for the model.
Waits == \A t \in Tasks : pc'[t] = "model" => pc[t] = "model" /\ msg'[t] = msg[t]

LEMMA SaidStays ==
    ASSUME ProposalInv, Speaks, NEW e \in Exchange, Said(e)
    PROVE  Said(e)'
<1>1. e.call \in Nat
  BY DEF Exchange
<1>2. ASSUME e.by \in Tasks
      PROVE  /\ pc'[e.by] \notin {"new", "resolving", "line"}
             /\ pc'[e.by] = "model" => e.says = "half"
             /\ pc'[e.by] \in {"commit", "inject", "summary"} => e.says = "relay"
             /\ pc'[e.by] \in {"commit", "inject"} => e.call < at'[e.by]
  <2>1. PICK t \in Tasks : t = e.by
    BY <1>2
  <2>2. at[t] \in Nat
    BY DEF ProposalInv, Types
  <2>3. /\ pc[t] \notin {"new", "resolving", "line"}
        /\ pc[t] = "model" => e.says = "half"
        /\ pc[t] \in {"commit", "inject", "summary"} => e.says = "relay"
        /\ pc[t] \in {"commit", "inject"} => e.call < at[t]
    BY <2>1 DEF Said
  <2>4. CASE pc'[t] = pc[t] /\ at'[t] = at[t]
    BY <2>1, <2>3, <2>4
  <2>5. CASE pc'[t] \in {"reply", "done", "lost"}
    BY <2>1, <2>5
  <2>6. CASE /\ pc[t] \in {"commit", "inject"} /\ pc'[t] \in {"commit", "inject", "summary"}
             /\ at'[t] \in Nat /\ at'[t] >= at[t]
    <3>1. pc[t] \in {"commit", "inject"} /\ pc'[t] \in {"commit", "inject", "summary"}
      BY <2>6
    <3>2. at'[t] \in Nat /\ at'[t] >= at[t]
      BY <2>6
    <3>3. CASE pc'[t] = "summary"
      BY <2>1, <2>3, <3>1, <3>3
    <3>4. CASE pc'[t] \in {"commit", "inject"}
      BY <1>1, <2>1, <2>2, <2>3, <3>1, <3>2, <3>4
    <3> QED BY <3>1, <3>3, <3>4
  <2> QED BY <2>3, <2>4, <2>5, <2>6 DEF Speaks
<1> QED BY <1>2 DEF Said, Speaks

LEMMA AllSaidStays ==
    ASSUME ProposalInv, Speaks, NEW m \in Seq(Exchange), AllSaid(m)
    PROVE  AllSaid(m)'
<1> SUFFICES ASSUME NEW i \in 1..Len(m) PROVE Said(m[i])'
  BY DEF AllSaid
<1>1. PICK e \in Exchange : e = m[i]
  OBVIOUS
<1>2. Said(e)
  BY <1>1 DEF AllSaid
<1>3. Said(e)'
  BY <1>2, SaidStays
<1> QED BY <1>1, <1>3 DEF Said

\* What a task may put into a history, on disk and in memory.
Sound(m) == m \in Seq(Exchange) /\ Distinct(m) /\ AllSaid(m)'

\* What is read of a history stored as h: h or more, cut by the window.
MadeFrom(h, m) ==
    /\ m \in Seq(Exchange)
    /\ \E c \in Seq(Exchange) : Distinct(c) /\ Prefix(h, c) /\ AllSaid(c) /\ Suffix(m, c)

LEMMA MadeFacts ==
    ASSUME ProposalInv, Speaks, NEW h \in Seq(Exchange), NEW m, MadeFrom(h, m)
    PROVE  Sound(m) /\ Keeps(h, m)
<1>1. PICK c \in Seq(Exchange) : Distinct(c) /\ Prefix(h, c) /\ AllSaid(c) /\ Suffix(m, c)
  BY DEF MadeFrom
<1>2. m \in Seq(Exchange) /\ Distinct(m) /\ Elements(m) \subseteq Elements(c)
  BY <1>1, SuffixFacts DEF MadeFrom
<1>3. AllSaid(m)
  BY <1>1, <1>2 DEF AllSaid, Elements
<1>4. AllSaid(m)'
  BY <1>2, <1>3, AllSaidStays
<1>5. Keeps(h, m)
  BY <1>1, <1>2, KeepsOrder
<1> QED BY <1>2, <1>4, <1>5 DEF Sound

LEMMA MadeWindow ==
    ASSUME NEW h, NEW m, MadeFrom(h, m), NEW w \in Windows(m)
    PROVE  MadeFrom(h, w)
BY SuffixOfWindow, SuffixOfSuffix DEF MadeFrom

\* What a task says anew is in no history yet.
LEMMA MadeAppend ==
    ASSUME ProposalInv, Speaks, NEW h \in Seq(Exchange), NEW m, MadeFrom(h, m),
           NEW e \in Exchange, ~Said(e), Said(e)', NEW v, v = Append(m, e)
    PROVE  Sound(v) /\ Keeps(h, v) /\ Prefix(m, v) /\ v[Len(v)] = e
<1>1. PICK c \in Seq(Exchange) : Distinct(c) /\ Prefix(h, c) /\ AllSaid(c) /\ Suffix(m, c)
  BY DEF MadeFrom
<1>2. m \in Seq(Exchange) /\ Distinct(m) /\ Elements(m) \subseteq Elements(c)
  BY <1>1, SuffixFacts DEF MadeFrom
<1>3. e \notin Elements(c)
  BY <1>1 DEF AllSaid, Elements
<1>4. Elements(v) = Elements(m) \cup {e} /\ Prefix(m, v) /\ v \in Seq(Exchange) /\ v[Len(v)] = e
  BY <1>2, AppendElements
<1>5. Distinct(v)
  BY <1>2, <1>3, AppendElements
<1>6. Keeps(h, v)
  <2>1. Elements(m) \subseteq Elements(v) /\ \A x \in Elements(v) : x \in Elements(m) \/ x \notin Elements(c)
    BY <1>3, <1>4
  <2> QED BY <1>1, <1>2, <2>1, KeepsOrder
<1>7. AllSaid(v)'
  <2> SUFFICES ASSUME NEW i \in 1..Len(v) PROVE Said(v[i])'
    BY DEF AllSaid
  <2>1. PICK x : x = v[i]
    OBVIOUS
  <2>2. CASE x = e
    BY <2>1, <2>2 DEF Said
  <2>3. CASE x # e
    <3>1. x \in Elements(v) /\ x \in Exchange
      BY <1>4, <2>1 DEF Elements
    <3>2. x \in Elements(c)
      BY <1>2, <1>4, <2>3, <3>1
    <3>3. Said(x)
      BY <1>1, <3>2 DEF AllSaid, Elements
    <3>4. Said(x)'
      BY <3>1, <3>3, SaidStays
    <3> QED BY <2>1, <3>4 DEF Said
  <2> QED BY <2>2, <2>3
<1> QED BY <1>4, <1>5, <1>6, <1>7 DEF Sound

LEMMA MadeWindowWith ==
    ASSUME ProposalInv, Speaks, NEW h \in Seq(Exchange), NEW m, MadeFrom(h, m),
           NEW e \in Exchange, ~Said(e), Said(e)', NEW w \in WindowsWith(m, e)
    PROVE  Sound(w) /\ Keeps(h, w)
<1>1. PICK v \in Windows(m) : w = Append(v, e)
  BY DEF WindowsWith
<1>2. MadeFrom(h, v)
  BY MadeWindow
<1> QED BY <1>1, <1>2, MadeAppend

LEMMA PrefixOfPrefix ==
    ASSUME NEW h \in Seq(Exchange), NEW m \in Seq(Exchange), NEW c \in Seq(Exchange),
           Prefix(h, m), Prefix(m, c)
    PROVE  Prefix(h, c)
<1>1. Len(h) \in Nat /\ Len(m) \in Nat /\ Len(c) \in Nat
  OBVIOUS
<1> QED BY <1>1 DEF Prefix

LEMMA MadeStored ==
    ASSUME HistoryInv, OrderInv, NEW a \in Agents, NEW h, h = history[a]
    PROVE  h \in Seq(Exchange) /\ MadeFrom(h, h)
<1>1. h \in Seq(Exchange) /\ Distinct(h) /\ AllSaid(h)
  BY DEF HistoryInv, OrderInv
<1> QED BY <1>1, SuffixSelf DEF MadeFrom

LEMMA MadeCached ==
    ASSUME HistoryInv, OrderInv, NEW a \in Agents, a \in cached,
           NEW h, h = history[a], NEW c, c = cache[a]
    PROVE  MadeFrom(h, c) /\ Prefix(h, c)
<1>1. c \in Seq(Exchange) /\ Distinct(c) /\ AllSaid(c) /\ Prefix(h, c)
  BY DEF HistoryInv, OrderInv
<1> QED BY <1>1, SuffixSelf DEF MadeFrom

LEMMA MadeLoads ==
    ASSUME HistoryInv, OrderInv, NEW a \in Agents, NEW h, h = history[a], NEW m \in Loads(a)
    PROVE  MadeFrom(h, m) /\ \E x : x = LoadedTo(a, m) /\ MadeFrom(h, x) /\ Prefix(x, m)
<1>1. CASE a \in cached
  <2>1. m = cache[a] /\ LoadedTo(a, m) = h
    BY <1>1 DEF Loads, LoadedTo
  <2> QED BY <1>1, <2>1, MadeCached, MadeStored
<1>2. CASE a \notin cached
  <2>1. m \in Windows(h) /\ LoadedTo(a, m) = m
    BY <1>2 DEF Loads, LoadedTo
  <2>2. MadeFrom(h, m) /\ m \in Seq(Exchange)
    BY <2>1, MadeStored, MadeWindow, SuffixOfWindow
  <2> QED BY <2>1, <2>2, SuffixSelf
<1> QED BY <1>1, <1>2

\* What is in memory before the message of the turn that waits for the model.
LEMMA MadeRolledBack ==
    ASSUME HistoryInv, OrderInv, NEW t \in Tasks, pc[t] = "model", NEW a, a = msg[t].to,
           NEW h, h = history[a], NEW f, f = Front(cache[a])
    PROVE  MadeFrom(h, f) /\ Prefix(h, f)
<1>1. PICK c : c = cache[a]
  OBVIOUS
<1>2. /\ a \in Agents /\ c # <<>> /\ c \in Seq(Exchange) /\ h \in Seq(Exchange)
      /\ Distinct(c) /\ AllSaid(c) /\ Prefix(h, c) /\ Clean(h) /\ c[Len(c)].says = "half"
  <2>1. a \in Agents /\ c # <<>> /\ c \in Seq(Exchange) /\ h \in Seq(Exchange) /\ Clean(h)
    BY <1>1 DEF HistoryInv
  <2>2. a \in cached /\ c[Len(c)] = HalfTurn(t)
    BY <1>1 DEF OrderInv
  <2>3. Distinct(c) /\ AllSaid(c) /\ Prefix(h, c)
    BY <1>1, <2>1, <2>2 DEF OrderInv
  <2> QED BY <2>1, <2>2, <2>3 DEF HalfTurn
<1>3. Len(c) \in Nat \ {0} /\ Len(h) \in Nat
  BY <1>2
<1>4. f \in Seq(Exchange) /\ Len(f) = Len(c) - 1 /\ \A i \in 1..Len(f) : i \in 1..Len(c) /\ f[i] = c[i]
  BY <1>1, <1>2, <1>3 DEF Front
<1>5. Len(h) # Len(c)
  BY <1>2, <1>3 DEF Prefix, Clean
<1>6. Prefix(h, f)
  <2>1. Len(h) <= Len(c) /\ \A i \in 1..Len(h) : c[i] = h[i]
    BY <1>2 DEF Prefix
  <2>2. PICK n, l, k : n = Len(c) /\ l = Len(h) /\ k = Len(f)
    OBVIOUS
  <2>3. n \in Nat /\ l \in Nat /\ k = n - 1 /\ l <= n /\ l # n
    BY <1>3, <1>4, <1>5, <2>1, <2>2
  <2>4. l <= k
    BY <2>3
  <2>5. \A i \in 1..l : i \in 1..k
    BY <2>3, <2>4
  <2> QED BY <1>4, <2>1, <2>2, <2>4, <2>5 DEF Prefix
<1>7. Distinct(f)
  BY <1>2, <1>4 DEF Distinct
<1>8. AllSaid(f)
  BY <1>2, <1>4 DEF AllSaid
<1> QED BY <1>4, <1>6, <1>7, <1>8, SuffixSelf DEF MadeFrom

-----------------------------------------------------------------------------
(* Nothing that another task appended is overwritten: what a step does     *)

Ordered == OrderInv' /\ InOrder

LEMMA QuietOrder ==
    ASSUME ProposalInv, HistoryInv, OrderInv, Speaks, Waits, UNCHANGED <<history, cache>>,
           \A a \in Agents : a \in cached' <=> a \in cached
    PROVE  Ordered
<1>1. ASSUME NEW a \in Agents
      PROVE  /\ Distinct(history'[a]) /\ Distinct(cache'[a])
             /\ AllSaid(history[a])' /\ AllSaid(cache[a])'
             /\ a \in cached' => Prefix(history'[a], cache'[a])
             /\ Keeps(history[a], history'[a])
  <2>1. PICK h, c : h = history[a] /\ c = cache[a]
    OBVIOUS
  <2>2. /\ h \in Seq(Exchange) /\ c \in Seq(Exchange) /\ Distinct(h) /\ Distinct(c)
        /\ AllSaid(h) /\ AllSaid(c) /\ (a \in cached => Prefix(h, c))
    BY <2>1 DEF HistoryInv, OrderInv
  <2>3. AllSaid(h)' /\ AllSaid(c)' /\ Keeps(h, h)
    BY <2>2, AllSaidStays, SuffixSelf
  <2>4. h = history'[a] /\ c = cache'[a]
    BY <2>1
  <2>5. AllSaid(history[a])'
    BY <2>3, <2>4 DEF AllSaid, Said
  <2>6. AllSaid(cache[a])'
    BY <2>3, <2>4 DEF AllSaid, Said
  <2> QED BY <2>1, <2>2, <2>3, <2>4, <2>5, <2>6
<1>2. ASSUME NEW t \in Tasks, pc'[t] = "model"
      PROVE  msg'[t].to \in cached' /\ cache'[msg'[t].to][Len(cache'[msg'[t].to])] = HalfTurn(t)
  <2>1. pc[t] = "model" /\ msg'[t] = msg[t]
    BY <1>2 DEF Waits
  <2>2. msg[t].to \in Agents /\ msg[t].to \in cached
    BY <2>1 DEF HistoryInv, OrderInv
  <2> QED BY <2>1, <2>2 DEF OrderInv
<1>3. OrderInv'
  BY <1>1, <1>2 DEF OrderInv, HalfTurn
<1> QED BY <1>1, <1>3 DEF Ordered, InOrder

\* One person's history is replaced while nobody else's turn is in it.
LEMMA PutsOrder ==
    ASSUME ProposalInv, HistoryInv, OrderInv, Speaks, NEW a \in Agents,
           NEW g, g = history[a], NEW h, NEW c, Sound(h), Sound(c), Keeps(g, h),
           a \in cached' => Prefix(h, c),
           \A b \in Agents : b # a => (b \in cached' <=> b \in cached),
           history' = [history EXCEPT ![a] = h],
           cache' = [cache EXCEPT ![a] = c],
           \A t \in Tasks : pc'[t] = "model" =>
             \/ pc[t] = "model" /\ msg'[t] = msg[t] /\ msg[t].to # a
             \/ msg'[t].to = a /\ a \in cached' /\ c[Len(c)] = HalfTurn(t)
    PROVE  Ordered
<1>1. /\ history'[a] = h /\ cache'[a] = c
      /\ \A b \in Agents : b # a => history'[b] = history[b] /\ cache'[b] = cache[b]
  BY DEF HistoryInv
<1>2. ASSUME NEW b \in Agents
      PROVE  /\ Distinct(history'[b]) /\ Distinct(cache'[b])
             /\ AllSaid(history[b])' /\ AllSaid(cache[b])'
             /\ b \in cached' => Prefix(history'[b], cache'[b])
             /\ Keeps(history[b], history'[b])
  <2>1. PICK x, y : x = history'[b] /\ y = cache'[b]
    OBVIOUS
  <2>2. CASE b = a
    <3>1. x = h /\ y = c /\ AllSaid(x)' /\ AllSaid(y)'
      BY <1>1, <2>1, <2>2 DEF Sound
    <3>2. AllSaid(history[b])'
      BY <2>1, <3>1 DEF AllSaid, Said
    <3>3. AllSaid(cache[b])'
      BY <2>1, <3>1 DEF AllSaid, Said
    <3> QED BY <2>1, <2>2, <3>1, <3>2, <3>3 DEF Sound
  <2>3. CASE b # a
    <3>1. x = history[b] /\ y = cache[b]
      BY <1>1, <2>1, <2>3
    <3>2. /\ x \in Seq(Exchange) /\ y \in Seq(Exchange) /\ Distinct(x) /\ Distinct(y)
          /\ AllSaid(x) /\ AllSaid(y) /\ (b \in cached' => Prefix(x, y))
      BY <2>3, <3>1 DEF HistoryInv, OrderInv
    <3>3. AllSaid(x)' /\ AllSaid(y)' /\ Keeps(x, x)
      BY <3>2, AllSaidStays, SuffixSelf
    <3>4. AllSaid(history[b])'
      BY <2>1, <3>3 DEF AllSaid, Said
    <3>5. AllSaid(cache[b])'
      BY <2>1, <3>3 DEF AllSaid, Said
    <3> QED BY <2>1, <3>1, <3>2, <3>3, <3>4, <3>5
  <2> QED BY <2>2, <2>3
<1>3. ASSUME NEW t \in Tasks, pc'[t] = "model"
      PROVE  msg'[t].to \in cached' /\ cache'[msg'[t].to][Len(cache'[msg'[t].to])] = HalfTurn(t)
  <2>1. CASE pc[t] = "model" /\ msg'[t] = msg[t] /\ msg[t].to # a
    <3>1. msg[t].to \in Agents /\ msg[t].to \in cached
      BY <2>1 DEF HistoryInv, OrderInv
    <3>2. cache'[msg[t].to] = cache[msg[t].to] /\ msg[t].to \in cached'
      BY <1>1, <2>1, <3>1
    <3> QED BY <2>1, <3>2 DEF OrderInv
  <2>2. CASE msg'[t].to = a /\ a \in cached' /\ c[Len(c)] = HalfTurn(t)
    BY <1>1, <2>2
  <2> QED BY <1>3, <2>1, <2>2
<1>4. OrderInv'
  BY <1>2, <1>3 DEF OrderInv, HalfTurn
<1> QED BY <1>2, <1>4 DEF Ordered, InOrder

\* A history that nobody holds is replaced.
LEMMA FreePutOrder ==
    ASSUME ProposalInv, HistoryInv, OrderInv, Speaks, Waits, NEW a \in Agents, Free(a),
           NEW g, g = history[a], NEW h, NEW c, Sound(h), Sound(c), Keeps(g, h),
           Store(a, h), \/ Cache(a, c) /\ Prefix(h, c)
                        \/ Uncache(a) /\ c = <<>>
    PROVE  Ordered
<1>1. /\ history' = [history EXCEPT ![a] = h] /\ cache' = [cache EXCEPT ![a] = c]
      /\ \A b \in Agents : b # a => (b \in cached' <=> b \in cached)
      /\ a \in cached' => Prefix(h, c)
  BY DEF Store, Cache, Uncache
<1>2. \A t \in Tasks : pc'[t] = "model" =>
         pc[t] = "model" /\ msg'[t] = msg[t] /\ msg[t].to # a
  BY FreeFacts DEF Waits
<1> QED BY <1>1, <1>2, PutsOrder

LEMMA GotoOrder ==
    ASSUME ProposalInv, NEW p \in Procs, NEW label, Goto(p, label),
           appended \subseteq appended',
           \A u \in Tasks : u # p => at'[u] = at[u],
           p \in Tasks =>
             \/ label \in {"reply", "done", "lost"}
             \/ pc[p] \in {"new", "resolving", "line"}
             \/ /\ pc[p] \in {"commit", "inject"} /\ label \in {"commit", "inject", "summary"}
                /\ at'[p] \in Nat /\ at'[p] >= at[p]
    PROVE  Speaks /\ ((p \in Tasks => label # "model") => Waits)
<1>1. pc'[p] = label /\ (\A u \in Procs : u # p => pc'[u] = pc[u]) /\ msg' = msg
  BY DEF Goto, ProposalInv, Types
<1>2. Speaks
  BY <1>1 DEF Speaks, Procs
<1>3. (p \in Tasks => label # "model") => Waits
  BY <1>1 DEF Waits, Procs
<1> QED BY <1>2, <1>3

\* A task that moves on, without another call, to an answer or from the line.
LEMMA GoesOn ==
    ASSUME ProposalInv, NEW p \in Procs, NEW label, Goto(p, label),
           UNCHANGED at, appended \subseteq appended', p \in Tasks => label # "model",
           p \in Tasks => \/ label \in {"reply", "done", "lost"}
                          \/ pc[p] \in {"new", "resolving", "line"}
    PROVE  Speaks /\ Waits
BY GotoOrder

LEMMA AnswerOrder ==
    ASSUME ProposalInv, NEW t \in Tasks, NEW answer, Answers(t, answer),
           UNCHANGED <<at, appended>>
    PROVE  Speaks /\ Waits /\ t \in Procs /\ Goto(t, "reply")
<1>1. t \in Procs /\ Goto(t, "reply")
  BY DEF Answers, Procs
<1> QED BY <1>1, GoesOn

LEMMA ArriveOrder ==
    ASSUME ProposalInv, HistoryInv, OrderInv, NEW t \in Tasks, Arrive(t)
    PROVE  Ordered
<1>1. /\ UNCHANGED <<history, cache, cached, at, appended>> /\ pc[t] = "new"
      /\ \E a \in Agents, text \in Texts, label \in {"resolving", "line"} :
           /\ msg' = [msg EXCEPT ![t] = [to |-> a, text |-> text]]
           /\ pc' = [pc EXCEPT ![t] = label]
  BY DEF Arrive, disk, memory, yes
<1>2. \A u \in Tasks : u # t => pc'[u] = pc[u] /\ msg'[u] = msg[u]
  BY <1>1 DEF ProposalInv, Types, Procs
<1>3. pc'[t] # "model"
  BY <1>1 DEF ProposalInv, Types, Procs
<1>4. Speaks
  BY <1>1, <1>2 DEF Speaks
<1>5. Waits
  BY <1>2, <1>3 DEF Waits
<1> QED BY <1>1, <1>4, <1>5, QuietOrder

LEMMA ResolveOrder ==
    ASSUME ProposalInv, HistoryInv, OrderInv, NEW t \in Tasks, Resolve(t)
    PROVE  Ordered
<1>1. /\ UNCHANGED <<history, cache, cached, at, appended>> /\ pc[t] = "resolving" /\ t \in Procs
      /\ Goto(t, "line") \/ Goto(t, "done")
  BY DEF Resolve, disk, memory, yes, Procs
<1>2. Speaks /\ Waits
  BY <1>1, GoesOn
<1> QED BY <1>1, <1>2, QuietOrder

LEMMA RefuseOrder ==
    ASSUME ProposalInv, HistoryInv, OrderInv, NEW t \in Tasks, Refuse(t)
    PROVE  Ordered
<1>1. UNCHANGED <<history, cache, cached, at, appended>> /\ Answers(t, "refused")
  BY DEF Refuse, disk, memory, yes
<1> QED BY <1>1, AnswerOrder, QuietOrder

LEMMA UnreadableOrder ==
    ASSUME ProposalInv, HistoryInv, OrderInv, NEW t \in Tasks, Unreadable(t)
    PROVE  Ordered
<1>1. UNCHANGED <<history, cache, cached, at, appended>> /\ Answers(t, "unavailable")
  BY DEF Unreadable, disk, memory, yes
<1> QED BY <1>1, AnswerOrder, QuietOrder

LEMMA DecideExpiredOrder ==
    ASSUME ProposalInv, HistoryInv, OrderInv, NEW t \in Tasks, DecideExpired(t)
    PROVE  Ordered
<1>1. /\ UNCHANGED <<history, cache, cached, at, appended>>
      /\ \E answer : Answers(t, answer)
  BY DEF DecideExpired, memory, yes
<1> QED BY <1>1, AnswerOrder, QuietOrder

\* The task at a call says what belongs to that call and not to the next one.
LEMMA NextCallOrder ==
    ASSUME ProposalInv, NEW t \in Tasks, pc[t] \in {"commit", "inject"}, NextCall(t),
           UNCHANGED appended
    PROVE  /\ Speaks /\ Waits
           /\ at[t] \in Nat /\ at'[t] = at[t] + 1 /\ pc'[t] \in {"summary", "commit"}
<1>1. /\ t \in Procs /\ at[t] \in Nat /\ at'[t] = at[t] + 1
      /\ \A u \in Tasks : u # t => at'[u] = at[u]
  BY DEF NextCall, ProposalInv, Types, Procs
<1>2. PICK label \in {"summary", "commit"} : Goto(t, label)
  BY DEF NextCall
<1>3. pc'[t] = label
  BY <1>1, <1>2 DEF Goto, ProposalInv, Types
<1>4. at'[t] \in Nat /\ at'[t] >= at[t]
  BY <1>1
<1>5. Speaks /\ Waits
  BY <1>1, <1>2, <1>4, GotoOrder
<1> QED BY <1>1, <1>3, <1>5

LEMMA CallOrder ==
    ASSUME ProposalInv, HistoryInv, OrderInv, NEW t \in Tasks, StoreCall(t) \/ RelayCall(t)
    PROVE  Ordered
<1>1. /\ UNCHANGED <<history, cache, cached, appended>> /\ pc[t] = "commit"
      /\ NextCall(t) \/ (Goto(t, "inject") /\ UNCHANGED at)
  BY DEF StoreCall, RelayCall, disk, memory, yes
<1>2. Speaks /\ Waits
  <2>1. CASE NextCall(t)
    BY <1>1, <2>1, NextCallOrder
  <2>2. CASE Goto(t, "inject") /\ UNCHANGED at
    <3>1. at[t] \in Nat /\ at'[t] = at[t] /\ t \in Procs
      BY <2>2 DEF ProposalInv, Types, Procs
    <3>2. at'[t] \in Nat /\ at'[t] >= at[t]
      BY <3>1
    <3> QED BY <1>1, <2>2, <3>1, <3>2, GotoOrder
  <2> QED BY <1>1, <2>1, <2>2
<1> QED BY <1>1, <1>2, QuietOrder

LEMMA ReplyOrder ==
    ASSUME ProposalInv, HistoryInv, OrderInv, NEW t \in Tasks, Reply(t)
    PROVE  Ordered
<1>1. UNCHANGED <<history, cache, cached, at, appended>> /\ Goto(t, "done") /\ t \in Procs
  BY DEF Reply, disk, memory, yes, Procs
<1>2. Speaks /\ Waits
  BY <1>1, GoesOn
<1> QED BY <1>1, <1>2, QuietOrder

LEMMA JobTurnEndsOrder ==
    ASSUME ProposalInv, HistoryInv, OrderInv, JobTurnEnds
    PROVE  Ordered
<1>1. /\ UNCHANGED <<history, cache, cached, at, appended>> /\ Goto(Runner, "done")
      /\ Runner \in Procs
  BY DEF JobTurnEnds, disk, memory, yes, Procs
<1>2. Speaks /\ Waits
  BY <1>1, GoesOn
<1> QED BY <1>1, <1>2, QuietOrder

LEMMA JobDueOrder ==
    ASSUME ProposalInv, HistoryInv, OrderInv, NEW a \in Agents, JobDue(a)
    PROVE  Ordered
<1>1. /\ UNCHANGED <<history, cache, cached, at, appended>>
      /\ msg' = [msg EXCEPT ![Runner] = [to |-> a, text |-> "chat"]]
      /\ pc' = [pc EXCEPT ![Runner] = "line"]
  BY DEF JobDue, disk, memory, yes
<1>2. \A u \in Tasks : pc'[u] = pc[u] /\ msg'[u] = msg[u]
  BY <1>1, NobodyFacts DEF ProposalInv, Types, Procs
<1>3. Speaks /\ Waits
  BY <1>1, <1>2 DEF Speaks, Waits
<1> QED BY <1>1, <1>3, QuietOrder

LEMMA IdleOrder ==
    ASSUME ProposalInv, HistoryInv, OrderInv,
           UNCHANGED <<history, cache, cached, pc, msg, at, appended>>
    PROVE  Ordered
<1>1. Speaks /\ Waits
  BY DEF Speaks, Waits
<1> QED BY <1>1, QuietOrder

LEMMA RestartOrder ==
    ASSUME ProposalInv, HistoryInv, OrderInv, Restart
    PROVE  Ordered
<1>1. /\ UNCHANGED <<history, at, appended>>
      /\ cache' = [a \in Agents |-> <<>>] /\ cached' = {}
      /\ \A t \in Tasks : pc'[t] \in {"done", "lost"} \/ (pc'[t] = "new" /\ pc[t] = "new")
  <2>1. UNCHANGED <<history, at, appended>> /\ cache' = [a \in Agents |-> <<>>] /\ cached' = {}
    BY DEF Restart, disk, yes
  <2>2. \A t \in Tasks : pc'[t] = IF pc[t] \in {"new", "done"} THEN pc[t] ELSE "lost"
    BY NobodyFacts DEF Restart, Procs
  <2> QED BY <2>1, <2>2
<1>2. Speaks
  BY <1>1 DEF Speaks
<1>3. ASSUME NEW a \in Agents
      PROVE  /\ Distinct(history'[a]) /\ Distinct(cache'[a])
             /\ AllSaid(history[a])' /\ AllSaid(cache[a])'
             /\ Keeps(history[a], history'[a])
  <2>1. PICK h : h = history[a]
    OBVIOUS
  <2>2. h \in Seq(Exchange) /\ Distinct(h) /\ AllSaid(h)
    BY <2>1 DEF HistoryInv, OrderInv
  <2>3. AllSaid(h)' /\ Keeps(h, h) /\ h = history'[a]
    BY <1>1, <1>2, <2>1, <2>2, AllSaidStays, SuffixSelf
  <2>4. AllSaid(history[a])'
    BY <2>3 DEF AllSaid, Said
  <2>5. cache'[a] = <<>> /\ 1..Len(<<>>) = {}
    BY <1>1
  <2>6. AllSaid(cache[a])' /\ Distinct(cache'[a])
    BY <2>5 DEF AllSaid, Distinct
  <2> QED BY <2>1, <2>2, <2>3, <2>4, <2>6
<1>4. OrderInv'
  BY <1>1, <1>3 DEF OrderInv
<1> QED BY <1>3, <1>4 DEF Ordered, InOrder

LEMMA TaskIsNoReport == \A t \in Tasks : t \notin Reports
BY NamesAssumption

\* What a task says once, when it answers, was not said before.
LEMMA SaidOnce ==
    ASSUME NEW t \in Tasks, NEW e, e.by = t, pc'[t] = "reply",
           \/ pc[t] = "line"
           \/ pc[t] = "model" /\ e.says # "half"
           \/ pc[t] = "summary" /\ e.says # "relay"
    PROVE  ~Said(e) /\ Said(e)'
<1>1. ~Said(e)
  BY DEF Said
<1>2. Said(e)'
  BY TaskIsNoReport DEF Said
<1> QED BY <1>1, <1>2

LEMMA GotoPlace ==
    ASSUME ProposalInv, NEW p \in Procs, NEW label, Goto(p, label)
    PROVE  pc'[p] = label
BY DEF ProposalInv, Types, Goto

\* A free history goes back as it was loaded; in memory more may follow.
LEMMA LoadedPutOrder ==
    ASSUME ProposalInv, HistoryInv, OrderInv, Speaks, Waits, NEW a \in Agents, Free(a),
           NEW m \in Loads(a), m \in Seq(Exchange), Store(a, LoadedTo(a, m)),
           NEW c, Sound(c), Prefix(m, c), Cache(a, c)
    PROVE  Ordered
<1>1. PICK h : h = history[a]
  OBVIOUS
<1>2. PICK x : x = LoadedTo(a, m) /\ MadeFrom(h, x) /\ Prefix(x, m)
  BY <1>1, MadeLoads
<1>3. h \in Seq(Exchange) /\ x \in Seq(Exchange) /\ c \in Seq(Exchange) /\ Store(a, x)
  BY <1>1, <1>2, MadeStored DEF MadeFrom, Sound
<1>4. Sound(x) /\ Keeps(h, x)
  BY <1>2, <1>3, MadeFacts
<1>5. Prefix(x, c)
  BY <1>2, <1>3, PrefixOfPrefix
<1> QED BY <1>1, <1>3, <1>4, <1>5, FreePutOrder

LEMMA StartTurnOrder ==
    ASSUME ProposalInv, HistoryInv, OrderInv, NEW t \in Tasks, StartTurn(t)
    PROVE  Ordered
<1>1. PICK a, e, h : a = To(t) /\ e = HalfTurn(t) /\ h = history[a]
  OBVIOUS
<1>2. /\ a \in Agents /\ Free(a) /\ Goto(t, "model") /\ pc[t] = "line" /\ t \in Procs
      /\ UNCHANGED <<at, appended>>
  BY <1>1 DEF StartTurn, TakesSlot, Holds, ProposalInv, Placed, Procs, yes
<1>3. PICK m \in Loads(a) : Store(a, LoadedTo(a, m)) /\ Cache(a, Append(m, e))
  BY <1>1 DEF StartTurn
<1>4. Speaks /\ pc'[t] = "model"
  BY <1>2, GotoOrder, GotoPlace
<1>5. e \in Exchange /\ e.by = t /\ e.says = "half"
  BY <1>1 DEF HalfTurn, Exchange, Says
<1>6. ~Said(e)
  BY <1>2, <1>5 DEF Said
<1>7. Said(e)'
  BY <1>4, <1>5, TaskIsNoReport DEF Said
<1>8. PICK x : x = LoadedTo(a, m) /\ MadeFrom(h, x) /\ Prefix(x, m) /\ MadeFrom(h, m)
  BY <1>1, <1>2, MadeLoads
<1>9. h \in Seq(Exchange) /\ x \in Seq(Exchange) /\ m \in Seq(Exchange)
  BY <1>1, <1>2, <1>8, MadeStored DEF MadeFrom
<1>10. PICK c : c = Append(m, e)
  OBVIOUS
<1>11. Sound(c) /\ Prefix(m, c) /\ c[Len(c)] = e
  <2>1. Speaks /\ h \in Seq(Exchange) /\ MadeFrom(h, m) /\ e \in Exchange
    BY <1>4, <1>5, <1>8, <1>9
  <2> QED BY ONLY ProposalInv, <1>6, <1>7, <1>10, <2>1, MadeAppend
<1>12. Sound(x) /\ Keeps(h, x)
  BY <1>4, <1>8, <1>9, MadeFacts
<1>13. Prefix(x, c)
  BY <1>8, <1>9, <1>11, PrefixOfPrefix DEF Sound
<1>14. /\ history' = [history EXCEPT ![a] = x] /\ cache' = [cache EXCEPT ![a] = c]
       /\ a \in cached' /\ \A b \in Agents : b # a => (b \in cached' <=> b \in cached)
  BY <1>3, <1>8, <1>10 DEF Store, Cache
<1>15. msg' = msg /\ msg[t].to = a /\ \A u \in Tasks : u # t => pc'[u] = pc[u]
  BY <1>1, <1>2 DEF Goto, To, ProposalInv, Types
<1>16. \A u \in Tasks : pc[u] = "model" => msg[u].to # a
  BY <1>2, FreeFacts
<1>17. \A u \in Tasks : pc'[u] = "model" =>
         \/ pc[u] = "model" /\ msg'[u] = msg[u] /\ msg[u].to # a
         \/ msg'[u].to = a /\ a \in cached' /\ c[Len(c)] = HalfTurn(u)
  BY <1>1, <1>11, <1>14, <1>15, <1>16
<1> QED BY <1>1, <1>2, <1>4, <1>11, <1>12, <1>13, <1>14, <1>17, PutsOrder

LEMMA ConfirmOrder ==
    ASSUME ProposalInv, HistoryInv, OrderInv, NEW t \in Tasks, Confirm(t)
    PROVE  Ordered
<1>1. PICK a, h : a = To(t) /\ h = history[a]
  OBVIOUS
<1>2. a \in Agents /\ Free(a) /\ pc[t] = "line" /\ t \in Procs
  BY <1>1 DEF Confirm, TakesSlot, Holds, ProposalInv, Placed, Procs
<1>3. PICK m \in Loads(a) :
        /\ Store(a, LoadedTo(a, m)) /\ Cache(a, m)
        /\ \/ Goto(t, "commit") /\ at' = [at EXCEPT ![t] = 1]
           \/ Goto(t, "reply") /\ UNCHANGED at
  BY <1>1 DEF Confirm, Answers, yes
<1>4. appended \subseteq appended' /\ \A u \in Tasks : u # t => at'[u] = at[u]
  BY <1>3 DEF Confirm, ProposalInv, Types
<1>5. Speaks /\ Waits
  BY <1>2, <1>3, <1>4, GotoOrder
<1>6. h \in Seq(Exchange) /\ MadeFrom(h, m)
  BY <1>1, <1>2, MadeStored, MadeLoads
<1>7. Sound(m) /\ m \in Seq(Exchange) /\ Prefix(m, m)
  BY <1>5, <1>6, MadeFacts, SuffixSelf DEF Sound
<1> QED BY <1>2, <1>3, <1>5, <1>7, LoadedPutOrder

LEMMA RejectOrder ==
    ASSUME ProposalInv, HistoryInv, OrderInv, NEW t \in Tasks, Reject(t)
    PROVE  Ordered
<1>1. PICK a, h, e : /\ a = To(t) /\ h = history[a]
                     /\ e = [by |-> t, call |-> 0, says |-> "discarded", untrusted |-> FALSE]
  OBVIOUS
<1>2. a \in Agents /\ Free(a) /\ pc[t] = "line" /\ t \in Procs
  BY <1>1 DEF Reject, TakesSlot, Holds, ProposalInv, Placed, Procs
<1>3. PICK m \in Loads(a) :
        /\ \/ \E w \in WindowsWith(m, e) : Store(a, w) /\ Cache(a, w)
           \/ Store(a, LoadedTo(a, m)) /\ Cache(a, Append(m, e))
        /\ \E answer : Answers(t, answer)
  BY <1>1 DEF Reject
<1>4. UNCHANGED <<at, appended>>
  BY DEF Reject, yes
<1>5. Speaks /\ Waits /\ pc'[t] = "reply"
  BY <1>3, <1>4, AnswerOrder, GotoPlace
<1>6. e \in Exchange /\ e.by = t
  BY <1>1 DEF Exchange, Says
<1>7. ~Said(e) /\ Said(e)'
  BY <1>2, <1>5, <1>6, SaidOnce
<1>8. h \in Seq(Exchange) /\ MadeFrom(h, m)
  BY <1>1, <1>2, MadeStored, MadeLoads
<1>9. ASSUME NEW w \in WindowsWith(m, e), Store(a, w), Cache(a, w)
      PROVE  Ordered
  <2>1. Sound(w) /\ Keeps(h, w) /\ Prefix(w, w)
    BY <1>5, <1>6, <1>7, <1>8, MadeWindowWith, SuffixSelf DEF Sound
  <2> QED BY <1>1, <1>2, <1>5, <1>9, <2>1, FreePutOrder
<1>10. CASE Store(a, LoadedTo(a, m)) /\ Cache(a, Append(m, e))
  <2>1. PICK c : c = Append(m, e)
    OBVIOUS
  <2>2. Sound(c) /\ Prefix(m, c) /\ m \in Seq(Exchange)
    BY <1>5, <1>6, <1>7, <1>8, <2>1, MadeAppend DEF MadeFrom
  <2> QED BY <1>2, <1>5, <1>10, <2>1, <2>2, LoadedPutOrder
<1> QED BY <1>3, <1>9, <1>10

\* What comes in from outside goes to the end of what is stored.
LEMMA UntrustedOrder ==
    ASSUME ProposalInv, HistoryInv, OrderInv, Speaks, Waits, NEW a \in Agents, Free(a),
           NEW p, NEW n, Untrusted(a, p, n),
           NEW e \in Exchange, e = [by |-> p, call |-> n, says |-> "relay", untrusted |-> TRUE],
           ~Said(e), Said(e)'
    PROVE  Ordered
<1>1. PICK h : h = history[a]
  OBVIOUS
<1>2. PICK w \in WindowsWith(h, e) : Store(a, w) /\ Cache(a, w)
  BY <1>1 DEF Untrusted
<1>3. h \in Seq(Exchange) /\ MadeFrom(h, h)
  BY <1>1, MadeStored
<1>4. Sound(w) /\ Keeps(h, w) /\ Prefix(w, w)
  BY <1>2, <1>3, MadeWindowWith, SuffixSelf DEF Sound
<1> QED BY <1>1, <1>2, <1>4, FreePutOrder

LEMMA InjectOrder ==
    ASSUME ProposalInv, HistoryInv, OrderInv, NEW t \in Tasks, Inject(t)
    PROVE  Ordered
<1>1. PICK b, n : b = Other(To(t)) /\ n = at[t]
  OBVIOUS
<1>2. /\ pc[t] = "inject" /\ Free(b) /\ NextCall(t) /\ UNCHANGED appended
      /\ Untrusted(b, t, n) \/ UNCHANGED <<history, cache, cached>>
  BY <1>1 DEF Inject, memory
<1>3. b \in Agents
  BY <1>1, <1>2, OtherAgent DEF ProposalInv, Placed
<1>4. Speaks /\ Waits /\ n \in Nat /\ at'[t] = n + 1 /\ pc'[t] \in {"summary", "commit"}
  BY <1>1, <1>2, NextCallOrder
<1>5. CASE UNCHANGED <<history, cache, cached>>
  BY <1>4, <1>5, QuietOrder
<1>6. CASE Untrusted(b, t, n)
  <2>1. PICK e : e = [by |-> t, call |-> n, says |-> "relay", untrusted |-> TRUE]
    OBVIOUS
  <2>2. e \in Exchange /\ e.by = t /\ e.says = "relay" /\ e.call = n
    BY <1>4, <2>1 DEF Exchange, Says
  <2>3. ~Said(e)
    BY <1>1, <1>2, <1>4, <2>2 DEF Said
  <2>4. n < at'[t]
    BY <1>4
  <2>5. Said(e)'
    BY <1>4, <2>2, <2>4, TaskIsNoReport DEF Said
  <2> QED BY <1>2, <1>3, <1>4, <1>6, <2>1, <2>2, <2>3, <2>5, UntrustedOrder
<1> QED BY <1>2, <1>5, <1>6

\* The one turn with the model in a history alone leaves it.
LEMMA LastTurnOrder ==
    ASSUME ProposalInv, HistoryInv, OrderInv, Speaks, Waits, NEW t \in Tasks, pc[t] = "model",
           pc'[t] # "model", NEW a, a = msg[t].to,
           NEW g, g = history[a], NEW h, NEW c, Sound(h), Sound(c), Keeps(g, h), Prefix(h, c),
           history' = [history EXCEPT ![a] = h], Cache(a, c)
    PROVE  Ordered
<1>1. a \in Agents /\ hist[a] = t
  BY DEF HistoryInv
<1>2. /\ cache' = [cache EXCEPT ![a] = c]
      /\ \A b \in Agents : b # a => (b \in cached' <=> b \in cached)
  BY DEF Cache
<1>3. \A u \in Tasks : pc'[u] = "model" => pc[u] = "model" /\ msg'[u] = msg[u] /\ msg[u].to # a
  BY <1>1 DEF Waits, HistoryInv
<1> QED BY <1>1, <1>2, <1>3, PutsOrder, ZenonT(30)

LEMMA ModelFailsOrder ==
    ASSUME ProposalInv, HistoryInv, OrderInv, NEW t \in Tasks, ModelFails(t)
    PROVE  Ordered
<1>1. PICK a, h, f : a = msg[t].to /\ h = history[a] /\ f = Front(cache[a])
  OBVIOUS
<1>2. /\ pc[t] = "model" /\ UNCHANGED <<history, at, appended>> /\ Cache(a, f)
      /\ Answers(t, "unavailable")
  BY <1>1 DEF ModelFails, disk, RolledBack, To, yes
<1>3. Speaks /\ Waits /\ pc'[t] = "reply"
  BY <1>2, AnswerOrder, GotoPlace
<1>4. a \in Agents /\ history' = [history EXCEPT ![a] = h]
  BY <1>1, <1>2 DEF HistoryInv
<1>5. h \in Seq(Exchange) /\ MadeFrom(h, h) /\ MadeFrom(h, f) /\ Prefix(h, f)
  BY <1>1, <1>2, <1>4, MadeStored, MadeRolledBack
<1>6. Sound(h) /\ Sound(f) /\ Keeps(h, h)
  BY <1>3, <1>5, MadeFacts
<1> QED BY <1>1, <1>2, <1>3, <1>4, <1>5, <1>6, LastTurnOrder

LEMMA ModelAnswersOrder ==
    ASSUME ProposalInv, HistoryInv, OrderInv, NEW t \in Tasks, ModelAnswers(t)
    PROVE  Ordered
<1>1. PICK a, h, f : a = msg[t].to /\ h = history[a] /\ f = Front(cache[a])
  OBVIOUS
<1>2. pc[t] = "model" /\ a \in Agents /\ UNCHANGED <<at, appended>>
  BY <1>1 DEF ModelAnswers, HistoryInv, yes
<1>3. PICK calls \in Offers \cup {<<>>} :
        \/ \E fetched \in BOOLEAN : AnswerSaved(t, fetched, calls)
        \/ AnswerNotSaved(t, calls)
  BY DEF ModelAnswers
<1>4. \E answer : Answers(t, answer)
  BY <1>3 DEF AnswerSaved, AnswerNotSaved
<1>5. Speaks /\ Waits /\ pc'[t] = "reply"
  BY <1>2, <1>4, AnswerOrder, GotoPlace
<1>6. h \in Seq(Exchange) /\ MadeFrom(h, h) /\ MadeFrom(h, f) /\ Prefix(h, f)
  BY <1>1, <1>2, MadeStored, MadeRolledBack
<1>7. CASE AnswerNotSaved(t, calls)
  <2>1. UNCHANGED history /\ Cache(a, f)
    BY <1>1, <1>7 DEF AnswerNotSaved, RolledBack, To
  <2>2. history' = [history EXCEPT ![a] = h]
    BY <1>1, <1>2, <2>1 DEF HistoryInv
  <2>3. Sound(h) /\ Sound(f) /\ Keeps(h, h)
    BY <1>5, <1>6, MadeFacts
  <2> QED BY <1>1, <1>2, <1>5, <1>6, <2>1, <2>2, <2>3, LastTurnOrder
<1>8. ASSUME NEW fetched \in BOOLEAN, AnswerSaved(t, fetched, calls)
      PROVE  Ordered
  <2>1. PICK tainted \in BOOLEAN : tainted = (Taint(cache[a]) \/ fetched)
    BY DEF Taint
  <2>2. PICK e : e = [by |-> t, call |-> 0, says |-> IF calls # <<>> THEN "preview" ELSE "answer",
                      untrusted |-> tainted]
    OBVIOUS
  <2>3. PICK w \in WindowsWith(f, e) : Store(a, w) /\ Cache(a, w)
    BY <1>1, <1>8, <2>1, <2>2 DEF AnswerSaved, To
  <2>4. e \in Exchange /\ e.by = t /\ e.says # "half"
    BY <2>2 DEF Exchange, Says
  <2>5. ~Said(e) /\ Said(e)'
    BY <1>2, <1>5, <2>4, SaidOnce
  <2>6. Sound(w) /\ Keeps(h, w) /\ Prefix(w, w)
    BY <1>5, <1>6, <2>3, <2>4, <2>5, MadeWindowWith, SuffixSelf DEF Sound
  <2>7. history' = [history EXCEPT ![a] = w] /\ Cache(a, w)
    BY <2>3 DEF Store
  <2> QED BY <1>1, <1>2, <1>5, <2>6, <2>7, LastTurnOrder
<1> QED BY <1>3, <1>7, <1>8

LEMMA SummaryOrder ==
    ASSUME ProposalInv, HistoryInv, OrderInv, NEW t \in Tasks, Summary(t)
    PROVE  Ordered
<1>1. PICK a, h, e : /\ a = To(t) /\ h = history[a]
                     /\ e = [by |-> t, call |-> 0, says |-> "summary", untrusted |-> held[t].tainted]
  OBVIOUS
<1>2. a \in Agents /\ Free(a) /\ pc[t] = "summary" /\ Answers(t, "summary")
  BY <1>1 DEF Summary, ProposalInv, Placed
<1>3. UNCHANGED <<at, appended>>
  BY DEF Summary, yes
<1>4. Speaks /\ Waits /\ pc'[t] = "reply"
  BY <1>2, <1>3, AnswerOrder, GotoPlace
<1>5. e \in Exchange /\ e.by = t /\ e.says = "summary"
  BY <1>1, ProposalFacts DEF ProposalInv, Types, Exchange, Says
<1>6. ~Said(e) /\ Said(e)'
  BY <1>2, <1>4, <1>5, SaidOnce
<1>7. h \in Seq(Exchange) /\ MadeFrom(h, h)
  BY <1>1, <1>2, MadeStored
<1>8. \/ \E m \in Windows(h) :
           \/ \E w \in WindowsWith(m, e) : Store(a, w) /\ Cache(a, w)
           \/ Store(a, m) /\ Cache(a, Append(m, e))
      \/ Uncache(a) /\ UNCHANGED history
  BY <1>1 DEF Summary
<1>9. ASSUME NEW m \in Windows(h), NEW w \in WindowsWith(m, e), Store(a, w), Cache(a, w)
      PROVE  Ordered
  <2>1. MadeFrom(h, m)
    BY <1>7, MadeWindow
  <2>2. Sound(w) /\ Keeps(h, w) /\ Prefix(w, w)
    BY <1>4, <1>5, <1>6, <1>7, <2>1, MadeWindowWith, SuffixSelf DEF Sound
  <2> QED BY <1>1, <1>2, <1>4, <1>9, <2>2, FreePutOrder
<1>10. ASSUME NEW m \in Windows(h), Store(a, m), Cache(a, Append(m, e))
       PROVE  Ordered
  <2>1. PICK c : c = Append(m, e)
    OBVIOUS
  <2>2. MadeFrom(h, m)
    BY <1>7, MadeWindow
  <2>3. Sound(m) /\ Keeps(h, m)
    BY <1>4, <1>7, <2>2, MadeFacts
  <2>4. Sound(c) /\ Prefix(m, c)
    BY <1>4, <1>5, <1>6, <1>7, <2>1, <2>2, MadeAppend
  <2> QED BY <1>1, <1>2, <1>4, <1>10, <2>1, <2>3, <2>4, FreePutOrder
<1>11. CASE Uncache(a) /\ UNCHANGED history
  <2>1. Store(a, h)
    BY <1>1, <1>2, <1>11 DEF HistoryInv, Store
  <2>2. Sound(h) /\ Keeps(h, h)
    BY <1>4, <1>7, MadeFacts
  <2>3. PICK c : c = <<>>
    OBVIOUS
  <2>4. Sound(c)
    <3>1. c \in Seq(Exchange) /\ 1..Len(c) = {}
      BY <2>3
    <3> QED BY <3>1 DEF Sound, Distinct, AllSaid
  <2> QED BY <1>1, <1>2, <1>4, <1>11, <2>1, <2>2, <2>3, <2>4, FreePutOrder
<1> QED BY <1>8, <1>9, <1>10, <1>11

LEMMA JobTurnOrder ==
    ASSUME ProposalInv, HistoryInv, OrderInv, JobTurn
    PROVE  Ordered
<1>1. PICK a, h : a = To(Runner) /\ h = history[a]
  OBVIOUS
<1>2. /\ Free(a) /\ Goto(Runner, "model") /\ Runner \in Procs /\ Runner \notin Tasks
      /\ UNCHANGED <<at, appended>>
  BY <1>1, NobodyFacts DEF JobTurn, Procs, yes
<1>3. PICK m \in Loads(a) : Store(a, LoadedTo(a, m)) /\ Cache(a, m)
  BY <1>1 DEF JobTurn
<1>4. Speaks /\ Waits
  BY <1>2, GoesOn
<1>5. CASE a \in Agents
  <2>1. h \in Seq(Exchange) /\ MadeFrom(h, m)
    BY <1>1, <1>5, MadeStored, MadeLoads
  <2>2. Sound(m) /\ m \in Seq(Exchange) /\ Prefix(m, m)
    BY <1>4, <2>1, MadeFacts, SuffixSelf DEF Sound
  <2> QED BY <1>2, <1>3, <1>4, <1>5, <2>2, LoadedPutOrder
<1>6. CASE a \notin Agents
  <2>1. UNCHANGED <<history, cache>> /\ \A b \in Agents : b \in cached' <=> b \in cached
    BY <1>3, <1>6 DEF HistoryInv, Store, Cache
  <2> QED BY <1>4, <2>1, QuietOrder
<1> QED BY <1>5, <1>6

\* What the runner appends it appends once.
LEMMA ReportOrder ==
    ASSUME ProposalInv, NEW r \in Reports \ appended, UNCHANGED <<pc, msg, at>>,
           appended' = appended \cup {r}
    PROVE  /\ Speaks /\ Waits
           /\ \A e : e.by = r => ~Said(e)
<1>1. Speaks /\ Waits
  BY DEF Speaks, Waits
<1> QED BY <1>1 DEF Said

LEMMA AppendReportOrder ==
    ASSUME ProposalInv, HistoryInv, OrderInv, NEW a \in Agents, NEW r \in Reports, AppendReport(a, r)
    PROVE  Ordered
<1>1. PICK h : h = history[a]
  OBVIOUS
<1>2. /\ Free(a) /\ r \in Reports \ appended /\ UNCHANGED <<pc, msg, at>>
      /\ \/ /\ \E u \in BOOLEAN :
                 \E w \in WindowsWith(h, [by |-> r, call |-> 0, says |-> "report", untrusted |-> u]) :
                    Store(a, w) /\ Cache(a, w)
            /\ appended' = appended \cup {r}
         \/ /\ \E m \in Windows(h) : Store(a, m) /\ Uncache(a)
            /\ UNCHANGED appended
  BY <1>1 DEF AppendReport, task, yes
<1>3. h \in Seq(Exchange) /\ MadeFrom(h, h)
  BY <1>1, MadeStored
<1>4. ASSUME NEW u \in BOOLEAN, NEW e, e = [by |-> r, call |-> 0, says |-> "report", untrusted |-> u],
             NEW w \in WindowsWith(h, e), Store(a, w), Cache(a, w), appended' = appended \cup {r}
      PROVE  Ordered
  <2>1. e \in Exchange /\ e.by = r /\ r \notin Tasks
    BY <1>4, TaskIsNoReport DEF Exchange, Says
  <2>2. Speaks /\ Waits /\ ~Said(e)
    BY <1>2, <1>4, <2>1, ReportOrder
  <2>3. Said(e)'
    BY <1>4, <2>1 DEF Said
  <2>4. Sound(w) /\ Keeps(h, w) /\ Prefix(w, w)
    BY <1>3, <1>4, <2>1, <2>2, <2>3, MadeWindowWith, SuffixSelf DEF Sound
  <2> QED BY <1>1, <1>2, <1>4, <2>2, <2>4, FreePutOrder
<1>5. ASSUME NEW m \in Windows(h), Store(a, m), Uncache(a), UNCHANGED appended
      PROVE  Ordered
  <2>1. Speaks /\ Waits
    BY <1>2, <1>5 DEF Speaks, Waits
  <2>2. MadeFrom(h, m)
    BY <1>3, MadeWindow
  <2>3. Sound(m) /\ Keeps(h, m)
    BY <1>3, <2>1, <2>2, MadeFacts
  <2>4. PICK c : c = <<>>
    OBVIOUS
  <2>5. Sound(c)
    <3>1. c \in Seq(Exchange) /\ 1..Len(c) = {}
      BY <2>4
    <3> QED BY <3>1 DEF Sound, Distinct, AllSaid
  <2> QED BY <1>1, <1>2, <1>5, <2>1, <2>3, <2>4, <2>5, FreePutOrder
<1> QED BY <1>2, <1>4, <1>5

LEMMA AppendRelayOrder ==
    ASSUME ProposalInv, HistoryInv, OrderInv, NEW a \in Agents, NEW r \in Reports, AppendRelay(a, r)
    PROVE  Ordered
<1>1. /\ Free(a) /\ r \in Reports \ appended /\ UNCHANGED <<pc, msg, at>>
      /\ Untrusted(a, r, 0) /\ appended' = appended \cup {r}
  BY DEF AppendRelay, task, yes
<1>2. PICK e : e = [by |-> r, call |-> 0, says |-> "relay", untrusted |-> TRUE]
  OBVIOUS
<1>3. e \in Exchange /\ e.by = r /\ r \notin Tasks
  BY <1>2, TaskIsNoReport DEF Exchange, Says
<1>4. Speaks /\ Waits /\ ~Said(e)
  BY <1>1, <1>3, ReportOrder
<1>5. Said(e)'
  BY <1>1, <1>3 DEF Said
<1> QED BY <1>1, <1>2, <1>3, <1>4, <1>5, UntrustedOrder

-----------------------------------------------------------------------------
(* The theorem about what is kept                                          *)

LEMMA OrderStep ==
    ASSUME ProposalInv, HistoryInv, OrderInv, [Next]_vars
    PROVE  Ordered
<1>1. CASE UNCHANGED vars
  BY <1>1, IdleOrder DEF vars, disk, memory, task, yes
<1>2. ASSUME NEW t \in Tasks, Arrive(t) \/ Task(t)
      PROVE  Ordered
  BY <1>2, ArriveOrder, ResolveOrder, RefuseOrder, UnreadableOrder, StartTurnOrder,
     ModelFailsOrder, ModelAnswersOrder, DecideExpiredOrder, ConfirmOrder, RejectOrder,
     CallOrder, InjectOrder, SummaryOrder, ReplyOrder
     DEF Task, Deciding, Committing
<1>3. CASE RunnerTask
  BY <1>3, JobTurnOrder, JobTurnEndsOrder, AppendReportOrder, AppendRelayOrder DEF RunnerTask
<1>4. ASSUME NEW a \in Agents, JobDue(a) \/ Expire(a)
      PROVE  Ordered
  BY <1>4, JobDueOrder, IdleOrder DEF Expire, memory, task, yes
<1>5. CASE Restart
  BY <1>5, RestartOrder
<1> QED BY <1>1, <1>2, <1>3, <1>4, <1>5 DEF Next

LEMMA OrderHolds == Spec => [](Inv /\ OrderInv)
<1>1. Init => OrderInv
  <2> SUFFICES ASSUME Init PROVE OrderInv
    OBVIOUS
  <2>1. \A a \in Agents : history[a] = <<>> /\ cache[a] = <<>>
    BY DEF Init
  <2>2. cached = {} /\ \A t \in Tasks : pc[t] = "new"
    BY DEF Init, Procs
  <2>3. 1..Len(<<>>) = {}
    OBVIOUS
  <2>4. Distinct(<<>>) /\ AllSaid(<<>>)
    BY <2>3 DEF Distinct, AllSaid
  <2> QED BY <2>1, <2>2, <2>4 DEF OrderInv
<1>2. Inv /\ OrderInv /\ [Next]_vars => OrderInv'
  BY OrderStep DEF Inv, Ordered
<1> QED BY <1>1, <1>2, InvHolds, PTL DEF Spec

\* No save overwrites what another task appended: an exchange leaves a stored
\* history only after every older one.
THEOREM StaysInOrder == Spec => KeptInOrder
<1> DEFINE Kept ==
      \A a \in Agents :
        LET there == {history'[a][k] : k \in 1..Len(history'[a])} IN
        \A i, j \in 1..Len(history[a]) :
          i < j /\ history[a][i] \in there => history[a][j] \in there
<1>1. InOrder => Kept
  BY DEF InOrder, Keeps, Elements
<1>2. Inv /\ OrderInv /\ [Next]_vars => Kept
  BY <1>1, OrderStep DEF Inv, Ordered
<1>3. Inv /\ OrderInv /\ [Next]_vars => [Kept]_vars
  BY <1>2
<1> QED BY <1>3, OrderHolds, PTL DEF Spec, KeptInOrder

-----------------------------------------------------------------------------
(* The locks: the invariant                                                *)

\* Those who wait for no lock, whatever they hold.
Quick == {"model", "reply"}

Lined ==
    \A a \in Agents : \A i \in 1..Len(line[a]) :
        /\ pc[line[a][i]] \in Inside /\ To(line[a][i]) = a
        /\ pc[line[a][i]] \in Work => i = 1

InLine == \A p \in Procs : pc[p] \in Inside =>
              To(p) \in Agents /\ \E i \in 1..Len(line[To(p)]) : line[To(p)][i] = p

\* A line holds exactly those who are inside, each once, and only its head
\* works. Who holds a slot works, and who holds a history lock waits for nothing.
LockInv ==
    /\ line \in [Agents -> Seq(Procs)] /\ hist \in [Agents -> Procs \cup {Nobody}]
    /\ slots \subseteq Procs /\ IsFiniteSet(slots) /\ Cardinality(slots) <= Slots
    /\ Lined /\ InLine
    /\ \A a \in Agents : Distinct(line[a])
    /\ \A p \in slots : pc[p] \in Work
    /\ \A a \in Agents : hist[a] # Nobody => pc[hist[a]] \in Quick

OthersStay(p) == \A q \in Procs \ {p} : pc'[q] = pc[q] /\ msg'[q] = msg[q]

\* What a step does to the locks: nothing, or nothing inside.
Aside ==
    /\ UNCHANGED <<line, slots, hist>>
    /\ \A p \in Procs : \/ pc'[p] = pc[p] /\ msg'[p] = msg[p]
                        \/ pc[p] \notin Inside /\ pc'[p] \notin Inside

Enters(p, a) ==
    /\ pc[p] \notin Inside /\ pc'[p] = "line" /\ msg'[p].to = a
    /\ OthersStay(p)
    /\ Joins(p, a)

Goes(p) ==
    /\ pc[p] \in Inside /\ line[To(p)][1] = p
    /\ pc'[p] \in Work /\ msg'[p] = msg[p]
    /\ OthersStay(p)
    /\ UNCHANGED line
    /\ UNCHANGED slots \/ (Cardinality(slots) < Slots /\ slots' = slots \cup {p})
    /\ hist' \in [Agents -> Procs \cup {Nobody}]
    /\ \A a \in Agents :
         \/ hist'[a] = Nobody
         \/ hist'[a] = p /\ pc'[p] \in Quick
         \/ hist'[a] = hist[a] /\ (pc[p] \in Quick => pc'[p] \in Quick)

Leaves(p) ==
    /\ pc[p] \in Work /\ pc'[p] = "done" /\ msg'[p] = msg[p]
    /\ OthersStay(p)
    /\ Releases(p)

LEMMA HeadWorks ==
    ASSUME LockInv, NEW p \in Procs, pc[p] \in Work
    PROVE  /\ To(p) \in Agents /\ line[To(p)] \in Seq(Procs) /\ Len(line[To(p)]) \in Nat \ {0}
           /\ line[To(p)][1] = p
<1>1. To(p) \in Agents /\ \E i \in 1..Len(line[To(p)]) : line[To(p)][i] = p
  BY DEF LockInv, InLine, Inside
<1>2. PICK a \in Agents : a = To(p)
  BY <1>1
<1>3. PICK i \in 1..Len(line[a]) : line[a][i] = p
  BY <1>1, <1>2
<1>4. i = 1
  BY <1>3 DEF LockInv, Lined
<1>5. line[a] \in Seq(Procs) /\ Len(line[a]) \in Nat
  BY DEF LockInv
<1> QED BY <1>2, <1>3, <1>4, <1>5

LEMMA HeadHolds ==
    ASSUME LockInv, NEW p \in Procs, Holds(p)
    PROVE  pc[p] \in Inside /\ To(p) \in Agents /\ line[To(p)][1] = p
<1>1. pc[p] \in Inside
  BY DEF Holds, Inside
<1>2. To(p) \in Agents
  BY <1>1 DEF LockInv, InLine
<1>3. PICK a \in Agents : a = To(p)
  BY <1>2
<1>4. \E i \in 1..Len(line[a]) : line[a][i] = p
  BY <1>1, <1>3 DEF LockInv, InLine
<1>5. line[a] \in Seq(Procs) /\ line[a] # <<>>
  BY <1>4 DEF LockInv
<1>6. Head(line[a]) = line[a][1]
  BY <1>5
<1> QED BY <1>1, <1>3, <1>6 DEF Holds

-----------------------------------------------------------------------------
(* The locks: every kind of step keeps the invariant                       *)

LEMMA AsideKeeps ==
    ASSUME LockInv, ProposalInv, Aside
    PROVE  LockInv'
<1>1. Nobody \notin Procs
  BY NamesAssumption
<1>2. \A p \in Procs : pc[p] \in Inside => pc'[p] = pc[p] /\ msg'[p] = msg[p]
  BY DEF Aside
<1>3. \A p \in Procs : pc'[p] \in Inside => pc'[p] = pc[p] /\ msg'[p] = msg[p]
  BY DEF Aside
<1>4. line' = line /\ slots' = slots /\ hist' = hist
  BY DEF Aside
<1>5. Lined'
  <2>1. ASSUME NEW a \in Agents, NEW i \in 1..Len(line[a])
        PROVE  /\ pc'[line[a][i]] \in Inside /\ msg'[line[a][i]].to = a
               /\ pc'[line[a][i]] \in Work => i = 1
    <3>1. PICK p \in Procs : p = line[a][i]
      BY DEF LockInv
    <3>2. pc[p] \in Inside /\ msg[p].to = a /\ (pc[p] \in Work => i = 1)
      BY <3>1 DEF LockInv, Lined, To
    <3> QED BY <1>2, <3>1, <3>2
  <2> QED BY <1>4, <2>1 DEF Lined, To
<1>6. InLine'
  <2>1. ASSUME NEW p \in Procs, pc'[p] \in Inside
        PROVE  msg'[p].to \in Agents /\ \E i \in 1..Len(line[msg'[p].to]) : line[msg'[p].to][i] = p
    BY <1>3, <2>1 DEF LockInv, InLine, To
  <2> QED BY <1>4, <2>1 DEF InLine, To
<1>7. \A p \in slots : pc'[p] \in Work
  BY <1>2 DEF LockInv, Inside
<1>8. \A a \in Agents : hist[a] # Nobody => pc'[hist[a]] \in Quick
  BY <1>2 DEF LockInv, Inside, Work, Quick
<1> QED BY <1>4, <1>5, <1>6, <1>7, <1>8 DEF LockInv, Distinct

LEMMA EntersKeeps ==
    ASSUME LockInv, NEW p \in Procs, NEW a \in Agents, Enters(p, a)
    PROVE  LockInv'
<1>1. PICK l : l = line[a]
  OBVIOUS
<1>2. l \in Seq(Procs) /\ Len(l) \in Nat /\ Distinct(l)
  BY <1>1 DEF LockInv
<1>3. ASSUME NEW i \in 1..Len(l) PROVE l[i] \in Procs /\ l[i] # p /\ pc[l[i]] \in Inside
  <2>1. l[i] \in Procs
    BY <1>2
  <2>2. pc[l[i]] \in Inside
    BY <1>1 DEF LockInv, Lined
  <2> QED BY <2>1, <2>2 DEF Enters
<1>4. PICK n : n = Append(l, p)
  OBVIOUS
<1>5. /\ n \in Seq(Procs) /\ Len(n) = Len(l) + 1 /\ n[Len(l) + 1] = p
      /\ \A i \in 1..Len(l) : n[i] = l[i]
  BY <1>2, <1>4
<1>6. line' = [line EXCEPT ![a] = n] /\ slots' = slots /\ hist' = hist
  BY <1>1, <1>4 DEF Enters, Joins
<1>7. line' \in [Agents -> Seq(Procs)] /\ line'[a] = n /\ \A b \in Agents \ {a} : line'[b] = line[b]
  BY <1>5, <1>6 DEF LockInv
<1>8. pc'[p] = "line" /\ msg'[p].to = a /\ pc[p] \notin Inside
  BY DEF Enters
<1>9. \A q \in Procs : q # p => pc'[q] = pc[q] /\ msg'[q] = msg[q]
  BY DEF Enters, OthersStay
<1>10. ASSUME NEW b \in Agents, b # a, NEW i \in 1..Len(line[b])
       PROVE  line[b][i] \in Procs /\ line[b][i] # p
  <2>1. line[b][i] \in Procs
    BY DEF LockInv
  <2>2. pc[line[b][i]] \in Inside
    BY DEF LockInv, Lined
  <2> QED BY <1>8, <2>1, <2>2
<1>11. ASSUME NEW b \in Agents, NEW i \in 1..Len(line'[b])
       PROVE  /\ pc'[line'[b][i]] \in Inside /\ msg'[line'[b][i]].to = b
              /\ pc'[line'[b][i]] \in Work => i = 1
  <2>1. CASE b # a
    <3>1. PICK q \in Procs : q = line[b][i] /\ q # p
      BY <1>7, <1>10, <1>11, <2>1
    <3>2. pc[q] \in Inside /\ msg[q].to = b /\ (pc[q] \in Work => i = 1)
      BY <1>7, <1>11, <2>1, <3>1 DEF LockInv, Lined, To
    <3> QED BY <1>7, <1>9, <2>1, <3>1, <3>2
  <2>2. CASE b = a /\ i = Len(l) + 1
    <3>1. line'[b][i] = p
      BY <1>5, <1>7, <2>2
    <3> QED BY <1>8, <2>2, <3>1 DEF Inside, Work
  <2>3. CASE b = a /\ i # Len(l) + 1
    <3>1. i \in 1..Len(l)
      BY <1>2, <1>5, <1>7, <1>11, <2>3
    <3>2. PICK q \in Procs : q = l[i] /\ q # p /\ q = line'[b][i]
      BY <1>3, <1>5, <1>7, <2>3, <3>1
    <3>3. i \in 1..Len(line[a]) /\ line[a][i] = q
      BY <1>1, <3>1, <3>2
    <3>4. pc[q] \in Inside /\ msg[q].to = a /\ (pc[q] \in Work => i = 1)
      BY <3>3 DEF LockInv, Lined, To
    <3> QED BY <1>9, <2>3, <3>2, <3>4
  <2> QED BY <2>1, <2>2, <2>3
<1>12. Lined'
  BY <1>11 DEF Lined, To
<1>13. ASSUME NEW q \in Procs, pc'[q] \in Inside
       PROVE  msg'[q].to \in Agents /\ \E i \in 1..Len(line'[msg'[q].to]) : line'[msg'[q].to][i] = q
  <2>1. CASE q = p
    <3>1. Len(l) + 1 \in 1..Len(n)
      BY <1>2, <1>5
    <3> QED BY <1>5, <1>7, <1>8, <2>1, <3>1
  <2>2. CASE q # p
    <3>1. PICK b \in Agents : b = msg[q].to
      BY <1>9, <1>13, <2>2 DEF LockInv, InLine, To
    <3>2. PICK i \in 1..Len(line[b]) : line[b][i] = q
      BY <1>9, <1>13, <2>2, <3>1 DEF LockInv, InLine, To
    <3>3. i \in 1..Len(line'[b]) /\ line'[b][i] = q
      BY <1>1, <1>2, <1>5, <1>7, <3>2
    <3> QED BY <1>9, <2>2, <3>1, <3>3
  <2> QED BY <2>1, <2>2
<1>14. InLine'
  BY <1>13 DEF InLine, To
<1>15. \A i, j \in 1..Len(n) : n[i] = n[j] => i = j
  BY <1>2, <1>3, <1>5 DEF Distinct
<1>16. \A b \in Agents : Distinct(line[b])'
  BY <1>7, <1>15 DEF LockInv, Distinct
<1>17. \A q \in slots : pc'[q] \in Work
  BY <1>8, <1>9 DEF LockInv, Inside
<1>18. \A b \in Agents : hist[b] # Nobody => pc'[hist[b]] \in Quick
  BY <1>8, <1>9 DEF LockInv, Inside, Work, Quick
<1> QED BY <1>6, <1>7, <1>12, <1>14, <1>16, <1>17, <1>18 DEF LockInv

LEMMA SlotsFacts ==
    ASSUME LockInv, NEW p
    PROVE  /\ IsFiniteSet(slots \cup {p}) /\ IsFiniteSet(slots \ {p})
           /\ Cardinality(slots) < Slots => Cardinality(slots \cup {p}) <= Slots
           /\ Cardinality(slots \ {p}) <= Slots
<1>1. IsFiniteSet(slots) /\ Cardinality(slots) <= Slots /\ Cardinality(slots) \in Nat /\ Slots \in Nat
  BY FS_CardinalityType, BoundsAssumption DEF LockInv
<1>2. /\ IsFiniteSet(slots \cup {p})
      /\ Cardinality(slots \cup {p}) = IF p \in slots THEN Cardinality(slots) ELSE Cardinality(slots) + 1
  BY <1>1, FS_AddElement
<1>3. /\ IsFiniteSet(slots \ {p})
      /\ Cardinality(slots \ {p}) = IF p \in slots THEN Cardinality(slots) - 1 ELSE Cardinality(slots)
  BY <1>1, FS_RemoveElement
<1> QED BY <1>1, <1>2, <1>3

LEMMA GoesKeeps ==
    ASSUME LockInv, NEW p \in Procs, Goes(p)
    PROVE  LockInv'
<1>1. /\ pc[p] \in Inside /\ pc'[p] \in Work /\ msg'[p] = msg[p] /\ line' = line
      /\ \A q \in Procs : q # p => pc'[q] = pc[q] /\ msg'[q] = msg[q]
  BY DEF Goes, OthersStay
<1>2. \A q \in Procs : msg'[q].to = msg[q].to /\ (pc'[q] \in Inside <=> pc[q] \in Inside)
  BY <1>1 DEF Inside
<1>3. PICK a \in Agents : a = To(p)
  BY <1>1 DEF LockInv, InLine
<1>4. line[a] \in Seq(Procs) /\ line[a][1] = p
  BY <1>3 DEF LockInv, Goes
<1>5. \E i \in 1..Len(line[a]) : line[a][i] = p
  BY <1>1, <1>3 DEF LockInv, InLine
<1>6. 1 \in 1..Len(line[a])
  BY <1>4, <1>5
<1>7. ASSUME NEW b \in Agents, NEW i \in 1..Len(line[b])
      PROVE  /\ pc'[line[b][i]] \in Inside /\ msg'[line[b][i]].to = b
             /\ pc'[line[b][i]] \in Work => i = 1
  <2>1. PICK q \in Procs : q = line[b][i]
    BY DEF LockInv
  <2>2. pc[q] \in Inside /\ msg[q].to = b /\ (pc[q] \in Work => i = 1)
    BY <2>1 DEF LockInv, Lined, To
  <2>3. CASE q = p
    <3>1. b = a
      BY <1>3, <2>2, <2>3 DEF To
    <3>2. i = 1
      BY <1>4, <1>6, <2>1, <2>3, <3>1 DEF LockInv, Distinct
    <3> QED BY <1>2, <2>1, <2>2, <3>2
  <2>4. CASE q # p
    BY <1>1, <1>2, <2>1, <2>2, <2>4
  <2> QED BY <2>3, <2>4
<1>8. Lined'
  BY <1>1, <1>7 DEF Lined, To
<1>9. InLine'
  <2>1. ASSUME NEW q \in Procs, pc'[q] \in Inside
        PROVE  msg'[q].to \in Agents /\ \E i \in 1..Len(line[msg'[q].to]) : line[msg'[q].to][i] = q
    BY <1>2, <2>1 DEF LockInv, InLine, To
  <2> QED BY <1>1, <2>1 DEF InLine, To
<1>10. slots' \subseteq Procs /\ \A q \in slots' : q = p \/ q \in slots
  BY DEF LockInv, Goes
<1>11. IsFiniteSet(slots') /\ Cardinality(slots') <= Slots
  BY SlotsFacts DEF LockInv, Goes
<1>12. \A q \in slots' : pc'[q] \in Work
  BY <1>1, <1>10 DEF LockInv
<1>13. ASSUME NEW b \in Agents, hist'[b] # Nobody PROVE pc'[hist'[b]] \in Quick
  <2>1. CASE hist'[b] = p /\ pc'[p] \in Quick
    BY <2>1
  <2>2. CASE hist'[b] = hist[b] /\ (pc[p] \in Quick => pc'[p] \in Quick)
    <3>1. PICK q \in Procs : q = hist[b]
      BY <1>13, <2>2 DEF LockInv
    <3>2. pc[q] \in Quick
      BY <1>13, <2>2, <3>1 DEF LockInv
    <3> QED BY <1>1, <2>2, <3>1, <3>2
  <2> QED BY <1>13, <2>1, <2>2 DEF Goes
<1>14. hist' \in [Agents -> Procs \cup {Nobody}]
  BY DEF Goes
<1> QED BY <1>1, <1>8, <1>9, <1>10, <1>11, <1>12, <1>13, <1>14 DEF LockInv, Distinct

LEMMA LeavesKeeps ==
    ASSUME LockInv, NEW p \in Procs, Leaves(p)
    PROVE  LockInv'
<1>1. /\ pc[p] \in Work /\ pc'[p] = "done" /\ msg'[p] = msg[p]
      /\ \A q \in Procs : q # p => pc'[q] = pc[q] /\ msg'[q] = msg[q]
  BY DEF Leaves, OthersStay
<1>2. PICK a \in Agents : a = To(p)
  BY <1>1, HeadWorks
<1>3. PICK l : l = line[a]
  OBVIOUS
<1>4. l \in Seq(Procs) /\ Len(l) \in Nat \ {0} /\ l[1] = p /\ Distinct(l)
  BY <1>1, <1>2, <1>3, HeadWorks DEF LockInv
<1>5. PICK n : n = Tail(l)
  OBVIOUS
<1>6. n \in Seq(Procs) /\ Len(n) = Len(l) - 1 /\ \A i \in 1..Len(n) : n[i] = l[i + 1]
  BY <1>4, <1>5
<1>7. line' = [line EXCEPT ![a] = n]
  BY <1>2, <1>3, <1>5 DEF Leaves, Releases
<1>8. line' \in [Agents -> Seq(Procs)] /\ line'[a] = n /\ \A b \in Agents \ {a} : line'[b] = line[b]
  BY <1>6, <1>7 DEF LockInv
<1>9. ASSUME NEW i \in 1..Len(n)
      PROVE  i + 1 \in 1..Len(l) /\ n[i] \in Procs /\ n[i] # p /\ n[i] = l[i + 1]
  <2>1. i + 1 \in 1..Len(l) /\ 1 \in 1..Len(l) /\ i + 1 # 1
    BY <1>4, <1>6
  <2> QED BY <1>4, <1>6, <2>1 DEF Distinct
<1>10. ASSUME NEW b \in Agents, NEW i \in 1..Len(line'[b])
       PROVE  /\ pc'[line'[b][i]] \in Inside /\ msg'[line'[b][i]].to = b
              /\ pc'[line'[b][i]] \in Work => i = 1
  <2>1. CASE b = a
    <3>1. i \in 1..Len(n)
      BY <1>8, <1>10, <2>1
    <3>2. PICK q \in Procs : q = n[i] /\ q # p /\ q = line'[b][i]
      BY <1>8, <1>9, <2>1, <3>1
    <3>3. i + 1 \in 1..Len(line[a]) /\ line[a][i + 1] = q
      BY <1>3, <1>9, <3>1, <3>2
    <3>4. pc[q] \in Inside /\ msg[q].to = a /\ (pc[q] \in Work => i + 1 = 1)
      BY <3>3 DEF LockInv, Lined, To
    <3>5. i + 1 # 1
      BY <1>6, <3>1
    <3> QED BY <1>1, <2>1, <3>2, <3>4, <3>5
  <2>2. CASE b # a
    <3>1. i \in 1..Len(line[b]) /\ line'[b][i] = line[b][i]
      BY <1>8, <1>10, <2>2
    <3>2. PICK q \in Procs : q = line[b][i]
      BY <3>1 DEF LockInv
    <3>3. pc[q] \in Inside /\ msg[q].to = b /\ (pc[q] \in Work => i = 1)
      BY <3>1, <3>2 DEF LockInv, Lined, To
    <3>4. q # p
      BY <1>2, <2>2, <3>3 DEF To
    <3> QED BY <1>1, <3>1, <3>2, <3>3, <3>4
  <2> QED BY <2>1, <2>2
<1>11. Lined'
  BY <1>10 DEF Lined, To
<1>12. ASSUME NEW q \in Procs, pc'[q] \in Inside
       PROVE  msg'[q].to \in Agents /\ \E i \in 1..Len(line'[msg'[q].to]) : line'[msg'[q].to][i] = q
  <2>1. q # p /\ pc[q] \in Inside /\ msg'[q] = msg[q]
    BY <1>1, <1>12 DEF Inside, Work
  <2>2. PICK b \in Agents : b = msg[q].to
    BY <2>1 DEF LockInv, InLine, To
  <2>3. PICK i \in 1..Len(line[b]) : line[b][i] = q
    BY <2>1, <2>2 DEF LockInv, InLine, To
  <2>4. CASE b # a
    <3>1. i \in 1..Len(line'[b]) /\ line'[b][i] = q
      BY <1>8, <2>3, <2>4
    <3> QED BY <2>1, <2>2, <3>1
  <2>5. CASE b = a
    <3>1. i # 1 /\ i \in 1..Len(l) /\ l[i] = q
      BY <1>3, <1>4, <2>1, <2>3, <2>5
    <3>2. i - 1 \in 1..Len(n) /\ (i - 1) + 1 = i
      BY <1>4, <1>6, <3>1
    <3>3. n[i - 1] = q
      BY <1>6, <3>1, <3>2
    <3> QED BY <1>8, <2>1, <2>2, <2>5, <3>2, <3>3
  <2> QED BY <2>4, <2>5
<1>13. InLine'
  BY <1>12 DEF InLine, To
<1>14. \A i, j \in 1..Len(n) : n[i] = n[j] => i = j
  <2>1. ASSUME NEW i \in 1..Len(n), NEW j \in 1..Len(n), n[i] = n[j]
        PROVE  i = j
    <3>1. i + 1 = j + 1
      BY <1>4, <1>9, <2>1 DEF Distinct
    <3> QED BY <1>6, <3>1
  <2> QED BY <2>1
<1>15. \A b \in Agents : Distinct(line[b])'
  BY <1>8, <1>14 DEF LockInv, Distinct
<1>16. slots' = slots \ {p}
  BY DEF Leaves, Releases
<1>17. slots' \subseteq Procs /\ IsFiniteSet(slots') /\ Cardinality(slots') <= Slots
  BY <1>16, SlotsFacts DEF LockInv
<1>18. \A q \in slots' : pc'[q] \in Work
  BY <1>1, <1>16 DEF LockInv
<1>19. hist' = [b \in Agents |-> IF hist[b] = p THEN Nobody ELSE hist[b]]
  BY DEF Leaves, Releases
<1>20. hist' \in [Agents -> Procs \cup {Nobody}]
  BY <1>19 DEF LockInv
<1>21. ASSUME NEW b \in Agents, hist'[b] # Nobody PROVE pc'[hist'[b]] \in Quick
  <2>1. hist[b] # p /\ hist'[b] = hist[b]
    BY <1>19, <1>21
  <2>2. PICK q \in Procs : q = hist[b]
    BY <1>21, <2>1 DEF LockInv
  <2> QED BY <1>1, <1>21, <2>1, <2>2 DEF LockInv
<1> QED BY <1>8, <1>11, <1>13, <1>15, <1>17, <1>18, <1>20, <1>21 DEF LockInv

LEMMA NothingLocked ==
    ASSUME \A p \in Procs : pc[p] \notin Inside,
           line = [a \in Agents |-> <<>>], slots = {}, hist = [a \in Agents |-> Nobody]
    PROVE  LockInv
<1>1. \A a \in Agents : line[a] = <<>> /\ hist[a] = Nobody
  OBVIOUS
<1>2. <<>> \in Seq(Procs) /\ 1..Len(<<>>) = {}
  OBVIOUS
<1>3. IsFiniteSet(slots) /\ Cardinality(slots) <= Slots
  BY FS_EmptySet, BoundsAssumption
<1>4. line \in [Agents -> Seq(Procs)] /\ hist \in [Agents -> Procs \cup {Nobody}]
  BY <1>2
<1> QED BY <1>1, <1>2, <1>3, <1>4 DEF LockInv, Lined, InLine, Distinct

-----------------------------------------------------------------------------
(* The locks: every action is of one of these kinds                        *)

LEMMA GotoOthers ==
    ASSUME ProposalInv, NEW p \in Procs, NEW label, Goto(p, label)
    PROVE  pc'[p] = label /\ msg' = msg /\ OthersStay(p)
BY DEF ProposalInv, Types, Goto, OthersStay

\* Who holds the lock of the sender goes on, with a slot that was free or
\* without, and takes or lets go the history of one person, or none.
LEMMA GoesOnKeeps ==
    ASSUME ProposalInv, LockInv, NEW p \in Procs, NEW label \in Work, Goto(p, label),
           pc[p] \in Work \/ Holds(p),
           UNCHANGED line, UNCHANGED slots \/ TakesSlot(p),
           \/ UNCHANGED hist /\ (pc[p] \in Quick => label \in Quick)
           \/ label \in Quick /\ \E a \in Agents, h \in {p, Nobody} : hist' = [hist EXCEPT ![a] = h]
    PROVE  LockInv'
<1> DEFINE Held ==
      /\ hist' \in [Agents -> Procs \cup {Nobody}]
      /\ \A a \in Agents :
           \/ hist'[a] = Nobody
           \/ hist'[a] = p /\ label \in Quick
           \/ hist'[a] = hist[a] /\ (pc[p] \in Quick => label \in Quick)
<1>1. pc'[p] = label /\ msg' = msg /\ OthersStay(p)
  BY GotoOthers
<1>2. pc[p] \in Inside /\ line[To(p)][1] = p
  BY HeadWorks, HeadHolds DEF Inside
<1>3. UNCHANGED slots \/ (Cardinality(slots) < Slots /\ slots' = slots \cup {p})
  BY DEF TakesSlot
<1>4. Held
  <2>1. CASE UNCHANGED hist /\ (pc[p] \in Quick => label \in Quick)
    BY <2>1 DEF LockInv
  <2>2. ASSUME label \in Quick, NEW a \in Agents, NEW h \in {p, Nobody},
               hist' = [hist EXCEPT ![a] = h]
        PROVE  Held
    BY <2>2 DEF LockInv
  <2> QED BY <2>1, <2>2
<1>5. Goes(p)
  BY <1>1, <1>2, <1>3, <1>4 DEF Goes
<1> QED BY <1>5, GoesKeeps

LEMMA AnswersKeeps ==
    ASSUME ProposalInv, LockInv, NEW t \in Tasks, NEW answer, Answers(t, answer),
           pc[t] \in Work \/ Holds(t),
           UNCHANGED line, UNCHANGED slots \/ TakesSlot(t),
           UNCHANGED hist \/ \E h \in {t, Nobody} : hist' = [hist EXCEPT ![To(t)] = h]
    PROVE  LockInv'
<1>1. t \in Procs /\ "reply" \in Work /\ "reply" \in Quick /\ Goto(t, "reply")
  BY DEF Procs, Work, Quick, Answers
<1>2. To(t) \in Agents
  BY <1>1, HeadWorks, HeadHolds
<1> QED BY <1>1, <1>2, GoesOnKeeps

LEMMA StillKeeps ==
    ASSUME LockInv, ProposalInv, UNCHANGED <<line, slots, hist, pc, msg>>
    PROVE  LockInv'
BY AsideKeeps DEF Aside

LEMMA ArriveLocks ==
    ASSUME ProposalInv, LockInv, NEW t \in Tasks, Arrive(t)
    PROVE  LockInv'
<1>1. PICK a \in Agents, text \in Texts :
        /\ msg' = [msg EXCEPT ![t] = [to |-> a, text |-> text]]
        /\ \/ pc' = [pc EXCEPT ![t] = "resolving"] /\ UNCHANGED locks
           \/ pc' = [pc EXCEPT ![t] = "line"] /\ Joins(t, a)
  BY DEF Arrive
<1>2. t \in Procs /\ pc[t] = "new"
  BY DEF Arrive, Procs
<1>3. msg'[t].to = a
  BY <1>1, <1>2 DEF ProposalInv, Types
<1>4. OthersStay(t)
  BY <1>1, <1>2 DEF ProposalInv, Types, OthersStay
<1>5. pc[t] \notin Inside /\ "resolving" \notin Inside
  BY <1>2 DEF Inside, Work
<1>6. CASE pc' = [pc EXCEPT ![t] = "resolving"] /\ UNCHANGED locks
  <2>1. pc'[t] = "resolving"
    BY <1>2, <1>6 DEF ProposalInv, Types
  <2>2. Aside
    BY <1>4, <1>5, <1>6, <2>1 DEF Aside, OthersStay, locks
  <2> QED BY <2>2, AsideKeeps
<1>7. CASE pc' = [pc EXCEPT ![t] = "line"] /\ Joins(t, a)
  <2>1. pc'[t] = "line"
    BY <1>2, <1>7 DEF ProposalInv, Types
  <2>2. Enters(t, a)
    BY <1>3, <1>4, <1>5, <1>7, <2>1 DEF Enters
  <2> QED BY <1>2, <2>2, EntersKeeps
<1> QED BY <1>1, <1>6, <1>7

LEMMA ResolveLocks ==
    ASSUME ProposalInv, LockInv, NEW t \in Tasks, Resolve(t)
    PROVE  LockInv'
<1>1. t \in Procs /\ pc[t] = "resolving"
  BY DEF Resolve, Procs
<1>2. To(t) \in Agents
  BY <1>1 DEF ProposalInv, Placed
<1>3. pc[t] \notin Inside /\ "done" \notin Inside
  BY <1>1 DEF Inside, Work
<1>4. CASE Goto(t, "line") /\ Joins(t, To(t))
  <2>1. pc'[t] = "line" /\ msg' = msg /\ OthersStay(t)
    BY <1>1, <1>4, GotoOthers
  <2>2. PICK a \in Agents : a = To(t)
    BY <1>2
  <2>3. msg'[t].to = a /\ Joins(t, a)
    BY <1>4, <2>1, <2>2 DEF To
  <2>4. Enters(t, a)
    BY <1>3, <2>1, <2>3 DEF Enters
  <2> QED BY <1>1, <2>4, EntersKeeps
<1>5. CASE Goto(t, "done") /\ UNCHANGED locks
  <2>1. pc'[t] = "done" /\ msg' = msg /\ OthersStay(t)
    BY <1>1, <1>5, GotoOthers
  <2>2. Aside
    BY <1>3, <1>5, <2>1 DEF Aside, OthersStay, locks
  <2> QED BY <2>2, AsideKeeps
<1> QED BY <1>4, <1>5 DEF Resolve

LEMMA RefuseLocks ==
    ASSUME ProposalInv, LockInv, NEW t \in Tasks, Refuse(t)
    PROVE  LockInv'
<1>1. Holds(t) /\ Answers(t, "refused") /\ UNCHANGED <<line, slots, hist>>
  BY DEF Refuse, locks
<1> QED BY <1>1, AnswersKeeps

LEMMA UnreadableLocks ==
    ASSUME ProposalInv, LockInv, NEW t \in Tasks, Unreadable(t)
    PROVE  LockInv'
<1>1. TakesSlot(t) /\ Holds(t) /\ Answers(t, "unavailable")
  BY DEF Unreadable, TakesSlot
<1>2. UNCHANGED line /\ (UNCHANGED hist \/ hist' = [hist EXCEPT ![To(t)] = t])
  BY DEF Unreadable, Locks
<1> QED BY <1>1, <1>2, AnswersKeeps

LEMMA StartTurnLocks ==
    ASSUME ProposalInv, LockInv, NEW t \in Tasks, StartTurn(t)
    PROVE  LockInv'
<1>1. /\ TakesSlot(t) /\ Holds(t) /\ Goto(t, "model")
      /\ UNCHANGED line /\ hist' = [hist EXCEPT ![To(t)] = t]
  BY DEF StartTurn, TakesSlot, Locks
<1>2. t \in Procs /\ "model" \in Work /\ "model" \in Quick
  BY DEF Procs, Work, Quick
<1>3. To(t) \in Agents
  BY <1>1, <1>2, HeadHolds
<1> QED BY <1>1, <1>2, <1>3, GoesOnKeeps

LEMMA ModelFailsLocks ==
    ASSUME ProposalInv, LockInv, NEW t \in Tasks, ModelFails(t)
    PROVE  LockInv'
<1>1. pc[t] \in Work /\ Answers(t, "unavailable") /\ UNCHANGED <<line, slots, hist>>
  BY DEF ModelFails, locks, Work
<1> QED BY <1>1, AnswersKeeps

LEMMA ModelAnswersLocks ==
    ASSUME ProposalInv, LockInv, NEW t \in Tasks, ModelAnswers(t)
    PROVE  LockInv'
<1>1. pc[t] \in Work
  BY DEF ModelAnswers, Work
<1>2. ASSUME NEW calls, NEW fetched, AnswerSaved(t, fetched, calls)
      PROVE  LockInv'
  <2>1. PICK answer : Answers(t, answer)
    BY <1>2 DEF AnswerSaved
  <2>2. UNCHANGED <<line, slots>> /\ hist' = [hist EXCEPT ![To(t)] = Nobody]
    BY <1>2 DEF AnswerSaved, Locks
  <2> QED BY <1>1, <2>1, <2>2, AnswersKeeps
<1>3. ASSUME NEW calls, AnswerNotSaved(t, calls)
      PROVE  LockInv'
  <2>1. PICK answer : Answers(t, answer)
    BY <1>3 DEF AnswerNotSaved
  <2>2. UNCHANGED <<line, slots, hist>>
    BY <1>3 DEF AnswerNotSaved, locks
  <2> QED BY <1>1, <2>1, <2>2, AnswersKeeps
<1> QED BY <1>2, <1>3 DEF ModelAnswers

LEMMA DecideExpiredLocks ==
    ASSUME ProposalInv, LockInv, NEW t \in Tasks, DecideExpired(t)
    PROVE  LockInv'
<1>1. TakesSlot(t) /\ Holds(t) /\ UNCHANGED <<line, hist>>
  BY DEF DecideExpired, TakesSlot
<1>2. PICK answer : Answers(t, answer)
  BY DEF DecideExpired
<1> QED BY <1>1, <1>2, AnswersKeeps

LEMMA ConfirmLocks ==
    ASSUME ProposalInv, LockInv, NEW t \in Tasks, Confirm(t)
    PROVE  LockInv'
<1>1. TakesSlot(t) /\ Holds(t)
  BY DEF Confirm, TakesSlot
<1>2. CASE Goto(t, "commit") /\ UNCHANGED <<line, hist>>
  <2>1. t \in Procs /\ "commit" \in Work /\ pc[t] \notin Quick
    BY <1>1 DEF Procs, Work, Quick, Holds
  <2> QED BY <1>1, <1>2, <2>1, GoesOnKeeps
<1>3. CASE Locks(To(t), t) /\ Answers(t, "save_failed")
  <2>1. UNCHANGED line /\ hist' = [hist EXCEPT ![To(t)] = t]
    BY <1>3 DEF Locks
  <2> QED BY <1>1, <1>3, <2>1, AnswersKeeps
<1> QED BY <1>2, <1>3 DEF Confirm

LEMMA RejectLocks ==
    ASSUME ProposalInv, LockInv, NEW t \in Tasks, Reject(t)
    PROVE  LockInv'
<1>1. TakesSlot(t) /\ Holds(t)
  BY DEF Reject, TakesSlot
<1>2. PICK answer : Answers(t, answer)
  BY DEF Reject
<1>3. UNCHANGED line /\ (UNCHANGED hist \/ hist' = [hist EXCEPT ![To(t)] = t])
  BY DEF Reject, Locks
<1> QED BY <1>1, <1>2, <1>3, AnswersKeeps

LEMMA NextCallLocks ==
    ASSUME ProposalInv, LockInv, NEW t \in Tasks, pc[t] \in {"commit", "inject"},
           NextCall(t), UNCHANGED <<line, slots, hist>>
    PROVE  LockInv'
<1>1. PICK label \in {"commit", "summary"} : Goto(t, label)
  BY DEF NextCall
<1>2. t \in Procs /\ label \in Work /\ pc[t] \in Work /\ pc[t] \notin Quick
  BY <1>1 DEF Procs, Work, Quick
<1> QED BY <1>1, <1>2, GoesOnKeeps

LEMMA CommittingLocks ==
    ASSUME ProposalInv, LockInv, NEW t \in Tasks, StoreCall(t) \/ RelayCall(t) \/ Inject(t)
    PROVE  LockInv'
<1>1. pc[t] \in {"commit", "inject"} /\ UNCHANGED <<line, slots, hist>>
  BY DEF StoreCall, RelayCall, Inject, locks
<1>2. CASE NextCall(t)
  BY <1>1, <1>2, NextCallLocks
<1>3. CASE Goto(t, "inject")
  <2>1. t \in Procs /\ "inject" \in Work /\ pc[t] \in Work /\ pc[t] \notin Quick
    BY <1>1 DEF Procs, Work, Quick
  <2> QED BY <1>1, <1>3, <2>1, GoesOnKeeps
<1> QED BY <1>2, <1>3 DEF StoreCall, RelayCall, Inject

LEMMA SummaryLocks ==
    ASSUME ProposalInv, LockInv, NEW t \in Tasks, Summary(t)
    PROVE  LockInv'
<1>1. pc[t] \in Work /\ Answers(t, "summary")
  BY DEF Summary, Work
<1>2. UNCHANGED <<line, slots>> /\ (UNCHANGED hist \/ hist' = [hist EXCEPT ![To(t)] = t])
  BY DEF Summary, Locks, locks
<1> QED BY <1>1, <1>2, AnswersKeeps

LEMMA LeavesLocks ==
    ASSUME ProposalInv, LockInv, NEW p \in Procs, pc[p] \in Work, Goto(p, "done"), Releases(p)
    PROVE  LockInv'
<1>1. pc'[p] = "done" /\ msg' = msg /\ OthersStay(p)
  BY GotoOthers
<1>2. Leaves(p)
  BY <1>1 DEF Leaves
<1> QED BY <1>2, LeavesKeeps

LEMMA JobDueLocks ==
    ASSUME ProposalInv, LockInv, NEW a \in Agents, JobDue(a)
    PROVE  LockInv'
<1>1. Runner \in Procs /\ pc[Runner] \notin Inside
  BY DEF Procs, JobDue, RunnerIdle, Inside, Work
<1>2. pc'[Runner] = "line" /\ msg'[Runner].to = a
  BY <1>1 DEF JobDue, ProposalInv, Types
<1>3. OthersStay(Runner)
  BY <1>1 DEF JobDue, ProposalInv, Types, OthersStay
<1>4. Enters(Runner, a)
  BY <1>1, <1>2, <1>3 DEF Enters, JobDue
<1> QED BY <1>1, <1>4, EntersKeeps

LEMMA JobTurnLocks ==
    ASSUME ProposalInv, LockInv, JobTurn
    PROVE  LockInv'
<1>1. /\ TakesSlot(Runner) /\ Holds(Runner) /\ Goto(Runner, "model")
      /\ UNCHANGED line /\ hist' = [hist EXCEPT ![To(Runner)] = Runner]
  BY DEF JobTurn, TakesSlot, Locks
<1>2. Runner \in Procs /\ "model" \in Work /\ "model" \in Quick
  BY DEF Procs, Work, Quick
<1>3. To(Runner) \in Agents
  BY <1>1, <1>2, HeadHolds
<1> QED BY <1>1, <1>2, <1>3, GoesOnKeeps

LEMMA RunnerLocks ==
    ASSUME ProposalInv, LockInv, RunnerTask
    PROVE  LockInv'
<1>1. CASE JobTurn
  BY <1>1, JobTurnLocks
<1>2. CASE JobTurnEnds
  <2>1. Runner \in Procs /\ pc[Runner] \in Work
    BY <1>2 DEF Procs, JobTurnEnds, Work
  <2> QED BY <1>2, <2>1, LeavesLocks DEF JobTurnEnds
<1>3. ASSUME NEW a \in Agents, NEW r \in Reports, AppendReport(a, r) \/ AppendRelay(a, r)
      PROVE  LockInv'
  BY <1>3, StillKeeps DEF AppendReport, AppendRelay, locks, task
<1> QED BY <1>1, <1>2, <1>3 DEF RunnerTask

\* A restart leaves nobody inside.
Unlocked ==
    /\ \A p \in Procs : pc[p] \notin Inside
    /\ line = [a \in Agents |-> <<>>] /\ slots = {} /\ hist = [a \in Agents |-> Nobody]

LEMMA RestartUnlocks ==
    ASSUME ProposalInv, Restart
    PROVE  Unlocked'
<1>1. \A p \in Procs : pc'[p] \in {"new", "done", "lost"}
  BY DEF Restart
<1> QED BY <1>1 DEF Restart, Unlocked, Inside, Work

LEMMA UnlockedLocks == Unlocked => LockInv
BY NothingLocked DEF Unlocked

-----------------------------------------------------------------------------
(* The theorems about the locks                                            *)

LEMMA LockStep ==
    ASSUME ProposalInv, LockInv, [Next]_vars
    PROVE  LockInv' \/ Unlocked'
<1>1. CASE UNCHANGED vars
  BY <1>1, StillKeeps DEF vars, locks, task
<1>2. ASSUME NEW t \in Tasks, Arrive(t) \/ Task(t)
      PROVE  LockInv'
  <2>1. Reply(t) => LockInv'
    BY LeavesLocks DEF Reply, Work, Procs
  <2> QED
    BY <1>2, <2>1, ArriveLocks, ResolveLocks, RefuseLocks, UnreadableLocks, StartTurnLocks,
       ModelFailsLocks, ModelAnswersLocks, DecideExpiredLocks, ConfirmLocks, RejectLocks,
       CommittingLocks, SummaryLocks
       DEF Task, Deciding, Committing
<1>3. CASE RunnerTask
  BY <1>3, RunnerLocks
<1>4. ASSUME NEW a \in Agents, JobDue(a) \/ Expire(a)
      PROVE  LockInv'
  BY <1>4, JobDueLocks, StillKeeps DEF Expire, locks, task
<1>5. CASE Restart
  BY <1>5, RestartUnlocks
<1> QED BY <1>1, <1>2, <1>3, <1>4, <1>5 DEF Next

LEMMA LocksHold == Spec => []LockInv
<1>1. Init => Unlocked
  BY DEF Init, Unlocked, Inside, Work
<1>2. ProposalInv /\ LockInv /\ [Next]_vars => LockInv' \/ Unlocked'
  BY LockStep
<1> QED BY <1>1, <1>2, UnlockedLocks, Proposals, PTL DEF Spec

\* The messages of one person, and the jobs that ask the model for them, are
\* worked on one at a time (the lock of the sender in _converse and run_job).
THEOREM OneByOne == Spec => []OneAtATime
<1>1. LockInv => OneAtATime
  <2> SUFFICES ASSUME LockInv, NEW p \in Procs, NEW q \in Procs,
                      pc[p] \in Work, pc[q] \in Work, To(p) = To(q)
               PROVE  p = q
    BY DEF OneAtATime
  <2> QED BY HeadWorks
<1> QED BY <1>1, LocksHold, PTL

\* Whoever waits for the lock of a sender, for a slot or for the history of
\* another person, somebody can go on, and the slots are never too many.
THEOREM NeverStuck == Spec => []NoCircle
<1>1. LockInv => NoCircle
  <2> SUFFICES ASSUME LockInv, NEW p \in Procs, pc[p] \in Inside
               PROVE  \E q \in Procs : pc[q] \in Inside /\ ~Waiting(q)
    BY DEF NoCircle, LockInv
  <2>1. ASSUME NEW q \in Procs, pc[q] \in Quick
        PROVE  pc[q] \in Inside /\ ~Waiting(q)
    BY <2>1 DEF Quick, Inside, Work, Waiting
  <2>2. ASSUME NEW a \in Agents, ~Free(a)
        PROVE  \E q \in Procs : pc[q] \in Quick
    BY <2>2 DEF LockInv, Free
  <2>3. ASSUME NEW q \in Procs, pc[q] \in Work
        PROVE  ~Waiting(q) \/ \E r \in Procs : pc[r] \in Quick
    <3>1. To(q) \in Agents
      BY <2>3, HeadWorks
    <3>2. Other(To(q)) \in Agents
      BY <3>1, OtherAgent
    <3> QED BY <2>2, <2>3, <3>1, <3>2 DEF Waiting, Work
  <2>4. ASSUME NEW q \in Procs, Holds(q)
        PROVE  \/ ~Waiting(q)
               \/ \E r \in Procs : pc[r] \in Work
    <3>1. To(q) \in Agents /\ pc[q] = "line"
      BY <2>4, HeadHolds DEF Holds
    <3>2. CASE Cardinality(slots) >= Slots
      <4>1. slots # {}
        <5>1. Cardinality({}) = 0 /\ Slots \in Nat \ {0}
          BY FS_EmptySet, BoundsAssumption
        <5> QED BY <3>2, <5>1
      <4> QED BY <4>1 DEF LockInv
    <3>3. CASE ~Free(To(q))
      BY <2>2, <3>1, <3>3 DEF Quick, Work
    <3> QED BY <2>4, <3>1, <3>2, <3>3 DEF Waiting
  <2>5. CASE \E q \in Procs : pc[q] \in Work
    BY <2>1, <2>3, <2>5 DEF Inside
  <2>6. CASE ~\E q \in Procs : pc[q] \in Work
    <3>1. PICK a \in Agents : a = To(p) /\ \E i \in 1..Len(line[a]) : line[a][i] = p
      BY DEF LockInv, InLine
    <3>2. line[a] \in Seq(Procs) /\ line[a] # <<>> /\ 1 \in 1..Len(line[a])
      BY <3>1 DEF LockInv
    <3>3. PICK q \in Procs : q = line[a][1]
      BY <3>2
    <3>4. pc[q] = "line" /\ To(q) = a
      BY <2>6, <3>2, <3>3 DEF LockInv, Lined, Inside
    <3>5. Head(line[a]) = q
      BY <3>2, <3>3
    <3>6. Holds(q)
      BY <3>4, <3>5 DEF Holds
    <3> QED BY <2>4, <2>6, <3>4, <3>6 DEF Inside
  <2> QED BY <2>5, <2>6
<1> QED BY <1>1, LocksHold, PTL

-----------------------------------------------------------------------------
(* Whose proposal a yes runs, and when                                     *)

Over == {"done", "lost"}

\* A stored proposal is of a turn of its person that has answered; a yes that
\* took one says so, and that turn is over.
YesInv ==
    /\ \A a \in Agents : prop[a].of \in Tasks =>
         To(prop[a].of) = a /\ pc[prop[a].of] \in Over \cup {"reply"}
    /\ \A t \in Tasks : Of(t) \in Tasks =>
         msg[t].text = "yes" /\ To(Of(t)) = To(t) /\ pc[Of(t)] \in Over

\* A message stays what it was, and a task that has answered does nothing more.
Settles(t) ==
    /\ pc[t] # "new" => msg'[t] = msg[t]
    /\ pc[t] \in Over \cup {"reply"} => pc'[t] \in Over \cup {"reply"}
    /\ pc[t] \in Over => pc'[t] \in Over

LEMMA GotoSettles ==
    ASSUME ProposalInv, NEW p \in Procs, NEW label, Goto(p, label),
           pc[p] \notin Over, pc[p] = "reply" => label \in Over, NEW u \in Tasks
    PROVE  Settles(u)
<1>1. pc'[p] = label /\ msg' = msg /\ OthersStay(p)
  BY GotoOthers
<1>2. u \in Procs
  BY DEF Procs
<1> QED BY <1>1, <1>2 DEF Settles, OthersStay, Over

LEMMA HolderSettles ==
    ASSUME ProposalInv, NEW t \in Tasks, NEW label, Goto(t, label),
           pc[t] \in Inside \cup {"resolving"}, pc[t] # "reply", NEW u \in Tasks
    PROVE  Settles(u)
<1>1. t \in Procs /\ pc[t] \notin Over
  BY DEF Procs, Inside, Work, Over
<1> QED BY <1>1, GotoSettles

LEMMA OtherSettles ==
    ASSUME ProposalInv, NEW u \in Tasks, OthersStay(Runner) \/ UNCHANGED <<pc, msg>>
    PROVE  Settles(u)
<1>1. u \in Procs /\ u # Runner
  BY NobodyFacts DEF Procs
<1> QED BY <1>1 DEF OthersStay, Settles, Over

LEMMA TaskSettles ==
    ASSUME ProposalInv, NEW t \in Tasks, Task(t), NEW u \in Tasks
    PROVE  Settles(u)
<1>1. CASE Reply(t)
  <2>1. t \in Procs /\ Goto(t, "done") /\ pc[t] = "reply" /\ "done" \in Over /\ pc[t] \notin Over
    BY <1>1 DEF Procs, Reply, Over
  <2> QED BY <2>1, GotoSettles
<1>2. ASSUME ~Reply(t) PROVE pc[t] \in Inside \cup {"resolving"} /\ pc[t] # "reply"
  BY <1>2 DEF Task, Deciding, Committing, Resolve, Refuse, Unreadable, StartTurn, ModelFails,
       ModelAnswers, DecideExpired, Confirm, Reject, StoreCall, RelayCall, Inject, Summary,
       TakesSlot, Holds, Inside, Work
<1>3. ASSUME ~Reply(t) PROVE \E label : Goto(t, label)
  BY <1>3 DEF Task, Deciding, Committing, Resolve, Refuse, Unreadable, StartTurn, ModelFails,
       ModelAnswers, AnswerSaved, AnswerNotSaved, DecideExpired, Confirm, Reject, StoreCall,
       RelayCall, Inject, Summary, Answers, NextCall
<1> QED BY <1>1, <1>2, <1>3, HolderSettles

LEMMA StepSettles ==
    ASSUME ProposalInv, [Next]_vars, NEW u \in Tasks
    PROVE  Settles(u)
<1>1. CASE UNCHANGED vars
  BY <1>1, OtherSettles DEF vars, task
<1>2. ASSUME NEW t \in Tasks, Arrive(t)
      PROVE  Settles(u)
  BY <1>2 DEF Arrive, Settles, Over, ProposalInv, Types, Procs
<1>3. ASSUME NEW t \in Tasks, Task(t)
      PROVE  Settles(u)
  BY <1>3, TaskSettles
<1>4. CASE RunnerTask
  <2>1. Runner \in Procs
    BY DEF Procs
  <2>2. CASE JobTurn \/ JobTurnEnds
    <3>1. PICK label : Goto(Runner, label)
      BY <2>2 DEF JobTurn, JobTurnEnds
    <3>2. OthersStay(Runner)
      BY <2>1, <3>1, GotoOthers
    <3> QED BY <3>2, OtherSettles
  <2>3. ASSUME NEW a \in Agents, NEW r \in Reports, AppendReport(a, r) \/ AppendRelay(a, r)
        PROVE  Settles(u)
    BY <2>3, OtherSettles DEF AppendReport, AppendRelay, task
  <2> QED BY <1>4, <2>2, <2>3 DEF RunnerTask
<1>5. ASSUME NEW a \in Agents, JobDue(a)
      PROVE  Settles(u)
  <2>1. OthersStay(Runner)
    BY <1>5 DEF JobDue, ProposalInv, Types, OthersStay
  <2> QED BY <2>1, OtherSettles
<1>6. ASSUME NEW a \in Agents, Expire(a)
      PROVE  Settles(u)
  BY <1>6, OtherSettles DEF Expire, task
<1>7. CASE Restart
  <2>1. u \in Procs /\ u # Runner
    BY NobodyFacts DEF Procs
  <2> QED BY <1>7, <2>1 DEF Restart, Settles, Over
<1> QED BY <1>1, <1>2, <1>3, <1>4, <1>5, <1>6, <1>7 DEF Next

\* A stored proposal stays, ages or goes, or a turn of its person stores its own.
Stored(a) ==
    \/ prop'[a].of \notin Tasks
    \/ prop'[a].of = prop[a].of
    \/ \E t \in Tasks : prop'[a].of = t /\ pc[t] = "model" /\ To(t) = a /\ pc'[t] = "reply"

LEMMA StepStores ==
    ASSUME ProposalInv, [Next]_vars, NEW a \in Agents
    PROVE  Stored(a)
<1>1. Kind /\ prop \in [Agents -> Proposal \cup {NoProposal}]
  BY KindOfStep DEF ProposalInv, Types
<1>2. CASE UNCHANGED prop
  BY <1>2 DEF Stored
<1>3. CASE Drops
  BY <1>1, <1>3, NoneOfAny, NobodyFacts DEF Drops, Stored
<1>4. CASE Ages
  <2>1. PICK b \in Agents : prop' = [prop EXCEPT ![b].fresh = FALSE] /\ prop[b].fresh
    BY <1>4 DEF Ages
  <2>2. PICK r \in Proposal \cup {NoProposal} : r = prop[a]
    BY <1>1
  <2>3. CASE b = a
    <3>1. r \in Proposal
      BY <2>1, <2>2, <2>3 DEF NoProposal
    <3>2. prop'[a] = [r EXCEPT !.fresh = FALSE]
      BY <1>1, <2>1, <2>2, <2>3
    <3>3. prop'[a].of = r.of
      BY <3>1, <3>2 DEF Proposal
    <3> QED BY <2>2, <3>3 DEF Stored
  <2>4. CASE b # a
    BY <1>1, <2>1, <2>4 DEF Stored
  <2> QED BY <2>3, <2>4
<1>5. ASSUME NEW t \in Tasks, NEW b \in Agents, NEW calls \in Offers, NEW tainted \in BOOLEAN,
             Stages(t, b, calls, tainted)
      PROVE  Stored(a)
  <2>1. Staged(t, b, calls, tainted) /\ pc[t] = "model" /\ To(t) = b
    BY <1>5, StagesFacts DEF Stages
  <2> QED BY <2>1 DEF Staged, Stored
<1>6. ASSUME NEW t \in Tasks, NEW b \in Agents, NEW claim \in Proposal, Takes(t, b, claim)
      PROVE  Stored(a)
  <2>1. Took(t, b, claim)
    BY <1>6, TakesFacts
  <2> QED BY <2>1 DEF Took, Stored
<1> QED BY <1>1, <1>2, <1>3, <1>4, <1>5, <1>6 DEF Kind, Moves, Calling, Injects

\* Only a yes that is confirmed takes a proposal: the stored one of its person.
LEMMA StepTakes ==
    ASSUME ProposalInv, [Next]_vars, NEW u \in Tasks, Of(u)' # Of(u)
    PROVE  /\ Holds(u) /\ msg[u].text = "yes" /\ To(u) \in Agents
           /\ Of(u)' = prop[To(u)].of
<1>1. held' # held
  BY DEF Of
<1>2. PICK t \in Tasks : Confirm(t)
  BY <1>1 DEF Next, vars, Task, Deciding, Committing, RunnerTask, Arrive, Resolve, Refuse,
     Unreadable, StartTurn, ModelFails, ModelAnswers, DecideExpired, Reject, StoreCall, RelayCall,
     Inject, Summary, Reply, JobTurn, JobTurnEnds, AppendReport, AppendRelay, JobDue, Expire,
     Restart, NextCall, yes
<1>3. Holds(t) /\ msg[t].text = "yes" /\ pc[t] = "line"
  BY <1>2 DEF Confirm, TakesSlot, Holds
<1>4. PICK a \in Agents : a = To(t)
  BY <1>3 DEF ProposalInv, Placed
<1>5. PICK m : Claim(t, m)
  BY <1>1, <1>2 DEF Confirm, yes
<1>6. PICK r \in Proposal \cup {NoProposal} : r = prop[a]
  BY DEF ProposalInv, Types
<1>7. r # NoProposal
  BY <1>2, <1>4, <1>6 DEF Confirm, Decides
<1>8. PICK b : b = (r.tainted \/ Taint(m))
  OBVIOUS
<1>9. PICK c : c = [r EXCEPT !.tainted = b]
  OBVIOUS
<1>10. c.of = r.of
  BY <1>6, <1>7, <1>9 DEF Proposal
<1>11. held' = [held EXCEPT ![t] = c]
  BY <1>4, <1>5, <1>6, <1>8, <1>9 DEF Claim
<1>12. u = t
  BY <1>11 DEF Of, ProposalInv, Types
<1>13. held'[u] = c
  BY <1>11, <1>12 DEF ProposalInv, Types
<1> QED BY <1>3, <1>4, <1>6, <1>10, <1>12, <1>13 DEF Of

LEMMA YesStep ==
    ASSUME ProposalInv, LockInv, YesInv, [Next]_vars, ProposalInv'
    PROVE  YesInv'
<1>1. ASSUME NEW a \in Agents, NEW p \in Tasks, prop'[a].of = p
      PROVE  msg'[p].to = a /\ pc'[p] \in Over \cup {"reply"}
  <2>1. CASE prop[a].of = p
    <3>1. msg[p].to = a /\ pc[p] \in Over \cup {"reply"}
      BY <2>1 DEF YesInv, To
    <3>2. Settles(p) /\ pc[p] # "new"
      BY <3>1, StepSettles DEF Over
    <3> QED BY <3>1, <3>2 DEF Settles
  <2>2. CASE pc[p] = "model" /\ To(p) = a /\ pc'[p] = "reply"
    <3>1. Settles(p)
      BY StepSettles
    <3> QED BY <2>2, <3>1 DEF Settles, To
  <2> QED BY <1>1, <2>1, <2>2, StepStores DEF Stored
<1>2. ASSUME NEW t \in Tasks, NEW p \in Tasks, held'[t].of = p
      PROVE  msg'[t].text = "yes" /\ msg'[p].to = msg'[t].to /\ pc'[p] \in Over
  <2>1. Settles(t) /\ Settles(p) /\ t \in Procs /\ p \in Procs
    BY StepSettles DEF Procs
  <2>2. msg[t].text = "yes" /\ msg[p].to = msg[t].to /\ pc[p] \in Over /\ pc[t] # "new"
    <3>1. CASE held[t].of = p
      <4>1. pc[t] # "new"
        BY <3>1, NobodyFacts DEF ProposalInv, Placed, Early, Of
      <4> QED BY <3>1, <4>1 DEF YesInv, Of, To
    <3>2. CASE held[t].of # p
      <4>1. Holds(t) /\ msg[t].text = "yes" /\ To(t) \in Agents /\ p = prop[To(t)].of
        BY <1>2, <3>2, StepTakes DEF Of
      <4>2. PICK a \in Agents : a = To(t) /\ p = prop[a].of
        BY <4>1
      <4>3. To(p) = a /\ pc[p] \in Over \cup {"reply"}
        BY <4>2 DEF YesInv
      <4>4. pc[p] # "reply"
        <5>1. line[a][1] = t /\ pc[t] = "line"
          BY <2>1, <4>1, <4>2, HeadHolds DEF Holds
        <5>2. pc[p] \in Work => line[a][1] = p
          BY <2>1, <4>3, HeadWorks
        <5> QED BY <5>1, <5>2 DEF Work
      <4> QED BY <4>1, <4>2, <4>3, <4>4 DEF To, Holds
    <3> QED BY <3>1, <3>2
  <2> QED BY <2>1, <2>2 DEF Settles, Over
<1> QED BY <1>1, <1>2 DEF YesInv, To, Of

\* A yes runs what was previewed to the one who says it, when the turn of the
\* preview is over (_handle_decision, under the lock of the sender).
THEOREM YesIsOwn == Spec => []OwnYes
<1>1. Init => YesInv
  <2> SUFFICES ASSUME Init PROVE YesInv
    OBVIOUS
  <2>1. /\ \A a \in Agents : prop[a].of = Nobody
        /\ \A t \in Tasks : Of(t) = Nobody
    BY NoneOfAny DEF Init, Of
  <2> QED BY <2>1, NobodyFacts DEF YesInv
<1>2. ProposalInv /\ ProposalInv' /\ LockInv /\ YesInv /\ [Next]_vars => YesInv'
  BY YesStep
<1>3. ProposalInv /\ YesInv => OwnYes
  <2> SUFFICES ASSUME ProposalInv, YesInv, NEW t \in Tasks, held[t] # NoProposal
               PROVE  Of(t) \in Tasks
    BY DEF YesInv, OwnYes, Over
  <2> QED BY ProposalFacts DEF ProposalInv, Types, Of
<1> QED BY <1>1, <1>2, <1>3, LocksHold, Proposals, PTL DEF Spec

=============================================================================
