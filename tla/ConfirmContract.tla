-------------------------- MODULE ConfirmContract --------------------------
(***************************************************************************)
(* What staging promises the person: a turn may offer calls; the offer is  *)
(* live until it is confirmed, refused, replaced or runs out; only a       *)
(* confirmed one runs, each of its calls once; and what is dead stays so.  *)
(* Conversation is shown to implement this.                                *)
(***************************************************************************)
EXTENDS Naturals, Sequences

CONSTANTS
    Tasks,   \* the turns
    Offers   \* what a turn may offer

VARIABLES
    phase,   \* of each turn's offer
    offer,   \* the calls it showed
    runs     \* how many of them ran

Init ==
    /\ phase = [p \in Tasks |-> "unborn"]
    /\ offer = [p \in Tasks |-> <<>>]
    /\ runs = [p \in Tasks |-> 0]

\* The new offer takes the place of at most one older one.
Stage(p, calls) ==
    /\ phase[p] = "unborn"
    /\ offer' = [offer EXCEPT ![p] = calls]
    /\ \E older \in Tasks \cup {p} :
         /\ older # p => phase[older] = "live"
         /\ phase' = [phase EXCEPT ![older] = "dead", ![p] = "live"]
    /\ UNCHANGED runs

\* An offer is refused, expires or is abandoned.
Drop(p) ==
    /\ phase[p] = "live"
    /\ phase' = [phase EXCEPT ![p] = "dead"]
    /\ UNCHANGED <<offer, runs>>

Confirm(p) ==
    /\ phase[p] = "live"
    /\ phase' = [phase EXCEPT ![p] = "claimed"]
    /\ UNCHANGED <<offer, runs>>

Run(p) ==
    /\ phase[p] = "claimed" /\ runs[p] < Len(offer[p])
    /\ runs' = [runs EXCEPT ![p] = @ + 1]
    /\ UNCHANGED <<phase, offer>>

Next ==
    \/ \E p \in Tasks : Drop(p) \/ Confirm(p) \/ Run(p)
    \/ \E p \in Tasks, calls \in Offers : Stage(p, calls)

Spec == Init /\ [][Next]_<<phase, offer, runs>>
=============================================================================
