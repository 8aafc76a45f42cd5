---------------------------- MODULE JobContract ----------------------------
(***************************************************************************)
(* What a stored job promises the household, seen from the two phones and  *)
(* the two histories: a relay is sent, recorded for the recipient and only *)
(* then confirmed; a report is sent before it is remembered; no effect is  *)
(* repeated in a run unless a restart forgot it. Nothing is said about     *)
(* rows, marks or retries: JobRunner is shown to implement this.           *)
(***************************************************************************)
EXTENDS Naturals

CONSTANTS
    Jobs,      \* job ids
    Profiles   \* the kinds of job that may be stored

VARIABLES
    profile,   \* what each job is, for good
    count      \* how often each effect happened in the job's present run

Relays(j) == profile[j].kind = "relay"

NoCount == [phone |-> 0, record |-> 0, told |-> 0, hist |-> 0]

Init ==
    /\ profile \in [Jobs -> Profiles]
    /\ count = [j \in Jobs |-> NoCount]

Add(j, e) ==
    /\ count' = [count EXCEPT ![j][e] = @ + 1]
    /\ UNCHANGED profile

Send(j) ==
    /\ Relays(j)
    /\ count[j].phone = 0 /\ count[j].told = 0
    /\ Add(j, "phone")

Record(j) ==
    /\ Relays(j)
    /\ count[j].phone = 1 /\ count[j].record = 0
    /\ Add(j, "record")

Tell(j) ==
    /\ Relays(j) => count[j].record = 1
    /\ count[j].told = 0 /\ count[j].hist = 0
    /\ Add(j, "told")

\* The history may get a report again when the write that ends the run fails.
Remember(j) ==
    /\ count[j].told = 1
    /\ Add(j, "hist")

\* The run is over; the next one starts from nothing.
Close(j) ==
    /\ count[j].hist > 0
    /\ count' = [count EXCEPT ![j] = NoCount]
    /\ UNCHANGED profile

\* A restart loses what no row says, never an effect that a later one proves.
Forget ==
    /\ \E kept \in [Jobs -> [phone: BOOLEAN, record: BOOLEAN, told: BOOLEAN]] :
        /\ \A j \in Jobs :
            /\ count[j].hist > 0 => kept[j].told
            /\ Relays(j) /\ count[j].told > 0 => kept[j].record
        /\ count' = [j \in Jobs |->
                      [phone  |-> IF kept[j].phone THEN count[j].phone ELSE 0,
                       record |-> IF kept[j].record THEN count[j].record ELSE 0,
                       told   |-> IF kept[j].told THEN count[j].told ELSE 0,
                       hist   |-> count[j].hist]]
    /\ UNCHANGED profile

Next ==
    \/ \E j \in Jobs : Send(j) \/ Record(j) \/ Tell(j) \/ Remember(j) \/ Close(j)
    \/ Forget

Spec == Init /\ [][Next]_<<profile, count>>
=============================================================================
