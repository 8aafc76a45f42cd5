------------------------------ MODULE Calendar ------------------------------
(***************************************************************************)
(* The household calendar (calendar/client.py, calendar/tools.py). One     *)
(* client serves both agents and keeps the address of the calendar once it *)
(* has found it.                                                           *)
(*                                                                         *)
(* The redirects that _send follows belong to the request: each is guarded *)
(* as the first address is, and the last answer counts.                    *)
(***************************************************************************)
EXTENDS Naturals, FiniteSets

CONSTANTS
    Askers,       \* tasks that use the client
    Adders,       \* those that may add an event: jobs may not
    Places,       \* addresses
    Foreign,      \* addresses that guard_url refuses
    Mute,         \* addresses that give no answer once the calendar has left them
    Nowhere,      \* no address is cached
    MaxMoves,     \* bound: times the calendar moves
    MaxFaults     \* bound: times a request fails that need not

ASSUME AddersAssumption == Adders \subseteq Askers
ASSUME PlacesAssumption ==
    Foreign \subseteq Places /\ Mute \subseteq Places /\ Nowhere \notin Places
ASSUME BoundsAssumption == MaxMoves \in Nat /\ MaxFaults \in Nat

VARIABLES
    calendarUrl,  \* _calendar_url
    place,        \* external: where the calendar is
    moves,        \* external: how often it moved
    faults,       \* external: how often a request failed
    calendar      \* the call of each asker; observed: what it wrote, and odd answers

calendarVars == <<calendarUrl, place, moves, faults, calendar>>

Stages == {"idle", "principal", "home", "list", "query", "put", "again"}

CalendarTypeOK ==
    /\ calendarUrl \in Places \cup {Nowhere} /\ place \in Places
    /\ moves \in 0..MaxMoves /\ faults \in 0..MaxFaults
    /\ calendar \in [Askers -> [stage: Stages, op: {"agenda", "create"}, url: Places \cup {Nowhere},
                                end: {"none", "done", "failed"}, wrote: 0..2, odd: 0..1]]

\* A call of an operation that begins.
Call0(op) ==
    [stage |-> "principal", op |-> op, url |-> Nowhere, end |-> "none", wrote |-> 0, odd |-> 0]

CalendarInit ==
    /\ calendarUrl = Nowhere /\ place \in Places \ Foreign
    /\ moves = 0 /\ faults = 0
    /\ calendar = [c \in Askers |-> [Call0("agenda") EXCEPT !.stage = "idle"]]

EndCalendar(c, end, wrote) ==
    calendar' = [calendar EXCEPT ![c].stage = "idle", ![c].end = end, ![c].url = Nowhere,
                                 ![c].wrote = @ + wrote]

Fault == faults < MaxFaults /\ faults' = faults + 1

\* A bad answer counts as a fault only where the calendar is: a server that has no
\* such collection gives one every time, unless it gives no answer at all.
Answers(url) == url = place \/ url \notin Mute
BadAnswer(url) ==
    Answers(url) /\ IF url = place THEN Fault ELSE UNCHANGED faults

\* guard_url
Refuses(url) == url \in Foreign

\* The stage that uses the address: guard_url comes first.
Use(op) == IF op = "agenda" THEN "query" ELSE "put"

-----------------------------------------------------------------------------
(* _collection *)

\* agenda and create: with an address in the cache nothing is looked up.
Start(c, op) ==
    /\ calendar[c].stage = "idle"
    /\ op = "create" => c \in Adders
    /\ calendar' = [calendar EXCEPT ![c] =
            CASE calendarUrl = Nowhere -> Call0(op)
              [] calendarUrl # Nowhere /\ Refuses(calendarUrl) -> [Call0(op) EXCEPT !.stage = "idle", !.end = "failed"]
              [] OTHER -> [Call0(op) EXCEPT !.stage = Use(op), !.url = calendarUrl]]
    /\ UNCHANGED <<calendarUrl, place, moves, faults>>

Found(c) ==
    /\ \/ calendar[c].stage = "principal" /\ calendar' = [calendar EXCEPT ![c].stage = "home"]
       \/ calendar[c].stage = "home" /\ calendar' = [calendar EXCEPT ![c].stage = "list"]
    /\ UNCHANGED <<calendarUrl, place, moves, faults>>

\* The address is kept before it is guarded.
Listed(c) ==
    /\ calendar[c].stage = "list"
    /\ calendarUrl' = place
    /\ IF Refuses(place) THEN EndCalendar(c, "failed", 0)
       ELSE calendar' = [calendar EXCEPT ![c].stage = Use(calendar[c].op), ![c].url = place]
    /\ UNCHANGED <<place, moves, faults>>

LookupFails(c) ==
    /\ calendar[c].stage \in {"principal", "home", "list"}
    /\ Fault /\ EndCalendar(c, "failed", 0)
    /\ UNCHANGED <<calendarUrl, place, moves>>

\* What a request may have written that is not answered as it should be.
MayWrite(c) == IF calendar[c].stage # "query" /\ calendar[c].url = place THEN 0..1 ELSE {0}

(* _query *)

Queried(c) ==
    /\ calendar[c].stage = "query" /\ calendar[c].url = place
    /\ EndCalendar(c, "done", 0)
    /\ UNCHANGED <<calendarUrl, place, moves, faults>>

\* (Bug) A bad status leaves the address in the cache.
RefusedKept(c) ==
    /\ calendar[c].stage = "query"
    /\ BadAnswer(calendar[c].url)
    /\ EndCalendar(c, "failed", 0)
    /\ UNCHANGED <<calendarUrl, place, moves>>

\* A status of 400 and more, or data that cannot be read: the next call looks
\* the calendar up again.
Refused(c) ==
    /\ calendar[c].stage = "query"
    /\ BadAnswer(calendar[c].url)
    /\ calendarUrl' = Nowhere
    /\ EndCalendar(c, "failed", 0)
    /\ UNCHANGED <<place, moves>>

\* No answer in time, or none that can be followed, of any request: the address
\* stays in the cache. A PUT may have been carried out.
NoAnswer(c) ==
    /\ calendar[c].stage \in {"query", "put", "again"}
    /\ IF Answers(calendar[c].url) THEN Fault ELSE UNCHANGED faults
    /\ \E wrote \in MayWrite(c) : EndCalendar(c, "failed", wrote)
    /\ UNCHANGED <<calendarUrl, place, moves>>

(* _put_new *)

\* 200, 201 or 204.
Stored(c) ==
    /\ calendar[c].stage \in {"put", "again"} /\ calendar[c].url = place
    /\ EndCalendar(c, "done", 1)
    /\ UNCHANGED <<calendarUrl, place, moves, faults>>

\* (Bug) A PUT without an answer is repeated under a new name.
ConflictOrLost(c) ==
    /\ calendar[c].stage = "put"
    /\ BadAnswer(calendar[c].url)
    /\ calendar' = [calendar EXCEPT ![c].stage = "again",
                        ![c].wrote = IF calendar[c].url = place THEN 1 ELSE 0]
    /\ UNCHANGED <<calendarUrl, place, moves>>

\* The first attempt ends in a second, under a new name, and that in a failure.
TryAgain(c, wrote, odd) ==
    IF calendar[c].stage = "put"
    THEN calendar' = [calendar EXCEPT ![c].stage = "again", ![c].wrote = wrote, ![c].odd = odd]
    ELSE EndCalendar(c, "failed", wrote)

\* 409 or 412: the event was not stored.
Conflict(c) ==
    /\ calendar[c].stage \in {"put", "again"}
    /\ BadAnswer(calendar[c].url)
    /\ TryAgain(c, 0, 0)
    /\ UNCHANGED <<calendarUrl, place, moves>>

\* Another status below 400, 202 for one: _raise_for_status lets it pass, though
\* the event may have been stored.
OddAnswer(c) ==
    /\ calendar[c].stage \in {"put", "again"}
    /\ BadAnswer(calendar[c].url)
    /\ \E wrote \in MayWrite(c) : TryAgain(c, wrote, 1)
    /\ UNCHANGED <<calendarUrl, place, moves>>

\* Any other bad status, that of a proxy too, behind which the event may have been
\* stored. The address stays in the cache.
NotStored(c) ==
    /\ calendar[c].stage \in {"put", "again"}
    /\ BadAnswer(calendar[c].url)
    /\ \E wrote \in MayWrite(c) : EndCalendar(c, "failed", wrote)
    /\ UNCHANGED <<calendarUrl, place, moves>>

-----------------------------------------------------------------------------
Move == moves < MaxMoves /\ moves' = moves + 1 /\ place' \in Places \ {place}
        /\ UNCHANGED <<calendarUrl, faults, calendar>>

CalendarStart(c) == \E op \in {"agenda", "create"} : Start(c, op)

CalendarStep(c) ==
    \/ Found(c) \/ Listed(c) \/ LookupFails(c)
    \/ Queried(c) \/ Refused(c) \/ NoAnswer(c)
    \/ Stored(c) \/ Conflict(c) \/ OddAnswer(c) \/ NotStored(c)
=============================================================================
