--------------------------- MODULE UpdateWatcher ----------------------------
(***************************************************************************)
(* The update watcher: image pins against published tags                   *)
(* (updates/check.py, updates/hub.py), and the loop that texts the operator*)
(* and remembers what it said (updates/watcher.py, store.py).              *)
(*                                                                         *)
(* A text is the set of its lines. One tag stands for a page of them, and  *)
(* a pin is always of release 1. No two pins have the same image.          *)
(***************************************************************************)
EXTENDS Naturals, Sequences, FiniteSets, SequencesExt, FiniteSetsExt

CONSTANTS
    Pins,        \* images of the manifest
    High,        \* those of high priority
    Upstreams,   \* what a repository may publish, newest page first
    Begins,      \* <<v, w>>: the name of release v begins that of w, as 0.2 that of 0.20
    PageCap,     \* _PAGE_CAP
    Restarts     \* bound: stops

Pinned == 1
Gone   == 0      \* the detail of a finding that is no newer release
Moved  == Pinned

ASSUME PinsAssumption == High \subseteq Pins /\ IsFiniteSet(Pins)
ASSUME UpstreamsAssumption ==
    \A u \in Upstreams : u.tags \in Seq(Nat \ {0}) /\ u.moved \in BOOLEAN
ASSUME BeginsAssumption ==
    \A b \in Begins : b \in Nat \X Nat /\ Pinned < b[1] /\ b[1] < b[2]
ASSUME CapAssumption == PageCap \in Nat \ {0} /\ Restarts \in Nat

VARIABLES
    upstream,  \* what each repository publishes
    notice,    \* the stored report: its lines, and whether it was extended
    step,      \* where check is
    left,      \* the pins still to look up
    walk,      \* the lookup that waits for its next page, in a set of at most one
    found,     \* the findings so far
    failed,    \* a lookup failed
    text,      \* the lines being sent
    stops,     \* stops so far
    shown,     \* observed: what the phone was told, less what was then no longer found
    excuse     \* observed: the phone may know more than the notice says

check == <<step, left, walk, found, failed, text>>
vars == <<upstream, notice, check, stops, shown, excuse>>

Finding == [pin: Pins, what: Nat]
\* changed: the list changed after its first page was read (observed).
Walk    == [pin: Pins, tags: Seq(Nat \ {0}), moved: BOOLEAN, changed: BOOLEAN]

TypeOK ==
    /\ upstream \in [Pins -> Upstreams]
    /\ notice.lines \subseteq Finding /\ notice.extended \in BOOLEAN
    /\ step \in {"idle", "looking", "sending"}
    /\ left \subseteq Pins /\ found \subseteq Finding /\ text \subseteq Finding
    /\ walk \subseteq Walk /\ \A w, v \in walk : w = v
    /\ failed \in BOOLEAN /\ excuse \in BOOLEAN
    /\ stops \in 0..Restarts
    /\ shown \subseteq Finding

NoCheck ==
    step = "idle" /\ left = {} /\ walk = {} /\ found = {} /\ failed = FALSE /\ text = {}
EndCheck ==
    step' = "idle" /\ left' = {} /\ walk' = {} /\ found' = {} /\ failed' = FALSE /\ text' = {}

Init ==
    /\ upstream \in [Pins -> Upstreams]
    /\ notice = [lines |-> {}, extended |-> FALSE]
    /\ NoCheck
    /\ stops = 0
    /\ shown = {} /\ excuse = FALSE

-----------------------------------------------------------------------------
(* Pins and tags                                                           *)

\* _newer_release
Newer(p, tags) == {v \in ToSet(tags) : p \in High /\ v > Pinned}

\* (Bug) A truncated list counts as a complete one.
AssessTruncated(p, tags, complete, moved) ==
    CASE Newer(p, tags) # {} -> {[pin |-> p, what |-> Max(Newer(p, tags))]}
      [] Newer(p, tags) = {} /\ Pinned \notin ToSet(tags) -> {[pin |-> p, what |-> Gone]}
      [] OTHER -> {}

\* assess: "a truncated tag list cannot prove a tag is gone."
Assess(p, tags, complete, moved) ==
    CASE Newer(p, tags) # {} -> {[pin |-> p, what |-> Max(Newer(p, tags))]}
      [] Newer(p, tags) = {} /\ Pinned \notin ToSet(tags) /\ complete -> {[pin |-> p, what |-> Gone]}
      [] Newer(p, tags) = {} /\ Pinned \in ToSet(tags) /\ moved -> {[pin |-> p, what |-> Moved]}
      [] OTHER -> {}

-----------------------------------------------------------------------------
(* The check                                                               *)

Start ==
    /\ step = "idle"
    /\ step' = "looking" /\ left' = Pins
    /\ UNCHANGED <<upstream, notice, walk, found, failed, text, stops, shown, excuse>>

\* _one: the first page of a list is asked for.
LookUp(p) ==
    /\ step = "looking" /\ walk = {} /\ p \in left
    /\ walk' = {[pin |-> p, tags |-> <<>>, moved |-> FALSE, changed |-> FALSE]}
    /\ UNCHANGED <<upstream, notice, step, left, found, failed, text, stops, shown, excuse>>

\* tags: page n of what is published now, and the next is asked for or what was
\* read is assessed. At the page cap it counts as truncated if there is a next.
\* A tag read twice counts as it was last.
Page(p, n) ==
    \E w \in walk :
        LET list  == upstream[p].tags
            tags  == IF n <= Len(list) THEN Append(w.tags, list[n]) ELSE w.tags
            moved == IF n <= Len(list) /\ list[n] = Pinned THEN upstream[p].moved ELSE w.moved
        IN
        /\ step = "looking" /\ w.pin = p /\ Len(w.tags) = n - 1
        /\ n = 1 \/ n <= Len(list)
        /\ IF n < Len(list) /\ n < PageCap
           THEN /\ walk' = {[w EXCEPT !.tags = tags, !.moved = moved]}
                /\ UNCHANGED <<left, found>>
           ELSE /\ walk' = {} /\ left' = left \ {p}
                /\ found' = found \cup Assess(p, tags, n >= Len(list), moved)
        /\ UNCHANGED <<upstream, notice, step, failed, text, stops, shown, excuse>>

\* A page is refused, is not there any more, or cannot be reached.
LookUpFails(p) ==
    /\ step = "looking" /\ \E w \in walk : w.pin = p
    /\ walk' = {} /\ left' = left \ {p} /\ failed' = TRUE
    /\ UNCHANGED <<upstream, notice, step, found, text, stops, shown, excuse>>

\* (Bug) A failed lookup ends the check.
ConfirmedNone == {}

\* The text of a finding is part of a line: of its own, or of that of a release
\* whose name goes on.
Within(f, line) ==
    f.pin = line.pin /\ (f.what = line.what \/ <<f.what, line.what>> \in Begins)

\* The findings a failed lookup lets through, unless the notice has their text:
\* _report_confirmed.
Confirmed == {f \in found : f.pin \in High /\ ~\E line \in notice.lines : Within(f, line)}

\* (Bug) What was sent is not compared.
SameNever == FALSE

\* report == previous. No report reads like a notice that was extended.
Same == found = notice.lines /\ ~notice.extended

\* All lookups are back and there is something to send.
Report ==
    /\ step = "looking" /\ left = {}
    /\ text' = IF failed THEN Confirmed ELSE found
    /\ text' # {} /\ (~failed => ~Same)
    /\ step' = "sending"
    /\ UNCHANGED <<upstream, notice, left, walk, found, failed, stops, shown, excuse>>

\* Nothing new, or the notice is unreadable, or there is no operator.
Silent ==
    /\ step = "looking" /\ left = {}
    /\ EndCheck
    /\ UNCHANGED <<upstream, notice, stops, shown, excuse>>

\* (Bug) What was confirmed replaces the notice.
SavedAll(lines) == [lines |-> lines, extended |-> FALSE]

\* save_update_report, by check or by _report_confirmed.
Saved(lines) ==
    IF failed
    THEN [lines |-> notice.lines \cup lines, extended |-> notice.extended \/ notice.lines # {}]
    ELSE [lines |-> lines, extended |-> FALSE]

\* Nothing is stale any more: only the notice is written.
Clear ==
    /\ step = "looking" /\ left = {} /\ ~failed /\ found = {} /\ ~Same
    /\ notice' = Saved({})
    /\ shown' = {} /\ excuse' = FALSE
    /\ EndCheck
    /\ UNCHANGED <<upstream, stops>>

Told == shown' = IF failed THEN shown \cup text ELSE text

\* The text arrives and the answer says so.
Send ==
    /\ step = "sending"
    /\ Told
    /\ \/ notice' = Saved(text) /\ excuse' = (excuse /\ failed)
       \/ UNCHANGED notice /\ excuse' = TRUE
    /\ EndCheck
    /\ UNCHANGED <<upstream, stops>>

\* It does not arrive, or it does and the answer is lost.
SendFails ==
    /\ step = "sending"
    /\ \/ Told /\ excuse' = TRUE
       \/ UNCHANGED <<shown, excuse>>
    /\ EndCheck
    /\ UNCHANGED <<upstream, notice, stops>>

\* _check_unless_stopped: a stop cancels the check where it waits, and a later
\* start begins with the stored notice. A text may have left already.
Stop ==
    /\ stops < Restarts /\ stops' = stops + 1
    /\ \/ step = "sending" /\ Told /\ excuse' = TRUE
       \/ UNCHANGED <<shown, excuse>>
    /\ EndCheck
    /\ UNCHANGED <<upstream, notice>>

Publish(p, u) ==
    /\ upstream[p] # u
    /\ upstream' = [upstream EXCEPT ![p] = u]
    /\ walk' = {IF w.pin = p /\ w.tags # <<>> THEN [w EXCEPT !.changed = TRUE] ELSE w : w \in walk}
    /\ UNCHANGED <<notice, step, left, found, failed, text, stops, shown, excuse>>

Next ==
    \/ Start \/ Report \/ Silent \/ Clear \/ Send \/ SendFails \/ Stop
    \/ \E p \in Pins : LookUp(p) \/ LookUpFails(p)
    \/ \E p \in Pins, n \in 1..PageCap : Page(p, n)
    \/ \E p \in Pins, u \in Upstreams : Publish(p, u)

\* The loop goes on (run), each repository answers again and again, whatever the
\* page, and so does the phone.
Fairness ==
    /\ WF_vars(Start)
    /\ WF_vars(\E p \in Pins : LookUp(p))
    /\ \A p \in Pins, n \in 1..PageCap : SF_vars(Page(p, n))
    /\ WF_vars(\E p \in Pins : LookUpFails(p) \/ \E n \in 1..PageCap : Page(p, n))
    /\ SF_vars(Report) /\ WF_vars(Report \/ Silent \/ Clear)
    /\ SF_vars(Send)

Spec == Init /\ [][Next]_vars
FairSpec == Spec /\ Fairness

-----------------------------------------------------------------------------
(* Properties                                                              *)

\* As far as no text or write went wrong, the notice holds what the operator was
\* told last (check, _report_confirmed).
NoticeKnows == ~excuse => notice.lines = shown

\* The same stale pins are not texted again, unless the phone may have a text
\* that the notice does not know of, or the notice was extended after a failed
\* lookup (check, save_update_report).
NotRepeated == [][Send => text # shown \/ excuse \/ notice.extended]_vars

\* A check with a failed lookup erases nothing from the notice
\* (_report_confirmed).
NoticeKept == [][failed => notice.lines \subseteq notice'.lines]_vars

\* A pin is called gone only if its repository does not list it, whatever the
\* number of pages, or if the list changed while they were read (tags, assess).
GoneIsGone ==
    [][\A f \in found' \ found : f.what = Gone =>
            \/ Pinned \notin ToSet(upstream[f.pin].tags)
            \/ \E w \in walk : w.pin = f.pin /\ w.changed]_vars

\* What the walk may read of a list that does not change.
Listed(u) == SubSeq(u.tags, 1, IF Len(u.tags) < PageCap THEN Len(u.tags) ELSE PageCap)

\* A newer release of a pin of high priority that stays the newest reaches the
\* operator, though other lookups may fail each time, if not by its own line then
\* by that of a release whose name goes on (_report_confirmed).
HighIsTold ==
    \A p \in High, u \in Upstreams :
        Newer(p, Listed(u)) # {} =>
            (<>[](upstream[p] = u) =>
                <>(\E line \in shown : Within([pin |-> p, what |-> Max(Newer(p, Listed(u)))], line)))

-----------------------------------------------------------------------------
(* What a test says and the code does not do                               *)

\* It reaches the operator by its own line.
HighIsNamed ==
    \A p \in High, u \in Upstreams :
        Newer(p, Listed(u)) # {} =>
            (<>[](upstream[p] = u) =>
                <>([pin |-> p, what |-> Max(Newer(p, Listed(u)))] \in shown))
=============================================================================
