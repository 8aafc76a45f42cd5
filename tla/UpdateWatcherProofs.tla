------------------------ MODULE UpdateWatcherProofs -------------------------
(***************************************************************************)
(* Proofs about UpdateWatcher: for any pins, repositories and page cap,    *)
(* over lookups, texts and writes that fail and any number of stops, the   *)
(* notice and the phone agree as far as the watcher can know, and a pin is *)
(* called gone only if its repository does not list it, or changed its     *)
(* list while the watcher read the pages of it.                            *)
(***************************************************************************)
EXTENDS UpdateWatcher, FiniteSetTheorems, TLAPS

\* What is being sent is new against the notice, which stays as it is meanwhile.
SendsNews ==
    step = "sending" =>
        IF failed THEN text # {} /\ text \cap notice.lines = {}
        ELSE text # notice.lines \/ notice.extended

Inv == NoticeKnows /\ SendsNews

LEMMA InitInv == Init => Inv
BY DEF Init, Inv, NoticeKnows, SendsNews, NoCheck

\* save_update_report adds to the notice after a failed lookup, and replaces it
\* otherwise.
LEMMA SavedLines ==
    ASSUME NEW lines
    PROVE  Saved(lines).lines = IF failed THEN notice.lines \cup lines ELSE lines
BY DEF Saved

LEMMA ReportKeeps == ASSUME Inv, Report PROVE Inv'
<1>1. NoticeKnows'
  BY DEF Inv, NoticeKnows, Report
<1>2. CASE failed
  <2>1. text' # {} /\ text' \cap notice.lines = {}
    BY <1>2 DEF Report, Confirmed, Within
  <2> QED
    BY <1>1, <1>2, <2>1 DEF Inv, SendsNews, Report
<1>3. CASE ~failed
  BY <1>1, <1>3 DEF Inv, SendsNews, Report, Same
<1> QED
  BY <1>2, <1>3

LEMMA SendKeeps == ASSUME Inv, Send PROVE Inv'
<1>1. SendsNews'
  BY DEF Send, EndCheck, SendsNews
<1>2. CASE excuse'
  BY <1>1, <1>2 DEF Inv, NoticeKnows
<1>3. CASE ~excuse'
  <2>1. notice' = Saved(text) /\ (excuse' <=> (excuse /\ failed))
    BY <1>3, Zenon DEF Send
  <2>2. shown' = IF failed THEN shown \cup text ELSE text
    BY DEF Send, Told
  <2>3. failed => ~excuse
    BY <1>3, <2>1
  <2>4. notice'.lines = shown'
    BY <2>1, <2>2, <2>3, SavedLines DEF Inv, NoticeKnows
  <2> QED
    BY <1>1, <2>4 DEF Inv, NoticeKnows
<1> QED
  BY <1>2, <1>3

LEMMA ClearKeeps == ASSUME Inv, Clear PROVE Inv'
<1>1. notice'.lines = {}
  BY SavedLines DEF Clear
<1> QED
  BY <1>1 DEF Inv, NoticeKnows, SendsNews, Clear, EndCheck

\* Page, with the walk it belongs to.
PageOf(p, n, w) ==
    LET list  == upstream[p].tags
        tags  == IF n <= Len(list) THEN Append(w.tags, list[n]) ELSE w.tags
        moved == IF n <= Len(list) /\ list[n] = Pinned THEN upstream[p].moved ELSE w.moved
    IN
    /\ w.pin = p /\ Len(w.tags) = n - 1
    /\ IF n < Len(list) /\ n < PageCap
       THEN /\ walk' = {[w EXCEPT !.tags = tags, !.moved = moved]}
            /\ UNCHANGED <<left, found>>
       ELSE /\ walk' = {} /\ left' = left \ {p}
            /\ found' = found \cup Assess(p, tags, n >= Len(list), moved)
    /\ UNCHANGED <<upstream, notice, step, failed, text, stops, shown, excuse>>

LEMMA PageOfWalk ==
    ASSUME NEW p, NEW n, Page(p, n)
    PROVE  \E w \in walk : PageOf(p, n, w)
BY DEF Page, PageOf

LEMMA NextKeeps == Inv /\ [Next]_vars => Inv'
<1> SUFFICES ASSUME Inv, [Next]_vars PROVE Inv'
  OBVIOUS
<1> USE DEF Inv, NoticeKnows, SendsNews
<1>1. CASE UNCHANGED vars
  BY <1>1 DEF vars, check
<1>2. CASE Start
  BY <1>2 DEF Start
<1>3. CASE Silent
  BY <1>3 DEF Silent, EndCheck
<1>4. CASE SendFails
  BY <1>4 DEF SendFails, EndCheck
<1>5. CASE Stop
  BY <1>5 DEF Stop, EndCheck
<1>6. ASSUME NEW p \in Pins, LookUp(p) \/ LookUpFails(p) \/ \E n \in 1..PageCap : Page(p, n)
      PROVE  Inv'
  <2>1. UNCHANGED <<step, notice, failed, text, shown, excuse>> \/ LookUpFails(p)
    BY <1>6, PageOfWalk DEF LookUp, PageOf
  <2>2. CASE LookUpFails(p)
    BY <2>2 DEF LookUpFails
  <2> QED
    BY <2>1, <2>2
<1>7. ASSUME NEW p \in Pins, NEW u \in Upstreams, Publish(p, u) PROVE Inv'
  BY <1>7 DEF Publish
<1> QED
  BY <1>1, <1>2, <1>3, <1>4, <1>5, <1>6, <1>7, ReportKeeps, SendKeeps, ClearKeeps DEF Next

\* The notice holds what the operator was told last, as far as no text or write
\* went wrong, and only news are sent (check, _report_confirmed).
THEOREM Invariance == Spec => []Inv
BY InitInv, NextKeeps, PTL DEF Spec

\* The same stale pins are not texted again, unless the phone may have a text
\* that the notice does not know of, or the notice was extended after a failed
\* lookup (check, save_update_report).
THEOREM TextsNews == Spec => NotRepeated
<1>1. Inv => (Send => text # shown \/ excuse \/ notice.extended)
  <2> SUFFICES ASSUME Inv, Send, ~excuse, ~notice.extended PROVE text # shown
    BY Zenon
  <2>1. step = "sending" /\ notice.lines = shown
    BY DEF Inv, NoticeKnows, Send
  <2>2. CASE failed
    BY <2>1, <2>2 DEF Inv, SendsNews
  <2>3. CASE ~failed
    BY <2>1, <2>3 DEF Inv, SendsNews
  <2> QED
    BY <2>2, <2>3
<1> QED
  BY <1>1, Invariance, PTL DEF NotRepeated

\* A check with a failed lookup erases nothing from the notice
\* (_report_confirmed).
THEOREM KeepsNotice == Spec => NoticeKept
<1>1. ASSUME [Next]_vars, failed PROVE notice.lines \subseteq notice'.lines
  <2>1. CASE Send
    BY <1>1, <2>1, SavedLines DEF Send
  <2>2. CASE ~Send
    BY <1>1, <2>2 DEF Next, vars, Start, Report, Silent, Clear, SendFails, Stop, LookUp, LookUpFails,
                      Page, Publish
  <2> QED
    BY <2>1, <2>2
<1>2. [Next]_vars => (failed => notice.lines \subseteq notice'.lines)
  BY <1>1
<1> QED
  BY <1>2, PTL DEF Spec, NoticeKept

-----------------------------------------------------------------------------
(* What a finding says                                                     *)

\* A set of numbers that holds 0, and n + 1 for each n of it, holds every number.
\* If it lacked n, adding one would map its part below n into itself, injectively
\* and not onto 0: no finite set allows that.
LEMMA Induction ==
    ASSUME NEW S \in SUBSET Nat, 0 \in S, \A n \in S : n + 1 \in S
    PROVE  S = Nat
<1> SUFFICES ASSUME NEW n \in Nat, n \notin S PROVE FALSE
  OBVIOUS
<1> DEFINE T == S \cap (0..n)
           f == [x \in T |-> x + 1]
<1>1. IsFiniteSet(T)
  <2>1. IsFiniteSet(0..n)
    BY FS_Interval
  <2> QED
    BY <2>1, FS_Subset
<1>2. f \in [T -> T]
  <2>1. ASSUME NEW x \in T PROVE x + 1 \in T
    BY <2>1
  <2> QED
    BY <2>1
<1>3. f \in Injection(T, T)
  BY <1>2 DEF Injection, IsInjective
<1>4. f \in Surjection(T, T)
  BY <1>1, <1>3, FS_Injection
<1>5. 0 \in T
  OBVIOUS
<1>6. PICK x \in T : f[x] = 0
  BY <1>4, <1>5 DEF Surjection
<1> QED
  BY <1>6

\* Of some of the tags of a page one is the newest.
LEMMA Newest ==
    ASSUME NEW s \in Seq(Nat), NEW S \in SUBSET ToSet(s), S # {}
    PROVE  Max(S) \in S
<1> DEFINE Has(T) == \E x \in T : \A y \in T : x >= y
           Fine(n) == n <= Len(s) => \A T \in SUBSET {s[i] : i \in 1..n} : T # {} => Has(T)
           I == {n \in Nat : Fine(n)}
<1>1. Len(s) \in Nat /\ \A i \in 1..Len(s) : s[i] \in Nat
  OBVIOUS
<1>2. 0 \in I
  <2>1. \A T \in SUBSET {s[i] : i \in 1..0} : T = {}
    OBVIOUS
  <2> QED
    BY <2>1
<1>3. ASSUME NEW n \in I PROVE n + 1 \in I
  <2>1. n \in Nat /\ Fine(n)
    OBVIOUS
  <2>2. ASSUME n + 1 <= Len(s), NEW T \in SUBSET {s[i] : i \in 1..(n + 1)}, T # {}
        PROVE  Has(T)
    <3>1. n <= Len(s) /\ s[n + 1] \in Nat
      BY <1>1, <2>1, <2>2
    <3>2. PICK m \in Nat : m = s[n + 1]
      BY <3>1
    <3>3. 1..(n + 1) = (1..n) \cup {n + 1}
      BY <2>1
    <3>4. T \ {m} \in SUBSET {s[i] : i \in 1..n}
      BY <2>2, <3>2, <3>3
    <3>5. T \subseteq Nat
      BY <1>1, <2>1, <2>2
    <3>6. CASE T \ {m} = {}
      <4>1. T = {m}
        BY <2>2, <3>6
      <4> QED
        BY <3>2, <4>1
    <3>7. CASE T \ {m} # {}
      <4>1. PICK x \in T \ {m} : \A y \in T \ {m} : x >= y
        BY <2>1, <3>1, <3>4, <3>7
      <4>2. CASE m \in T /\ m > x
        <5>1. \A y \in T : m >= y
          BY <3>2, <3>5, <4>1, <4>2
        <5> QED
          BY <4>2, <5>1
      <4>3. CASE m \notin T \/ ~(m > x)
        <5>1. \A y \in T : x >= y
          BY <3>2, <3>5, <4>1, <4>3
        <5> QED
          BY <4>1, <5>1
      <4> QED
        BY <4>2, <4>3
    <3> QED
      BY <3>6, <3>7
  <2>3. n + 1 \in Nat /\ Fine(n + 1)
    BY <2>1, <2>2
  <2> QED
    BY <2>3
<1>4. I = Nat
  <2>1. I \in SUBSET Nat
    OBVIOUS
  <2> HIDE DEF I
  <2> QED
    BY <1>2, <1>3, <2>1, Induction
<1>5. Fine(Len(s))
  <2>1. Len(s) \in I
    <3> HIDE DEF I
    <3> QED
      BY <1>1, <1>4
  <2> QED
    BY <2>1
<1>6. Has(S)
  <2>1. {s[i] : i \in DOMAIN s} = {s[i] : i \in 1..Len(s)}
    OBVIOUS
  <2>2. S \in SUBSET {s[i] : i \in 1..Len(s)}
    BY <2>1 DEF ToSet
  <2> HIDE DEF Has
  <2>3. \A T \in SUBSET {s[i] : i \in 1..Len(s)} : T # {} => Has(T)
    <3>1. Len(s) <= Len(s)
      BY <1>1
    <3> QED
      BY <1>5, <3>1
  <2> QED
    BY <2>2, <2>3
<1> QED
  BY <1>6 DEF Max

\* assess finds at most one thing, and Gone only on a complete list without the
\* pinned release.
LEMMA AssessFacts ==
    ASSUME NEW p \in Pins, NEW tags \in Seq(Nat \ {0}), NEW complete, NEW moved,
           NEW f \in Assess(p, tags, complete, moved)
    PROVE  /\ f \in Finding /\ f.pin = p
           /\ f.what = Gone => complete /\ Pinned \notin ToSet(tags)
<1>1. tags \in Seq(Nat) /\ ToSet(tags) \subseteq Nat
  BY DEF ToSet
<1>2. CASE Newer(p, tags) # {}
  <2>1. PICK S : S = Newer(p, tags)
    OBVIOUS
  <2>2. Max(S) \in S
    BY <1>1, <1>2, <2>1, Newest DEF Newer
  <2>3. PICK m : m = Max(S)
    OBVIOUS
  <2>4. m \in Nat /\ m > Pinned
    BY <1>1, <2>1, <2>2, <2>3 DEF Newer
  <2>5. f = [pin |-> p, what |-> m]
    BY <1>2, <2>1, <2>3 DEF Assess
  <2> QED
    BY <2>4, <2>5 DEF Finding, Gone, Pinned
<1>3. CASE Newer(p, tags) = {} /\ Pinned \notin ToSet(tags) /\ complete
  <2>1. f = [pin |-> p, what |-> Gone]
    BY <1>3 DEF Assess
  <2> QED
    BY <1>3, <2>1 DEF Finding, Gone
<1>4. CASE Newer(p, tags) = {} /\ ~(Pinned \notin ToSet(tags) /\ complete)
  <2>1. f = [pin |-> p, what |-> Moved]
    BY <1>4 DEF Assess
  <2> QED
    BY <2>1 DEF Finding, Gone, Moved, Pinned
<1> QED
  BY <1>2, <1>3, <1>4

\* The pages read so far, with one more.
More(s, list, n) == IF n <= Len(list) THEN Append(s, list[n]) ELSE s

LEMMA PageFacts ==
    ASSUME NEW s \in Seq(Nat \ {0}), NEW list \in Seq(Nat \ {0}), NEW n \in Nat \ {0},
           Len(s) = n - 1, NEW t, t = More(s, list, n)
    PROVE  /\ t \in Seq(Nat \ {0})
           /\ n <= Len(list) => Len(t) = n /\ t[n] = list[n]
           /\ n > Len(list) => t = s
           /\ \A i \in 1..Len(s) : t[i] = s[i]
<1>1. CASE n <= Len(list)
  <2>1. list[n] \in Nat \ {0}
    BY <1>1
  <2>2. t = Append(s, list[n])
    BY <1>1 DEF More
  <2> QED
    BY <1>1, <2>1, <2>2
<1>2. CASE n > Len(list)
  <2>1. t = s
    BY <1>2 DEF More
  <2> QED
    BY <1>2, <2>1
<1> QED
  BY <1>1, <1>2

LEMMA SavedTyped ==
    ASSUME TypeOK, NEW lines \in SUBSET Finding
    PROVE  Saved(lines).lines \subseteq Finding /\ Saved(lines).extended \in BOOLEAN
BY DEF TypeOK, Saved

\* Every variable stays in its range, whatever the repositories publish.
THEOREM TypeCorrect == Spec => []TypeOK
<1>1. Init => TypeOK
  <2> SUFFICES ASSUME Init PROVE TypeOK
    OBVIOUS
  <2>1. Restarts \in Nat
    BY CapAssumption
  <2>2. stops \in 0..Restarts
    BY <2>1 DEF Init
  <2>3. notice.lines = {} /\ notice.extended = FALSE
    BY DEF Init
  <2>4. failed \in BOOLEAN /\ excuse \in BOOLEAN /\ notice.extended \in BOOLEAN
    BY <2>3 DEF Init, NoCheck
  <2> QED
    BY <2>2, <2>3, <2>4 DEF Init, TypeOK, NoCheck
<1>2. TypeOK /\ [Next]_vars => TypeOK'
  <2> SUFFICES ASSUME TypeOK, [Next]_vars PROVE TypeOK'
    OBVIOUS
  <2>1. CASE UNCHANGED vars
    BY <2>1 DEF TypeOK, vars, check
  <2>2. CASE Start
    BY <2>2 DEF TypeOK, Start
  <2>3. CASE Report
    BY <2>3 DEF TypeOK, Report, Confirmed
  <2>4. CASE Silent
    BY <2>4 DEF TypeOK, Silent, EndCheck
  <2>5. CASE Clear
    <3>1. notice'.lines \subseteq Finding /\ notice'.extended \in BOOLEAN
      BY <2>5, SavedTyped DEF Clear
    <3> QED
      BY <2>5, <3>1 DEF TypeOK, Clear, EndCheck
  <2>6. CASE Send
    <3>1. text \subseteq Finding
      BY DEF TypeOK
    <3>2. notice'.lines \subseteq Finding /\ notice'.extended \in BOOLEAN
      BY <2>6, <3>1, SavedTyped DEF Send, TypeOK
    <3>3. excuse' \in BOOLEAN
      BY <2>6 DEF Send
    <3> QED
      BY <2>6, <3>2, <3>3 DEF TypeOK, Send, Told, EndCheck
  <2>7. CASE SendFails
    <3>1. excuse' \in BOOLEAN
      BY <2>7 DEF SendFails, TypeOK
    <3> QED
      BY <2>7, <3>1 DEF TypeOK, SendFails, Told, EndCheck
  <2>8. CASE Stop
    <3>1. stops \in Nat /\ stops < Restarts /\ stops' = stops + 1
      BY <2>8, CapAssumption DEF Stop, TypeOK
    <3>2. stops' \in 0..Restarts
      BY <3>1, CapAssumption
    <3>3. excuse' \in BOOLEAN
      BY <2>8 DEF Stop, TypeOK
    <3> QED
      BY <2>8, <3>2, <3>3 DEF TypeOK, Stop, Told, EndCheck
  <2>9. ASSUME NEW p \in Pins, LookUp(p)
        PROVE  TypeOK'
    <3>1. [pin |-> p, tags |-> <<>>, moved |-> FALSE, changed |-> FALSE] \in Walk
      BY DEF Walk
    <3>2. walk' \subseteq Walk /\ \A w, v \in walk' : w = v
      BY <2>9, <3>1 DEF LookUp
    <3> QED
      BY <2>9, <3>2 DEF TypeOK, LookUp
  <2>10. ASSUME NEW p \in Pins, LookUpFails(p)
         PROVE  TypeOK'
    BY <2>10 DEF TypeOK, LookUpFails
  <2>11. ASSUME NEW p \in Pins, NEW n \in 1..PageCap, Page(p, n)
         PROVE  TypeOK'
    <3>1. PICK list : list = upstream[p].tags
      OBVIOUS
    <3>2. PICK w \in walk : PageOf(p, n, w)
      BY <2>11, PageOfWalk
    <3>3. w \in Walk /\ list \in Seq(Nat \ {0}) /\ upstream[p].moved \in BOOLEAN
      BY <3>1, UpstreamsAssumption DEF TypeOK
    <3>4. PICK tags : tags = More(w.tags, list, n)
      OBVIOUS
    <3>5. PICK moved \in BOOLEAN :
             moved = IF n <= Len(list) /\ list[n] = Pinned THEN upstream[p].moved ELSE w.moved
      BY <3>3 DEF Walk
    <3>6. tags \in Seq(Nat \ {0})
      <4>1. w.tags \in Seq(Nat \ {0}) /\ Len(w.tags) = n - 1 /\ n \in Nat \ {0}
        BY <3>2, <3>3, CapAssumption DEF PageOf, Walk
      <4> QED
        BY <3>3, <3>4, <4>1, PageFacts
    <3>7. walk' \subseteq Walk /\ \A v, x \in walk' : v = x
      <4>1. walk' \subseteq {[w EXCEPT !.tags = tags, !.moved = moved]}
        BY <3>1, <3>2, <3>4, <3>5 DEF PageOf, More
      <4>2. [w EXCEPT !.tags = tags, !.moved = moved] \in Walk
        BY <3>3, <3>6 DEF Walk
      <4> QED
        BY <4>1, <4>2
    <3>8. found' \subseteq Finding /\ left' \subseteq Pins
      <4>1. found' \subseteq found \cup Assess(p, tags, n >= Len(list), moved) /\ left' \subseteq left
        BY <3>1, <3>2, <3>4, <3>5 DEF PageOf, More
      <4> QED
        BY <3>6, <4>1, AssessFacts DEF TypeOK
    <3> QED
      BY <3>2, <3>7, <3>8 DEF TypeOK, PageOf
  <2>12. ASSUME NEW p \in Pins, NEW u \in Upstreams, Publish(p, u)
         PROVE  TypeOK'
    <3>1. \A w \in Walk : [w EXCEPT !.changed = TRUE] \in Walk
      BY DEF Walk
    <3>2. walk' \subseteq Walk /\ \A w, v \in walk' : w = v
      BY <2>12, <3>1 DEF TypeOK, Publish
    <3>3. upstream' \in [Pins -> Upstreams]
      BY <2>12 DEF TypeOK, Publish
    <3> QED
      BY <2>12, <3>2, <3>3 DEF TypeOK, Publish
  <2> QED
    BY <2>1, <2>2, <2>3, <2>4, <2>5, <2>6, <2>7, <2>8, <2>9, <2>10, <2>11, <2>12 DEF Next
<1> QED
  BY <1>1, <1>2, PTL DEF Spec

\* As long as a list does not change, the pages read of it are its first.
WalkInv ==
    \A w \in walk : ~w.changed =>
        LET list == upstream[w.pin].tags IN
        Len(w.tags) <= Len(list) /\ \A i \in 1..Len(w.tags) : w.tags[i] = list[i]

\* A page of a walk over a list that did not change: the walk goes on with the
\* first pages of the list, or has read all of it.
LEMMA PageReads ==
    ASSUME TypeOK, WalkInv, NEW p \in Pins, NEW n \in 1..PageCap, NEW w \in walk, PageOf(p, n, w),
           ~w.changed, NEW list, list = upstream[p].tags,
           NEW tags, tags = More(w.tags, list, n)
    PROVE  /\ list \in Seq(Nat \ {0}) /\ tags \in Seq(Nat \ {0})
           /\ n <= Len(list) => Len(tags) = n /\ \A i \in 1..n : tags[i] = list[i]
           /\ n >= Len(list) => ToSet(tags) = ToSet(list)
<1>1. w \in Walk /\ w.pin = p /\ Len(w.tags) = n - 1 /\ n \in Nat \ {0} /\ list \in Seq(Nat \ {0})
  BY UpstreamsAssumption, CapAssumption DEF TypeOK, PageOf
<1>2. w.tags \in Seq(Nat \ {0}) /\ Len(list) \in Nat
  BY <1>1 DEF Walk
<1>3. Len(w.tags) <= Len(list) /\ \A i \in 1..(n - 1) : w.tags[i] = list[i]
  BY <1>1 DEF WalkInv
<1>4. /\ tags \in Seq(Nat \ {0})
      /\ n <= Len(list) => Len(tags) = n /\ tags[n] = list[n]
      /\ n > Len(list) => tags = w.tags
      /\ \A i \in 1..(n - 1) : tags[i] = w.tags[i]
  <2> PICK s : s = w.tags
    OBVIOUS
  <2>1. s \in Seq(Nat \ {0}) /\ Len(s) = n - 1 /\ tags = More(s, list, n)
    BY <1>1, <1>2
  <2>2. /\ tags \in Seq(Nat \ {0})
        /\ n <= Len(list) => Len(tags) = n /\ tags[n] = list[n]
        /\ n > Len(list) => tags = s
        /\ \A i \in 1..Len(s) : tags[i] = s[i]
    <3>1. n \in Nat \ {0} /\ list \in Seq(Nat \ {0})
      BY <1>1
    <3>2. CASE n <= Len(list)
      <4>1. tags = Append(s, list[n]) /\ list[n] \in Nat \ {0}
        BY <2>1, <3>1, <3>2 DEF More
      <4> QED
        BY ONLY <2>1, <3>1, <3>2, <4>1
    <3>3. CASE n > Len(list)
      <4>1. tags = s
        BY <2>1, <3>1, <3>3 DEF More
      <4> QED
        BY ONLY <2>1, <3>1, <3>3, <4>1
    <3> QED
      BY <3>1, <3>2, <3>3
  <2> QED
    BY <2>1, <2>2
<1>5. ASSUME n <= Len(list) PROVE Len(tags) = n /\ \A i \in 1..n : tags[i] = list[i]
  <2>1. \A i \in 1..n : i \in 1..(n - 1) \/ i = n
    BY <1>1
  <2> QED
    BY <1>3, <1>4, <1>5, <2>1
<1>6. ASSUME n >= Len(list) PROVE ToSet(tags) = ToSet(list)
  <2>1. Len(tags) = Len(list) /\ \A i \in 1..Len(list) : tags[i] = list[i]
    <3>1. CASE n = Len(list)
      BY <1>5, <3>1
    <3>2. CASE n > Len(list)
      BY <1>1, <1>2, <1>3, <1>4, <3>2
    <3> QED
      BY <1>1, <1>2, <1>6, <3>1, <3>2
  <2>2. DOMAIN tags = 1..Len(list) /\ DOMAIN list = 1..Len(list)
    BY <1>1, <1>4, <2>1
  <2> QED
    BY <2>1, <2>2 DEF ToSet
<1> QED
  BY <1>1, <1>4, <1>5, <1>6

LEMMA WalkNext == TypeOK /\ WalkInv /\ [Next]_vars => WalkInv'
<1> SUFFICES ASSUME TypeOK, WalkInv, [Next]_vars PROVE WalkInv'
  OBVIOUS
<1>1. CASE walk' = {}
  BY <1>1 DEF WalkInv
<1>2. CASE UNCHANGED <<walk, upstream>>
  BY <1>2 DEF WalkInv
<1>3. ASSUME NEW p \in Pins, LookUp(p) PROVE WalkInv'
  BY <1>3, UpstreamsAssumption DEF LookUp, WalkInv, TypeOK
<1>4. ASSUME NEW p \in Pins, NEW n \in 1..PageCap, Page(p, n) PROVE WalkInv'
  <2>1. PICK w \in walk : PageOf(p, n, w)
    BY <1>4, PageOfWalk
  <2>2. PICK list, tags : list = upstream[p].tags /\ tags = More(w.tags, list, n)
    OBVIOUS
  <2>3. UNCHANGED upstream
    BY <2>1 DEF PageOf
  <2>4. CASE w.changed
    <3>1. \A v \in walk' : v.changed
      BY <2>1, <2>4 DEF PageOf, TypeOK, Walk
    <3> QED
      BY <3>1 DEF WalkInv
  <2>5. CASE ~w.changed /\ walk' # {}
    <3>1. /\ n < Len(list)
          /\ \A v \in walk' : v.pin = p /\ v.tags = tags
      <4>1. w \in Walk /\ w.pin = p
        BY <2>1 DEF TypeOK, PageOf
      <4>2. n < Len(list) /\ \E m : walk' = {[w EXCEPT !.tags = tags, !.moved = m]}
        BY <2>1, <2>2, <2>5 DEF PageOf, More
      <4> QED
        BY <4>1, <4>2 DEF Walk
    <3>2. /\ list \in Seq(Nat \ {0})
          /\ n <= Len(list) => Len(tags) = n /\ \A i \in 1..n : tags[i] = list[i]
      BY <2>1, <2>2, <2>5, PageReads
    <3>3. n <= Len(list)
      BY <3>1, <3>2, CapAssumption
    <3> QED
      BY <2>2, <2>3, <3>1, <3>2, <3>3 DEF WalkInv
  <2> QED
    BY <1>1, <2>4, <2>5
<1>5. ASSUME NEW p \in Pins, NEW u \in Upstreams, Publish(p, u) PROVE WalkInv'
  <2> SUFFICES ASSUME NEW v \in walk', ~v.changed
               PROVE  LET list == upstream'[v.pin].tags IN
                      Len(v.tags) <= Len(list) /\ \A i \in 1..Len(v.tags) : v.tags[i] = list[i]
    BY DEF WalkInv
  <2>1. PICK w \in walk : v = IF w.pin = p /\ w.tags # <<>> THEN [w EXCEPT !.changed = TRUE] ELSE w
    BY <1>5 DEF Publish
  <2>2. w \in Walk
    BY DEF TypeOK
  <2>3. v = w /\ ~(w.pin = p /\ w.tags # <<>>)
    BY <2>1, <2>2 DEF Walk
  <2>4. CASE w.tags = <<>>
    <3>1. upstream' \in [Pins -> Upstreams]
      BY <1>5 DEF TypeOK, Publish
    <3>2. upstream'[w.pin].tags \in Seq(Nat \ {0})
      BY <2>2, <3>1, UpstreamsAssumption DEF Walk
    <3> QED
      BY <2>3, <2>4, <3>2
  <2>5. CASE w.pin # p
    <3>1. upstream'[w.pin] = upstream[w.pin]
      BY <1>5, <2>2, <2>5 DEF Publish, TypeOK, Walk
    <3> QED
      BY <2>3, <3>1 DEF WalkInv
  <2> QED
    BY <2>3, <2>4, <2>5
<1> QED
  BY <1>1, <1>2, <1>3, <1>4, <1>5
     DEF Next, vars, check, Start, Report, Silent, Clear, Send, SendFails, Stop, LookUpFails, EndCheck

\* A pin is called gone only if its repository does not list it, however many
\* pages the walk has read, or if the list changed meanwhile (tags, assess).
THEOREM GoneIsSo == Spec => GoneIsGone
<1> DEFINE Says == \A f \in found' \ found : f.what = Gone =>
                       \/ Pinned \notin ToSet(upstream[f.pin].tags)
                       \/ \E w \in walk : w.pin = f.pin /\ w.changed
<1>1. ASSUME TypeOK, WalkInv, [Next]_vars PROVE Says
  <2>1. ASSUME NEW p \in Pins, NEW n \in 1..PageCap, Page(p, n)
        PROVE  Says
    <3>1. PICK w \in walk : PageOf(p, n, w)
      BY <2>1, PageOfWalk
    <3>2. PICK list, tags : list = upstream[p].tags /\ tags = More(w.tags, list, n)
      OBVIOUS
    <3>3. CASE w.changed
      <4>1. \A f \in found' \ found : f.pin = p
        <5>1. w \in Walk /\ list \in Seq(Nat \ {0}) /\ Len(w.tags) = n - 1 /\ n \in Nat \ {0}
          BY <1>1, <3>1, <3>2, UpstreamsAssumption, CapAssumption DEF TypeOK, PageOf
        <5>2. tags \in Seq(Nat \ {0})
          BY <3>2, <5>1, PageFacts DEF Walk
        <5>3. \E moved : found' \subseteq found \cup Assess(p, tags, n >= Len(list), moved)
          BY <3>1, <3>2 DEF PageOf, More
        <5> QED
          BY <5>2, <5>3, AssessFacts
      <4> QED
        BY <3>1, <3>3, <4>1 DEF PageOf
    <3>4. CASE ~w.changed
      <4>1. /\ tags \in Seq(Nat \ {0})
            /\ n >= Len(list) => ToSet(tags) = ToSet(list)
        BY <1>1, <3>1, <3>2, <3>4, PageReads
      <4>2. \E moved : found' \subseteq found \cup Assess(p, tags, n >= Len(list), moved)
        BY <3>1, <3>2 DEF PageOf, More
      <4>3. PICK moved : found' \subseteq found \cup Assess(p, tags, n >= Len(list), moved)
        BY <4>2
      <4>4. \A f \in Assess(p, tags, n >= Len(list), moved) :
                f.pin = p /\ (f.what = Gone => n >= Len(list) /\ Pinned \notin ToSet(tags))
        <5> PICK all \in BOOLEAN : all <=> n >= Len(list)
          OBVIOUS
        <5>1. Assess(p, tags, n >= Len(list), moved) = Assess(p, tags, all, moved)
          BY Zenon DEF Assess
        <5>2. \A f \in Assess(p, tags, all, moved) :
                f.pin = p /\ (f.what = Gone => all /\ Pinned \notin ToSet(tags))
          BY <4>1, AssessFacts
        <5> QED
          BY <5>1, <5>2
      <4> QED
        BY <3>2, <4>1, <4>3, <4>4
    <3> QED
      BY <3>3, <3>4
  <2>2. CASE ~\E p \in Pins, n \in 1..PageCap : Page(p, n)
    <3>1. found' \subseteq found
      BY <1>1, <2>2 DEF Next, vars, check, Start, Report, Silent, Clear, Send, SendFails, Stop, LookUp,
                        LookUpFails, Publish, EndCheck
    <3> QED
      BY <3>1
  <2> QED
    BY <2>1, <2>2
<1>2. Init => WalkInv
  BY DEF Init, NoCheck, WalkInv
<1>3. TypeOK /\ WalkInv /\ [Next]_vars => WalkInv'
  BY WalkNext
<1>4. TypeOK /\ WalkInv /\ [Next]_vars => Says
  BY <1>1
<1> QED
  BY <1>2, <1>3, <1>4, TypeCorrect, PTL DEF Spec, GoneIsGone

=============================================================================
