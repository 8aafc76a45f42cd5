-------------------------- MODULE SharedListsProofs --------------------------
(***************************************************************************)
(* Proofs about SharedLists, for any household, grants, names, items and   *)
(* limits: a text is open at most once on a list, a step changes one list  *)
(* by all of what it says, the limits hold, and nobody can tell whether a  *)
(* list that they may not read exists.                                     *)
(***************************************************************************)
EXTENDS SharedLists, FiniteSetTheorems, TLAPS

-----------------------------------------------------------------------------
(* What a confirmed change does                                            *)

OwnPlace(a, ch) == [owner |-> a, name |-> ch.name]
HomePlace(ch)   == [owner |-> Household, name |-> ch.name]
Target(a, ch)   == IF ch.private THEN OwnPlace(a, ch) ELSE HomePlace(ch)

\* The right that a list asks for, and who holds it.
MayWriteTo(a, p) ==
    \/ p.owner = a /\ "own" \in Writes[a]
    \/ p.owner = Household /\ "shared" \in Writes[a]

Seen(a, private) == {p \in DOMAIN lists : Visible(a, p, private, TRUE)}

Shares(a, ch) ==
    LET own == OwnPlace(a, ch)
        home == HomePlace(ch)
    IN  /\ ch.share /\ own \in DOMAIN lists /\ home \notin DOMAIN lists
        /\ "own" \in Writes[a] /\ "shared" \in Writes[a]
        /\ Cardinality({p \in DOMAIN lists : p.owner = Household}) < MaxLists
        /\ lists' = [q \in (DOMAIN lists \ {own}) \cup {home} |->
                        IF q = home THEN lists[own] ELSE lists[q]]

Creates(a, ch) ==
    LET to == Target(a, ch) IN
    /\ ~ch.share /\ to \notin DOMAIN lists /\ MayWriteTo(a, to)
    /\ ch.done = {} /\ ch.remove = {}
    /\ Cardinality(Seen(a, ch.private)) < MaxLists
    /\ lists' = [q \in DOMAIN lists \cup {to} |-> IF q = to THEN Changed(Empty, ch) ELSE lists[q]]

Edits(a, ch) ==
    LET to == Target(a, ch) IN
    /\ ~ch.share /\ to \in DOMAIN lists /\ MayWriteTo(a, to)
    /\ Applies(lists[to], ch)
    /\ to \in Seen(a, ch.private) => WithinOpen(lists[to], ch)
    /\ lists' = [q \in DOMAIN lists |-> IF q = to THEN Changed(lists[to], ch) ELSE lists[q]]

LEMMA ChangeFacts ==
    ASSUME NEW ch \in ListChange
    PROVE  /\ ch.name \in Names /\ ch.private \in BOOLEAN /\ ch.share \in BOOLEAN
           /\ ch.add \subseteq Items /\ ch.done \subseteq Items /\ ch.remove \subseteq Items
           /\ ~(ch.private /\ ch.share)
           /\ ch.add \cap ch.done = {} /\ ch.add \cap ch.remove = {} /\ ch.done \cap ch.remove = {}
           /\ Cardinality(ch.add \cup ch.done \cup ch.remove) <= MaxItems
BY DEF ListChange

LEMMA PlaceFacts ==
    ASSUME NEW a \in Agents, NEW ch \in ListChange
    PROVE  /\ OwnPlace(a, ch) \in Place /\ HomePlace(ch) \in Place /\ Target(a, ch) \in Place
           /\ OwnPlace(a, ch) # HomePlace(ch)
           /\ OwnPlace(a, ch).owner = a /\ HomePlace(ch).owner = Household
           /\ OwnPlace(a, ch).name = ch.name /\ HomePlace(ch).name = ch.name
           /\ \A p \in Place : p.owner = a /\ p.name = ch.name => p = OwnPlace(a, ch)
           /\ \A p \in Place : p.owner = Household /\ p.name = ch.name => p = HomePlace(ch)
<1>1. ch.name \in Names /\ a # Household
  BY ChangeFacts, AgentsAssumption
<1>2. OwnPlace(a, ch) \in Place /\ HomePlace(ch) \in Place
  BY <1>1 DEF OwnPlace, HomePlace, Place, Owners
<1>3. /\ OwnPlace(a, ch).owner = a /\ HomePlace(ch).owner = Household
      /\ OwnPlace(a, ch).name = ch.name /\ HomePlace(ch).name = ch.name
  BY DEF OwnPlace, HomePlace
<1>4. \A p, q \in Place : p.owner = q.owner /\ p.name = q.name => p = q
  BY DEF Place
<1> QED BY <1>1, <1>2, <1>3, <1>4 DEF Target

\* Who a named lookup shows.
LEMMA SeenFacts ==
    ASSUME TypeOK, NEW a \in Agents, NEW private \in BOOLEAN
    PROVE  \A p : p \in Seen(a, private) <=>
             /\ p \in DOMAIN lists
             /\ \/ private /\ p.owner = a /\ "own" \in Reads[a]
                \/ ~private /\ p.owner = Household /\ "shared" \in Reads[a]
BY DEF Seen, Visible

LEMMA FoundFacts ==
    ASSUME TypeOK, NEW a \in Agents, NEW ch \in ListChange
    PROVE  /\ FindList(lists, ch.name, a) =
                IF OwnPlace(a, ch) \in DOMAIN lists THEN {OwnPlace(a, ch)} ELSE {}
           /\ FindList(lists, ch.name, Household) =
                IF HomePlace(ch) \in DOMAIN lists THEN {HomePlace(ch)} ELSE {}
<1>1. DOMAIN lists \subseteq Place
  BY DEF TypeOK
<1>2. ASSUME NEW p \in FindList(lists, ch.name, a) PROVE p = OwnPlace(a, ch) /\ p \in DOMAIN lists
  BY <1>1, <1>2, PlaceFacts DEF FindList
<1>3. ASSUME NEW p \in FindList(lists, ch.name, Household) PROVE p = HomePlace(ch) /\ p \in DOMAIN lists
  BY <1>1, <1>3, PlaceFacts DEF FindList
<1>4. OwnPlace(a, ch) \in DOMAIN lists => OwnPlace(a, ch) \in FindList(lists, ch.name, a)
  BY PlaceFacts DEF FindList
<1>5. HomePlace(ch) \in DOMAIN lists => HomePlace(ch) \in FindList(lists, ch.name, Household)
  BY PlaceFacts DEF FindList
<1> QED BY <1>2, <1>3, <1>4, <1>5

LEMMA SharesStep ==
    ASSUME TypeOK, NEW a \in Agents, NEW ch \in ListChange, Apply(a, ch), ch.share
    PROVE  Shares(a, ch)
<1> DEFINE own == OwnPlace(a, ch)
           home == HomePlace(ch)
<1>1. MayWrite(a, ch) /\ Accepts(a, ch, lists) /\ lists' \in ApplyShared(a, ch, lists)
  BY DEF Apply, Result
<1>2. /\ "own" \in Writes[a] /\ "shared" \in Writes[a]
      /\ Cardinality({p \in DOMAIN lists : p.owner = Household}) < MaxLists
  BY <1>1 DEF MayWrite, Accepts
<1>3. lists' \in SharePrivateList(a, ch, lists)
  BY <1>1 DEF ApplyShared
<1>4. PICK p \in FindList(lists, ch.name, a) :
        /\ FindList(lists, ch.name, Household) = {}
        /\ lists' = Put(Restrict(lists, DOMAIN lists \ {p}), home, lists[p])
  BY <1>3 DEF SharePrivateList, HomePlace
<1>5. p = own /\ own \in DOMAIN lists /\ home \notin DOMAIN lists
  BY <1>4, FoundFacts
<1> HIDE DEF own, home
<1>6. lists' = [q \in (DOMAIN lists \ {own}) \cup {home} |->
                        IF q = home THEN lists[own] ELSE lists[q]]
  <2>1. DOMAIN Restrict(lists, DOMAIN lists \ {own}) = DOMAIN lists \ {own}
    BY DEF Restrict
  <2>2. \A q \in DOMAIN lists \ {own} : Restrict(lists, DOMAIN lists \ {own})[q] = lists[q]
    BY DEF Restrict
  <2> QED BY <1>4, <1>5, <2>1, <2>2 DEF Put
<1> QED BY <1>2, <1>5, <1>6 DEF Shares, own, home

LEMMA ChangesStep ==
    ASSUME TypeOK, NEW a \in Agents, NEW ch \in ListChange, Apply(a, ch), ~ch.share
    PROVE  Creates(a, ch) \/ Edits(a, ch)
<1> DEFINE to == Target(a, ch)
           owner == IF ch.private THEN a ELSE Household
           found == FindList(lists, ch.name, owner)
           current == {p \in Seen(a, ch.private) : p.name = ch.name}
<1>1. MayWrite(a, ch) /\ Accepts(a, ch, lists) /\ lists' \in ApplyShared(a, ch, lists)
  BY DEF Apply, Result
<1>2. MayWriteTo(a, to)
  BY <1>1, PlaceFacts, ChangeFacts DEF MayWrite, MayWriteTo, Target
<1>3. found = IF to \in DOMAIN lists THEN {to} ELSE {}
  BY FoundFacts, ChangeFacts DEF Target
<1>4. to.name = ch.name
  BY PlaceFacts DEF Target
<1>5. ch.private \/ ch.share <=> ch.private
  BY ChangeFacts
<1>6. /\ current = {} => Cardinality(Seen(a, ch.private)) < MaxLists
      /\ current # {} => \A p \in current : WithinOpen(lists[p], ch)
  <2> DEFINE seen == {p \in DOMAIN lists : Visible(a, p, ch.private \/ ch.share, TRUE)}
             named == {p \in seen : p.name = ch.name}
  <2>1. seen = Seen(a, ch.private)
    BY <1>5 DEF Seen, Visible
  <2>2. named = {} => Cardinality(seen) < MaxLists
    BY <1>1 DEF Accepts
  <2>3. named # {} => \A p \in named : WithinOpen(lists[p], ch)
    BY <1>1 DEF Accepts
  <2> HIDE DEF seen
  <2> QED BY <2>1, <2>2, <2>3
<1>7. \A p \in current : p \in DOMAIN lists /\ p = to
  <2> SUFFICES ASSUME NEW p \in current PROVE p \in DOMAIN lists /\ p = to
    OBVIOUS
  <2>1. p \in Seen(a, ch.private) /\ p.name = ch.name
    OBVIOUS
  <2>2. /\ p \in DOMAIN lists /\ p \in Place
        /\ \/ ch.private /\ p.owner = a
           \/ ~ch.private /\ p.owner = Household
    BY <2>1, SeenFacts, ChangeFacts DEF TypeOK
  <2> QED BY <2>1, <2>2, PlaceFacts DEF Target
<1>8. CASE to \notin DOMAIN lists
  <2>1. found = {} /\ current = {}
    BY <1>3, <1>7, <1>8
  <2>2. /\ ch.done = {} /\ ch.remove = {}
        /\ lists' = Put(lists, [owner |-> owner, name |-> ch.name], Changed(Empty, ch))
    BY <1>1, <2>1 DEF ApplyShared
  <2>3. [owner |-> owner, name |-> ch.name] = to
    BY DEF Target, OwnPlace, HomePlace
  <2> HIDE DEF to
  <2>4. lists' = [q \in DOMAIN lists \cup {to} |-> IF q = to THEN Changed(Empty, ch) ELSE lists[q]]
    BY <2>2, <2>3 DEF Put
  <2> QED BY <1>2, <1>6, <1>8, <2>1, <2>2, <2>4 DEF Creates, to
<1>9. CASE to \in DOMAIN lists
  <2>1. found = {to}
    BY <1>3, <1>9
  <2> HIDE DEF to
  <2>2. Applies(lists[to], ch) /\ lists' = Put(lists, to, Changed(lists[to], ch))
    BY <1>1, <2>1 DEF ApplyShared
  <2>3. to \in Seen(a, ch.private) => WithinOpen(lists[to], ch)
    BY <1>4, <1>6
  <2>4. lists' = [q \in DOMAIN lists |-> IF q = to THEN Changed(lists[to], ch) ELSE lists[q]]
    <3>1. DOMAIN lists \cup {to} = DOMAIN lists
      BY <1>9
    <3> QED BY <2>2, <3>1 DEF Put
  <2> QED BY <1>2, <1>9, <2>2, <2>3, <2>4 DEF Edits, to
<1> QED BY <1>8, <1>9

-----------------------------------------------------------------------------
(* Rows                                                                    *)

Single(items) == items \in [Items -> Rows] /\ \A i \in Items : items[i].open <= 1

LEMMA EmptySingle == Single(Empty) /\ Open(Empty) = {}
BY DEF Single, Empty, Rows, Open

\* What a change makes of the rows of each text.
LEMMA ChangedFacts ==
    ASSUME NEW items, Single(items), NEW ch \in ListChange,
           \A i \in ch.done : items[i].open > 0,
           \A i \in ch.add : items[i].open = 0
    PROVE  Single(Changed(items, ch)) /\ AppliedWhole(items, Changed(items, ch), ch)
<1>1. /\ ch.add \subseteq Items /\ ch.done \subseteq Items /\ ch.remove \subseteq Items
      /\ ch.add \cap ch.done = {} /\ ch.add \cap ch.remove = {} /\ ch.done \cap ch.remove = {}
  BY ChangeFacts
<1>2. ASSUME NEW i \in Items
      PROVE  /\ Changed(items, ch)[i] \in Rows /\ Changed(items, ch)[i].open <= 1
             /\ Changed(items, ch)[i].open = IF i \in ch.add THEN 1
                     ELSE IF i \in ch.done \cup ch.remove THEN 0 ELSE items[i].open
             /\ i \notin ch.remove => Changed(items, ch)[i].open + Changed(items, ch)[i].done
                     = items[i].open + items[i].done + (IF i \in ch.add THEN 1 ELSE 0)
             /\ i \in ch.remove => Changed(items, ch)[i].done = 0
  <2> DEFINE was == items[i]
  <2>1. was \in Rows /\ was.open \in Nat /\ was.done \in Nat /\ was.open <= 1
    BY DEF Single, Rows
  <2>2. CASE i \in ch.remove
    <3>0. i \notin ch.done /\ i \notin ch.add
      BY <1>1, <2>2
    <3>1. Changed(items, ch)[i] = [open |-> 0, done |-> 0]
      BY <2>2, <3>0 DEF Changed
    <3> QED BY <1>1, <2>2, <3>1 DEF Rows
  <2>3. CASE i \in ch.done
    <3>1. was.open = 1 /\ i \notin ch.remove /\ i \notin ch.add
      BY <1>1, <2>1, <2>3
    <3>2. Changed(items, ch)[i] = [open |-> was.open - 1, done |-> was.done + 1]
      BY <2>3, <3>1 DEF Changed
    <3> HIDE DEF was
    <3>3. Changed(items, ch)[i] = [open |-> 0, done |-> was.done + 1]
      BY <3>1, <3>2
    <3> QED BY <2>1, <2>3, <3>1, <3>3 DEF Rows, was
  <2>4. CASE i \in ch.add
    <3>1. was.open = 0 /\ i \notin ch.remove /\ i \notin ch.done
      BY <1>1, <2>4
    <3>2. Changed(items, ch)[i] = [was EXCEPT !.open = @ + 1]
      BY <2>4, <3>1 DEF Changed
    <3> HIDE DEF was
    <3>3. Changed(items, ch)[i] = [open |-> 1, done |-> was.done]
      BY <2>1, <3>1, <3>2 DEF Rows
    <3> QED BY <2>1, <2>4, <3>1, <3>3 DEF Rows, was
  <2>5. CASE i \notin ch.add /\ i \notin ch.done /\ i \notin ch.remove
    <3>1. Changed(items, ch)[i] = was
      BY <2>5 DEF Changed
    <3> QED BY <2>1, <2>5, <3>1
  <2> QED BY <2>2, <2>3, <2>4, <2>5
<1>3. Changed(items, ch) \in [Items -> Rows]
  <2>1. Changed(items, ch) = [i \in Items |-> Changed(items, ch)[i]]
    BY DEF Changed
  <2> QED BY <1>2, <2>1
<1> QED BY <1>2, <1>3 DEF Single, AppliedWhole

-----------------------------------------------------------------------------
(* One list, all of the change                                             *)

SinglesInv == TypeOK /\ \A p \in DOMAIN lists : Single(lists[p])

LEMMA StepKinds ==
    ASSUME TypeOK, Next
    PROVE  \E a \in Agents, ch \in ListChange : Shares(a, ch) \/ Creates(a, ch) \/ Edits(a, ch)
BY SharesStep, ChangesStep DEF Next

LEMMA CreatedRows ==
    ASSUME NEW a \in Agents, NEW ch \in ListChange, Creates(a, ch)
    PROVE  Single(Changed(Empty, ch)) /\ AppliedWhole(Empty, Changed(Empty, ch), ch)
<1>1. ch.done = {} /\ ch.add \subseteq Items
  BY ChangeFacts DEF Creates
<1>2. \A i \in ch.add : Empty[i].open = 0
  BY <1>1 DEF Empty
<1> QED BY <1>1, <1>2, EmptySingle, ChangedFacts

LEMMA EditedRows ==
    ASSUME SinglesInv, NEW a \in Agents, NEW ch \in ListChange, Edits(a, ch)
    PROVE  LET to == Target(a, ch) IN
           Single(Changed(lists[to], ch)) /\ AppliedWhole(lists[to], Changed(lists[to], ch), ch)
<1>1. PICK to : to = Target(a, ch)
  OBVIOUS
<1>2. to \in DOMAIN lists /\ Applies(lists[to], ch)
  BY <1>1 DEF Edits
<1>3. Single(lists[to])
  BY <1>2 DEF SinglesInv
<1>4. /\ \A i \in ch.done : lists[to][i].open > 0
      /\ \A i \in ch.add : lists[to][i].open = 0
  BY <1>2 DEF Applies
<1> QED BY <1>1, <1>3, <1>4, ChangedFacts

LEMMA SinglesInit == ASSUME Init PROVE SinglesInv
BY DEF Init, SinglesInv, TypeOK

\* A table whose lists are all in place, with single rows.
LEMMA Tables ==
    ASSUME DOMAIN lists' \subseteq Place, lists' = [p \in DOMAIN lists' |-> lists'[p]],
           \A p \in DOMAIN lists' : Single(lists'[p])
    PROVE  SinglesInv'
<1>1. \A p \in DOMAIN lists' : lists'[p] \in [Items -> Rows]
  BY DEF Single
<1> QED BY <1>1 DEF SinglesInv, TypeOK

LEMMA SinglesStep == ASSUME SinglesInv, [Next]_lists PROVE SinglesInv'
<1>1. CASE UNCHANGED lists
  BY <1>1 DEF SinglesInv, TypeOK
<1>2. CASE Next
  <2>0. TypeOK /\ DOMAIN lists \subseteq Place
    BY DEF SinglesInv, TypeOK
  <2>1. PICK a \in Agents, ch \in ListChange : Shares(a, ch) \/ Creates(a, ch) \/ Edits(a, ch)
    BY <1>2, <2>0, StepKinds
  <2>2. PICK own, home, to : own = OwnPlace(a, ch) /\ home = HomePlace(ch) /\ to = Target(a, ch)
    OBVIOUS
  <2>3. own \in Place /\ home \in Place /\ to \in Place
    BY <2>2, PlaceFacts
  <2>4. CASE Shares(a, ch)
    <3>1. /\ own \in DOMAIN lists
          /\ lists' = [q \in (DOMAIN lists \ {own}) \cup {home} |->
                         IF q = home THEN lists[own] ELSE lists[q]]
      BY <2>2, <2>4 DEF Shares
    <3>2. \A p \in DOMAIN lists : Single(lists[p])
      BY DEF SinglesInv
    <3>3. \A p \in DOMAIN lists' : Single(lists'[p])
      BY <3>1, <3>2
    <3> QED BY <2>0, <2>3, <3>1, <3>3, Tables
  <2>5. CASE Creates(a, ch)
    <3>1. lists' = [q \in DOMAIN lists \cup {to} |-> IF q = to THEN Changed(Empty, ch) ELSE lists[q]]
      BY <2>2, <2>5 DEF Creates
    <3>2. \A p \in DOMAIN lists : Single(lists[p])
      BY DEF SinglesInv
    <3>3. Single(Changed(Empty, ch))
      BY <2>5, CreatedRows
    <3>4. \A p \in DOMAIN lists' : Single(lists'[p])
      BY <3>1, <3>2, <3>3
    <3> QED BY <2>0, <2>3, <3>1, <3>4, Tables
  <2>6. CASE Edits(a, ch)
    <3>1. lists' = [q \in DOMAIN lists |-> IF q = to THEN Changed(lists[to], ch) ELSE lists[q]]
      BY <2>2, <2>6 DEF Edits
    <3>2. \A p \in DOMAIN lists : Single(lists[p])
      BY DEF SinglesInv
    <3>3. Single(Changed(lists[to], ch))
      BY <2>2, <2>6, EditedRows
    <3>4. \A p \in DOMAIN lists' : Single(lists'[p])
      BY <3>1, <3>2, <3>3
    <3> QED BY <2>0, <3>1, <3>4, Tables
  <2> QED BY <2>1, <2>4, <2>5, <2>6
<1> QED BY <1>1, <1>2

THEOREM Singles == Spec => []SinglesInv
<1>1. Init => SinglesInv
  BY SinglesInit
<1>2. SinglesInv /\ [Next]_lists => SinglesInv'
  BY SinglesStep
<1> QED BY <1>1, <1>2, PTL DEF Spec

\* A text is open at most once on a list, whatever changes are confirmed.
THEOREM OpenOnce == Spec => []OneOpenRow
<1>1. SinglesInv => OneOpenRow
  BY DEF SinglesInv, Single, OneOpenRow
<1> QED BY <1>1, Singles, PTL

LEMMA ChangesOne ==
    ASSUME SinglesInv, [Next]_lists
    PROVE  [ChangesOneList]_lists
<1>1. CASE UNCHANGED lists
  BY <1>1
<1>2. CASE Next
  <2>0. TypeOK
    BY DEF SinglesInv
  <2>1. PICK a \in Agents, ch \in ListChange : Shares(a, ch) \/ Creates(a, ch) \/ Edits(a, ch)
    BY <1>2, <2>0, StepKinds
  <2>2. PICK own, home, to :
          /\ own = [owner |-> a, name |-> ch.name] /\ home = [owner |-> Household, name |-> ch.name]
          /\ to = IF ch.private THEN own ELSE home
    OBVIOUS
  <2>3. /\ own = OwnPlace(a, ch) /\ home = HomePlace(ch) /\ to = Target(a, ch)
        /\ own # home /\ own.owner = a /\ home.owner = Household /\ a # Household
    BY <2>2, PlaceFacts, AgentsAssumption DEF OwnPlace, HomePlace, Target
  <2> DEFINE Others == IF ch.share THEN {own, home} ELSE {to}
             Rights == /\ to = own \/ ch.share => "own" \in Writes[a]
                       /\ to = home => "shared" \in Writes[a]
             Stay == \A p \in (DOMAIN lists \cup DOMAIN lists') \ Others :
                        p \in DOMAIN lists \cap DOMAIN lists' /\ lists'[p] = lists[p]
             Shared == ch.share =>
                        /\ own \in DOMAIN lists \ DOMAIN lists'
                        /\ home \in DOMAIN lists' \ DOMAIN lists
                        /\ lists'[home] = lists[own]
             Whole == ~ch.share =>
                        /\ to \in DOMAIN lists'
                        /\ AppliedWhole(IF to \in DOMAIN lists THEN lists[to] ELSE Empty, lists'[to], ch)
  <2>4. ASSUME Shares(a, ch) PROVE Rights /\ Stay /\ Shared /\ Whole
    <3>1. /\ ch.share /\ own \in DOMAIN lists /\ home \notin DOMAIN lists
          /\ "own" \in Writes[a] /\ "shared" \in Writes[a]
          /\ lists' = [q \in (DOMAIN lists \ {own}) \cup {home} |->
                         IF q = home THEN lists[own] ELSE lists[q]]
      BY <2>3, <2>4 DEF Shares
    <3>2. Rights
      BY <3>1
    <3>3. Stay
      BY <3>1
    <3>4. Shared
      BY <2>3, <3>1
    <3>5. Whole
      BY <3>1
    <3> QED BY <3>2, <3>3, <3>4, <3>5
  <2>5. ASSUME Creates(a, ch) PROVE Rights /\ Stay /\ Shared /\ Whole
    <3>1. /\ ~ch.share /\ to \notin DOMAIN lists /\ MayWriteTo(a, to)
          /\ lists' = [q \in DOMAIN lists \cup {to} |-> IF q = to THEN Changed(Empty, ch) ELSE lists[q]]
      BY <2>3, <2>5 DEF Creates
    <3>2. Rights
      BY <2>3, <3>1 DEF MayWriteTo
    <3>3. Stay
      BY <3>1
    <3>4. Shared
      BY <3>1
    <3>5. lists'[to] = Changed(Empty, ch) /\ to \in DOMAIN lists'
      BY <3>1
    <3>6. AppliedWhole(Empty, Changed(Empty, ch), ch)
      BY <2>5, CreatedRows
    <3>7. Whole
      BY <3>1, <3>5, <3>6
    <3> QED BY <3>2, <3>3, <3>4, <3>7
  <2>6. ASSUME Edits(a, ch) PROVE Rights /\ Stay /\ Shared /\ Whole
    <3>1. /\ ~ch.share /\ to \in DOMAIN lists /\ MayWriteTo(a, to)
          /\ lists' = [q \in DOMAIN lists |-> IF q = to THEN Changed(lists[to], ch) ELSE lists[q]]
      BY <2>3, <2>6 DEF Edits
    <3>2. Rights
      BY <2>3, <3>1 DEF MayWriteTo
    <3>3. Stay
      BY <3>1
    <3>4. Shared
      BY <3>1
    <3>5. lists'[to] = Changed(lists[to], ch) /\ to \in DOMAIN lists'
      BY <3>1
    <3>6. AppliedWhole(lists[to], Changed(lists[to], ch), ch)
      BY <2>3, <2>6, EditedRows
    <3>7. Whole
      BY <3>1, <3>5, <3>6
    <3> QED BY <3>2, <3>3, <3>4, <3>7
  <2>7. Rights /\ Stay /\ Shared /\ Whole
    BY <2>1, <2>4, <2>5, <2>6
  <2>8. ChangesOneList
    BY <2>2, <2>7 DEF ChangesOneList
  <2> QED BY <2>8
<1> QED BY <1>1, <1>2

\* A step changes one list by all of what the change says, where its author may write.
THEOREM ChangesWhole == Spec => OneListWhole
<1>1. SinglesInv /\ [Next]_lists => [ChangesOneList]_lists
  BY ChangesOne
<1> QED BY <1>1, Singles, PTL DEF Spec, OneListWhole

-----------------------------------------------------------------------------
(* Limits                                                                  *)

AllSighted(owner) == Sighted(owner) /\ (owner = Household => \A a \in Agents : Sighted(a))

ScopesSmall == \A owner \in Owners : Sighted(owner) => Cardinality(Scope(owner)) <= MaxLists
ListsShort == \A p \in DOMAIN lists : AllSighted(p.owner) => Cardinality(Open(lists[p])) <= MaxOpen

LimitsInv == IsFiniteSet(DOMAIN lists) /\ ScopesSmall /\ ListsShort

LEMMA OpenFinite ==
    ASSUME NEW items
    PROVE  IsFiniteSet(Open(items)) /\ Cardinality(Open(items)) \in Nat
BY FiniteAssumption, FS_Subset, FS_CardinalityType DEF Open

\* What a change leaves open.
LEMMA OpenChanged ==
    ASSUME NEW before, NEW after, NEW ch \in ListChange, AppliedWhole(before, after, ch)
    PROVE  Open(after) = (Open(before) \ (ch.done \cup ch.remove)) \cup ch.add
<1>1. /\ ch.add \subseteq Items
      /\ ch.add \cap ch.done = {} /\ ch.add \cap ch.remove = {}
  BY ChangeFacts
<1>2. \A i \in Items : after[i].open = IF i \in ch.add THEN 1
                            ELSE IF i \in ch.done \cup ch.remove THEN 0 ELSE before[i].open
  BY DEF AppliedWhole
<1>3. \A i \in Items : i \in Open(after) <=>
          i \in ch.add \/ (i \notin ch.done \cup ch.remove /\ i \in Open(before))
  BY <1>1, <1>2 DEF Open
<1>4. Open(after) \subseteq Items /\ Open(before) \subseteq Items
  BY DEF Open
<1> QED BY <1>1, <1>3, <1>4

LEMMA AddedFew ==
    ASSUME NEW ch \in ListChange
    PROVE  IsFiniteSet(ch.add) /\ Cardinality(ch.add) \in Nat /\ Cardinality(ch.add) <= MaxOpen
<1> DEFINE all == ch.add \cup ch.done \cup ch.remove
<1>1. all \subseteq Items /\ Cardinality(all) <= MaxItems
  BY ChangeFacts
<1>2. IsFiniteSet(all)
  BY <1>1, FiniteAssumption, FS_Subset
<1>3. IsFiniteSet(ch.add) /\ Cardinality(ch.add) <= Cardinality(all)
  BY <1>2, FS_Subset
<1>4. Cardinality(ch.add) \in Nat /\ Cardinality(all) \in Nat
  BY <1>2, <1>3, FS_CardinalityType
<1> QED BY <1>1, <1>3, <1>4, LimitsAssumption

LEMMA OpenWithin ==
    ASSUME NEW before, NEW after, NEW ch \in ListChange,
           AppliedWhole(before, after, ch), WithinOpen(before, ch)
    PROVE  Cardinality(Open(after)) <= MaxOpen
<1> DEFINE open == Open(before)
           closed == ch.done \cup ch.remove
           kept == open \ closed
<1>1. Open(after) = kept \cup ch.add
  BY OpenChanged
<1>2. IsFiniteSet(open) /\ IsFiniteSet(ch.add)
  BY OpenFinite, AddedFew
<1>3. IsFiniteSet(kept) /\ Cardinality(kept) = Cardinality(open) - Cardinality(open \cap closed)
  BY <1>2, FS_Difference
<1>4. Cardinality(kept \cup ch.add) = Cardinality(kept) + Cardinality(ch.add) - Cardinality(kept \cap ch.add)
  BY <1>2, <1>3, FS_Union
<1>5. Cardinality(kept \cap ch.add) \in Nat /\ Cardinality(kept) \in Nat /\ Cardinality(ch.add) \in Nat
  BY <1>2, <1>3, FS_Subset, FS_CardinalityType
<1>6. (Cardinality(open) - Cardinality(open \cap closed)) + Cardinality(ch.add) <= MaxOpen
  BY DEF WithinOpen
<1> QED BY <1>1, <1>3, <1>4, <1>5, <1>6, LimitsAssumption

\* Who writes to a list whose writers can all read it sees the lists beside it.
LEMMA SightedSees ==
    ASSUME TypeOK, NEW a \in Agents, NEW ch \in ListChange,
           MayWriteTo(a, Target(a, ch)), Sighted(Target(a, ch).owner)
    PROVE  Seen(a, ch.private) = Scope(Target(a, ch).owner)
<1>1. PICK owner : owner = Target(a, ch).owner
  OBVIOUS
<1>2. ch.private \in BOOLEAN /\ a # Household
  BY ChangeFacts, AgentsAssumption
<1>3. owner = IF ch.private THEN a ELSE Household
  BY <1>1, PlaceFacts DEF Target
<1>4. Grant(owner) \in Writes[a]
  BY <1>1, <1>2, <1>3 DEF MayWriteTo, Grant
<1>5. a \in Writers(owner)
  BY <1>3, <1>4 DEF Writers
<1>6. Grant(owner) \in Reads[a]
  BY <1>1, <1>5 DEF Sighted
<1>7. \A p : p \in Seen(a, ch.private) <=> p \in DOMAIN lists /\ p.owner = owner
  BY <1>2, <1>3, <1>6, SeenFacts DEF Grant
<1>8. Seen(a, ch.private) = Scope(owner)
  BY <1>7 DEF Scope
<1> QED BY <1>1, <1>8

LEMMA ScopeFinite ==
    ASSUME IsFiniteSet(DOMAIN lists), NEW owner
    PROVE  IsFiniteSet(Scope(owner)) /\ Cardinality(Scope(owner)) \in Nat
BY FS_Subset, FS_CardinalityType DEF Scope

LEMMA LimitsInit == ASSUME Init PROVE LimitsInv
<1>1. DOMAIN lists = {}
  BY DEF Init
<1>2. \A owner : Scope(owner) = {}
  BY <1>1 DEF Scope
<1>3. IsFiniteSet(DOMAIN lists) /\ ListsShort
  BY <1>1, FS_EmptySet DEF ListsShort
<1>4. \A owner : Cardinality(Scope(owner)) = 0
  BY <1>2, FS_EmptySet
<1> QED BY <1>3, <1>4, LimitsAssumption DEF LimitsInv, ScopesSmall

\* A scope that gains at most one list, and only when it has room.
LEMMA ScopeGains ==
    ASSUME IsFiniteSet(DOMAIN lists), NEW owner, NEW p,
           Scope(owner)' \subseteq Scope(owner) \cup {p},
           Cardinality(Scope(owner)) < MaxLists
    PROVE  Cardinality(Scope(owner)') <= MaxLists
<1>1. IsFiniteSet(Scope(owner)) /\ Cardinality(Scope(owner)) \in Nat
  BY ScopeFinite
<1>2. PICK S : S = Scope(owner)'
  OBVIOUS
<1>3. IsFiniteSet(Scope(owner) \cup {p})
      /\ Cardinality(Scope(owner) \cup {p}) <= Cardinality(Scope(owner)) + 1
  <2>1. PICK T : T = Scope(owner)
    OBVIOUS
  <2>2. /\ IsFiniteSet(T \cup {p})
        /\ Cardinality(T \cup {p}) = IF p \in T THEN Cardinality(T) ELSE Cardinality(T) + 1
    BY <1>1, <2>1, FS_AddElement
  <2>3. Cardinality(T) \in Nat
    BY <1>1, <2>1
  <2>4. Cardinality(T \cup {p}) <= Cardinality(T) + 1
    BY <2>2, <2>3
  <2> QED BY <2>1, <2>2, <2>4
<1>4. IsFiniteSet(S) /\ Cardinality(S) <= Cardinality(Scope(owner) \cup {p})
  BY <1>2, <1>3, FS_Subset
<1>5. Cardinality(S) \in Nat /\ Cardinality(Scope(owner) \cup {p}) \in Nat
  BY <1>3, <1>4, FS_CardinalityType
<1> QED BY <1>1, <1>2, <1>3, <1>4, <1>5, LimitsAssumption

LEMMA ScopeKeeps ==
    ASSUME IsFiniteSet(DOMAIN lists), NEW owner, Scope(owner)' \subseteq Scope(owner),
           Cardinality(Scope(owner)) <= MaxLists
    PROVE  Cardinality(Scope(owner)') <= MaxLists
<1>1. IsFiniteSet(Scope(owner)) /\ Cardinality(Scope(owner)) \in Nat
  BY ScopeFinite
<1>2. PICK S : S = Scope(owner)'
  OBVIOUS
<1>3. IsFiniteSet(S) /\ Cardinality(S) <= Cardinality(Scope(owner))
  BY <1>1, <1>2, FS_Subset
<1>4. Cardinality(S) \in Nat
  BY <1>3, FS_CardinalityType
<1> QED BY <1>1, <1>2, <1>3, <1>4, LimitsAssumption

\* Who may read and write does not change.
LEMMA SameSight == \A owner : (Sighted(owner)' <=> Sighted(owner)) /\ (AllSighted(owner)' <=> AllSighted(owner))
BY DEF Sighted, AllSighted, Writers, Grant

LEMMA SharesLimits ==
    ASSUME SinglesInv, LimitsInv, NEW a \in Agents, NEW ch \in ListChange, Shares(a, ch)
    PROVE  LimitsInv'
<1>1. PICK own, home : own = OwnPlace(a, ch) /\ home = HomePlace(ch)
  OBVIOUS
<1>2. /\ own \in Place /\ home \in Place /\ own.owner = a /\ home.owner = Household
      /\ own # home /\ a # Household
  BY <1>1, PlaceFacts, AgentsAssumption
<1>3. /\ own \in DOMAIN lists /\ home \notin DOMAIN lists
      /\ Cardinality(Scope(Household)) < MaxLists
      /\ lists' = [q \in (DOMAIN lists \ {own}) \cup {home} |->
                         IF q = home THEN lists[own] ELSE lists[q]]
  BY <1>1 DEF Shares, Scope
<1>4. IsFiniteSet(DOMAIN lists) /\ ScopesSmall /\ ListsShort
  BY DEF LimitsInv
<1>5. IsFiniteSet(DOMAIN lists')
  <2>1. DOMAIN lists' = (DOMAIN lists \ {own}) \cup {home}
    BY <1>3
  <2>2. IsFiniteSet(DOMAIN lists \ {own})
    BY <1>4, FS_RemoveElement
  <2>3. IsFiniteSet((DOMAIN lists \ {own}) \cup {home})
    BY <2>2, FS_AddElement
  <2> QED BY <2>1, <2>3
<1>6. ASSUME NEW owner \in Owners, Sighted(owner)
      PROVE  Cardinality(Scope(owner)') <= MaxLists
  <2>1. CASE owner = Household
    <3>1. Scope(owner)' \subseteq Scope(owner) \cup {home}
      BY <1>3 DEF Scope
    <3>2. Cardinality(Scope(owner)) < MaxLists
      BY <1>3, <2>1
    <3> QED BY <1>4, <3>1, <3>2, ScopeGains
  <2>2. CASE owner # Household
    <3>1. Scope(owner)' \subseteq Scope(owner)
      BY <1>2, <1>3, <2>2 DEF Scope
    <3>2. Cardinality(Scope(owner)) <= MaxLists
      BY <1>4, <1>6 DEF ScopesSmall
    <3> QED BY <1>4, <3>1, <3>2, ScopeKeeps
  <2> QED BY <2>1, <2>2
<1>7. ASSUME NEW p \in DOMAIN lists', AllSighted(p.owner)
      PROVE  Cardinality(Open(lists'[p])) <= MaxOpen
  <2>1. CASE p = home
    <3>1. AllSighted(own.owner)
      BY <1>2, <1>7, <2>1 DEF AllSighted
    <3>2. lists'[p] = lists[own]
      BY <1>3, <2>1
    <3> QED BY <1>3, <1>4, <3>1, <3>2 DEF ListsShort
  <2>2. CASE p # home
    <3>1. p \in DOMAIN lists /\ lists'[p] = lists[p]
      BY <1>3, <2>2
    <3> QED BY <1>4, <1>7, <3>1 DEF ListsShort
  <2> QED BY <2>1, <2>2
<1> QED BY <1>5, <1>6, <1>7, SameSight DEF LimitsInv, ScopesSmall, ListsShort

LEMMA CreatesLimits ==
    ASSUME SinglesInv, LimitsInv, NEW a \in Agents, NEW ch \in ListChange, Creates(a, ch)
    PROVE  LimitsInv'
<1>1. PICK to : to = Target(a, ch)
  OBVIOUS
<1>2. /\ MayWriteTo(a, to) /\ Cardinality(Seen(a, ch.private)) < MaxLists
      /\ ch.done = {} /\ ch.remove = {}
      /\ lists' = [q \in DOMAIN lists \cup {to} |-> IF q = to THEN Changed(Empty, ch) ELSE lists[q]]
  BY <1>1 DEF Creates
<1>3. IsFiniteSet(DOMAIN lists) /\ ScopesSmall /\ ListsShort /\ TypeOK
  BY DEF LimitsInv, SinglesInv
<1>4. IsFiniteSet(DOMAIN lists')
  <2>1. DOMAIN lists' = DOMAIN lists \cup {to}
    BY <1>2
  <2> QED BY <1>3, <2>1, FS_AddElement
<1>5. ASSUME NEW owner \in Owners, Sighted(owner)
      PROVE  Cardinality(Scope(owner)') <= MaxLists
  <2>1. CASE owner = to.owner
    <3>1. Scope(owner)' \subseteq Scope(owner) \cup {to}
      BY <1>2 DEF Scope
    <3>2. Seen(a, ch.private) = Scope(owner)
      BY <1>1, <1>2, <1>3, <1>5, <2>1, SightedSees
    <3>3. Cardinality(Scope(owner)) < MaxLists
      BY <1>2, <3>2
    <3> QED BY <1>3, <3>1, <3>3, ScopeGains
  <2>2. CASE owner # to.owner
    <3>1. Scope(owner)' \subseteq Scope(owner)
      BY <1>2, <2>2 DEF Scope
    <3>2. Cardinality(Scope(owner)) <= MaxLists
      BY <1>3, <1>5 DEF ScopesSmall
    <3> QED BY <1>3, <3>1, <3>2, ScopeKeeps
  <2> QED BY <2>1, <2>2
<1>6. ASSUME NEW p \in DOMAIN lists', AllSighted(p.owner)
      PROVE  Cardinality(Open(lists'[p])) <= MaxOpen
  <2>1. CASE p = to
    <3>1. lists'[p] = Changed(Empty, ch)
      BY <1>2, <2>1
    <3>2. Open(Changed(Empty, ch)) = (Open(Empty) \ (ch.done \cup ch.remove)) \cup ch.add
      BY CreatedRows, OpenChanged
    <3>3. Open(Changed(Empty, ch)) = ch.add
      BY <3>2, EmptySingle
    <3> QED BY <3>1, <3>3, AddedFew
  <2>2. CASE p # to
    <3>1. p \in DOMAIN lists /\ lists'[p] = lists[p]
      BY <1>2, <2>2
    <3> QED BY <1>3, <1>6, <3>1 DEF ListsShort
  <2> QED BY <2>1, <2>2
<1> QED BY <1>4, <1>5, <1>6, SameSight DEF LimitsInv, ScopesSmall, ListsShort

LEMMA EditsLimits ==
    ASSUME SinglesInv, LimitsInv, NEW a \in Agents, NEW ch \in ListChange, Edits(a, ch)
    PROVE  LimitsInv'
<1>1. PICK to : to = Target(a, ch)
  OBVIOUS
<1>2. /\ MayWriteTo(a, to) /\ to \in DOMAIN lists
      /\ to \in Seen(a, ch.private) => WithinOpen(lists[to], ch)
      /\ lists' = [q \in DOMAIN lists |-> IF q = to THEN Changed(lists[to], ch) ELSE lists[q]]
  BY <1>1 DEF Edits
<1>3. IsFiniteSet(DOMAIN lists) /\ ScopesSmall /\ ListsShort /\ TypeOK
  BY DEF LimitsInv, SinglesInv
<1>4. DOMAIN lists' = DOMAIN lists
  BY <1>2
<1>5. ASSUME NEW owner \in Owners, Sighted(owner)
      PROVE  Cardinality(Scope(owner)') <= MaxLists
  <2>1. Scope(owner)' \subseteq Scope(owner)
    BY <1>4 DEF Scope
  <2>2. Cardinality(Scope(owner)) <= MaxLists
    BY <1>3, <1>5 DEF ScopesSmall
  <2> QED BY <1>3, <2>1, <2>2, ScopeKeeps
<1>6. ASSUME NEW p \in DOMAIN lists', AllSighted(p.owner)
      PROVE  Cardinality(Open(lists'[p])) <= MaxOpen
  <2>1. CASE p = to
    <3>1. Sighted(to.owner)
      BY <1>6, <2>1 DEF AllSighted
    <3>2. Seen(a, ch.private) = Scope(to.owner)
      BY <1>1, <1>2, <1>3, <3>1, SightedSees
    <3>3. WithinOpen(lists[to], ch)
      BY <1>2, <3>2 DEF Scope
    <3>4. AppliedWhole(lists[to], Changed(lists[to], ch), ch)
      BY <1>1, EditedRows
    <3>5. lists'[p] = Changed(lists[to], ch)
      BY <1>2, <2>1
    <3>6. Cardinality(Open(Changed(lists[to], ch))) <= MaxOpen
      BY <3>3, <3>4, OpenWithin
    <3> QED BY <3>5, <3>6
  <2>2. CASE p # to
    <3>1. p \in DOMAIN lists /\ lists'[p] = lists[p]
      BY <1>2, <1>4, <2>2
    <3> QED BY <1>3, <1>6, <3>1 DEF ListsShort
  <2> QED BY <2>1, <2>2
<1> QED BY <1>3, <1>4, <1>5, <1>6, SameSight DEF LimitsInv, ScopesSmall, ListsShort

LEMMA LimitsStep == ASSUME SinglesInv, LimitsInv, [Next]_lists PROVE LimitsInv'
<1>1. CASE UNCHANGED lists
  <2>1. \A owner : Scope(owner)' = Scope(owner)
    BY <1>1 DEF Scope
  <2> QED BY <1>1, <2>1, SameSight DEF LimitsInv, ScopesSmall, ListsShort, Open
<1>2. CASE Next
  <2>1. PICK a \in Agents, ch \in ListChange : Shares(a, ch) \/ Creates(a, ch) \/ Edits(a, ch)
    BY <1>2, StepKinds DEF SinglesInv
  <2> QED BY <2>1, SharesLimits, CreatesLimits, EditsLimits
<1> QED BY <1>1, <1>2

\* Confirmed changes take no scope and no list past its limit, as long as
\* everyone who writes there may also read it.
THEOREM StaysLimited == Spec => []Limited
<1>1. Init => LimitsInv
  BY LimitsInit
<1>2. SinglesInv /\ LimitsInv /\ [Next]_lists => LimitsInv'
  BY LimitsStep
<1>3. LimitsInv => Limited
  BY DEF LimitsInv, ScopesSmall, ListsShort, AllSighted, Limited, Scope
<1> QED BY <1>1, <1>2, <1>3, Singles, PTL DEF Spec

-----------------------------------------------------------------------------
(* Other people's private lists                                            *)

\* The part of a table that an agent may know of.
Theirs(a, table) == {p \in DOMAIN table : p.owner \in {a, Household}}
Known(a, table) == Restrict(table, Theirs(a, table))

LEMMA KnownFacts ==
    ASSUME NEW a, NEW table
    PROVE  /\ DOMAIN Known(a, table) = Theirs(a, table)
           /\ \A p \in Theirs(a, table) : Known(a, table)[p] = table[p]
BY DEF Known, Restrict

LEMMA VisibleTheirs ==
    ASSUME NEW a \in Agents, NEW p, NEW private, NEW named, Visible(a, p, private, named)
    PROVE  p.owner \in {a, Household}
BY DEF Visible

\* An answer shows what it would show if there were no other lists.
LEMMA ReadSame ==
    ASSUME NEW a \in Agents, NEW name, NEW named, NEW private, NEW table
    PROVE  Read(a, name, named, private, table) = Read(a, name, named, private, Known(a, table))
<1> DEFINE K == Known(a, table)
           shown == {p \in DOMAIN table : Visible(a, p, private, named) /\ (named => p.name = name)}
           same == {p \in DOMAIN K : Visible(a, p, private, named) /\ (named => p.name = name)}
<1>1. DOMAIN K = Theirs(a, table) /\ \A p \in Theirs(a, table) : K[p] = table[p]
  BY KnownFacts
<1>2. Theirs(a, table) \subseteq DOMAIN table
  BY DEF Theirs
<1>3. \A p \in shown : p \in Theirs(a, table)
  BY VisibleTheirs DEF Theirs
<1> HIDE DEF K
<1>4. shown = same
  BY <1>1, <1>2, <1>3
<1>5. \A p \in shown : K[p] = table[p]
  BY <1>1, <1>3
<1> HIDE DEF shown, same
<1>6. [p \in shown |-> table[p]] = [p \in same |-> K[p]]
  BY <1>4, <1>5
<1>7. Restrict(table, shown) = Restrict(K, same)
  BY <1>6 DEF Restrict
<1> QED BY <1>7 DEF Read, shown, same, K

LEMMA FindSame ==
    ASSUME NEW a \in Agents, NEW name, NEW owner \in {a, Household}, NEW table
    PROVE  FindList(Known(a, table), name, owner) = FindList(table, name, owner)
<1>1. DOMAIN Known(a, table) = Theirs(a, table)
  BY KnownFacts
<1>2. \A p \in DOMAIN table : p.owner = owner => p \in Theirs(a, table)
  BY DEF Theirs
<1>3. Theirs(a, table) \subseteq DOMAIN table
  BY DEF Theirs
<1> QED BY <1>1, <1>2, <1>3 DEF FindList

\* The checks are answered alike.
LEMMA AcceptsSame ==
    ASSUME NEW a \in Agents, NEW ch, NEW table
    PROVE  Accepts(a, ch, table) <=> Accepts(a, ch, Known(a, table))
<1> DEFINE K == Known(a, table)
           Near(t) == {p \in DOMAIN t : Visible(a, p, ch.private \/ ch.share, TRUE)}
           Named(t) == {p \in Near(t) : p.name = ch.name}
           Home(t) == {p \in DOMAIN t : p.owner = Household}
<1>1. DOMAIN K = Theirs(a, table) /\ \A p \in Theirs(a, table) : K[p] = table[p]
  BY KnownFacts
<1>2. Theirs(a, table) \subseteq DOMAIN table
  BY DEF Theirs
<1>3. \A p \in Near(table) : p \in Theirs(a, table)
  BY VisibleTheirs DEF Theirs
<1>4. \A p \in Home(table) : p \in Theirs(a, table)
  BY DEF Theirs
<1> HIDE DEF K
<1>5. Near(K) = Near(table)
  BY <1>1, <1>2, <1>3
<1>6. Home(K) = Home(table)
  BY <1>1, <1>2, <1>4
<1>7. \A p \in Near(table) : K[p] = table[p]
  BY <1>1, <1>3
<1> HIDE DEF Near, Home
<1>8. Named(K) = Named(table) /\ \A p \in Named(table) : K[p] = table[p]
  BY <1>5, <1>7
<1> HIDE DEF Named
<1>9. \A t : Accepts(a, ch, t) <=>
        CASE ch.share -> Named(t) # {} /\ Cardinality(Home(t)) < MaxLists
          [] ~ch.share /\ Named(t) = {} ->
               ch.add # {} /\ ch.done = {} /\ ch.remove = {} /\ Cardinality(Near(t)) < MaxLists
          [] OTHER -> \A p \in Named(t) : WithinOpen(t[p], ch)
  BY DEF Accepts, Near, Named, Home
<1>10. (\A p \in Named(K) : WithinOpen(K[p], ch)) <=> (\A p \in Named(table) : WithinOpen(table[p], ch))
  BY <1>8
<1> QED BY <1>5, <1>6, <1>8, <1>9, <1>10 DEF K

\* Storing a list where the agent may know of it.
LEMMA PutKnown ==
    ASSUME NEW a, NEW p, p.owner \in {a, Household}, NEW items, NEW table
    PROVE  Known(a, Put(table, p, items)) = Put(Known(a, table), p, items)
<1> DEFINE K == Known(a, table)
           put == Put(table, p, items)
<1>1. DOMAIN K = Theirs(a, table) /\ \A q \in Theirs(a, table) : K[q] = table[q]
  BY KnownFacts
<1>2. /\ DOMAIN put = DOMAIN table \cup {p}
      /\ \A q \in DOMAIN put : put[q] = IF q = p THEN items ELSE table[q]
  BY DEF Put
<1>3. Theirs(a, put) = DOMAIN K \cup {p}
  BY <1>1, <1>2 DEF Theirs
<1>4. \A q \in DOMAIN K \cup {p} : put[q] = IF q = p THEN items ELSE K[q]
  BY <1>1, <1>2 DEF Theirs
<1> HIDE DEF K, put
<1>5. [q \in Theirs(a, put) |-> put[q]] = [q \in DOMAIN K \cup {p} |-> IF q = p THEN items ELSE K[q]]
  BY <1>3, <1>4
<1>6. Known(a, put) = Put(K, p, items)
  BY <1>5 DEF Known, Restrict, Put
<1> QED BY <1>6 DEF K, put

\* Taking a list away.
LEMMA WithoutKnown ==
    ASSUME NEW a, NEW p, NEW table
    PROVE  Known(a, Restrict(table, DOMAIN table \ {p}))
             = Restrict(Known(a, table), DOMAIN Known(a, table) \ {p})
<1> DEFINE K == Known(a, table)
           less == Restrict(table, DOMAIN table \ {p})
<1>1. DOMAIN K = Theirs(a, table) /\ \A q \in Theirs(a, table) : K[q] = table[q]
  BY KnownFacts
<1>2. DOMAIN less = DOMAIN table \ {p} /\ \A q \in DOMAIN less : less[q] = table[q]
  BY DEF Restrict
<1>3. Theirs(a, less) = DOMAIN K \ {p}
  BY <1>1, <1>2 DEF Theirs
<1>4. \A q \in DOMAIN K \ {p} : less[q] = K[q]
  BY <1>1, <1>2 DEF Theirs
<1> HIDE DEF K, less
<1>5. [q \in Theirs(a, less) |-> less[q]] = [q \in DOMAIN K \ {p} |-> K[q]]
  BY <1>3, <1>4
<1>6. Known(a, less) = Restrict(K, DOMAIN K \ {p})
  BY <1>5 DEF Known, Restrict
<1> QED BY <1>6 DEF K, less

LEMMA SharedSame ==
    ASSUME NEW a \in Agents, NEW ch, NEW table
    PROVE  {Known(a, t) : t \in SharePrivateList(a, ch, table)}
             = SharePrivateList(a, ch, Known(a, table))
<1> DEFINE K == Known(a, table)
           to == [owner |-> Household, name |-> ch.name]
           Moved(t, p) == Put(Restrict(t, DOMAIN t \ {p}), to, t[p])
           From(t) == {q \in FindList(t, ch.name, a) : FindList(t, ch.name, Household) = {}}
<1>1. From(K) = From(table)
  BY FindSame
<1>2. \A p \in From(table) : K[p] = table[p]
  <2>1. \A p \in From(table) : p \in Theirs(a, table)
    BY DEF FindList, Theirs
  <2> QED BY <2>1, KnownFacts
<1>3. \A p \in From(table) : Known(a, Moved(table, p)) = Moved(K, p)
  <2> SUFFICES ASSUME NEW p \in From(table) PROVE Known(a, Moved(table, p)) = Moved(K, p)
    OBVIOUS
  <2>1. to.owner \in {a, Household}
    OBVIOUS
  <2>2. PICK less : less = Restrict(table, DOMAIN table \ {p})
    OBVIOUS
  <2>3. Known(a, Put(less, to, table[p])) = Put(Known(a, less), to, table[p])
    BY <2>1, PutKnown
  <2>4. Known(a, less) = Restrict(K, DOMAIN K \ {p})
    BY <2>2, WithoutKnown
  <2>5. K[p] = table[p]
    BY <1>2
  <2> QED BY <2>2, <2>3, <2>4, <2>5
<1>4. \A t : SharePrivateList(a, ch, t) = {Moved(t, p) : p \in From(t)}
  BY DEF SharePrivateList
<1> HIDE DEF K, Moved, From
<1>5. {Known(a, t) : t \in {Moved(table, p) : p \in From(table)}} = {Moved(K, p) : p \in From(K)}
  BY <1>1, <1>3
<1> QED BY <1>4, <1>5 DEF K

\* What a confirmed change leaves, as far as its author may know, comes of what
\* was there, as far as its author may know.
LEMMA AppliedSame ==
    ASSUME NEW a \in Agents, NEW ch \in ListChange, NEW table
    PROVE  {Known(a, t) : t \in ApplyShared(a, ch, table)} = ApplyShared(a, ch, Known(a, table))
<1> DEFINE K == Known(a, table)
           owner == IF ch.private THEN a ELSE Household
           to == [owner |-> owner, name |-> ch.name]
           found == FindList(table, ch.name, owner)
           Changes(t) == {Put(t, p, Changed(t[p], ch)) : p \in {q \in found : Applies(t[q], ch)}}
<1>0. ch.share \in BOOLEAN
  BY ChangeFacts
<1>1. owner \in {a, Household}
  OBVIOUS
<1>2. FindList(K, ch.name, owner) = found
  BY <1>1, FindSame
<1>3. \A p \in found : p.owner \in {a, Household} /\ K[p] = table[p]
  <2>1. \A p \in found : p \in DOMAIN table /\ p.owner = owner
    BY DEF FindList
  <2>2. \A p \in found : p \in Theirs(a, table)
    BY <1>1, <2>1 DEF Theirs
  <2>3. \A p \in Theirs(a, table) : K[p] = table[p]
    BY KnownFacts
  <2> HIDE DEF K, found
  <2> QED BY <1>1, <2>1, <2>2, <2>3
<1>4. CASE ch.share
  <2>1. \A t : ApplyShared(a, ch, t) = SharePrivateList(a, ch, t)
    BY <1>4 DEF ApplyShared
  <2> QED BY <2>1, SharedSame
<1>5. CASE ~ch.share /\ found = {}
  <2> DEFINE refused == ch.add = {} \/ ch.done # {} \/ ch.remove # {}
             Created(t) == IF refused THEN {} ELSE {Put(t, to, Changed(Empty, ch))}
  <2>1. ApplyShared(a, ch, table) = Created(table)
    BY <1>5 DEF ApplyShared
  <2>2. ApplyShared(a, ch, K) = Created(K)
    <3>1. FindList(K, ch.name, owner) = {}
      BY <1>2, <1>5
    <3> QED BY <3>1, <1>5 DEF ApplyShared
  <2>3. to.owner \in {a, Household}
    BY <1>1
  <2>4. Known(a, Put(table, to, Changed(Empty, ch))) = Put(K, to, Changed(Empty, ch))
    BY <2>3, PutKnown
  <2> HIDE DEF K, to
  <2>5. {Known(a, t) : t \in Created(table)} = Created(K)
    BY <2>4
  <2> QED BY <2>1, <2>2, <2>5 DEF K
<1>6. CASE ~ch.share /\ found # {}
  <2>1. ApplyShared(a, ch, table) = Changes(table)
    BY <1>6 DEF ApplyShared
  <2>2. ApplyShared(a, ch, K) = Changes(K)
    <3>1. PICK k : k = K
      OBVIOUS
    <3>2. FindList(k, ch.name, owner) = found
      BY <1>2, <3>1
    <3>3. ApplyShared(a, ch, k) = Changes(k)
      BY <1>6, <3>2 DEF ApplyShared
    <3> QED BY <3>1, <3>3
  <2>3. \A p \in found : Known(a, Put(table, p, Changed(table[p], ch))) = Put(K, p, Changed(K[p], ch))
    <3> SUFFICES ASSUME NEW p \in found
                 PROVE  Known(a, Put(table, p, Changed(table[p], ch))) = Put(K, p, Changed(K[p], ch))
      OBVIOUS
    <3>1. p.owner \in {a, Household} /\ K[p] = table[p]
      BY <1>3
    <3>2. Known(a, Put(table, p, Changed(table[p], ch))) = Put(K, p, Changed(table[p], ch))
      BY <3>1, PutKnown
    <3> QED BY <3>1, <3>2
  <2> HIDE DEF K, found
  <2>4. {q \in found : Applies(K[q], ch)} = {q \in found : Applies(table[q], ch)}
    BY <1>3
  <2>5. {Known(a, t) : t \in Changes(table)} = Changes(K)
    BY <2>3, <2>4
  <2> QED BY <2>1, <2>2, <2>5 DEF K
<1> QED BY <1>0, <1>4, <1>5, <1>6

\* Another person's private list cannot be told from one that does not exist:
\* neither an answer nor what becomes of a change depends on it.
THEOREM NobodyCanTell == Spec => []Indistinguishable
<1>1. ASSUME NEW a \in Agents, NEW n, NEW named, NEW private
      PROVE  Read(a, n, named, private, lists)
               = Read(a, n, named, private, Restrict(lists, Theirs(a, lists)))
  BY ReadSame DEF Known
<1>2. ASSUME NEW a \in Agents, NEW ch \in ListChange
      PROVE  {Restrict(t, Theirs(a, t)) : t \in Result(a, ch, lists)}
               = Result(a, ch, Restrict(lists, Theirs(a, lists)))
  <2>1. PICK K : K = Known(a, lists)
    OBVIOUS
  <2>2. Accepts(a, ch, lists) <=> Accepts(a, ch, K)
    BY <2>1, AcceptsSame
  <2>3. {Known(a, t) : t \in ApplyShared(a, ch, lists)} = ApplyShared(a, ch, K)
    BY <2>1, AppliedSame
  <2>4. {Known(a, t) : t \in Result(a, ch, lists)} = Result(a, ch, K)
    BY <2>2, <2>3 DEF Result
  <2> QED BY <2>1, <2>4 DEF Known
<1>3. Indistinguishable
  BY <1>1, <1>2 DEF Indistinguishable, Theirs
<1> QED BY <1>3, PTL

=============================================================================
