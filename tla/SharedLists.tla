---------------------------- MODULE SharedLists -----------------------------
(***************************************************************************)
(* The household lists: what an agent may read and change                  *)
(* (shared/organizer.py), the change a yes applies (shared/records.py),    *)
(* and the transaction that stores it (store.py).                          *)
(*                                                                         *)
(* Nothing awaits between the snapshot, the checks and the transaction, so *)
(* a change is one step. A change that is refused, or that the store fails *)
(* to write, changes nothing.                                              *)
(***************************************************************************)
EXTENDS Naturals, FiniteSets, FiniteSetsExt, Functions

CONSTANTS
    Agents,
    Household,  \* the owner of a shared list
    Names,      \* of lists, up to case
    Items,      \* texts of items, up to case
    Reads,      \* agent.reads
    Writes,     \* agent.writes
    MaxLists,   \* MAX_LISTS
    MaxOpen,    \* MAX_OPEN
    MaxItems,   \* MAX_ITEMS
    MaxDone     \* bound: rows checked off on one list

ASSUME AgentsAssumption == Household \notin Agents
ASSUME GrantsAssumption ==
    Reads \in [Agents -> SUBSET {"own", "shared"}] /\ Writes \in [Agents -> SUBSET {"own", "shared"}]
ASSUME LimitsAssumption ==
    /\ MaxLists \in Nat \ {0} /\ MaxOpen \in Nat /\ MaxItems \in Nat /\ MaxDone \in Nat
    /\ MaxItems <= MaxOpen
ASSUME FiniteAssumption == IsFiniteSet(Items) /\ IsFiniteSet(Names)

VARIABLE lists  \* the two tables: by owner and name, the rows of each text

Owners == Agents \cup {Household}
Place  == [owner: Owners, name: Names]
Rows   == [open: Nat, done: Nat]
Empty  == [i \in Items |-> [open |-> 0, done |-> 0]]

\* What parse_change lets through.
ListChange ==
    {ch \in [name: Names, add: SUBSET Items, done: SUBSET Items, remove: SUBSET Items,
             private: BOOLEAN, share: BOOLEAN] :
        LET all == ch.add \cup ch.done \cup ch.remove IN
        /\ ~(ch.private /\ ch.share)
        /\ ch.share <=> all = {}
        /\ ch.add \cap ch.done = {} /\ ch.add \cap ch.remove = {} /\ ch.done \cap ch.remove = {}
        /\ Cardinality(all) <= MaxItems}

TypeOK == DOMAIN lists \subseteq Place /\ lists \in [DOMAIN lists -> [Items -> Rows]]

Init == lists = [p \in {} |-> Empty]

-----------------------------------------------------------------------------
(* The organizer                                                           *)

\* A named lookup stays inside one scope.
Visible(a, p, private, named) ==
    \/ p.owner = a /\ "own" \in Reads[a] /\ (private \/ ~named)
    \/ p.owner = Household /\ "shared" \in Reads[a] /\ ~private

\* Organizer.read: the lists in the answer. None of them is also an answer.
Read(a, name, named, private, table) ==
    Restrict(table, {p \in DOMAIN table :
                        Visible(a, p, private, named) /\ (named => p.name = name)})

\* _require_write, and the same check when the call is staged.
MayWrite(a, ch) ==
    /\ ch.private \/ ch.share => "own" \in Writes[a]
    /\ ch.share \/ ~ch.private => "shared" \in Writes[a]

Open(items) == {i \in Items : items[i].open > 0}

WithinOpen(items, ch) ==
    LET closing == Open(items) \cap (ch.done \cup ch.remove)
    IN  (Cardinality(Open(items)) - Cardinality(closing)) + Cardinality(ch.add) <= MaxOpen

\* (Bug) Only creating a list is limited, not sharing one.
AcceptsAnyShare(a, ch, table) ==
    LET seen == {p \in DOMAIN table : Visible(a, p, ch.private \/ ch.share, TRUE)}
        current == {p \in seen : p.name = ch.name}
    IN  CASE ch.share -> current # {}
          [] ~ch.share /\ current = {} -> Cardinality(seen) < MaxLists
          [] OTHER -> \A p \in current : WithinOpen(table[p], ch)

\* The checks of Organizer.apply: the limits of what the agent may read.
Accepts(a, ch, table) ==
    LET seen == {p \in DOMAIN table : Visible(a, p, ch.private \/ ch.share, TRUE)}
        current == {p \in seen : p.name = ch.name}
    IN  CASE ch.share ->
               /\ current # {}
               /\ Cardinality({p \in DOMAIN table : p.owner = Household}) < MaxLists
          [] ~ch.share /\ current = {} ->
               /\ ch.add # {} /\ ch.done = {} /\ ch.remove = {}
               /\ Cardinality(seen) < MaxLists
          [] OTHER -> \A p \in current : WithinOpen(table[p], ch)

-----------------------------------------------------------------------------
(* The transaction                                                         *)

\* (Bug) Only the open row of a text is removed.
ChangedOpen(items, ch) ==
    [i \in Items |->
        CASE i \in ch.remove -> [items[i] EXCEPT !.open = 0]
          [] i \in ch.done   -> [open |-> items[i].open - 1, done |-> items[i].done + 1]
          [] i \in ch.add    -> [items[i] EXCEPT !.open = @ + 1]
          [] OTHER           -> items[i]]

\* What the transaction does to the rows of a text.
Changed(items, ch) ==
    [i \in Items |->
        CASE i \in ch.remove -> [open |-> 0, done |-> 0]
          [] i \in ch.done   -> [open |-> items[i].open - 1, done |-> items[i].done + 1]
          [] i \in ch.add    -> [items[i] EXCEPT !.open = @ + 1]
          [] OTHER           -> items[i]]

CheckedOff(items) == MapThenSumSet(LAMBDA i : items[i].done, Items)

\* "A missing item changes nothing."
Applies(items, ch) ==
    /\ ch.done # {} => CheckedOff(items) + Cardinality(ch.done) <= MaxDone
    /\ \A i \in ch.done   : items[i].open > 0
    /\ \A i \in ch.remove : items[i].open + items[i].done > 0
    /\ \A i \in ch.add    : items[i].open = 0

Put(table, p, items) ==
    [q \in DOMAIN table \cup {p} |-> IF q = p THEN items ELSE table[q]]

\* (Bug) A list is found whoever owns it.
FindListAny(table, name, owner) == {p \in DOMAIN table : p.name = name}

\* _find_list
FindList(table, name, owner) == {p \in DOMAIN table : p.name = name /\ p.owner = owner}

\* _share_private_list
SharePrivateList(a, ch, table) ==
    LET to == [owner |-> Household, name |-> ch.name] IN
    {Put(Restrict(table, DOMAIN table \ {p}), to, table[p]) :
        p \in {q \in FindList(table, ch.name, a) : FindList(table, ch.name, Household) = {}}}

\* apply_shared: the tables after it, none when it raises.
ApplyShared(a, ch, table) ==
    LET owner == IF ch.private THEN a ELSE Household
        found == FindList(table, ch.name, owner)
    IN  CASE ch.share -> SharePrivateList(a, ch, table)
          [] ~ch.share /\ found = {} ->
               IF ch.add = {} \/ ch.done # {} \/ ch.remove # {} THEN {}
               ELSE {Put(table, [owner |-> owner, name |-> ch.name], Changed(Empty, ch))}
          [] OTHER -> {Put(table, p, Changed(table[p], ch)) : p \in {q \in found : Applies(table[q], ch)}}

\* Organizer.apply
Result(a, ch, table) ==
    IF MayWrite(a, ch) /\ Accepts(a, ch, table) THEN ApplyShared(a, ch, table) ELSE {}

Apply(a, ch) == lists' \in Result(a, ch, lists)

Next == \E a \in Agents, ch \in ListChange : Apply(a, ch)

Spec == Init /\ [][Next]_lists

-----------------------------------------------------------------------------
(* Properties                                                              *)

\* An owner's lists, and who may write there without being able to read it.
Scope(owner) == {p \in DOMAIN lists : p.owner = owner}
Grant(owner) == IF owner = Household THEN "shared" ELSE "own"
Writers(owner) == {a \in Agents : Grant(owner) \in Writes[a] /\ owner \in {a, Household}}
Sighted(owner) == \A a \in Writers(owner) : Grant(owner) \in Reads[a]

\* A list has at most one open row of a text: apply_shared refuses to add what
\* is open, in whatever order changes are confirmed.
OneOpenRow == \A p \in DOMAIN lists, i \in Items : lists[p][i].open <= 1

\* No sequence of confirmed changes takes a scope past MAX_LISTS, or a list past
\* MAX_OPEN, as long as everyone who writes there may also read it. A list that
\* is shared comes from a scope with the same condition.
Limited ==
    \A owner \in Owners :
        /\ Sighted(owner) => Cardinality(Scope(owner)) <= MaxLists
        /\ Sighted(owner) /\ (owner = Household => \A a \in Agents : Sighted(a)) =>
            \A p \in Scope(owner) : Cardinality(Open(lists[p])) <= MaxOpen

\* Another person's private list cannot be told from one that does not exist:
\* what an agent reads, and what becomes of a change, depend on the shared
\* lists and its own alone (_visible, _find_list).
Indistinguishable ==
    \A a \in Agents :
        LET theirs(table) == {p \in DOMAIN table : p.owner \in {a, Household}}
            known == Restrict(lists, theirs(lists))
        IN  /\ \A n \in Names, named, private \in BOOLEAN :
                    Read(a, n, named, private, lists) = Read(a, n, named, private, known)
            /\ \A ch \in ListChange :
                    {Restrict(t, theirs(t)) : t \in Result(a, ch, lists)} = Result(a, ch, known)

\* What becomes of the rows of each text of a list when a change is applied whole.
AppliedWhole(before, after, ch) ==
    \A i \in Items :
        /\ after[i].open = IF i \in ch.add THEN 1
                            ELSE IF i \in ch.done \cup ch.remove THEN 0 ELSE before[i].open
        /\ i \notin ch.remove => after[i].open + after[i].done =
                before[i].open + before[i].done + (IF i \in ch.add THEN 1 ELSE 0)
        /\ i \in ch.remove => after[i].done = 0

ChangesOneList ==
    \E a \in Agents, ch \in ListChange :
        LET own  == [owner |-> a, name |-> ch.name]
            home == [owner |-> Household, name |-> ch.name]
            to   == IF ch.private THEN own ELSE home
        IN
        /\ to = own \/ ch.share => "own" \in Writes[a]
        /\ to = home => "shared" \in Writes[a]
        /\ \A p \in (DOMAIN lists \cup DOMAIN lists') \ (IF ch.share THEN {own, home} ELSE {to}) :
                p \in DOMAIN lists \cap DOMAIN lists' /\ lists'[p] = lists[p]
        /\ ch.share => /\ own \in DOMAIN lists \ DOMAIN lists'
                       /\ home \in DOMAIN lists' \ DOMAIN lists
                       /\ lists'[home] = lists[own]
        /\ ~ch.share =>
                /\ to \in DOMAIN lists'
                /\ AppliedWhole(IF to \in DOMAIN lists THEN lists[to] ELSE Empty, lists'[to], ch)

\* A step changes one list, all of what the change says or nothing, in a scope
\* its author may write. A list that is shared takes nobody's place, and what
\* others keep private stays as it was (apply_shared).
OneListWhole == [][ChangesOneList]_lists
=============================================================================
