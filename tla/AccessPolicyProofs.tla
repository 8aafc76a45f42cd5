------------------------- MODULE AccessPolicyProofs -------------------------
(***************************************************************************)
(* Proofs about AccessPolicy, for any household, codes, limits and clock:  *)
(* who comes to be allowed, which codes live, that a meter lets no more    *)
(* through in a window than its limit as long as it remembers the key, and *)
(* that the tables of the meters stay within their bound.                  *)
(***************************************************************************)
EXTENDS AccessPolicy, FiniteSetTheorems, TLAPS

-----------------------------------------------------------------------------
(* Codes                                                                   *)

\* The others that were texted a code that runs out no earlier.
Later(s) == {o \in DOMAIN issued \ {s} : issued[o].expires >= issued[s].expires}

\* A code that is pending was texted; the memory and the table admit the same.
CodesInv ==
    /\ now \in Nat
    /\ stored = approved
    /\ DOMAIN issued \subseteq Senders
    /\ \A s \in DOMAIN issued : issued[s].expires \in Nat /\ issued[s].expires <= now + Ttl
    /\ \A s \in DOMAIN pending : s \in DOMAIN issued /\ pending[s] = issued[s]
    /\ \A s \in DOMAIN issued : Live(issued[s]) =>
         s \in approved \/ s \in DOMAIN pending \/ Cardinality(Later(s)) >= MaxPending - 1

LEMMA FiniteSenders == IsFiniteSet(Senders)
BY FiniteAssumption, FS_Subset DEF Keys

LEMMA LaterFinite ==
    ASSUME DOMAIN issued \subseteq Senders, NEW s
    PROVE  IsFiniteSet(Later(s)) /\ Cardinality(Later(s)) \in Nat
BY FiniteSenders, FS_Subset, FS_CardinalityType DEF Later

\* What _prune leaves has not run out; what it takes from those that have not
\* is the earliest of as many as the table holds.
LEMMA PruneFacts ==
    ASSUME CodesInv, NEW kept \in Prune
    PROVE  /\ kept \subseteq DOMAIN pending
           /\ \A s \in kept : Live(pending[s])
           /\ \A s \in DOMAIN pending \ kept :
                Live(pending[s]) => Cardinality(Later(s)) >= MaxPending - 1
<1> DEFINE live == {s \in DOMAIN pending : Live(pending[s])}
<1>1. IsFiniteSet(live) /\ Cardinality(live) \in Nat /\ MaxPending \in Nat
  BY FiniteSenders, FS_Subset, FS_CardinalityType, NumbersAssumption DEF CodesInv
<1>2. CASE kept = live
  BY <1>2
<1>3. ASSUME NEW s \in live, Earliest(s), Cardinality(live) >= MaxPending, kept = live \ {s}
      PROVE  Cardinality(Later(s)) >= MaxPending - 1
  <2>1. live \ {s} \subseteq Later(s)
    <3>1. ASSUME NEW o \in live, o # s PROVE o \in Later(s)
      <4>1. pending[s].expires <= pending[o].expires
        BY <1>3, <3>1 DEF Earliest
      <4>2. /\ pending[s] = issued[s] /\ pending[o] = issued[o] /\ o \in DOMAIN issued
            /\ issued[s].expires \in Nat /\ issued[o].expires \in Nat
        BY DEF CodesInv
      <4> QED BY <3>1, <4>1, <4>2 DEF Later
    <3> QED BY <3>1
  <2>2. Cardinality(live \ {s}) = Cardinality(live) - 1
    BY <1>1, FS_RemoveElement
  <2>3. Cardinality(live \ {s}) <= Cardinality(Later(s)) /\ Cardinality(Later(s)) \in Nat
    BY <2>1, LaterFinite, FS_Subset DEF CodesInv
  <2> QED BY <1>1, <1>3, <2>2, <2>3
<1>4. \/ kept = live
      \/ \E s \in live : Earliest(s) /\ Cardinality(live) >= MaxPending /\ kept = live \ {s}
  BY <1>1 DEF Prune
<1>5. ASSUME NEW s \in live, Earliest(s), Cardinality(live) >= MaxPending, kept = live \ {s}
      PROVE  \A u \in DOMAIN pending \ kept :
               Live(pending[u]) => Cardinality(Later(u)) >= MaxPending - 1
  <2>1. \A u \in DOMAIN pending \ kept : Live(pending[u]) => u = s
    BY <1>5
  <2> QED BY <1>3, <1>5, <2>1
<1> QED BY <1>2, <1>4, <1>5

\* Codes are only replaced by ones that run out later.
LEMMA LaterGrows ==
    ASSUME CodesInv, NEW s \in DOMAIN issued, issued'[s] = issued[s],
           DOMAIN issued' \subseteq Senders,
           \A o \in DOMAIN issued :
             /\ o \in DOMAIN issued'
             /\ issued'[o].expires \in Nat /\ issued'[o].expires >= issued[o].expires
    PROVE  Cardinality(Later(s))' >= Cardinality(Later(s))
<1>1. Later(s) \subseteq Later(s)'
  BY DEF Later, CodesInv
<1>2. IsFiniteSet(Later(s)')
  BY FiniteSenders, FS_Subset DEF Later
<1>3. Cardinality(Later(s)) <= Cardinality(Later(s)') /\ Cardinality(Later(s)) \in Nat
      /\ Cardinality(Later(s)') \in Nat
  BY <1>1, <1>2, LaterFinite, FS_Subset, FS_CardinalityType DEF CodesInv
<1> QED BY <1>3

LEMMA SameLater ==
    ASSUME UNCHANGED issued, NEW s
    PROVE  Cardinality(Later(s))' = Cardinality(Later(s))
BY DEF Later

\* What a text with a code leaves.
LEMMA RequestFacts ==
    ASSUME CodesInv, NEW s \in Senders, RequestPair(s)
    PROVE  \E kept \in Prune :
             /\ DOMAIN issued' = DOMAIN issued \cup {s} /\ DOMAIN pending' = kept \cup {s}
             /\ \A o \in DOMAIN issued : o # s => issued'[o] = issued[o]
             /\ \A o \in kept : o # s => pending'[o] = pending[o]
             /\ pending'[s] = issued'[s]
             /\ issued'[s].expires \in Nat /\ issued'[s].expires <= now + Ttl
             /\ s \in DOMAIN issued => issued'[s].expires >= issued[s].expires
<1>1. PICK kept \in Prune :
        IF s \in kept
        THEN /\ pending' = [o \in kept |-> pending[o]]
             /\ issued' = [o \in DOMAIN issued \cup {s} |-> IF o = s THEN pending[s] ELSE issued[o]]
        ELSE \E code \in Codes :
             LET pair == [code |-> code, expires |-> now + Ttl] IN
             /\ pending' = [o \in kept \cup {s} |-> IF o = s THEN pair ELSE pending[o]]
             /\ issued' = [o \in DOMAIN issued \cup {s} |-> IF o = s THEN pair ELSE issued[o]]
  BY DEF RequestPair
<1>2. kept \subseteq DOMAIN pending
  BY PruneFacts
<1>3. CASE s \in kept
  <2>1. s \in DOMAIN issued /\ pending[s] = issued[s] /\ issued[s].expires \in Nat
        /\ issued[s].expires <= now + Ttl /\ kept \cup {s} = kept
    BY <1>2, <1>3 DEF CodesInv
  <2> QED BY <1>1, <1>3, <2>1
<1>4. CASE s \notin kept
  <2>1. PICK pair : /\ pair.expires = now + Ttl
                    /\ pending' = [o \in kept \cup {s} |-> IF o = s THEN pair ELSE pending[o]]
                    /\ issued' = [o \in DOMAIN issued \cup {s} |-> IF o = s THEN pair ELSE issued[o]]
    BY <1>1, <1>4
  <2>2. now + Ttl \in Nat /\ (s \in DOMAIN issued => now + Ttl >= issued[s].expires)
    BY NumbersAssumption DEF CodesInv
  <2> QED BY <2>1, <2>2
<1> QED BY <1>3, <1>4

LEMMA UnknownCodes ==
    ASSUME CodesInv, NEW s \in Senders, Unknown(s)
    PROVE  CodesInv'
<1>1. CASE UNCHANGED <<pending, issued>>
  BY <1>1, SameLater DEF CodesInv, Unknown, Live
<1>2. CASE RequestPair(s)
  <2>1. UNCHANGED <<now, stored, approved>>
    BY DEF Unknown
  <2>2. PICK kept \in Prune :
             /\ DOMAIN issued' = DOMAIN issued \cup {s} /\ DOMAIN pending' = kept \cup {s}
             /\ \A o \in DOMAIN issued : o # s => issued'[o] = issued[o]
             /\ \A o \in kept : o # s => pending'[o] = pending[o]
             /\ pending'[s] = issued'[s]
             /\ issued'[s].expires \in Nat /\ issued'[s].expires <= now + Ttl
             /\ s \in DOMAIN issued => issued'[s].expires >= issued[s].expires
    BY <1>2, RequestFacts
  <2>3. /\ kept \subseteq DOMAIN pending
        /\ \A u \in DOMAIN pending \ kept :
             Live(pending[u]) => Cardinality(Later(u)) >= MaxPending - 1
    BY PruneFacts
  <2>4. DOMAIN issued' \subseteq Senders
    BY <2>2 DEF CodesInv
  <2>5. \A o \in DOMAIN issued :
             /\ o \in DOMAIN issued'
             /\ issued'[o].expires \in Nat /\ issued'[o].expires >= issued[o].expires
    BY <2>2 DEF CodesInv
  <2>6. \A u \in DOMAIN issued' :
          issued'[u].expires \in Nat /\ issued'[u].expires <= now' + Ttl
    BY <2>1, <2>2 DEF CodesInv
  <2>7. \A u \in DOMAIN pending' : u \in DOMAIN issued' /\ pending'[u] = issued'[u]
    BY <2>2, <2>3 DEF CodesInv
  <2>8. ASSUME NEW u \in DOMAIN issued', issued'[u].expires > now', u \notin DOMAIN pending'
        PROVE  u \in approved' \/ Cardinality(Later(u))' >= MaxPending - 1
    <3>1. u # s /\ u \in DOMAIN issued /\ issued'[u] = issued[u] /\ u \notin kept
      BY <2>2, <2>8
    <3>2. Live(issued[u])
      BY <2>1, <2>8, <3>1 DEF Live
    <3>3. u \in approved \/ Cardinality(Later(u)) >= MaxPending - 1
      BY <2>3, <3>1, <3>2 DEF CodesInv
    <3>4. Cardinality(Later(u))' >= Cardinality(Later(u))
      BY <2>4, <2>5, <3>1, LaterGrows
    <3>5. Cardinality(Later(u)) \in Nat /\ Cardinality(Later(u))' \in Nat /\ MaxPending \in Nat
      <4>1. IsFiniteSet(Later(u)')
        BY <2>4, FiniteSenders, FS_Subset DEF Later
      <4> QED BY <4>1, LaterFinite, FS_CardinalityType, NumbersAssumption DEF CodesInv
    <3> QED BY <2>1, <3>3, <3>4, <3>5
  <2> QED BY <2>1, <2>4, <2>6, <2>7, <2>8 DEF CodesInv, Live
<1> QED BY <1>1, <1>2 DEF Unknown

\* What an approval leaves: nobody, or one of the senders to whom that code was
\* texted and is live, is admitted.
LEMMA ApproveFacts ==
    ASSUME CodesInv, NEW o \in Operators, NEW code \in Codes, Approve(o, code)
    PROVE  \E kept \in Prune :
             /\ UNCHANGED <<now, issued>>
             /\ \/ /\ UNCHANGED <<stored, approved>>
                   /\ pending' = [p \in kept |-> pending[p]]
                \/ \E s \in kept : /\ pending[s].code = code
                                   /\ Admit(s) /\ pending' = [p \in kept \ {s} |-> pending[p]]
BY DEF Approve

LEMMA ApproveCodes ==
    ASSUME CodesInv, NEW o \in Operators, NEW code \in Codes, Approve(o, code)
    PROVE  CodesInv'
<1>1. PICK kept \in Prune :
             /\ UNCHANGED <<now, issued>>
             /\ \/ /\ UNCHANGED <<stored, approved>>
                   /\ pending' = [p \in kept |-> pending[p]]
                \/ \E s \in kept : Admit(s) /\ pending' = [p \in kept \ {s} |-> pending[p]]
  BY ApproveFacts
<1>2. /\ kept \subseteq DOMAIN pending
      /\ \A u \in DOMAIN pending \ kept :
           Live(pending[u]) => Cardinality(Later(u)) >= MaxPending - 1
  BY PruneFacts
<1>3. /\ DOMAIN pending' \subseteq kept
      /\ \A u \in DOMAIN pending' : pending'[u] = pending[u]
      /\ stored' = approved' /\ approved \subseteq approved'
      /\ \A u \in kept : u \in approved' \/ u \in DOMAIN pending'
  BY <1>1 DEF Admit, CodesInv
<1>4. \A u \in DOMAIN issued : Cardinality(Later(u))' = Cardinality(Later(u))
  BY <1>1, SameLater
<1>5. ASSUME NEW u \in DOMAIN issued', issued'[u].expires > now', u \notin DOMAIN pending'
      PROVE  u \in approved' \/ Cardinality(Later(u))' >= MaxPending - 1
  <2>1. u \in DOMAIN issued /\ Live(issued[u])
    BY <1>1, <1>5 DEF Live
  <2>2. u \in approved \/ u \in DOMAIN pending \/ Cardinality(Later(u)) >= MaxPending - 1
    BY <2>1 DEF CodesInv
  <2>3. u \in DOMAIN pending => pending[u] = issued[u]
    BY DEF CodesInv
  <2>4. Cardinality(Later(u))' = Cardinality(Later(u))
    BY <1>1, SameLater
  <2> QED BY <1>2, <1>3, <1>5, <2>1, <2>2, <2>3, <2>4
<1>6. \A u \in DOMAIN issued' : issued'[u].expires \in Nat /\ issued'[u].expires <= now' + Ttl
  BY <1>1 DEF CodesInv
<1>7. \A u \in DOMAIN pending' : u \in DOMAIN issued' /\ pending'[u] = issued'[u]
  BY <1>1, <1>2, <1>3 DEF CodesInv
<1> QED BY <1>1, <1>3, <1>5, <1>6, <1>7 DEF CodesInv, Live

LEMMA StillCodes ==
    ASSUME CodesInv, UNCHANGED <<now, stored, approved, pending, issued>>
    PROVE  CodesInv'
BY SameLater DEF CodesInv, Live

LEMMA TickCodes ==
    ASSUME CodesInv, Tick
    PROVE  CodesInv'
<1>1. now' = now + 1 /\ UNCHANGED <<stored, approved, pending, issued>>
  BY DEF Tick
<1>2. \A s \in DOMAIN issued' : issued'[s].expires \in Nat /\ issued'[s].expires <= now' + Ttl
  BY <1>1, NumbersAssumption DEF CodesInv
<1>3. ASSUME NEW s \in DOMAIN issued', issued'[s].expires > now'
      PROVE  s \in approved' \/ s \in DOMAIN pending' \/ Cardinality(Later(s))' >= MaxPending - 1
  BY <1>1, <1>2, <1>3, SameLater DEF CodesInv, Live
<1> QED BY <1>1, <1>2, <1>3 DEF CodesInv, Live

LEMMA RestartCodes ==
    ASSUME CodesInv, Restart
    PROVE  CodesInv'
<1>1. /\ DOMAIN pending' = {} /\ DOMAIN issued' = {} /\ now' = now /\ stored' = approved'
  BY DEF Restart, Fresh, Nothing
<1> QED BY <1>1 DEF CodesInv

\* The codes that were texted are those that wait, and the table in memory is the
\* stored one (request_pair, approve, Store.admit).
THEOREM CodesKept == Spec => []CodesInv
<1>1. Init => CodesInv
  BY DEF Init, Nothing, CodesInv
<1>2. CodesInv /\ [Next]_vars => CodesInv'
  BY UnknownCodes, ApproveCodes, StillCodes, TickCodes, RestartCodes
     DEF Next, vars, Message, Notify, Notified
<1> QED BY <1>1, <1>2, PTL DEF Spec

\* A code that was texted and has not run out can still be approved, unless as
\* many others as the table holds beside it run out no earlier (policy.py).
THEOREM CodesLive == Spec => []CodeLives
<1>1. CodesInv => CodeLives
  BY DEF CodesInv, CodeLives, Later
<1> QED BY <1>1, CodesKept, PTL

\* What a start imports was in the file.
LEMMA ImportFacts ==
    ASSUME NEW f, NEW i \in Imports(f), NEW s \in i.to
    PROVE  \E k \in 1..Len(f) : s = f[k]
<1>1. PICK n \in 0..Len(f) : i.to = {f[k] : k \in 1..n}
  BY DEF Imports
<1> QED BY <1>1

\* A number comes to be allowed only when the code that was texted to it last,
\* and has not run out, is typed, or from the old file at a start; it stays
\* allowed (policy.py, Store.admit, import_legacy_allowlist).
THEOREM AdmitsByCode == Spec => AdmittedByItsCode
<1>1. ASSUME CodesInv, [Next]_vars
      PROVE  AdmitsByItsCode
  <2>1. CASE UNCHANGED approved
    BY <2>1 DEF AdmitsByItsCode
  <2>2. ASSUME NEW o \in Operators, NEW code \in Codes, Approve(o, code), typed' = code
        PROVE  AdmitsByItsCode
    <3>1. PICK kept \in Prune :
             \/ UNCHANGED approved
             \/ \E s \in kept : pending[s].code = code /\ Admit(s)
      BY <1>1, <2>2, ApproveFacts
    <3>2. \A s \in kept : s \in DOMAIN pending /\ Live(pending[s])
      BY <1>1, PruneFacts
    <3>3. \A s \in kept : s \in DOMAIN issued /\ Live(issued[s]) /\ pending[s] = issued[s]
      BY <1>1, <3>2 DEF CodesInv
    <3> QED BY <1>1, <2>2, <3>1, <3>3 DEF Admit, AdmitsByItsCode, CodesInv
  <2>3. CASE Restart
    <3>1. PICK i \in Imports(file) : approved' = stored \cup i.to /\ stored' = approved'
      BY <2>3 DEF Restart
    <3>2. \A s \in i.to : \E k \in 1..Len(file) : s = file[k]
      BY ImportFacts
    <3>3. pending' = Nothing /\ stored = approved
      BY <1>1, <2>3 DEF Restart, Fresh, CodesInv
    <3> QED BY <3>1, <3>2, <3>3 DEF AdmitsByItsCode
  <2> QED
    BY <1>1, <2>1, <2>2, <2>3 DEF Next, vars, Unknown, Message, Notify, Notified, Tick
<1> QED BY <1>1, CodesKept, PTL DEF Spec, AdmittedByItsCode

-----------------------------------------------------------------------------
(* Tables                                                                  *)

Within(h) == DOMAIN h \subseteq Keys /\ Cardinality(DOMAIN h) <= MaxKeys

TablesInv ==
    /\ hits = [m \in Meters |-> hits[m]]
    /\ \A m \in Meters : Within(hits[m])
    /\ sending \in Agents \cup {Nobody}

\* There is room for one more key among those that _evict leaves.
LEMMA RoomIsMade ==
    ASSUME NEW h, Within(h), NEW w, NEW t, NEW kept \in Survivors(h, w, t)
    PROVE  kept \subseteq Keys /\ Cardinality(kept) < MaxKeys
<1> DEFINE fresh == {k \in DOMAIN h : ~Stale(h[k], w, t)}
<1>1. IsFiniteSet(DOMAIN h) /\ IsFiniteSet(fresh)
  BY FiniteAssumption, FS_Subset DEF Within
<1>2. /\ Cardinality(DOMAIN h) \in Nat /\ Cardinality(fresh) \in Nat
      /\ Cardinality(fresh) <= Cardinality(DOMAIN h) /\ MaxKeys \in Nat
  BY <1>1, FS_CardinalityType, FS_Subset, MaxKeysAssumption
<1>3. \A k \in fresh : Cardinality(fresh \ {k}) = Cardinality(fresh) - 1
  BY <1>1, FS_RemoveElement
<1>4. \/ kept = DOMAIN h /\ Cardinality(DOMAIN h) < MaxKeys
      \/ kept = fresh /\ Cardinality(fresh) < MaxKeys
      \/ \E k \in fresh : kept = fresh \ {k}
  BY <1>2 DEF Survivors
<1>5. fresh \subseteq Keys /\ DOMAIN h \subseteq Keys /\ Cardinality(DOMAIN h) <= MaxKeys
  BY DEF Within
<1> HIDE DEF fresh
<1>6. CASE \E k \in fresh : kept = fresh \ {k}
  <2>1. Cardinality(kept) = Cardinality(fresh) - 1 /\ kept \subseteq fresh
    BY <1>3, <1>6
  <2> QED BY <1>2, <1>5, <2>1
<1> QED BY <1>4, <1>5, <1>6

LEMMA PreparedFits ==
    ASSUME NEW h, Within(h), NEW k \in Keys, NEW w, NEW t, NEW table \in Prepare(h, k, w, t)
    PROVE  Within(table)
<1>1. PICK kept \in Survivors(h, w, t) : DOMAIN table = kept \cup {k}
  BY DEF Prepare
<1>2. kept \subseteq Keys /\ Cardinality(kept) < MaxKeys
  BY RoomIsMade
<1>3. IsFiniteSet(kept) /\ Cardinality(kept) \in Nat
  BY <1>2, FiniteAssumption, FS_Subset, FS_CardinalityType
<1>4. Cardinality(kept \cup {k}) <= Cardinality(kept) + 1 /\ Cardinality(kept \cup {k}) \in Nat
  <2>1. /\ IsFiniteSet(kept \cup {k})
        /\ Cardinality(kept \cup {k}) = IF k \in kept THEN Cardinality(kept) ELSE Cardinality(kept) + 1
    BY <1>3, FS_AddElement
  <2> QED BY <1>3, <2>1
<1> QED BY <1>1, <1>2, <1>3, <1>4, MaxKeysAssumption DEF Within

LEMMA SpendFits ==
    ASSUME NEW h, Within(h), NEW k, NEW t
    PROVE  Within(Spend(h, k, t))
BY DEF Within, Spend

\* One meter gets a table within its bound, the others stay.
LEMMA TablePut ==
    ASSUME TablesInv, NEW m \in Meters, NEW h, Within(h), hits' = [hits EXCEPT ![m] = h],
           sending' \in Agents \cup {Nobody}
    PROVE  TablesInv'
BY DEF TablesInv

LEMMA SpendsTables ==
    ASSUME TablesInv, NEW m \in Meters, NEW k \in Keys, Spends(m, k) \/ Refuses(m, k),
           sending' = sending
    PROVE  TablesInv'
<1>1. PICK table \in Prepare(hits[m], k, Window[m], now) :
        hits' = [hits EXCEPT ![m] = Spend(table, k, now)] \/ hits' = [hits EXCEPT ![m] = table]
  BY DEF Spends, Refuses
<1>2. Within(table)
  BY PreparedFits DEF TablesInv
<1>3. PICK h : h = Spend(table, k, now)
  OBVIOUS
<1>4. Within(h) /\ sending' \in Agents \cup {Nobody}
  BY <1>2, <1>3, SpendFits DEF TablesInv
<1> QED BY <1>1, <1>2, <1>3, <1>4, TablePut

LEMMA NotifyTables ==
    ASSUME TablesInv, NEW a \in Agents, Notify(a)
    PROVE  TablesInv'
<1>1. PICK table \in Prepare(hits["reports"], a, Window["reports"], now) :
        hits' = [hits EXCEPT !["reports"] = table] /\ sending' \in {a, Nobody}
  BY DEF Notify
<1>2. Within(table)
  BY PreparedFits DEF TablesInv, Meters, Keys
<1> QED BY <1>1, <1>2, TablePut DEF Meters

LEMMA NotifiedTables ==
    ASSUME TablesInv, Notified
    PROVE  TablesInv'
<1>1. sending \in Keys /\ sending' = Nobody
  BY DEF Notified, TablesInv, Keys
<1>2. CASE UNCHANGED hits
  BY <1>1, <1>2 DEF TablesInv
<1>3. ASSUME NEW table \in Prepare(hits["reports"], sending, Window["reports"], now),
             hits' = [hits EXCEPT !["reports"] = Spend(table, sending, now)]
      PROVE  TablesInv'
  <2>1. PICK h : h = Spend(table, sending, now)
    OBVIOUS
  <2>2. Within(table)
    BY <1>1, PreparedFits DEF TablesInv, Meters
  <2>3. Within(h)
    BY <2>1, <2>2, SpendFits
  <2> QED BY <1>1, <1>3, <2>1, <2>3, TablePut DEF Meters
<1> QED BY <1>2, <1>3 DEF Notified

LEMMA EmptyTable == Within(NoHits)
<1>1. DOMAIN NoHits = {}
  BY DEF NoHits
<1> QED BY <1>1, FS_EmptySet, MaxKeysAssumption DEF Within

\* However many numbers write and agents report, no meter holds more keys than
\* its bound (ratelimit.py, _evict).
THEOREM TablesStaySmall == Spec => []TablesBounded
<1>1. Init => TablesInv
  BY EmptyTable DEF Init, TablesInv
<1>2. TablesInv /\ [Next]_vars => TablesInv'
  <2> SUFFICES ASSUME TablesInv, [Next]_vars PROVE TablesInv'
    OBVIOUS
  <2>1. ASSUME NEW s \in Senders, Unknown(s) \/ Message(s)
        PROVE  TablesInv'
    <3>1. \E m \in Meters : Spends(m, s) \/ Refuses(m, s)
      BY <2>1 DEF Unknown, Message, Meters
    <3>2. s \in Keys /\ sending' = sending
      BY <2>1 DEF Unknown, Message, Keys
    <3> QED BY <3>1, <3>2, SpendsTables
  <2>2. CASE UNCHANGED <<hits, sending>>
    BY <2>2 DEF TablesInv
  <2>3. CASE Restart
    BY <2>3, EmptyTable DEF Restart, Fresh, TablesInv
  <2> QED
    BY <2>1, <2>2, <2>3, NotifyTables, NotifiedTables DEF Next, vars, Approve, Tick
<1>3. TablesInv => TablesBounded
  BY DEF TablesInv, Within, TablesBounded
<1> QED BY <1>1, <1>2, <1>3, PTL DEF Spec

-----------------------------------------------------------------------------
(* Meters                                                                  *)

\* A set of numbers that holds 0, and n + 1 for each n of it, holds every number.
\* If it lacked n, adding one would map its part below n into itself, injectively
\* and not onto 0: no finite set allows that.
LEMMA Induction ==
    ASSUME NEW S \in SUBSET Nat, 0 \in S, \A n \in S : n + 1 \in S
    PROVE  S = Nat
<1> SUFFICES ASSUME NEW n \in Nat, n \notin S PROVE FALSE
  OBVIOUS
<1> DEFINE T == S \cap (0..n)
           f == [x \in T |-> x + 1]
<1>1. IsFiniteSet(T)
  <2>1. IsFiniteSet(0..n)
    BY FS_Interval
  <2> QED
    BY <2>1, FS_Subset
<1>2. f \in [T -> T]
  <2>1. ASSUME NEW x \in T PROVE x + 1 \in T
    BY <2>1
  <2> QED
    BY <2>1
<1>3. f \in Injection(T, T)
  BY <1>2 DEF Injection, IsInjective
<1>4. f \in Surjection(T, T)
  BY <1>1, <1>3, FS_Injection
<1>5. 0 \in T
  OBVIOUS
<1>6. PICK x \in T : f[x] = 0
  BY <1>4, <1>5 DEF Surjection
<1> QED
  BY <1>6

\* The loop that pops old hits ends: what it leaves starts with one that
\* counts, or is empty.
LEMMA PopEnds ==
    ASSUME NEW h \in Seq(Nat), NEW w, NEW t
    PROVE  \E n \in 0..Len(h) : /\ \A i \in 1..n : ~Counts(h[i], w, t)
                                /\ n = Len(h) \/ Counts(h[n + 1], w, t)
<1> SUFFICES ASSUME \A n \in 0..Len(h) : (\A i \in 1..n : ~Counts(h[i], w, t)) =>
                      n # Len(h) /\ ~Counts(h[n + 1], w, t)
             PROVE  FALSE
  OBVIOUS
<1> DEFINE S == {n \in Nat : n <= Len(h) => \A i \in 1..n : ~Counts(h[i], w, t)}
<1>0. Len(h) \in Nat
  OBVIOUS
<1>1. 0 \in S
  OBVIOUS
<1>2. \A n \in S : n + 1 \in S
  <2> SUFFICES ASSUME NEW n \in S PROVE n + 1 \in S
    OBVIOUS
  <2>1. n \in Nat /\ (n <= Len(h) => \A i \in 1..n : ~Counts(h[i], w, t))
    OBVIOUS
  <2>2. ASSUME n + 1 <= Len(h), NEW i \in 1..(n + 1) PROVE ~Counts(h[i], w, t)
    <3>1. n \in 0..Len(h) /\ \A j \in 1..n : ~Counts(h[j], w, t)
      BY <1>0, <2>1, <2>2
    <3>2. ~Counts(h[n + 1], w, t)
      BY <3>1
    <3>3. i \in 1..n \/ i = n + 1
      BY <2>1
    <3> QED BY <3>1, <3>2, <3>3
  <2>3. n + 1 \in Nat /\ (n + 1 <= Len(h) => \A i \in 1..(n + 1) : ~Counts(h[i], w, t))
    BY <2>1, <2>2
  <2> QED BY <2>3
<1>3. S = Nat
  <2>1. S \in SUBSET Nat
    OBVIOUS
  <2> HIDE DEF S
  <2> QED BY <1>1, <1>2, <2>1, Induction
<1>4. \A i \in 1..Len(h) : ~Counts(h[i], w, t)
  <2>1. Len(h) \in S
    <3> HIDE DEF S
    <3> QED BY <1>0, <1>3
  <2> QED BY <1>0, <2>1
<1> QED BY <1>0, <1>4

\* What _prepare leaves of a deque is its end, without hits that no longer count.
Pops(h, w, t, r) ==
    \E n \in 0..Len(h) : /\ \A i \in 1..n : ~Counts(h[i], w, t)
                         /\ r \in Seq(Nat) /\ Len(r) = Len(h) - n
                         /\ \A j \in 1..(Len(h) - n) : r[j] = h[n + j]

LEMMA RecentFacts ==
    ASSUME NEW h \in Seq(Nat), NEW w, NEW t
    PROVE  Pops(h, w, t, Recent(h, w, t))
<1> DEFINE Old(n) == /\ \A i \in 1..n : ~Counts(h[i], w, t)
                     /\ n = Len(h) \/ Counts(h[n + 1], w, t)
           old == CHOOSE n \in 0..Len(h) : Old(n)
<1>1. old \in 0..Len(h) /\ Old(old)
  <2>1. \E n \in 0..Len(h) : Old(n)
    BY PopEnds
  <2> HIDE DEF Old
  <2> QED BY <2>1
<1>2. Recent(h, w, t) = SubSeq(h, old + 1, Len(h))
  BY DEF Recent
<1>3. PICK n : n = old
  OBVIOUS
<1>4. n \in 0..Len(h) /\ (\A i \in 1..n : ~Counts(h[i], w, t)) /\ Recent(h, w, t) = SubSeq(h, n + 1, Len(h))
  BY <1>1, <1>2, <1>3
<1>5. /\ SubSeq(h, n + 1, Len(h)) \in Seq(Nat)
      /\ Len(SubSeq(h, n + 1, Len(h))) = Len(h) - n
      /\ \A j \in 1..(Len(h) - n) : SubSeq(h, n + 1, Len(h))[j] = h[n + j]
  <2>1. n \in 0..Len(h) /\ Len(h) \in Nat
    BY <1>4
  <2> QED BY ONLY h \in Seq(Nat), <2>1, SMTT(30)
<1> QED BY <1>4, <1>5 DEF Pops

\* The hits that a table holds of a key, oldest first.
Held(table, k) == IF k \in DOMAIN table THEN table[k] ELSE <<>>

\* Active and Crowded, of any record s of what a meter let through until n.
ActiveKeys(m, s, t) ==
    {k \in Keys : \E i \in 1..Len(s[k]) : s[k][i] <= t /\ Counts(s[k][i], Window[m], t)}
CrowdedSince(m, s, from, n) == \E t \in from..n : Cardinality(ActiveKeys(m, s, t)) >= MaxKeys

\* The hits h that a table holds of a key are the last times it was let through;
\* those it lacks no longer count, or the table was crowded since.
Accounts(m, s, k, h, n) ==
    /\ h \in Seq(Nat) /\ Len(h) <= Len(s[k])
    /\ \A j \in 1..Len(h) : h[j] = s[k][(Len(s[k]) - Len(h)) + j]
    /\ \A i \in 1..(Len(s[k]) - Len(h)) :
         ~Counts(s[k][i], Window[m], n) \/ CrowdedSince(m, s, s[k][i], n)

\* The last time is the latest, and none is after n.
InOrder(s, k, n) == \A i \in 1..Len(s[k]) : s[k][i] <= n /\ s[k][i] <= s[k][Len(s[k])]

MeterOk(m, table, s, n) ==
    /\ s \in [Keys -> Seq(Nat)] /\ DOMAIN table \subseteq Keys
    /\ \A k \in Keys : /\ Accounts(m, s, k, Held(table, k), n)
                       /\ Len(Held(table, k)) <= Limit[m]
                       /\ InOrder(s, k, n)

\* A report on its way has room in its meter; while it is, no other is let through.
MetersInv ==
    /\ now \in Nat
    /\ hits = [m \in Meters |-> hits[m]] /\ spent = [m \in Meters |-> spent[m]]
    /\ \A m \in Meters : MeterOk(m, hits[m], spent[m], now)
    /\ sending \in Agents \cup {Nobody}
    /\ sending # Nobody => Len(Held(hits["reports"], sending)) < Limit["reports"]

\* A meter that was crowded stays so as time passes and keys are let through.
LEMMA CrowdedStays ==
    ASSUME NEW m \in Meters, NEW s \in [Keys -> Seq(Nat)], NEW r \in [Keys -> Seq(Nat)],
           NEW n \in Nat, NEW u \in Nat, n <= u,
           \A k \in Keys : Len(s[k]) <= Len(r[k]) /\ \A i \in 1..Len(s[k]) : r[k][i] = s[k][i],
           NEW from \in Nat, CrowdedSince(m, s, from, n)
    PROVE  CrowdedSince(m, r, from, u)
<1>1. PICK t \in from..n : Cardinality(ActiveKeys(m, s, t)) >= MaxKeys
  BY DEF CrowdedSince
<1>2. ActiveKeys(m, s, t) \subseteq ActiveKeys(m, r, t)
  <2> SUFFICES ASSUME NEW k \in ActiveKeys(m, s, t) PROVE k \in ActiveKeys(m, r, t)
    OBVIOUS
  <2>1. PICK i \in 1..Len(s[k]) : s[k][i] <= t /\ Counts(s[k][i], Window[m], t)
    BY DEF ActiveKeys
  <2>2. k \in Keys
    BY DEF ActiveKeys
  <2>3. Len(s[k]) \in Nat /\ Len(r[k]) \in Nat /\ Len(s[k]) <= Len(r[k]) /\ r[k][i] = s[k][i]
    BY <2>2
  <2>4. i \in 1..Len(r[k])
    BY <2>3
  <2> QED BY <2>1, <2>2, <2>3, <2>4 DEF ActiveKeys
<1>3. IsFiniteSet(ActiveKeys(m, r, t))
  BY FiniteAssumption, FS_Subset DEF ActiveKeys
<1>4. Cardinality(ActiveKeys(m, s, t)) <= Cardinality(ActiveKeys(m, r, t))
      /\ IsFiniteSet(ActiveKeys(m, s, t))
  BY <1>2, <1>3, FS_Subset
<1>5. Cardinality(ActiveKeys(m, s, t)) \in Nat /\ Cardinality(ActiveKeys(m, r, t)) \in Nat
  BY <1>3, <1>4, FS_CardinalityType
<1>6. Cardinality(ActiveKeys(m, r, t)) >= MaxKeys /\ t \in from..u
  BY <1>1, <1>4, <1>5, MaxKeysAssumption
<1> QED BY <1>6 DEF CrowdedSince

LEMMA TimesTyped ==
    ASSUME NEW s \in [Keys -> Seq(Nat)], NEW k \in Keys
    PROVE  /\ s[k] \in Seq(Nat) /\ Len(s[k]) \in Nat
           /\ \A i \in 1..Len(s[k]) : s[k][i] \in Nat
OBVIOUS

\* A table whose key was used last at a time that no longer counts has no hit
\* that counts.
LEMMA StaleKeys ==
    ASSUME NEW m \in Meters, NEW table, NEW s, NEW n \in Nat, MeterOk(m, table, s, n),
           NEW k \in DOMAIN table, Stale(table[k], Window[m], n)
    PROVE  \A i \in 1..Len(s[k]) :
             ~Counts(s[k][i], Window[m], n) \/ CrowdedSince(m, s, s[k][i], n)
<1>1. /\ k \in Keys /\ s \in [Keys -> Seq(Nat)] /\ Held(table, k) = table[k]
      /\ Accounts(m, s, k, table[k], n) /\ InOrder(s, k, n)
  BY DEF MeterOk, Held
<1>2. PICK h : h = table[k]
  OBVIOUS
<1>3. /\ h \in Seq(Nat) /\ Len(h) <= Len(s[k]) /\ Len(h) \in Nat /\ Len(s[k]) \in Nat
      /\ \A j \in 1..Len(h) : h[j] = s[k][(Len(s[k]) - Len(h)) + j]
      /\ \A i \in 1..(Len(s[k]) - Len(h)) :
           ~Counts(s[k][i], Window[m], n) \/ CrowdedSince(m, s, s[k][i], n)
  BY <1>1, <1>2 DEF Accounts
<1>4. CASE Len(h) = 0
  <2>1. Len(s[k]) - Len(h) = Len(s[k])
    BY <1>3, <1>4
  <2> QED BY <1>3, <2>1
<1>5. CASE Len(h) # 0
  <2>1. Len(h) \in 1..Len(h) /\ (Len(s[k]) - Len(h)) + Len(h) = Len(s[k])
    BY <1>3, <1>5
  <2>2. h[Len(h)] = s[k][Len(s[k])]
    BY <1>3, <2>1
  <2>3. ~Counts(h[Len(h)], Window[m], n)
    <3>1. h # <<>>
      BY <1>5
    <3> QED BY <1>2, <3>1 DEF Stale, Last
  <2>4. PICK last : last = s[k][Len(s[k])]
    OBVIOUS
  <2>5. last \in Nat /\ ~Counts(last, Window[m], n)
    <3>1. Len(s[k]) \in 1..Len(s[k])
      BY <1>3, <1>5
    <3> QED BY <1>1, <2>2, <2>3, <2>4, <3>1, TimesTyped
  <2>6. ASSUME NEW i \in 1..Len(s[k]) PROVE ~Counts(s[k][i], Window[m], n)
    <3>1. s[k][i] <= last /\ s[k][i] \in Nat
      BY <1>1, <2>4, TimesTyped DEF InOrder
    <3>2. Window[m] \in Nat
      BY NumbersAssumption
    <3> QED BY <2>5, <3>1, <3>2 DEF Counts
  <2> QED BY <2>6
<1> QED BY <1>4, <1>5

\* The keys of a table that are not stale are active.
LEMMA FreshActive ==
    ASSUME NEW m \in Meters, NEW table, NEW s, NEW n \in Nat, MeterOk(m, table, s, n),
           NEW k \in DOMAIN table, ~Stale(table[k], Window[m], n)
    PROVE  k \in ActiveKeys(m, s, n)
<1>1. /\ k \in Keys /\ s \in [Keys -> Seq(Nat)] /\ Held(table, k) = table[k]
      /\ Accounts(m, s, k, table[k], n) /\ InOrder(s, k, n)
  BY DEF MeterOk, Held
<1>2. PICK h : h = table[k]
  OBVIOUS
<1>3. /\ h \in Seq(Nat) /\ Len(h) <= Len(s[k]) /\ Len(h) \in Nat /\ Len(s[k]) \in Nat
      /\ \A j \in 1..Len(h) : h[j] = s[k][(Len(s[k]) - Len(h)) + j]
  BY <1>1, <1>2 DEF Accounts
<1>4. h # <<>> /\ Counts(h[Len(h)], Window[m], n)
  BY <1>2 DEF Stale, Last
<1>5. Len(h) # 0
  BY <1>3, <1>4
<1>6. Len(h) \in 1..Len(h) /\ (Len(s[k]) - Len(h)) + Len(h) = Len(s[k]) /\ Len(s[k]) \in 1..Len(s[k])
  BY <1>3, <1>5
<1>7. h[Len(h)] = s[k][Len(s[k])]
  BY <1>3, <1>6
<1>8. s[k][Len(s[k])] <= n
  BY <1>1, <1>6 DEF InOrder
<1> QED BY <1>1, <1>4, <1>6, <1>7, <1>8 DEF ActiveKeys

\* A key that _evict takes had no hit that counts, or the table was crowded.
LEMMA EvictedKeys ==
    ASSUME NEW m \in Meters, NEW table, NEW s, NEW n \in Nat, MeterOk(m, table, s, n),
           NEW kept \in Survivors(table, Window[m], n), NEW k \in DOMAIN table \ kept
    PROVE  \A i \in 1..Len(s[k]) :
             ~Counts(s[k][i], Window[m], n) \/ CrowdedSince(m, s, s[k][i], n)
<1> DEFINE fresh == {o \in DOMAIN table : ~Stale(table[o], Window[m], n)}
<1>1. CASE k \notin fresh
  BY <1>1, StaleKeys
<1>2. CASE k \in fresh
  <2>0. DOMAIN table \subseteq Keys /\ s \in [Keys -> Seq(Nat)] /\ InOrder(s, k, n) /\ k \in Keys
    BY DEF MeterOk
  <2>1. IsFiniteSet(DOMAIN table) /\ IsFiniteSet(fresh)
    BY <2>0, FiniteAssumption, FS_Subset
  <2>2. Cardinality(DOMAIN table) \in Nat /\ Cardinality(fresh) \in Nat /\ MaxKeys \in Nat
    BY <2>1, FS_CardinalityType, MaxKeysAssumption
  <2>3. Cardinality(fresh) >= MaxKeys
    <3>1. kept # DOMAIN table /\ kept # fresh
      BY <1>2
    <3> QED BY <2>2, <3>1 DEF Survivors
  <2>4. fresh \subseteq ActiveKeys(m, s, n)
    BY FreshActive
  <2>5. IsFiniteSet(ActiveKeys(m, s, n))
    BY FiniteAssumption, FS_Subset DEF ActiveKeys
  <2>6. Cardinality(fresh) <= Cardinality(ActiveKeys(m, s, n))
    BY <2>4, <2>5, FS_Subset
  <2>7. Cardinality(ActiveKeys(m, s, n)) \in Nat
    BY <2>5, FS_CardinalityType
  <2>8. Cardinality(ActiveKeys(m, s, n)) >= MaxKeys
    BY <2>2, <2>3, <2>6, <2>7
  <2>9. ASSUME NEW i \in 1..Len(s[k]) PROVE CrowdedSince(m, s, s[k][i], n)
    <3>1. s[k][i] <= n /\ s[k][i] \in Nat
      BY <2>0, TimesTyped DEF InOrder
    <3>2. n \in s[k][i]..n
      BY <3>1
    <3> QED BY <2>8, <3>2 DEF CrowdedSince
  <2> QED BY <2>9
<1> QED BY <1>1, <1>2

LEMMA EmptyAccounts ==
    ASSUME NEW m \in Meters, NEW s \in [Keys -> Seq(Nat)], NEW k \in Keys, NEW n,
           \A i \in 1..Len(s[k]) : ~Counts(s[k][i], Window[m], n) \/ CrowdedSince(m, s, s[k][i], n)
    PROVE  Accounts(m, s, k, <<>>, n)
<1>1. Len(s[k]) \in Nat /\ Len(s[k]) - 0 = Len(s[k])
  BY TimesTyped
<1>2. <<>> \in Seq(Nat) /\ Len(<<>>) = 0
  OBVIOUS
<1> QED BY <1>1, <1>2 DEF Accounts

\* Popping hits that no longer count.
LEMMA RecentAccounts ==
    ASSUME NEW m \in Meters, NEW s \in [Keys -> Seq(Nat)], NEW k \in Keys, NEW n \in Nat,
           NEW h, Accounts(m, s, k, h, n)
    PROVE  /\ Accounts(m, s, k, Recent(h, Window[m], n), n)
           /\ Len(Recent(h, Window[m], n)) <= Len(h)
<1>1. /\ h \in Seq(Nat) /\ Len(h) <= Len(s[k]) /\ Len(h) \in Nat /\ Len(s[k]) \in Nat
      /\ \A j \in 1..Len(h) : h[j] = s[k][(Len(s[k]) - Len(h)) + j]
      /\ \A i \in 1..(Len(s[k]) - Len(h)) :
           ~Counts(s[k][i], Window[m], n) \/ CrowdedSince(m, s, s[k][i], n)
  BY TimesTyped DEF Accounts
<1>2. PICK r : r = Recent(h, Window[m], n)
  OBVIOUS
<1>3. PICK old \in 0..Len(h) :
             /\ \A i \in 1..old : ~Counts(h[i], Window[m], n)
             /\ r \in Seq(Nat) /\ Len(r) = Len(h) - old
             /\ \A j \in 1..(Len(h) - old) : r[j] = h[old + j]
  <2>1. h \in Seq(Nat)
    BY <1>1
  <2>2. Pops(h, Window[m], n, r)
    BY <1>2, <2>1, RecentFacts
  <2> QED BY <2>2 DEF Pops
<1>4. PICK gap : gap = Len(s[k]) - Len(h)
  OBVIOUS
<1>5. gap \in Nat /\ old \in Nat /\ Len(r) <= Len(h) /\ Len(r) \in Nat /\ Len(r) <= Len(s[k])
      /\ Len(s[k]) - Len(r) = gap + old
  BY <1>1, <1>3, <1>4
<1>6. ASSUME NEW j \in 1..Len(r) PROVE r[j] = s[k][(Len(s[k]) - Len(r)) + j]
  <2>1. j \in 1..(Len(h) - old)
    BY <1>3, <1>6
  <2>2. r[j] = h[old + j]
    BY <1>3, <2>1
  <2>3. old + j \in 1..Len(h)
    BY <1>1, <1>3, <2>1, SMTT(30)
  <2>4. h[old + j] = s[k][gap + (old + j)]
    BY <1>1, <1>4, <2>3
  <2>5. gap + (old + j) = (Len(s[k]) - Len(r)) + j
    <3>1. j \in Nat /\ gap \in Nat /\ old \in Nat /\ gap + (old + j) = (gap + old) + j
      BY <1>5
    <3> QED BY <1>5, <3>1
  <2> QED BY <2>2, <2>4, <2>5
<1>7. ASSUME NEW i \in 1..(Len(s[k]) - Len(r))
      PROVE  ~Counts(s[k][i], Window[m], n) \/ CrowdedSince(m, s, s[k][i], n)
  <2>1. CASE i <= gap
    <3>1. i \in 1..(Len(s[k]) - Len(h))
      BY <1>4, <1>5, <2>1
    <3> QED BY <1>1, <3>1
  <2>2. CASE i > gap
    <3>1. PICK j : j = i - gap
      OBVIOUS
    <3>2. j \in 1..old /\ gap + j = i
      BY <1>5, <2>2, <3>1
    <3>3. j \in 1..Len(h)
      BY <1>1, <1>3, <3>2
    <3>4. h[j] = s[k][i]
      BY <1>1, <1>4, <3>2, <3>3
    <3> QED BY <1>3, <3>2, <3>4
  <2> QED BY <1>5, <2>1, <2>2
<1>8. Accounts(m, s, k, r, n)
  BY <1>3, <1>5, <1>6, <1>7 DEF Accounts
<1> QED BY <1>2, <1>5, <1>8

\* What _prepare leaves accounts for every key, and holds no more of any.
LEMMA PreparedOk ==
    ASSUME NEW m \in Meters, NEW h, NEW s, NEW n \in Nat, MeterOk(m, h, s, n),
           NEW k \in Keys, NEW table \in Prepare(h, k, Window[m], n)
    PROVE  /\ MeterOk(m, table, s, n) /\ k \in DOMAIN table
           /\ \A o \in Keys : Len(Held(table, o)) <= Len(Held(h, o))
<1>1. PICK kept \in Survivors(h, Window[m], n) :
        table = [o \in kept \cup {k} |-> IF o # k THEN h[o]
                   ELSE IF k \in kept THEN Recent(h[k], Window[m], n) ELSE <<>>]
  BY DEF Prepare
<1>2. s \in [Keys -> Seq(Nat)] /\ DOMAIN h \subseteq Keys /\ Limit[m] \in Nat
  BY NumbersAssumption DEF MeterOk
<1>3. kept \subseteq DOMAIN h
  <2> DEFINE fresh == {o \in DOMAIN h : ~Stale(h[o], Window[m], n)}
  <2>1. kept = DOMAIN h \/ kept = fresh \/ \E o \in fresh : kept = fresh \ {o}
    <3>1. \/ Cardinality(DOMAIN h) < MaxKeys
          \/ Cardinality(DOMAIN h) >= MaxKeys /\ Cardinality(fresh) < MaxKeys
          \/ ~(Cardinality(DOMAIN h) < MaxKeys)
             /\ ~(Cardinality(DOMAIN h) >= MaxKeys /\ Cardinality(fresh) < MaxKeys)
      OBVIOUS
    <3>2. IsFiniteSet(DOMAIN h)
      BY <1>2, FiniteAssumption, FS_Subset
    <3>3. Cardinality(DOMAIN h) \in Nat /\ MaxKeys \in Nat
      BY <3>2, FS_CardinalityType, MaxKeysAssumption
    <3> QED BY <3>1, <3>3 DEF Survivors
  <2> QED BY <2>1
<1>4. ASSUME NEW o \in Keys
      PROVE  /\ Accounts(m, s, o, Held(table, o), n)
             /\ Len(Held(table, o)) <= Len(Held(h, o)) /\ Len(Held(h, o)) <= Limit[m]
             /\ Len(Held(table, o)) \in Nat /\ Len(Held(h, o)) \in Nat
             /\ InOrder(s, o, n)
  <2>1. /\ Accounts(m, s, o, Held(h, o), n) /\ Len(Held(h, o)) <= Limit[m] /\ InOrder(s, o, n)
        /\ Held(h, o) \in Seq(Nat) /\ Len(Held(h, o)) \in Nat
    BY DEF MeterOk, Accounts
  <2>2. CASE o \notin kept
    <3>1. Held(table, o) = <<>>
      BY <1>1, <2>2 DEF Held
    <3>2. Accounts(m, s, o, <<>>, n)
      <4>1. CASE o \in DOMAIN h
        BY <1>2, <2>2, <4>1, EvictedKeys, EmptyAccounts
      <4>2. CASE o \notin DOMAIN h
        BY <2>1, <4>2 DEF Held
      <4> QED BY <4>1, <4>2
    <3>3. Len(<<>>) = 0
      OBVIOUS
    <3> QED BY <2>1, <3>1, <3>2, <3>3
  <2>3. CASE o \in kept /\ o = k
    <3>1. Held(h, o) = h[o] /\ Held(table, o) = Recent(h[o], Window[m], n)
      BY <1>1, <1>3, <2>3 DEF Held
    <3>2. Accounts(m, s, o, Held(table, o), n) /\ Len(Held(table, o)) <= Len(Held(h, o))
      BY <1>2, <2>1, <3>1, RecentAccounts
    <3>3. Held(table, o) \in Seq(Nat)
      BY <3>2 DEF Accounts
    <3> QED BY <2>1, <3>2, <3>3
  <2>4. CASE o \in kept /\ o # k
    <3>1. Held(table, o) = Held(h, o)
      BY <1>1, <1>3, <2>4 DEF Held
    <3> QED BY <2>1, <3>1
  <2> QED BY <2>2, <2>3, <2>4
<1>5. DOMAIN table = kept \cup {k}
  BY <1>1
<1>6. \A o \in Keys : Len(Held(table, o)) <= Limit[m]
  BY <1>2, <1>4
<1> QED BY <1>2, <1>3, <1>4, <1>5, <1>6 DEF MeterOk

\* Hits and time that pass leave what accounts for a key.
LEMMA AccountsStay ==
    ASSUME NEW m \in Meters, NEW s \in [Keys -> Seq(Nat)], NEW r \in [Keys -> Seq(Nat)],
           NEW n \in Nat, NEW u \in Nat, n <= u,
           \A k \in Keys : Len(s[k]) <= Len(r[k]) /\ \A i \in 1..Len(s[k]) : r[k][i] = s[k][i],
           NEW k \in Keys, NEW h, Accounts(m, s, k, h, n)
    PROVE  /\ h \in Seq(Nat) /\ Len(h) \in Nat /\ Len(h) <= Len(s[k])
           /\ \A j \in 1..Len(h) : h[j] = r[k][(Len(s[k]) - Len(h)) + j]
           /\ \A i \in 1..(Len(s[k]) - Len(h)) :
                ~Counts(r[k][i], Window[m], u) \/ CrowdedSince(m, r, r[k][i], u)
<1>1. /\ h \in Seq(Nat) /\ Len(h) <= Len(s[k]) /\ Len(h) \in Nat /\ Len(s[k]) \in Nat
      /\ \A j \in 1..Len(h) : h[j] = s[k][(Len(s[k]) - Len(h)) + j]
      /\ \A i \in 1..(Len(s[k]) - Len(h)) :
           ~Counts(s[k][i], Window[m], n) \/ CrowdedSince(m, s, s[k][i], n)
  BY TimesTyped, SMTT(30) DEF Accounts
<1>2. \A i \in 1..Len(s[k]) : r[k][i] = s[k][i] /\ s[k][i] \in Nat
  BY TimesTyped
<1>3. ASSUME NEW j \in 1..Len(h) PROVE h[j] = r[k][(Len(s[k]) - Len(h)) + j]
  <2>1. (Len(s[k]) - Len(h)) + j \in 1..Len(s[k])
    BY <1>1
  <2> QED BY <1>1, <1>2, <2>1
<1>4. ASSUME NEW i \in 1..(Len(s[k]) - Len(h))
      PROVE  ~Counts(r[k][i], Window[m], u) \/ CrowdedSince(m, r, r[k][i], u)
  <2>1. i \in 1..Len(s[k])
    BY <1>1
  <2>2. r[k][i] = s[k][i] /\ s[k][i] \in Nat
    BY <1>2, <2>1
  <2>3. CASE ~Counts(s[k][i], Window[m], n)
    <3>1. Window[m] \in Nat
      BY NumbersAssumption
    <3>2. ~Counts(s[k][i], Window[m], u)
      BY <2>2, <2>3, <3>1 DEF Counts
    <3> QED BY <2>2, <3>2
  <2>4. CASE CrowdedSince(m, s, s[k][i], n)
    <3>1. CrowdedSince(m, r, s[k][i], u)
      BY <2>2, <2>4, CrowdedStays
    <3> QED BY <2>2, <3>1
  <2> QED BY <1>1, <2>3, <2>4
<1> QED BY <1>1, <1>3, <1>4

LEMMA TickOk ==
    ASSUME NEW m \in Meters, NEW table, NEW s, NEW n \in Nat, MeterOk(m, table, s, n)
    PROVE  MeterOk(m, table, s, n + 1)
<1>1. s \in [Keys -> Seq(Nat)] /\ n + 1 \in Nat /\ n <= n + 1
  BY DEF MeterOk
<1>2. ASSUME NEW k \in Keys
      PROVE  Accounts(m, s, k, Held(table, k), n + 1) /\ InOrder(s, k, n + 1)
  <2>1. Accounts(m, s, k, Held(table, k), n) /\ InOrder(s, k, n)
    BY DEF MeterOk
  <2>2. \A o \in Keys : Len(s[o]) <= Len(s[o]) /\ \A i \in 1..Len(s[o]) : s[o][i] = s[o][i]
    BY <1>1, TimesTyped
  <2>3. PICK u : u = n + 1
    OBVIOUS
  <2>4. PICK h : h = Held(table, k)
    OBVIOUS
  <2>5. Accounts(m, s, k, h, u)
    <3>1. u \in Nat /\ n <= u /\ Accounts(m, s, k, h, n)
      BY <2>1, <2>3, <2>4
    <3>2. /\ h \in Seq(Nat) /\ Len(h) \in Nat /\ Len(h) <= Len(s[k])
          /\ \A j \in 1..Len(h) : h[j] = s[k][(Len(s[k]) - Len(h)) + j]
          /\ \A i \in 1..(Len(s[k]) - Len(h)) :
               ~Counts(s[k][i], Window[m], u) \/ CrowdedSince(m, s, s[k][i], u)
      BY <1>1, <2>2, <3>1, AccountsStay
    <3> QED BY <3>2 DEF Accounts
  <2>6. InOrder(s, k, n + 1)
    BY <1>1, <2>1, TimesTyped DEF InOrder
  <2> QED BY <2>3, <2>4, <2>5, <2>6
<1> QED BY <1>2 DEF MeterOk

\* A key that a meter lets through.
LEMMA SpentOk ==
    ASSUME NEW m \in Meters, NEW table, NEW s, NEW n \in Nat, MeterOk(m, table, s, n),
           NEW k \in DOMAIN table, Len(table[k]) < Limit[m]
    PROVE  MeterOk(m, Spend(table, k, n), [s EXCEPT ![k] = Append(s[k], n)], n)
<1>1. PICK r : r = [s EXCEPT ![k] = Append(s[k], n)]
  OBVIOUS
<1>2. PICK after : after = Spend(table, k, n)
  OBVIOUS
<1>3. s \in [Keys -> Seq(Nat)] /\ DOMAIN table \subseteq Keys /\ k \in Keys
  BY DEF MeterOk
<1>4. s[k] \in Seq(Nat) /\ Append(s[k], n) \in Seq(Nat) /\ Len(s[k]) \in Nat
  BY <1>3
<1>5. r \in [Keys -> Seq(Nat)] /\ r[k] = Append(s[k], n) /\ \A o \in Keys : o # k => r[o] = s[o]
  BY <1>1, <1>3, <1>4
<1>6. Len(r[k]) = Len(s[k]) + 1 /\ r[k][Len(s[k]) + 1] = n /\ \A i \in 1..Len(s[k]) : r[k][i] = s[k][i]
  BY <1>4, <1>5
<1>7. \A o \in Keys : Len(s[o]) <= Len(r[o]) /\ \A i \in 1..Len(s[o]) : r[o][i] = s[o][i]
  <2> SUFFICES ASSUME NEW o \in Keys
               PROVE  Len(s[o]) <= Len(r[o]) /\ \A i \in 1..Len(s[o]) : r[o][i] = s[o][i]
    OBVIOUS
  <2>1. CASE o = k
    BY <1>4, <1>6, <2>1
  <2>2. CASE o # k
    <3>1. r[o] = s[o] /\ Len(s[o]) \in Nat
      BY <1>3, <1>5, <2>2, TimesTyped
    <3> QED BY <3>1
  <2> QED BY <2>1, <2>2
<1>8. DOMAIN after = DOMAIN table /\ after[k] = Append(table[k], n)
      /\ \A o \in DOMAIN table : o # k => after[o] = table[o]
  BY <1>2 DEF Spend
<1>9. n <= n /\ Limit[m] \in Nat
  BY NumbersAssumption
<1>10. ASSUME NEW o \in Keys
       PROVE  Accounts(m, r, o, Held(after, o), n) /\ Len(Held(after, o)) <= Limit[m] /\ InOrder(r, o, n)
  <2>1. PICK h : h = Held(table, o)
    OBVIOUS
  <2>2. Accounts(m, s, o, h, n) /\ Len(h) <= Limit[m] /\ InOrder(s, o, n)
    BY <2>1 DEF MeterOk
  <2>3. /\ h \in Seq(Nat) /\ Len(h) \in Nat /\ Len(h) <= Len(s[o])
        /\ \A j \in 1..Len(h) : h[j] = r[o][(Len(s[o]) - Len(h)) + j]
        /\ \A i \in 1..(Len(s[o]) - Len(h)) :
             ~Counts(r[o][i], Window[m], n) \/ CrowdedSince(m, r, r[o][i], n)
    BY <1>3, <1>5, <1>7, <1>9, <2>2, AccountsStay
  <2>4. CASE o # k
    <3>1. Held(after, o) = h /\ r[o] = s[o]
      BY <1>5, <1>8, <2>1, <2>4 DEF Held
    <3>2. Accounts(m, r, o, h, n)
      BY <2>3, <3>1 DEF Accounts
    <3>3. InOrder(r, o, n)
      BY <2>2, <3>1 DEF InOrder
    <3> QED BY <2>2, <3>1, <3>2, <3>3
  <2>5. CASE o = k
    <3>1. Held(after, o) = Append(h, n) /\ h = table[k]
      BY <1>8, <2>1, <2>5 DEF Held
    <3>2. Len(h) < Limit[m]
      BY <3>1
    <3>3. PICK g : g = Append(h, n)
      OBVIOUS
    <3>4. g \in Seq(Nat) /\ Len(g) = Len(h) + 1 /\ g[Len(h) + 1] = n /\ \A j \in 1..Len(h) : g[j] = h[j]
      BY <2>3, <3>3
    <3>5. Len(r[o]) = Len(s[o]) + 1 /\ Len(s[o]) \in Nat /\ r[o][Len(s[o]) + 1] = n
      BY <1>4, <1>6, <2>5
    <3>6. Len(r[o]) - Len(g) = Len(s[o]) - Len(h) /\ Len(g) <= Len(r[o])
      BY <2>3, <3>4, <3>5
    <3>7. ASSUME NEW j \in 1..Len(g) PROVE g[j] = r[o][(Len(r[o]) - Len(g)) + j]
      <4>1. CASE j \in 1..Len(h)
        BY <2>3, <3>4, <3>6, <4>1
      <4>2. CASE j = Len(h) + 1
        <5>1. (Len(s[o]) - Len(h)) + j = Len(s[o]) + 1
          <6>1. PICK a, b : a = Len(s[o]) /\ b = Len(h)
            OBVIOUS
          <6>2. a \in Nat /\ b \in Nat /\ j = b + 1
            BY <2>3, <3>5, <4>2, <6>1
          <6>3. (a - b) + (b + 1) = a + 1
            BY <6>2
          <6> QED BY <6>1, <6>2, <6>3
        <5> QED BY <3>4, <3>5, <3>6, <4>2, <5>1
      <4>3. j \in 1..Len(h) \/ j = Len(h) + 1
        BY <2>3, <3>4
      <4> QED BY <4>1, <4>2, <4>3
    <3>8. Accounts(m, r, o, g, n)
      BY <2>3, <3>4, <3>6, <3>7 DEF Accounts
    <3>9. Len(g) <= Limit[m]
      BY <1>9, <2>3, <3>2, <3>4
    <3>10. InOrder(r, o, n)
      <4> SUFFICES ASSUME NEW i \in 1..Len(r[o]) PROVE r[o][i] <= n /\ r[o][i] <= r[o][Len(r[o])]
        BY DEF InOrder
      <4>1. i \in 1..Len(s[o]) \/ i = Len(s[o]) + 1
        BY <3>5
      <4>2. CASE i \in 1..Len(s[o])
        <5>1. r[o][i] = s[o][i] /\ s[o][i] <= n
          BY <1>7, <2>2, <4>2 DEF InOrder
        <5> QED BY <3>5, <5>1
      <4>3. CASE i = Len(s[o]) + 1
        BY <3>5, <4>3
      <4> QED BY <4>1, <4>2, <4>3
    <3> QED BY <3>1, <3>3, <3>8, <3>9, <3>10
  <2> QED BY <2>4, <2>5
<1>11. MeterOk(m, after, r, n)
  BY <1>3, <1>5, <1>8, <1>10 DEF MeterOk
<1> QED BY <1>1, <1>2, <1>11

\* The empty memory of a start.
LEMMA FreshOk ==
    ASSUME NEW m \in Meters, NEW n
    PROVE  MeterOk(m, NoHits, [k \in Keys |-> <<>>], n)
<1>1. PICK s : s = [k \in Keys |-> <<>>]
  OBVIOUS
<1>2. s \in [Keys -> Seq(Nat)] /\ \A k \in Keys : s[k] = <<>> /\ Len(s[k]) = 0
  BY <1>1
<1>3. DOMAIN NoHits = {} /\ \A k : Held(NoHits, k) = <<>>
  BY DEF NoHits, Held
<1>4. ASSUME NEW k \in Keys PROVE Accounts(m, s, k, <<>>, n) /\ InOrder(s, k, n)
  <2>1. \A i \in 1..Len(s[k]) : FALSE
    BY <1>2
  <2> QED BY <1>2, <2>1, EmptyAccounts DEF InOrder
<1>5. 0 <= Limit[m] /\ Len(<<>>) = 0
  BY NumbersAssumption
<1>6. MeterOk(m, NoHits, s, n)
  BY <1>2, <1>3, <1>4, <1>5 DEF MeterOk
<1> QED BY <1>1, <1>6

\* One meter gets a table that accounts for its keys, the others stay.
LEMMA MeterPut ==
    ASSUME MetersInv, NEW m \in Meters, NEW table, NEW s, MeterOk(m, table, s, now), now' = now,
           hits' = [hits EXCEPT ![m] = table], spent' = [spent EXCEPT ![m] = s],
           sending' \in Agents \cup {Nobody},
           sending' # Nobody => Len(Held(hits'["reports"], sending')) < Limit["reports"]
    PROVE  MetersInv'
<1>1. now' \in Nat
  BY DEF MetersInv
<1>2. hits' = [p \in Meters |-> hits'[p]] /\ spent' = [p \in Meters |-> spent'[p]]
  BY DEF MetersInv
<1>3. ASSUME NEW p \in Meters PROVE MeterOk(p, hits'[p], spent'[p], now')
  <2>1. CASE p = m
    <3>1. hits'[p] = table /\ spent'[p] = s
      BY <2>1 DEF MetersInv
    <3> QED BY <2>1, <3>1
  <2>2. CASE p # m
    <3>1. hits'[p] = hits[p] /\ spent'[p] = spent[p]
      BY <2>2 DEF MetersInv
    <3> QED BY <3>1 DEF MetersInv
  <2> QED BY <2>1, <2>2
<1> QED BY <1>1, <1>2, <1>3 DEF MetersInv

\* A turn or a code that a meter lets through, or refuses.
LEMMA SpendsMeters ==
    ASSUME MetersInv, NEW m \in Meters, m # "reports", NEW k \in Keys,
           Spends(m, k) \/ Refuses(m, k), now' = now, sending' = sending
    PROVE  MetersInv'
<1>1. PICK table \in Prepare(hits[m], k, Window[m], now) :
        \/ /\ Allows(table, k, Limit[m])
           /\ hits' = [hits EXCEPT ![m] = Spend(table, k, now)]
           /\ spent' = [spent EXCEPT ![m][k] = Append(@, now)]
        \/ hits' = [hits EXCEPT ![m] = table] /\ spent' = spent
  BY DEF Spends, Refuses
<1>2. now \in Nat /\ MeterOk(m, hits[m], spent[m], now)
  BY DEF MetersInv
<1>3. MeterOk(m, table, spent[m], now) /\ k \in DOMAIN table
  <2>1. PICK h, s : h = hits[m] /\ s = spent[m]
    OBVIOUS
  <2> QED BY <1>1, <1>2, <2>1, PreparedOk
<1>4. hits'["reports"] = hits["reports"]
  BY <1>1 DEF MetersInv, Meters
<1>5. /\ sending' \in Agents \cup {Nobody}
      /\ sending' # Nobody => Len(Held(hits'["reports"], sending')) < Limit["reports"]
  BY <1>4 DEF MetersInv
<1>6. CASE hits' = [hits EXCEPT ![m] = table] /\ spent' = spent
  <2>1. PICK s : s = spent[m]
    OBVIOUS
  <2>2. spent' = [spent EXCEPT ![m] = s]
    BY <1>6, <2>1 DEF MetersInv
  <2> QED BY <1>3, <1>5, <1>6, <2>1, <2>2, MeterPut
<1>7. CASE /\ Allows(table, k, Limit[m])
           /\ hits' = [hits EXCEPT ![m] = Spend(table, k, now)]
           /\ spent' = [spent EXCEPT ![m][k] = Append(@, now)]
  <2>1. PICK s, h : s = [spent[m] EXCEPT ![k] = Append(spent[m][k], now)] /\ h = Spend(table, k, now)
    OBVIOUS
  <2>2. Len(table[k]) < Limit[m]
    BY <1>7 DEF Allows
  <2>3. MeterOk(m, h, s, now)
    BY <1>2, <1>3, <2>1, <2>2, SpentOk
  <2>4. hits' = [hits EXCEPT ![m] = h] /\ spent' = [spent EXCEPT ![m] = s]
    BY <1>7, <2>1
  <2> QED BY <1>5, <2>3, <2>4, MeterPut
<1> QED BY <1>1, <1>6, <1>7

LEMMA NotifyMeters ==
    ASSUME MetersInv, NEW a \in Agents, Notify(a)
    PROVE  MetersInv'
<1>1. PICK table \in Prepare(hits["reports"], a, Window["reports"], now) :
        /\ hits' = [hits EXCEPT !["reports"] = table]
        /\ sending' = IF Allows(table, a, Limit["reports"]) THEN a ELSE Nobody
        /\ now' = now /\ spent' = spent
  BY DEF Notify
<1>2. "reports" \in Meters /\ a \in Keys
  BY DEF Meters, Keys
<1>3. now \in Nat /\ MeterOk("reports", hits["reports"], spent["reports"], now)
  BY <1>2 DEF MetersInv
<1>4. MeterOk("reports", table, spent["reports"], now) /\ a \in DOMAIN table
  <2>1. PICK h, s : h = hits["reports"] /\ s = spent["reports"]
    OBVIOUS
  <2> QED BY <1>1, <1>2, <1>3, <2>1, PreparedOk
<1>5. hits'["reports"] = table
  BY <1>1, <1>2 DEF MetersInv
<1>6. sending' \in {a, Nobody} /\ (sending' # Nobody => Len(table[a]) < Limit["reports"] /\ sending' = a)
  BY <1>1 DEF Allows
<1>7. Held(table, a) = table[a]
  BY <1>4 DEF Held
<1>8. sending' # Nobody => Len(Held(hits'["reports"], sending')) < Limit["reports"]
  BY <1>5, <1>6, <1>7
<1>9. PICK s : s = spent["reports"]
  OBVIOUS
<1>10. spent' = [spent EXCEPT !["reports"] = s]
  BY <1>1, <1>2, <1>9 DEF MetersInv
<1>11. sending' \in Agents \cup {Nobody}
  BY <1>6
<1> QED BY <1>1, <1>2, <1>4, <1>8, <1>9, <1>10, <1>11, MeterPut

LEMMA NotifiedMeters ==
    ASSUME MetersInv, Notified
    PROVE  MetersInv'
<1>1. sending \in Agents /\ sending # Nobody /\ sending' = Nobody /\ now' = now
  BY DEF Notified, MetersInv
<1>2. CASE UNCHANGED <<hits, spent>>
  BY <1>1, <1>2 DEF MetersInv
<1>3. ASSUME NEW table \in Prepare(hits["reports"], sending, Window["reports"], now),
             hits' = [hits EXCEPT !["reports"] = Spend(table, sending, now)],
             spent' = [spent EXCEPT !["reports"][sending] = Append(@, now)]
      PROVE  MetersInv'
  <2>1. "reports" \in Meters /\ sending \in Keys
    BY <1>1 DEF Meters, Keys
  <2>2. now \in Nat /\ MeterOk("reports", hits["reports"], spent["reports"], now)
    BY <2>1 DEF MetersInv
  <2>3. PICK a, h, s : a = sending /\ h = hits["reports"] /\ s = spent["reports"]
    OBVIOUS
  <2>4. /\ MeterOk("reports", table, s, now) /\ a \in DOMAIN table
        /\ Len(Held(table, a)) <= Len(Held(h, a))
    BY <1>3, <2>1, <2>2, <2>3, PreparedOk
  <2>5. Len(Held(h, a)) < Limit["reports"]
    BY <1>1, <2>3 DEF MetersInv
  <2>6. Len(table[a]) < Limit["reports"]
    <3>1. Held(table, a) = table[a]
      BY <2>4 DEF Held
    <3>2. Held(h, a) \in Seq(Nat) /\ Held(table, a) \in Seq(Nat)
      BY <2>1, <2>2, <2>3, <2>4 DEF MeterOk, Accounts
    <3>3. Len(Held(h, a)) \in Nat /\ Len(Held(table, a)) \in Nat /\ Limit["reports"] \in Nat
      BY <2>1, <3>2, NumbersAssumption
    <3> QED BY <2>4, <2>5, <3>1, <3>3
  <2>7. PICK r, g : r = [s EXCEPT ![a] = Append(s[a], now)] /\ g = Spend(table, a, now)
    OBVIOUS
  <2>8. MeterOk("reports", g, r, now)
    BY <2>1, <2>2, <2>4, <2>6, <2>7, SpentOk
  <2>9. hits' = [hits EXCEPT !["reports"] = g] /\ spent' = [spent EXCEPT !["reports"] = r]
    BY <1>3, <2>3, <2>7
  <2> QED BY <1>1, <2>1, <2>8, <2>9, MeterPut
<1> QED BY <1>2, <1>3 DEF Notified

LEMMA TickMeters ==
    ASSUME MetersInv, Tick
    PROVE  MetersInv'
<1>1. now' = now + 1 /\ UNCHANGED <<hits, spent, sending>> /\ now \in Nat
  BY DEF Tick, MetersInv
<1>2. ASSUME NEW m \in Meters PROVE MeterOk(m, hits'[m], spent'[m], now')
  <2>1. MeterOk(m, hits[m], spent[m], now)
    BY DEF MetersInv
  <2>2. PICK h, s : h = hits[m] /\ s = spent[m]
    OBVIOUS
  <2>3. MeterOk(m, h, s, now + 1)
    BY <1>1, <2>1, <2>2, TickOk
  <2> QED BY <1>1, <2>2, <2>3
<1> QED BY <1>1, <1>2 DEF MetersInv

LEMMA RestartMeters ==
    ASSUME MetersInv, Restart
    PROVE  MetersInv'
<1>1. /\ now' = now /\ sending' = Nobody /\ hits' = [m \in Meters |-> NoHits]
      /\ spent' = [m \in Meters |-> [k \in Keys |-> <<>>]]
  BY DEF Restart, Fresh
<1>2. ASSUME NEW m \in Meters PROVE MeterOk(m, hits'[m], spent'[m], now')
  BY <1>1, FreshOk
<1> QED BY <1>1, <1>2 DEF MetersInv

LEMMA StillMeters ==
    ASSUME MetersInv, UNCHANGED <<now, hits, sending, spent>>
    PROVE  MetersInv'
BY DEF MetersInv

\* Of the times that count, those a table lacks come with a crowd, and those it
\* holds are at most `limit`.
LEMMA MeteredHolds == ASSUME MetersInv PROVE Metered
<1> SUFFICES ASSUME NEW m \in Meters, NEW k \in Keys
             PROVE  LET inside == {i \in 1..Len(spent[m][k]) : Counts(spent[m][k][i], Window[m], now)} IN
                    \/ Cardinality(inside) <= Limit[m]
                    \/ \E i \in inside : Crowded(m, spent[m][k][i])
  BY DEF Metered
<1> DEFINE inside == {i \in 1..Len(spent[m][k]) : Counts(spent[m][k][i], Window[m], now)}
<1>1. PICK s, h : s = spent[m] /\ h = Held(hits[m], k)
  OBVIOUS
<1>2. /\ s \in [Keys -> Seq(Nat)] /\ Accounts(m, s, k, h, now) /\ Len(h) <= Limit[m]
  BY <1>1 DEF MetersInv, MeterOk
<1>3. /\ Len(h) \in Nat /\ Len(s[k]) \in Nat /\ Len(h) <= Len(s[k]) /\ Limit[m] \in Nat
      /\ \A i \in 1..(Len(s[k]) - Len(h)) :
           ~Counts(s[k][i], Window[m], now) \/ CrowdedSince(m, s, s[k][i], now)
  BY <1>2, TimesTyped, NumbersAssumption DEF Accounts
<1>4. PICK a, b : a = Len(s[k]) - Len(h) /\ b = Len(s[k])
  OBVIOUS
<1>5. a \in Nat /\ b \in Nat /\ a <= b /\ b - a = Len(h)
  BY <1>3, <1>4
<1>6. CASE \E i \in inside : i <= a
  <2>1. PICK i \in inside : i <= a
    BY <1>6
  <2>2. i \in 1..b /\ Counts(s[k][i], Window[m], now)
    BY <1>1, <1>4
  <2>3. i \in 1..(Len(s[k]) - Len(h))
    BY <1>4, <1>5, <2>1, <2>2
  <2>4. CrowdedSince(m, s, s[k][i], now)
    BY <1>3, <2>2, <2>3
  <2>5. Crowded(m, spent[m][k][i])
    BY <1>1, <2>4 DEF Crowded, CrowdedSince, Active, ActiveKeys
  <2> QED BY <2>5
<1>7. CASE \A i \in inside : ~(i <= a)
  <2>1. inside \subseteq (a + 1)..b
    <3> SUFFICES ASSUME NEW i \in inside PROVE i \in (a + 1)..b
      OBVIOUS
    <3>1. i \in 1..b
      BY <1>1, <1>4
    <3>2. ~(i <= a)
      BY <1>7
    <3> QED BY <1>5, <3>1, <3>2
  <2>2. IsFiniteSet((a + 1)..b) /\ Cardinality((a + 1)..b) = IF a + 1 > b THEN 0 ELSE b - (a + 1) + 1
    <3>1. a + 1 \in Int /\ b \in Int
      BY <1>5
    <3> QED BY <3>1, FS_Interval
  <2>3. Cardinality((a + 1)..b) = Len(h)
    BY <1>3, <1>5, <2>2
  <2>4. IsFiniteSet(inside) /\ Cardinality(inside) <= Cardinality((a + 1)..b)
    BY <2>1, <2>2, FS_Subset
  <2>5. Cardinality(inside) \in Nat
    BY <2>4, FS_CardinalityType
  <2> QED BY <1>2, <1>3, <2>3, <2>4, <2>5
<1> QED BY <1>6, <1>7

\* What the tables hold accounts for what the meters let through, whatever is
\* evicted, and whatever passes while a report is on its way.
THEOREM MetersAccount == Spec => []MetersInv
<1>1. Init => MetersInv
  <2> SUFFICES ASSUME Init PROVE MetersInv
    OBVIOUS
  <2>1. /\ now = 0 /\ sending = Nobody /\ hits = [m \in Meters |-> NoHits]
        /\ spent = [m \in Meters |-> [k \in Keys |-> <<>>]]
    BY DEF Init
  <2>2. ASSUME NEW m \in Meters PROVE MeterOk(m, hits[m], spent[m], now)
    BY <2>1, FreshOk
  <2> QED BY <2>1, <2>2 DEF MetersInv
<1>2. MetersInv /\ [Next]_vars => MetersInv'
  <2> SUFFICES ASSUME MetersInv, [Next]_vars PROVE MetersInv'
    OBVIOUS
  <2>1. ASSUME NEW s \in Senders, Unknown(s) \/ Message(s)
        PROVE  MetersInv'
    <3>1. \E m \in Meters : m # "reports" /\ (Spends(m, s) \/ Refuses(m, s))
      BY <2>1 DEF Unknown, Message, Meters
    <3>2. s \in Keys /\ sending' = sending /\ now' = now
      BY <2>1 DEF Unknown, Message, Keys
    <3> QED BY <3>1, <3>2, SpendsMeters
  <2>2. CASE UNCHANGED <<now, hits, sending, spent>>
    BY <2>2, StillMeters
  <2> QED
    BY <2>1, <2>2, NotifyMeters, NotifiedMeters, RestartMeters, TickMeters DEF Next, vars, Approve
<1> QED BY <1>1, <1>2, PTL DEF Spec

\* A meter lets a key through at most `limit` times in a window, unless it had
\* to forget the key, for which as many keys as it can hold must have been
\* active (ratelimit.py).
THEOREM MetersHold == Spec => []Metered
<1>1. MetersInv => Metered
  BY MeteredHolds
<1> QED BY <1>1, MetersAccount, PTL

=============================================================================
