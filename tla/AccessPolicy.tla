---------------------------- MODULE AccessPolicy ----------------------------
(***************************************************************************)
(* Who may talk to an agent, and how often: the access policy              *)
(* (signal/policy.py), its three meters (signal/ratelimit.py), and the     *)
(* parts of the channel that use them (signal/channel.py).                 *)
(*                                                                         *)
(* A message that is refused and changes nothing is not a step: a stranger *)
(* under the allowlist policy, an approval by someone who is no operator.  *)
(***************************************************************************)
EXTENDS RateLimiter

CONSTANTS
    Senders,      \* numbers that write
    Operators,    \* those in signal_allow_from
    Agents,       \* names that reports are metered by
    Codes,        \* six digits
    NoCode,       \* nobody was approved in this step
    Legacies,     \* what the allowlist file of an earlier release may hold
    Nobody,       \* no report is being sent
    Pairing,      \* signal_dm_policy is not "allowlist"
    MaxPending,   \* MAX_PENDING
    Ttl,          \* pairing_ttl_seconds
    Limit,        \* of each meter
    Window,       \* of each meter
    Horizon,      \* bound: the clock
    MaxSpent      \* bound: times the meters let a key through in one run

Meters == {"turns", "pairing", "reports"}
Keys   == Senders \cup Agents

ASSUME OperatorsAssumption == Operators \subseteq Senders
ASSUME NobodyAssumption == Nobody \notin Agents
ASSUME NoCodeAssumption == NoCode \notin Codes
ASSUME LegaciesAssumption == Legacies \subseteq Seq(Senders)
ASSUME NumbersAssumption ==
    /\ MaxPending \in Nat \ {0} /\ Ttl \in Nat \ {0} /\ Horizon \in Nat /\ MaxSpent \in Nat
    /\ Limit \in [Meters -> Nat \ {0}] /\ Window \in [Meters -> Nat \ {0}]
ASSUME PairingAssumption == Pairing \in BOOLEAN
ASSUME FiniteAssumption == IsFiniteSet(Keys)

VARIABLES
    now,        \* the clock
    stored,     \* the allowlist table
    file,       \* signal-allowlist.json, empty once it is retired
    approved,   \* _approved
    pending,    \* _pending, by sender
    hits,       \* the table of each meter
    sending,    \* the agent whose report is on its way
    issued,     \* observed: the last code texted to a sender in this run, and its end
    typed,      \* observed: the code of the approval that was the last step
    spent       \* observed: when each meter let a key through in this run

vars == <<now, stored, file, approved, pending, hits, sending, issued, typed, spent>>

Pair   == [code: Codes, expires: Nat]
Nothing == [s \in {} |-> <<>>]

TypeOK ==
    /\ now \in 0..Horizon
    /\ stored \subseteq Senders /\ approved \subseteq Senders
    /\ file \in Seq(Senders) /\ typed \in Codes \cup {NoCode}
    /\ DOMAIN pending \subseteq Senders /\ pending \in [DOMAIN pending -> Pair]
    /\ DOMAIN issued \subseteq Senders /\ issued \in [DOMAIN issued -> Pair]
    /\ \A m \in Meters : /\ DOMAIN hits[m] \subseteq Keys
                         /\ hits[m] \in [DOMAIN hits[m] -> Seq(Nat)]
    /\ DOMAIN hits = Meters
    /\ sending \in Agents \cup {Nobody}
    /\ spent \in [Meters -> [Keys -> Seq(Nat)]]

\* What a start finds: the table, and empty memory.
Fresh ==
    /\ pending' = Nothing /\ issued' = Nothing
    /\ hits' = [m \in Meters |-> NoHits]
    /\ spent' = [m \in Meters |-> [k \in Keys |-> <<>>]]
    /\ sending' = Nobody

\* import_legacy_allowlist, before the policy reads the table: the numbers of
\* the file that are admitted, in its order up to a write that fails, and the
\* file, which is retired after the last, if it can be renamed.
Imports(f) ==
    {i \in [to: SUBSET Senders, file: {f, <<>>}] :
        \E n \in 0..Len(f) : /\ i.to = {f[k] : k \in 1..n}
                             /\ i.file = <<>> => n = Len(f)}

Init ==
    /\ now = 0
    /\ \E f \in Legacies : \E i \in Imports(f) : stored = i.to /\ file = i.file
    /\ approved = stored
    /\ pending = Nothing /\ issued = Nothing /\ typed = NoCode
    /\ hits = [m \in Meters |-> NoHits]
    /\ spent = [m \in Meters |-> [k \in Keys |-> <<>>]]
    /\ sending = Nobody

-----------------------------------------------------------------------------
(* The policy                                                              *)

Allowed(s) == s \in Operators \cup approved

Live(p) == p.expires > now
Earliest(s) == \A o \in DOMAIN pending : Live(pending[o]) => pending[s].expires <= pending[o].expires

\* (Bug) Room is made twice over.
PruneTwo ==
    LET live == {s \in DOMAIN pending : Live(pending[s])}
    IN  IF Cardinality(live) < MaxPending THEN {live} ELSE {{}}

\* The senders _prune may leave: the code with the earliest end goes, whatever
\* room is needed.
Prune ==
    LET live == {s \in DOMAIN pending : Live(pending[s])}
    IN  IF Cardinality(live) < MaxPending THEN {live}
        ELSE {live \ {s} : s \in {o \in live : Earliest(o)}}

\* request_pair, and the text that carries the code.
RequestPair(s) ==
    \E kept \in Prune :
        IF s \in kept
        THEN /\ pending' = [o \in kept |-> pending[o]]
             /\ issued' = [o \in DOMAIN issued \cup {s} |-> IF o = s THEN pending[s] ELSE issued[o]]
        ELSE \E code \in Codes :
             LET pair == [code |-> code, expires |-> now + Ttl] IN
             /\ pending' = [o \in kept \cup {s} |-> IF o = s THEN pair ELSE pending[o]]
             /\ issued' = [o \in DOMAIN issued \cup {s} |-> IF o = s THEN pair ELSE issued[o]]

\* How often the meters let someone through in this run.
Spent == MapThenSumSet(LAMBDA m : MapThenSumSet(LAMBDA k : Len(spent[m][k]), Keys), Meters)

\* The meter lets the key through, or not.
Spends(m, k) ==
    /\ Spent < MaxSpent
    /\ \E table \in Prepare(hits[m], k, Window[m], now) :
        /\ Allows(table, k, Limit[m])
        /\ hits' = [hits EXCEPT ![m] = Spend(table, k, now)]
        /\ spent' = [spent EXCEPT ![m][k] = Append(@, now)]

Refuses(m, k) ==
    \E table \in Prepare(hits[m], k, Window[m], now) :
        /\ ~Allows(table, k, Limit[m])
        /\ hits' = [hits EXCEPT ![m] = table]
        /\ UNCHANGED spent

-----------------------------------------------------------------------------
(* The channel                                                             *)

\* _handle_unknown
Unknown(s) ==
    /\ Pairing /\ ~Allowed(s)
    /\ \/ Spends("pairing", s) /\ RequestPair(s)
       \/ Refuses("pairing", s) /\ UNCHANGED <<pending, issued>>
    /\ UNCHANGED <<now, stored, file, approved, sending>>

\* Store.admit, and what approve does after it. A write that fails changes
\* nothing.
Admit(s) == stored' = stored \cup {s} /\ approved' = approved \cup {s}

\* (Bug) The table is not pruned: an old code still admits.
ApproveAny(o, code) ==
    /\ Allowed(o) /\ o \in Operators
    /\ \E s \in DOMAIN pending :
        /\ pending[s].code = code
        /\ Admit(s)
        /\ pending' = [p \in DOMAIN pending \ {s} |-> pending[p]]
    /\ UNCHANGED <<now, file, hits, sending, issued, spent>>

\* (Bug) The code is not compared: whoever asked is admitted.
ApproveUncompared(o, code) ==
    /\ o \in Operators
    /\ \E kept \in Prune :
        \/ /\ kept = {} /\ pending' = Nothing
           /\ UNCHANGED <<stored, approved>>
        \/ \E s \in kept : Admit(s) /\ pending' = [p \in kept \ {s} |-> pending[p]]
    /\ UNCHANGED <<now, file, hits, sending, issued, spent>>

\* approve, as _handle_approve calls it. Codes are issued in the order they run
\* out, so the first that matches is the earliest.
Approve(o, code) ==
    /\ o \in Operators
    /\ \E kept \in Prune :
        LET match == {s \in kept : pending[s].code = code}
            first == {s \in match : \A p \in match : pending[s].expires <= pending[p].expires}
        IN
        \/ /\ match = {}
           /\ pending' = [p \in kept |-> pending[p]]
           /\ UNCHANGED <<stored, approved>>
        \/ \E s \in first :
           \/ Admit(s) /\ pending' = [p \in kept \ {s} |-> pending[p]]
           \/ UNCHANGED <<stored, approved>> /\ pending' = [p \in kept |-> pending[p]]
    /\ UNCHANGED <<now, file, hits, sending, issued, spent>>

\* Any other message of someone who is allowed: a turn, or the answer that no
\* agent is bound to the number (_handle_allowed).
Message(s) ==
    /\ Allowed(s)
    /\ Spends("turns", s) \/ Refuses("turns", s)
    /\ UNCHANGED <<now, stored, file, approved, pending, sending, issued>>

\* can_notify_job, and notify_job up to the send. The runner is alone in it.
Notify(a) ==
    /\ sending = Nobody /\ Spent < MaxSpent
    /\ \E table \in Prepare(hits["reports"], a, Window["reports"], now) :
        /\ hits' = [hits EXCEPT !["reports"] = table]
        /\ sending' = IF Allows(table, a, Limit["reports"]) THEN a ELSE Nobody
    /\ UNCHANGED <<now, stored, file, approved, pending, issued, spent>>

\* The rest of notify_job: what was sent is recorded, what failed is not.
Notified ==
    /\ sending # Nobody
    /\ \/ \E table \in Prepare(hits["reports"], sending, Window["reports"], now) :
            /\ hits' = [hits EXCEPT !["reports"] = Spend(table, sending, now)]
            /\ spent' = [spent EXCEPT !["reports"][sending] = Append(@, now)]
       \/ UNCHANGED <<hits, spent>>
    /\ sending' = Nobody
    /\ UNCHANGED <<now, stored, file, approved, pending, issued>>

\* A new process imports the file, if it is still there, and reads the table.
Restart ==
    /\ Fresh
    /\ \E i \in Imports(file) : stored' = stored \cup i.to /\ file' = i.file
    /\ approved' = stored'
    /\ UNCHANGED now

Tick ==
    /\ now < Horizon /\ now' = now + 1
    /\ UNCHANGED <<stored, file, approved, pending, hits, sending, issued, spent>>

Next ==
    \/ \E o \in Operators, code \in Codes : Approve(o, code) /\ typed' = code
    \/ /\ typed' = NoCode
       /\ \/ \E s \in Senders : Unknown(s) \/ Message(s)
          \/ \E a \in Agents : Notify(a)
          \/ Notified \/ Restart \/ Tick

Spec == Init /\ [][Next]_vars

-----------------------------------------------------------------------------
(* Properties                                                              *)

\* The keys that a meter let through in the window that ends at t.
Active(m, t) ==
    {k \in Keys : \E i \in 1..Len(spent[m][k]) :
        spent[m][k][i] <= t /\ Counts(spent[m][k][i], Window[m], t)}

\* The table of a meter was full of active keys at some time in the window.
Crowded(m, from) == \E t \in from..now : Cardinality(Active(m, t)) >= MaxKeys

\* A meter lets a key through at most `limit` times in a window, unless it had
\* to forget the key, for which as many keys as it can hold must have been
\* active (allow, _prepare, _evict; a restart forgets all).
Metered ==
    \A m \in Meters, k \in Keys :
        LET inside == {i \in 1..Len(spent[m][k]) : Counts(spent[m][k][i], Window[m], now)} IN
        \/ Cardinality(inside) <= Limit[m]
        \/ \E i \in inside : Crowded(m, spent[m][k][i])

\* The table of a meter stays within its bound, whoever writes (_evict).
TablesBounded ==
    \A m \in Meters : Cardinality(DOMAIN hits[m]) <= MaxKeys

\* A code that was texted and has not run out can still be approved, unless as
\* many others as the table can hold beside it were texted one that runs out
\* no earlier (_prune, request_pair).
CodeLives ==
    \A s \in DOMAIN issued :
        Live(issued[s]) =>
            \/ s \in approved
            \/ s \in DOMAIN pending /\ pending[s] = issued[s]
            \/ Cardinality({o \in DOMAIN issued \ {s} : issued[o].expires >= issued[s].expires})
                    >= MaxPending - 1

AdmitsByItsCode ==
    /\ approved \subseteq approved'
    /\ \A s \in approved' \ approved :
         /\ s \in stored'
         /\ \/ s \in DOMAIN issued /\ Live(issued[s]) /\ typed' = issued[s].code
            \/ pending' = Nothing /\ \E k \in 1..Len(file) : s = file[k]

\* A number comes to be allowed only when an operator types the code that was
\* texted to it last, and that has not run out, or at a start that finds it in
\* the file of an earlier release; never in memory alone. It stays allowed,
\* over restarts and failed writes (approve, Store.admit,
\* import_legacy_allowlist, AccessPolicy.__init__).
AdmittedByItsCode == [][AdmitsByItsCode]_vars

\* An operator who sends a code that the table holds and that has not run out
\* is not told "expired or already used" (_APPROVE_BAD).
LiveCodeAdmits ==
    [][\A o \in Operators, code \in Codes :
            /\ Approve(o, code)
            /\ \E s \in DOMAIN pending : Live(pending[s]) /\ pending[s].code = code
            => approved' # approved \/ \E s \in DOMAIN pending' : pending'[s].code = code]_vars
=============================================================================
