---------------------------- MODULE RateLimiter -----------------------------
(***************************************************************************)
(* The sliding window of signal/ratelimit.py, as operators on a table that *)
(* maps the keys it knows to the times of their hits, oldest first.        *)
(***************************************************************************)
EXTENDS Naturals, Sequences, FiniteSets, SequencesExt

CONSTANT MaxKeys   \* max_keys

ASSUME MaxKeysAssumption == MaxKeys \in Nat \ {0}

NoHits == [k \in {} |-> <<>>]

\* A hit at time u counts until u + window.
Counts(u, window, t) == u + window > t

\* The deque once its old hits are popped from the left.
Recent(h, window, t) ==
    LET old == CHOOSE n \in 0..Len(h) : /\ \A i \in 1..n : ~Counts(h[i], window, t)
                                        /\ n = Len(h) \/ Counts(h[n + 1], window, t)
    IN  SubSeq(h, old + 1, Len(h))

Stale(h, window, t) == h = <<>> \/ ~Counts(Last(h), window, t)

\* (Bug) The oldest entry goes, of whatever is in the table.
SurvivorsAny(hits, window, t) ==
    IF Cardinality(DOMAIN hits) < MaxKeys THEN {DOMAIN hits}
    ELSE {DOMAIN hits \ {k} : k \in DOMAIN hits}

\* The keys _evict may leave. Times are coarse here: of two keys that are
\* equally old either may be the older.
Survivors(hits, window, t) ==
    LET fresh == {k \in DOMAIN hits : ~Stale(hits[k], window, t)}
    IN  CASE Cardinality(DOMAIN hits) < MaxKeys -> {DOMAIN hits}
          [] Cardinality(DOMAIN hits) >= MaxKeys /\ Cardinality(fresh) < MaxKeys -> {fresh}
          [] OTHER -> {fresh \ {k} : k \in {l \in fresh :
                          \A o \in fresh : Last(hits[l]) <= Last(hits[o])}}

\* What _prepare may leave: an entry for the key, with its recent hits.
Prepare(hits, key, window, t) ==
    {[k \in kept \cup {key} |-> IF k # key THEN hits[k]
                                ELSE IF key \in kept THEN Recent(hits[key], window, t) ELSE <<>>] :
        kept \in Survivors(hits, window, t)}

Spend(hits, key, t) == [hits EXCEPT ![key] = Append(@, t)]

\* would_allow: `hits` is what _prepare left.
Allows(hits, key, limit) == Len(hits[key]) < limit
=============================================================================
