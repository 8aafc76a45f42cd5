---------------------------- MODULE MCJobRunner ----------------------------
(***************************************************************************)
(* Small instances of JobRunner for TLC.                                   *)
(***************************************************************************)
EXTENDS JobRunner, TLC

P(k, once, tainted) == [kind |-> k, once |-> once, tainted |-> tainted]

MCAll == {p \in Profile : p.kind = "watch" => ~p.once}

MCRelays == {P("relay", once, FALSE) : once \in BOOLEAN}

\* One of each shape, for two jobs at a time.
MCMixed == {P("relay", TRUE, FALSE), P("reminder", FALSE, TRUE)}

MCSymmetry == Permutations(Jobs)
=============================================================================
