----------------------------- MODULE MCServices -----------------------------
(* A small instance of Services: a person's turn and a job; two tool calls. *)
EXTENDS Services, TLC

CONSTANTS turn, job, m1, m2, s1, s2, p1, p2, p3

MCSays == m1 :> s1 @@ m2 :> s2

\* A preview that shows both messages as they are, and one that shows one of
\* them as the other.
MCBatches == {m1 :> s1 @@ m2 :> s2, m1 :> s1 @@ m2 :> s1}

\* One call without arguments, one whose arguments come in three pieces.
MCPieces == 0 :> 0 @@ 1 :> 3
=============================================================================
