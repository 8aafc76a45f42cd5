--------------------------- MODULE MCAccessPolicy ---------------------------
(* A small instance of AccessPolicy.                                       *)
EXTENDS AccessPolicy, TLC

CONSTANTS op, a, b, x, k1, k2

MCLimit  == [m \in Meters |-> 1]
MCWindow == [m \in Meters |-> 2]

\* The old file holds nothing, or the numbers but the operator's in some order.
MCLegacies == {<<>>, <<a, b>>, <<b, a>>}

\* Numbers but the operator's, and codes, differ in name alone.
Alike == Permutations(Senders \ Operators) \cup Permutations(Codes)
=============================================================================
