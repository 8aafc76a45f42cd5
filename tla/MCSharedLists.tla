--------------------------- MODULE MCSharedLists ----------------------------
(* A small instance of SharedLists.                                        *)
EXTENDS SharedLists, TLC

CONSTANTS ann, ben

MCReads  == [a \in Agents |-> {"own", "shared"}]
MCWrites == ann :> {"own", "shared"} @@ ben :> {"shared"}

Alike == Permutations(Names) \cup Permutations(Items)
=============================================================================
