--------------------------- MODULE MCConversation ---------------------------
(***************************************************************************)
(* Small instances of Conversation for TLC.                                *)
(***************************************************************************)
EXTENDS Conversation, TLC

\* A turn that stages a job and a relay, and one that stages a relay alone.
MCBoth == {<<"store", "relay">>}

MCRelay == {<<"relay">>}

MCSymmetry == Permutations(Agents)
=============================================================================
