--------------------------- MODULE MCConversation ---------------------------
(* Two turns, each response costing one token.                              *)
EXTENDS Conversation, TLC

CONSTANTS t1, t2

OneToken == {1}
TwoTurns == {t1, t2}

\* Turns differ in name only.
TurnSymmetry == Permutations(Turn)
=============================================================================
