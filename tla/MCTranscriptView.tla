--------------------------- MODULE MCTranscriptView ---------------------------
(* Calls, and turns, are alike. *)
EXTENDS TranscriptView, TLC

CONSTANTS t1, t2, c1, c2

Alike == Permutations(Turn) \cup Permutations(Call)
=============================================================================
