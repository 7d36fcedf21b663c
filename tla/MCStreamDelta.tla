--------------------------- MODULE MCStreamDelta ---------------------------
(* StreamDelta on a small instance: two words that differ are like any two. *)
EXTENDS StreamDelta, TLC

Symmetry == Permutations(Spellings)
=============================================================================
