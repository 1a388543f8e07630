------------------------- MODULE MCSpeculativeRanker -------------------------
(* Instances of SpeculativeRanker for TLC. *)
EXTENDS SpeculativeRanker, TLC

\* Callers and keys are interchangeable: no action tells them apart.
Symmetry == Permutations(Callers) \cup Permutations(Keys)
=============================================================================
