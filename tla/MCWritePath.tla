----------------------------- MODULE MCWritePath ------------------------------
(* WritePath for TLC: which worker, and which observation, makes no difference. *)
EXTENDS WritePath

Symmetry == Permutations(Workers) \cup Permutations(Observations)

=============================================================================
