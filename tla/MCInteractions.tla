---------------------------- MODULE MCInteractions ----------------------------
(* Small instances of Interactions for TLC. *)
EXTENDS Interactions, TLC

MCSymmetry == Permutations(Click) \cup Permutations(Deletion)
=============================================================================
