--------------------------- MODULE MCPersonalVocab ---------------------------
(***************************************************************************)
(* A small instance of PersonalVocab for TLC.                              *)
(***************************************************************************)
EXTENDS PersonalVocab, TLC

Symmetry == Permutations(Reqs)

=============================================================================
