--------------------------- MODULE MCExamAttempt ----------------------------
(***************************************************************************)
(* Small instances of ExamAttempt for TLC.                                 *)
(***************************************************************************)
EXTENDS ExamAttempt, TLC

Symmetry == Permutations(Reqs)

FewScores == {<<1, 2>>, <<9, 10>>}

=============================================================================
