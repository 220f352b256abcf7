------------------------------- MODULE MCExams -------------------------------
(***************************************************************************)
(* The attempts of ExamAttempt and the walk of MockScores.  Each of the    *)
(* two moves while the other has not started.                              *)
(***************************************************************************)
EXTENDS MCExamAttempt, MockScores

ExamsInit == Init /\ MockInit

ExamsNext ==
    \/ MockInit /\ Next /\ UNCHANGED answers
    \/ Init /\ MockNext /\ UNCHANGED vars

ExamsSpec == ExamsInit /\ [][ExamsNext]_<<vars, answers>>

=============================================================================
