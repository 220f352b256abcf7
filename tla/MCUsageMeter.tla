---------------------------- MODULE MCUsageMeter ----------------------------
(***************************************************************************)
(* One learner grading texts, for TLC.                                     *)
(***************************************************************************)
EXTENDS UsageMeter

Grades == {"grade"}

=============================================================================
