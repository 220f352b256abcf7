----------------------------- MODULE MCProgress -----------------------------
(***************************************************************************)
(* Instances of Progress for TLC: a gated path of three units, and two     *)
(* ungated lessons among the other things that pay.                        *)
(***************************************************************************)
EXTENDS Progress, TLC

CONSTANTS l1, l2, u1, u2, u3, s1, x1

TwoLessons  == {l1, l2}
OneSet      == {s1}
OneExam     == {x1}

\* Unit u1 is open, u2 requires u1, and u3, which has no lessons yet, requires u2 and
\* the lesson of u1.  The path is of level a2, the set of level a1.
PathUnits       == {u1, u2, u3}
PathLessonsOf   == u1 :> {l1} @@ u2 :> {l2} @@ u3 :> {}
PathRequires    == u1 :> {} @@ u2 :> {u1} @@ u3 :> {u2, l1}
PathUnitLevel   == [u \in PathUnits |-> 2]
PathLessonLevel == [l \in TwoLessons |-> 2]
PathSetLevel    == s1 :> 1

\* Lessons no unit gates, of levels a2 and b1: what matters is what is paid.
FlatLessonLevel == l1 :> 2 @@ l2 :> 3
FlatSetLevel    == s1 :> 2
FlatExamLevel   == x1 :> 3

NoContent == <<>>

Symmetry == Permutations(Reqs)

=============================================================================
