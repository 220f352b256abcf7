----------------------------- MODULE MockScores -----------------------------
(***************************************************************************)
(* A walk through every mock exam of a given size: one more correct        *)
(* answer, or one point more on the writing, at a time.  The same answers  *)
(* are scored as a TEF mock and as a DELF mock (module ExamScoring).       *)
(***************************************************************************)
EXTENDS Integers, FiniteSets, Functions

CONSTANTS
    Questions,   \* questions of the reading and of the listening section
    MaxScore     \* the best writing score, in quarter points for DELF

ASSUME MockAssumption == Questions \in Nat \ {0} /\ MaxScore \in Nat

VARIABLE answers

Tef  == INSTANCE ExamScoring WITH Format <- "tef"
Delf == INSTANCE ExamScoring WITH Format <- "delf"

Written == "writing"
Taken == Tef!Comprehension \cup {Written}

Answer(s) == IF s = Written THEN answers[s] ELSE <<answers[s], Questions>>

TefMarks  == [s \in Taken |-> Tef!Mark(s, Answer(s))]
DelfMarks == [s \in Taken |-> Delf!Mark(s, Answer(s))]

TefResult  == Tef!Report(TefMarks)
DelfResult == Delf!Report(DelfMarks)

Top(s) == IF s = Written THEN MaxScore ELSE Questions

Blank == [s \in Taken |-> 0]

Better(s) ==
    /\ answers[s] < Top(s)
    /\ answers' = [answers EXCEPT ![s] = @ + 1]

MockInit == answers = Blank

MockNext == \E s \in Taken : Better(s)

MockSpec == MockInit /\ [][MockNext]_answers

-----------------------------------------------------------------------------
\* Properties

\* No section has more correct answers than questions, nor a score above the best.
MockTypeOK == answers \in [Taken -> Nat] /\ \A s \in Taken : answers[s] <= Top(s)

\* One more correct answer, or one point more, never lowers a mark or the overall one and
\* never undoes a target met: neither the band table of clb.py with its first-match scan,
\* nor the rounded points of a DELF mock, their total and its floors.
Raised(old, new) ==
    /\ \A s \in Taken : new.per_skill[s] >= old.per_skill[s]
    /\ new.overall >= old.overall
    /\ old.met => new.met

BetterNeverHurts ==
    [][answers' # answers =>
         Raised(TefResult, TefResult') /\ Raised(DelfResult, DelfResult')]_answers

\* What the marks stand for, read off the raw answers.  The percentage of a section that
\* every CLB level takes, by level:
Percentage == <<0, 0, 0, 25, 40, 55, 70, 80, 90>>

\* The exact points of a section and a number of half points, in parts of which a half
\* point has 2 * Questions.
Exact(s)    == IF s = Written THEN answers[s] * Questions ELSE 100 * answers[s]
InParts(hp) == 2 * Questions * hp

Distance(a, b) == IF a <= b THEN b - a ELSE a - b

\* A level is reached exactly by those with its percentage of the answers, the candidate
\* at the threshold included.
LevelsAreTrue ==
    \A s \in Tef!Comprehension, level \in DOMAIN Percentage :
        TefMarks[s] >= level <=> 100 * answers[s] >= Percentage[level] * Questions

\* "Round to the nearest half point, halves up" (clb.py:51): no other half point is
\* nearer to the exact points, and none above is as near.
PointsAreNearest ==
    \A s \in Taken :
        LET mark == DelfMarks[s]
            Off(hp) == Distance(InParts(hp), Exact(s))
            mine == Off(mark)
        IN  \A hp \in 0..(2 * Delf!DELF_SECTION_MAX) :
                mine < Off(hp) \/ (mine = Off(hp) /\ hp <= mark)

\* "a profile is only as strong as its weakest skill" (clb.py:32): the TEF goal is met by
\* those with seven answers in ten in both comprehension sections and a writing of 7.
TefGoal ==
    TefResult.met <=> /\ \A s \in Tef!Comprehension : 10 * answers[s] >= 7 * Questions
                      /\ answers[Written] >= 7

\* "a single very weak skill fails the whole exam" (clb.py:44).  What rounding decides of a
\* DELF mock is a quarter point a section: a floor is reached from 4.75 points on, and only
\* a total that close to the 50 of 100 may fall on either side of them.
AllFloors == \A s \in Taken : Exact(s) >= 19 * Questions

DelfTotal == Exact("reading") + Exact("listening") + Exact(Written)
Rounding  == Cardinality(Taken) * Questions

DelfGoal ==
    /\ DelfResult.met => AllFloors /\ DelfTotal + Rounding >= InParts(2 * Delf!DELF_PASS_TOTAL)
    /\ AllFloors /\ DelfTotal - Rounding >= InParts(2 * Delf!DELF_PASS_TOTAL) => DelfResult.met

\* A mark is what the raw answers are worth and a goal is met by those who earned it: no
\* threshold of clb.py is off by one answer, no tie is rounded down, and no section is left
\* out of account.
MarksAreTrue == LevelsAreTrue /\ PointsAreNearest /\ TefGoal /\ DelfGoal

=============================================================================
