---------------------------- MODULE ExamScoring -----------------------------
(***************************************************************************)
(* How a mock exam is scored, app/exam/clb and the marking half of         *)
(* app/exam/api record_section: TEF mocks as CLB bands, DELF mocks as      *)
(* points out of 25 for each section.  Pure operators.                     *)
(*                                                                         *)
(* A fraction is kept as <<correct, total>> and points as half points, so  *)
(* the arithmetic is exact; the code's floating point gives the same marks *)
(* for every total below 100.                                              *)
(***************************************************************************)
EXTENDS Integers, Sequences, FiniteSets, Functions

CONSTANT Format     \* the blueprint's format

ASSUME FormatAssumption == Format \in {"tef", "delf"}

Skill == {"reading", "listening", "writing", "speaking"}
Comprehension == {"reading", "listening"}

\* _BANDS: percentage reached, CLB band.
Bands == << <<90, 9>>, <<80, 8>>, <<70, 7>>, <<55, 6>>, <<40, 5>>, <<25, 4>>, <<0, 3>> >>

\* A plausible slip in the table: two bands transposed.
Band_Transposed(i) == <<Bands[i][1], CASE i = 3 -> 6 [] i = 4 -> 7 [] OTHER -> Bands[i][2]>>

Band(i) == Bands[i]

\* A plausible slip: ">" for ">="; below every threshold, 3 is returned.
Reaches_Strict(f, i) == 100 * f[1] > Band(i)[1] * f[2] \/ i = Len(Bands)

Reaches(f, i) == 100 * f[1] >= Band(i)[1] * f[2]

\* The first row whose threshold the fraction reaches.
ClbFromFraction(f) ==
    LET Reached == {i \in 1..Len(Bands) : Reaches(f, i)}
    IN Band(CHOOSE i \in Reached : \A j \in Reached : i <= j)[2]

DELF_SECTION_MAX == 25
DELF_PASS_TOTAL  == 50
DELF_SECTION_MIN == 5

\* A plausible slip: Python's round(), which takes a tie to the even number.
HalfPoint_Bankers(a, b) ==
    LET up == (4 * a + b) \div (2 * b)
    IN IF (4 * a + b) % (2 * b) = 0 /\ up % 2 = 1 THEN up - 1 ELSE up

\* half_point(a / b), halves up, counted in half points.
HalfPoint(a, b) == (4 * a + b) \div (2 * b)

DelfPoints(f) == HalfPoint(DELF_SECTION_MAX * f[1], f[2])

-----------------------------------------------------------------------------
\* What record_section accepts, and the mark it stores

\* For a comprehension skill the answer is <<correct, total>>; else a CLB estimate
\* (TEF) or a score in quarter points (DELF).
Valid(skill, answer) ==
    IF skill \in Comprehension THEN answer[2] > 0 /\ answer[1] \in 0..answer[2]
    ELSE Format = "delf" => answer \in 0..(4 * DELF_SECTION_MAX)

Clamp(n) == IF n < 1 THEN 1 ELSE IF n > 12 THEN 12 ELSE n

Mark(skill, answer) ==
    CASE skill \in Comprehension /\ Format = "tef"  -> ClbFromFraction(answer)
      [] skill \in Comprehension /\ Format = "delf" -> DelfPoints(answer)
      [] skill \notin Comprehension /\ Format = "tef"  -> Clamp(answer)
      [] skill \notin Comprehension /\ Format = "delf" -> HalfPoint(answer, 4)

-----------------------------------------------------------------------------
\* The reports.  "marks" maps the recorded skills to their marks.

Lowest(marks) == CHOOSE n \in Range(marks) : \A m \in Range(marks) : n <= m

TARGET_CLB == 7

Overall(marks) == Lowest(marks)

\* aggregate_report, of at least one skill.
ClbReport(marks) ==
    [per_skill |-> marks, overall |-> Overall(marks), met |-> Overall(marks) >= TARGET_CLB]

\* Every section must reach the minimum.
Floor(marks) == \A s \in DOMAIN marks : marks[s] >= 2 * DELF_SECTION_MIN

\* delf_report; "overall" is its total.
DelfReport(marks) ==
    LET total == SumFunction(marks)
    IN [per_skill |-> marks, overall |-> total,
        met |-> total >= 2 * DELF_PASS_TOTAL /\ Floor(marks)]

Report(marks) == IF Format = "delf" THEN DelfReport(marks) ELSE ClbReport(marks)

=============================================================================
