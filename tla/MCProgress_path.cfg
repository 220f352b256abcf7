\* The gated path and the streak: two requests over three days, the waive hatch
\* included, with a comprehension set of a lower level.
SPECIFICATION Spec
CONSTANTS
    l1 = l1
    l2 = l2
    u1 = u1
    u2 = u2
    u3 = u3
    s1 = s1
    x1 = x1
    None = None
    Reqs = {r1, r2}
    Lessons <- TwoLessons
    LessonLevel <- PathLessonLevel
    Units <- PathUnits
    LessonsOf <- PathLessonsOf
    Requires <- PathRequires
    UnitLevel <- PathUnitLevel
    Sets <- OneSet
    SetLevel <- PathSetLevel
    Exams = {}
    ExamLevel <- NoContent
    Daily = {}
    MaxDay = 3
    MaxAttempts = 2
SYMMETRY Symmetry
INVARIANTS
    WaiverIsEarned
    ResultsOnlyBehindOpenGates
    StreakIsTheRun
PROPERTIES
    PathOnlyOpens
CHECK_DEADLOCK FALSE
