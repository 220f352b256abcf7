\* Every endpoint that pays, two requests over two days.
SPECIFICATION Spec
CONSTANTS
    l1 = l1
    l2 = l2
    u1 = u1
    u2 = u2
    u3 = u3
    s1 = s1
    x1 = x1
    None = None
    Reqs = {r1, r2}
    Lessons <- TwoLessons
    LessonLevel <- FlatLessonLevel
    Units = {}
    LessonsOf <- NoContent
    Requires <- NoContent
    UnitLevel <- NoContent
    Sets <- OneSet
    SetLevel <- FlatSetLevel
    Exams <- OneExam
    ExamLevel <- FlatExamLevel
    Daily = {"review", "drill"}
    MaxDay = 2
    MaxAttempts = 0
SYMMETRY Symmetry
INVARIANTS
    XpIsEarned
    LedgerAddsUp
PROPERTIES
    ImplementsAwards
CHECK_DEADLOCK FALSE
