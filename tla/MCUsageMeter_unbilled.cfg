\* One learner grading one text after the other.
CONSTANTS
    Reqs = {r1}
    Kinds <- Grades
    Budget = 2
    MaxTokens = 2
    MaxDay = 1
    MaxSpent = 6
SPECIFICATION Spec
PROPERTY BudgetEnforced
CHECK_DEADLOCK FALSE
