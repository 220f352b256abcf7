\* Two attempts at a blueprint of one section, a second skill the blueprint does not
\* list, two requests in flight.
CONSTANTS
    Format = "tef"
    Skills = {"reading", "writing"}
    Required = {"reading"}
    Scores <- FewScores
    Estimates = {6}
    MaxAttempts = 2
    Reqs = {r1, r2}
SPECIFICATION Spec
SYMMETRY Symmetry
INVARIANT NoDuplicateAttempts
CHECK_DEADLOCK FALSE
