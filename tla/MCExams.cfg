\* Two attempts at a blueprint of one section, a second skill the blueprint does not
\* list, two requests in flight.  Mocks of twenty questions a section: every band
\* threshold is met exactly, and every odd score is half-way between two half points; a
\* writing score of up to 100 quarter points.
CONSTANTS
    Format = "tef"
    Skills = {"reading", "writing"}
    Required = {"reading"}
    Scores <- FewScores
    Estimates = {6}
    MaxAttempts = 2
    Reqs = {r1, r2}
    Questions = 20
    MaxScore = 100
SPECIFICATION ExamsSpec
SYMMETRY Symmetry
INVARIANT NoSectionLost
INVARIANT ReportMatchesSections
INVARIANT RepliesAgree
INVARIANT OneOpenUnlessRaced
INVARIANT MarksAreTrue
PROPERTY ReadinessRises
PROPERTY BetterNeverHurts
CHECK_DEADLOCK FALSE
