\* Two releases, one of which moves a lesson to the next level; a rollback.
CONSTANTS
    GrammarCategories <- MCGrammarCategories
    UnitIcons <- MCUnitIcons
    KnownGaps = {}
    ConjugatedOnly <- MCConjugatedOnly
    MinCoverage <- MCMinCoverage
    Releases = {"base", "moved"}
    Tree <- MCTree
    First = "base"
    LEVELS <- MCLEVELS
    MaxDeploys = 2
    MaxCrashes = 0
SPECIFICATION BootSpec
INVARIANT RedeployIsSafe
CHECK_DEADLOCK FALSE
