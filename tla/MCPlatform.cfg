\* Two worker threads, a cached profile with four targets of which one is not registered,
\* one that is not cached, a cache of two entries for the three that can be stored, and a
\* clock that outlives the time to live.  Twelve releases, one edit apart; two deploys after
\* the first and one crash: a release can be interrupted, superseded and rolled back.
CONSTANTS
    Threads = {t1, t2}
    Profiles <- MCProfiles
    Requests = {q}
    Static <- MCStatic
    Learned <- MCLearned
    Registered = {"glm", "haiku", "qwen"}
    Cached = {"vocab_enrich"}
    Ttl <- MCTtl
    MaxEntries = 2
    MaxTime = 3
    GrammarCategories <- MCGrammarCategories
    UnitIcons <- MCUnitIcons
    KnownGaps = {}
    ConjugatedOnly <- MCConjugatedOnly
    MinCoverage <- MCMinCoverage
    Releases <- MCReleases
    Tree <- MCTree
    First = "base"
    LEVELS <- MCLEVELS
    MaxDeploys = 2
    MaxCrashes = 1
SPECIFICATION PlatformSpec
INVARIANT RecentKept
INVARIANT FailsOnlyAfterAll
INVARIANT ServesTheRelease
INVARIANT MocksResolve
INVARIANT CheckedReleaseBoots
INVARIANT CheckedReleaseTeaches
PROPERTY HitsAreFresh
PROPERTY EveryCallEnds
PROPERTY EveryBootEnds
CHECK_DEADLOCK FALSE
