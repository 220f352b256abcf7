\* Two questions, two requests in flight, each question missed up to three times.  Three
\* sentences in two cases, a history of two, answers of up to two sentences stored up to
\* three times, a word with two possible form tables or one that does not inflect.
CONSTANTS
    Reqs = {r1, r2}
    Slots = {s1, s2}
    Questions = {q1, q2}
    MaxMisses = 3
    Keys = {k1, k2, k3}
    Tables = {t1, t2}
    NoTable = NoTable
    Null = Null
    Count = 2
    MAX_EXAMPLE_HISTORY = 2
    MaxPresses = 3
    Unasked = Unasked
    Words <- MCWords
    Vowels <- MCVowels
    Hs <- MCHs
    AspiratedH <- MCAspiratedH
    Impersonal <- MCImpersonal
    Invariable <- MCInvariable
    EndsIn <- MCEndsIn
    FormReplies <- MCReplies
SPECIFICATION StudySpec
SYMMETRY Symmetry
INVARIANT MissesAddUp
INVARIANT QueueIsLatestVerdict
INVARIANT PastStaysVisible
INVARIANT ReadsAsStored
PROPERTY FormsAreStable
CHECK_DEADLOCK FALSE
