\* Two requests in flight, a conversation and turns without one, up to four turns with a
\* cap of two and blocks of two (a block is left out at three turns and still at four);
\* the first turn is played and translated.  Debriefs of at most two words.
CONSTANTS
    Reqs = {r1, r2}
    Sessions = {s1, none}
    NoSession = none
    HistoryMax = 2
    TrimBlock = 2
    MaxTurns = 4
    Touched = {1}
    MaxPaid = 2
    letters = letters
    Letters <- OneSpelling
    RowIds = {1, 2}
    NoRow = NoRow
    Debriefs <- FewDebriefs
SPECIFICATION SessionSpec
SYMMETRY Symmetry
INVARIANT PromptFits
INVARIANT LinePaidOnce
INVARIANT OffersCanBeTaken
CHECK_DEADLOCK FALSE
