\* Two requests in flight, a word with two spellings, two ratings.
CONSTANTS
    Reqs = {r1, r2}
    MaxAccents = 1
    MaxRatings = 2
SPECIFICATION Spec
SYMMETRY Symmetry
INVARIANT RowIsWhole
INVARIANT RatingsCount
PROPERTY CardIsKept
