CONSTANTS
    MaxCheckpoints = 5
    MaxResultLimit = 2
    Limits = {0, 1, 2, 3}
    NoLimit = NoLimit
    NoCursor = NoCursor

SPECIFICATION FairSpec

INVARIANT TypeOK
INVARIANT PaginationIsExact
PROPERTY WalkRefinement
