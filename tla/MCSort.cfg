SPECIFICATION FairSpec
CONSTANTS
    Cutoff = 3
    Lists <- MCLists
INVARIANTS
    NothingLost
    SortedUnlessSkipped
PROPERTY
    Termination
