SPECIFICATION FairSpec
CONSTANTS
    Code <- MCCode
    Programs <- NoCont
    Globals <- MCGlobals
    Results <- MCResults
    Trees <- MCTrees
    MaxFree = 2
    MaxLog = 12
PROPERTY
    Termination
