SPECIFICATION FairSpec
CONSTANTS
    t1 = t1
    t2 = t2
    Thread = {t1, t2}
    Module <- MCModule
    Scripts <- MCScripts
    Body <- MCBody
    Place <- MCPlace
    Attribute <- MCAttribute
    MaxDepth = 3
INVARIANT
    CachedIsComplete
PROPERTIES
    StaysUnlessOverlapped
    PassedIsImported
    Termination
