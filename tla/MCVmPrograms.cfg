SPECIFICATION Spec
CONSTANTS
    Code <- SoundCode
    Programs <- SoundPrograms
    Globals <- MCGlobals
    Results <- MCResults
    Trees <- MCTrees
    Plan <- MCPlan
    Locals <- MCLocals
    Base <- MCBase
    MaxFree = 3
    MaxLog = 12
INVARIANTS
    NeverCrashes
    FramesNest
    HandlersBalanced
    ValueOrException
    RunsAsWritten
