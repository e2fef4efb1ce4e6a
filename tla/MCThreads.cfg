SPECIFICATION Spec
CONSTANTS
    Main = Main
    T = T
    U = U
    NULL = NULL
    Thread = {Main, T, U}
    MaxStrand = 3
    ReadsOnce = TRUE
    Scripts <- Orderly
INVARIANTS
    OneExecutes
    AliveIsActive
    QueuedHasStrand
    ExitWaits
PROPERTY
    JoinWaits
