SPECIFICATION FairSpec
CONSTANTS
    Main = Main
    T = T
    U = U
    NULL = NULL
    Thread = {Main, T, U}
    MaxStrand = 3
    ReadsOnce = FALSE
    Scripts <- Ending
PROPERTY
    Termination
