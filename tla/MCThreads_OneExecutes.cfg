SPECIFICATION Spec
CONSTANTS
    Main = Main
    T = T
    U = U
    NULL = NULL
    Thread = {Main, T, U}
    MaxStrand = 4
    ReadsOnce = TRUE
    Scripts <- Racing
INVARIANT
    OneExecutes
