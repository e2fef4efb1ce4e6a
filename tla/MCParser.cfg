SPECIFICATION Spec
CONSTANTS
    Alphabets <- MCAlphabets
    Samples <- MCSamples
CHECK_DEADLOCK FALSE
INVARIANTS
    TypeOK
    FailsLoudly
    AsGrammar
    RoundTrip
