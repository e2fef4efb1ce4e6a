SPECIFICATION Spec
CONSTANTS
    t1 = t1
    t2 = t2
    Thread = {t1, t2}
    Piece <- MCPiece
    Targets <- MCTargets
    Sizes <- MCSizes
    MaxLen = 6
SYMMETRY Symmetry
INVARIANTS
    DefinedUnlessSpoilt
    LinesEndAtNewlines
PROPERTY
    ImplementsStream
