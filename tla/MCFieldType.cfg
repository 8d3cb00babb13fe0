SPECIFICATION Spec
CONSTANTS
    Spellings <- MCSpellings
    Inputs <- GroundedCalls
    MaxDepth = 8
INVARIANTS
    VerdictMatchesDiagnostics
    UnshadowedMeansCpp
PROPERTIES
    NoCascade
    Termination
