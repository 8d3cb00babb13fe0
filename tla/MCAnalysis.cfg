SPECIFICATION Spec
CONSTANTS
    TypeNames <- MCTypeNames
    Words <- MCWords
    Inputs <- MCInputs
INVARIANTS
    VerdictMatchesSource
    FailureExposesNothing
    NothingIsDropped
    ProjectIsOrdered
PROPERTIES
    Termination
