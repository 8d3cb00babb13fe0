SPECIFICATION Spec
CONSTANTS
    A = A
    B = B
    C = C
    D = D
    TypeNames <- MCTypeNames
    TypeModels <- MCTypeModels
    Inputs <- MCInputs
INVARIANTS
    TypeOK
    DependenciesPrecedeUsers
    SuccessIsComplete
    VerdictIsExact
    OrderedInputIsKept
PROPERTIES
    ImplementsTopologicalOrder
    Termination
