SPECIFICATION Spec
CONSTANTS
    Names <- MCNames
    Headers <- MCHeaders
INVARIANT
    ManagedFieldsAreKept
