SPECIFICATION Spec
CONSTANTS
    Names <- MCNames
    Headers <- MCHeaders
INVARIANTS
    EntriesMatchTree
    VerdictMatchesTree
    TagsStayWithTheirField
PROPERTIES
    Termination
