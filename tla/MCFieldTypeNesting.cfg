SPECIFICATION Spec
CONSTANTS
    Spellings <- MCSpellings
    Inputs <- CompilingCalls
    MaxDepth = 8
INVARIANT
    NoSelfNesting
CHECK_DEADLOCK FALSE
