SPECIFICATION Spec
CONSTANTS
    Keys <- MCKeys
    Models <- MCModels
    Fields <- MCFields
    Texts <- MCTexts
    Int64Min <- MCInt64Min
    Int64Max <- MCInt64Max
    UInt64Max <- MCUInt64Max
    EarlierErrors <- MCEarlierErrors
INVARIANTS
    PathWhileUnwinding
    PresenceIsPerObject
    ErrorTellsOutcome
PROPERTIES
    ImplementsContract
    EveryCallReturns
