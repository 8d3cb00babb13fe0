SPECIFICATION MappingSpec
CONSTANTS
    Models <- MCModels
    Name <- MCName
    Fields <- MCFields
    Enumerators <- MCEnumerators
    Types <- MCTypes
    Height <- MCHeight
    Fresh <- MCFresh
    Objects <- MCObjects
    Documents <- MCDocuments
    Depth = 6
    Least <- MCLeast
    Greatest <- MCGreatest
    Scale = 4
    Rounded <- MCRounded
    Wide <- MCWide
    Undefined <- MCUndefined
    Projects <- MCProjects
    Writings <- MCWritings
    Readings <- MCReadings
INVARIANTS
    RoundTrip
    OldValuesSurviveOnlyIfAbsent
    ReferencesMeanTheirType
    ReaderAndSchemaAgree
