SPECIFICATION BuildSpec
CONSTANTS
    Configurations <- MCConfigurations
    Targets <- MCTargets
    Consumers <- MCConsumers
    Headers <- MCHeaders
    Base <- MCBase
    Versions <- MCVersions
    Bad <- MCBad
    Initial = 0
    MaxEdits = 2
INVARIANTS
    OneWriterPerOutput
    CompileSeesNoWriter
PROPERTIES
    SuccessMeansCurrent
