SPECIFICATION Spec
CONSTANTS
    Calls <- MCCalls
    Options <- MCOptions
    Files <- MCFiles
    ReadOnly <- MCReadOnly
    Contents <- MCContents
    Disks <- MCDisks
    Parses <- MCParses
    Analyses <- MCAnalyses
INVARIANTS
    OptionsFollowTheUsage
    ExitTellsTheTruth
PROPERTIES
    OnlyTheOutputChanges
    Termination
