SPECIFICATION MCSpec
CONSTANTS
    Roots <- MCRoots
    Rank <- MCRank
    MaxScans = 2
    Files <- MCFiles
    Contents = {"x", "y"}
    Under <- MCUnder
    Owner <- MCOwner
    MaxEvents = 2
INVARIANTS
    SettledIsFresh
    ShownIsPublished
PROPERTIES
    RootsComeToRest
    ExitEnds
    ImplementsPool
