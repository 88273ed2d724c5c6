SPECIFICATION MCSpec
CONSTANTS
    Processes = {p, q}
    Branches = {"main", "topic", "work"}
    Rank <- MCRank
    Detached = "HEAD"
    Findings = {"f"}
    NoPrints = NoPrints
    Free = Free
    MaxBranches = 2
    ReintroWindow = 1
    MidScan = FALSE
    MaxClock = 3
    MaxStamps = 3
    MaxEdits = 2
    MaxCrashes = 1
SYMMETRY MCSymmetry
INVARIANTS
    ResolvedOnce
    ReintroductionsPaired
    RecaptureDiffsForward
    IndexedHasData
    NoCrossDiff
CHECK_DEADLOCK FALSE
