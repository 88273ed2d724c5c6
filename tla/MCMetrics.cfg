SPECIFICATION MCSpec
CONSTANTS
    Processes = {p, q}
    Findings = {"f", "g"}
    Hashes = {"h"}
    NoHash = "none"
    Nobody = Nobody
    Garbage = Garbage
    Kept = 0
    Window = 0
    MaxLog = 1
    MinAdjudicated = 2
    MaxEvents = 2
    MaxMarks = 2
    Given = {"clear", "false_positive"}
    MaxClock = 1
    MaxFaults = 1
SYMMETRY MCSymmetry
INVARIANTS
    CountedOnce
    RecentIsLogged
    VerdictsKept
    NoisyNeedsEvidence
CHECK_DEADLOCK FALSE
