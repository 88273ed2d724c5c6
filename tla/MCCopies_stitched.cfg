CONSTANTS
    Paths <- MCPaths
    Family <- MCFamily
    Skipped = {}
    Accepted = {"old.py"}
    Threshold = 4
    MaxGap = 2
    MinSeed = 2
    NearMiss = TRUE
    ClassNames = TRUE
    MinOverlap = 2
    Blocks <- MCBlocks
    Pasted <- MCPasted
    Room <- MCRoom
SPECIFICATION Spec
INVARIANTS
    CopiesAreShown
CHECK_DEADLOCK FALSE
