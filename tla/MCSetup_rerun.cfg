SPECIFICATION SetupSpec
CONSTANTS
    Agents = {"claude-code", "codex"}
    Texts <- MCTexts
    Wanted <- MCWanted
    Starts <- MCStarts
    MaxInits = 2
    MaxEvents = 0
INVARIANTS ConfigStays
CHECK_DEADLOCK FALSE
