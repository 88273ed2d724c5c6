SPECIFICATION WorkspaceSpec
CONSTANTS
    Threads = {t, u}
    Roots = {"r1", "r2"}
    SourceFiles = {1, 2}
    Contents = {"old", "new", "deep"}
    Deep = "deep"
    Configs = {"cached", "plain"}
    Cached = {"cached"}
    NoRoot = NoRoot
    MaxWorkspaces = 1
    Budget = 1
    Builds = 2
    MaxEdits = 1
    MaxChanges = 1
    MaxFaults = 1
    Projects <- MCProjects
    Options <- MCOptions
    Utilities <- MCUtilities
    Family <- MCFamily
    NameOrder <- MCNameOrder
    GlobMatches <- MCGlobMatches
    MaxSteps = 2
    Agents = {"claude-code", "codex"}
    Texts <- MCTexts
    Wanted <- MCWanted
    Starts <- MCStarts
    MaxInits = 2
    MaxEvents = 1
    Searchers = {p, q}
    Paths <- MCPaths
    Trees <- MCTrees
    Older <- MCOlder
    TextLikeness <- MCLikeness
    Order <- MCOrder
    Offline = FALSE
    ModelDir = FALSE
    MaxRuns = 2
    MaxCrashes = 1
    CloneThreshold = 30
    MinShape = 50
    CommentBoost = 60
    CommentRequired = FALSE
    MinCommonUses = 2
    MinCommonWordUses = 2
SYMMETRY WorkspaceSymmetry
INVARIANTS
    ReusedIsFresh
    FindingsAreExact
    FailureIsShown
    MineIsKept
    RerunChangesNothing
    SettingsCount
    IndexIsExact
    RewritesAreFound
PROPERTIES
    EvictionSparesOwn
    MovedKeepsAll
    StricterCoversMore
CHECK_DEADLOCK FALSE
